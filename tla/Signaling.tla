----------------------------- MODULE Signaling -----------------------------
(***************************************************************************)
(* The PeerJS signaling server (main.go, SignalingServer): which WebSocket *)
(* serves which peer id, and which peer tokens count as present.  One      *)
(* goroutine per connection runs HandleWebSocket; the admin's KickClient   *)
(* and the SSO check of a token (ValidatePeerToken) come from HTTP.        *)
(* Two locks matter: the server's RWMutex (smu) and one mutex per client   *)
(* (cmu), held for the length of a write, which a deadline of 10 seconds   *)
(* bounds.  AddClient and KickClient wait for the second with the first in *)
(* hand.  Time is counted in ticks of an unspecified length; the contents  *)
(* of the messages are left out.                                           *)
(***************************************************************************)
EXTENDS Naturals

CONSTANTS
  Conn,        \* WebSocket connections
  Id,          \* peer ids
  Token,       \* peer tokens; every connection of the model has one
  None,        \* no client, no goroutine, no token age
  Admin, Ping, \* the goroutines that are not connections
  Grace,       \* ticks a recent token stays valid: 5 minutes in the code
  Keep,        \* ticks after which AddClient forgets a token: 10 minutes
  Timed        \* whether time passes in this instance

ASSUME SignalingAssumption ==
  /\ None \notin Conn /\ Admin \notin Conn /\ Ping \notin Conn /\ None \notin Nat
  /\ None # Admin /\ None # Ping /\ Admin # Ping
  /\ Grace \in Nat /\ Keep \in Nat /\ Grace <= Keep
  /\ Timed \in BOOLEAN

VARIABLES
  pc,        \* pc[c]: where the goroutine of c is
  id, token, \* id[c], token[c]: the query parameters of c
  clients,   \* clients[i]: the connection registered under i
  recent,    \* recent[i][t]: the age of the entry of recentTokens, None if absent
  closed,    \* closed[c]: the server has closed the socket
  gone,      \* gone[c]: the client has gone, or the network to it
  smu,       \* who holds the server's mutex for writing across steps
  cmu,       \* cmu[c]: who holds the mutex of the client of c
  target,    \* target[c]: the connection c is about to write to
  kick,      \* the id KickClient is at work on, None when idle
  sinceAdd   \* sinceAdd[i][t]: history, age of the last AddClient with i and t

sockVars == <<closed, gone>>
vars == <<pc, id, token, clients, recent, sockVars, smu, cmu, target, kick, sinceAdd>>

Age == 0..Keep + 1                       \* the last one stands for all later ones
Place == {"new", "adding", "replacing", "opening", "open", "loop", "lookup", "send",
          "sending", "removing", "closing", "ended"}

TypeOK ==
  /\ pc \in [Conn -> Place]
  /\ id \in [Conn -> Id] /\ token \in [Conn -> Token]
  /\ clients \in [Id -> Conn \cup {None}]
  /\ recent \in [Id -> [Token -> Age \cup {None}]]
  /\ closed \in [Conn -> BOOLEAN] /\ gone \in [Conn -> BOOLEAN]
  /\ smu \in Conn \cup {Admin, None}
  /\ cmu \in [Conn -> Conn \cup {Ping, None}]
  /\ target \in [Conn -> Conn \cup Id \cup {None}]
  /\ \A c \in Conn : /\ pc[c] = "lookup" => target[c] \in Id
                     /\ pc[c] \in {"send", "sending"} => target[c] \in Conn
  /\ kick \in Id \cup {None}
  /\ sinceAdd \in [Id -> [Token -> Age]]

Never == [i \in Id |-> [t \in Token |-> Keep + 1]]
Init ==
  /\ pc = [c \in Conn |-> "new"]
  /\ id \in [Conn -> Id] /\ token \in [Conn -> Token]
  /\ clients = [i \in Id |-> None]
  /\ recent = [i \in Id |-> [t \in Token |-> None]]
  /\ closed = [c \in Conn |-> FALSE] /\ gone = [c \in Conn |-> FALSE]
  /\ smu = None /\ cmu = [c \in Conn |-> None] /\ target = [c \in Conn |-> None]
  /\ kick = None
  /\ sinceAdd = Never

-----------------------------------------------------------------------------
(* The environment *)

Connect(c) ==
  /\ pc[c] = "new"
  /\ pc' = [pc EXCEPT ![c] = "adding"]
  /\ UNCHANGED <<id, token, clients, recent, sockVars, smu, cmu, target, kick, sinceAdd>>

\* The client, or the network to it, is lost while the connection is served.
GoesAway(c) ==
  /\ pc[c] \notin {"new", "ended"} /\ ~gone[c]
  /\ gone' = [gone EXCEPT ![c] = TRUE]
  /\ UNCHANGED <<pc, id, token, clients, recent, closed, smu, cmu, target, kick, sinceAdd>>

Older(a) == IF a = None THEN None ELSE IF a > Keep THEN a ELSE a + 1

Tick ==
  /\ Timed
  /\ recent' = [i \in Id |-> [t \in Token |-> Older(recent[i][t])]]
  /\ sinceAdd' = [i \in Id |-> [t \in Token |-> Older(sinceAdd[i][t])]]
  /\ UNCHANGED <<pc, id, token, clients, sockVars, smu, cmu, target, kick>>

-----------------------------------------------------------------------------
(* AddClient *)

AddLock(c) ==
  /\ pc[c] = "adding" /\ smu = None
  /\ smu' = c
  /\ pc' = [pc EXCEPT ![c] = "replacing"]
  /\ UNCHANGED <<id, token, clients, recent, sockVars, cmu, target, kick, sinceAdd>>

ClientUnlocked(o) == o # None => cmu[o] = None
ClosedWith_None(o) == closed                                          \* mutant
ClosedWith(o) == [c \in Conn |-> closed[c] \/ c = o]

\* The entry is stamped, and what is older than Keep is dropped for that id.
Stamped_Alone(r, t) == [u \in Token |-> IF u = t THEN 0 ELSE None]    \* mutant
Stamped(r, t) ==
  [u \in Token |-> IF u = t THEN 0 ELSE IF r[u] # None /\ r[u] > Keep THEN None ELSE r[u]]

AddReplace(c) ==
  LET i == id[c]
      t == token[c]
      old == clients[i] IN
  /\ pc[c] = "replacing" /\ ClientUnlocked(old)
  /\ closed' = ClosedWith(old)
  /\ clients' = [clients EXCEPT ![i] = c]
  /\ recent' = [recent EXCEPT ![i] = Stamped(@, t)]
  /\ sinceAdd' = [sinceAdd EXCEPT ![i][t] = 0]
  /\ smu' = None
  /\ pc' = [pc EXCEPT ![c] = "opening"]
  /\ UNCHANGED <<id, token, gone, cmu, target, kick>>

-----------------------------------------------------------------------------
(* SendJSON: c writes to the client of d, with d's mutex in hand *)

TakeClient(c, d) == cmu[d] = None /\ cmu' = [cmu EXCEPT ![d] = c]
FreeClient(d) == cmu' = [cmu EXCEPT ![d] = None]

OpenLock(c) ==
  /\ pc[c] = "opening" /\ TakeClient(c, c)
  /\ pc' = [pc EXCEPT ![c] = "open"]
  /\ UNCHANGED <<id, token, clients, recent, sockVars, smu, target, kick, sinceAdd>>

\* The OPEN message: on a lost connection its write may fail.
OpenSent(c) ==
  /\ pc[c] = "open" /\ FreeClient(c)
  /\ \/ pc' = [pc EXCEPT ![c] = "loop"]
     \/ (gone[c] \/ closed[c]) /\ pc' = [pc EXCEPT ![c] = "removing"]
  /\ UNCHANGED <<id, token, clients, recent, sockVars, smu, target, kick, sinceAdd>>

\* A message for the peer dst has been read (HEARTBEAT: a message for itself
\* that needs no lookup).
Receive(c, dst) ==
  /\ pc[c] = "loop" /\ ~gone[c] /\ ~closed[c]
  /\ pc' = [pc EXCEPT ![c] = "lookup"]
  /\ target' = [target EXCEPT ![c] = dst]
  /\ UNCHANGED <<id, token, clients, recent, sockVars, smu, cmu, kick, sinceAdd>>

Heartbeat(c) ==
  /\ pc[c] = "loop" /\ ~gone[c] /\ ~closed[c]
  /\ pc' = [pc EXCEPT ![c] = "send"]
  /\ target' = [target EXCEPT ![c] = c]
  /\ UNCHANGED <<id, token, clients, recent, sockVars, smu, cmu, kick, sinceAdd>>

\* GetClient; a peer that is not there is answered with ERROR to the sender.
Recipient(c) == LET found == clients[target[c]] IN IF found = None THEN c ELSE found

Lookup(c) ==
  /\ pc[c] = "lookup" /\ smu = None
  /\ target' = [target EXCEPT ![c] = Recipient(c)]
  /\ pc' = [pc EXCEPT ![c] = "send"]
  /\ UNCHANGED <<id, token, clients, recent, sockVars, smu, cmu, kick, sinceAdd>>

SendLock(c) ==
  /\ pc[c] = "send" /\ TakeClient(c, target[c])
  /\ pc' = [pc EXCEPT ![c] = "sending"]
  /\ UNCHANGED <<id, token, clients, recent, sockVars, smu, target, kick, sinceAdd>>

\* Written, failed or out of time: the error is only logged.
WriteEnds_NoDeadline(d) == ~gone[d]                                   \* mutant
WriteEnds(d) == TRUE
SendDone(c) ==
  /\ pc[c] = "sending" /\ WriteEnds(target[c]) /\ FreeClient(target[c])
  /\ pc' = [pc EXCEPT ![c] = "loop"]
  /\ target' = [target EXCEPT ![c] = None]
  /\ UNCHANGED <<id, token, clients, recent, sockVars, smu, kick, sinceAdd>>

\* The helper goroutine that writes a PING every 20 seconds.
PingLock(c) ==
  /\ pc[c] \in {"loop", "lookup", "send", "sending"} /\ TakeClient(Ping, c)
  /\ UNCHANGED <<pc, id, token, clients, recent, sockVars, smu, target, kick, sinceAdd>>
PingDone(c) ==
  /\ cmu[c] = Ping /\ WriteEnds(c) /\ FreeClient(c)
  /\ UNCHANGED <<pc, id, token, clients, recent, sockVars, smu, target, kick, sinceAdd>>

-----------------------------------------------------------------------------
(* The end of a connection: RemoveClient, then Close *)

ReadFails(c) ==
  /\ pc[c] = "loop" /\ (gone[c] \/ closed[c])
  /\ pc' = [pc EXCEPT ![c] = "removing"]
  /\ UNCHANGED <<id, token, clients, recent, sockVars, smu, cmu, target, kick, sinceAdd>>

\* "Only remove if it matches the current conn (prevent race when a reconnect
\* has already registered a new conn)", and the token.
Matches_IdOnly(c) == clients[id[c]] # None                            \* mutant
Matches(c) == clients[id[c]] = c

RemoveClient(c) ==
  /\ pc[c] = "removing" /\ smu = None
  /\ clients' = IF Matches(c) THEN [clients EXCEPT ![id[c]] = None] ELSE clients
  /\ pc' = [pc EXCEPT ![c] = "closing"]
  /\ UNCHANGED <<id, token, recent, sockVars, smu, cmu, target, kick, sinceAdd>>

Close(c) ==
  /\ pc[c] = "closing"
  /\ closed' = [closed EXCEPT ![c] = TRUE]
  /\ pc' = [pc EXCEPT ![c] = "ended"]
  /\ UNCHANGED <<id, token, clients, recent, gone, smu, cmu, target, kick, sinceAdd>>

-----------------------------------------------------------------------------
(* KickClient *)

KickLock(i) ==
  /\ kick = None /\ smu = None
  /\ IF clients[i] = None THEN UNCHANGED <<kick, smu>> ELSE kick' = i /\ smu' = Admin
  /\ UNCHANGED <<pc, id, token, clients, recent, sockVars, cmu, target, sinceAdd>>

KickClose ==
  /\ kick # None /\ ClientUnlocked(clients[kick])
  /\ closed' = ClosedWith(clients[kick])
  /\ clients' = [clients EXCEPT ![kick] = None]
  /\ kick' = None /\ smu' = None
  /\ UNCHANGED <<pc, id, token, recent, gone, cmu, target, sinceAdd>>

-----------------------------------------------------------------------------

\* What the goroutine of c does when it needs a mutex, and when it needs none.
Locking(c) ==
  \/ AddLock(c) \/ AddReplace(c) \/ OpenLock(c) \/ Lookup(c) \/ SendLock(c) \/ RemoveClient(c)
Going(c) == OpenSent(c) \/ SendDone(c) \/ ReadFails(c) \/ Close(c)
Client(c) == Connect(c) \/ GoesAway(c) \/ Heartbeat(c) \/ (\E i \in Id : Receive(c, i))

Next ==
  \/ \E c \in Conn : Client(c) \/ Locking(c) \/ Going(c) \/ PingLock(c) \/ PingDone(c)
  \/ \E i \in Id : KickLock(i)
  \/ KickClose \/ Tick

Spec == Init /\ [][Next]_vars

\* Goroutines run, and Go's mutexes starve nobody: who wants one gets it.
FairSpec ==
  /\ Spec
  /\ SF_vars(KickClose)
  /\ \A c \in Conn : WF_vars(Going(c)) /\ WF_vars(PingDone(c)) /\ SF_vars(Locking(c))

-----------------------------------------------------------------------------
(* Properties *)

\* ValidatePeerToken
ValidPeerToken(i, t) ==
  \/ clients[i] # None /\ token[clients[i]] = t
  \/ recent[i][t] # None /\ recent[i][t] < Grace

Served(c) == pc[c] \in {"opening", "open", "loop", "lookup", "send", "sending"}

\* Whom a look at the registry finds is being served under that id, or its loop
\* has ended and it is about to be taken out.  (A forward that has looked earlier
\* may still write to a connection that is gone by then; the write fails and is
\* logged.)  And a connection that is served is the one its id is registered to,
\* unless the server has closed it: the late end of an old connection never takes
\* a new one out, and nobody stays open without being reachable.
RegistryServes ==
  /\ TypeOK
  /\ \A i \in Id : clients[i] # None =>
       /\ id[clients[i]] = i
       /\ Served(clients[i]) \/ pc[clients[i]] = "removing"
  /\ \A c \in Conn : Served(c) => clients[id[c]] = c \/ closed[c]

\* A token counts as present for Grace after its last AddClient, whatever else
\* connects, leaves or is forgotten under that id.
TokenGraceAfterConnect ==
  \A i \in Id, t \in Token : sinceAdd[i][t] < Grace => ValidPeerToken(i, t)

\* A peer that connects gets registered, and one that is kicked or leaves is let
\* go: the deadline of every write keeps a client that does not read from
\* holding its mutex, and with it the whole server, for ever.
NobodyWaitsForEver ==
  \A c \in Conn :
    /\ (pc[c] = "adding") ~> Served(c)
    /\ (Served(c) /\ closed[c]) ~> (pc[c] = "ended")

\* The promise of the registry, PeerRegistry: an id has one connection at most,
\* the last to claim it, which never gets it back once it has lost it; and a
\* connection that ends takes nobody's id but its own.
Past(c) == pc[c] \in {"closing", "ended"}
Before(c) == pc[c] \in {"new", "adding", "replacing"}
Registry == INSTANCE PeerRegistry WITH
  owner <- clients, spent <- {c \in Conn : ~Before(c)}, left <- {c \in Conn : Past(c)}
ImplementsRegistry == Registry!Spec
=============================================================================
