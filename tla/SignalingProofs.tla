--------------------------- MODULE SignalingProofs ---------------------------
(***************************************************************************)
(* Theorems about Signaling: typing, who is registered and served, the     *)
(* grace period of a token, and that the server implements PeerRegistry.   *)
(***************************************************************************)
EXTENDS Signaling, TLAPS

\* The next step of the server, goroutine by goroutine.
LEMMA Steps ==
  ASSUME Next
  PROVE  \/ \E c \in Conn : \/ Connect(c) \/ GoesAway(c) \/ Heartbeat(c)
                            \/ \E i \in Id : Receive(c, i)
                            \/ AddLock(c) \/ AddReplace(c) \/ OpenLock(c) \/ Lookup(c)
                            \/ SendLock(c) \/ RemoveClient(c)
                            \/ OpenSent(c) \/ SendDone(c) \/ ReadFails(c) \/ Close(c)
                            \/ PingLock(c) \/ PingDone(c)
         \/ \E i \in Id : KickLock(i)
         \/ KickClose \/ Tick
BY DEF Next, Client, Locking, Going

-----------------------------------------------------------------------------
(* Typing *)

\* Ages stay ages: what is older than Keep is not told apart.
LEMMA OlderType ==
  ASSUME NEW a \in Age
  PROVE  Older(a) \in Age /\ Older(None) = None
BY SignalingAssumption DEF Older, Age

LEMMA InitTyped == Init => TypeOK
BY SignalingAssumption DEF Init, TypeOK, Never, Age, Place

LEMMA StepTyped == TypeOK /\ [Next]_vars => TypeOK'
<1> SUFFICES ASSUME TypeOK, [Next]_vars PROVE TypeOK'
  OBVIOUS
<1> USE SignalingAssumption DEF TypeOK, Place
<1>1. CASE UNCHANGED vars
  BY <1>1 DEF vars, sockVars
<1>2. ASSUME NEW c \in Conn, Connect(c) PROVE TypeOK'
  BY <1>2 DEF Connect, sockVars
<1>3. ASSUME NEW c \in Conn, GoesAway(c) PROVE TypeOK'
  BY <1>3 DEF GoesAway
<1>4. ASSUME NEW c \in Conn, Heartbeat(c) PROVE TypeOK'
  BY <1>4 DEF Heartbeat, sockVars
<1>5. ASSUME NEW c \in Conn, NEW i \in Id, Receive(c, i) PROVE TypeOK'
  BY <1>5 DEF Receive, sockVars
<1>6. ASSUME NEW c \in Conn, AddLock(c) PROVE TypeOK'
  BY <1>6 DEF AddLock, sockVars
<1>7. ASSUME NEW c \in Conn, AddReplace(c) PROVE TypeOK'
  <2> DEFINE i == id[c]  t == token[c]
  <2>1. 0 \in Age
    BY DEF Age
  <2>2. Stamped(recent[i], t) \in [Token -> Age \cup {None}]
    BY <2>1 DEF Stamped
  <2>3. recent' \in [Id -> [Token -> Age \cup {None}]]
    BY <1>7, <2>2 DEF AddReplace
  <2>4. sinceAdd' \in [Id -> [Token -> Age]]
    BY <1>7, <2>1 DEF AddReplace
  <2>5. closed' \in [Conn -> BOOLEAN]
    BY <1>7 DEF AddReplace, ClosedWith
  <2> QED
    BY <1>7, <2>3, <2>4, <2>5 DEF AddReplace
<1>8. ASSUME NEW c \in Conn, OpenLock(c) PROVE TypeOK'
  BY <1>8 DEF OpenLock, TakeClient, sockVars
<1>9. ASSUME NEW c \in Conn, Lookup(c) PROVE TypeOK'
  BY <1>9 DEF Lookup, Recipient, sockVars
<1>10. ASSUME NEW c \in Conn, SendLock(c) PROVE TypeOK'
  BY <1>10 DEF SendLock, TakeClient, sockVars
<1>11. ASSUME NEW c \in Conn, RemoveClient(c) PROVE TypeOK'
  BY <1>11 DEF RemoveClient, sockVars
<1>12. ASSUME NEW c \in Conn, OpenSent(c) PROVE TypeOK'
  BY <1>12 DEF OpenSent, FreeClient, sockVars
<1>13. ASSUME NEW c \in Conn, SendDone(c) PROVE TypeOK'
  BY <1>13 DEF SendDone, FreeClient, sockVars
<1>14. ASSUME NEW c \in Conn, ReadFails(c) PROVE TypeOK'
  BY <1>14 DEF ReadFails, sockVars
<1>15. ASSUME NEW c \in Conn, Close(c) PROVE TypeOK'
  BY <1>15 DEF Close
<1>16. ASSUME NEW c \in Conn, PingLock(c) PROVE TypeOK'
  BY <1>16 DEF PingLock, TakeClient, sockVars
<1>17. ASSUME NEW c \in Conn, PingDone(c) PROVE TypeOK'
  BY <1>17 DEF PingDone, FreeClient, sockVars
<1>18. ASSUME NEW i \in Id, KickLock(i) PROVE TypeOK'
  BY <1>18 DEF KickLock, sockVars
<1>19. CASE KickClose
  BY <1>19 DEF KickClose, ClosedWith
<1>20. CASE Tick
  <2>1. ASSUME NEW i \in Id, NEW t \in Token
        PROVE  Older(recent[i][t]) \in Age \cup {None} /\ Older(sinceAdd[i][t]) \in Age
    BY OlderType DEF Older
  <2> QED
    BY <1>20, <2>1 DEF Tick, sockVars
<1> QED
  BY <1>1, <1>2, <1>3, <1>4, <1>5, <1>6, <1>7, <1>8, <1>9, <1>10, <1>11, <1>12, <1>13,
     <1>14, <1>15, <1>16, <1>17, <1>18, <1>19, <1>20, Steps

\* Every reachable state of the signaling server is well typed.
THEOREM TypeCorrect == Spec => []TypeOK
BY InitTyped, StepTyped, PTL DEF Spec

-----------------------------------------------------------------------------
(* Who is registered and who is served *)

\* The two halves of RegistryServes, each of which needs the other: RemoveClient
\* leaves nobody behind because who is registered is registered under its own
\* id, and AddClient nobody open because who is served is registered or closed.
Leads == \A i \in Id : clients[i] # None =>
           id[clients[i]] = i /\ (Served(clients[i]) \/ pc[clients[i]] = "removing")
Reachable == \A c \in Conn : Served(c) => clients[id[c]] = c \/ closed[c]
RegInv == TypeOK /\ Leads /\ Reachable

LEMMA InitServes == Init => RegInv
BY InitTyped, SignalingAssumption DEF Init, RegInv, Leads, Reachable, Served

\* An action that leaves the registry and the closed sockets alone, moves one
\* goroutine only and keeps it served or takes it from "removing"'s predecessors.
LEMMA Moves ==
  ASSUME RegInv, TypeOK', UNCHANGED <<clients, id, closed>>,
         \A c \in Conn : Served(c)' => Served(c),
         \A c \in Conn : Served(c) \/ pc[c] = "removing" => Served(c)' \/ pc'[c] = "removing"
  PROVE  RegInv'
<1>1. Leads'
  BY DEF RegInv, Leads, TypeOK, Served
<1>2. Reachable'
  BY DEF RegInv, Reachable, TypeOK, Served
<1> QED
  BY <1>1, <1>2 DEF RegInv

LEMMA StepServes == RegInv /\ [Next]_vars => RegInv'
<1> SUFFICES ASSUME RegInv, [Next]_vars PROVE RegInv'
  OBVIOUS
<1>0. TypeOK /\ TypeOK'
  BY StepTyped DEF RegInv
<1> USE SignalingAssumption
<1>1. CASE UNCHANGED vars
  BY <1>0, <1>1, Moves DEF vars, sockVars, Served
<1>2. ASSUME NEW c \in Conn, \/ Connect(c) \/ Heartbeat(c) \/ (\E i \in Id : Receive(c, i))
                             \/ OpenLock(c) \/ OpenSent(c) \/ SendDone(c) \/ ReadFails(c)
      PROVE  RegInv'
  BY <1>0, <1>2, Moves DEF TypeOK, Served, Connect, Heartbeat, Receive, OpenLock, OpenSent, SendDone,
     ReadFails, sockVars
<1>3. ASSUME NEW c \in Conn, \/ GoesAway(c) \/ AddLock(c) \/ Lookup(c) \/ SendLock(c)
                             \/ PingLock(c) \/ PingDone(c)
      PROVE  RegInv'
  BY <1>0, <1>3, Moves DEF TypeOK, Served, GoesAway, AddLock, Lookup, SendLock, PingLock, PingDone,
     sockVars
<1>4. ASSUME NEW c \in Conn, AddReplace(c) PROVE RegInv'
  <2>1. /\ clients' = [clients EXCEPT ![id[c]] = c] /\ pc' = [pc EXCEPT ![c] = "opening"]
        /\ id' = id /\ closed' = [d \in Conn |-> closed[d] \/ d = clients[id[c]]]
        /\ pc[c] = "replacing"
    BY <1>4 DEF AddReplace, ClosedWith
  <2>2. Leads'
    BY <1>0, <2>1 DEF RegInv, Leads, TypeOK, Served
  <2>3. Reachable'
    BY <1>0, <2>1 DEF RegInv, Reachable, TypeOK, Served
  <2> QED
    BY <1>0, <2>2, <2>3 DEF RegInv
<1>5. ASSUME NEW c \in Conn, RemoveClient(c) PROVE RegInv'
  <2>1. /\ clients' = IF clients[id[c]] = c THEN [clients EXCEPT ![id[c]] = None] ELSE clients
        /\ pc' = [pc EXCEPT ![c] = "closing"] /\ pc[c] = "removing"
        /\ id' = id /\ closed' = closed
    BY <1>5 DEF RemoveClient, Matches, sockVars
  <2>2. Leads'
    BY <1>0, <2>1 DEF RegInv, Leads, TypeOK, Served
  <2>3. Reachable'
    BY <1>0, <2>1 DEF RegInv, Reachable, TypeOK, Served
  <2> QED
    BY <1>0, <2>2, <2>3 DEF RegInv
<1>6. ASSUME NEW c \in Conn, Close(c) PROVE RegInv'
  <2>1. /\ closed' = [closed EXCEPT ![c] = TRUE] /\ pc' = [pc EXCEPT ![c] = "ended"]
        /\ pc[c] = "closing" /\ id' = id /\ clients' = clients
    BY <1>6 DEF Close
  <2>2. Leads'
    BY <1>0, <2>1 DEF RegInv, Leads, TypeOK, Served
  <2>3. Reachable'
    BY <1>0, <2>1 DEF RegInv, Reachable, TypeOK, Served
  <2> QED
    BY <1>0, <2>2, <2>3 DEF RegInv
<1>7. ASSUME NEW i \in Id, KickLock(i) PROVE RegInv'
  BY <1>0, <1>7, Moves DEF KickLock, sockVars, Served
<1>8. CASE KickClose
  <2>1. /\ clients' = [clients EXCEPT ![kick] = None] /\ pc' = pc /\ id' = id
        /\ closed' = [d \in Conn |-> closed[d] \/ d = clients[kick]] /\ kick \in Id
    BY <1>0, <1>8 DEF KickClose, ClosedWith, TypeOK
  <2>2. Leads'
    BY <1>0, <2>1 DEF RegInv, Leads, TypeOK, Served
  <2>3. Reachable'
    BY <1>0, <2>1 DEF RegInv, Leads, Reachable, TypeOK, Served
  <2> QED
    BY <1>0, <2>2, <2>3 DEF RegInv
<1>9. CASE Tick
  BY <1>0, <1>9, Moves DEF Tick, sockVars, Served
<1> QED
  BY <1>1, <1>2, <1>3, <1>4, <1>5, <1>6, <1>7, <1>8, <1>9, Steps

LEMMA Serves == Spec => []RegInv
BY InitServes, StepServes, PTL DEF Spec

\* The registry leads to connections that are being served, and a connection that
\* is served can be reached by its id unless the server has closed it.
THEOREM RegistryLeads == Spec => []RegistryServes
<1>1. RegInv => RegistryServes
  BY DEF RegInv, Leads, Reachable, RegistryServes
<1> QED
  BY <1>1, Serves, PTL

-----------------------------------------------------------------------------
(* The grace period *)

\* As long as a token is not older than Keep, its entry is there and has the
\* age that has passed since AddClient: only what is older is ever dropped.
Remembered == \A i \in Id, t \in Token : sinceAdd[i][t] <= Keep => recent[i][t] = sinceAdd[i][t]
GraceInv == TypeOK /\ Remembered

LEMMA InitRemembers == Init => GraceInv
<1> SUFFICES ASSUME Init PROVE Remembered
  BY InitTyped DEF GraceInv
<1>1. \A i \in Id, t \in Token : sinceAdd[i][t] = Keep + 1
  BY DEF Init, Never
<1> QED
  BY <1>1, SignalingAssumption DEF Remembered

LEMMA StepRemembers == GraceInv /\ [Next]_vars => GraceInv'
<1> SUFFICES ASSUME GraceInv, [Next]_vars PROVE Remembered'
  BY StepTyped DEF GraceInv
<1>0. TypeOK /\ Remembered
  BY DEF GraceInv
<1> USE SignalingAssumption
<1>1. CASE UNCHANGED <<recent, sinceAdd>>
  BY <1>0, <1>1 DEF Remembered
<1>2. ASSUME NEW c \in Conn, AddReplace(c) PROVE Remembered'
  <2> SUFFICES ASSUME NEW i \in Id, NEW t \in Token, sinceAdd'[i][t] <= Keep
               PROVE  recent'[i][t] = sinceAdd'[i][t]
    BY DEF Remembered
  <2>1. id[c] \in Id /\ token[c] \in Token /\ sinceAdd[i][t] \in Age
    BY <1>0 DEF TypeOK
  <2>2. /\ recent' = [recent EXCEPT ![id[c]] = Stamped(@, token[c])]
        /\ sinceAdd' = [sinceAdd EXCEPT ![id[c]][token[c]] = 0]
    BY <1>2 DEF AddReplace
  <2>3. CASE i # id[c]
    BY <1>0, <2>1, <2>2, <2>3 DEF TypeOK, Remembered
  <2>4. CASE i = id[c] /\ t = token[c]
    BY <1>0, <2>1, <2>2, <2>4 DEF TypeOK, Stamped
  <2>5. CASE i = id[c] /\ t # token[c]
    <3>1. sinceAdd'[i][t] = sinceAdd[i][t]
      BY <1>0, <2>1, <2>2, <2>5 DEF TypeOK
    <3>2. recent[i][t] = sinceAdd[i][t]
      BY <1>0, <3>1 DEF Remembered
    <3>3. ~(recent[i][t] > Keep)
      BY <2>1, <3>1, <3>2 DEF Age
    <3>4. recent'[i][t] = recent[i][t]
      BY <1>0, <2>1, <2>2, <2>5, <3>3 DEF TypeOK, Stamped
    <3> QED
      BY <3>1, <3>2, <3>4
  <2> QED
    BY <2>3, <2>4, <2>5
<1>3. CASE Tick
  <2> SUFFICES ASSUME NEW i \in Id, NEW t \in Token, sinceAdd'[i][t] <= Keep
               PROVE  recent'[i][t] = sinceAdd'[i][t]
    BY DEF Remembered
  <2>1. recent'[i][t] = Older(recent[i][t]) /\ sinceAdd'[i][t] = Older(sinceAdd[i][t])
    BY <1>3 DEF Tick
  <2>2. sinceAdd[i][t] \in Age
    BY <1>0 DEF TypeOK
  <2>3. sinceAdd[i][t] <= Keep
    BY <2>1, <2>2 DEF Older, Age
  <2> QED
    BY <1>0, <2>1, <2>3 DEF Remembered
<1>4. ASSUME NEW c \in Conn, \/ Connect(c) \/ GoesAway(c) \/ Heartbeat(c)
                             \/ (\E i \in Id : Receive(c, i)) \/ AddLock(c) \/ OpenLock(c)
                             \/ Lookup(c) \/ SendLock(c) \/ RemoveClient(c) \/ OpenSent(c)
                             \/ SendDone(c) \/ ReadFails(c) \/ Close(c) \/ PingLock(c) \/ PingDone(c)
      PROVE  UNCHANGED <<recent, sinceAdd>>
  BY <1>4 DEF Connect, GoesAway, Heartbeat, Receive, AddLock, OpenLock, Lookup, SendLock,
     RemoveClient, OpenSent, SendDone, ReadFails, Close, PingLock, PingDone
<1>5. ASSUME NEW i \in Id, KickLock(i) PROVE UNCHANGED <<recent, sinceAdd>>
  BY <1>5 DEF KickLock
<1>6. CASE KickClose
  BY <1>1, <1>6 DEF KickClose
<1>7. CASE UNCHANGED vars
  BY <1>1, <1>7 DEF vars
<1> QED
  BY <1>1, <1>2, <1>3, <1>4, <1>5, <1>6, <1>7, Steps

\* A token is good for Grace after its last AddClient, for every length of the
\* two periods with Grace no longer than Keep.
THEOREM TokensKeepGrace == Spec => []TokenGraceAfterConnect
<1>1. GraceInv => TokenGraceAfterConnect
  <2> SUFFICES ASSUME GraceInv, NEW i \in Id, NEW t \in Token, sinceAdd[i][t] < Grace
               PROVE  ValidPeerToken(i, t)
    BY DEF TokenGraceAfterConnect
  <2>1. sinceAdd[i][t] \in Age
    BY DEF GraceInv, TypeOK
  <2>2. sinceAdd[i][t] <= Keep /\ sinceAdd[i][t] # None
    BY <2>1, SignalingAssumption DEF Age
  <2>3. recent[i][t] = sinceAdd[i][t]
    BY <2>2 DEF GraceInv, Remembered
  <2> QED
    BY <2>2, <2>3 DEF ValidPeerToken
<1> QED
  BY <1>1, InitRemembers, StepRemembers, PTL DEF Spec

-----------------------------------------------------------------------------
(* Refinement *)

LEMMA InitImplements == Init => Registry!Init
BY DEF Init, Registry!Init, Before, Past

LEMMA StepImplements == RegInv /\ [Next]_vars => [Registry!Next]_(Registry!registry)
<1> SUFFICES ASSUME RegInv, [Next]_vars
             PROVE  Registry!Next \/ UNCHANGED Registry!registry
  OBVIOUS
<1> USE DEF Before, Past
<1>0. TypeOK
  BY DEF RegInv
<1> USE SignalingAssumption
<1>1. CASE UNCHANGED vars
  BY <1>1 DEF vars, Registry!registry
<1>2. ASSUME NEW c \in Conn, \/ Connect(c) \/ GoesAway(c) \/ Heartbeat(c)
                             \/ (\E i \in Id : Receive(c, i)) \/ AddLock(c) \/ OpenLock(c)
                             \/ Lookup(c) \/ SendLock(c) \/ OpenSent(c) \/ SendDone(c)
                             \/ ReadFails(c) \/ Close(c) \/ PingLock(c) \/ PingDone(c)
      PROVE  UNCHANGED Registry!registry
  <2>1. clients' = clients
    BY <1>2 DEF Connect, GoesAway, Heartbeat, Receive, AddLock, OpenLock, Lookup, SendLock,
       OpenSent, SendDone, ReadFails, Close, PingLock, PingDone
  <2>2. \A d \in Conn : (Before(d)' <=> Before(d)) /\ (Past(d)' <=> Past(d))
    BY <1>0, <1>2 DEF TypeOK, Connect, GoesAway, Heartbeat, Receive, AddLock, OpenLock, Lookup,
       SendLock, OpenSent, SendDone, ReadFails, Close, PingLock, PingDone
  <2> QED
    BY <2>1, <2>2 DEF Registry!registry
<1>3. ASSUME NEW c \in Conn, NEW i \in Id, i = id[c], AddReplace(c) PROVE Registry!Claim(c, i)
  BY <1>0, <1>3 DEF TypeOK, AddReplace, Registry!Claim
<1>4. ASSUME NEW c \in Conn, RemoveClient(c) PROVE Registry!Leave(c)
  <2>1. /\ clients' = IF clients[id[c]] = c THEN [clients EXCEPT ![id[c]] = None] ELSE clients
        /\ pc' = [pc EXCEPT ![c] = "closing"] /\ pc[c] = "removing"
    BY <1>4 DEF RemoveClient, Matches
  <2>2. \A i \in Id : clients[i] = c => i = id[c]
    BY DEF RegInv, Leads
  <2>3. clients' = [i \in Id |-> IF clients[i] = c THEN None ELSE clients[i]]
    BY <1>0, <2>1, <2>2 DEF TypeOK
  <2>4. pc \in [Conn -> Place] /\ pc'[c] = "closing" /\ \A d \in Conn \ {c} : pc'[d] = pc[d]
    BY <1>0, <2>1 DEF TypeOK
  <2>5. /\ {d \in Conn : Past(d)}' = {d \in Conn : Past(d)} \cup {c}
        /\ {d \in Conn : ~Before(d)}' = {d \in Conn : ~Before(d)}
        /\ c \in {d \in Conn : ~Before(d)} \ {d \in Conn : Past(d)}
    BY <2>1, <2>4
  <2> QED
    BY <2>3, <2>5 DEF Registry!Leave
<1>5. ASSUME NEW i \in Id, KickLock(i) PROVE UNCHANGED Registry!registry
  BY <1>5 DEF KickLock, Registry!registry
<1>6. CASE KickClose
  <2>1. kick \in Id /\ clients' = [clients EXCEPT ![kick] = None] /\ pc' = pc
    BY <1>0, <1>6 DEF TypeOK, KickClose
  <2>2. CASE clients[kick] # None
    BY <2>1, <2>2 DEF Registry!Next, Registry!Evict
  <2>3. CASE clients[kick] = None
    BY <1>0, <2>1, <2>3 DEF TypeOK, Registry!registry
  <2> QED
    BY <2>2, <2>3
<1>7. CASE Tick
  BY <1>7 DEF Tick, Registry!registry
<1>8. ASSUME NEW c \in Conn, AddReplace(c) \/ RemoveClient(c) PROVE Registry!Next
  <2>1. PICK i \in Id : i = id[c]
    BY <1>0 DEF TypeOK
  <2>2. CASE AddReplace(c)
    BY <1>3, <2>1, <2>2 DEF Registry!Next
  <2>3. CASE RemoveClient(c)
    BY <1>4, <2>3 DEF Registry!Next
  <2> QED
    BY <1>8, <2>2, <2>3
<1> QED
  BY <1>1, <1>2, <1>5, <1>6, <1>7, <1>8, Steps

\* The signaling server keeps the promise of PeerRegistry: AddClient is a claim,
\* RemoveClient a leave that takes nobody else's id, KickClient an eviction, and
\* nothing else touches the registry.
THEOREM Implements == Spec => ImplementsRegistry
BY InitImplements, StepImplements, Serves, PTL DEF Spec, Registry!Spec, ImplementsRegistry
=============================================================================
