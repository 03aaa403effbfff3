----------------------------- MODULE TurnMonitor -----------------------------
(***************************************************************************)
(* Who may use the TURN relay, and what the panel shows of it: the         *)
(* reputation of addresses, the revoked users and the sessions of          *)
(* turn_monitor.go, with the handlers of main.go that ask and tell it.     *)
(* An auth request looks at the reputation, then at the revocations, then  *)
(* records its outcome, each under the mutex and none together; requests   *)
(* of the UDP listener and of every TCP connection, the admin, the cleanup *)
(* every 30 seconds and the panel run concurrently.  Time is counted in    *)
(* ticks: what lasts is kept as the ticks that remain, what is past as its *)
(* age.  Bytes and packets counted, and the keys sent, are left out.       *)
(***************************************************************************)
EXTENDS Naturals, FiniteSets

CONSTANTS
  Worker,       \* goroutines that handle TURN requests
  User, Ip,     \* user names and client addresses
  Port,         \* relay addresses
  Shared,       \* the user name that is never banned as a whole: "pingo"
  Temporary,    \* users whose name starts with the time their token ends
  Known,        \* users the auth handler gives a key to: all if there is an
                \* AuthSecret, the configured user only if there is none
  None,         \* no session, no relay address
  Threshold,    \* failed attempts that block an address: 20
  AutoBlock, ManualBlock, Ban,     \* ticks: 10 minutes, hours, 12 hours
  Ttl, ClosedKeep, IdleKeep, IdleAfter, \* ticks: 60 s, 30 s, 2 minutes, 60 s
  MaxLive,      \* bound: live allocations of one user at one address
  Blocks, Revokes, Timed  \* the admin blocks, revokes; time passes

ASSUME MonitorAssumption ==
  /\ None \notin User /\ None \notin Port
  /\ (Known = User \/ \E u \in User : Known = {u})
  /\ Threshold \in Nat \ {0} /\ AutoBlock \in Nat \ {0} /\ MaxLive \in Nat
  /\ ManualBlock \in Nat /\ ManualBlock > AutoBlock /\ Ban \in Nat \ {0}
  /\ Ttl \in Nat \ {0} /\ ClosedKeep \in Nat /\ IdleKeep \in Nat /\ IdleAfter \in Nat
  /\ {Blocks, Revokes, Timed} \subseteq BOOLEAN

VARIABLES
  pc, who,      \* pc[k]: where worker k is; who[k]: the user and address it serves
  failures,     \* failures[a]: Failures of the reputation of a
  blocked,      \* blocked[a]: ticks until its BlockedUntil
  banned,       \* banned[u]: ticks until the expiry of revokedTokens[u]
  keyBanned,    \* the same of revokedTokens of a session key, user@ip
  session,      \* session[u][a]: the session under u@a, or None
  live,         \* live[u][a]: allocations the TURN library has for u at a
  abused,       \* abused[a]: history, ticks a block for failed attempts is due
  manual,       \* manual[a]: history, ticks left of the admin's last block
  raced,        \* raced[a]: history, when the admin last blocked a, a request from
                \* there was past its look at the block
  ended,        \* ended[x]: history, an allocation of x has ended, and since then it
                \* has made none and been given no key
  due,          \* history, <<worker, reason>>: a reason to refuse its request that
                \* has held ever since the request came in
  swept         \* history, the cleanup has just run

repVars == <<failures, blocked, banned, keyBanned>>
histVars == <<abused, manual, raced, due>>
vars == <<pc, who, repVars, session, live, histVars, ended, swept>>

Long == Ttl + 1               \* the end of a token: beyond the instance's horizon
OldAge == IdleKeep + 1        \* stands for all later ages
Session == [status : {"active", "idle", "expired", "closed"}, left : 0..Long,
            idle : 0..OldAge, relay : Port \cup {None}]
SessionOf(status, left, relay) ==
  [status |-> status, left |-> left, idle |-> 0, relay |-> relay]
Key == User \X Ip
Reason == {"address", "user", "session"}

TypeOK ==
  /\ pc \in [Worker -> {"idle", "asked", "unblocked", "checked", "granted"}]
  /\ who \in [Worker -> Key \cup {None}]
  /\ failures \in [Ip -> 0..Threshold]
  /\ blocked \in [Ip -> 0..ManualBlock] /\ banned \in [User -> 0..Ban]
  /\ keyBanned \in [Key -> 0..Ban]
  /\ session \in [Key -> Session \cup {None}]
  /\ live \in [Key -> 0..MaxLive]
  /\ abused \in [Ip -> 0..AutoBlock] /\ manual \in [Ip -> 0..ManualBlock]
  /\ raced \in [Ip -> BOOLEAN] /\ ended \in [Key -> BOOLEAN]
  /\ due \in SUBSET (Worker \X Reason) /\ swept \in BOOLEAN
  /\ \A k \in Worker : pc[k] # "idle" => who[k] \in Key

Init ==
  /\ pc = [k \in Worker |-> "idle"] /\ who = [k \in Worker |-> None]
  /\ failures = [a \in Ip |-> 0] /\ blocked = [a \in Ip |-> 0]
  /\ banned = [u \in User |-> 0] /\ keyBanned = [x \in Key |-> 0]
  /\ session = [x \in Key |-> None] /\ live = [x \in Key |-> 0]
  /\ abused = [a \in Ip |-> 0] /\ manual = [a \in Ip |-> 0]
  /\ raced = [a \in Ip |-> FALSE] /\ ended = [x \in Key |-> FALSE]
  /\ due = {} /\ swept = FALSE

UserOf(k) == who[k][1]
AddrOf(k) == who[k][2]
Goes(k, place) == pc' = [pc EXCEPT ![k] = place]
Returns(k) ==
  /\ Goes(k, "idle") /\ who' = [who EXCEPT ![k] = None]
  /\ due' = {d \in due : d[1] # k}

\* The reasons to refuse user and address x, and those that hold on in a step.
Reasons(b, n, kb, x) ==
  {why \in Reason : \/ why = "address" /\ b[x[2]] > 0
                    \/ why = "user" /\ n[x[1]] > 0
                    \/ why = "session" /\ kb[x] > 0}
HoldOn == due' = {d \in due : d[2] \in Reasons(blocked', banned', keyBanned', who[d[1]])}

-----------------------------------------------------------------------------
(* AuthHandler, for each authenticated TURN request *)

Ask(k, u, a) ==
  /\ pc[k] = "idle"
  /\ Goes(k, "asked") /\ who' = [who EXCEPT ![k] = <<u, a>>]
  /\ due' = due \cup ({k} \X Reasons(blocked, banned, keyBanned, <<u, a>>))
  /\ swept' = FALSE
  /\ UNCHANGED <<repVars, session, live, abused, manual, raced, ended>>

\* CheckIPBlocked
Blocked_Never(a) == FALSE                                             \* mutant
Blocked(a) == blocked[a] > 0
CheckIPBlocked(k) ==
  /\ pc[k] = "asked" /\ swept' = FALSE
  /\ IF Blocked(AddrOf(k)) THEN Returns(k)
     ELSE Goes(k, "unblocked") /\ UNCHANGED <<who, due>>
  /\ UNCHANGED <<repVars, session, live, abused, manual, raced, ended>>

\* IsSessionRevoked, of the user name only.
Revoked_Never(u) == FALSE                                             \* mutant
Revoked(u) == banned[u] > 0
IsSessionRevoked(k) ==
  /\ pc[k] = "unblocked" /\ swept' = FALSE
  /\ IF Revoked(UserOf(k)) THEN Returns(k)
     ELSE Goes(k, "checked") /\ UNCHANGED <<who, due>>
  /\ UNCHANGED <<repVars, session, live, abused, manual, raced, ended>>

\* RecordAuthAttempt of a user the handler knows: the session starts anew,
\* unless the user has been revoked since.
Renews_Always(u) == TRUE                                              \* mutant
Renews(u) == banned[u] = 0
RecordSuccess(k) ==
  LET u == UserOf(k)
      ends == IF u \in Temporary THEN {0, Long} ELSE {Ttl} IN
  /\ pc[k] = "checked" /\ u \in Known /\ swept' = FALSE
  /\ Goes(k, "granted")
  /\ IF Renews(u)
       THEN /\ failures' = [failures EXCEPT ![AddrOf(k)] = 0]
            /\ \E end \in ends :
                 session' = [session EXCEPT ![who[k]] = SessionOf("active", end, None)]
            /\ ended' = [ended EXCEPT ![who[k]] = FALSE]
       ELSE UNCHANGED <<failures, session, ended>>
  /\ UNCHANGED <<who, blocked, banned, keyBanned, live, histVars>>

\* Of one it does not know; the counter is capped where nothing changes any more.
Blocking(f) == f >= Threshold
RecordFailure(k) ==
  LET a == AddrOf(k)
      f == failures[a] + 1 IN
  /\ pc[k] = "checked" /\ UserOf(k) \notin Known /\ swept' = FALSE
  /\ Returns(k)
  /\ failures' = [failures EXCEPT ![a] = IF f > Threshold THEN Threshold ELSE f]
  /\ blocked' = [blocked EXCEPT ![a] = IF Blocking(f) THEN AutoBlock ELSE @]
  /\ abused' = [abused EXCEPT ![a] = IF Blocking(f) THEN AutoBlock ELSE @]
  /\ UNCHANGED <<banned, keyBanned, session, live, manual, raced, ended>>

-----------------------------------------------------------------------------
(* The TURN library *)

\* The request needs no new allocation, or does not get one.
Served(k) ==
  /\ pc[k] = "granted" /\ swept' = FALSE
  /\ Returns(k)
  /\ UNCHANGED <<repVars, session, live, abused, manual, raced, ended>>

\* RecordAllocationCreated
CreatedStatus_Kept(old) == IF old = None THEN "active" ELSE old.status  \* mutant
CreatedStatus(old) == "active"
AllocationCreated(k, p) ==
  LET x == who[k] IN
  /\ pc[k] = "granted" /\ live[x] < MaxLive /\ swept' = FALSE
  /\ Returns(k)
  /\ live' = [live EXCEPT ![x] = @ + 1]
  /\ session' = [session EXCEPT ![x] = SessionOf(CreatedStatus(@), Ttl, p)]
  /\ ended' = [ended EXCEPT ![x] = FALSE]
  /\ UNCHANGED <<repVars, abused, manual, raced>>

\* RecordAllocationDeleted
AllocationDeleted(x) ==
  /\ live[x] > 0 /\ swept' = FALSE
  /\ live' = [live EXCEPT ![x] = @ - 1]
  /\ session' = [session EXCEPT ![x] =
       IF @ = None THEN None ELSE [@ EXCEPT !.status = "closed", !.left = 0]]
  /\ ended' = [ended EXCEPT ![x] = TRUE]
  /\ UNCHANGED <<pc, who, repVars, histVars>>

\* RecordRelayTraffic: a session with that relay address, else one of that
\* remote address, else any; the maps are walked in no particular order.
Creditable(p, a) ==
  LET known == {x \in Key : session[x] # None}
      byRelay == {x \in known : session[x].relay = p}
      byAddr == {x \in known : x[2] = a} IN
  IF byRelay # {} THEN byRelay ELSE IF byAddr # {} THEN byAddr ELSE known
Traffic(p, a, x) ==
  /\ x \in Creditable(p, a) /\ swept' = FALSE
  /\ session' = [session EXCEPT ![x].idle = 0,
       ![x].relay = IF @ = None /\ x[2] = a THEN p ELSE @]
  /\ UNCHANGED <<pc, who, repVars, live, histVars, ended>>

\* RecordRawTraffic: any session of that address.
RawTraffic(x) ==
  /\ session[x] # None /\ swept' = FALSE
  /\ session' = [session EXCEPT ![x].idle = 0]
  /\ UNCHANGED <<pc, who, repVars, live, histVars, ended>>

-----------------------------------------------------------------------------
(* The admin *)

Without(gone) == [x \in Key |-> IF x \in gone THEN None ELSE session[x]]

BlockIP(a) ==
  /\ Blocks /\ swept' = FALSE
  /\ blocked' = [blocked EXCEPT ![a] = ManualBlock]
  /\ session' = Without({x \in Key : x[2] = a})
  /\ manual' = [manual EXCEPT ![a] = ManualBlock]
  /\ raced' = [raced EXCEPT ![a] =
       \E k \in Worker : pc[k] \in {"unblocked", "checked"} /\ AddrOf(k) = a]
  /\ UNCHANGED <<pc, who, failures, banned, keyBanned, live, abused, due, ended>>

UnblockIP(a) ==
  /\ Blocks /\ swept' = FALSE
  /\ blocked' = [blocked EXCEPT ![a] = 0] /\ failures' = [failures EXCEPT ![a] = 0]
  /\ abused' = [abused EXCEPT ![a] = 0] /\ manual' = [manual EXCEPT ![a] = 0]
  /\ raced' = [raced EXCEPT ![a] = FALSE]
  /\ UNCHANGED <<pc, who, banned, keyBanned, session, live, ended>>
  /\ HoldOn

\* Of the shared user only the session key is banned.
RevokeSession(x) ==
  /\ Revokes /\ swept' = FALSE
  /\ keyBanned' = [keyBanned EXCEPT ![x] = Ban]
  /\ banned' = IF x[1] = Shared THEN banned ELSE [banned EXCEPT ![x[1]] = Ban]
  /\ session' = Without({x})
  /\ UNCHANGED <<pc, who, failures, blocked, live, histVars, ended>>

\* RevokeSession of a key without an address: the user name alone.
RevokeUser(u) ==
  /\ Revokes /\ swept' = FALSE
  /\ banned' = [banned EXCEPT ![u] = Ban]
  /\ UNCHANGED <<pc, who, failures, blocked, keyBanned, session, live, histVars, ended>>

-----------------------------------------------------------------------------
(* Cleanup, panel, time *)

Stale(s) ==
  \/ s.status = "closed" /\ s.idle > ClosedKeep
  \/ s.left = 0 /\ s.idle > IdleKeep

\* cleanupExpired
CleanupExpired ==
  /\ session' = Without({x \in Key : session[x] # None /\ Stale(session[x])})
  /\ swept' = TRUE
  /\ UNCHANGED <<pc, who, repVars, live, histVars, ended>>

\* GetActiveSessions rewrites the status of every session it lists.
Shown(s) ==
  IF s.status = "closed" THEN "closed"
  ELSE IF s.left = 0 THEN "expired"
  ELSE IF s.idle > IdleAfter THEN "idle" ELSE "active"
GetActiveSessions ==
  /\ swept' = FALSE
  /\ session' = [x \in Key |-> IF session[x] = None THEN None
                               ELSE [session[x] EXCEPT !.status = Shown(session[x])]]
  /\ UNCHANGED <<pc, who, repVars, live, histVars, ended>>

Less(n) == IF n = 0 THEN 0 ELSE n - 1
Older(s) == [s EXCEPT !.left = IF @ = Long THEN @ ELSE Less(@),
                      !.idle = IF @ = OldAge THEN @ ELSE @ + 1]
Tick ==
  /\ Timed /\ swept' = FALSE
  /\ blocked' = [a \in Ip |-> Less(blocked[a])]
  /\ banned' = [u \in User |-> Less(banned[u])]
  /\ keyBanned' = [x \in Key |-> Less(keyBanned[x])]
  /\ session' = [x \in Key |-> IF session[x] = None THEN None ELSE Older(session[x])]
  /\ abused' = [a \in Ip |-> Less(abused[a])] /\ manual' = [a \in Ip |-> Less(manual[a])]
  /\ raced' = [a \in Ip |-> raced[a] /\ manual[a] > 1]
  /\ HoldOn
  /\ UNCHANGED <<pc, who, failures, live, ended>>

-----------------------------------------------------------------------------

Auth(k) ==
  \/ \E u \in User, a \in Ip : Ask(k, u, a)
  \/ CheckIPBlocked(k) \/ IsSessionRevoked(k) \/ RecordSuccess(k) \/ RecordFailure(k)
Relay ==
  \/ \E k \in Worker : Served(k) \/ (\E p \in Port : AllocationCreated(k, p))
  \/ \E x \in Key : AllocationDeleted(x) \/ RawTraffic(x) \/ (\E p \in Port, a \in Ip : Traffic(p, a, x))
AdminActs ==
  \/ \E a \in Ip : BlockIP(a) \/ UnblockIP(a)
  \/ \E x \in Key : RevokeSession(x)
  \/ \E u \in User : RevokeUser(u)

Next ==
  (\E k \in Worker : Auth(k)) \/ Relay \/ AdminActs \/ CleanupExpired \/ GetActiveSessions \/ Tick

Spec == Init /\ [][Next]_vars

-----------------------------------------------------------------------------
(* Properties *)

\* A request that comes in while its address is blocked or its user revoked is
\* not given a key as long as that lasts, however the three looks of its
\* handler fall between the admin's and other requests' changes.
BarredGetNothing == \A d \in due : d[2] \in {"address", "user"} => pc[d[1]] # "granted"

\* What has once been blocked stays blocked for as long as was said, whatever
\* fails, succeeds or is blocked meanwhile: for AutoBlock after the failed attempt
\* with which RecordAuthAttempt blocks (the Threshold-th since a success or an
\* UnblockIP, however long ago the first was: the code and its test know neither
\* the "more than 20" nor the "short window" of the comment beside them); and for
\* what the admin said, unless a request was past its look when he said it.
BlocksHold ==
  \A a \in Ip : abused[a] <= blocked[a] /\ (~raced[a] => manual[a] <= blocked[a])

\* A revoked user's session does not come back by a request whose checks were
\* done before the revocation; only a new allocation brings it back.
RevokedNotRenewed ==
  [][\A x \in Key : banned[x[1]] > 0 /\ session[x] = None /\ session'[x] # None
       => live'[x] > live[x]]_vars

\* A session is shown as closed exactly if the last thing its user did at its
\* address was to end an allocation.  However many they share the session with, one
\* made later opens it, and what the panel, the traffic, the cleanup and a look
\* done before a revocation change does neither close nor open it; it is only
\* those made before the last end that a closed session may still have.  And the
\* state is well typed.
SessionsFollow ==
  TypeOK /\ \A x \in Key : session[x] # None => (session[x].status = "closed" <=> ended[x])

\* "Marks the allocation as closed when it ends": a session shown as closed has no
\* live allocation.  Not so if its user had two of them.
ClosedHasNone ==
  \A x \in Key : session[x] # None /\ session[x].status = "closed" => live[x] = 0

\* "Manually bans an IP from connecting to TURN for a given duration": the
\* block lasts at least as long as the admin said, unless the admin lifts it.
ManualBanKept == \A a \in Ip : manual[a] <= blocked[a]

\* "Ban the specific session key (user@ip)": a banned session gets no new key.
SessionBanHolds == \A d \in due : d[2] = "session" => pc[d[1]] # "granted"

\* "Purgar sesiones ... que lleven mas de 2 minutos sin actividad": the cleanup
\* leaves no session that has been idle for longer.
IdlePurged ==
  swept => \A x \in Key : session[x] # None => session[x].idle <= IdleKeep
=============================================================================
