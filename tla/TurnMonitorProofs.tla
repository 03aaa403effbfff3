-------------------------- MODULE TurnMonitorProofs --------------------------
(***************************************************************************)
(* Theorems about TurnMonitor, for any number of workers, users, addresses *)
(* and ports, and any periods: blocks and revocations, and what the panel  *)
(* shows of sessions.                                                      *)
(***************************************************************************)
EXTENDS TurnMonitor, TLAPS

LEMMA Steps ==
  ASSUME Next
  PROVE  \/ \E k \in Worker : \/ \E u \in User, a \in Ip : Ask(k, u, a)
                              \/ CheckIPBlocked(k) \/ IsSessionRevoked(k) \/ RecordSuccess(k)
                              \/ RecordFailure(k) \/ Served(k)
                              \/ \E p \in Port : AllocationCreated(k, p)
         \/ \E x \in Key : \/ AllocationDeleted(x) \/ RawTraffic(x) \/ RevokeSession(x)
                           \/ \E p \in Port, a \in Ip : Traffic(p, a, x)
         \/ \E a \in Ip : BlockIP(a) \/ UnblockIP(a)
         \/ \E u \in User : RevokeUser(u)
         \/ CleanupExpired \/ GetActiveSessions \/ Tick
BY DEF Next, Auth, Relay, AdminActs

-----------------------------------------------------------------------------
(* Typing *)

LEMMA SessionTyped ==
  ASSUME NEW st \in {"active", "idle", "expired", "closed"}, NEW l \in 0..Long,
         NEW p \in Port \cup {None}
  PROVE  SessionOf(st, l, p) \in Session
BY MonitorAssumption DEF SessionOf, Session, OldAge

\* Lengths of time, for the arithmetic.
LEMMA Lengths ==
  /\ Long \in Nat /\ OldAge \in Nat /\ Ttl \in 0..Long /\ 0 \in 0..Long /\ Long \in 0..Long
  /\ 0 \in 0..OldAge /\ AutoBlock \in 0..ManualBlock /\ ManualBlock \in 0..ManualBlock
  /\ Ban \in 0..Ban /\ AutoBlock \in 0..AutoBlock
  /\ \A n \in Nat : \A m \in 0..n : Less(m) \in 0..n
BY MonitorAssumption DEF Long, OldAge, Less

LEMMA InitTyped == Init => TypeOK
<1> SUFFICES ASSUME Init PROVE TypeOK
  OBVIOUS
<1>1. /\ pc \in [Worker -> {"idle"}] /\ who \in [Worker -> {None}] /\ session \in [Key -> {None}]
      /\ failures \in [Ip -> {0}] /\ blocked \in [Ip -> {0}] /\ banned \in [User -> {0}]
      /\ keyBanned \in [Key -> {0}] /\ live \in [Key -> {0}]
      /\ abused \in [Ip -> {0}] /\ manual \in [Ip -> {0}] /\ due = {} /\ swept = FALSE
      /\ raced \in [Ip -> {FALSE}] /\ ended \in [Key -> {FALSE}]
  BY DEF Init
<1>2. \A n \in {Threshold, ManualBlock, Ban, MaxLive, AutoBlock} : 0 \in 0..n
  BY MonitorAssumption
<1> QED
  BY <1>1, <1>2 DEF TypeOK

\* A handler returns.
LEMMA ReturnsTyped ==
  ASSUME TypeOK, NEW k \in Worker, Returns(k)
  PROVE  /\ pc' \in [Worker -> {"idle", "asked", "unblocked", "checked", "granted"}]
         /\ who' \in [Worker -> Key \cup {None}] /\ due' \in SUBSET (Worker \X Reason)
         /\ \A j \in Worker : pc'[j] # "idle" => who'[j] \in Key
BY DEF Returns, Goes, TypeOK

LEMMA GoesTyped ==
  ASSUME TypeOK, NEW k \in Worker, NEW place \in {"asked", "unblocked", "checked", "granted"},
         pc[k] # "idle", Goes(k, place), who' = who
  PROVE  /\ pc' \in [Worker -> {"idle", "asked", "unblocked", "checked", "granted"}]
         /\ who' \in [Worker -> Key \cup {None}]
         /\ \A j \in Worker : pc'[j] # "idle" => who'[j] \in Key
BY DEF Goes, TypeOK

LEMMA StepTyped ==
  ASSUME TypeOK, [Next]_vars
  PROVE  TypeOK'
<1> USE MonitorAssumption
<1>1. CASE UNCHANGED vars
  BY <1>1 DEF vars, repVars, histVars, TypeOK
<1>2. ASSUME NEW k \in Worker, NEW u \in User, NEW a \in Ip, Ask(k, u, a) PROVE TypeOK'
  <2>1. <<u, a>> \in Key
    BY DEF Key
  <2>2. due' \in SUBSET (Worker \X Reason)
    BY <1>2 DEF Ask, Reasons, TypeOK
  <2> QED
    BY <1>2, <2>1, <2>2 DEF Ask, Goes, repVars, TypeOK
<1>3. ASSUME NEW k \in Worker, CheckIPBlocked(k) PROVE TypeOK'
  <2>1. CASE Returns(k)
    BY <1>3, <2>1, ReturnsTyped DEF CheckIPBlocked, repVars, TypeOK
  <2>2. CASE Goes(k, "unblocked") /\ UNCHANGED <<who, due>>
    BY <1>3, <2>2, GoesTyped DEF CheckIPBlocked, repVars, TypeOK
  <2> QED
    BY <1>3, <2>1, <2>2 DEF CheckIPBlocked
<1>4. ASSUME NEW k \in Worker, IsSessionRevoked(k) PROVE TypeOK'
  <2>1. CASE Returns(k)
    BY <1>4, <2>1, ReturnsTyped DEF IsSessionRevoked, repVars, TypeOK
  <2>2. CASE Goes(k, "checked") /\ UNCHANGED <<who, due>>
    BY <1>4, <2>2, GoesTyped DEF IsSessionRevoked, repVars, TypeOK
  <2> QED
    BY <1>4, <2>1, <2>2 DEF IsSessionRevoked
<1>5. ASSUME NEW k \in Worker, RecordSuccess(k) PROVE TypeOK'
  <2>1. who[k] \in Key /\ AddrOf(k) \in Ip
    BY <1>5 DEF RecordSuccess, TypeOK, Key, AddrOf
  <2>2. session' \in [Key -> Session \cup {None}]
    <3>1. CASE session' = session
      BY <3>1 DEF TypeOK
    <3>2. ASSUME NEW end \in {0, Ttl, Long},
                 session' = [session EXCEPT ![who[k]] = SessionOf("active", end, None)]
          PROVE  session' \in [Key -> Session \cup {None}]
      BY <2>1, <3>2, SessionTyped, Lengths DEF TypeOK
    <3> QED
      BY <1>5, <3>1, <3>2 DEF RecordSuccess
  <2>3. failures' \in [Ip -> 0..Threshold]
    BY <1>5, <2>1 DEF RecordSuccess, TypeOK
  <2> QED
    BY <1>5, <2>2, <2>3, GoesTyped DEF RecordSuccess, histVars, TypeOK
<1>6. ASSUME NEW k \in Worker, RecordFailure(k) PROVE TypeOK'
  <2>1. AddrOf(k) \in Ip
    BY <1>6 DEF RecordFailure, TypeOK, Key, AddrOf
  <2>2. failures' \in [Ip -> 0..Threshold]
    BY <1>6, <2>1 DEF RecordFailure, TypeOK
  <2>3. blocked' \in [Ip -> 0..ManualBlock] /\ abused' \in [Ip -> 0..AutoBlock]
    BY <1>6, <2>1, Lengths DEF RecordFailure, TypeOK
  <2> QED
    BY <1>6, <2>2, <2>3, ReturnsTyped DEF RecordFailure, TypeOK
<1>7. ASSUME NEW k \in Worker, Served(k) PROVE TypeOK'
  BY <1>7, ReturnsTyped DEF Served, repVars, TypeOK
<1>8. ASSUME NEW k \in Worker, NEW p \in Port, AllocationCreated(k, p) PROVE TypeOK'
  <2>1. who[k] \in Key
    BY <1>8 DEF AllocationCreated, TypeOK
  <2>2. live' \in [Key -> 0..MaxLive]
    BY <1>8, <2>1 DEF AllocationCreated, TypeOK
  <2>3. session' \in [Key -> Session \cup {None}]
    BY <1>8, <2>1, SessionTyped, Lengths DEF AllocationCreated, CreatedStatus, TypeOK
  <2> QED
    BY <1>8, <2>2, <2>3, ReturnsTyped DEF AllocationCreated, repVars, TypeOK
<1>9. ASSUME NEW x \in Key, AllocationDeleted(x) PROVE TypeOK'
  <2>1. live' \in [Key -> 0..MaxLive]
    BY <1>9 DEF AllocationDeleted, TypeOK
  <2>2. session' \in [Key -> Session \cup {None}]
    BY <1>9, Lengths DEF AllocationDeleted, TypeOK, Session
  <2> QED
    BY <1>9, <2>1, <2>2 DEF AllocationDeleted, repVars, histVars, TypeOK
<1>10. ASSUME NEW x \in Key, RawTraffic(x) PROVE TypeOK'
  <2>1. session' \in [Key -> Session \cup {None}]
    BY <1>10, Lengths DEF RawTraffic, TypeOK, Session
  <2> QED
    BY <1>10, <2>1 DEF RawTraffic, repVars, histVars, TypeOK
<1>11. ASSUME NEW p \in Port, NEW a \in Ip, NEW x \in Key, Traffic(p, a, x) PROVE TypeOK'
  <2>1. session[x] \in Session
    BY <1>11 DEF Traffic, Creditable, TypeOK
  <2>2. session' \in [Key -> Session \cup {None}]
    BY <1>11, <2>1, Lengths DEF Traffic, TypeOK, Session
  <2> QED
    BY <1>11, <2>2 DEF Traffic, repVars, histVars, TypeOK
<1>12. ASSUME NEW a \in Ip, BlockIP(a) PROVE TypeOK'
  BY <1>12, Lengths DEF BlockIP, Without, TypeOK
<1>13. ASSUME NEW a \in Ip, UnblockIP(a) PROVE TypeOK'
  <2>1. due' \in SUBSET (Worker \X Reason)
    BY <1>13 DEF UnblockIP, HoldOn, TypeOK
  <2>2. /\ blocked' \in [Ip -> 0..ManualBlock] /\ failures' \in [Ip -> 0..Threshold]
        /\ abused' \in [Ip -> 0..AutoBlock] /\ manual' \in [Ip -> 0..ManualBlock]
    BY <1>13 DEF UnblockIP, TypeOK
  <2> QED
    BY <1>13, <2>1, <2>2 DEF UnblockIP, TypeOK
<1>14. ASSUME NEW x \in Key, RevokeSession(x) PROVE TypeOK'
  BY <1>14, Lengths DEF RevokeSession, Without, histVars, TypeOK
<1>15. ASSUME NEW u \in User, RevokeUser(u) PROVE TypeOK'
  BY <1>15, Lengths DEF RevokeUser, histVars, TypeOK
<1>16. CASE CleanupExpired
  BY <1>16 DEF CleanupExpired, Without, repVars, histVars, TypeOK
<1>17. CASE GetActiveSessions
  <2>1. \A s \in Session : [s EXCEPT !.status = Shown(s)] \in Session
    BY DEF Session, Shown
  <2> QED
    BY <1>17, <2>1 DEF GetActiveSessions, repVars, histVars, TypeOK
<1>18. CASE Tick
  <2>1. \A s \in Session : Older(s) \in Session
    <3>1. ASSUME NEW s \in Session PROVE Older(s) \in Session
      <4> DEFINE l == IF s.left = Long THEN s.left ELSE Less(s.left)
                 i == IF s.idle = OldAge THEN s.idle ELSE s.idle + 1
      <4>1. l \in 0..Long /\ i \in 0..OldAge
        BY Lengths DEF Session
      <4>2. Older(s) = [s EXCEPT !.left = l, !.idle = i]
        BY DEF Older
      <4> HIDE DEF l, i
      <4> QED
        BY <4>1, <4>2 DEF Session
    <3> QED
      BY <3>1
  <2>2. session' \in [Key -> Session \cup {None}]
    BY <1>18, <2>1 DEF Tick, TypeOK
  <2>3. /\ blocked' \in [Ip -> 0..ManualBlock] /\ banned' \in [User -> 0..Ban]
        /\ keyBanned' \in [Key -> 0..Ban]
        /\ abused' \in [Ip -> 0..AutoBlock] /\ manual' \in [Ip -> 0..ManualBlock]
    BY <1>18, Lengths DEF Tick, TypeOK
  <2> QED
    BY <1>18, <2>2, <2>3 DEF Tick, HoldOn, TypeOK
<1> QED
  BY <1>1, <1>2, <1>3, <1>4, <1>5, <1>6, <1>7, <1>8, <1>9, <1>10, <1>11, <1>12, <1>13, <1>14,
     <1>15, <1>16, <1>17, <1>18, Steps

-----------------------------------------------------------------------------
(* Blocks, for failed attempts and by hand *)

\* While an unraced block of the admin lasts, no request from there is past its look.
Past(a) == \E k \in Worker : pc[k] \in {"unblocked", "checked"} /\ AddrOf(k) = a
Unraced == \A a \in Ip : manual[a] > 0 /\ ~raced[a] => ~Past(a)

LEMMA StepBlocks ==
  ASSUME TypeOK, BlocksHold, Unraced, [Next]_vars
  PROVE  BlocksHold' /\ Unraced'
<1> USE MonitorAssumption
<1>1. ASSUME UNCHANGED <<pc, who, blocked, abused, manual, raced>> PROVE BlocksHold' /\ Unraced'
  BY <1>1 DEF BlocksHold, Unraced, Past, AddrOf
<1>2. CASE UNCHANGED vars
  BY <1>1, <1>2 DEF vars, repVars, histVars
\* A handler goes to a place, by a step that leaves the blocks alone.
<1>3. ASSUME NEW k \in Worker, UNCHANGED <<blocked, abused, manual, raced>>,
             \A j \in Worker \ {k} : pc'[j] = pc[j] /\ who'[j] = who[j],
             who' = who \/ pc'[k] \notin {"unblocked", "checked"},
             pc'[k] \in {"unblocked", "checked"} =>
               pc[k] \in {"unblocked", "checked"} \/ blocked[AddrOf(k)] = 0
      PROVE  BlocksHold' /\ Unraced'
  <2>1. BlocksHold'
    BY <1>3 DEF BlocksHold
  <2>2. ASSUME NEW a \in Ip, manual[a] > 0, ~raced[a], Past(a)' PROVE FALSE
    <3>1. blocked[a] > 0
      BY <2>2 DEF BlocksHold, TypeOK
    <3>2. PICK j \in Worker : pc'[j] \in {"unblocked", "checked"} /\ AddrOf(j)' = a
      BY <2>2 DEF Past
    <3>3. AddrOf(j) = a /\ pc[j] \in {"unblocked", "checked"}
      BY <1>3, <3>1, <3>2 DEF AddrOf
    <3> QED
      BY <2>2, <3>3 DEF Unraced, Past
  <2> QED
    BY <1>3, <2>1, <2>2 DEF Unraced
<1>4. ASSUME NEW k \in Worker, Returns(k)
      PROVE  /\ pc'[k] = "idle" /\ \A j \in Worker \ {k} : pc'[j] = pc[j] /\ who'[j] = who[j]
  BY <1>4 DEF Returns, Goes, TypeOK
<1>5. ASSUME NEW k \in Worker, NEW place, Goes(k, place)
      PROVE  /\ pc'[k] = place /\ \A j \in Worker \ {k} : pc'[j] = pc[j]
  BY <1>5 DEF Goes, TypeOK
<1>6. ASSUME NEW k \in Worker, NEW u \in User, NEW a \in Ip, Ask(k, u, a)
      PROVE  BlocksHold' /\ Unraced'
  <2>1. \A j \in Worker \ {k} : who'[j] = who[j]
    BY <1>6 DEF Ask, TypeOK
  <2> QED
    BY <1>3, <1>5, <1>6, <2>1 DEF Ask, repVars
<1>7. ASSUME NEW k \in Worker, CheckIPBlocked(k) PROVE BlocksHold' /\ Unraced'
  <2>1. UNCHANGED <<blocked, abused, manual, raced>>
    BY <1>7 DEF CheckIPBlocked, repVars
  <2>2. CASE Returns(k)
    BY <1>3, <1>4, <2>1, <2>2
  <2>3. CASE ~Blocked(AddrOf(k)) /\ Goes(k, "unblocked") /\ who' = who
    <3>1. AddrOf(k) \in Ip
      BY <1>7 DEF CheckIPBlocked, TypeOK, Key, AddrOf
    <3>2. blocked[AddrOf(k)] = 0
      BY <2>3, <3>1 DEF Blocked, TypeOK
    <3> QED
      BY <1>3, <1>5, <2>1, <2>3, <3>2
  <2> QED
    BY <1>7, <2>2, <2>3 DEF CheckIPBlocked
<1>8. ASSUME NEW k \in Worker, IsSessionRevoked(k) PROVE BlocksHold' /\ Unraced'
  <2>1. UNCHANGED <<blocked, abused, manual, raced>> /\ pc[k] = "unblocked"
    BY <1>8 DEF IsSessionRevoked, repVars
  <2>2. CASE Returns(k)
    BY <1>3, <1>4, <2>1, <2>2
  <2>3. CASE Goes(k, "checked") /\ who' = who
    BY <1>3, <1>5, <2>1, <2>3
  <2> QED
    BY <1>8, <2>2, <2>3 DEF IsSessionRevoked
<1>9. ASSUME NEW k \in Worker, RecordSuccess(k) PROVE BlocksHold' /\ Unraced'
  <2>1. UNCHANGED <<blocked, abused, manual, raced, who>> /\ Goes(k, "granted")
    BY <1>9 DEF RecordSuccess, histVars
  <2> QED
    BY <1>3, <1>5, <2>1
\* A failed attempt blocks for AutoBlock, and was past its look.
<1>10. ASSUME NEW k \in Worker, RecordFailure(k) PROVE BlocksHold' /\ Unraced'
  <2> DEFINE b == AddrOf(k)
  <2>1. b \in Ip /\ Past(b)
    BY <1>10 DEF RecordFailure, TypeOK, Key, AddrOf, Past
  <2>2. manual' = manual /\ raced' = raced /\ Returns(k)
    BY <1>10 DEF RecordFailure
  <2>3. manual[b] = 0 \/ raced[b]
    BY <2>1 DEF Unraced, TypeOK
  <2>4. \A a \in Ip : \/ blocked'[a] = blocked[a] /\ abused'[a] = abused[a]
                      \/ a = b /\ blocked'[a] = AutoBlock /\ abused'[a] = AutoBlock
    BY <1>10, <2>1 DEF RecordFailure, TypeOK
  <2>5. BlocksHold'
    BY <2>2, <2>3, <2>4 DEF BlocksHold, TypeOK
  <2>6. ASSUME NEW a \in Ip, Past(a)' PROVE Past(a)
    BY <1>4, <2>2, <2>6 DEF Past, AddrOf
  <2> QED
    BY <2>2, <2>5, <2>6 DEF Unraced
<1>11. ASSUME NEW k \in Worker, \/ Served(k) \/ \E p \in Port : AllocationCreated(k, p)
       PROVE  BlocksHold' /\ Unraced'
  <2>1. UNCHANGED <<blocked, abused, manual, raced>> /\ Returns(k)
    BY <1>11 DEF Served, AllocationCreated, repVars
  <2> QED
    BY <1>3, <1>4, <2>1
<1>12. ASSUME NEW x \in Key, \/ AllocationDeleted(x) \/ RawTraffic(x) \/ RevokeSession(x)
                             \/ \E p \in Port, a \in Ip : Traffic(p, a, x)
       PROVE  BlocksHold' /\ Unraced'
  BY <1>1, <1>12 DEF AllocationDeleted, RawTraffic, RevokeSession, Traffic, repVars, histVars
<1>13. ASSUME NEW a \in Ip, BlockIP(a) PROVE BlocksHold' /\ Unraced'
  <2>1. UNCHANGED <<pc, who, abused>>
    BY <1>13 DEF BlockIP
  <2>2. \A c \in Ip : \/ c # a /\ UNCHANGED <<blocked[c], manual[c], raced[c]>>
                      \/ /\ c = a /\ blocked'[c] = ManualBlock /\ manual'[c] = ManualBlock
                         /\ raced'[c] = Past(c)
    BY <1>13 DEF BlockIP, TypeOK, Past
  <2>3. BlocksHold'
    BY <2>1, <2>2 DEF BlocksHold, TypeOK
  <2>4. \A c \in Ip : Past(c)' <=> Past(c)
    BY <2>1 DEF Past, AddrOf
  <2> QED
    BY <2>2, <2>3, <2>4 DEF Unraced
<1>14. ASSUME NEW a \in Ip, UnblockIP(a) PROVE BlocksHold' /\ Unraced'
  <2>1. UNCHANGED <<pc, who>>
    BY <1>14 DEF UnblockIP
  <2>2. \A c \in Ip : \/ UNCHANGED <<blocked[c], abused[c], manual[c], raced[c]>>
                      \/ blocked'[c] = 0 /\ abused'[c] = 0 /\ manual'[c] = 0
    BY <1>14 DEF UnblockIP, TypeOK
  <2>3. BlocksHold'
    BY <2>2 DEF BlocksHold
  <2>4. \A c \in Ip : Past(c)' <=> Past(c)
    BY <2>1 DEF Past, AddrOf
  <2> QED
    BY <2>2, <2>3, <2>4 DEF Unraced
<1>15. ASSUME NEW u \in User, RevokeUser(u) PROVE BlocksHold' /\ Unraced'
  BY <1>1, <1>15 DEF RevokeUser, histVars
<1>16. CASE CleanupExpired \/ GetActiveSessions
  BY <1>1, <1>16 DEF CleanupExpired, GetActiveSessions, repVars, histVars
<1>17. CASE Tick
  <2>1. UNCHANGED <<pc, who>>
    BY <1>17 DEF Tick
  <2>2. \A c \in Ip : /\ blocked'[c] = Less(blocked[c]) /\ abused'[c] = Less(abused[c])
                      /\ manual'[c] = Less(manual[c])
                      /\ raced'[c] = (raced[c] /\ manual[c] > 1)
    BY <1>17 DEF Tick
  <2>3. \A c \in Ip : manual'[c] > 0 => manual[c] > 1
    BY <2>2 DEF Less, TypeOK
  <2>4. ASSUME NEW c \in Ip
        PROVE  abused'[c] <= blocked'[c] /\ (~raced'[c] => manual'[c] <= blocked'[c])
    <3>1. blocked[c] \in Nat /\ abused[c] \in Nat /\ manual[c] \in Nat /\ raced[c] \in BOOLEAN
      BY DEF TypeOK
    <3>2. CASE manual[c] > 1
      BY <2>2, <3>1, <3>2 DEF Less, BlocksHold
    <3>3. CASE ~(manual[c] > 1)
      BY <2>2, <3>1, <3>3 DEF Less, BlocksHold
    <3> QED
      BY <3>2, <3>3
  <2>5. \A c \in Ip : Past(c)' <=> Past(c)
    BY <2>1 DEF Past, AddrOf
  <2>6. ASSUME NEW c \in Ip, manual'[c] > 0, ~raced'[c] PROVE ~Past(c)'
    BY <2>2, <2>3, <2>5, <2>6 DEF Unraced, TypeOK
  <2> QED
    BY <2>4, <2>6 DEF BlocksHold, Unraced
<1> QED
  BY <1>2, <1>6, <1>7, <1>8, <1>9, <1>10, <1>11, <1>12, <1>13, <1>14, <1>15, <1>16, <1>17, Steps

\* A block for failed attempts lasts for AutoBlock, and one by hand as long as the admin
\* said unless a request was past its look when he said it, whatever else happens.
THEOREM BlocksLast == Spec => []BlocksHold
<1>1. Init => TypeOK /\ BlocksHold /\ Unraced
  BY InitTyped DEF Init, BlocksHold, Unraced
<1>2. TypeOK /\ BlocksHold /\ Unraced /\ [Next]_vars => (TypeOK /\ BlocksHold /\ Unraced)'
  BY StepTyped, StepBlocks
<1> QED
  BY <1>1, <1>2, PTL DEF Spec

-----------------------------------------------------------------------------
(* Requests there is a reason to refuse *)

\* The reason holds, and the request has not got past the look at it.
Holding(d) ==
  /\ pc[d[1]] # "idle" /\ d[2] \in Reasons(blocked, banned, keyBanned, who[d[1]])
  /\ d[2] = "address" => pc[d[1]] = "asked"
  /\ d[2] = "user" => pc[d[1]] \in {"asked", "unblocked"}
Barred == \A d \in due : Holding(d)

\* Nothing but UnblockIP and time takes a reason away.
LEMMA ReasonsGrow ==
  ASSUME NEW x \in Key, TypeOK,
         \A a \in Ip : blocked[a] > 0 => blocked'[a] > 0,
         \A u \in User : banned[u] > 0 => banned'[u] > 0,
         \A y \in Key : keyBanned[y] > 0 => keyBanned'[y] > 0
  PROVE  Reasons(blocked, banned, keyBanned, x) \subseteq Reasons(blocked', banned', keyBanned', x)
BY DEF Reasons, Key

LEMMA StepBarred ==
  ASSUME TypeOK, Barred, [Next]_vars
  PROVE  Barred'
<1> USE MonitorAssumption
<1>d. \A d \in due : d[1] \in Worker /\ d[2] \in Reason /\ who[d[1]] \in Key
  BY DEF TypeOK, Barred, Holding
\* Reasons stay, and requests that have one stay where they are.
<1>1. ASSUME UNCHANGED <<pc, who>>, due' \subseteq due,
             \A d \in due' : d[2] \in Reasons(blocked', banned', keyBanned', who[d[1]])
      PROVE  Barred'
  BY <1>1 DEF Barred, Holding
<1>2. ASSUME UNCHANGED <<pc, who, due>>,
             \A a \in Ip : blocked[a] > 0 => blocked'[a] > 0,
             \A u \in User : banned[u] > 0 => banned'[u] > 0,
             \A y \in Key : keyBanned[y] > 0 => keyBanned'[y] > 0
      PROVE  Barred'
  <2>1. \A d \in due : d[2] \in Reasons(blocked', banned', keyBanned', who[d[1]])
    BY <1>d, <1>2, ReasonsGrow DEF Barred, Holding
  <2> QED
    BY <1>1, <1>2, <2>1
<1>3. CASE UNCHANGED vars
  BY <1>2, <1>3 DEF vars, repVars, histVars
<1>4. ASSUME NEW k \in Worker, NEW u \in User, NEW a \in Ip, Ask(k, u, a) PROVE Barred'
  <2>1. \A d \in due : d[1] # k
    BY <1>4 DEF Ask, Barred, Holding
  <2>2. \A j \in Worker : /\ pc'[j] = IF j = k THEN "asked" ELSE pc[j]
                          /\ who'[j] = IF j = k THEN <<u, a>> ELSE who[j]
    BY <1>4 DEF Ask, Goes, TypeOK
  <2>3. UNCHANGED <<blocked, banned, keyBanned>>
    BY <1>4 DEF Ask, repVars
  <2>4. ASSUME NEW d \in due PROVE Holding(d)'
    BY <1>d, <2>1, <2>2, <2>3 DEF Barred, Holding
  <2>5. ASSUME NEW why \in Reasons(blocked, banned, keyBanned, <<u, a>>)
        PROVE  Holding(<<k, why>>)'
    BY <2>2, <2>3 DEF Holding
  <2>6. \A d \in due' : d \in due \/ \E why \in Reasons(blocked, banned, keyBanned, <<u, a>>) :
                                       d = <<k, why>>
    BY <1>4 DEF Ask
  <2> QED
    BY <2>4, <2>5, <2>6 DEF Barred
\* A request returns, and takes its reasons with it.
<1>5. ASSUME NEW k \in Worker, Returns(k),
             \A a \in Ip : blocked[a] > 0 => blocked'[a] > 0, UNCHANGED <<banned, keyBanned>>
      PROVE  Barred'
  <2>1. \A d \in due' : d \in due /\ d[1] # k
    BY <1>5 DEF Returns
  <2>2. \A j \in Worker \ {k} : pc'[j] = pc[j] /\ who'[j] = who[j]
    BY <1>5 DEF Returns, Goes, TypeOK
  <2>3. \A d \in due : d[2] \in Reasons(blocked', banned', keyBanned', who[d[1]])
    BY <1>d, <1>5, ReasonsGrow DEF Barred, Holding
  <2> QED
    BY <1>d, <2>1, <2>2, <2>3 DEF Barred, Holding
\* A request goes on, for which the reasons of its place are not due.
<1>6. ASSUME NEW k \in Worker, NEW place \in {"unblocked", "checked", "granted"}, Goes(k, place),
             UNCHANGED <<who, blocked, banned, keyBanned, due>>,
             \A d \in due : d[1] = k => \/ d[2] = "session"
                                        \/ d[2] = "user" /\ place = "unblocked"
      PROVE  Barred'
  <2>1. \A j \in Worker : pc'[j] = IF j = k THEN place ELSE pc[j]
    BY <1>6 DEF Goes, TypeOK
  <2> QED
    BY <1>d, <1>6, <2>1 DEF Barred, Holding
<1>7. ASSUME NEW k \in Worker, CheckIPBlocked(k) PROVE Barred'
  <2>1. CASE Returns(k)
    BY <1>5, <1>7, <2>1 DEF CheckIPBlocked, repVars
  <2>2. CASE ~(blocked[AddrOf(k)] > 0) /\ Goes(k, "unblocked") /\ UNCHANGED <<who, due>>
    <3>1. \A d \in due : d[1] = k => d[2] # "address"
      BY <2>2 DEF Barred, Holding, Reasons, AddrOf
    <3> QED
      BY <1>d, <1>6, <1>7, <2>2, <3>1 DEF CheckIPBlocked, repVars, Reason
  <2> QED
    BY <1>7, <2>1, <2>2 DEF CheckIPBlocked, Blocked
<1>8. ASSUME NEW k \in Worker, IsSessionRevoked(k) PROVE Barred'
  <2>1. CASE Returns(k)
    BY <1>5, <1>8, <2>1 DEF IsSessionRevoked, repVars
  <2>2. CASE ~Revoked(UserOf(k)) /\ Goes(k, "checked") /\ UNCHANGED <<who, due>>
    <3>1. \A d \in due : d[1] = k => d[2] \notin {"address", "user"}
      BY <1>8, <2>2 DEF IsSessionRevoked, Barred, Holding, Reasons, Revoked, UserOf
    <3> QED
      BY <1>d, <1>6, <1>8, <2>2, <3>1 DEF IsSessionRevoked, repVars, Reason
  <2> QED
    BY <1>8, <2>1, <2>2 DEF IsSessionRevoked
<1>9. ASSUME NEW k \in Worker, RecordSuccess(k) PROVE Barred'
  <2>1. \A d \in due : d[1] = k => d[2] = "session"
    BY <1>9, <1>d DEF RecordSuccess, Barred, Holding, Reason
  <2> QED
    BY <1>6, <1>9, <2>1 DEF RecordSuccess, histVars
<1>10. ASSUME NEW k \in Worker, RecordFailure(k) PROVE Barred'
  BY <1>5, <1>10 DEF RecordFailure, TypeOK
<1>11. ASSUME NEW k \in Worker, Served(k) \/ \E p \in Port : AllocationCreated(k, p) PROVE Barred'
  BY <1>5, <1>11 DEF Served, AllocationCreated, repVars
<1>12. ASSUME NEW x \in Key, \/ AllocationDeleted(x) \/ RawTraffic(x)
                             \/ \E p \in Port, a \in Ip : Traffic(p, a, x)
       PROVE  Barred'
  BY <1>2, <1>12 DEF AllocationDeleted, RawTraffic, Traffic, repVars, histVars
<1>13. ASSUME NEW x \in Key, RevokeSession(x) PROVE Barred'
  BY <1>2, <1>13 DEF RevokeSession, histVars, TypeOK
<1>14. ASSUME NEW a \in Ip, BlockIP(a) PROVE Barred'
  BY <1>2, <1>14 DEF BlockIP, TypeOK
<1>15. ASSUME HoldOn, UNCHANGED <<pc, who>> PROVE Barred'
  BY <1>1, <1>15 DEF HoldOn
<1>16. ASSUME NEW a \in Ip, UnblockIP(a) PROVE Barred'
  BY <1>15, <1>16 DEF UnblockIP
<1>17. ASSUME NEW u \in User, RevokeUser(u) PROVE Barred'
  BY <1>2, <1>17 DEF RevokeUser, histVars, TypeOK
<1>18. CASE CleanupExpired \/ GetActiveSessions
  BY <1>2, <1>18 DEF CleanupExpired, GetActiveSessions, repVars, histVars
<1>19. CASE Tick
  BY <1>15, <1>19 DEF Tick
<1> QED
  BY <1>3, <1>4, <1>7, <1>8, <1>9, <1>10, <1>11, <1>12, <1>13, <1>14, <1>16, <1>17, <1>18, <1>19,
     Steps

\* A request that comes in while its address is blocked or its user revoked is
\* not given a key as long as that lasts.
THEOREM NoKeyForBarred == Spec => []BarredGetNothing
<1>1. Init => TypeOK /\ Barred
  BY InitTyped DEF Init, Barred
<1>2. TypeOK /\ Barred /\ [Next]_vars => (TypeOK /\ Barred)'
  BY StepTyped, StepBarred
<1>3. Barred => BarredGetNothing
  BY DEF Barred, Holding, BarredGetNothing
<1> QED
  BY <1>1, <1>2, <1>3, PTL DEF Spec

-----------------------------------------------------------------------------
(* Sessions *)

\* A revoked user's session comes back only with a new allocation.
THEOREM RevokedStayOut == Spec => RevokedNotRenewed
<1> DEFINE Back == \A x \in Key : banned[x[1]] > 0 /\ session[x] = None /\ session'[x] # None
                                    => live'[x] > live[x]
<1>1. ASSUME TypeOK, Next PROVE Back
  <2>1. ASSUME \A x \in Key : session[x] = None => session'[x] = None PROVE Back
    BY <2>1
  <2>2. ASSUME NEW k \in Worker,
               \/ \E u \in User, a \in Ip : Ask(k, u, a)
               \/ CheckIPBlocked(k) \/ IsSessionRevoked(k) \/ RecordFailure(k) \/ Served(k)
        PROVE  Back
    BY <2>1, <2>2 DEF Ask, CheckIPBlocked, IsSessionRevoked, RecordFailure, Served
  <2>3. ASSUME NEW k \in Worker, RecordSuccess(k) PROVE Back
    <3>1. banned[UserOf(k)] > 0 => session' = session
      BY <1>1, <2>3, MonitorAssumption DEF RecordSuccess, Renews
    <3>2. \A x \in Key : x # who[k] => session'[x] = session[x]
      BY <1>1, <2>3 DEF RecordSuccess, TypeOK
    <3> QED
      BY <3>1, <3>2 DEF UserOf
  <2>4. ASSUME NEW k \in Worker, NEW p \in Port, AllocationCreated(k, p) PROVE Back
    BY <1>1, <2>4, MonitorAssumption DEF AllocationCreated, TypeOK
  <2>5. ASSUME NEW x \in Key, NEW p \in Port, NEW a \in Ip, Traffic(p, a, x) PROVE Back
    <3>1. session[x] # None /\ \A y \in Key : y # x => session'[y] = session[y]
      BY <1>1, <2>5 DEF Traffic, Creditable, TypeOK
    <3> QED
      BY <2>1, <3>1
  <2>6. ASSUME NEW a \in Ip, BlockIP(a) \/ UnblockIP(a) PROVE Back
    BY <2>1, <2>6 DEF BlockIP, UnblockIP, Without
  <2>7. ASSUME NEW u \in User, RevokeUser(u) PROVE Back
    BY <2>1, <2>7 DEF RevokeUser
  <2>8. CASE CleanupExpired \/ GetActiveSessions \/ Tick
    BY <2>1, <2>8 DEF CleanupExpired, GetActiveSessions, Tick, Without
  <2>9. ASSUME NEW x \in Key, AllocationDeleted(x) \/ RawTraffic(x) \/ RevokeSession(x) PROVE Back
    <3>1. CASE AllocationDeleted(x)
      BY <1>1, <2>1, <3>1 DEF AllocationDeleted, TypeOK
    <3>2. CASE RawTraffic(x)
      BY <1>1, <2>1, <3>2 DEF RawTraffic, TypeOK
    <3>3. CASE RevokeSession(x)
      BY <2>1, <3>3 DEF RevokeSession, Without
    <3> QED
      BY <2>9, <3>1, <3>2, <3>3
  <2> QED
    BY <1>1, <2>2, <2>3, <2>4, <2>5, <2>6, <2>7, <2>8, <2>9, Steps
<1>2. TypeOK /\ [Next]_vars => [Back]_vars
  BY <1>1
<1>3. TypeOK /\ [Next]_vars => TypeOK'
  BY StepTyped
<1> QED
  BY <1>2, <1>3, InitTyped, PTL DEF Spec, RevokedNotRenewed

\* The sessions shown as closed are those whose user's last act was an end.
Follow == \A x \in Key : session[x] # None => (session[x].status = "closed" <=> ended[x])

LEMMA StepClosed ==
  ASSUME TypeOK, Follow, [Next]_vars
  PROVE  Follow'
<1> USE MonitorAssumption
\* Sessions stay closed or open, or go.
<1>1. ASSUME ended' = ended,
             \A x \in Key : session'[x] # None =>
               session[x] # None /\ (session'[x].status = "closed" <=> session[x].status = "closed")
      PROVE  Follow'
  BY <1>1 DEF Follow
\* One session changes, with what its user did last.
<1>2. ASSUME NEW x \in Key, \A y \in Key \ {x} : session'[y] = session[y] /\ ended'[y] = ended[y],
             session'[x] # None => (session'[x].status = "closed" <=> ended'[x])
      PROVE  Follow'
  BY <1>2 DEF Follow
<1>3. ASSUME UNCHANGED <<session, ended>> PROVE Follow'
  BY <1>3 DEF Follow
<1>4. CASE UNCHANGED vars
  BY <1>3, <1>4 DEF vars
<1>5. ASSUME NEW k \in Worker,
             \/ \E u \in User, a \in Ip : Ask(k, u, a)
             \/ CheckIPBlocked(k) \/ IsSessionRevoked(k) \/ RecordFailure(k) \/ Served(k)
      PROVE  Follow'
  BY <1>3, <1>5 DEF Ask, CheckIPBlocked, IsSessionRevoked, RecordFailure, Served
<1>6. ASSUME NEW k \in Worker, RecordSuccess(k) PROVE Follow'
  <2>1. CASE UNCHANGED <<session, ended>>
    BY <1>3, <2>1
  <2>2. ASSUME NEW end, session' = [session EXCEPT ![who[k]] = SessionOf("active", end, None)],
               ended' = [ended EXCEPT ![who[k]] = FALSE]
        PROVE  Follow'
    <3>1. who[k] \in Key
      BY <1>6 DEF RecordSuccess, TypeOK
    <3>2. session'[who[k]].status = "active" /\ ~ended'[who[k]]
      BY <2>2, <3>1 DEF SessionOf, TypeOK
    <3>3. \A y \in Key \ {who[k]} : session'[y] = session[y] /\ ended'[y] = ended[y]
      BY <2>2, <3>1 DEF TypeOK
    <3> QED
      BY <1>2, <3>1, <3>2, <3>3
  <2> QED
    BY <1>6, <2>1, <2>2 DEF RecordSuccess
<1>7. ASSUME NEW k \in Worker, NEW p \in Port, AllocationCreated(k, p) PROVE Follow'
  <2>1. who[k] \in Key
    BY <1>7 DEF AllocationCreated, TypeOK
  <2>2. session'[who[k]].status = "active" /\ ~ended'[who[k]]
    BY <1>7, <2>1 DEF AllocationCreated, SessionOf, CreatedStatus, TypeOK
  <2>3. \A y \in Key \ {who[k]} : session'[y] = session[y] /\ ended'[y] = ended[y]
    BY <1>7, <2>1 DEF AllocationCreated, TypeOK
  <2> QED
    BY <1>2, <2>1, <2>2, <2>3
<1>8. ASSUME NEW x \in Key, AllocationDeleted(x) PROVE Follow'
  <2>1. \A y \in Key \ {x} : session'[y] = session[y] /\ ended'[y] = ended[y]
    BY <1>8 DEF AllocationDeleted, TypeOK
  <2>2. ended'[x]
    BY <1>8 DEF AllocationDeleted, TypeOK
  <2>3. session[x] = None => session'[x] = None
    BY <1>8 DEF AllocationDeleted, TypeOK
  <2>4. session[x] # None => session'[x].status = "closed"
    BY <1>8 DEF AllocationDeleted, TypeOK, Session
  <2> QED
    BY <1>2, <2>1, <2>2, <2>3, <2>4
<1>9. ASSUME NEW x \in Key, RawTraffic(x) PROVE Follow'
  BY <1>1, <1>9 DEF RawTraffic, TypeOK, Session
<1>10. ASSUME NEW p \in Port, NEW a \in Ip, NEW x \in Key, Traffic(p, a, x) PROVE Follow'
  <2>1. session[x] # None
    BY <1>10 DEF Traffic, Creditable
  <2> QED
    BY <1>1, <1>10, <2>1 DEF Traffic, TypeOK, Session
<1>11. ASSUME NEW x \in Key, RevokeSession(x) PROVE Follow'
  BY <1>1, <1>11 DEF RevokeSession, Without
<1>12. ASSUME NEW a \in Ip, BlockIP(a) \/ UnblockIP(a) PROVE Follow'
  BY <1>1, <1>3, <1>12 DEF BlockIP, UnblockIP, Without
<1>13. ASSUME NEW u \in User, RevokeUser(u) PROVE Follow'
  BY <1>3, <1>13 DEF RevokeUser
<1>14. CASE CleanupExpired
  BY <1>1, <1>14 DEF CleanupExpired, Without
<1>15. CASE GetActiveSessions
  <2>1. \A s \in Session : [s EXCEPT !.status = Shown(s)].status = Shown(s)
    BY DEF Session
  <2>2. \A s \in Session : Shown(s) = "closed" <=> s.status = "closed"
    BY DEF Shown
  <2> QED
    BY <1>1, <1>15, <2>1, <2>2 DEF GetActiveSessions, TypeOK
<1>16. CASE Tick
  <2>1. \A s \in Session : Older(s).status = s.status
    BY DEF Session, Older
  <2> QED
    BY <1>1, <1>16, <2>1 DEF Tick, TypeOK
<1> QED
  BY <1>4, <1>5, <1>6, <1>7, <1>8, <1>9, <1>10, <1>11, <1>12, <1>13, <1>14, <1>15, <1>16, Steps

\* The state is well typed, and a session is shown as closed exactly if the last thing its
\* user did at its address was to end an allocation, however many share the session.
THEOREM ClosedByTheLastEnd == Spec => []SessionsFollow
<1>1. Init => TypeOK /\ Follow
  BY InitTyped DEF Init, Follow
<1>2. TypeOK /\ Follow /\ [Next]_vars => (TypeOK /\ Follow)'
  BY StepTyped, StepClosed
<1>3. TypeOK /\ Follow => SessionsFollow
  BY DEF SessionsFollow, Follow
<1> QED
  BY <1>1, <1>2, <1>3, PTL DEF Spec
=============================================================================
