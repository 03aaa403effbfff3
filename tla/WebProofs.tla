------------------------------ MODULE WebProofs ------------------------------
(***************************************************************************)
(* Theorems about four components of the web server that share no state:   *)
(* the GoToSocial walk, admin logins, the broadcast relay and dynamic DNS, *)
(* for any number of requests, clients, streams, users, passwords, tokens  *)
(* and domains, and any bounds.                                            *)
(***************************************************************************)
EXTENDS Fediverse, AdminAuth, Broadcast, DuckDNS, FiniteSetTheorems, TLAPS

-----------------------------------------------------------------------------
(* Fediverse: one request moves *)

\* What a request under way is about; the SSO handler knows the host after its gate.
Shaped ==
  \A k \in Request :
    /\ call[k].at # "idle" => call[k].user \in User
    /\ call[k].at \notin {"idle", "gate"} => call[k].host \in Host
WalkTyping == FedTypeOK /\ Shaped
Alone == \A k \in Request : Holds(k) <=> mutex = k

\* One request moves and the others stay, in words a solver can use.
LEMMA OneMoves ==
  ASSUME call \in [Request -> Call], NEW k \in Request, NEW d \in Call,
         call' = [call EXCEPT ![k] = d]
  PROVE  /\ call' \in [Request -> Call]
         /\ \A j \in Request : call'[j] = IF j = k THEN d ELSE call[j]
  OBVIOUS

\* Every step is a change of the record of one request, or a new public host.
Writes(k, d) == call' = [call EXCEPT ![k] = d]
With(c, place) == [c EXCEPT !.at = place]
LEMMA GoesWrites ==
  ASSUME call \in [Request -> Call], NEW k \in Request, NEW place \in Place, Goes(k, place)
  PROVE  With(call[k], place) \in Call /\ Writes(k, With(call[k], place))
BY DEF Goes, Call, With, Writes

-----------------------------------------------------------------------------
(* Fediverse: the state is well typed, and the walk holds the mutex *)

LEMMA WalkInitTyped == FedInit => WalkTyping /\ Alone
<1> SUFFICES ASSUME FedInit PROVE WalkTyping /\ Alone
  OBVIOUS
<1>1. Idle \in Call
  BY DEF Idle, Call, Place, Inside, App
<1>2. \A k \in Request : call[k].at = "idle"
  BY DEF FedInit, Idle
<1> QED
  BY <1>1, <1>2, FediverseAssumption
  DEF FedInit, WalkTyping, FedTypeOK, Shaped, Alone, Holds, Inside

\* A request that keeps on its side of the mutex and what it is about.
LEMMA WalkMoveTyped ==
  ASSUME WalkTyping, Alone, NEW k \in Request, NEW d \in Call, Writes(k, d),
         account' \in [User -> Host \cup {None}], confirmed' \subseteq User,
         mishaps' \in 0..MaxMishaps, hurt' \subseteq Request,
         UNCHANGED <<publicHost, commands, changes>>,
         d.at # "idle" => d.user \in User, d.at \notin {"idle", "gate"} => d.host \in Host,
         \/ mutex' = mutex /\ (d.at \in Inside <=> call[k].at \in Inside)
         \/ mutex = None /\ mutex' = k /\ d.at \in Inside
         \/ mutex = k /\ mutex' = None /\ d.at \notin Inside
  PROVE  (WalkTyping /\ Alone)'
<1> USE FediverseAssumption
<1>1. /\ call' \in [Request -> Call]
      /\ \A j \in Request : call'[j] = IF j = k THEN d ELSE call[j]
  BY OneMoves DEF WalkTyping, FedTypeOK, Writes
<1>2. FedTypeOK'
  BY <1>1 DEF WalkTyping, FedTypeOK
<1>3. Shaped'
  BY <1>1 DEF WalkTyping, Shaped
<1>4. Alone'
  BY <1>1 DEF Alone, Holds
<1> QED
  BY <1>2, <1>3, <1>4 DEF WalkTyping

LEMMA Falls ==
  ASSUME WalkTyping, NEW k \in Request, Lost(k) \/ Made(k)
  PROVE  mishaps' \in 0..MaxMishaps /\ hurt' \subseteq Request
BY FediverseAssumption DEF Lost, Made, WalkTyping, FedTypeOK

LEMMA WalkStepTyped ==
  ASSUME WalkTyping, Alone, [FedNext]_fedVars
  PROVE  (WalkTyping /\ Alone)'
<1> USE FediverseAssumption
<1>0. FedTypeOK /\ Shaped /\ \A k \in Request : call[k] \in Call
  BY DEF WalkTyping, FedTypeOK
<1>i. Idle \in Call /\ Idle.at = "idle"
  BY DEF Idle, Call, Place, Inside, App
<1>1. CASE UNCHANGED fedVars
  BY <1>1 DEF fedVars, server, WalkTyping, FedTypeOK, Shaped, Alone, Holds
<1>2. ASSUME NEW k \in Request, NEW u \in User, NEW h \in Host \cup {None},
             NEW place \in {"gate", "lock"}, place = "lock" => h \in Host, Accept(k, place, u, h)
      PROVE  (WalkTyping /\ Alone)'
  <2> DEFINE d == [Idle EXCEPT !.at = place, !.user = u, !.host = h]
  <2>1. d \in Call /\ d.at = place /\ d.user = u /\ d.host = h
    BY <1>i DEF Idle, Call, Place, Inside, App
  <2>2. Writes(k, d) /\ mutex' = mutex /\ hurt' \subseteq Request /\ call[k].at = "idle"
    BY <1>0, <1>2 DEF Accept, Writes, FedTypeOK
  <2> QED
    BY <1>0, <1>2, <2>1, <2>2, WalkMoveTyped DEF Accept, server, FedTypeOK, Inside
<1>3. ASSUME NEW k \in Request, Gate(k) PROVE (WalkTyping /\ Alone)'
  <2>1. CASE call' = [call EXCEPT ![k] = Idle]
    BY <1>0, <1>i, <1>3, <2>1, WalkMoveTyped DEF Gate, Writes, server, FedTypeOK, Inside
  <2>2. ASSUME NEW h \in SsoHosts, NEW place \in {"ssoCreate", "lock"},
               call' = [call EXCEPT ![k].at = place, ![k].host = h]
        PROVE  (WalkTyping /\ Alone)'
    <3> DEFINE d == [call[k] EXCEPT !.at = place, !.host = h]
    <3>1. h \in Host
      BY <1>0 DEF SsoHosts, FedTypeOK
    <3>2. d \in Call /\ d.at = place /\ d.user = call[k].user /\ d.host = h
      BY <1>0, <3>1 DEF Call, Place
    <3>3. Writes(k, d)
      BY <1>0, <2>2 DEF Writes, FedTypeOK, Call
    <3>4. d.user \in User
      BY <1>0, <1>3, <3>2 DEF Gate, Shaped
    <3> QED
      BY <1>0, <1>3, <3>1, <3>2, <3>3, <3>4, WalkMoveTyped DEF Gate, server, FedTypeOK, Inside
  <2> QED
    BY <1>3, <2>1, <2>2 DEF Gate, IfCommands
\* Steps that only go on to the next place and keep the mutex.
<1>4. ASSUME NEW k \in Request, NEW place \in Place \ {"idle", "gate"}, NEW d \in Call,
             d.at = place, d.user = call[k].user, d.host = call[k].host, Writes(k, d),
             call[k].at \notin {"idle", "gate"},
             account' \in [User -> Host \cup {None}], confirmed' \subseteq User,
             Lost(k) \/ Made(k), UNCHANGED <<publicHost, commands, changes, mutex>>,
             place \in Inside <=> call[k].at \in Inside
      PROVE  (WalkTyping /\ Alone)'
  BY <1>0, <1>4, Falls, WalkMoveTyped DEF Shaped
<1>5. ASSUME NEW k \in Request, Create(k) PROVE (WalkTyping /\ Alone)'
  <2> DEFINE place == IF call[k].at = "create" THEN "confirm" ELSE "ssoConfirm"
             d == With(call[k], place)
  <2>1. d \in Call /\ Writes(k, d)
    BY <1>0, <1>5, GoesWrites DEF Create, FedTypeOK, Place, Inside
  <2>2. d.at = place /\ d.user = call[k].user /\ d.host = call[k].host
    BY <1>0 DEF With, Call
  <2>3. account' \in [User -> Host \cup {None}] /\ (Lost(k) \/ Made(k))
    BY <1>0, <1>5 DEF Create, FedTypeOK, Shaped
  <2> QED
    BY <1>0, <1>4, <1>5, <2>1, <2>2, <2>3 DEF Create, FedTypeOK, Place, Inside
<1>6. ASSUME NEW k \in Request, Confirm(k) PROVE (WalkTyping /\ Alone)'
  <2> DEFINE place == IF call[k].at = "confirm" THEN "signIn" ELSE "lock"
             d == With(call[k], place)
  <2>1. d \in Call /\ Writes(k, d)
    BY <1>0, <1>6, GoesWrites DEF Confirm, FedTypeOK, Place, Inside
  <2>2. d.at = place /\ d.user = call[k].user /\ d.host = call[k].host
    BY <1>0 DEF With, Call
  <2>3. confirmed' \subseteq User /\ (Lost(k) \/ Made(k))
    BY <1>0, <1>6 DEF Confirm, ConfirmedBy, FedTypeOK, Shaped
  <2> QED
    BY <1>0, <1>4, <1>6, <2>1, <2>2, <2>3 DEF Confirm, FedTypeOK, Place, Inside
<1>7. ASSUME NEW k \in Request, Lock(k) PROVE (WalkTyping /\ Alone)'
  <2> DEFINE d == With(call[k], "app")
  <2>1. d \in Call /\ Writes(k, d)
    BY <1>0, <1>7, GoesWrites DEF Lock, FedTypeOK, Place, Inside
  <2>2. d.at = "app" /\ d.user = call[k].user /\ d.host = call[k].host
    BY <1>0 DEF With, Call
  <2>3. d.user \in User /\ d.host \in Host /\ mutex = None /\ mutex' = k
    BY <1>0, <1>7, <2>2 DEF Lock, Available, Free, Shaped
  <2> QED
    BY <1>0, <1>7, <2>1, <2>2, <2>3, WalkMoveTyped DEF Lock, server, FedTypeOK, Inside
<1>8. ASSUME NEW k \in Request, EnsureOAuthApp(k) PROVE (WalkTyping /\ Alone)'
  <2> DEFINE next == IfCommands("create", "signIn")
  <2>n. next \in {"create", "signIn"}
    BY DEF IfCommands
  <2>1. PICK a \in App : call' = [call EXCEPT ![k].at = next, ![k].app = a]
    BY <1>8 DEF EnsureOAuthApp, App
  <2> DEFINE d == [call[k] EXCEPT !.at = next, !.app = a]
  <2> HIDE DEF next
  <2>2. d \in Call /\ d.at = next /\ d.user = call[k].user /\ d.host = call[k].host
    BY <1>0, <2>n DEF Call, Place, Inside
  <2>3. Writes(k, d)
    BY <1>0, <2>1 DEF Writes, FedTypeOK, Call
  <2> QED
    BY <1>0, <1>4, <1>8, <2>n, <2>2, <2>3 DEF EnsureOAuthApp, server, FedTypeOK, Place, Inside
<1>9. ASSUME NEW k \in Request, SignIn(k) PROVE (WalkTyping /\ Alone)'
  <2> DEFINE d == [call[k] EXCEPT !.at = "approve", !.signedIn = Matches(k)]
  <2>1. Matches(k) \in BOOLEAN
    BY DEF Matches
  <2>2. d \in Call /\ d.at = "approve" /\ d.user = call[k].user /\ d.host = call[k].host
    BY <1>0, <2>1 DEF Call, Place, Inside
  <2>3. Writes(k, d)
    BY <1>0, <1>9 DEF SignIn, Writes, FedTypeOK, Call
  <2> QED
    BY <1>0, <1>4, <1>9, <2>2, <2>3 DEF SignIn, server, FedTypeOK, Place, Inside
<1>10. ASSUME NEW k \in Request, Approve(k) \/ ApproveWithoutCode(k) \/ CallFails(k)
       PROVE  (WalkTyping /\ Alone)'
  <2>1. /\ Writes(k, Idle) /\ mutex' = None /\ (Lost(k) \/ Made(k))
        /\ call[k].at \in Inside /\ UNCHANGED <<publicHost, server, changes>>
    BY <1>10 DEF Approve, ApproveWithoutCode, CallFails, Answer, Released, Writes, Inside
  <2>2. mutex = k
    BY <2>1 DEF Alone, Holds
  <2> QED
    BY <1>0, <1>i, <2>1, <2>2, Falls, WalkMoveTyped DEF server, FedTypeOK, Inside
<1>11. ASSUME NEW k \in Request, ClientLeaves(k) PROVE (WalkTyping /\ Alone)'
  <2> DEFINE d == [call[k] EXCEPT !.gone = TRUE]
  <2>1. /\ d \in Call /\ d.at = call[k].at /\ d.user = call[k].user /\ d.host = call[k].host
    BY <1>0 DEF Call
  <2>2. Writes(k, d)
    BY <1>0, <1>11 DEF ClientLeaves, Writes, FedTypeOK, Call
  <2>3. mishaps' \in 0..MaxMishaps /\ hurt' \subseteq Request
    BY <1>0, <1>11 DEF ClientLeaves, FedTypeOK
  <2> QED
    BY <1>0, <1>11, <2>1, <2>2, <2>3, WalkMoveTyped DEF ClientLeaves, server, FedTypeOK, Shaped
<1>12. ASSUME NEW h \in Host, HostChanges(h) PROVE (WalkTyping /\ Alone)'
  BY <1>0, <1>12 DEF HostChanges, server, WalkTyping, FedTypeOK, Shaped, Alone, Holds
<1> QED
  BY <1>0, <1>1, <1>2, <1>3, <1>5, <1>6, <1>7, <1>8, <1>9, <1>10, <1>11, <1>12
  DEF FedNext, Credentials, Sso, Before, WalkOn, FedTypeOK

\* The state is well typed and the mutex is held by exactly the request that walks.
THEOREM OneWalks == FedSpec => []Exclusive
<1>1. WalkTyping /\ Alone => Exclusive
  BY DEF WalkTyping, Alone, Exclusive
<1> QED
  BY <1>1, WalkInitTyped, WalkStepTyped, PTL DEF FedSpec

-----------------------------------------------------------------------------
(* Fediverse: what a request is refused for *)

\* A request whose client stays and whose calls get through has an application of
\* its own and, where the commands run, an account, a confirmed one, each by the
\* time it needs it; its session is signed in then, unless the account has another
\* address or, without the commands, nobody has confirmed it.
Promise(c, given, sure) ==
  /\ ~c.gone
  /\ c.at \in {"create", "confirm", "signIn", "approve"} => c.app = "own"
  /\ commands /\ c.at \in {"confirm", "signIn", "approve"} => given[c.user] # None
  /\ commands /\ c.at \in {"signIn", "approve"} => c.user \in sure
  /\ c.at = "approve" => \/ c.signedIn \/ given[c.user] # c.host
                         \/ ~commands /\ c.user \notin sure
Promised == \A k \in Request \ hurt : Promise(call[k], account, confirmed)

LEMMA InitPromised == FedInit => Promised
<1> SUFFICES ASSUME FedInit PROVE Promised
  OBVIOUS
<1>1. Promise(Idle, account, confirmed)
  BY DEF Promise, Idle
<1> QED
  BY <1>1 DEF FedInit, Promised

\* Accounts stay as they were made and confirmed, and none changes without the
\* commands, so that the promises to the others are kept, and one request moves.
LEMMA MoveKeeps ==
  ASSUME WalkTyping, Promised, NEW k \in Request, NEW d, Writes(k, d),
         commands' = commands, ~commands => UNCHANGED <<account, confirmed>>,
         \A u \in User : account[u] # None => account'[u] = account[u],
         confirmed \subseteq confirmed', hurt \subseteq hurt' \cup {k},
         k \notin hurt' => Promise(d, account', confirmed')
  PROVE  Promised'
<1>1. \A j \in Request : call'[j] = IF j = k THEN d ELSE call[j]
  BY DEF WalkTyping, FedTypeOK, Writes
<1>2. ASSUME NEW j \in Request \ hurt', j # k PROVE Promise(call[j], account, confirmed)'
  <2>1. Promise(call[j], account, confirmed) /\ call'[j] = call[j]
    BY <1>1, <1>2 DEF Promised
  <2>2. call[j].at # "idle" => call[j].user \in User
    BY DEF WalkTyping, Shaped
  <2>3. commands \in BOOLEAN
    BY DEF WalkTyping, FedTypeOK
  <2>4. CASE commands
    BY <2>1, <2>2, <2>4 DEF Promise
  <2>5. CASE ~commands
    BY <2>1, <2>5 DEF Promise
  <2> QED
    BY <2>3, <2>4, <2>5
<1>3. ASSUME k \notin hurt' PROVE Promise(call[k], account, confirmed)'
  BY <1>1, <1>3 DEF Promise
<1> QED
  BY <1>2, <1>3 DEF Promised

\* Who is not hurt after a call was not before, and the call has got through.
LEMMA Unhurt ==
  ASSUME Promised, NEW k \in Request, Lost(k) \/ Made(k), k \notin hurt'
  PROVE  Made(k) /\ k \notin hurt /\ Promise(call[k], account, confirmed)
BY DEF Lost, Made, Promised, Promise

LEMMA HurtGrows == ASSUME NEW k \in Request, Lost(k) \/ Made(k) PROVE hurt \subseteq hurt'
BY DEF Lost, Made

LEMMA StepPromised ==
  ASSUME WalkTyping, Promised, [FedNext]_fedVars
  PROVE  Promised'
<1> USE FediverseAssumption
<1>0. FedTypeOK /\ Shaped /\ \A k \in Request : call[k] \in Call
  BY DEF WalkTyping, FedTypeOK
<1>i. Promise(Idle, account', confirmed')
  BY DEF Promise, Idle
<1>1. CASE UNCHANGED fedVars
  BY <1>1 DEF fedVars, server, Promised, Promise
<1>2. ASSUME NEW k \in Request, NEW u \in User, NEW h \in Host \cup {None},
             NEW place \in {"gate", "lock"}, Accept(k, place, u, h)
      PROVE  Promised'
  <2> DEFINE d == [Idle EXCEPT !.at = place, !.user = u, !.host = h]
  <2>1. Writes(k, d) /\ hurt' = hurt \ {k} /\ UNCHANGED server
    BY <1>2 DEF Accept, Writes
  <2>2. d.at = place /\ d.gone = FALSE
    BY DEF Idle
  <2>3. Promise(d, account', confirmed')
    BY <2>2 DEF Promise
  <2>4. hurt \subseteq hurt' \cup {k}
    BY <2>1
  <2> HIDE DEF d
  <2> QED
    BY <2>1, <2>3, <2>4, MoveKeeps DEF server
<1>3. ASSUME NEW k \in Request, Gate(k) PROVE Promised'
  <2>1. CASE call' = [call EXCEPT ![k] = Idle]
    BY <1>3, <1>i, <2>1, MoveKeeps DEF Gate, Writes, server
  <2>2. ASSUME NEW h \in SsoHosts, NEW place \in {"ssoCreate", "lock"},
               call' = [call EXCEPT ![k].at = place, ![k].host = h]
        PROVE  Promised'
    <3> DEFINE d == [call[k] EXCEPT !.at = place, !.host = h]
    <3>1. d.at = place /\ d.gone = call[k].gone
      BY <1>0 DEF Call
    <3>2. Writes(k, d)
      BY <1>0, <2>2 DEF Writes, FedTypeOK, Call
    <3>3. hurt' = hurt /\ UNCHANGED server
      BY <1>3 DEF Gate
    <3>4. k \notin hurt' => Promise(d, account', confirmed')
      BY <3>1, <3>3 DEF Promised, Promise
    <3> HIDE DEF d
    <3> QED
      BY <3>2, <3>3, <3>4, MoveKeeps DEF server
  <2> QED
    BY <1>3, <2>1, <2>2 DEF Gate, IfCommands
<1>5. ASSUME NEW k \in Request, Create(k) PROVE Promised'
  <2> DEFINE place == IF call[k].at = "create" THEN "confirm" ELSE "ssoConfirm"
             d == With(call[k], place)
  <2>1. Writes(k, d) /\ (Lost(k) \/ Made(k))
    BY <1>0, <1>5, GoesWrites DEF Create, FedTypeOK, Place, Inside
  <2>2. d.at = place /\ d.user = call[k].user /\ d.host = call[k].host /\ d.app = call[k].app
        /\ d.gone = call[k].gone
    BY <1>0 DEF With, Call
  <2>3. call[k].user \in User /\ call[k].host \in Host
    BY <1>0, <1>5 DEF Create, Shaped
  <2>4. \A u \in User : account[u] # None => account'[u] = account[u]
    BY <1>0, <1>5, <2>3 DEF Create, FedTypeOK
  <2>5. Made(k) => account'[call[k].user] # None
    BY <1>0, <1>5, <2>3 DEF Create, Made, Lost, FedTypeOK
  <2>6. k \notin hurt' => Promise(d, account', confirmed')
    BY <1>5, <2>1, <2>2, <2>5, Unhurt DEF Promise, Create
  <2>7. hurt \subseteq hurt' /\ confirmed' = confirmed /\ commands /\ commands' = commands
    BY <1>5, <2>1, HurtGrows DEF Create
  <2> HIDE DEF d
  <2> QED
    BY <2>1, <2>4, <2>6, <2>7, MoveKeeps
<1>6. ASSUME NEW k \in Request, Confirm(k) PROVE Promised'
  <2> DEFINE place == IF call[k].at = "confirm" THEN "signIn" ELSE "lock"
             d == With(call[k], place)
  <2>1. Writes(k, d) /\ (Lost(k) \/ Made(k)) /\ account' = account
    BY <1>0, <1>6, GoesWrites DEF Confirm, FedTypeOK, Place, Inside
  <2>2. d.at = place /\ d.user = call[k].user /\ d.host = call[k].host /\ d.app = call[k].app
        /\ d.gone = call[k].gone
    BY <1>0 DEF With, Call
  <2>3. /\ confirmed \subseteq confirmed' /\ hurt \subseteq hurt'
        /\ commands /\ commands' = commands
    BY <1>6, <2>1, HurtGrows DEF Confirm
  <2>4. Made(k) /\ account[call[k].user] # None => call[k].user \in confirmed'
    BY <1>0, <1>6 DEF Confirm, ConfirmedBy, Made, Lost, FedTypeOK
  <2>5. k \notin hurt' => Promise(d, account', confirmed')
    BY <1>6, <2>1, <2>2, <2>4, Unhurt DEF Promise, Confirm
  <2> HIDE DEF d
  <2> QED
    BY <2>1, <2>3, <2>5, MoveKeeps
<1>7. ASSUME NEW k \in Request, Lock(k) PROVE Promised'
  <2> DEFINE d == With(call[k], "app")
  <2>1. Writes(k, d)
    BY <1>0, <1>7, GoesWrites DEF Lock, FedTypeOK, Place, Inside
  <2>2. d.at = "app" /\ d.gone = call[k].gone
    BY <1>0 DEF With, Call
  <2>3. hurt' = hurt /\ UNCHANGED server
    BY <1>7 DEF Lock
  <2>4. k \notin hurt' => Promise(d, account', confirmed')
    BY <2>2, <2>3 DEF Promised, Promise
  <2> HIDE DEF d
  <2> QED
    BY <2>1, <2>3, <2>4, MoveKeeps DEF server
<1>8. ASSUME NEW k \in Request, EnsureOAuthApp(k) PROVE Promised'
  <2> DEFINE next == IfCommands("create", "signIn")
  <2>n. next \in {"create", "signIn"} /\ (next = "create" <=> commands)
    BY <1>0 DEF IfCommands, FedTypeOK
  <2>1. PICK a \in App : /\ call' = [call EXCEPT ![k].at = next, ![k].app = a]
                         /\ Lost(k) \/ (Made(k) /\ a = "own")
    BY <1>8 DEF EnsureOAuthApp, App
  <2> DEFINE d == [call[k] EXCEPT !.at = next, !.app = a]
  <2> HIDE DEF next
  <2>2. Writes(k, d)
    BY <1>0, <2>1 DEF Writes, FedTypeOK, Call
  <2>3. d.at = next /\ d.app = a /\ d.gone = call[k].gone
    BY <1>0 DEF Call
  <2>4. k \notin hurt' => a = "own"
    BY <2>1 DEF Lost, Promised, Promise
  <2>5. hurt \subseteq hurt' /\ UNCHANGED server
    BY <1>8, <2>1, HurtGrows DEF EnsureOAuthApp
  <2>6. k \notin hurt' => Promise(d, account', confirmed')
    BY <2>n, <2>1, <2>3, <2>4, <2>5, Unhurt DEF Promise, server
  <2> HIDE DEF d
  <2> QED
    BY <2>2, <2>5, <2>6, MoveKeeps DEF server
<1>9. ASSUME NEW k \in Request, SignIn(k) PROVE Promised'
  <2> DEFINE d == [call[k] EXCEPT !.at = "approve", !.signedIn = Matches(k)]
  <2>1. Writes(k, d) /\ Made(k) /\ UNCHANGED server /\ call[k].at = "signIn"
    BY <1>0, <1>9 DEF SignIn, Writes, FedTypeOK, Call
  <2>2. /\ d.at = "approve" /\ d.user = call[k].user /\ d.host = call[k].host
        /\ d.app = call[k].app /\ d.gone = call[k].gone /\ d.signedIn = Matches(k)
    BY <1>0 DEF Call
  <2>3. k \notin hurt' => Promise(d, account', confirmed')
    <3>1. \/ Matches(k) \/ account[call[k].user] # call[k].host
          \/ call[k].user \notin confirmed
      BY DEF Matches
    <3>2. d.signedIn \/ account[d.user] # d.host \/ d.user \notin confirmed
      BY <2>2, <3>1
    <3> HIDE DEF d
    <3> QED
      BY <2>1, <2>2, <3>2, Unhurt DEF Promise, server
  <2>4. hurt \subseteq hurt'
    BY <2>1, HurtGrows
  <2> HIDE DEF d
  <2> QED
    BY <2>1, <2>3, <2>4, MoveKeeps DEF server
<1>10. ASSUME NEW k \in Request, Approve(k) \/ ApproveWithoutCode(k) \/ CallFails(k)
       PROVE  Promised'
  <2>1. Writes(k, Idle) /\ (Lost(k) \/ Made(k)) /\ UNCHANGED server
    BY <1>10 DEF Approve, ApproveWithoutCode, CallFails, Answer, Writes
  <2> QED
    BY <1>i, <2>1, HurtGrows, MoveKeeps DEF server
<1>11. ASSUME NEW k \in Request, ClientLeaves(k) PROVE Promised'
  <2> DEFINE d == [call[k] EXCEPT !.gone = TRUE]
  <2>1. Writes(k, d) /\ hurt' = hurt \cup {k} /\ UNCHANGED server
    BY <1>0, <1>11 DEF ClientLeaves, Writes, FedTypeOK, Call
  <2> HIDE DEF d
  <2> QED
    BY <2>1, MoveKeeps DEF server
<1>12. ASSUME NEW h \in Host, HostChanges(h) PROVE Promised'
  BY <1>12 DEF HostChanges, server, Promised, Promise
<1> QED
  BY <1>0, <1>1, <1>2, <1>3, <1>5, <1>6, <1>7, <1>8, <1>9, <1>10, <1>11, <1>12
  DEF FedNext, Credentials, Sso, Before, WalkOn, FedTypeOK

\* A request whose client stays and whose calls all get through is refused its
\* token only if the account was made when the server went by another name or,
\* where the commands do not run, there is no confirmed account.
THEOREM RefusedForNothingElse == FedSpec => RefusedForItsName
<1> DEFINE Reason(k) ==
      ApproveWithoutCode(k) /\ call[k].user # Primary /\ k \notin hurt
        => \/ account[call[k].user] \notin {None, call[k].host}
           \/ ~commands /\ (account[call[k].user] = None \/ call[k].user \notin confirmed)
<1>1. ASSUME WalkTyping, Promised, NEW k \in Request PROVE Reason(k)
  <2> SUFFICES ASSUME ApproveWithoutCode(k), k \notin hurt
               PROVE  \/ account[call[k].user] \notin {None, call[k].host}
                      \/ ~commands /\ (account[call[k].user] = None
                                      \/ call[k].user \notin confirmed)
    OBVIOUS
  <2>1. call[k].at = "approve" /\ ~CodeReceived(k)
    BY DEF ApproveWithoutCode
  <2>2. Promise(call[k], account, confirmed)
    BY <1>1 DEF Promised
  <2>3. \/ account[call[k].user] # call[k].host
        \/ ~commands /\ call[k].user \notin confirmed
    BY <2>1, <2>2 DEF Promise, CodeReceived
  <2>4. commands => account[call[k].user] # None
    BY <2>1, <2>2 DEF Promise
  <2>5. commands \in BOOLEAN
    BY <1>1 DEF WalkTyping, FedTypeOK
  <2> QED
    BY <2>3, <2>4, <2>5
<1>2. WalkTyping /\ Promised => [\A k \in Request : Reason(k)]_fedVars
  BY <1>1
<1>3. FedInit => WalkTyping /\ Alone /\ Promised
  BY WalkInitTyped, InitPromised
<1>4. WalkTyping /\ Alone /\ Promised /\ [FedNext]_fedVars => (WalkTyping /\ Alone /\ Promised)'
  BY WalkStepTyped, StepPromised
<1> QED
  BY <1>2, <1>3, <1>4, PTL DEF FedSpec, RefusedForItsName

-----------------------------------------------------------------------------
(* AdminAuth: typing *)

LEMMA LoginSteps ==
  ASSUME AuthNext
  PROVE  \/ \E k \in Worker : \/ \E a \in Ip, c \in Password : Login(k, a, c)
                              \/ CheckRateLimit(k) \/ ValidatePassword(k)
                              \/ RecordFailedAttempt(k) \/ RecordSuccessfulAttempt(k)
                              \/ \E t \in SessionToken : CreateSession(k, t)
         \/ \E a \in Ip : CompareElsewhere(a)
         \/ \E t \in SessionToken : Logout(t)
         \/ \E p \in Password : SetAdminPassword(p)
         \/ CleanupExpired \/ Tick
BY DEF AuthNext, LoginHandler, Clients

\* Counters and clocks, for the arithmetic.
LEMMA LoginRanges ==
  /\ \A n \in Nat : \A m \in 0..n : Less(m) \in 0..n /\ (Less(m) > 0 <=> m > 1)
  /\ \A f \in 0..(MaxLoginFailures - 1) : CounterAfter(f + 1) \in 0..(MaxLoginFailures - 1)
  /\ 0 \in 0..(MaxLoginFailures - 1) /\ 0 \in 0..Lockout /\ Lockout \in 0..Lockout
  /\ 0 \in 0..Duration /\ Duration \in 0..Duration /\ Lockout > 0 /\ Lockout \in Nat
BY AuthAssumption DEF Less, CounterAfter

LEMMA LoginTyped == AuthTypeOK /\ [AuthNext]_authVars => AuthTypeOK'
<1> SUFFICES ASSUME AuthTypeOK, [AuthNext]_authVars PROVE AuthTypeOK'
  OBVIOUS
<1>0. {"idle", "limit", "validate", "failed", "accepted", "session"} \subseteq LoginPlace
  BY DEF LoginPlace
<1> USE <1>0 DEF AuthTypeOK, attemptVars, sessionVars, LoginGoes, Returns
<1>1. ASSUME NEW k \in Worker, NEW a \in Ip, NEW c \in Password, Login(k, a, c)
      PROVE  AuthTypeOK'
  <2>1. /\ phase' = [phase EXCEPT ![k] = "limit"] /\ ip' = [ip EXCEPT ![k] = a]
        /\ cand' = [cand EXCEPT ![k] = c]
        /\ UNCHANGED <<adminPassword, attemptVars, sessionVars, slipped, aside, locked>>
    BY <1>1 DEF Login
  <2>2. /\ phase' \in [Worker -> LoginPlace] /\ ip' \in [Worker -> Ip \cup {None}]
        /\ cand' \in [Worker -> Password \cup {None}]
    BY <2>1
  <2> QED
    BY <2>1, <2>2
<1>2. ASSUME NEW k \in Worker, CheckRateLimit(k) PROVE AuthTypeOK'
  BY <1>2, LoginRanges DEF CheckRateLimit
<1>3. ASSUME NEW k \in Worker, ValidatePassword(k) PROVE AuthTypeOK'
  BY <1>3, LoginRanges DEF ValidatePassword
<1>4. ASSUME NEW k \in Worker, RecordFailedAttempt(k) PROVE AuthTypeOK'
  BY <1>4, LoginRanges DEF RecordFailedAttempt
<1>5. ASSUME NEW k \in Worker, RecordSuccessfulAttempt(k) PROVE AuthTypeOK'
  BY <1>5, LoginRanges DEF RecordSuccessfulAttempt
<1>6. ASSUME NEW k \in Worker, NEW t \in SessionToken, CreateSession(k, t) PROVE AuthTypeOK'
  BY <1>6, LoginRanges DEF CreateSession
<1>7. ASSUME NEW t \in SessionToken, Logout(t) PROVE AuthTypeOK'
  BY <1>7 DEF Logout
<1>8. ASSUME NEW p \in Password, SetAdminPassword(p) PROVE AuthTypeOK'
  BY <1>8, LoginRanges DEF SetAdminPassword, Kept
<1>9. CASE CleanupExpired
  BY <1>9, LoginRanges DEF CleanupExpired
<1>10. CASE Tick
  BY <1>10, LoginRanges DEF Tick
<1>11. CASE UNCHANGED authVars
  BY <1>11 DEF authVars
<1>12. ASSUME NEW a \in Ip, CompareElsewhere(a) PROVE AuthTypeOK'
  BY <1>12 DEF CompareElsewhere
<1> QED
  BY <1>1, <1>2, <1>3, <1>4, <1>5, <1>6, <1>7, <1>8, <1>9, <1>10, <1>11, <1>12, LoginSteps

-----------------------------------------------------------------------------
(* AdminAuth: sessions *)

\* A login past the comparison holds a candidate that the password of now
\* accepts, or has been overtaken by a change.
Compared ==
  /\ \A k \in Worker : phase[k] \in {"accepted", "session"} =>
       k \in overtaken \/ Accepts(adminPassword, cand[k])
  /\ \A k \in overtaken : phase[k] \in {"accepted", "session"}

LEMMA SessionStep ==
  AuthTypeOK /\ Compared /\ SessionsOfThePassword /\ [AuthNext]_authVars
    => (Compared /\ SessionsOfThePassword)'
<1> SUFFICES ASSUME AuthTypeOK, Compared, SessionsOfThePassword, [AuthNext]_authVars
             PROVE  (Compared /\ SessionsOfThePassword)'
  OBVIOUS
<1>0. AuthTypeOK'
  BY LoginTyped
<1> USE <1>0 DEF AuthTypeOK, Compared, SessionsOfThePassword, attemptVars, sessionVars,
                 LoginGoes, Returns
<1> DEFINE Goal == (Compared /\ SessionsOfThePassword)'
<1>1. ASSUME NEW k \in Worker, NEW a \in Ip, NEW c \in Password, Login(k, a, c) PROVE Goal
  BY <1>1 DEF Login
<1>2. ASSUME NEW k \in Worker, CheckRateLimit(k) PROVE Goal
  BY <1>2 DEF CheckRateLimit
<1>3. ASSUME NEW k \in Worker, ValidatePassword(k) PROVE Goal
  BY <1>3 DEF ValidatePassword
<1>4. ASSUME NEW k \in Worker, RecordFailedAttempt(k) PROVE Goal
  BY <1>4 DEF RecordFailedAttempt
<1>5. ASSUME NEW k \in Worker, RecordSuccessfulAttempt(k) PROVE Goal
  BY <1>5 DEF RecordSuccessfulAttempt
<1>6. ASSUME NEW k \in Worker, NEW t \in SessionToken, CreateSession(k, t) PROVE Goal
  BY <1>6 DEF CreateSession
<1>7. ASSUME NEW t \in SessionToken, Logout(t) PROVE Goal
  BY <1>7 DEF Logout
<1>8. ASSUME NEW p \in Password, SetAdminPassword(p) PROVE Goal
  BY <1>8 DEF SetAdminPassword, Kept
<1>9. CASE CleanupExpired
  BY <1>9 DEF CleanupExpired
<1>10. CASE Tick
  BY <1>10 DEF Tick
<1>11. CASE UNCHANGED authVars
  BY <1>11 DEF authVars
<1>12. ASSUME NEW a \in Ip, CompareElsewhere(a) PROVE Goal
  BY <1>12 DEF CompareElsewhere
<1> QED
  BY <1>1, <1>2, <1>3, <1>4, <1>5, <1>6, <1>7, <1>8, <1>9, <1>10, <1>11, <1>12, LoginSteps

\* SetAdminPassword invalidates every session, and those that HandleLogin creates
\* after it are of the password in force, unless the change fell between the
\* comparison and CreateSession of that login.
THEOREM SessionsFollowPassword == AuthSpec => []SessionsOfThePassword
<1>1. AuthInit => AuthTypeOK /\ Compared /\ SessionsOfThePassword
  BY AuthAssumption, LoginRanges
  DEF AuthInit, AuthTypeOK, Compared, SessionsOfThePassword, LoginPlace
<1>2. AuthTypeOK /\ Compared /\ SessionsOfThePassword /\ [AuthNext]_authVars
        => (AuthTypeOK /\ Compared /\ SessionsOfThePassword)'
  BY LoginTyped, SessionStep
<1> QED
  BY <1>1, <1>2, PTL DEF AuthSpec
-----------------------------------------------------------------------------
(* AdminAuth: the lockout *)

Validating(a) == {k \in Worker : phase[k] = "validate" /\ ip[k] = a}

\* In a lockout whatever has slipped through was past the rate limit before, and
\* the login whose failure began it is one of the handlers that did not.
Lockouts ==
  \A a \in Ip :
    /\ blocked[a] = 0 => slipped[a] = 0
    /\ blocked[a] > 0 => slipped[a] + Cardinality(Validating(a)) < Cardinality(Worker)

\* The handlers are finitely many, so that they can be counted.
LEMMA WorkersCounted ==
  /\ Cardinality(Worker) \in Nat
  /\ \A S \in SUBSET Worker :
       /\ IsFiniteSet(S) /\ Cardinality(S) \in Nat
       /\ \A T \in SUBSET S : Cardinality(T) <= Cardinality(S)
       /\ \A k \in S : Cardinality(S \ {k}) = Cardinality(S) - 1
<1>1. IsFiniteSet(Worker)
  BY AuthAssumption
<1>2. ASSUME NEW S \in SUBSET Worker
      PROVE  /\ IsFiniteSet(S) /\ Cardinality(S) \in Nat
             /\ \A T \in SUBSET S : Cardinality(T) <= Cardinality(S)
             /\ \A k \in S : Cardinality(S \ {k}) = Cardinality(S) - 1
  <2>1. IsFiniteSet(S)
    BY <1>1, FS_Subset
  <2> QED
    BY <2>1, FS_CardinalityType, FS_Subset, FS_RemoveElement
<1> QED
  BY <1>1, <1>2, FS_CardinalityType

\* A step after which no more logins compare for a than before.
LEMMA FewerCompare ==
  ASSUME AuthTypeOK, Lockouts, NEW a \in Ip, Validating(a)' \subseteq Validating(a),
         slipped'[a] = slipped[a], blocked'[a] > 0, blocked[a] > 0
  PROVE  slipped'[a] + Cardinality(Validating(a)') < Cardinality(Worker)
<1>1. Validating(a) \subseteq Worker /\ Validating(a)' \subseteq Worker
  BY DEF Validating
<1>2. /\ Cardinality(Validating(a)') \in Nat /\ Cardinality(Validating(a)) \in Nat
      /\ Cardinality(Worker) \in Nat
      /\ Cardinality(Validating(a)') <= Cardinality(Validating(a))
  BY <1>1, WorkersCounted
<1>3. slipped[a] \in Nat
  BY DEF AuthTypeOK
<1> QED
  BY <1>2, <1>3 DEF Lockouts

LEMMA LockoutStep ==
  AuthTypeOK /\ Lockouts /\ [AuthNext]_authVars => Lockouts'
<1> SUFFICES ASSUME AuthTypeOK, Lockouts, [AuthNext]_authVars, NEW a \in Ip
             PROVE  /\ blocked'[a] = 0 => slipped'[a] = 0
                    /\ blocked'[a] > 0 =>
                         slipped'[a] + Cardinality(Validating(a)') < Cardinality(Worker)
  BY DEF Lockouts
<1> DEFINE Goal == /\ blocked'[a] = 0 => slipped'[a] = 0
                   /\ blocked'[a] > 0 =>
                        slipped'[a] + Cardinality(Validating(a)') < Cardinality(Worker)
\* Steps that do not lock out, and let nobody pass the rate limit in a lockout.
<1>0. ASSUME blocked'[a] = blocked[a], slipped'[a] = slipped[a],
             blocked[a] > 0 => Validating(a)' \subseteq Validating(a)
      PROVE  Goal
  BY <1>0, FewerCompare DEF Lockouts
<1> HIDE DEF Goal
<1> USE DEF AuthTypeOK, attemptVars, sessionVars, LoginGoes, Returns
<1>1. ASSUME NEW k \in Worker, NEW b \in Ip, NEW c \in Password, Login(k, b, c) PROVE Goal
  BY <1>0, <1>1 DEF Login, Validating
<1>2. ASSUME NEW k \in Worker, CheckRateLimit(k) PROVE Goal
  BY <1>0, <1>2 DEF CheckRateLimit, LockedOut, Validating
<1>3. ASSUME NEW k \in Worker, ValidatePassword(k) PROVE Goal
  <2>1. CASE ip[k] # a
    BY <1>0, <1>3, <2>1 DEF ValidatePassword, Validating
  <2>2. CASE ip[k] = a
    <3>1. k \in Validating(a) /\ Validating(a)' = Validating(a) \ {k}
      BY <1>3, <2>2 DEF ValidatePassword, Validating
    <3>2. Validating(a) \subseteq Worker
      BY DEF Validating
    <3>3. /\ Cardinality(Validating(a)') = Cardinality(Validating(a)) - 1
          /\ Cardinality(Validating(a)) \in Nat
      BY <3>1, <3>2, WorkersCounted
    <3>4. blocked' = blocked /\ slipped'[a] = IF blocked[a] > 0 THEN slipped[a] + 1 ELSE slipped[a]
      BY <1>3, <2>2 DEF ValidatePassword
    <3> QED
      BY <3>3, <3>4, WorkersCounted DEF Goal, Lockouts
  <2> QED
    BY <2>1, <2>2
<1>4. ASSUME NEW k \in Worker, RecordFailedAttempt(k) PROVE Goal
  <2>1. Validating(a)' = Validating(a) /\ k \notin Validating(a) /\ slipped' = slipped
    BY <1>4 DEF RecordFailedAttempt, Validating
  <2>2. CASE blocked[a] > 0 \/ blocked'[a] = blocked[a]
    <3>1. blocked'[a] \in {blocked[a], Lockout}
      BY <1>4 DEF RecordFailedAttempt
    <3>2. blocked[a] > 0 => blocked'[a] > 0
      BY <3>1, LoginRanges
    <3> QED
      BY <1>0, <2>1, <2>2, <3>2, FewerCompare DEF Goal, Lockouts
  <2>3. CASE blocked[a] = 0 /\ blocked'[a] # blocked[a]
    <3>1. slipped'[a] = 0 /\ blocked'[a] # 0
      BY <2>1, <2>3 DEF Lockouts
    <3>2. Validating(a) \subseteq Worker \ {k}
      BY <2>1 DEF Validating
    <3>3. /\ Cardinality(Validating(a)) <= Cardinality(Worker) - 1
          /\ Cardinality(Validating(a)) \in Nat /\ Cardinality(Worker) \in Nat
      <4>1. Validating(a) \in SUBSET (Worker \ {k}) /\ Worker \ {k} \in SUBSET Worker
        BY <3>2
      <4>2. Cardinality(Worker \ {k}) = Cardinality(Worker) - 1
        BY WorkersCounted
      <4>3. Cardinality(Validating(a)) <= Cardinality(Worker \ {k})
        BY <4>1, WorkersCounted
      <4> QED
        BY <4>1, <4>2, <4>3, WorkersCounted
    <3>4. Validating(a)' = Validating(a) /\ slipped'[a] = 0 /\ blocked'[a] # 0
      BY <2>1, <3>1
    <3> QED
      BY <3>3, <3>4 DEF Goal
  <2> QED
    BY <2>2, <2>3
<1>5. ASSUME NEW k \in Worker, RecordSuccessfulAttempt(k) PROVE Goal
  <2>1. CASE ip[k] # a
    BY <1>0, <1>5, <2>1 DEF RecordSuccessfulAttempt, Validating
  <2>2. CASE ip[k] = a
    <3>1. blocked'[a] = 0 /\ slipped'[a] = 0
      BY <1>5, <2>2 DEF RecordSuccessfulAttempt
    <3> QED
      BY <3>1 DEF Goal
  <2> QED
    BY <2>1, <2>2
<1>6. ASSUME NEW k \in Worker, NEW t \in SessionToken, CreateSession(k, t) PROVE Goal
  BY <1>0, <1>6 DEF CreateSession, Validating
<1>7. ASSUME NEW t \in SessionToken, Logout(t) PROVE Goal
  BY <1>0, <1>7 DEF Logout, Validating
<1>8. ASSUME NEW p \in Password, SetAdminPassword(p) PROVE Goal
  BY <1>0, <1>8 DEF SetAdminPassword, Validating
<1>9. ASSUME CleanupExpired PROVE Goal
  BY <1>0, <1>9 DEF CleanupExpired, Validating
<1>10. ASSUME Tick PROVE Goal
  <2>1. /\ Validating(a)' = Validating(a)
        /\ blocked'[a] = Less(blocked[a])
        /\ slipped'[a] = IF blocked[a] > 1 THEN slipped[a] ELSE 0
    BY <1>10 DEF Tick, Validating
  <2>2. blocked[a] \in 0..Lockout /\ Lockout \in Nat
    BY AuthAssumption
  <2>3. CASE blocked[a] > 1
    BY <2>1, <2>2, <2>3, FewerCompare DEF Goal, Less
  <2>4. CASE ~(blocked[a] > 1)
    BY <2>1, <2>2, <2>4 DEF Goal, Less
  <2> QED
    BY <2>3, <2>4
<1>11. ASSUME UNCHANGED authVars PROVE Goal
  BY <1>0, <1>11 DEF authVars, Validating
<1>12. ASSUME NEW b \in Ip, CompareElsewhere(b) PROVE Goal
  BY <1>0, <1>12 DEF CompareElsewhere, Validating
<1> QED
  BY <1>1, <1>2, <1>3, <1>4, <1>5, <1>6, <1>7, <1>8, <1>9, <1>10, <1>11, <1>12, LoginSteps
  DEF Goal

\* While an address is locked out (CheckRateLimit), logins compare fewer passwords
\* for it than there are handlers, however logins, successes that lift the
\* lockout, comparisons elsewhere and the clock interleave.
THEOREM LockoutBoundsLogins == AuthSpec => []LockoutTight
<1>1. AuthInit => AuthTypeOK /\ Lockouts
  BY AuthAssumption, LoginRanges DEF AuthInit, AuthTypeOK, Lockouts, LoginPlace
<1>2. AuthTypeOK /\ Lockouts /\ [AuthNext]_authVars => (AuthTypeOK /\ Lockouts)'
  BY LoginTyped, LockoutStep
<1>3. AuthTypeOK /\ Lockouts => LockoutTight
  <2> SUFFICES ASSUME AuthTypeOK, Lockouts, NEW a \in Ip, blocked[a] > 0
               PROVE  slipped[a] < Cardinality(Worker)
    BY DEF LockoutTight
  <2>1. Cardinality(Validating(a)) \in Nat
    BY WorkersCounted DEF Validating
  <2> QED
    BY <2>1, WorkersCounted DEF AuthTypeOK, Lockouts
<1> QED
  BY <1>1, <1>2, <1>3, PTL DEF AuthSpec

-----------------------------------------------------------------------------
(* Broadcast: typing *)

LEMMA CastSteps ==
  ASSUME CastNext
  PROVE  \/ \E r \in Pub : \/ Refused(r) \/ Attach(r) \/ RegisterCallbacks(r) \/ Fails(r)
                           \/ Answered(r) \/ FailureCloses(r) \/ StreamClose(r)
                           \/ PubCallback(r) \/ PubLost(r)
                           \/ \E i \in Id : Publish(r, i)
                           \/ \E t \in Track : OnTrack(r, t)
         \/ \E i \in Id : Unpublish(i)
         \/ \E w \in Sub : \/ \E i \in Id : Subscribe(w, i) \/ Unsubscribe(w, i)
                           \/ CopyTracks(w) \/ AddSubscriber(w) \/ Negotiated(w)
                           \/ SubFailureRemoves(w) \/ SubLost(w) \/ SubCallback(w)
BY DEF CastNext, Requests, Library, PubHandler, SubHandler

\* A handler under way, and whoever may still be called back, has its id; a
\* subscriber under way has its stream.
Addressed ==
  /\ \A r \in Pub : /\ pc[r] \in {"body", "attached", "negotiating", "failing"} => id[r] \in Id
                    /\ conn[r] # "none" => id[r] \in Id
                    /\ \A s \in {"failed", "closed"} : <<r, s>> \in calls => conn[r] # "none"
  /\ \A w \in Sub : spc[w] # "idle" => of[w] \in Pub
  /\ \A w \in Sub, s \in {"failed", "closed"} : <<w, s>> \in calls => spc[w] # "idle"

Joined == {"joined", "failing", "done"}
\* Who is in the list of a stream has found that stream, and joined.
Audiences ==
  \A x \in Pub : \A w \in subscribers[x] : of[w] = x /\ spc[w] \in Joined

\* How often each track has been added: at most once, and only of those there are.
Attached ==
  \A w \in Sub, t \in Track :
    /\ has[w][t] \in {0, 1}
    /\ has[w][t] = 1 => spc[w] \notin {"idle", "found"} /\ t \in tracks[of[w]]

CastTyping == CastTypeOK /\ Addressed /\ Audiences /\ Attached

\* The registry as closeStream leaves it.
LEMMA StreamTaken ==
  ASSUME CastTypeOK, NEW i \in Id, CloseStream(i)
  PROVE  /\ streams' \in [Id -> Pub \cup {None}] /\ maxStreams' = maxStreams
         /\ closing' \in SUBSET Pub /\ closing \subseteq closing'
         /\ \A j \in Id : streams'[j] = IF j = i THEN None ELSE streams[j]
         /\ \A x \in closing' : x \in closing \/ x = streams[i]
BY BroadcastAssumption DEF CastTypeOK, CloseStream, Deleted, Taken

\* The audience of a stream as removeSubscriber leaves it.
LEMMA SubscriberRemoved ==
  ASSUME CastTypeOK, NEW x, NEW w \in Sub, RemoveSubscriber(x, w)
  PROVE  /\ subscribers' \in [Pub -> SUBSET Sub] /\ sconn' \in [Sub -> ConnState]
         /\ \A y \in Pub : subscribers'[y] = IF y = x THEN subscribers[y] \ {w} ELSE subscribers[y]
         /\ \A v \in Sub : sconn'[v] = IF v = w /\ w \in subscribers[x] THEN "closed" ELSE sconn[v]
BY DEF CastTypeOK, RemoveSubscriber, ClosedSubs, ConnState

\* The same for a handler that goes on, and for a callback.
LEMMA Leaving ==
  ASSUME CastTypeOK, NEW x, NEW w \in Sub, RemoveSubscriber(x, w), UNCHANGED of,
         spc' = spc \/ (spc[w] = "failing" /\ spc' = [spc EXCEPT ![w] = "done"])
  PROVE  /\ \A y \in Pub : subscribers'[y] = IF y = x THEN subscribers[y] \ {w} ELSE subscribers[y]
         /\ \A y \in Pub : subscribers[y] \subseteq Sub
         /\ \A v \in Sub : sconn'[v] = IF v = w /\ w \in subscribers[x] THEN "closed" ELSE sconn[v]
         /\ \A v \in Sub : of'[v] = of[v] /\ (spc'[v] \in Joined <=> spc[v] \in Joined)
<1>1. \A v \in Sub : of'[v] = of[v] /\ (spc'[v] \in Joined <=> spc[v] \in Joined)
  BY DEF CastTypeOK, Joined
<1>2. \A y \in Pub : subscribers[y] \subseteq Sub
  BY DEF CastTypeOK
<1> QED
  BY <1>1, <1>2, SubscriberRemoved

LEMMA TypedStep == CastTyping /\ [CastNext]_castVars => CastTypeOK'
<1> SUFFICES ASSUME CastTypeOK, Addressed, Audiences, Attached, [CastNext]_castVars
             PROVE  CastTypeOK'
  BY DEF CastTyping
<1>0. /\ {"idle", "body", "attached", "negotiating", "failing", "done"} \subseteq PubPlace
      /\ {"idle", "found", "copied", "joined", "failing", "done"} \subseteq SubPlace
      /\ {"none", "open", "failed", "closed"} \subseteq ConnState
  BY DEF PubPlace, SubPlace, ConnState
<1>c. \A c \in Pub \cup Sub, s \in {"failed", "closed"} : <<c, s>> \in StateChange
  BY DEF StateChange
<1> USE <1>0, BroadcastAssumption
    DEF CastTypeOK, registry, pubVars, subVars, PubGoes, SubGoes
<1>1. ASSUME NEW r \in Pub, Refused(r) PROVE CastTypeOK'
  BY <1>1 DEF Refused
<1>2. ASSUME NEW r \in Pub, NEW i \in Id, Publish(r, i) PROVE CastTypeOK'
  BY <1>2 DEF Publish, Replaced, Taken
<1>3. ASSUME NEW r \in Pub, Attach(r) PROVE CastTypeOK'
  BY <1>3 DEF Attach
<1>4. ASSUME NEW r \in Pub, RegisterCallbacks(r) PROVE CastTypeOK'
  BY <1>4 DEF RegisterCallbacks
<1>5. ASSUME NEW r \in Pub, Fails(r) PROVE CastTypeOK'
  BY <1>5 DEF Fails
<1>6. ASSUME NEW r \in Pub, Answered(r) PROVE CastTypeOK'
  BY <1>6 DEF Answered
<1>7. ASSUME NEW r \in Pub, FailureCloses(r) PROVE CastTypeOK'
  BY <1>7, StreamTaken DEF FailureCloses, Addressed
<1>8. ASSUME NEW r \in Pub, StreamClose(r) PROVE CastTypeOK'
  <2>1. sconn' \in [Sub -> ConnState] /\ subscribers' \in [Pub -> SUBSET Sub]
        /\ conn' \in [Pub -> ConnState]
    BY <1>8 DEF StreamClose, ClosedSubs
  <2>2. calls' \in SUBSET StateChange
    BY <1>8 DEF StreamClose, StateChange
  <2> QED
    BY <1>8, <2>1, <2>2 DEF StreamClose
<1>9. ASSUME NEW r \in Pub, PubCallback(r) PROVE CastTypeOK'
  <2>1. /\ streams' \in [Id -> Pub \cup {None}] /\ closing' \in SUBSET Pub
        /\ maxStreams' = maxStreams
    BY <1>9, StreamTaken DEF PubCallback, Addressed
  <2>2. calls' \subseteq calls
    BY <1>9 DEF PubCallback
  <2> QED
    BY <1>9, <2>1, <2>2 DEF PubCallback
<1>10. ASSUME NEW r \in Pub, PubLost(r) PROVE CastTypeOK'
  <2>1. conn' \in [Pub -> ConnState]
    BY <1>10 DEF PubLost
  <2>2. calls' \in SUBSET StateChange
    <3>1. <<r, "failed">> \in StateChange /\ calls' = calls \cup Reported(r, "failed")
      BY <1>10, <1>c DEF PubLost
    <3> QED
      BY <3>1 DEF Reported
  <2> QED
    BY <1>10, <2>1, <2>2 DEF PubLost
<1>11. ASSUME NEW r \in Pub, NEW t \in Track, OnTrack(r, t) PROVE CastTypeOK'
  <2>1. \A w \in Sub : w \in subscribers[r] => has[w][t] = 0
    BY <1>11 DEF OnTrack, Audiences, Attached
  <2>2. \A w \in Sub : has'[w] \in [Track -> 0..2]
    BY <1>11, <2>1 DEF OnTrack, Audience
  <2>3. has' \in [Sub -> [Track -> 0..2]]
    BY <1>11, <2>2 DEF OnTrack
  <2> QED
    BY <1>11, <2>3 DEF OnTrack
<1>12. ASSUME NEW i \in Id, Unpublish(i) PROVE CastTypeOK'
  BY <1>12, StreamTaken DEF Unpublish
<1>13. ASSUME NEW w \in Sub, NEW i \in Id, Subscribe(w, i) PROVE CastTypeOK'
  BY <1>13 DEF Subscribe
<1>14. ASSUME NEW w \in Sub, NEW i \in Id, Unsubscribe(w, i) PROVE CastTypeOK'
  <2>1. calls' \in SUBSET StateChange
    <3>1. <<w, "closed">> \in StateChange /\ calls' = calls \cup {<<w, "closed">>}
      BY <1>14, <1>c DEF Unsubscribe
    <3> QED
      BY <3>1
  <2>2. subscribers' \in [Pub -> SUBSET Sub] /\ sconn' \in [Sub -> ConnState]
    BY <1>14, SubscriberRemoved DEF Unsubscribe
  <2> QED
    BY <1>14, <2>1, <2>2 DEF Unsubscribe
<1>15. ASSUME NEW w \in Sub, CopyTracks(w) PROVE CastTypeOK'
  <2>1. \A t \in Track : has[w][t] = 0
    BY <1>15 DEF CopyTracks, Attached
  <2> QED
    BY <1>15, <2>1 DEF CopyTracks
<1>16. ASSUME NEW w \in Sub, AddSubscriber(w) PROVE CastTypeOK'
  <2>1. of[w] \in Pub /\ subscribers[of[w]] \cup {w} \in SUBSET Sub
    BY <1>16 DEF AddSubscriber, Addressed
  <2>2. subscribers' \in [Pub -> SUBSET Sub]
    BY <1>16, <2>1 DEF AddSubscriber
  <2>3. spc' \in [Sub -> SubPlace]
    BY <1>16 DEF AddSubscriber
  <2> QED
    BY <1>16, <2>2, <2>3 DEF AddSubscriber
<1>17. ASSUME NEW w \in Sub, Negotiated(w) PROVE CastTypeOK'
  <2>1. spc' \in [Sub -> SubPlace]
    BY <1>17, SMTT(30) DEF Negotiated
  <2> QED
    BY <1>17, <2>1 DEF Negotiated
<1>18. ASSUME NEW w \in Sub, SubFailureRemoves(w) PROVE CastTypeOK'
  <2>1. calls' \in SUBSET StateChange
    BY <1>18 DEF SubFailureRemoves, StateChange
  <2>2. subscribers' \in [Pub -> SUBSET Sub] /\ sconn' \in [Sub -> ConnState]
    BY <1>18, SubscriberRemoved DEF SubFailureRemoves
  <2> QED
    BY <1>18, <2>1, <2>2 DEF SubFailureRemoves
<1>19. ASSUME NEW w \in Sub, SubLost(w) PROVE CastTypeOK'
  <2>1. sconn' \in [Sub -> ConnState]
    BY <1>19 DEF SubLost
  <2>2. calls' \in SUBSET StateChange
    <3>1. <<w, "failed">> \in StateChange /\ calls' = calls \cup Reported(w, "failed")
      BY <1>19, <1>c DEF SubLost
    <3> QED
      BY <3>1 DEF Reported
  <2> QED
    BY <1>19, <2>1, <2>2 DEF SubLost
<1>20. ASSUME NEW w \in Sub, SubCallback(w) PROVE CastTypeOK'
  <2>1. calls' \in SUBSET StateChange
    BY <1>20 DEF SubCallback, StateChange
  <2>2. subscribers' \in [Pub -> SUBSET Sub] /\ sconn' \in [Sub -> ConnState]
    BY <1>20, SubscriberRemoved DEF SubCallback
  <2> QED
    BY <1>20, <2>1, <2>2 DEF SubCallback
<1>21. CASE UNCHANGED castVars
  BY <1>21 DEF castVars
<1> QED
  BY <1>1, <1>2, <1>3, <1>4, <1>5, <1>6, <1>7, <1>8, <1>9, <1>10, <1>11, <1>12, <1>13, <1>14,
     <1>15, <1>16, <1>17, <1>18, <1>19, <1>20, <1>21, CastSteps

LEMMA AddressedStep == CastTyping /\ [CastNext]_castVars => Addressed'
<1> SUFFICES ASSUME CastTypeOK, Addressed, Audiences, [CastNext]_castVars
             PROVE  Addressed'
  BY DEF CastTyping
<1> USE BroadcastAssumption
    DEF CastTypeOK, Addressed, Audiences, Joined, registry, pubVars, subVars, PubGoes, SubGoes
<1>1. ASSUME NEW r \in Pub, Refused(r) \/ RegisterCallbacks(r) \/ Fails(r) \/ Answered(r)
      PROVE  Addressed'
  <2>1. \E place \in {"negotiating", "failing", "done"} :
           pc' = [pc EXCEPT ![r] = place] /\ (place = "done" \/ id[r] \in Id)
    BY <1>1 DEF Refused, RegisterCallbacks, Fails, Answered
  <2>2. UNCHANGED <<conn, id, calls, spc, of>>
    BY <1>1 DEF Refused, RegisterCallbacks, Fails, Answered
  <2> QED
    BY <2>1, <2>2
<1>2. ASSUME NEW r \in Pub, NEW i \in Id, Publish(r, i) PROVE Addressed'
  BY <1>2 DEF Publish
<1>3. ASSUME NEW r \in Pub, Attach(r) PROVE Addressed'
  BY <1>3 DEF Attach
<1>4. ASSUME NEW r \in Pub, FailureCloses(r) PROVE Addressed'
  BY <1>4 DEF FailureCloses
<1>5. ASSUME NEW x \in Pub, StreamClose(x) PROVE Addressed'
  <2>1. \A y \in Pub : (conn'[y] # "none") <=> (conn[y] # "none")
    BY <1>5 DEF StreamClose
  <2>2. UNCHANGED <<pc, id, spc, of>>
    BY <1>5 DEF StreamClose
  <2>3. \A c, s : <<c, s>> \in calls' =>
          <<c, s>> \in calls \/ (c = x /\ conn[x] # "none") \/ c \in subscribers[x]
    BY <1>5 DEF StreamClose
  <2>4. \A w \in Sub : w # x /\ (w \in subscribers[x] => spc[w] # "idle")
    <3>1. \A w \in Sub : w # x
      BY <1>5
    <3>2. Audiences
      OBVIOUS
    <3> HIDE DEF Audiences, Addressed, CastTypeOK
    <3>3. \A w \in subscribers[x] : spc[w] \in Joined
      BY <3>2, <1>5 DEF Audiences
    <3> QED
      BY <3>1, <3>3 DEF Joined
  <2>5. \A y \in Pub : y \notin subscribers[x]
    BY <1>5
  <2>6. \A y \in Pub, s \in {"failed", "closed"} : <<y, s>> \in calls' => conn[y] # "none"
    BY <2>3, <2>5
  <2>7. ASSUME NEW w \in Sub, NEW s \in {"failed", "closed"}, <<w, s>> \in calls'
        PROVE  spc[w] # "idle"
    <3>1. <<w, s>> \in calls \/ w \in subscribers[x]
      BY <2>3, <2>4, <2>7
    <3>2. <<w, s>> \in calls => spc[w] # "idle"
      OBVIOUS
    <3> QED
      BY <2>4, <3>1, <3>2
  <2> QED
    BY <2>1, <2>2, <2>6, <2>7
<1>6. ASSUME NEW r \in Pub, PubCallback(r) PROVE Addressed'
  <2>1. calls' \subseteq calls /\ UNCHANGED <<pc, id, conn, spc, of>>
    BY <1>6 DEF PubCallback
  <2> QED
    BY <2>1
<1>7. ASSUME NEW r \in Pub, PubLost(r) PROVE Addressed'
  BY <1>7 DEF PubLost, Reported
<1>8. ASSUME NEW i \in Id, Unpublish(i) PROVE Addressed'
  BY <1>8 DEF Unpublish
<1>9. ASSUME NEW r \in Pub, NEW t \in Track, OnTrack(r, t) PROVE Addressed'
  BY <1>9 DEF OnTrack
<1>10. ASSUME NEW w \in Sub, NEW i \in Id, Subscribe(w, i) PROVE Addressed'
  BY <1>10 DEF Subscribe
<1>11. ASSUME NEW w \in Sub, CopyTracks(w) \/ AddSubscriber(w) \/ Negotiated(w) PROVE Addressed'
  <2>1. \E place \in SubPlace \ {"idle"} : spc' = [spc EXCEPT ![w] = place]
    BY <1>11 DEF CopyTracks, AddSubscriber, Negotiated, SubPlace
  <2>2. UNCHANGED <<pc, conn, id, calls, of>> /\ spc[w] # "idle"
    BY <1>11 DEF CopyTracks, AddSubscriber, Negotiated
  <2> QED
    BY <2>1, <2>2
<1>12. ASSUME NEW w \in Sub,
              \/ SubFailureRemoves(w) \/ SubLost(w) \/ SubCallback(w)
              \/ \E i \in Id : Unsubscribe(w, i)
       PROVE  Addressed'
  <2>1. spc[w] # "idle" /\ spc' \in {spc, [spc EXCEPT ![w] = "done"]}
    BY <1>12 DEF SubFailureRemoves, SubLost, SubCallback, Unsubscribe
  <2>2. calls' \subseteq calls \cup ({w} \X {"failed", "closed"})
    BY <1>12 DEF SubFailureRemoves, SubLost, SubCallback, Unsubscribe, Reported
  <2>3. UNCHANGED <<pc, conn, id, of>>
    BY <1>12 DEF SubFailureRemoves, SubLost, SubCallback, Unsubscribe
  <2> QED
    BY <2>1, <2>2, <2>3
<1>13. CASE UNCHANGED castVars
  BY <1>13 DEF castVars
<1> QED
  BY <1>1, <1>2, <1>3, <1>4, <1>5, <1>6, <1>7, <1>8, <1>9, <1>10, <1>11, <1>12, <1>13, CastSteps

LEMMA AudiencesStep == CastTyping /\ [CastNext]_castVars => Audiences'
<1> SUFFICES ASSUME CastTypeOK, Addressed, Audiences, [CastNext]_castVars
             PROVE  Audiences'
  BY DEF CastTyping
<1> USE DEF CastTypeOK, Audiences, Joined, registry, pubVars, subVars, SubGoes
<1>1. CASE UNCHANGED <<subscribers, of, spc>>
  BY <1>1
<1>2. ASSUME NEW r \in Pub,
             \/ Refused(r) \/ Attach(r) \/ RegisterCallbacks(r) \/ Fails(r) \/ Answered(r)
             \/ FailureCloses(r) \/ PubCallback(r) \/ PubLost(r)
             \/ \E i \in Id : Publish(r, i)
             \/ \E t \in Track : OnTrack(r, t)
      PROVE  Audiences'
  BY <1>1, <1>2 DEF Refused, Attach, RegisterCallbacks, Fails, Answered, FailureCloses,
                    PubCallback, PubLost, Publish, OnTrack
<1>3. ASSUME NEW r \in Pub, StreamClose(r) PROVE Audiences'
  BY <1>3 DEF StreamClose
<1>4. ASSUME NEW i \in Id, Unpublish(i) PROVE Audiences'
  BY <1>1, <1>4 DEF Unpublish
<1>5. ASSUME NEW w \in Sub, NEW i \in Id, Subscribe(w, i) PROVE Audiences'
  BY <1>5 DEF Subscribe
<1>6. ASSUME NEW w \in Sub, NEW x, RemoveSubscriber(x, w), UNCHANGED of,
             spc' = spc \/ (spc[w] = "failing" /\ spc' = [spc EXCEPT ![w] = "done"])
      PROVE  Audiences'
  <2> HIDE DEF CastTypeOK, Audiences, Joined
  <2>1. /\ \A y \in Pub : subscribers'[y] \subseteq subscribers[y] /\ subscribers[y] \subseteq Sub
        /\ \A v \in Sub : of'[v] = of[v] /\ (spc'[v] \in Joined <=> spc[v] \in Joined)
    BY <1>6, Leaving
  <2>2. \A y \in Pub : \A v \in subscribers[y] : of[v] = y /\ spc[v] \in Joined
    BY DEF Audiences
  <2> QED
    BY <2>1, <2>2 DEF Audiences
<1>7. ASSUME NEW w \in Sub, CopyTracks(w) PROVE Audiences'
  BY <1>7 DEF CopyTracks
<1>8. ASSUME NEW w \in Sub, AddSubscriber(w) PROVE Audiences'
  BY <1>8 DEF AddSubscriber, Addressed
<1>9. ASSUME NEW w \in Sub, Negotiated(w) PROVE Audiences'
  BY <1>9 DEF Negotiated
<1>10. ASSUME NEW w \in Sub,
              SubFailureRemoves(w) \/ SubCallback(w) \/ \E i \in Id : Unsubscribe(w, i)
       PROVE  Audiences'
  BY <1>6, <1>10 DEF SubFailureRemoves, SubCallback, Unsubscribe
<1>11. ASSUME NEW w \in Sub, SubLost(w) PROVE Audiences'
  BY <1>1, <1>11 DEF SubLost
<1>13. CASE UNCHANGED castVars
  BY <1>1, <1>13 DEF castVars
<1> QED
  BY <1>2, <1>3, <1>4, <1>5, <1>6, <1>7, <1>8, <1>9, <1>10, <1>11, <1>13, CastSteps

LEMMA AttachedStep == CastTyping /\ [CastNext]_castVars => Attached'
<1> SUFFICES ASSUME CastTypeOK, Addressed, Audiences, Attached, [CastNext]_castVars
             PROVE  Attached'
  BY DEF CastTyping
<1> USE DEF CastTypeOK, Attached, registry, pubVars, subVars, SubGoes
<1>1. CASE UNCHANGED <<has, spc, of, tracks>>
  BY <1>1
<1>2. ASSUME NEW r \in Pub,
             \/ Refused(r) \/ Attach(r) \/ RegisterCallbacks(r) \/ Fails(r) \/ Answered(r)
             \/ FailureCloses(r) \/ StreamClose(r) \/ PubCallback(r) \/ PubLost(r)
             \/ \E i \in Id : Publish(r, i)
      PROVE  Attached'
  BY <1>1, <1>2 DEF Refused, Attach, RegisterCallbacks, Fails, Answered, FailureCloses,
                    StreamClose, PubCallback, PubLost, Publish
\* A track that is new to the stream is new to everybody in its list.
<1>3. ASSUME NEW r \in Pub, NEW t \in Track, OnTrack(r, t) PROVE Attached'
  <2>1. \A w \in Sub : w \in subscribers[r] => of[w] = r /\ has[w][t] = 0
                                               /\ spc[w] \notin {"idle", "found"}
    BY <1>3 DEF OnTrack, Audiences, Joined
  <2>2. /\ UNCHANGED <<spc, of>> /\ t \in tracks'[r]
        /\ \A x \in Pub : tracks[x] \subseteq tracks'[x]
    BY <1>3 DEF OnTrack
  <2>3. \A w \in Sub, u \in Track :
          has'[w][u] = IF w \in subscribers[r] /\ u = t THEN has[w][u] + 1 ELSE has[w][u]
    BY <1>3 DEF OnTrack, Audience
  <2> QED
    BY <2>1, <2>2, <2>3 DEF Addressed
<1>4. ASSUME NEW i \in Id, Unpublish(i) PROVE Attached'
  BY <1>1, <1>4 DEF Unpublish
<1>5. ASSUME NEW w \in Sub, NEW i \in Id, Subscribe(w, i) PROVE Attached'
  BY <1>5 DEF Subscribe
<1>6. ASSUME NEW w \in Sub, CopyTracks(w) PROVE Attached'
  <2>1. \A t \in Track : has[w][t] = 0
    BY <1>6 DEF CopyTracks
  <2>2. /\ spc' = [spc EXCEPT ![w] = "copied"] /\ UNCHANGED <<of, tracks>>
        /\ \A v \in Sub, t \in Track :
             has'[v][t] = IF v = w THEN IF t \in tracks[of[w]] THEN 1 ELSE 0 ELSE has[v][t]
    BY <1>6, <2>1 DEF CopyTracks
  <2> QED
    BY <2>2
<1>7. ASSUME NEW w \in Sub, AddSubscriber(w) \/ Negotiated(w) PROVE Attached'
  BY <1>7 DEF AddSubscriber, Negotiated
<1>8. ASSUME NEW w \in Sub,
             \/ SubFailureRemoves(w) \/ SubLost(w) \/ SubCallback(w)
             \/ \E i \in Id : Unsubscribe(w, i)
      PROVE  Attached'
  BY <1>8 DEF SubFailureRemoves, SubLost, SubCallback, Unsubscribe
<1>9. CASE UNCHANGED castVars
  BY <1>1, <1>9 DEF castVars
<1> QED
  BY <1>2, <1>3, <1>4, <1>5, <1>6, <1>7, <1>8, <1>9, CastSteps

LEMMA CastTypingStep == CastTyping /\ [CastNext]_castVars => CastTyping'
BY TypedStep, AddressedStep, AudiencesStep, AttachedStep DEF CastTyping

LEMMA CastInitTyped == CastInit => CastTyping
BY BroadcastAssumption
DEF CastInit, CastTyping, CastTypeOK, Addressed, Audiences, Attached, PubPlace, SubPlace,
    ConnState, StateChange

\* OnTrack adds a track to who is in the list, CopyTracks to who is about to join
\* it, and a track is seen by one of the two: none is attached twice.
THEOREM TracksOnce == CastSpec => []NoTrackTwice
<1>1. CastTyping => NoTrackTwice
  BY DEF CastTyping, Attached, NoTrackTwice
<1> QED
  BY <1>1, CastInitTyped, CastTypingStep, PTL DEF CastSpec

-----------------------------------------------------------------------------
(* Broadcast: whoever is dropped is disconnected *)

LEMMA DroppedStep ==
  CastTyping /\ DroppedClosed /\ [CastNext]_castVars => DroppedClosed'
<1> SUFFICES ASSUME CastTypeOK, Addressed, Audiences, DroppedClosed, [CastNext]_castVars
             PROVE  DroppedClosed'
  BY DEF CastTyping
<1> USE DEF CastTypeOK, DroppedClosed, registry, pubVars, subVars, SubGoes
<1>1. CASE UNCHANGED <<subscribers, of, spc, sconn>>
  BY <1>1
<1>2. ASSUME NEW r \in Pub,
             \/ Refused(r) \/ Attach(r) \/ RegisterCallbacks(r) \/ Fails(r) \/ Answered(r)
             \/ FailureCloses(r) \/ PubCallback(r) \/ PubLost(r)
             \/ \E i \in Id : Publish(r, i)
             \/ \E t \in Track : OnTrack(r, t)
      PROVE  DroppedClosed'
  BY <1>1, <1>2 DEF Refused, Attach, RegisterCallbacks, Fails, Answered, FailureCloses,
                    PubCallback, PubLost, Publish, OnTrack
<1>3. ASSUME NEW x \in Pub, StreamClose(x) PROVE DroppedClosed'
  BY <1>3 DEF StreamClose, ClosedSubs
<1>4. ASSUME NEW i \in Id, Unpublish(i) PROVE DroppedClosed'
  BY <1>1, <1>4 DEF Unpublish
<1>5. ASSUME NEW w \in Sub, NEW i \in Id, Subscribe(w, i) PROVE DroppedClosed'
  BY <1>5 DEF Subscribe
<1>6. ASSUME NEW w \in Sub, NEW x, RemoveSubscriber(x, w), UNCHANGED of,
             spc' = spc \/ (spc[w] = "failing" /\ spc' = [spc EXCEPT ![w] = "done"])
      PROVE  DroppedClosed'
  <2> HIDE DEF CastTypeOK, DroppedClosed
  <2>1. /\ \A y \in Pub : subscribers'[y] = IF y = x THEN subscribers[y] \ {w} ELSE subscribers[y]
        /\ \A v \in Sub : sconn'[v] = IF v = w /\ w \in subscribers[x] THEN "closed" ELSE sconn[v]
        /\ \A v \in Sub : of'[v] = of[v] /\ (spc'[v] \in Joined <=> spc[v] \in Joined)
    BY <1>6, Leaving
  <2>2. \A v \in Sub : spc[v] \in Joined => of[v] \in Pub
    BY DEF Addressed, Joined
  <2>3. \A v \in Sub : spc[v] \in Joined /\ v \notin subscribers[of[v]] => sconn[v] = "closed"
    BY DEF DroppedClosed, Joined
  <2>4. ASSUME NEW v \in Sub, spc'[v] \in Joined, v \notin subscribers'[of'[v]]
        PROVE  sconn'[v] = "closed"
    BY <2>1, <2>2, <2>3, <2>4
  <2> QED
    BY <2>4 DEF DroppedClosed, Joined
<1>7. ASSUME NEW w \in Sub, CopyTracks(w) PROVE DroppedClosed'
  BY <1>7 DEF CopyTracks
<1>8. ASSUME NEW w \in Sub, AddSubscriber(w) PROVE DroppedClosed'
  BY <1>8 DEF AddSubscriber, Addressed
<1>9. ASSUME NEW w \in Sub, Negotiated(w) PROVE DroppedClosed'
  BY <1>9 DEF Negotiated
<1>10. ASSUME NEW w \in Sub,
              SubFailureRemoves(w) \/ SubCallback(w) \/ \E i \in Id : Unsubscribe(w, i)
       PROVE  DroppedClosed'
  BY <1>6, <1>10 DEF SubFailureRemoves, SubCallback, Unsubscribe
<1>11. ASSUME NEW w \in Sub, SubLost(w) PROVE DroppedClosed'
  BY <1>11 DEF SubLost
<1>13. CASE UNCHANGED castVars
  BY <1>1, <1>13 DEF castVars
<1> QED
  BY <1>2, <1>3, <1>4, <1>5, <1>6, <1>7, <1>8, <1>9, <1>10, <1>11, <1>13, CastSteps

\* Close of a stream, a DELETE, a failed negotiation and a callback all take the
\* subscriber out of the list and close its connection; nobody who has joined is
\* out of the list with a connection that is open.
THEOREM NoneLeftOpen == CastSpec => []DroppedClosed
<1>1. CastInit => DroppedClosed
  BY DEF CastInit, DroppedClosed
<1>2. CastTyping /\ DroppedClosed /\ [CastNext]_castVars => (CastTyping /\ DroppedClosed)'
  BY CastTypingStep, DroppedStep
<1> QED
  BY <1>1, <1>2, CastInitTyped, PTL DEF CastSpec

-----------------------------------------------------------------------------
(* Broadcast: the registry *)

\* A registered stream is registered under its own id, by a handler that has
\* begun, and nobody is to close it; the registry is within its limit.
Registry ==
  /\ \A i \in Id : streams[i] # None =>
       id[streams[i]] = i /\ pc[streams[i]] # "idle" /\ streams[i] \notin closing \cup closed
  /\ \A r \in closing \cup closed : pc[r] # "idle"
  /\ IsFiniteSet(Registered) /\ Cardinality(Registered) <= maxStreams

\* Nothing new is registered.
LEMMA NoMore ==
  ASSUME CastTypeOK, Registry, maxStreams' = maxStreams, Registered' \subseteq Registered
  PROVE  IsFiniteSet(Registered') /\ Cardinality(Registered') <= maxStreams'
<1>1. /\ IsFiniteSet(Registered) /\ IsFiniteSet(Registered')
      /\ Cardinality(Registered') <= Cardinality(Registered)
  BY FS_Subset DEF Registry
<1>2. Cardinality(Registered) \in Nat /\ Cardinality(Registered') \in Nat /\ maxStreams \in Nat
  BY <1>1, FS_CardinalityType, BroadcastAssumption DEF CastTypeOK
<1> QED
  BY <1>1, <1>2 DEF Registry

LEMMA TakenOut ==
  ASSUME CastTypeOK, Registry, NEW i \in Id, CloseStream(i), UNCHANGED <<id, closed>>,
         \A r \in Pub : pc[r] # "idle" => pc'[r] # "idle"
  PROVE  Registry'
<1>1. /\ \A j \in Id : streams'[j] = IF j = i THEN None ELSE streams[j]
      /\ \A x \in closing' : x \in closing \/ x = streams[i]
      /\ closing' \subseteq Pub /\ maxStreams' = maxStreams
  BY StreamTaken
<1>2. Registered' \subseteq Registered
  BY <1>1 DEF Registered
<1>3. \A j \in Id : streams[j] # None /\ j # i => streams[j] # streams[i]
  BY DEF Registry
<1>4. \A x \in closing' : x \in Pub /\ pc[x] # "idle"
  <2>1. \A x \in closing' : x \in Pub
    BY <1>1
  <2>2. \A x \in closing : pc[x] # "idle"
    BY DEF Registry
  <2>3. streams[i] \in closing' => pc[streams[i]] # "idle"
    BY <2>1, BroadcastAssumption DEF Registry
  <2> QED
    BY <1>1, <2>1, <2>2, <2>3
<1>5. \A x \in closed : x \in Pub /\ pc[x] # "idle"
  BY DEF CastTypeOK, Registry
<1> QED
  BY <1>1, <1>2, <1>3, <1>4, <1>5, NoMore DEF Registry, CastTypeOK

LEMMA Registers ==
  ASSUME CastTypeOK, Addressed, Registry, NEW r \in Pub, NEW i \in Id, Publish(r, i)
  PROVE  Registry'
<1>1. /\ \A j \in Id : streams'[j] = IF j = i THEN r ELSE streams[j]
      /\ \A x \in Pub : id'[x] = IF x = r THEN i ELSE id[x]
      /\ \A x \in Pub : pc'[x] = IF x = r THEN "body" ELSE pc[x]
      /\ closing' = closing \cup Taken(i) /\ closed' = closed /\ maxStreams' = maxStreams
      /\ pc[r] = "idle" /\ ~Full
  BY DEF CastTypeOK, Publish, PubGoes, Replaced
<1>2. r \notin closing \cup closed /\ \A j \in Id : streams[j] # r
  BY <1>1, BroadcastAssumption DEF Registry
<1>3. /\ IsFiniteSet(Registered \cup {i})
      /\ \/ Cardinality(Registered \cup {i}) = Cardinality(Registered)
         \/ Cardinality(Registered \cup {i}) = Cardinality(Registered) + 1
  BY FS_AddElement DEF Registry
<1>4. Registered' \subseteq Registered \cup {i}
  BY <1>1 DEF Registered
<1>5. /\ IsFiniteSet(Registered')
      /\ Cardinality(Registered') <= Cardinality(Registered \cup {i})
  BY <1>3, <1>4, FS_Subset
<1>6. Cardinality(Registered') <= maxStreams'
  <2>1. /\ Cardinality(Registered) \in Nat /\ Cardinality(Registered') \in Nat
        /\ maxStreams \in Nat /\ Cardinality(Registered) < maxStreams
    BY <1>1, <1>5, FS_CardinalityType, BroadcastAssumption DEF CastTypeOK, Registry, Full
  <2> QED
    BY <1>1, <1>3, <1>5, <2>1
<1>7. \A x \in closing' \cup closed' : x \in Pub /\ pc[x] # "idle"
  BY <1>1, BroadcastAssumption DEF CastTypeOK, Registry, Taken
<1>8. \A j \in Id : streams[j] # None /\ j # i =>
        streams[j] # streams[i] /\ streams[j] # r /\ streams[j] \in Pub
  BY <1>2, BroadcastAssumption DEF CastTypeOK, Registry
<1>9. \A x \in closing' \cup closed' : x \in closing \cup closed \/ x = streams[i]
  BY <1>1 DEF Taken
<1>10. r \notin closing' \cup closed'
  BY <1>1, <1>7
<1>11. \A j \in Id : streams'[j] # None =>
         /\ id'[streams'[j]] = j /\ pc'[streams'[j]] # "idle"
         /\ streams'[j] \notin closing' \cup closed'
  BY <1>1, <1>8, <1>9, <1>10 DEF Registry
<1> QED
  BY <1>1, <1>5, <1>6, <1>7, <1>11 DEF Registry

LEMMA RegistryStep ==
  CastTyping /\ Registry /\ [CastNext]_castVars => Registry'
<1> SUFFICES ASSUME CastTypeOK, Addressed, Registry, [CastNext]_castVars
             PROVE  Registry'
  BY DEF CastTyping
<1>1. ASSUME UNCHANGED <<registry, id, closing, closed>>,
             \A r \in Pub : pc[r] # "idle" => pc'[r] # "idle"
      PROVE  Registry'
  BY <1>1, BroadcastAssumption DEF registry, Registry, CastTypeOK, Registered
<1>2. ASSUME NEW r \in Pub,
             \/ Refused(r) \/ Attach(r) \/ RegisterCallbacks(r) \/ Fails(r) \/ Answered(r)
             \/ PubLost(r) \/ \E t \in Track : OnTrack(r, t)
      PROVE  Registry'
  BY <1>1, <1>2 DEF Refused, Attach, RegisterCallbacks, Fails, Answered, PubLost, OnTrack,
                    CastTypeOK, PubGoes, pubVars
<1>3. ASSUME NEW r \in Pub, NEW i \in Id, Publish(r, i) PROVE Registry'
  BY <1>3, Registers
\* Who takes a stream out: a failed handler, a DELETE, a callback that may be late.
<1>4. ASSUME NEW r \in Pub, FailureCloses(r) PROVE Registry'
  <2>1. /\ id[r] \in Id /\ CloseStream(id[r]) /\ UNCHANGED <<id, closed>>
        /\ \A x \in Pub : pc[x] # "idle" => pc'[x] # "idle"
    BY <1>4 DEF FailureCloses, Addressed, CastTypeOK, PubGoes
  <2> QED
    BY <2>1, TakenOut
<1>5. ASSUME NEW i \in Id, Unpublish(i) PROVE Registry'
  <2>1. CloseStream(i) /\ UNCHANGED <<id, closed, pc>>
    BY <1>5 DEF Unpublish, pubVars
  <2> QED
    BY <2>1, TakenOut
<1>6. ASSUME NEW r \in Pub, PubCallback(r) PROVE Registry'
  <2>1. id[r] \in Id /\ CloseStream(id[r]) /\ UNCHANGED <<id, closed, pc>>
    BY <1>6 DEF PubCallback, Addressed, pubVars
  <2> QED
    BY <2>1, TakenOut
<1>7. ASSUME NEW x \in Pub, StreamClose(x) PROVE Registry'
  <2>1. /\ UNCHANGED <<registry, id, pc>>
        /\ closing' \cup closed' = closing \cup closed
    BY <1>7 DEF StreamClose
  <2> QED
    BY <2>1 DEF registry, Registry, Registered
<1>8. ASSUME NEW w \in Sub,
             \/ CopyTracks(w) \/ AddSubscriber(w) \/ Negotiated(w) \/ SubFailureRemoves(w)
             \/ SubLost(w) \/ SubCallback(w)
             \/ \E i \in Id : Subscribe(w, i) \/ Unsubscribe(w, i)
      PROVE  Registry'
  BY <1>1, <1>8 DEF CopyTracks, AddSubscriber, Negotiated, SubFailureRemoves, SubLost,
                    SubCallback, Subscribe, Unsubscribe, pubVars
<1>9. CASE UNCHANGED castVars
  BY <1>1, <1>9 DEF castVars, pubVars
<1> QED
  BY <1>2, <1>3, <1>4, <1>5, <1>6, <1>7, <1>8, <1>9, CastSteps

LEMMA CastInitRegistry == CastInit => Registry
<1> SUFFICES ASSUME CastInit PROVE Registry
  OBVIOUS
<1>1. Registered = {} /\ \A i \in Id : streams[i] = None
  BY DEF CastInit, Registered
<1>2. IsFiniteSet(Registered) /\ Cardinality(Registered) = 0 /\ maxStreams \in Nat
  BY <1>1, FS_EmptySet, BroadcastAssumption DEF CastInit
<1> QED
  BY <1>1, <1>2 DEF CastInit, Registry

\* The registry is within its limit and holds no stream twice, and no stream that
\* has been closed or is about to be, whoever closes it and however late.
THEOREM RegistryFresh == CastSpec => []RegistryKept
<1>1. CastInit => Registry
  BY CastInitRegistry
<1>2. CastTyping /\ Registry /\ [CastNext]_castVars => (CastTyping /\ Registry)'
  BY CastTypingStep, RegistryStep
<1>3. CastTyping /\ Registry => RegistryKept
  <2> SUFFICES ASSUME CastTypeOK, Registry PROVE RegistryKept
    BY DEF CastTyping
  <2>1. CapacityKept
    BY DEF CapacityKept, Registry
  <2>2. \A i \in Id : streams[i] \notin closed \cup closing
    BY BroadcastAssumption DEF Registry, CastTypeOK
  <2> QED
    BY <2>1, <2>2 DEF RegistryKept
<1> QED
  BY <1>1, <1>2, <1>3, CastInitTyped, PTL DEF CastSpec

-----------------------------------------------------------------------------
(* Broadcast: the registry keeps the promise of StreamRegistry *)

\* What closeStream takes out is given to be closed.
LEMMA TakesOut ==
  ASSUME CastTypeOK, Registry, NEW i \in Id, CloseStream(i), UNCHANGED closed
  PROVE  [Streams!Next]_Streams!registry
<1>1. /\ streams' = [streams EXCEPT ![i] = None] /\ maxStreams' = maxStreams
      /\ closing' = closing \cup ({streams[i]} \ {None})
  BY DEF CloseStream, Deleted, Taken
<1>2. CASE streams[i] = None
  BY <1>1, <1>2 DEF CastTypeOK, Streams!registry
<1>3. CASE streams[i] # None
  <2>1. Streams!TakeOut(i)
    BY <1>1, <1>3 DEF Streams!TakeOut, Streams!GiveUp
  <2> QED
    BY <2>1 DEF Streams!Next
<1> QED
  BY <1>2, <1>3

LEMMA StepStreams ==
  ASSUME CastTyping, Registry, [CastNext]_castVars
  PROVE  [Streams!Next]_Streams!registry
<1>0. CastTypeOK /\ Addressed
  BY DEF CastTyping
<1>1. ASSUME UNCHANGED registry, closing' \cup closed' = closing \cup closed
      PROVE  UNCHANGED Streams!registry
  BY <1>1 DEF registry, Streams!registry
<1>2. ASSUME UNCHANGED registry, closing' \cup closed' = closing \cup closed
      PROVE  [Streams!Next]_Streams!registry
  BY <1>1, <1>2
<1>3. ASSUME NEW r \in Pub,
             \/ Refused(r) \/ Attach(r) \/ RegisterCallbacks(r) \/ Fails(r) \/ Answered(r)
             \/ PubLost(r) \/ \E t \in Track : OnTrack(r, t)
      PROVE  [Streams!Next]_Streams!registry
  <2>1. UNCHANGED <<registry, closing, closed>>
    BY <1>3 DEF Refused, Attach, RegisterCallbacks, Fails, Answered, PubLost, OnTrack
  <2> QED
    BY <1>2, <2>1
<1>4. ASSUME NEW r \in Pub, NEW i \in Id, Publish(r, i) PROVE [Streams!Next]_Streams!registry
  <2>1. /\ streams' = [streams EXCEPT ![i] = r] /\ maxStreams' = maxStreams
        /\ closing' = closing \cup ({streams[i]} \ {None}) /\ closed' = closed
        /\ pc[r] = "idle" /\ ~Full
    BY <1>4 DEF Publish, Replaced, Taken
  <2>2. r \notin closing \cup closed /\ \A j \in Id : streams[j] # r
    BY <2>1, BroadcastAssumption DEF Registry
  <2>3. /\ Cardinality(Registered) \in Nat /\ maxStreams \in Nat
    BY <1>0, FS_CardinalityType, BroadcastAssumption DEF CastTypeOK, Registry
  <2>4. Cardinality({j \in Id : streams[j] # None}) < maxStreams
    BY <2>1, <2>3 DEF Full, Registered
  <2>5. closing' \cup closed' = (closing \cup closed) \cup ({streams[i]} \ {None})
    BY <2>1
  <2>6. \A S : Streams!Cardinality(S) = Cardinality(S)
    BY DEF Cardinality, Streams!Cardinality
  <2>7. Streams!Register(r, i)
    BY <2>1, <2>2, <2>4, <2>5, <2>6 DEF Streams!Register, Streams!GiveUp
  <2> QED
    BY <2>7 DEF Streams!Next
<1>5. ASSUME NEW r \in Pub, FailureCloses(r) PROVE [Streams!Next]_Streams!registry
  <2>1. id[r] \in Id /\ CloseStream(id[r]) /\ UNCHANGED closed
    BY <1>0, <1>5 DEF FailureCloses, Addressed
  <2> QED
    BY <1>0, <2>1, TakesOut
<1>6. ASSUME NEW i \in Id, Unpublish(i) PROVE [Streams!Next]_Streams!registry
  <2>1. CloseStream(i) /\ UNCHANGED closed
    BY <1>6 DEF Unpublish
  <2> QED
    BY <1>0, <2>1, TakesOut
<1>7. ASSUME NEW r \in Pub, PubCallback(r) PROVE [Streams!Next]_Streams!registry
  <2>1. id[r] \in Id /\ CloseStream(id[r]) /\ UNCHANGED closed
    BY <1>0, <1>7 DEF PubCallback, Addressed
  <2> QED
    BY <1>0, <2>1, TakesOut
<1>8. ASSUME NEW x \in Pub, StreamClose(x) PROVE [Streams!Next]_Streams!registry
  <2>1. UNCHANGED registry /\ closing' \cup closed' = closing \cup closed
    BY <1>8 DEF StreamClose
  <2> QED
    BY <1>2, <2>1
<1>9. ASSUME NEW w \in Sub,
             \/ CopyTracks(w) \/ AddSubscriber(w) \/ Negotiated(w) \/ SubFailureRemoves(w)
             \/ SubLost(w) \/ SubCallback(w)
             \/ \E i \in Id : Subscribe(w, i) \/ Unsubscribe(w, i)
      PROVE  [Streams!Next]_Streams!registry
  <2>1. UNCHANGED <<registry, closing, closed>>
    BY <1>9 DEF CopyTracks, AddSubscriber, Negotiated, SubFailureRemoves, SubLost,
                SubCallback, Subscribe, Unsubscribe
  <2> QED
    BY <1>2, <2>1
<1>10. CASE UNCHANGED castVars
  BY <1>2, <1>10 DEF castVars
<1> QED
  BY <1>3, <1>4, <1>5, <1>6, <1>7, <1>8, <1>9, <1>10, CastSteps

\* The relay keeps the promise of StreamRegistry: a stream is registered once and
\* where there is room, leaves the registry for good, and whoever takes it out,
\* however late, gives it to be closed in that step.
THEOREM KeepsItsStreams == CastSpec => KeepsStreams
<1>1. CastInit => CastTyping /\ Registry
  BY CastInitTyped, CastInitRegistry
<1>2. CastTyping /\ Registry /\ [CastNext]_castVars => (CastTyping /\ Registry)'
  BY CastTypingStep, RegistryStep
<1>3. CastInit => Streams!Init
  BY DEF CastInit, Streams!Init
<1>4. CastTyping /\ Registry /\ [CastNext]_castVars => [Streams!Next]_Streams!registry
  BY StepStreams
<1> QED
  BY <1>1, <1>2, <1>3, <1>4, RegistryFresh, PTL DEF CastSpec, KeepsStreams, Streams!Spec

-----------------------------------------------------------------------------
(* DuckDNS: typing *)

LEMMA DuckSteps ==
  ASSUME DuckNext
  PROVE  \/ Restart \/ HubCallback
         \/ \E k \in Task : CallDuck(k) \/ AnswerOK(k) \/ AnswerFailed(k) \/ Callback(k)
         \/ \E k \in Poster : \/ \E c \in Cred : PostDuck(k, c) \/ PostConfig(k, c)
                              \/ SetDomain(k) \/ SetToken(k) \/ SetPublicIP(k)
                              \/ SaveFormats(k) \/ SaveWrites(k) \/ SaveFails(k)
                              \/ StartBackgroundSync(k)
BY DuckAssumption DEF DuckNext, Update, Post, DuckHandler

\* What the operators return.
LEMMA DuckRanges ==
  /\ Blank \in Cred /\ Empty \in Content /\ Starts \subseteq Content
  /\ \A c \in Cred : /\ Fresh(c) \in Status /\ c = <<c[1], c[2]>>
                     /\ c[1] \in Domain \cup {None} /\ c[2] \in Token \cup {None}
                     /\ Trimmed(c) \in Cred /\ Cleaned(c) \in Cred
                     /\ Trim[c[1]] \in Domain \cup {None}
                     /\ FullName[c[1]] \in Name \cup {None}
  /\ \A d \in Domain \cup {None}, t \in Token \cup {None} : <<d, t>> \in Cred
  /\ \A f \in Content : /\ f.host \in Name \cup {None} /\ f.cred \in Cred
  /\ \A f \in Content : HostAtStart(f) \in Name \cup {None}
  /\ WanAddress \in Name /\ HubName \in Name
<1> USE SpellingAssumption, DuckAssumption
<1>1. \A c \in Cred : Trimmed(c) \in Cred /\ Cleaned(c) \in Cred
  BY DEF Cred, Trimmed, Cleaned
<1>2. \A f \in Content : HostAtStart(f) \in Name \cup {None}
  BY DEF Content, Cred, HostAtStart
<1> QED
  BY <1>1, <1>2 DEF Blank, Cred, Empty, Content, Fresh, Status

\* What cleaning and trimming do after one another.
LEMMA CleanedTwice ==
  ASSUME NEW c \in Cred
  PROVE  /\ Trimmed(Trimmed(c)) = Trimmed(c) /\ Cleaned(Trimmed(c)) = Cleaned(c)
         /\ Trimmed(c)[1] = Trim[c[1]] /\ Cleaned(c)[1] = Clean[c[1]]
         /\ Trimmed(Blank) = Blank /\ Cleaned(Blank) = Blank
<1> USE SpellingAssumption
<1>1. Trim[Trim[c[1]]] = Trim[c[1]]
  BY DEF Cred
<1> QED
  BY <1>1 DEF Cred, Trimmed, Cleaned, Blank

\* One handler or loop goes on, in words a solver can use.
LEMMA DuckMoves ==
  ASSUME DuckTypeOK, NEW k \in Task, NEW place \in DuckPlace, DuckGoes(k, place)
  PROVE  /\ at' \in [Task -> DuckPlace] /\ tried' \in [Task -> Cred]
         /\ content' \in [Poster -> Content]
         /\ input' \in [Poster -> Cred \X {"duckdns", "config"}]
         /\ at'[k] = place /\ tried'[k] = IF place = "callback" THEN tried[k] ELSE Blank
         /\ \A j \in Task : j # k => at'[j] = at[j] /\ tried'[j] = tried[j]
         /\ \A j \in Poster : j # k => content'[j] = content[j]
         /\ \A j \in Poster : j # k \/ place # "idle" => input'[j] = input[j]
<1> USE DuckRanges DEF DuckTypeOK, DuckGoes
<1>1. Poster \subseteq Task
  BY DEF Task
<1>2. /\ at' \in [Task -> DuckPlace] /\ at'[k] = place
      /\ \A j \in Task : j # k => at'[j] = at[j]
  OBVIOUS
<1>3. /\ tried' \in [Task -> Cred]
      /\ tried'[k] = IF place = "callback" THEN tried[k] ELSE Blank
      /\ \A j \in Task : j # k => tried'[j] = tried[j]
  OBVIOUS
<1>4. /\ content' \in [Poster -> Content]
      /\ \A j \in Poster : j # k => content'[j] = content[j]
  BY <1>1
<1>5. <<Blank, "duckdns">> \in Cred \X {"duckdns", "config"}
  OBVIOUS
<1>6. /\ input' \in [Poster -> Cred \X {"duckdns", "config"}]
      /\ \A j \in Poster : j # k \/ place # "idle" => input'[j] = input[j]
  BY <1>1, <1>5
<1> QED
  BY <1>2, <1>3, <1>4, <1>6

\* Who begins to assign.
LEMMA EntersTyped ==
  ASSUME DuckTypeOK, NEW k \in Poster, Enters(k, crossed)
  PROVE  /\ crossed' \subseteq Poster /\ mixed' \in BOOLEAN
         /\ crossed \subseteq crossed' /\ (mixed => mixed')
         /\ k \in crossed' => mixed'
         /\ \A j \in Poster : j # k /\ at[j] \in Assigning => j \in crossed' /\ k \in crossed'
<1>1. Others(k) \subseteq Poster /\ \A j \in Poster : j # k /\ at[j] \in Assigning => j \in Others(k)
  BY DEF Others
<1>2. crossed' \subseteq Poster /\ crossed \subseteq crossed'
  BY <1>1 DEF DuckTypeOK, Enters
<1>3. mixed' \in BOOLEAN /\ (mixed => mixed') /\ (k \in crossed' => mixed')
  BY Zenon DEF DuckTypeOK, Enters
<1>4. \A j \in Poster : j # k /\ at[j] \in Assigning => j \in crossed' /\ k \in crossed'
  BY <1>1 DEF Enters
<1> QED
  BY <1>2, <1>3, <1>4

LEMMA DuckTyped == DuckTypeOK /\ [DuckNext]_duckVars => DuckTypeOK'
<1> SUFFICES ASSUME DuckTypeOK, [DuckNext]_duckVars PROVE DuckTypeOK'
  OBVIOUS
<1>0. {"call", "sent", "callback", "off", "idle", "domain", "token", "host",
       "save", "writing", "written"} = DuckPlace
  BY DEF DuckPlace, Updating, Assigning
<1>p. Poster \subseteq Task /\ Loop \subseteq Task /\ Poster \cap Loop = {}
  BY DuckAssumption DEF Task
<1>b. mixed \in BOOLEAN
  BY DEF DuckTypeOK
<1> USE <1>0, <1>p, DuckRanges DEF DuckTypeOK, counters, config, duckHist
<1>1. CASE Restart
  <2>1. at' \in [Task -> DuckPlace] /\ \A k \in Task : at'[k] \in {"off", "call", "idle"}
    BY <1>1 DEF Restart, LoopsOf, Task
  <2>2. restarts' \in 0..MaxRestarts /\ configs' \in 0..MaxConfigs
    BY <1>1, DuckAssumption DEF Restart
  <2>3. /\ conf' \in Cred /\ cred' \in Cred /\ host' \in Name \cup {None} /\ status' \in Status
        /\ file' \in Content
    BY <1>1 DEF Restart
  <2>4. /\ tried' \in [Task -> Cred] /\ content' \in [Poster -> Content]
        /\ input' \in [Poster -> Cred \X {"duckdns", "config"}]
    BY <1>1 DEF Restart, NoRequest
  <2>5. /\ trusted' \subseteq Cred /\ stale' \in {"no", "old", "cut"} /\ crossed' \subseteq Poster
        /\ mixed' \in BOOLEAN
    BY <1>1, <1>b DEF Restart
  <2> QED
    BY <2>1, <2>2, <2>3, <2>4, <2>5
<1>h. CASE HubCallback
  BY <1>h, SMTT(30) DEF HubCallback
<1>2. ASSUME NEW k \in Task, CallDuck(k) PROVE DuckTypeOK'
  <2>0. /\ UNCHANGED <<cred, status, conf, host, file, configs, restarts, trusted, stale, mixed>>
        /\ crossed' \subseteq Poster /\ at[k] = "call"
    BY <1>2 DEF CallDuck
  <2>1. CASE Complete(cred)
    <3>1. /\ at' = [at EXCEPT ![k] = "sent"] /\ tried' = [tried EXCEPT ![k] = cred]
          /\ UNCHANGED <<input, content>>
      BY <1>2, <2>1 DEF CallDuck, Ready, Snapshot
    <3>2. at' \in [Task -> DuckPlace] /\ tried' \in [Task -> Cred]
      BY <3>1
    <3>3. \A j \in Task : at'[j] \in {"sent", "callback"} => Complete(tried'[j])
      BY <2>1, <3>1
    <3> QED
      BY <2>0, <3>1, <3>2, <3>3
  <2>2. CASE ~Complete(cred)
    <3>1. PICK place \in {"call", "idle"} : DuckGoes(k, place)
      BY <1>2, <2>2 DEF CallDuck, Ready, Snapshot, Continues
    <3> QED
      BY <2>0, <3>1, DuckMoves
  <2> QED
    BY <2>1, <2>2
<1>3. ASSUME NEW k \in Task, AnswerOK(k) PROVE DuckTypeOK'
  <2>1. status' \in Status
    BY <1>3 DEF AnswerOK, StatusAfter, Status
  <2>2. trusted' \subseteq Cred
    BY <1>3 DEF AnswerOK
  <2>3. DuckGoes(k, "callback") /\ at[k] = "sent"
    BY <1>3 DEF AnswerOK
  <2> QED
    BY <1>3, <2>1, <2>2, <2>3, DuckMoves DEF AnswerOK
<1>4. ASSUME NEW k \in Task, AnswerFailed(k) PROVE DuckTypeOK'
  <2>1. status' \in Status
    BY <1>4 DEF AnswerFailed, StatusAfter, Status
  <2>2. DuckGoes(k, Continues(k, FALSE)) /\ Continues(k, FALSE) \in {"call", "idle"}
    BY <1>4 DEF AnswerFailed, Continues
  <2> QED
    BY <1>4, <2>1, <2>2, DuckMoves DEF AnswerFailed
<1>5. ASSUME NEW k \in Task, Callback(k) PROVE DuckTypeOK'
  <2>1. host' \in Name \cup {None}
    BY <1>5 DEF Callback
  <2>2. crossed' \subseteq Poster /\ mixed' \in BOOLEAN
    BY <1>5, <1>b, EntersTyped DEF Callback
  <2>3. DuckGoes(k, Continues(k, TRUE)) /\ Continues(k, TRUE) \in {"call", "domain"}
    BY <1>5 DEF Callback, Continues
  <2> QED
    BY <1>5, <2>1, <2>2, <2>3, DuckMoves DEF Callback
<1>7. ASSUME NEW k \in Poster, NEW c \in Cred, PostDuck(k, c) PROVE DuckTypeOK'
  <2>1. status' \in Status
    BY <1>7 DEF PostDuck, Status
  <2>2. at' \in [Task -> DuckPlace] /\ \A j \in Task : at'[j] \in {"sent", "callback"} => at'[j] = at[j]
    BY <1>7 DEF PostDuck
  <2>3. input' \in [Poster -> Cred \X {"duckdns", "config"}]
    BY <1>7 DEF PostDuck
  <2> QED
    BY <1>7, <2>1, <2>2, <2>3 DEF PostDuck
<1>8. ASSUME NEW k \in Poster, NEW c \in Cred, PostConfig(k, c) PROVE DuckTypeOK'
  <2>1. configs' \in 0..MaxConfigs
    BY <1>8, DuckAssumption DEF PostConfig
  <2>2. at' \in [Task -> DuckPlace] /\ \A j \in Task : at'[j] \in {"sent", "callback"} => at'[j] = at[j]
    BY <1>8 DEF PostConfig
  <2>3. input' \in [Poster -> Cred \X {"duckdns", "config"}]
    BY <1>8 DEF PostConfig
  <2>4. crossed' \subseteq Poster /\ mixed' \in BOOLEAN
    BY <1>8, EntersTyped DEF PostConfig
  <2> QED
    BY <1>8, <2>1, <2>2, <2>3, <2>4 DEF PostConfig
<1>a. ASSUME NEW k \in Poster PROVE Assigned(k) \in Cred
  BY DEF Assigned
<1>9. ASSUME NEW k \in Poster, SetDomain(k) PROVE DuckTypeOK'
  <2>1. conf' \in Cred
    BY <1>9, <1>a DEF SetDomain
  <2>2. trusted' \subseteq Cred
    BY <1>9, <2>1 DEF SetDomain, Assigns
  <2>3. PICK place \in {"host", "token"} : DuckGoes(k, place)
    BY <1>9 DEF SetDomain
  <2> QED
    BY <1>9, <2>1, <2>2, <2>3, DuckMoves DEF SetDomain, Assigns
<1>10. ASSUME NEW k \in Poster, SetToken(k) PROVE DuckTypeOK'
  <2>1. conf' \in Cred
    BY <1>10, <1>a DEF SetToken
  <2>2. trusted' \subseteq Cred
    BY <1>10, <2>1 DEF SetToken, Assigns
  <2>3. PICK place \in {"host", "save"} : DuckGoes(k, place)
    BY <1>10 DEF SetToken
  <2> QED
    BY <1>10, <2>1, <2>2, <2>3, DuckMoves DEF SetToken, Assigns
<1>11. ASSUME NEW k \in Poster, SetPublicIP(k) PROVE DuckTypeOK'
  <2>1. input[k][1] \in Cred
    OBVIOUS
  <2>2. host' \in Name \cup {None}
    BY <1>11, <2>1 DEF SetPublicIP
  <2>3. PICK place \in {"token", "save"} : DuckGoes(k, place)
    BY <1>11 DEF SetPublicIP
  <2> QED
    BY <1>11, <2>2, <2>3, DuckMoves DEF SetPublicIP
<1>12. ASSUME NEW k \in Poster, SaveFormats(k) PROVE DuckTypeOK'
  <2>1. Formatted(k) \in Content
    BY DEF Formatted, Content
  <2>2. at' \in [Task -> DuckPlace] /\ \A j \in Task : at'[j] \in {"sent", "callback"} => at'[j] = at[j]
    BY <1>12 DEF SaveFormats
  <2> QED
    BY <1>12, <2>1, <2>2 DEF SaveFormats
<1>13. ASSUME NEW k \in Poster, SaveWrites(k) PROVE DuckTypeOK'
  <2>1. PICK place \in {"idle", "written"} : DuckGoes(k, place)
    BY <1>13 DEF SaveWrites, AfterSave
  <2>2. mixed' \in BOOLEAN
    BY <1>13, Zenon DEF SaveWrites
  <2> QED
    BY <1>13, <2>1, <2>2, DuckMoves DEF SaveWrites
<1>14. ASSUME NEW k \in Poster, SaveFails(k) PROVE DuckTypeOK'
  <2>1. PICK place \in {"idle", "written"} : DuckGoes(k, place)
    BY <1>14 DEF SaveFails, AfterSave
  <2> QED
    BY <1>14, <2>1, DuckMoves DEF SaveFails
<1>15. ASSUME NEW k \in Poster, StartBackgroundSync(k) PROVE DuckTypeOK'
  <2>1. at' \in [Task -> DuckPlace]
    BY <1>15 DEF StartBackgroundSync
  <2>2. \A j \in Task : at'[j] \in {"sent", "callback"} => at'[j] = at[j]
    BY <1>15 DEF StartBackgroundSync
  <2>3. input' \in [Poster -> Cred \X {"duckdns", "config"}]
    BY <1>15 DEF StartBackgroundSync
  <2> QED
    BY <1>15, <2>1, <2>2, <2>3 DEF StartBackgroundSync
<1>16. CASE UNCHANGED duckVars
  BY <1>16 DEF duckVars
<1> QED
  BY <1>1, <1>h, <1>2, <1>3, <1>4, <1>5, <1>7, <1>8, <1>9, <1>10, <1>11, <1>12, <1>13,
     <1>14, <1>15, <1>16, DuckSteps

-----------------------------------------------------------------------------
(* DuckDNS: only what was accepted *)

\* A name that comes of trusted credentials.
From(h, ok) ==
  \/ h = WanAddress \/ (Hub /\ h = HubName)
  \/ \E c \in ok : h = FullName[c[1]] \/ (\E d \in Domain : Clean[d] = c[1] /\ h = FullName[d])

LEMMA FromFacts ==
  ASSUME NEW ok, NEW more, ok \subseteq more
  PROVE  /\ \A h : From(h, ok) => From(h, more)
         /\ \A c \in ok : From(FullName[c[1]], ok)
         /\ \A c \in Cred : Cleaned(c) \in ok => From(FullName[c[1]], ok)
         /\ \A f \in Content :
              /\ (Cleaned(f.cred) \in ok \/ f = Empty)
              /\ (f.host = None \/ From(f.host, ok))
              => From(HostAtStart(f), ok)
<1>1. \A h : From(h, ok) => From(h, more)
  BY DEF From
<1>2. \A c \in ok : From(FullName[c[1]], ok)
  BY DEF From
<1>3. ASSUME NEW c \in Cred, Cleaned(c) \in ok PROVE From(FullName[c[1]], ok)
  <2>1. Cleaned(c)[1] = Clean[c[1]] /\ c[1] \in Domain \cup {None}
    BY DuckRanges, CleanedTwice
  <2>2. CASE c[1] = None
    <3>1. Cleaned(c)[1] = None
      BY <2>1, <2>2, SpellingAssumption
    <3> QED
      BY <1>2, <1>3, <2>2, <3>1
  <2>3. CASE c[1] \in Domain
    BY <1>3, <2>1, <2>3 DEF From
  <2> QED
    BY <2>1, <2>2, <2>3
<1>4. ASSUME NEW f \in Content, f.host = None \/ From(f.host, ok),
             Cleaned(f.cred) \in ok \/ f = Empty
      PROVE  From(HostAtStart(f), ok)
  <2>1. CASE f.host # None
    BY <1>4, <2>1 DEF HostAtStart
  <2>2. CASE f.host = None /\ Trim[f.cred[1]] = None
    BY <2>2 DEF HostAtStart, From
  <2>3. CASE f.host = None /\ Trim[f.cred[1]] # None
    <3>1. f.cred \in Cred
      BY DuckRanges
    <3>2. f # Empty
      BY <2>3, SpellingAssumption DEF Empty, Blank
    <3>3. Trimmed(f.cred) \in Cred /\ Cleaned(Trimmed(f.cred)) \in ok
      BY <1>4, <3>1, <3>2, DuckRanges, CleanedTwice
    <3>4. Trimmed(f.cred)[1] = Trim[f.cred[1]]
      BY <3>1, CleanedTwice
    <3> QED
      BY <1>3, <2>3, <3>3, <3>4 DEF HostAtStart
  <2> QED
    BY <2>1, <2>2, <2>3
<1> QED
  BY <1>1, <1>2, <1>3, <1>4

\* What is configured is trusted, or is nothing since a save was cut off.
ConfTrusted == Cleaned(conf) \in trusted
ConfKept == ConfTrusted \/ (stale = "cut" /\ conf = Blank)

\* Two that assign at the same time are crossed, and one of those shows.
Crossing ==
  /\ \A j, k \in Poster : j # k /\ at[j] \in Assigning /\ at[k] \in Assigning => j \in crossed
  /\ \A k \in Poster : at[k] \in Assigning /\ k \in crossed => mixed

\* An update that went well was of trusted credentials, those of the request if
\* it was not crossed.
Answers ==
  /\ \A k \in Task : at[k] = "callback" => tried[k] \in trusted
  /\ \A k \in Poster \ crossed :
       at[k] \in {"sent", "callback"} => tried[k] = Cleaned(input[k][1])

\* What a handler of /api/duckdns that is not crossed has done so far.
Own(k) ==
  /\ at[k] \in Assigning => Cleaned(input[k][1]) \in trusted
  /\ at[k] \in {"token", "host", "save", "writing"} => conf[1] = input[k][1][1]
  /\ at[k] \in {"host", "save", "writing"} => conf = input[k][1]
  /\ at[k] \in {"save", "writing"} => From(host, trusted)
  /\ at[k] = "writing" => content[k].cred = conf /\ From(content[k].host, trusted)
Owned == \A k \in Poster \ crossed : ~IsConfig(k) => Own(k)

\* What is so as long as nothing is mixed.
FileKept ==
  /\ Cleaned(file.cred) \in trusted \/ stale = "cut"
  /\ file.host = None \/ From(file.host, trusted)
Writing(k) == stale = "cut" /\ content[k].cred = conf /\ From(content[k].host, trusted)
Pure ==
  /\ From(host, trusted) /\ FileKept
  /\ (\A k \in Poster : at[k] = "token" => IsConfig(k)) => ConfKept
  /\ \A k \in Poster : IsConfig(k) /\ at[k] \in {"host", "save", "writing"} => ConfTrusted
  /\ \A k \in Poster : at[k] = "writing" => Writing(k)
  /\ Settled /\ stale = "no" => Trimmed(file.cred) = Trimmed(conf)
CutOff == stale = "cut" => file = Empty

Trusting == Crossing /\ Answers /\ Owned /\ CutOff /\ (~mixed => Pure)

\* A step that leaves alone what is configured and whoever assigns.
LEMMA StepAside ==
  ASSUME DuckTypeOK, Trusting,
         UNCHANGED <<conf, file, stale, mixed>>,
         trusted \subseteq trusted', crossed \subseteq crossed',
         host' = host \/ From(host', trusted'),
         \A j \in Poster :
           \/ at[j] \notin Assigning /\ at'[j] \notin Assigning
           \/ /\ at'[j] = at[j] /\ input'[j] = input[j] /\ content'[j] = content[j]
              /\ j \in crossed' => j \in crossed,
         Answers'
  PROVE  Trusting'
<1> USE DEF Trusting
<1>0. \A h : From(h, trusted) => From(h, trusted')
  BY FromFacts
<1>1. Crossing'
  BY DEF Crossing
<1>2. CutOff'
  BY DEF CutOff
<1>3. ASSUME NEW j \in Poster \ crossed', ~IsConfig(j)' PROVE Own(j)'
  <2>1. CASE at[j] \notin Assigning /\ at'[j] \notin Assigning
    BY <2>1 DEF Own, Assigning
  <2>2. CASE at'[j] = at[j] /\ input'[j] = input[j] /\ content'[j] = content[j]
    <3>1. Own(j)
      BY <1>3, <2>2 DEF Owned, IsConfig
    <3> QED
      BY <1>0, <2>2, <3>1 DEF Own
  <2> QED
    BY <2>1, <2>2
<1>4. ASSUME ~mixed' PROVE Pure'
  <2>1. Pure
    BY <1>4
  <2>2. From(host, trusted)' /\ FileKept'
    BY <1>0, <2>1 DEF Pure, FileKept
  <2>3. ConfTrusted => ConfTrusted'
    BY DEF ConfTrusted, Cleaned
  <2>4. (\A k \in Poster : at'[k] = "token" => IsConfig(k)') => ConfKept'
    BY <2>1, <2>3 DEF Pure, ConfKept, IsConfig, Assigning
  <2>5. \A k \in Poster : IsConfig(k)' /\ at'[k] \in {"host", "save", "writing"} => ConfTrusted'
    BY <2>1, <2>3 DEF Pure, IsConfig, Assigning
  <2>6. \A k \in Poster : at'[k] = "writing" => Writing(k)'
    BY <1>0, <2>1 DEF Pure, Writing, Assigning
  <2>7. Settled' /\ stale' = "no" => Trimmed(file.cred)' = Trimmed(conf)'
    BY <2>1 DEF Pure, Settled, Trimmed
  <2> QED
    BY <2>2, <2>4, <2>5, <2>6, <2>7 DEF Pure
<1> QED
  BY <1>1, <1>2, <1>3, <1>4 DEF Owned

\* Answers, for a step in which one task moves.
LEMMA AnswersStep ==
  ASSUME DuckTypeOK, Answers, NEW k \in Task,
         trusted \subseteq trusted', crossed \subseteq crossed',
         at' \in [Task -> DuckPlace],
         \A j \in Task : j # k => at'[j] = at[j] /\ tried'[j] = tried[j],
         \A j \in Poster : j # k => input'[j] = input[j],
         at'[k] = "callback" => tried'[k] \in trusted',
         k \in Poster /\ k \notin crossed' /\ at'[k] \in {"sent", "callback"}
           => tried'[k] = Cleaned(input'[k][1])
  PROVE  Answers'
<1>1. Poster \subseteq Task
  BY DEF Task
<1>2. \A j \in Task : at'[j] = "callback" => tried'[j] \in trusted'
  BY DEF Answers
<1>3. ASSUME NEW j \in Poster \ crossed', at'[j] \in {"sent", "callback"}
      PROVE  tried'[j] = Cleaned(input'[j][1])
  <2>1. CASE j = k
    BY <1>3, <2>1
  <2>2. CASE j # k
    BY <1>1, <1>3, <2>2 DEF Answers
  <2> QED
    BY <2>1, <2>2
<1> QED
  BY <1>2, <1>3 DEF Answers, Cleaned

\* Updates, the Cloud Hub and what is done around the assignments.
LEMMA AsideStep ==
  ASSUME DuckTypeOK, Trusting, DuckTypeOK',
         \/ HubCallback \/ UNCHANGED duckVars
         \/ \E k \in Task : CallDuck(k) \/ AnswerOK(k) \/ AnswerFailed(k)
         \/ \E l \in Loop : Callback(l)
         \/ \E k \in Poster : StartBackgroundSync(k) \/ \E c \in Cred : PostDuck(k, c)
  PROVE  Trusting'
<1>p. Poster \subseteq Task /\ Loop \subseteq Task /\ Poster \cap Loop = {}
  BY DuckAssumption DEF Task
<1>a. {"call", "sent", "callback", "off", "idle", "written"} \cap Assigning = {}
  BY DEF Assigning
<1>d. {"call", "sent", "callback", "off", "idle", "written"} \subseteq DuckPlace
  BY DEF DuckPlace, Updating
<1> USE <1>p, <1>a, <1>d DEF Trusting, config, duckHist, counters
<1>1. CASE HubCallback
  <2>1. From(host', trusted') /\ Answers'
    BY <1>1, DuckAssumption DEF HubCallback, From, Answers
  <2> QED
    BY <1>1, <2>1, StepAside DEF HubCallback
<1>2. CASE UNCHANGED duckVars
  <2>1. Answers'
    BY <1>2 DEF duckVars, Answers
  <2> QED
    BY <1>2, <2>1, StepAside DEF duckVars
<1>3. ASSUME NEW k \in Task, CallDuck(k) PROVE Trusting'
  <2>1. /\ UNCHANGED <<conf, file, stale, mixed, host, trusted>> /\ at[k] = "call"
        /\ crossed' = IF k \in Poster /\ cred # Cleaned(input[k][1]) THEN crossed \cup {k}
                      ELSE crossed
    BY <1>3 DEF CallDuck, Snapshot
  <2>2. CASE Complete(cred)
    <3>1. /\ at' = [at EXCEPT ![k] = "sent"] /\ tried' = [tried EXCEPT ![k] = cred]
          /\ UNCHANGED <<input, content>>
      BY <1>3, <2>2 DEF CallDuck, Ready, Snapshot
    <3>2. /\ at'[k] = "sent" /\ tried'[k] = cred
          /\ \A j \in Task : j # k => at'[j] = at[j] /\ tried'[j] = tried[j]
      BY <3>1 DEF DuckTypeOK
    <3>3. Answers'
      BY <2>1, <3>1, <3>2, AnswersStep DEF DuckTypeOK
    <3> QED
      BY <2>1, <3>1, <3>2, <3>3, StepAside
  <2>3. CASE ~Complete(cred)
    <3>1. PICK place \in {"call", "idle"} : DuckGoes(k, place)
      BY <1>3, <2>3 DEF CallDuck, Ready, Snapshot, Continues
    <3>2. /\ at'[k] = place
          /\ \A j \in Task : j # k => at'[j] = at[j] /\ tried'[j] = tried[j]
          /\ \A j \in Poster : j # k => input'[j] = input[j] /\ content'[j] = content[j]
      BY <3>1, DuckMoves
    <3>3. Answers'
      BY <2>1, <3>2, AnswersStep DEF DuckTypeOK
    <3> QED
      BY <2>1, <3>2, <3>3, StepAside
  <2> QED
    BY <2>2, <2>3
<1>4. ASSUME NEW k \in Task, AnswerOK(k) PROVE Trusting'
  <2>1. /\ UNCHANGED <<conf, file, stale, mixed, host, crossed>> /\ at[k] = "sent"
        /\ trusted' = trusted \cup ({tried[k]} \cap Good) /\ tried[k] \in Good
        /\ DuckGoes(k, "callback")
    BY <1>4 DEF AnswerOK, DuckAccepts
  <2>2. /\ at'[k] = "callback" /\ tried'[k] = tried[k]
        /\ \A j \in Task : j # k => at'[j] = at[j] /\ tried'[j] = tried[j]
        /\ \A j \in Poster : j # k => content'[j] = content[j]
        /\ \A j \in Poster : input'[j] = input[j]
    BY <2>1, DuckMoves
  <2>3. Answers'
    <3>1. k \in Poster /\ k \notin crossed => tried[k] = Cleaned(input[k][1])
      BY <2>1 DEF Answers
    <3> QED
      BY <2>1, <2>2, <3>1, AnswersStep DEF DuckTypeOK
  <2> QED
    BY <2>1, <2>2, <2>3, StepAside
<1>5. ASSUME NEW k \in Task, AnswerFailed(k) PROVE Trusting'
  <2>1. UNCHANGED <<conf, file, stale, mixed, host, crossed, trusted>> /\ at[k] = "sent"
    BY <1>5 DEF AnswerFailed
  <2>2. PICK place \in {"call", "idle"} : DuckGoes(k, place)
    BY <1>5 DEF AnswerFailed, Continues
  <2>3. /\ at'[k] = place
        /\ \A j \in Task : j # k => at'[j] = at[j] /\ tried'[j] = tried[j]
        /\ \A j \in Poster : j # k => input'[j] = input[j] /\ content'[j] = content[j]
    BY <2>2, DuckMoves
  <2>4. Answers'
    BY <2>1, <2>3, AnswersStep DEF DuckTypeOK
  <2> QED
    BY <2>1, <2>3, <2>4, StepAside
<1>6. ASSUME NEW k \in Loop, Callback(k) PROVE Trusting'
  <2>1. /\ UNCHANGED <<conf, file, stale, mixed, crossed, trusted>> /\ at[k] = "callback"
        /\ host' = FullName[tried[k][1]] /\ DuckGoes(k, "call")
    BY <1>6 DEF Callback, Continues
  <2>2. From(host', trusted')
    BY <2>1, FromFacts DEF Answers
  <2>3. /\ at'[k] = "call"
        /\ \A j \in Task : j # k => at'[j] = at[j] /\ tried'[j] = tried[j]
        /\ \A j \in Poster : input'[j] = input[j] /\ content'[j] = content[j]
    BY <2>1, DuckMoves
  <2>4. Answers'
    BY <2>1, <2>3, AnswersStep DEF DuckTypeOK
  <2> QED
    BY <2>1, <2>2, <2>3, <2>4, StepAside
<1>7. ASSUME NEW k \in Poster, StartBackgroundSync(k) PROVE Trusting'
  <2>1. /\ UNCHANGED <<conf, file, stale, mixed, host, crossed, trusted, tried, content>>
        /\ at[k] = "written"
        /\ input' = [input EXCEPT ![k] = <<Blank, "duckdns">>]
    BY <1>7 DEF StartBackgroundSync
  <2>2. /\ at'[k] = "idle"
        /\ \A j \in Poster : j # k => at'[j] = at[j] /\ input'[j] = input[j]
        /\ \A j \in Task : at'[j] # at[j] => at'[j] \in {"call", "idle"}
    <3>1. CASE Complete(cred) /\ \E l \in Loop : at[l] = "off"
      <4>1. NewLoop \in Loop /\ at[NewLoop] = "off"
        BY <3>1 DEF NewLoop
      <4>2. at' = [at EXCEPT ![NewLoop] = "call", ![k] = "idle"]
        BY <1>7, <3>1 DEF StartBackgroundSync
      <4> QED
        BY <2>1, <4>1, <4>2 DEF DuckTypeOK
    <3>2. CASE ~(Complete(cred) /\ \E l \in Loop : at[l] = "off")
      BY <1>7, <2>1, <3>2 DEF StartBackgroundSync, DuckTypeOK
    <3> QED
      BY <3>1, <3>2
  <2>3. Answers'
    <3>1. \A j \in Task : at'[j] \in {"sent", "callback"} => at'[j] = at[j]
      BY <2>2
    <3>2. \A j \in Task : at'[j] = "callback" => tried'[j] \in trusted'
      BY <2>1, <3>1 DEF Answers
    <3>3. ASSUME NEW j \in Poster \ crossed', at'[j] \in {"sent", "callback"}
          PROVE  tried'[j] = Cleaned(input'[j][1])
      <4>1. j # k /\ j \notin crossed /\ at[j] \in {"sent", "callback"} /\ input'[j] = input[j]
        BY <2>1, <2>2, <3>1, <3>3
      <4>2. tried[j] = Cleaned(input[j][1])
        BY <4>1 DEF Answers
      <4> QED
        BY <2>1, <4>1, <4>2
    <3> QED
      BY <3>2, <3>3 DEF Answers, Cleaned
  <2> QED
    BY <2>1, <2>2, <2>3, StepAside
<1>8. ASSUME NEW k \in Poster, NEW c \in Cred, PostDuck(k, c) PROVE Trusting'
  <2>1. /\ UNCHANGED <<conf, file, stale, mixed, host, crossed, trusted, tried, content>>
        /\ at[k] = "off" /\ at' = [at EXCEPT ![k] = "call"]
        /\ input' = [input EXCEPT ![k] = <<c, "duckdns">>]
    BY <1>8 DEF PostDuck, Arrives
  <2>2. /\ at'[k] = "call" /\ \A j \in Task : j # k => at'[j] = at[j]
        /\ \A j \in Poster : j # k => input'[j] = input[j]
    BY <2>1 DEF DuckTypeOK
  <2>3. Answers'
    BY <2>1, <2>2, AnswersStep DEF DuckTypeOK
  <2> QED
    BY <2>1, <2>2, <2>3, StepAside
<1> QED
  BY <1>1, <1>2, <1>3, <1>4, <1>5, <1>6, <1>7, <1>8

\* A handler begins to assign: after its update went well, or untested.
LEMMA EnterStep ==
  ASSUME DuckTypeOK, Trusting, NEW k \in Poster,
         Enters(k, crossed), at[k] \notin Assigning,
         UNCHANGED <<conf, file, stale, trusted>>,
         host' = host \/ From(host', trusted),
         at' \in [Task -> DuckPlace], at'[k] \in {"domain", "token"},
         at'[k] = "token" => IsConfig(k)',
         \A j \in Task : j # k => at'[j] = at[j] /\ tried'[j] = tried[j],
         \A j \in Poster : j # k => input'[j] = input[j] /\ content'[j] = content[j],
         k \notin crossed /\ ~IsConfig(k)' => Cleaned(input'[k][1]) \in trusted
  PROVE  Trusting'
<1>p. Poster \subseteq Task
  BY DEF Task
<1>e. /\ crossed \subseteq crossed' /\ (mixed => mixed') /\ (k \in crossed' => mixed')
      /\ \A j \in Poster : j # k /\ at[j] \in Assigning => j \in crossed' /\ k \in crossed'
  BY EntersTyped
<1>s. {"domain", "token"} \subseteq Assigning
  BY DEF Assigning
<1> USE <1>p, <1>s DEF Trusting
<1>1. Crossing'
  <2>1. ASSUME NEW j \in Poster, NEW i \in Poster, j # i,
               at'[j] \in Assigning, at'[i] \in Assigning
        PROVE  j \in crossed'
    BY <1>e, <2>1 DEF Crossing
  <2>2. ASSUME NEW j \in Poster, at'[j] \in Assigning, j \in crossed' PROVE mixed'
    <3>1. CASE j = k
      BY <1>e, <2>2, <3>1
    <3>2. CASE j # k
      BY <1>e, <2>2, <3>2 DEF Crossing
    <3> QED
      BY <3>1, <3>2
  <2> QED
    BY <2>1, <2>2 DEF Crossing
<1>2. Answers'
  BY <1>e, AnswersStep
<1>3. CutOff'
  BY DEF CutOff
<1>4. ASSUME NEW j \in Poster \ crossed', ~IsConfig(j)' PROVE Own(j)'
  <2>1. CASE j = k
    <3>1. at'[k] = "domain" /\ Cleaned(input'[k][1]) \in trusted'
      BY <1>e, <1>4, <2>1
    <3> QED
      BY <2>1, <3>1 DEF Own, Cleaned
  <2>2. CASE j # k
    <3>1. at'[j] \notin Assigning
      BY <1>e, <1>4, <2>2
    <3> QED
      BY <3>1 DEF Own, Assigning
  <2> QED
    BY <2>1, <2>2
<1>5. ASSUME ~mixed' PROVE Pure'
  <2>1. Pure /\ \A j \in Poster : j # k => at'[j] \notin Assigning
    BY <1>e, <1>5
  <2>2. \A j \in Poster : at[j] \notin Assigning
    BY <2>1
  <2>3. From(host, trusted)' /\ FileKept'
    BY <2>1 DEF Pure, FileKept
  <2>4. ConfKept'
    BY <2>1, <2>2 DEF Pure, ConfKept, ConfTrusted, Assigning
  <2>5. \A j \in Poster : at'[j] \notin {"host", "save", "writing"}
    BY <2>1 DEF Assigning
  <2>6. ~Settled'
    BY DEF Settled
  <2> QED
    BY <2>3, <2>4, <2>5, <2>6 DEF Pure
<1> QED
  BY <1>1, <1>2, <1>3, <1>4, <1>5 DEF Owned

\* What one that assigns may do: it moves alone, the others stay as they are, and
\* if it is not crossed none of them assigns.
LEMMA AssignStep ==
  ASSUME DuckTypeOK, Trusting, NEW k \in Poster, at[k] \in Assigning,
         trusted \subseteq trusted', UNCHANGED <<crossed, mixed>>, CutOff',
         at' \in [Task -> DuckPlace], at'[k] \notin {"sent", "callback"},
         \A j \in Task : j # k => at'[j] = at[j] /\ tried'[j] = tried[j],
         \A j \in Poster : j # k => input'[j] = input[j] /\ content'[j] = content[j],
         k \notin crossed =>
           /\ ~IsConfig(k)' => Own(k)'
           /\ (\A j \in Poster : j # k => at'[j] \notin Assigning) /\ ~mixed' => Pure'
  PROVE  Trusting'
<1>p. Poster \subseteq Task
  BY DEF Task
<1> USE <1>p DEF Trusting
<1>0. k \notin crossed => \A j \in Poster : j # k => at[j] \notin Assigning
  BY DEF Crossing
<1>1. Crossing'
  <2>1. \A j, i \in Poster :
          j # i /\ at'[j] \in Assigning /\ at'[i] \in Assigning => j \in crossed'
    BY DEF Crossing
  <2>2. ASSUME NEW j \in Poster, at'[j] \in Assigning, j \in crossed' PROVE mixed'
    <3>1. at[j] \in Assigning
      BY <2>2
    <3> QED
      BY <2>2, <3>1 DEF Crossing
  <2> QED
    BY <2>1, <2>2 DEF Crossing
<1>2. Answers'
  BY AnswersStep
<1>3. ASSUME NEW j \in Poster \ crossed', ~IsConfig(j)' PROVE Own(j)'
  <2>1. CASE j = k
    BY <1>3, <2>1
  <2>2. CASE j # k
    <3>1. at'[j] \notin Assigning
      BY <1>3, <2>2 DEF Crossing
    <3> QED
      BY <3>1 DEF Own, Assigning
  <2> QED
    BY <2>1, <2>2
<1>4. ASSUME ~mixed' PROVE Pure'
  <2>1. k \notin crossed
    BY <1>4 DEF Crossing
  <2>2. \A j \in Poster : j # k => at'[j] \notin Assigning
    BY <1>0, <2>1
  <2> QED
    BY <1>4, <2>1, <2>2
<1> QED
  BY <1>1, <1>2, <1>3, <1>4 DEF Owned

\* What one that assigns finds while none assigns beside it.
LEMMA AloneHas ==
  ASSUME DuckTypeOK, Trusting, NEW k \in Poster, k \notin crossed, at[k] \in Assigning
  PROVE  /\ ~IsConfig(k) => Own(k)
         /\ ~mixed => Pure
         /\ \A j \in Poster : j # k => at[j] \notin Assigning
         /\ IsConfig(k) /\ at[k] = "token" /\ ~mixed => ConfKept
BY DEF Trusting, Owned, Crossing, Pure, Assigning

LEMMA SetDomainStep ==
  ASSUME DuckTypeOK, DuckTypeOK', Trusting, NEW k \in Poster, SetDomain(k)
  PROVE  Trusting'
<1>p. /\ Poster \subseteq Task
      /\ {"domain", "token", "host"} \subseteq Assigning
      /\ {"domain", "token", "host"} \subseteq DuckPlace
  BY DEF Task, Assigning, DuckPlace
<1>1. /\ at[k] = "domain" /\ UNCHANGED <<host, file, stale, crossed, mixed>>
      /\ conf' = <<Assigned(k)[1], conf[2]>>
      /\ trusted' = IF IsConfig(k) THEN trusted \cup {Cleaned(conf')} ELSE trusted
      /\ DuckGoes(k, IF IsConfig(k) THEN "host" ELSE "token")
  BY DEF SetDomain, Assigns
<1>2. /\ at'[k] = IF IsConfig(k) THEN "host" ELSE "token"
      /\ at' \in [Task -> DuckPlace]
      /\ \A j \in Task : j # k => at'[j] = at[j] /\ tried'[j] = tried[j]
      /\ \A j \in Poster : j # k => input'[j] = input[j] /\ content'[j] = content[j]
      /\ input'[k] = input[k]
  BY <1>p, <1>1, DuckMoves
<1>3. ASSUME k \notin crossed, ~IsConfig(k)' PROVE Own(k)'
  <2>1. ~IsConfig(k) /\ Own(k) /\ conf'[1] = input[k][1][1] /\ at'[k] = "token"
    BY <1>p, <1>1, <1>2, <1>3, AloneHas DEF IsConfig, Assigned
  <2> QED
    BY <1>p, <1>1, <1>2, <2>1 DEF Own, Cleaned
<1>4. ASSUME k \notin crossed, \A j \in Poster : j # k => at'[j] \notin Assigning, ~mixed'
      PROVE  Pure'
  <2>1. Pure
    BY <1>p, <1>1, <1>4, AloneHas
  <2>2. From(host, trusted)' /\ FileKept'
    BY <1>1, <2>1, FromFacts DEF Pure, FileKept, Cleaned
  <2>3. CASE IsConfig(k)
    <3>1. ConfTrusted'
      BY <1>1, <2>3 DEF ConfTrusted, Cleaned
    <3>2. \A j \in Poster : at'[j] # "writing" /\ ~Settled'
      BY <1>p, <1>2, <1>4, <2>3 DEF Settled, Assigning
    <3> QED
      BY <2>2, <3>1, <3>2 DEF Pure, ConfKept
  <2>4. CASE ~IsConfig(k)
    <3>1. at'[k] = "token" /\ ~IsConfig(k)'
      BY <1>2, <2>4 DEF IsConfig
    <3>2. \A j \in Poster : at'[j] \notin {"host", "save", "writing"} /\ ~Settled'
      BY <1>p, <1>4, <3>1 DEF Settled, Assigning
    <3> QED
      BY <2>2, <3>1, <3>2 DEF Pure
  <2> QED
    BY <2>3, <2>4
<1>5. CutOff'
  BY <1>1 DEF Trusting, CutOff
<1> QED
  BY <1>p, <1>1, <1>2, <1>3, <1>4, <1>5, AssignStep

LEMMA SetTokenStep ==
  ASSUME DuckTypeOK, DuckTypeOK', Trusting, NEW k \in Poster, SetToken(k)
  PROVE  Trusting'
<1>p. /\ Poster \subseteq Task
      /\ {"token", "host", "save"} \subseteq Assigning
      /\ {"token", "host", "save"} \subseteq DuckPlace
  BY DEF Task, Assigning, DuckPlace
<1>1. /\ at[k] = "token" /\ UNCHANGED <<host, file, stale, crossed, mixed>>
      /\ conf' = <<conf[1], IF IsConfig(k) /\ input[k][1][2] = None THEN conf[2]
                            ELSE Assigned(k)[2]>>
      /\ trusted' = IF IsConfig(k) THEN trusted \cup {Cleaned(conf')} ELSE trusted
      /\ DuckGoes(k, IF IsConfig(k) THEN "save" ELSE "host")
  BY DEF SetToken, Assigns
<1>2. /\ at'[k] = IF IsConfig(k) THEN "save" ELSE "host"
      /\ at' \in [Task -> DuckPlace]
      /\ \A j \in Task : j # k => at'[j] = at[j] /\ tried'[j] = tried[j]
      /\ \A j \in Poster : j # k => input'[j] = input[j] /\ content'[j] = content[j]
      /\ input'[k] = input[k]
  BY <1>p, <1>1, DuckMoves
<1>0. ASSUME k \notin crossed, ~IsConfig(k)
      PROVE  Own(k) /\ conf' = input[k][1] /\ Cleaned(conf') \in trusted
  <2>1. Own(k) /\ conf[1] = input[k][1][1] /\ Cleaned(input[k][1]) \in trusted
    BY <1>p, <1>0, <1>1, AloneHas DEF Own
  <2>2. input[k][1] \in Cred
    BY DEF DuckTypeOK
  <2>3. conf' = input[k][1]
    BY <1>0, <1>1, <2>1, <2>2, DuckRanges DEF Assigned
  <2> QED
    BY <2>1, <2>3
<1>3. ASSUME k \notin crossed, ~IsConfig(k)' PROVE Own(k)'
  <2>1. ~IsConfig(k) /\ at'[k] = "host"
    BY <1>2, <1>3 DEF IsConfig
  <2> QED
    BY <1>0, <1>1, <1>2, <1>3, <2>1 DEF Own, Cleaned
<1>4. ASSUME k \notin crossed, \A j \in Poster : j # k => at'[j] \notin Assigning, ~mixed'
      PROVE  Pure'
  <2>1. Pure
    BY <1>p, <1>1, <1>4, AloneHas
  <2>2. From(host, trusted)' /\ FileKept'
    BY <1>1, <2>1, FromFacts DEF Pure, FileKept, Cleaned
  <2>3. ConfTrusted'
    BY <1>0, <1>1, <1>4 DEF ConfTrusted, Cleaned
  <2>4. \A j \in Poster : at'[j] # "writing" /\ ~Settled'
    BY <1>p, <1>2, <1>4 DEF Settled, Assigning
  <2> QED
    BY <2>2, <2>3, <2>4 DEF Pure, ConfKept
<1>5. CutOff'
  BY <1>1 DEF Trusting, CutOff
<1> QED
  BY <1>p, <1>1, <1>2, <1>3, <1>4, <1>5, AssignStep

LEMMA SetPublicIPStep ==
  ASSUME DuckTypeOK, DuckTypeOK', Trusting, NEW k \in Poster, SetPublicIP(k)
  PROVE  Trusting'
<1>p. /\ Poster \subseteq Task
      /\ {"token", "host", "save"} \subseteq Assigning
      /\ {"token", "host", "save"} \subseteq DuckPlace
  BY DEF Task, Assigning, DuckPlace
<1>1. /\ at[k] = "host" /\ UNCHANGED <<conf, file, trusted, stale, crossed, mixed>>
      /\ host' = FullName[IF IsConfig(k) THEN conf[1] ELSE input[k][1][1]]
      /\ DuckGoes(k, IF IsConfig(k) THEN "token" ELSE "save")
  BY DEF SetPublicIP, duckHist
<1>2. /\ at'[k] = IF IsConfig(k) THEN "token" ELSE "save"
      /\ at' \in [Task -> DuckPlace]
      /\ \A j \in Task : j # k => at'[j] = at[j] /\ tried'[j] = tried[j]
      /\ \A j \in Poster : j # k => input'[j] = input[j] /\ content'[j] = content[j]
      /\ input'[k] = input[k]
  BY <1>p, <1>1, DuckMoves
<1>t. input[k][1] \in Cred /\ conf \in Cred
  BY DEF DuckTypeOK
<1>3. ASSUME k \notin crossed, ~IsConfig(k)' PROVE Own(k)'
  <2>1. ~IsConfig(k) /\ Own(k) /\ at'[k] = "save"
    BY <1>p, <1>1, <1>2, <1>3, AloneHas DEF IsConfig
  <2>2. From(host', trusted)
    BY <1>1, <1>p, <1>t, <2>1, FromFacts DEF Own
  <2> QED
    BY <1>1, <1>2, <2>1, <2>2 DEF Own, Assigning
<1>4. ASSUME k \notin crossed, \A j \in Poster : j # k => at'[j] \notin Assigning, ~mixed'
      PROVE  Pure'
  <2>1. Pure /\ (~IsConfig(k) => Own(k))
    BY <1>p, <1>1, <1>4, AloneHas
  <2>2. ConfTrusted
    BY <1>1, <1>p, <2>1 DEF Pure, Own, ConfTrusted
  <2>3. From(host', trusted)
    <3>1. CASE IsConfig(k)
      BY <1>1, <1>t, <2>2, <3>1, FromFacts DEF ConfTrusted
    <3>2. CASE ~IsConfig(k)
      BY <1>1, <1>p, <1>t, <2>1, <3>2, FromFacts DEF Own
    <3> QED
      BY <3>1, <3>2
  <2>4. FileKept' /\ ConfTrusted'
    BY <1>1, <2>1, <2>2 DEF Pure, FileKept, ConfTrusted
  <2>5. \A j \in Poster : at'[j] # "writing" /\ ~Settled'
    BY <1>p, <1>2, <1>4 DEF Settled, Assigning
  <2> QED
    BY <1>1, <2>3, <2>4, <2>5 DEF Pure, ConfKept
<1>5. CutOff'
  BY <1>1 DEF Trusting, CutOff
<1> QED
  BY <1>p, <1>1, <1>2, <1>3, <1>4, <1>5, AssignStep

LEMMA SaveFormatsStep ==
  ASSUME DuckTypeOK, DuckTypeOK', Trusting, NEW k \in Poster, SaveFormats(k)
  PROVE  Trusting'
<1>p. Poster \subseteq Task /\ {"save", "writing"} \subseteq Assigning
  BY DEF Task, Assigning
<1>1. /\ at[k] = "save" /\ UNCHANGED <<conf, host, tried, input, trusted, crossed, mixed>>
      /\ file' = Empty /\ stale' = "cut"
      /\ content' = [content EXCEPT ![k] = [host |-> host, cred |-> conf]]
      /\ at' = [at EXCEPT ![k] = "writing"]
  BY DEF SaveFormats, Formatted
<1>2. /\ at'[k] = "writing" /\ at' \in [Task -> DuckPlace]
      /\ \A j \in Task : j # k => at'[j] = at[j]
      /\ \A j \in Poster : j # k => content'[j] = content[j]
      /\ content'[k].host = host /\ content'[k].cred = conf
  BY <1>p, <1>1 DEF DuckTypeOK
<1>3. ASSUME k \notin crossed, ~IsConfig(k)' PROVE Own(k)'
  <2>1. Own(k)
    BY <1>p, <1>1, <1>3, AloneHas DEF IsConfig
  <2> QED
    BY <1>p, <1>1, <1>2, <2>1 DEF Own
<1>4. ASSUME k \notin crossed, \A j \in Poster : j # k => at'[j] \notin Assigning, ~mixed'
      PROVE  Pure'
  <2>1. Pure /\ (~IsConfig(k) => Own(k))
    BY <1>p, <1>1, <1>4, AloneHas
  <2>2. ConfTrusted' /\ From(host', trusted')
    BY <1>1, <1>p, <2>1 DEF Pure, Own, ConfTrusted
  <2>3. FileKept'
    BY <1>1 DEF FileKept, Empty
  <2>4. \A j \in Poster : at'[j] = "writing" => Writing(j)'
    <3>1. \A j \in Poster : at'[j] = "writing" => j = k
      BY <1>p, <1>4
    <3>2. Writing(k)'
      BY <1>1, <1>2, <2>2 DEF Writing
    <3> QED
      BY <3>1, <3>2
  <2>5. ~Settled'
    BY <1>p, <1>2 DEF Settled
  <2> QED
    BY <2>2, <2>3, <2>4, <2>5 DEF Pure, ConfKept
<1>5. CutOff'
  BY <1>1 DEF CutOff
<1> QED
  BY <1>p, <1>1, <1>2, <1>3, <1>4, <1>5, AssignStep

LEMMA SaveWritesStep ==
  ASSUME DuckTypeOK, DuckTypeOK', Trusting, NEW k \in Poster, SaveWrites(k)
  PROVE  Trusting'
<1>p. /\ Poster \subseteq Task /\ {"writing"} \subseteq Assigning
      /\ {"idle", "written"} \cap Assigning = {} /\ {"idle", "written"} \subseteq DuckPlace
  BY DEF Task, Assigning, DuckPlace
<1>1. /\ at[k] = "writing" /\ UNCHANGED <<conf, host, trusted, crossed>>
      /\ file' = content[k] /\ stale' = "no"
      /\ mixed' = (mixed /\ (IsConfig(k) \/ k \in crossed))
  BY DEF SaveWrites
<1>2. PICK place \in {"idle", "written"} : DuckGoes(k, place)
  BY DEF SaveWrites, AfterSave
<1>3. /\ at'[k] = place /\ at' \in [Task -> DuckPlace]
      /\ \A j \in Task : j # k => at'[j] = at[j] /\ tried'[j] = tried[j]
      /\ \A j \in Poster : j # k => input'[j] = input[j] /\ content'[j] = content[j]
  BY <1>p, <1>2, DuckMoves
<1>4. Own(k)'
  BY <1>p, <1>3 DEF Own, Assigning
<1>5. ASSUME k \notin crossed, \A j \in Poster : j # k => at'[j] \notin Assigning, ~mixed'
      PROVE  Pure'
  <2>1. /\ (~mixed => Pure) /\ (~IsConfig(k) => Own(k)) /\ (IsConfig(k) => ~mixed)
    BY <1>p, <1>1, <1>5, AloneHas
  <2>2. /\ Cleaned(conf) \in trusted /\ content[k].cred = conf
        /\ From(content[k].host, trusted) /\ From(host, trusted)
    BY <1>1, <1>p, <2>1 DEF Pure, Own, ConfTrusted, Writing
  <2>3. FileKept' /\ ConfTrusted' /\ From(host, trusted)'
    BY <1>1, <2>2 DEF FileKept, ConfTrusted, Cleaned
  <2>4. Trimmed(file.cred)' = Trimmed(conf)'
    BY <1>1, <2>2 DEF Trimmed
  <2>5. \A j \in Poster : at'[j] \notin Assigning
    BY <1>p, <1>3, <1>5
  <2> QED
    BY <2>3, <2>4, <2>5 DEF Pure, ConfKept, Assigning
<1>6. ASSUME k \in crossed PROVE Trusting'
  <2>1. mixed' = mixed /\ mixed
    BY <1>1, <1>6, <1>p DEF Trusting, Crossing, DuckTypeOK
  <2>2. CutOff'
    BY <1>1 DEF CutOff
  <2>3. Crossing'
    BY <1>p, <1>1, <1>3, <2>1 DEF Trusting, Crossing
  <2>4. Answers'
    BY <1>p, <1>1, <1>3, AnswersStep DEF Trusting
  <2>5. Owned'
    <3>1. ASSUME NEW j \in Poster \ crossed' PROVE at'[j] \notin Assigning
      <4>1. j # k /\ j \notin crossed
        BY <1>1, <1>6, <3>1
      <4> QED
        BY <1>p, <1>1, <1>3, <4>1 DEF Trusting, Crossing
    <3> QED
      BY <3>1 DEF Owned, Own, Assigning
  <2> QED
    BY <2>1, <2>2, <2>3, <2>4, <2>5 DEF Trusting
<1>7. ASSUME k \notin crossed PROVE Trusting'
  <2>1. \A j \in Poster : at'[j] \notin Assigning
    BY <1>p, <1>1, <1>3, <1>7, AloneHas
  <2>2. Crossing' /\ CutOff' /\ Owned'
    BY <1>1, <2>1 DEF Crossing, CutOff, Owned, Own, Assigning
  <2>3. Answers'
    BY <1>p, <1>1, <1>3, AnswersStep DEF Trusting
  <2> QED
    BY <1>5, <1>7, <2>1, <2>2, <2>3 DEF Trusting
<1> QED
  BY <1>6, <1>7

LEMMA SaveFailsStep ==
  ASSUME DuckTypeOK, DuckTypeOK', Trusting, NEW k \in Poster, SaveFails(k)
  PROVE  Trusting'
<1>p. /\ Poster \subseteq Task /\ {"save", "writing"} \subseteq Assigning
      /\ {"idle", "written"} \cap Assigning = {} /\ {"idle", "written"} \subseteq DuckPlace
  BY DEF Task, Assigning, DuckPlace
<1>1. /\ UNCHANGED <<conf, host, file, trusted, crossed, mixed>>
      /\ \/ at[k] = "save" /\ stale' = IF stale = "cut" THEN "cut" ELSE "old"
         \/ at[k] = "writing" /\ stale' = stale
  BY DEF SaveFails, config
<1>2. PICK place \in {"idle", "written"} : DuckGoes(k, place)
  BY DEF SaveFails, AfterSave
<1>3. /\ at'[k] = place /\ at' \in [Task -> DuckPlace]
      /\ \A j \in Task : j # k => at'[j] = at[j] /\ tried'[j] = tried[j]
      /\ \A j \in Poster : j # k => input'[j] = input[j] /\ content'[j] = content[j]
  BY <1>p, <1>2, DuckMoves
<1>4. Own(k)'
  BY <1>p, <1>3 DEF Own, Assigning
<1>5. ASSUME k \notin crossed, \A j \in Poster : j # k => at'[j] \notin Assigning, ~mixed'
      PROVE  Pure'
  <2>1. Pure /\ (~IsConfig(k) => Own(k))
    BY <1>p, <1>1, <1>5, AloneHas
  <2>2. Cleaned(conf) \in trusted
    BY <1>1, <1>p, <2>1 DEF Pure, Own, ConfTrusted
  <2>3. FileKept' /\ ConfTrusted' /\ From(host, trusted)'
    BY <1>1, <2>1, <2>2 DEF Pure, FileKept, ConfTrusted, Cleaned
  <2>4. stale' # "no"
    BY <1>1, <2>1 DEF Pure, Writing
  <2>5. \A j \in Poster : at'[j] \notin Assigning
    BY <1>p, <1>3, <1>5
  <2> QED
    BY <2>3, <2>4, <2>5 DEF Pure, ConfKept, Assigning
<1>6. CutOff'
  BY <1>1 DEF Trusting, CutOff
<1> QED
  BY <1>p, <1>1, <1>3, <1>4, <1>5, <1>6, AssignStep

LEMMA DuckRestartStep ==
  ASSUME DuckTypeOK, DuckTypeOK', Trusting, Restart
  PROVE  Trusting'
<1>p. Poster \subseteq Task /\ {"off", "call", "idle"} \cap Assigning = {}
  BY DEF Task, Assigning
<1>1. /\ conf' = Trimmed(file.cred) /\ host' = HostAtStart(file)
      /\ UNCHANGED <<file, trusted, mixed>> /\ crossed' = {}
      /\ stale' = IF stale = "cut" THEN "cut" ELSE "no"
  BY DEF Restart
<1>2. \A k \in Task : at'[k] \in {"off", "call", "idle"}
  BY DEF Restart, LoopsOf, Task
<1>3. Crossing' /\ Answers' /\ Owned'
  BY <1>p, <1>2 DEF Crossing, Answers, Owned, Own, Assigning
<1>4. CutOff'
  BY <1>1 DEF Trusting, CutOff
<1>5. ASSUME ~mixed' PROVE Pure'
  <2>1. FileKept /\ CutOff /\ file \in Content /\ file.cred \in Cred
    BY <1>1, <1>5, DuckRanges DEF Trusting, Pure, DuckTypeOK
  <2>2. From(host', trusted')
    BY <1>1, <2>1, FromFacts DEF FileKept, CutOff
  <2>3. Cleaned(conf') = Cleaned(file.cred) /\ Trimmed(conf') = Trimmed(file.cred)
    BY <1>1, <2>1, CleanedTwice
  <2>4. ConfKept'
    <3>1. CASE Cleaned(file.cred) \in trusted
      BY <1>1, <2>3, <3>1 DEF ConfKept, ConfTrusted, Cleaned
    <3>2. CASE stale = "cut"
      BY <1>1, <2>1, <2>3, <3>2, CleanedTwice DEF ConfKept, CutOff, Empty
    <3> QED
      BY <2>1, <3>1, <3>2 DEF FileKept
  <2>5. FileKept'
    BY <1>1, <2>1 DEF FileKept, Cleaned
  <2>6. \A k \in Poster : at'[k] \notin Assigning
    BY <1>p, <1>2
  <2>7. Trimmed(file.cred)' = Trimmed(conf)'
    BY <1>1, <2>3 DEF Trimmed
  <2> QED
    BY <2>2, <2>4, <2>5, <2>6, <2>7 DEF Pure, Assigning
<1> QED
  BY <1>3, <1>4, <1>5 DEF Trusting

LEMMA TrustingStep ==
  ASSUME DuckTypeOK, DuckTypeOK', Trusting, [DuckNext]_duckVars
  PROVE  Trusting'
<1>p. /\ Poster \subseteq Task /\ Task = Poster \cup Loop /\ Poster \cap Loop = {}
      /\ {"off", "callback"} \cap Assigning = {} /\ "domain" \in DuckPlace
  BY DuckAssumption DEF Task, Assigning, DuckPlace
<1>1. ASSUME NEW k \in Poster, Callback(k) PROVE Trusting'
  <2>1. /\ UNCHANGED <<conf, file, stale, trusted>> /\ at[k] = "callback"
        /\ host' = FullName[tried[k][1]] /\ DuckGoes(k, "domain") /\ Enters(k, crossed)
    BY <1>1, <1>p DEF Callback, Continues
  <2>2. /\ at'[k] = "domain" /\ at' \in [Task -> DuckPlace]
        /\ \A j \in Task : j # k => at'[j] = at[j] /\ tried'[j] = tried[j]
        /\ \A j \in Poster : j # k => input'[j] = input[j] /\ content'[j] = content[j]
        /\ input'[k] = input[k]
    <3>1. DuckGoes(k, "domain") /\ "domain" # "idle" /\ k \in Task
      BY <1>p, <2>1
    <3>2. at'[k] = "domain" /\ at' \in [Task -> DuckPlace]
      BY <1>p, <3>1, DuckMoves
    <3>3. \A j \in Task : j # k => at'[j] = at[j] /\ tried'[j] = tried[j]
      BY <1>p, <3>1, DuckMoves
    <3>4. \A j \in Poster : j # k => content'[j] = content[j]
      BY <1>p, <3>1, DuckMoves
    <3>5. \A j \in Poster : input'[j] = input[j]
      BY <1>p, <3>1, DuckMoves
    <3> QED
      BY <3>2, <3>3, <3>4, <3>5
  <2>3. From(host', trusted)
    BY <1>p, <2>1, FromFacts DEF Trusting, Answers
  <2>4. k \notin crossed => Cleaned(input'[k][1]) \in trusted
    BY <1>p, <2>1, <2>2 DEF Trusting, Answers
  <2> QED
    BY <1>p, <2>1, <2>2, <2>3, <2>4, EnterStep
<1>2. ASSUME NEW k \in Poster, NEW c \in Cred, PostConfig(k, c) PROVE Trusting'
  <2>1. /\ UNCHANGED <<conf, host, file, stale, trusted, tried, content>> /\ at[k] = "off"
        /\ at' = [at EXCEPT ![k] = IF c[1] # None THEN "domain" ELSE "token"]
        /\ input' = [input EXCEPT ![k] = <<c, "config">>] /\ Enters(k, crossed)
    BY <1>2 DEF PostConfig, Arrives, config
  <2>2. /\ at'[k] \in {"domain", "token"} /\ at' \in [Task -> DuckPlace] /\ IsConfig(k)'
        /\ \A j \in Task : j # k => at'[j] = at[j]
        /\ \A j \in Poster : j # k => input'[j] = input[j]
    BY <1>p, <2>1 DEF DuckTypeOK, IsConfig
  <2> QED
    BY <1>p, <2>1, <2>2, EnterStep
<1> QED
  BY <1>p, <1>1, <1>2, AsideStep, SetDomainStep, SetTokenStep, SetPublicIPStep,
     SaveFormatsStep, SaveWritesStep, SaveFailsStep, DuckRestartStep, DuckSteps

LEMMA DuckInitTrusting == DuckInit => DuckTypeOK /\ Trusting
<1> SUFFICES ASSUME DuckInit PROVE DuckTypeOK /\ Trusting
  OBVIOUS
<1>p. /\ Poster \subseteq Task /\ {"off", "call", "idle"} \cap Assigning = {}
      /\ {"off", "call", "idle"} \subseteq DuckPlace
  BY DEF Task, Assigning, DuckPlace, Updating
<1>0. file \in Content /\ file \in Starts /\ file.cred \in Cred
  BY DuckRanges DEF DuckInit
<1>1. at \in [Task -> DuckPlace] /\ \A k \in Task : at[k] \in {"off", "call", "idle"}
  BY <1>p DEF DuckInit, LoopsOf, Task
<1>2. DuckTypeOK
  <2>1. /\ cred \in Cred /\ conf \in Cred /\ host \in Name \cup {None} /\ trusted \subseteq Cred
        /\ status \in Status
    BY <1>0, DuckRanges DEF DuckInit
  <2>2. /\ tried \in [Task -> Cred] /\ content \in [Poster -> Content]
        /\ input \in [Poster -> Cred \X {"duckdns", "config"}]
    BY DuckRanges DEF DuckInit, NoRequest
  <2>3. /\ configs \in 0..MaxConfigs /\ restarts \in 0..MaxRestarts
        /\ stale \in {"no", "old", "cut"} /\ crossed \subseteq Poster
    BY DuckAssumption DEF DuckInit
  <2>4. mixed \in BOOLEAN
    BY DEF DuckInit
  <2>5. \A k \in Task : at[k] \in {"sent", "callback"} => Complete(tried[k])
    BY <1>1
  <2> QED
    BY <1>0, <1>1, <2>1, <2>2, <2>3, <2>4, <2>5 DEF DuckTypeOK
<1>3. Crossing /\ Answers /\ Owned /\ CutOff
  BY <1>p, <1>1 DEF DuckInit, Crossing, Answers, Owned, Own, CutOff, Assigning
<1>4. Cleaned(file.cred) \in trusted /\ trusted = {Cleaned(file.cred)}
  BY DEF DuckInit
<1>5. file.host = None \/ From(file.host, trusted)
  <2>1. From(FullName[Trim[file.cred[1]]], trusted)
    <3>1. /\ Trimmed(file.cred) \in Cred /\ Cleaned(Trimmed(file.cred)) \in trusted
          /\ Trimmed(file.cred)[1] = Trim[file.cred[1]]
      BY <1>0, <1>4, DuckRanges, CleanedTwice
    <3> QED
      BY <3>1, FromFacts
  <2>2. file.host \in {None, WanAddress, FullName[Trim[file.cred[1]]]}
    BY <1>0, DuckAssumption
  <2> QED
    BY <2>1, <2>2 DEF From
<1>6. From(host, trusted)
  <2>1. host = HostAtStart(file)
    BY DEF DuckInit
  <2> QED
    BY <1>0, <1>4, <1>5, <2>1, FromFacts
<1>7. Pure
  <2>1. conf = Trimmed(file.cred)
    BY DEF DuckInit
  <2>2. ConfTrusted /\ Trimmed(file.cred) = Trimmed(conf)
    BY <1>0, <1>4, <2>1, CleanedTwice DEF ConfTrusted
  <2> QED
    BY <1>p, <1>1, <1>4, <1>5, <1>6, <2>2 DEF Pure, FileKept, ConfKept, Assigning
<1> QED
  BY <1>2, <1>3, <1>7 DEF Trusting

\* Whatever the requests, their handlers, the loops and the Cloud Hub do at the
\* same time, through restarts at any step and saves that fail: when nobody
\* assigns, what is configured is trusted and is what the file says, and so is the
\* name, unless a handler was crossed and no other has saved since.
THEOREM AcceptedOnly == DuckSpec => []OnlyAccepted
<1> DEFINE Inv == DuckTypeOK /\ Trusting
<1>1. DuckInit => Inv
  BY DuckInitTrusting
<1>2. Inv /\ [DuckNext]_duckVars => Inv'
  BY DuckTyped, TrustingStep
<1>3. Inv => OnlyAccepted
  <2> SUFFICES ASSUME DuckTypeOK, Trusting PROVE OnlyAccepted
    OBVIOUS
  <2>1. ASSUME Settled, ~mixed PROVE Pure /\ ConfKept
    BY <2>1 DEF Trusting, Pure, Settled, Assigning
  <2>2. From(host, trusted) => Belongs(host)
    BY DEF From, Belongs
  <2> QED
    BY <2>1, <2>2 DEF OnlyAccepted, Pure, ConfKept, ConfTrusted
<1> QED
  BY <1>1, <1>2, <1>3, PTL DEF DuckSpec
=============================================================================
