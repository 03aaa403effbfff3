------------------------------ MODULE AdminAuth ------------------------------
(***************************************************************************)
(* The admin's logins and sessions (auth.go).  A login looks at the rate   *)
(* limit, compares the password, records the attempt and creates the       *)
(* session, each under the mutex and none together; logins from several    *)
(* addresses, logouts, a change of the password and the cleanup every ten  *)
(* minutes run concurrently.  A session token is random: it is never made  *)
(* twice.  The password is also compared where no login is made, nothing   *)
(* limited and nothing recorded (CompareElsewhere).  Time is counted in    *)
(* ticks, as what remains of what lasts.  The HTTP side, the rules for     *)
(* local addresses and the pages are left out.                             *)
(***************************************************************************)
EXTENDS Nothing, Naturals, FiniteSets

CONSTANTS
  Worker,       \* goroutines that handle logins
  Ip,           \* client addresses
  SessionToken, \* session tokens, as many as the instance makes
  Password,     \* passwords: candidates and the configured one
  First,        \* the password the server starts with
  NoPassword, DefaultAdmin, DefaultAlpine,  \* "", "admin", "alpine"
  MaxLoginFailures, Lockout, Duration, \* 5 failures, 5 minutes, 24 hours
  Changes       \* the password may be changed while the server runs

ASSUME AuthAssumption ==
  /\ {First, NoPassword, DefaultAdmin, DefaultAlpine} \subseteq Password
  /\ None \notin Password \cup Ip /\ IsFiniteSet(Worker)
  /\ MaxLoginFailures \in Nat \ {0} /\ Lockout \in Nat \ {0} /\ Duration \in Nat \ {0}
  /\ Changes \in BOOLEAN

VARIABLES
  adminPassword,
  phase, ip, cand, \* phase[k]: where worker k is, its client's address and candidate
  failures,     \* failures[a]: Failures of the attempts entry of a; 0 without one
  blocked,      \* blocked[a]: ticks until its BlockedUntil
  entry,        \* addresses with an attempts entry
  sessions,     \* tokens with a session
  made,         \* tokens that have been made
  left,         \* left[t]: ticks until the session of t ends
  by,           \* by[t]: history, the candidate the session was created for
  overtaken,    \* history, workers whose candidate was compared with an older password
  slipped,      \* slipped[a]: history, passwords logins compared for a in this lockout
  aside,        \* history, addresses in a lockout with a password compared elsewhere
  locked        \* locked[a]: history, ticks left of the lockout last announced to a

attemptVars == <<failures, blocked, entry>>
sessionVars == <<sessions, made, left, by, overtaken>>
authVars == <<adminPassword, phase, ip, cand, attemptVars, sessionVars, slipped, aside, locked>>

LoginPlace == {"idle", "limit", "validate", "failed", "accepted", "session"}

AuthTypeOK ==
  /\ adminPassword \in Password
  /\ phase \in [Worker -> LoginPlace]
  /\ ip \in [Worker -> Ip \cup {None}] /\ cand \in [Worker -> Password \cup {None}]
  /\ \A k \in Worker : phase[k] # "idle" => ip[k] \in Ip /\ cand[k] \in Password
  /\ failures \in [Ip -> 0..(MaxLoginFailures - 1)]
  /\ blocked \in [Ip -> 0..Lockout] /\ locked \in [Ip -> 0..Lockout]
  /\ entry \in SUBSET Ip
  /\ made \in SUBSET SessionToken /\ sessions \in SUBSET made
  /\ left \in [SessionToken -> 0..Duration]
  /\ by \in [SessionToken -> Password \cup {None}] /\ overtaken \in SUBSET Worker
  /\ slipped \in [Ip -> Nat] /\ aside \in SUBSET Ip

AuthInit ==
  /\ adminPassword = First
  /\ phase = [k \in Worker |-> "idle"]
  /\ ip = [k \in Worker |-> None] /\ cand = [k \in Worker |-> None]
  /\ failures = [a \in Ip |-> 0] /\ blocked = [a \in Ip |-> 0] /\ entry = {}
  /\ sessions = {} /\ made = {} /\ left = [t \in SessionToken |-> 0]
  /\ by = [t \in SessionToken |-> None]
  /\ overtaken = {}
  /\ slipped = [a \in Ip |-> 0] /\ locked = [a \in Ip |-> 0]
  /\ aside = {}

LoginGoes(k, place) == phase' = [phase EXCEPT ![k] = place]
Returns(k) ==
  /\ LoginGoes(k, "idle")
  /\ ip' = [ip EXCEPT ![k] = None] /\ cand' = [cand EXCEPT ![k] = None]

-----------------------------------------------------------------------------
(* HandleLogin *)

Login(k, a, c) ==
  /\ phase[k] = "idle"
  /\ LoginGoes(k, "limit")
  /\ ip' = [ip EXCEPT ![k] = a] /\ cand' = [cand EXCEPT ![k] = c]
  /\ UNCHANGED <<adminPassword, attemptVars, sessionVars, slipped, aside, locked>>

\* Answered with 429 as long as the address is locked out.
LockedOut_ByEntry(a) == blocked[a] > 0 /\ failures[a] > 0              \* mutant
LockedOut(a) == blocked[a] > 0
CheckRateLimit(k) ==
  /\ phase[k] = "limit"
  /\ IF LockedOut(ip[k]) THEN Returns(k) ELSE LoginGoes(k, "validate") /\ UNCHANGED <<ip, cand>>
  /\ UNCHANGED <<adminPassword, attemptVars, sessionVars, slipped, aside, locked>>

\* "admin" and "alpine" stand for each other; an empty password for "admin".
Accepts(p, c) ==
  LET expected == IF p = NoPassword THEN DefaultAdmin ELSE p IN
  c = expected \/ {c, expected} = {DefaultAdmin, DefaultAlpine}

ValidatePassword(k) ==
  /\ phase[k] = "validate"
  /\ LoginGoes(k, IF Accepts(adminPassword, cand[k]) THEN "accepted" ELSE "failed")
  /\ slipped' = [slipped EXCEPT ![ip[k]] = IF blocked[ip[k]] > 0 THEN @ + 1 ELSE @]
  /\ UNCHANGED <<adminPassword, ip, cand, attemptVars, sessionVars, aside, locked>>

\* The failure that locks out leaves the counter at zero.
CounterAfter(f) == IF f = MaxLoginFailures THEN 0 ELSE f
RecordFailedAttempt(k) ==
  LET a == ip[k]
      locks == failures[a] + 1 = MaxLoginFailures IN
  /\ phase[k] = "failed"
  /\ Returns(k)
  /\ entry' = entry \cup {a}
  /\ failures' = [failures EXCEPT ![a] = CounterAfter(@ + 1)]
  /\ blocked' = [blocked EXCEPT ![a] = IF locks THEN Lockout ELSE @]
  /\ locked' = [locked EXCEPT ![a] = IF locks THEN Lockout ELSE @]
  /\ UNCHANGED <<adminPassword, sessionVars, slipped, aside>>

\* RecordSuccessfulAttempt deletes the entry, with the lockout in it.
RecordSuccessfulAttempt(k) ==
  LET a == ip[k] IN
  /\ phase[k] = "accepted"
  /\ LoginGoes(k, "session")
  /\ entry' = entry \ {a}
  /\ failures' = [failures EXCEPT ![a] = 0] /\ blocked' = [blocked EXCEPT ![a] = 0]
  /\ slipped' = [slipped EXCEPT ![a] = 0] /\ aside' = aside \ {a}
  /\ UNCHANGED <<adminPassword, ip, cand, sessionVars, locked>>

\* CreateSession
CreateSession(k, t) ==
  /\ phase[k] = "session" /\ t \notin made
  /\ Returns(k)
  /\ made' = made \cup {t} /\ sessions' = sessions \cup {t}
  /\ left' = [left EXCEPT ![t] = Duration]
  /\ by' = [by EXCEPT ![t] = IF k \in overtaken THEN None ELSE cand[k]]
  /\ overtaken' = overtaken \ {k}
  /\ UNCHANGED <<adminPassword, attemptVars, slipped, aside, locked>>

-----------------------------------------------------------------------------
(* The rest *)

\* A password from address a is compared by IsAuthenticated (a bearer or a basic
\* password), by the Git server or by /api/wifi/configure, one comparison each:
\* no limit is asked, no attempt recorded and no session made.
CompareElsewhere(a) ==
  /\ aside' = IF blocked[a] > 0 THEN aside \cup {a} ELSE aside
  /\ UNCHANGED <<adminPassword, phase, ip, cand, attemptVars, sessionVars, slipped, locked>>

Logout(t) ==
  /\ t \in sessions
  /\ sessions' = sessions \ {t}
  /\ UNCHANGED <<adminPassword, phase, ip, cand, attemptVars, made, left, by, overtaken,
                 slipped, aside, locked>>

Kept_All == sessions                                                  \* mutant
Kept == {}
SetAdminPassword(p) ==
  /\ Changes /\ p # adminPassword
  /\ adminPassword' = p
  /\ sessions' = Kept
  /\ overtaken' = overtaken \cup {k \in Worker : phase[k] \in {"accepted", "session"}}
  /\ UNCHANGED <<phase, ip, cand, attemptVars, made, left, by, slipped, aside, locked>>

\* cleanupExpired
Old_Counted(a) == blocked[a] = 0 /\ failures[a] > 0                    \* mutant
Old(a) == blocked[a] = 0 /\ failures[a] = 0
CleanupExpired ==
  /\ sessions' = {t \in sessions : left[t] > 0}
  /\ entry' = {a \in entry : ~Old(a)}
  /\ failures' = [a \in Ip |-> IF a \in entry' THEN failures[a] ELSE 0]
  /\ UNCHANGED <<adminPassword, phase, ip, cand, blocked, made, left, by, overtaken, slipped,
                 aside, locked>>

\* A lockout that ends on its own forgets what slipped through it.
Less(n) == IF n = 0 THEN 0 ELSE n - 1
Tick ==
  /\ blocked' = [a \in Ip |-> Less(blocked[a])]
  /\ locked' = [a \in Ip |-> Less(locked[a])]
  /\ slipped' = [a \in Ip |-> IF blocked[a] > 1 THEN slipped[a] ELSE 0]
  /\ aside' = {a \in aside : blocked[a] > 1}
  /\ left' = [t \in SessionToken |-> Less(left[t])]
  /\ UNCHANGED <<adminPassword, phase, ip, cand, failures, entry, sessions, made, by,
                 overtaken>>

-----------------------------------------------------------------------------

LoginHandler(k) ==
  \/ CheckRateLimit(k) \/ ValidatePassword(k) \/ RecordFailedAttempt(k)
  \/ RecordSuccessfulAttempt(k) \/ (\E t \in SessionToken : CreateSession(k, t))
Clients ==
  \/ \E k \in Worker, a \in Ip, c \in Password : Login(k, a, c)
  \/ \E a \in Ip : CompareElsewhere(a)
  \/ \E t \in SessionToken : Logout(t)
  \/ \E p \in Password : SetAdminPassword(p)

AuthNext == (\E k \in Worker : LoginHandler(k)) \/ Clients \/ CleanupExpired \/ Tick

AuthSpec == AuthInit /\ [][AuthNext]_authVars

\* The cleanup's ticker and the clock do not stop, and handlers run to their end.
AuthFairSpec ==
  /\ AuthSpec /\ WF_authVars(CleanupExpired) /\ WF_authVars(Tick)
  /\ \A k \in Worker : WF_authVars(LoginHandler(k))

-----------------------------------------------------------------------------
(* Properties *)

\* "Invalidate all existing sessions on password change": no session was created
\* for a candidate that the password of now does not accept...
SessionsOfThePassword ==
  AuthTypeOK /\ \A t \in sessions : by[t] = None \/ Accepts(adminPassword, by[t])

\* ...but those of the logins that were between the comparison and the session
\* when the password was changed.
NoneOvertaken == \A t \in sessions : by[t] # None

\* The limit of HandleLogin holds under concurrency: in a lockout, logins compare
\* only the passwords of those that had passed the rate limit before it began, and
\* these are fewer than there are handlers.  It is a limit of logins alone...
LockoutTight ==
  \A a \in Ip : blocked[a] > 0 => slipped[a] < Cardinality(Worker)

\* ...for what is compared elsewhere goes on in a lockout, "Access temporarily
\* blocked" or not.
NoneAside == aside = {}

\* "Background routine to cleanup expired sessions and old lockout entries": a
\* session does not stay for good, nor does the entry of a lockout that is over,
\* unless the address has gone on failing.
ExpiredPurged ==
  /\ \A t \in SessionToken : (t \in sessions) ~> (t \notin sessions)
  /\ \A a \in Ip : (a \in entry) ~> (a \notin entry \/ failures[a] > 0)

\* "IP bloqueada durante": a lockout that has been announced lasts its time.
LockoutLasts == \A a \in Ip : locked[a] <= blocked[a]
=============================================================================
