------------------------------ MODULE Fediverse ------------------------------
(***************************************************************************)
(* How peers get an access token of the GoToSocial server that runs beside *)
(* this one (gotosocial_proxy.go): GET /mastodon-credentials and GET       *)
(* /fediverse/sso make an account by running gotosocial's command line and *)
(* then walk through its OAuth pages as the user.  The walk holds the      *)
(* manager's mutex from the first call to the last; what the SSO handler   *)
(* runs before it does not.  A step is one command or one request to       *)
(* GoToSocial.  The commands run only where gotosocial is installed and    *)
(* ENABLE_MASTODON is in the environment, not for the flag -mastodon       *)
(* alone.  The reverse proxy, the status page, the tokens of the signaling *)
(* server that /fediverse/sso asks for and the texts are left out.         *)
(***************************************************************************)
EXTENDS Nothing, Naturals

CONSTANTS
  Request,         \* handlers that may be under way at once
  User,            \* names the peers' ids are reduced to
  Primary,         \* "pingo", for whom a fixed token is at hand
  Host,            \* names and addresses the server may be known by
  Address,         \* those of them that are IP addresses
  FallbackKnown,   \* GoToSocial knows the application id the code falls back to
  MaxMishaps,      \* bound: commands and calls that fail, clients that leave
  MaxHostChanges   \* bound: changes of the public host

ASSUME FediverseAssumption ==
  /\ Address \subseteq Host /\ None \notin Host \cup User \cup Request
  /\ FallbackKnown \in BOOLEAN /\ MaxMishaps \in Nat /\ MaxHostChanges \in Nat

VARIABLES
  commands,    \* the command line is installed and ENABLE_MASTODON is set
  publicHost,  \* cfg.PublicIP
  account,     \* per user: the host of the e-mail address it was made with
  confirmed,   \* the users whose account is confirmed
  mutex,       \* who holds m.mu
  call,        \* the requests under way
  hurt,        \* history: requests one of whose calls failed or whose client left
  mishaps, changes

server == <<commands, account, confirmed>>
fedVars == <<publicHost, server, mutex, call, hurt, mishaps, changes>>

Inside == {"app", "create", "confirm", "signIn", "approve"}
Place == {"idle", "gate", "ssoCreate", "ssoConfirm", "lock"} \cup Inside
App == {"none", "own", "fallback"}

Call == [at : Place, user : User \cup {None}, host : Host \cup {None}, app : App,
         signedIn : BOOLEAN, gone : BOOLEAN]
Idle == [at |-> "idle", user |-> None, host |-> None, app |-> "none", signedIn |-> FALSE,
         gone |-> FALSE]

Holds(k) == call[k].at \in Inside
FedTypeOK ==
  /\ commands \in BOOLEAN /\ publicHost \in Host
  /\ account \in [User -> Host \cup {None}] /\ confirmed \subseteq User
  /\ mutex \in Request \cup {None} /\ call \in [Request -> Call] /\ hurt \subseteq Request
  /\ mishaps \in 0..MaxMishaps /\ changes \in 0..MaxHostChanges

\* GoToSocial keeps the accounts of earlier runs.
FedInit ==
  /\ commands \in BOOLEAN /\ publicHost \in Host
  /\ account \in [User -> Host \cup {None}]
  /\ confirmed \in SUBSET {u \in User : account[u] # None}
  /\ mutex = None /\ call = [k \in Request |-> Idle] /\ hurt = {}
  /\ mishaps = 0 /\ changes = 0

-----------------------------------------------------------------------------
(* The two handlers up to ensureUserToken *)

Accept(k, place, u, h) ==
  /\ call[k].at = "idle"
  /\ call' = [call EXCEPT ![k] = [Idle EXCEPT !.at = place, !.user = u, !.host = h]]
  /\ hurt' = hurt \ {k}
  /\ UNCHANGED <<publicHost, server, mutex, mishaps, changes>>

Credentials(k, u) == Accept(k, "lock", u, publicHost)
Sso(k, u) == Accept(k, "gate", u, None)

\* The signaling server is read under the same mutex; then it takes the peer's
\* token or refuses it.  A server known by an address takes the name the client
\* has called it by.
Free == mutex = None
IfCommands(place, after) == IF commands THEN place ELSE after
SsoHosts == IF publicHost \in Address THEN Host ELSE {publicHost}
Gate(k) ==
  /\ call[k].at = "gate" /\ Free
  /\ \/ \E h \in SsoHosts :
          call' = [call EXCEPT ![k].at = IfCommands("ssoCreate", "lock"), ![k].host = h]
     \/ call' = [call EXCEPT ![k] = Idle]
  /\ UNCHANGED <<publicHost, server, mutex, hurt, mishaps, changes>>

Goes(k, place) == call' = [call EXCEPT ![k].at = place]

\* A call fails because of what the caller sees coming (the client has left,
\* which cancels the request's context), or for no reason of its own.
Lost(k) ==
  \/ call[k].gone /\ UNCHANGED <<hurt, mishaps>>
  \/ /\ ~call[k].gone /\ mishaps < MaxMishaps
     /\ mishaps' = mishaps + 1 /\ hurt' = hurt \cup {k}
Made(k) == ~call[k].gone /\ UNCHANGED <<hurt, mishaps>>

\* "admin account create" refuses a name that is taken; what either command
\* answers is not looked at.
Create(k) ==
  /\ commands /\ call[k].at \in {"ssoCreate", "create"}
  /\ LET u == call[k].user IN
       \/ /\ Made(k)
          /\ account' = IF account[u] = None THEN [account EXCEPT ![u] = call[k].host]
                        ELSE account
       \/ Lost(k) /\ UNCHANGED account
  /\ Goes(k, IF call[k].at = "create" THEN "confirm" ELSE "ssoConfirm")
  /\ UNCHANGED <<publicHost, commands, confirmed, mutex, changes>>

ConfirmedBy_Maker(k) == IF account[call[k].user] = call[k].host /\ call[k].at = "ssoConfirm"
                        THEN {call[k].user} ELSE {}                       \* mutant
ConfirmedBy(k) == IF account[call[k].user] # None THEN {call[k].user} ELSE {}
Confirm(k) ==
  /\ commands /\ call[k].at \in {"ssoConfirm", "confirm"}
  /\ \/ Made(k) /\ confirmed' = confirmed \cup ConfirmedBy(k)
     \/ Lost(k) /\ UNCHANGED confirmed
  /\ Goes(k, IF call[k].at = "confirm" THEN "signIn" ELSE "lock")
  /\ UNCHANGED <<publicHost, commands, account, mutex, changes>>

-----------------------------------------------------------------------------
(* ensureUserToken *)

Available_Always(k) == call[k].at = "lock"                                 \* mutant
Available(k) == call[k].at = "lock" /\ Free
Lock(k) ==
  /\ Available(k)
  /\ mutex' = k
  /\ Goes(k, "app")
  /\ UNCHANGED <<publicHost, server, hurt, mishaps, changes>>

\* ensureOAuthApp registers the application once more, or falls back to one.
EnsureOAuthApp(k) ==
  /\ call[k].at = "app"
  /\ LET next == IfCommands("create", "signIn") IN
       \/ Made(k) /\ call' = [call EXCEPT ![k].at = next, ![k].app = "own"]
       \/ Lost(k) /\ call' = [call EXCEPT ![k].at = next, ![k].app = "fallback"]
  /\ UNCHANGED <<publicHost, server, mutex, changes>>

\* The handler answers, with a token or an error; the mutex is released.
Released_OnSuccess(ok) == IF ok THEN None ELSE mutex                       \* mutant
Released(ok) == None
Answer(k, ok) ==
  /\ mutex' = Released(ok)
  /\ call' = [call EXCEPT ![k] = Idle]
  /\ UNCHANGED <<publicHost, server, changes>>

\* The e-mail address is the user at the request's host, the password follows
\* from the name.  Without a match the session stays a stranger's.  The call
\* that opened the session a moment before is part of the step.
Matches(k) == account[call[k].user] = call[k].host /\ call[k].user \in confirmed
SignIn(k) ==
  /\ call[k].at = "signIn" /\ Made(k)
  /\ call' = [call EXCEPT ![k].at = "approve", ![k].signedIn = Matches(k)]
  /\ UNCHANGED <<publicHost, server, mutex, changes>>

\* A code only comes back for a user who is signed in and an application that
\* GoToSocial knows; the call that turns the code into a token is part of the step.
CodeReceived(k) == call[k].signedIn /\ (call[k].app = "own" \/ FallbackKnown)
Approve(k) ==
  /\ call[k].at = "approve" /\ Made(k) /\ CodeReceived(k)
  /\ Answer(k, TRUE)

ApproveWithoutCode(k) ==
  /\ call[k].at = "approve" /\ Made(k) /\ ~CodeReceived(k)
  /\ Answer(k, call[k].user = Primary)

\* No answer within five seconds, or the client has left.
CallFails(k) ==
  /\ call[k].at \in {"signIn", "approve"}
  /\ Lost(k) /\ Answer(k, FALSE)

-----------------------------------------------------------------------------
(* The world around *)

ClientLeaves(k) ==
  /\ call[k].at # "idle" /\ ~call[k].gone
  /\ mishaps < MaxMishaps /\ mishaps' = mishaps + 1
  /\ call' = [call EXCEPT ![k].gone = TRUE]
  /\ hurt' = hurt \cup {k}
  /\ UNCHANGED <<publicHost, server, mutex, changes>>

\* Dynamic DNS gives the server a new name (Config.SetPublicIP).
HostChanges(h) ==
  /\ h # publicHost /\ changes < MaxHostChanges /\ changes' = changes + 1
  /\ publicHost' = h
  /\ UNCHANGED <<server, mutex, call, hurt, mishaps>>

-----------------------------------------------------------------------------
Before(k) == Create(k) \/ Confirm(k)
WalkOn(k) ==
  \/ EnsureOAuthApp(k) \/ SignIn(k)
  \/ Approve(k) \/ ApproveWithoutCode(k) \/ CallFails(k)

FedNext ==
  \/ \E k \in Request : \/ \E u \in User : Credentials(k, u) \/ Sso(k, u)
                        \/ Gate(k) \/ Before(k) \/ Lock(k) \/ WalkOn(k) \/ ClientLeaves(k)
  \/ \E h \in Host : HostChanges(h)

FedSpec == FedInit /\ [][FedNext]_fedVars

\* Commands end, calls time out, and a mutex hands itself to who has waited, for
\* reading (the gate) or for writing.
FedFairSpec ==
  /\ FedSpec
  /\ \A k \in Request :
       WF_fedVars(Before(k)) /\ WF_fedVars(WalkOn(k)) /\ SF_fedVars(Gate(k) \/ Lock(k))

-----------------------------------------------------------------------------
(* Properties *)

\* The walk is one at a time: the mutex is held by the request that walks.
Exclusive == FedTypeOK /\ \A k \in Request : Holds(k) <=> mutex = k

\* "Zero-friction": a request whose client stays and whose calls all get
\* through is refused its token for two reasons only: the account was made when
\* the server went by another name, or the commands do not run and nobody has
\* made and confirmed it; whatever commands were cut short before, in this run or
\* an earlier one, and whoever asks for the same name at once.
RefusedForItsName ==
  [][\A k \in Request :
       ApproveWithoutCode(k) /\ call[k].user # Primary /\ k \notin hurt
         => \/ account[call[k].user] \notin {None, call[k].host}
            \/ ~commands /\ (account[call[k].user] = None \/ call[k].user \notin confirmed)]_fedVars

\* The same without these exceptions, where the commands run.
NoneRefused ==
  [][\A k \in Request :
       commands /\ ApproveWithoutCode(k) /\ call[k].user # Primary => k \in hurt]_fedVars

\* "auto-aprovisionamiento de cuentas ... con login transparente" (README.md:21):
\* a peer that is refused has an account at least.
AccountThere ==
  [][\A k \in Request :
       ApproveWithoutCode(k) /\ call[k].user # Primary /\ k \notin hurt
         => account[call[k].user] # None]_fedVars

\* Every request is answered, although the walk holds the mutex across calls to
\* another server and the requests behind it cannot give up waiting.
EveryRequestEnds == \A k \in Request : (call[k].at # "idle") ~> (call[k].at = "idle")
=============================================================================
