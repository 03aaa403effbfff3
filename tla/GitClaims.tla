----------------------------- MODULE GitClaims -----------------------------
(***************************************************************************)
(* Who may use whose Git repository (git_server.go, git_token.go): a peer  *)
(* id is claimed by the first device that asks for credentials, the admin  *)
(* can revoke, restore, unlock or delete it, and all claims are kept in    *)
(* one JSON file that os.WriteFile truncates and writes again; its error   *)
(* is dropped.  HTTP requests run concurrently; gs.mu is held for single   *)
(* looks and, to the end of the save, for changes.  A token is named after *)
(* the request it was issued to; expiry, signatures, passwords and the     *)
(* repositories themselves are left out.                                   *)
(***************************************************************************)
EXTENDS Naturals, FiniteSets

CONSTANTS
  Request,     \* HTTP requests; each is made once
  Peer,        \* peer ids
  None,        \* no token, no peer
  MaxCrashes   \* bound: how often the process dies

ASSUME GitAssumption ==
  /\ None \notin Request /\ None \notin Peer /\ None # "admin"
  /\ MaxCrashes \in Nat

Token == Request

VARIABLES
  pc,        \* pc[r]: how far the handler of r is
  peer,      \* peer[r]: the peer id r is about
  shown,     \* shown[r]: the token r presents
  byAdmin,   \* byAdmin[r]: r carries the admin's session
  claim,     \* claim[p]: token whose hash is in the claim of p, None if unclaimed
  flagged,   \* the peers whose claim says Revoked
  revoked,   \* revokedPeers
  file,      \* what a start would load from the claims file: claims and flags
  lock,      \* gs.mu is held for a change: by a request, by "admin", or None
  up,        \* the process runs
  crashes,   \* how often it has died
  saved,     \* history, the last save succeeded
  issued,    \* issued[t]: the peer the token t is for, None if never issued
  through,   \* history, the requests whose peer has been in revokedPeers all along
  found      \* found[r]: history, the claim there was when r asked for credentials

reqVars == <<pc, peer, shown, byAdmin>>
memVars == <<claim, flagged, revoked>>
histVars == <<through, found>>
procVars == <<up, crashes, saved>>
vars == <<reqVars, memVars, file, lock, procVars, issued, histVars>>

Claims == [Peer -> Token \cup {None}]
Place == {"idle", "cred", "allowed", "claiming", "access", "admitted", "saving",
          "granted", "denied", "dead"}

TypeOK ==
  /\ pc \in [Request -> Place]
  /\ peer \in [Request -> Peer \cup {None}] /\ shown \in [Request -> Token \cup {None}]
  /\ byAdmin \in [Request -> BOOLEAN]
  /\ claim \in Claims /\ flagged \in SUBSET Peer /\ revoked \in SUBSET Peer
  /\ file \in [claim : Claims, flagged : SUBSET Peer]
  /\ lock \in Request \cup {"admin", None}
  /\ up \in BOOLEAN /\ crashes \in 0..MaxCrashes /\ saved \in BOOLEAN
  /\ issued \in [Token -> Peer \cup {None}]
  /\ through \in SUBSET Request
  /\ found \in [Request -> Token \cup {None}]

Unclaimed == [p \in Peer |-> None]
Empty == [claim |-> Unclaimed, flagged |-> {}]

Init ==
  /\ pc = [r \in Request |-> "idle"] /\ peer = [r \in Request |-> None]
  /\ shown = [r \in Request |-> None] /\ byAdmin = [r \in Request |-> FALSE]
  /\ claim = Unclaimed /\ flagged = {} /\ revoked = {}
  /\ file = Empty
  /\ lock = None /\ up = TRUE /\ crashes = 0 /\ saved = TRUE
  /\ issued = [t \in Token |-> None]
  /\ through = {}
  /\ found = [r \in Request |-> None]

-----------------------------------------------------------------------------
(* The mutex and the file *)

Free == up /\ lock = None

\* saveClaimsLocked: first the file is truncated, if it can be opened, ...
SaveBegins(who) == lock' = who /\ file' \in {file, Empty}
\* ... then it holds what memory holds, if it can be written; nobody looks at the
\* error, and the mutex is released either way.
Memory == [claim |-> claim, flagged |-> flagged]
SaveEnds ==
  /\ lock' = None
  /\ \/ file' = Memory /\ saved' = TRUE
     \/ file' = file /\ saved' = FALSE

\* IsPeerRevoked
IsPeerRevoked_ByClaim(p) == p \in flagged                             \* mutant
IsPeerRevoked(p) == p \in flagged \/ p \in revoked

Goes(r, place) == pc' = [pc EXCEPT ![r] = place]

-----------------------------------------------------------------------------
(* HandleGitCredentials *)

\* A client can only show a token that has been answered to somebody.
IsTokenOf(t, p) == pc[t] = "granted" /\ issued[t] = p

AskCredentials(r, p, t, a) ==
  /\ up /\ pc[r] = "idle" /\ (t # None => IsTokenOf(t, p))
  /\ Goes(r, "cred")
  /\ peer' = [peer EXCEPT ![r] = p]
  /\ shown' = [shown EXCEPT ![r] = t]
  /\ byAdmin' = [byAdmin EXCEPT ![r] = a]
  /\ through' = IF p \in revoked THEN through \cup {r} ELSE through
  /\ found' = [found EXCEPT ![r] = claim[p]]
  /\ UNCHANGED <<memVars, file, lock, procVars, issued>>

CheckRevoked(r) ==
  /\ Free /\ pc[r] = "cred"
  /\ Goes(r, IF IsPeerRevoked(peer[r]) THEN "denied" ELSE "allowed")
  /\ UNCHANGED <<peer, shown, byAdmin, memVars, file, lock, procVars, issued, histVars>>

\* GetPeerClaim and the first-claim test, on a copy of the claim.
MayClaim(r, c) == c = None \/ byAdmin[r] \/ shown[r] = c
CheckClaim(r) ==
  /\ Free /\ pc[r] = "allowed"
  /\ Goes(r, IF MayClaim(r, claim[peer[r]]) THEN "claiming" ELSE "denied")
  /\ UNCHANGED <<peer, shown, byAdmin, memVars, file, lock, procVars, issued, histVars>>

\* The new token is registered, over whatever claim there is by now.
Anonymous(r) == ~byAdmin[r] /\ shown[r] = None
RegisterClaim(r) ==
  LET p == peer[r] IN
  /\ Free /\ pc[r] = "claiming"
  /\ Goes(r, "saving")
  /\ claim' = [claim EXCEPT ![p] = r]
  /\ flagged' = flagged \ {p}
  /\ issued' = [issued EXCEPT ![r] = p]
  /\ SaveBegins(r)
  /\ UNCHANGED <<peer, shown, byAdmin, revoked, procVars, histVars>>

\* The save is over: the answer goes out.
Answer(r) ==
  /\ up /\ lock = r /\ pc[r] = "saving"
  /\ Goes(r, "granted")
  /\ SaveEnds
  /\ UNCHANGED <<peer, shown, byAdmin, memVars, up, crashes, issued, histVars>>

-----------------------------------------------------------------------------
(* authenticateRequest, for a token whose signature is valid *)

AskAccess(r, p, t) ==
  /\ up /\ pc[r] = "idle" /\ IsTokenOf(t, p)
  /\ Goes(r, "access")
  /\ peer' = [peer EXCEPT ![r] = p]
  /\ shown' = [shown EXCEPT ![r] = t]
  /\ through' = IF p \in revoked THEN through \cup {r} ELSE through
  /\ UNCHANGED <<byAdmin, memVars, file, lock, procVars, issued, found>>

CheckAccessRevoked(r) ==
  /\ Free /\ pc[r] = "access"
  /\ Goes(r, IF IsPeerRevoked(peer[r]) THEN "denied" ELSE "admitted")
  /\ UNCHANGED <<peer, shown, byAdmin, memVars, file, lock, procVars, issued, histVars>>

\* With a claim, the token must be the claim's, and LastUsed is saved; without
\* one, any token ever signed for the peer will do.
CheckAccessClaim(r) ==
  LET c == claim[peer[r]]
      refused == c # None /\ (peer[r] \in flagged \/ c # shown[r]) IN
  /\ Free /\ pc[r] = "admitted"
  /\ IF c # None /\ ~refused
       THEN Goes(r, "saving") /\ SaveBegins(r)
       ELSE Goes(r, IF refused THEN "denied" ELSE "granted") /\ UNCHANGED <<lock, file>>
  /\ UNCHANGED <<peer, shown, byAdmin, memVars, procVars, issued, histVars>>

-----------------------------------------------------------------------------
(* The admin *)

Others(p) == {r \in through : peer[r] # p}

RevokePeer(p) ==
  /\ Free
  /\ revoked' = revoked \cup {p}
  /\ flagged' = IF claim[p] # None THEN flagged \cup {p} ELSE flagged
  /\ SaveBegins("admin")
  /\ UNCHANGED <<reqVars, claim, procVars, issued, histVars>>

FlagsWithout_Kept(p) == flagged                                       \* mutant
FlagsWithout(p) == flagged \ {p}
UnrevokePeer(p) ==
  /\ Free
  /\ revoked' = revoked \ {p} /\ flagged' = FlagsWithout(p)
  /\ SaveBegins("admin")
  /\ through' = Others(p)
  /\ UNCHANGED <<reqVars, claim, procVars, issued, found>>

\* UnlockPeerClaim saves like the others.
UnlockSaves_Not == UNCHANGED <<lock, file>>                           \* mutant
UnlockSaves == SaveBegins("admin")
UnlockPeerClaim(p) ==
  /\ Free
  /\ claim' = [claim EXCEPT ![p] = None] /\ flagged' = flagged \ {p}
  /\ UnlockSaves
  /\ UNCHANGED <<reqVars, revoked, procVars, issued, histVars>>

DeleteRepo(p) ==
  /\ Free
  /\ claim' = [claim EXCEPT ![p] = None] /\ flagged' = flagged \ {p}
  /\ revoked' = revoked \ {p}
  /\ SaveBegins("admin")
  /\ through' = Others(p)
  /\ UNCHANGED <<reqVars, procVars, issued, found>>

AdminSaved ==
  /\ up /\ lock = "admin" /\ SaveEnds
  /\ UNCHANGED <<reqVars, memVars, up, crashes, issued, histVars>>

-----------------------------------------------------------------------------
(* The process dies and starts again *)

Crash ==
  /\ up /\ crashes < MaxCrashes
  /\ up' = FALSE /\ crashes' = crashes + 1 /\ lock' = None
  /\ pc' = [r \in Request |-> IF pc[r] \in {"idle", "granted", "denied"} THEN pc[r] ELSE "dead"]
  /\ claim' = Unclaimed /\ flagged' = {} /\ revoked' = {} /\ through' = {}
  /\ UNCHANGED <<peer, shown, byAdmin, file, saved, issued, found>>

\* loadClaims: a file that does not parse leaves everything empty.
Restart ==
  /\ ~up
  /\ up' = TRUE
  /\ claim' = file.claim /\ flagged' = file.flagged /\ revoked' = file.flagged
  /\ saved' = TRUE
  /\ UNCHANGED <<reqVars, file, lock, crashes, issued, histVars>>

-----------------------------------------------------------------------------

Handler(r) ==
  \/ CheckRevoked(r) \/ CheckClaim(r) \/ RegisterClaim(r) \/ Answer(r)
  \/ CheckAccessRevoked(r) \/ CheckAccessClaim(r)
Arrives(r) ==
  \E p \in Peer :
    \/ \E t \in Token \cup {None}, a \in BOOLEAN : AskCredentials(r, p, t, a)
    \/ \E t \in Token : AskAccess(r, p, t)
AdminActs(p) == RevokePeer(p) \/ UnrevokePeer(p) \/ UnlockPeerClaim(p) \/ DeleteRepo(p)

Next ==
  \/ \E r \in Request : Arrives(r) \/ Handler(r)
  \/ \E p \in Peer : AdminActs(p)
  \/ AdminSaved \/ Crash \/ Restart

Spec == Init /\ [][Next]_vars

-----------------------------------------------------------------------------
(* Properties *)

\* Whatever a change is, a restart right after it would load it, unless the last
\* save failed: a save writes all there is, so one that succeeds makes up for those
\* that failed before it, and no locked section changes anything without a save.
FileCurrent == Free /\ saved => file = Memory

\* The promise of the claims, SavedMap: the claim and the flag of one peer change
\* at a time and only with a save, and a crash, wherever it comes, goes back to
\* what the last save that succeeded wrote, or to nothing if one begun since then
\* has truncated the file.
ClaimOf(c, f) == [p \in Peer |-> <<c[p], p \in f>>]
Loaded == ClaimOf(file.claim, file.flagged)
Kept == IF up THEN ClaimOf(claim, flagged) ELSE Loaded
Durable == INSTANCE SavedMap WITH
  Key <- Peer, Value <- (Token \cup {None}) \X BOOLEAN, Blank <- <<None, FALSE>>,
  map <- Kept, file <- Loaded, open <- lock # None
SavesDurably == Durable!Spec

\* What has been decided when a request arrives, and is not taken back before
\* the request has been handled, shuts it out.  A revocation, even though a claim
\* registered by an older request may have cleared the Revoked flag meanwhile; and
\* the claim of another device, whoever else is asking for the peer at once.
RevokedGetNothing == \A r \in through : pc[r] \notin {"claiming", "saving", "granted"}
ClaimedToOthers(r) == Anonymous(r) /\ found[r] # None /\ claim[peer[r]] = found[r]
LatecomersShutOut ==
  /\ RevokedGetNothing
  /\ \A r \in Request : ClaimedToOthers(r) => pc[r] # "claiming"

\* The state is well typed, and the Revoked flag of a claim never outlives the
\* revocation nor the claim: a device that claims an unlocked peer is not shut
\* out by an old flag, nor after a restart: after a save that succeeded the file has
\* what the memory has.
FlagsHaveReason ==
  /\ TypeOK /\ FileCurrent
  /\ \A p \in flagged : claim[p] # None /\ p \in revoked

\* "Check First-Claim (TOFU) lock: If peer already claimed by another device,
\* disallow anonymous re-issuance": no claim is lost to an anonymous request.
FirstClaimKept ==
  [][\A r \in Request : RegisterClaim(r) /\ Anonymous(r) => claim[peer[r]] = None]_vars

\* IsPeerRevoked tells "whether a peerId has been revoked by admin": a crash takes
\* back no revocation, even when every save has succeeded and none is under way.
RevocationSurvives == [][Crash /\ Free /\ saved => revoked \subseteq file.flagged]_vars

\* HashGitToken is there "for safe persistent storage": a crash takes back no
\* claim that has been answered to a device.
AnsweredClaims == {p \in Peer : claim[p] # None /\ pc[claim[p]] = "granted"}
ClaimsSurvive == [][Crash => \A p \in AnsweredClaims : file.claim[p] # None]_vars
=============================================================================
