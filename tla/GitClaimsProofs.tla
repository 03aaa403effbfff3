--------------------------- MODULE GitClaimsProofs ---------------------------
(***************************************************************************)
(* Theorems about GitClaims, for any number of requests, peers and         *)
(* crashes: the claims file, the Revoked flags, and whom a revocation or a *)
(* claim shuts out.                                                        *)
(***************************************************************************)
EXTENDS GitClaims, TLAPS

LEMMA Steps ==
  ASSUME Next
  PROVE  \/ \E r \in Request : \/ \E p \in Peer, t \in Token \cup {None}, a \in BOOLEAN :
                                    AskCredentials(r, p, t, a)
                               \/ \E p \in Peer, t \in Token : AskAccess(r, p, t)
                               \/ CheckRevoked(r) \/ CheckClaim(r) \/ RegisterClaim(r)
                               \/ Answer(r) \/ CheckAccessRevoked(r) \/ CheckAccessClaim(r)
         \/ \E p \in Peer : \/ RevokePeer(p) \/ UnrevokePeer(p) \/ UnlockPeerClaim(p)
                            \/ DeleteRepo(p)
         \/ AdminSaved \/ Crash \/ Restart
BY DEF Next, Arrives, Handler, AdminActs

-----------------------------------------------------------------------------
(* Typing *)

\* A request that has arrived is about a peer.
Addressed == \A r \in Request : pc[r] # "idle" => peer[r] # None
Typing == TypeOK /\ Addressed

LEMMA InitTyped == Init => Typing
<1> SUFFICES ASSUME Init PROVE Typing
  OBVIOUS
<1>1. Unclaimed \in Claims
  BY DEF Unclaimed, Claims
<1>2. /\ pc \in [Request -> Place] /\ peer \in [Request -> Peer \cup {None}]
      /\ shown \in [Request -> Token \cup {None}] /\ byAdmin \in [Request -> BOOLEAN]
      /\ issued \in [Token -> Peer \cup {None}] /\ found \in [Request -> Token \cup {None}]
  BY DEF Init, Place
<1>3. file \in [claim : Claims, flagged : SUBSET Peer]
  BY <1>1 DEF Init, Empty
<1>4. claim \in Claims /\ flagged = {} /\ revoked = {}
  BY <1>1 DEF Init
<1>5. /\ lock = None /\ up = TRUE /\ saved = TRUE /\ crashes \in 0..MaxCrashes
      /\ through = {}
  BY GitAssumption DEF Init
<1>6. TypeOK
  BY <1>2, <1>3, <1>4, <1>5 DEF TypeOK
<1> QED
  BY <1>6 DEF Init, Typing, Addressed

LEMMA EmptyTyped == Empty \in [claim : Claims, flagged : SUBSET Peer]
BY DEF Empty, Unclaimed, Claims

LEMMA StepTyped ==
  ASSUME Typing, [Next]_vars
  PROVE  Typing'
<1> USE GitAssumption
<1>0. TypeOK /\ Addressed
  BY DEF Typing
\* A save, at its beginning and at its end.
<1>a. ASSUME NEW who \in Request \cup {"admin"}, SaveBegins(who)
      PROVE  /\ lock' \in Request \cup {"admin", None}
             /\ file' \in [claim : Claims, flagged : SUBSET Peer]
  BY <1>0, <1>a, EmptyTyped DEF SaveBegins, TypeOK
<1>b. ASSUME SaveEnds
      PROVE  /\ lock' \in Request \cup {"admin", None} /\ saved' \in BOOLEAN
             /\ file' \in [claim : Claims, flagged : SUBSET Peer]
  <2>1. Memory \in [claim : Claims, flagged : SUBSET Peer]
    BY <1>0 DEF Memory, TypeOK
  <2>2. file \in [claim : Claims, flagged : SUBSET Peer]
    BY <1>0 DEF TypeOK
  <2>3. file' \in {file, Memory} /\ saved' \in BOOLEAN /\ lock' = None
    BY <1>b DEF SaveEnds
  <2> QED
    BY <2>1, <2>2, <2>3
<1>1. CASE UNCHANGED vars
  BY <1>0, <1>1 DEF Typing, TypeOK, Addressed, vars, reqVars, memVars, procVars, histVars
<1>2. ASSUME NEW r \in Request, NEW p \in Peer, NEW t \in Token \cup {None}, NEW a \in BOOLEAN,
             AskCredentials(r, p, t, a)
      PROVE  Typing'
  <2>1. found' \in [Request -> Token \cup {None}] /\ through' \in SUBSET Request
    BY <1>0, <1>2 DEF AskCredentials, TypeOK, Claims
  <2> QED
    BY <1>0, <1>2, <2>1 DEF AskCredentials, Goes, Typing, TypeOK, Addressed, Place, memVars, procVars
<1>3. ASSUME NEW r \in Request, NEW p \in Peer, NEW t \in Token, AskAccess(r, p, t) PROVE Typing'
  <2>1. through' \in SUBSET Request
    BY <1>0, <1>3 DEF AskAccess, TypeOK
  <2> QED
    BY <1>0, <1>3, <2>1 DEF AskAccess, Goes, Typing, TypeOK, Addressed, Place, memVars, procVars
<1>4. ASSUME NEW r \in Request, CheckRevoked(r) \/ CheckClaim(r) \/ CheckAccessRevoked(r)
      PROVE  Typing'
  <2>1. /\ pc[r] # "idle" /\ \E q \in Place \ {"idle"} : pc' = [pc EXCEPT ![r] = q]
        /\ UNCHANGED <<peer, shown, byAdmin, memVars, file, lock, procVars, issued, histVars>>
    BY <1>4 DEF CheckRevoked, CheckClaim, CheckAccessRevoked, Goes, Place
  <2> QED
    BY <1>0, <2>1 DEF Typing, TypeOK, Addressed, memVars, procVars, histVars
<1>5. ASSUME NEW r \in Request, RegisterClaim(r) PROVE Typing'
  <2>1. peer[r] \in Peer
    BY <1>0, <1>5 DEF RegisterClaim, TypeOK, Addressed
  <2>2. claim' \in Claims /\ issued' \in [Token -> Peer \cup {None}] /\ flagged' \in SUBSET Peer
    BY <1>0, <1>5, <2>1 DEF RegisterClaim, TypeOK, Claims, Token
  <2>3. /\ lock' \in Request \cup {"admin", None}
        /\ file' \in [claim : Claims, flagged : SUBSET Peer]
    BY <1>5, <1>a DEF RegisterClaim
  <2> QED
    BY <1>0, <1>5, <2>1, <2>2, <2>3 DEF RegisterClaim, Goes, Typing, TypeOK, Addressed, Place,
       procVars, histVars
<1>6. ASSUME NEW r \in Request, Answer(r) PROVE Typing'
  <2>1. /\ lock' \in Request \cup {"admin", None} /\ saved' \in BOOLEAN
        /\ file' \in [claim : Claims, flagged : SUBSET Peer]
    BY <1>6, <1>b DEF Answer
  <2>2. pc' \in [Request -> Place] /\ Addressed'
    BY <1>0, <1>6 DEF Answer, Goes, TypeOK, Addressed, Place
  <2> QED
    BY <1>0, <1>6, <2>1, <2>2 DEF Answer, Typing, TypeOK, memVars, histVars
<1>7. ASSUME NEW r \in Request, CheckAccessClaim(r) PROVE Typing'
  <2>1. /\ pc[r] # "idle" /\ \E q \in Place \ {"idle"} : pc' = [pc EXCEPT ![r] = q]
        /\ SaveBegins(r) \/ UNCHANGED <<lock, file>>
        /\ UNCHANGED <<peer, shown, byAdmin, memVars, procVars, issued, histVars>>
    BY <1>7 DEF CheckAccessClaim, Goes, Place
  <2>2. pc' \in [Request -> Place] /\ Addressed'
    BY <1>0, <2>1 DEF TypeOK, Addressed
  <2>3. /\ lock' \in Request \cup {"admin", None}
        /\ file' \in [claim : Claims, flagged : SUBSET Peer]
    BY <1>0, <1>a, <2>1 DEF TypeOK
  <2> QED
    BY <1>0, <2>1, <2>2, <2>3 DEF Typing, TypeOK, memVars, procVars, histVars
<1>8. ASSUME NEW p \in Peer, RevokePeer(p) PROVE Typing'
  BY <1>0, <1>8, <1>a DEF RevokePeer, Typing, TypeOK, Addressed, reqVars, procVars, histVars
<1>9. ASSUME NEW p \in Peer, UnrevokePeer(p) PROVE Typing'
  BY <1>0, <1>9, <1>a DEF UnrevokePeer, FlagsWithout, Others, Typing, TypeOK, Addressed, reqVars,
     procVars
<1>10. ASSUME NEW p \in Peer, UnlockPeerClaim(p) PROVE Typing'
  BY <1>0, <1>10, <1>a DEF UnlockPeerClaim, UnlockSaves, Typing, TypeOK, Addressed, Claims, reqVars,
     procVars, histVars
<1>11. ASSUME NEW p \in Peer, DeleteRepo(p) PROVE Typing'
  BY <1>0, <1>11, <1>a DEF DeleteRepo, Others, Typing, TypeOK, Addressed, Claims, reqVars, procVars
<1>12. CASE AdminSaved
  BY <1>0, <1>12, <1>b DEF AdminSaved, Typing, TypeOK, Addressed, memVars, reqVars, histVars
<1>13. CASE Crash
  <2>1. crashes' \in 0..MaxCrashes
    BY <1>0, <1>13 DEF Crash, TypeOK
  <2>2. pc' \in [Request -> Place] /\ \A r \in Request : pc'[r] # "idle" => pc[r] # "idle"
    BY <1>0, <1>13 DEF Crash, TypeOK, Place
  <2>3. claim' \in Claims
    BY <1>13 DEF Crash, Unclaimed, Claims
  <2> QED
    BY <1>0, <1>13, <2>1, <2>2, <2>3 DEF Crash, Typing, TypeOK, Addressed
<1>14. CASE Restart
  BY <1>0, <1>14 DEF Restart, Typing, TypeOK, Addressed, reqVars, histVars
<1> QED
  BY <1>1, <1>2, <1>3, <1>4, <1>5, <1>6, <1>7, <1>8, <1>9, <1>10, <1>11, <1>12, <1>13, <1>14,
     Steps

-----------------------------------------------------------------------------
(* The claims file *)

LEMMA StepCurrent ==
  ASSUME Typing, FileCurrent, [Next]_vars
  PROVE  FileCurrent'
<1> USE GitAssumption
<1>0. TypeOK
  BY DEF Typing
\* Nothing changes what is in memory or in the file ...
<1>1. ASSUME UNCHANGED <<claim, flagged, file, lock, procVars>> PROVE FileCurrent'
  BY <1>1 DEF FileCurrent, Free, Memory, procVars
\* ... or a save begins, ...
<1>2. ASSUME NEW who \in Request \cup {"admin"}, SaveBegins(who) PROVE FileCurrent'
  BY <1>2 DEF FileCurrent, Free, SaveBegins
\* ... or it ends.
<1>3. ASSUME SaveEnds, UNCHANGED memVars PROVE FileCurrent'
  BY <1>3 DEF FileCurrent, Memory, SaveEnds, memVars
<1>4. CASE UNCHANGED vars
  BY <1>1, <1>4 DEF vars, memVars
<1>5. ASSUME NEW r \in Request, NEW p \in Peer, NEW t \in Token \cup {None}, NEW a \in BOOLEAN,
             AskCredentials(r, p, t, a) \/ AskAccess(r, p, t)
      PROVE  FileCurrent'
  BY <1>1, <1>5 DEF AskCredentials, AskAccess, memVars
<1>6. ASSUME NEW r \in Request, CheckRevoked(r) \/ CheckClaim(r) \/ CheckAccessRevoked(r)
      PROVE  FileCurrent'
  BY <1>1, <1>6 DEF CheckRevoked, CheckClaim, CheckAccessRevoked, memVars
<1>7. ASSUME NEW r \in Request, RegisterClaim(r) PROVE FileCurrent'
  BY <1>2, <1>7 DEF RegisterClaim
<1>8. ASSUME NEW r \in Request, Answer(r) PROVE FileCurrent'
  BY <1>3, <1>8 DEF Answer
<1>9. ASSUME NEW r \in Request, CheckAccessClaim(r) PROVE FileCurrent'
  <2>1. SaveBegins(r) \/ UNCHANGED <<claim, flagged, file, lock, procVars>>
    BY <1>9 DEF CheckAccessClaim, memVars
  <2> QED
    BY <1>1, <1>2, <2>1
<1>10. ASSUME NEW p \in Peer, RevokePeer(p) \/ UnrevokePeer(p) \/ UnlockPeerClaim(p) \/ DeleteRepo(p)
       PROVE  FileCurrent'
  BY <1>2, <1>10 DEF RevokePeer, UnrevokePeer, UnlockPeerClaim, UnlockSaves, DeleteRepo
<1>11. CASE AdminSaved
  BY <1>3, <1>11 DEF AdminSaved
<1>12. CASE Crash
  BY <1>12 DEF Crash, FileCurrent, Free
<1>13. CASE Restart
  <2>1. file' = file /\ claim' = file.claim /\ flagged' = file.flagged
    BY <1>13 DEF Restart
  <2>2. file = [claim |-> file.claim, flagged |-> file.flagged]
    BY <1>0 DEF TypeOK
  <2> QED
    BY <2>1, <2>2 DEF FileCurrent, Memory
<1> QED
  BY <1>4, <1>5, <1>6, <1>7, <1>8, <1>9, <1>10, <1>11, <1>12, <1>13, Steps

\* Whenever gs.mu is free and the last save succeeded, however many failed before
\* it, the claims file would load as what is in memory.
THEOREM FileFollows == Spec => []FileCurrent
<1>1. Init => Typing /\ FileCurrent
  BY InitTyped DEF Init, FileCurrent, Memory, Empty
<1>2. Typing /\ FileCurrent /\ [Next]_vars => (Typing /\ FileCurrent)'
  BY StepTyped, StepCurrent
<1> QED
  BY <1>1, <1>2, PTL DEF Spec

\* Nobody's claims are the map with nothing in it.
LEMMA NoClaims == ClaimOf(Empty.claim, Empty.flagged) = Durable!Nowhere
<1>1. \A p \in Peer : (p \in {}) = FALSE
  OBVIOUS
<1>2. \A p \in Peer : Unclaimed[p] = None
  BY DEF Unclaimed
<1>3. \A p \in Peer : <<Unclaimed[p], p \in {}>> = <<None, FALSE>>
  BY <1>1, <1>2
<1>4. Empty.claim = Unclaimed /\ Empty.flagged = {}
  BY DEF Empty
<1> QED
  BY <1>3, <1>4, Zenon DEF ClaimOf, Durable!Nowhere

\* A save that begins leaves the file as it is or empties it.
LEMMA Begins ==
  ASSUME NEW who \in Request \cup {"admin"}, Free, SaveBegins(who)
  PROVE  Loaded' \in {Loaded, Durable!Nowhere} /\ lock = None /\ lock' # None
<1>1. file' = file \/ file' = Empty
  BY DEF SaveBegins
<1>2. CASE file' = file
  BY <1>2, GitAssumption DEF Loaded, ClaimOf, Free, SaveBegins
<1>3. CASE file' = Empty
  <2>1. Loaded' = ClaimOf(Empty.claim, Empty.flagged)
    BY <1>3 DEF Loaded, ClaimOf
  <2> QED
    BY <2>1, NoClaims, GitAssumption DEF Free, SaveBegins
<1> QED
  BY <1>1, <1>2, <1>3

\* A step that changes the claim or the flag of one peer in memory, and saves.
LEMMA ChangesOne ==
  ASSUME TypeOK, up, up', NEW p \in Peer, NEW c \in Token \cup {None}, NEW b \in BOOLEAN,
         claim' = [claim EXCEPT ![p] = c], flagged' \ {p} = flagged \ {p}, p \in flagged' <=> b,
         NEW who \in Request \cup {"admin"}, Free, SaveBegins(who)
  PROVE  Durable!Next
<1>1. claim \in [Peer -> Token \cup {None}]
  BY DEF TypeOK, Claims
<1>2. Kept = ClaimOf(claim, flagged) /\ Kept' = ClaimOf(claim', flagged')
  BY DEF Kept, ClaimOf
<1>3. \A q \in Peer : <<claim'[q], q \in flagged'>> =
                      IF q = p THEN <<c, b>> ELSE <<claim[q], q \in flagged>>
  BY <1>1
<1>4. Kept' = [Kept EXCEPT ![p] = <<c, b>>]
  BY <1>2, <1>3 DEF ClaimOf
<1>5. Durable!Change(p, <<c, b>>)
  BY <1>4, Begins DEF Durable!Change
<1> QED
  BY <1>5 DEF Durable!Next

LEMMA StepDurable ==
  ASSUME Typing, [Next]_vars
  PROVE  [Durable!Next]_(Durable!mapVars)
<1> USE DEF Durable!mapVars
<1>0. TypeOK /\ Addressed
  BY DEF Typing
<1>1. ASSUME UNCHANGED <<claim, flagged, file, lock, up>>
      PROVE  UNCHANGED <<Kept, Loaded, lock # None>>
  BY <1>1 DEF Kept, Loaded, ClaimOf
<1>2. ASSUME up, up', lock # None, SaveEnds, UNCHANGED <<claim, flagged>> PROVE Durable!Next
  <2>1. Kept = ClaimOf(claim, flagged) /\ Kept' = Kept
    BY <1>2 DEF Kept, ClaimOf
  <2>2. Loaded' \in {Loaded, Kept}
    BY <1>2, <2>1 DEF SaveEnds, Memory, Loaded, ClaimOf
  <2>3. lock' = None
    BY <1>2 DEF SaveEnds
  <2>4. Durable!Saved
    BY <1>2, <2>1, <2>2, <2>3 DEF Durable!Saved
  <2> QED
    BY <2>4 DEF Durable!Next
<1>3. CASE UNCHANGED vars
  BY <1>1, <1>3 DEF vars, memVars, procVars
<1>4. ASSUME NEW r \in Request, NEW p \in Peer, NEW t \in Token \cup {None}, NEW a \in BOOLEAN,
             AskCredentials(r, p, t, a) \/ AskAccess(r, p, t)
      PROVE  UNCHANGED <<Kept, Loaded, lock # None>>
  BY <1>1, <1>4 DEF AskCredentials, AskAccess, memVars, procVars
<1>5. ASSUME NEW r \in Request, CheckRevoked(r) \/ CheckClaim(r) \/ CheckAccessRevoked(r)
      PROVE  UNCHANGED <<Kept, Loaded, lock # None>>
  BY <1>1, <1>5 DEF CheckRevoked, CheckClaim, CheckAccessRevoked, memVars, procVars
<1>6. ASSUME NEW r \in Request, RegisterClaim(r) PROVE Durable!Next
  <2>1. /\ peer[r] \in Peer /\ up /\ up' /\ r \in Token /\ Free /\ SaveBegins(r)
        /\ claim' = [claim EXCEPT ![peer[r]] = r] /\ flagged' = flagged \ {peer[r]}
    BY <1>0, <1>6 DEF RegisterClaim, Free, TypeOK, Addressed, Token, procVars
  <2> QED
    BY <1>0, <2>1, ChangesOne
<1>7. ASSUME NEW r \in Request, Answer(r) PROVE Durable!Next
  <2>1. up /\ up' /\ lock # None
    BY <1>7, GitAssumption DEF Answer
  <2> QED
    BY <1>2, <1>7, <2>1 DEF Answer, memVars
<1>8. ASSUME NEW r \in Request, CheckAccessClaim(r)
      PROVE  Durable!Next \/ UNCHANGED <<Kept, Loaded, lock # None>>
  <2>1. /\ up /\ up' /\ peer[r] \in Peer /\ Free /\ UNCHANGED <<claim, flagged, up>>
        /\ SaveBegins(r) \/ UNCHANGED <<lock, file>>
    BY <1>0, <1>8 DEF CheckAccessClaim, Free, TypeOK, Addressed, memVars, procVars
  <2>2. CASE UNCHANGED <<lock, file>>
    BY <1>1, <2>1, <2>2
  <2>3. CASE SaveBegins(r)
    <3>1. /\ claim[peer[r]] \in Token \cup {None}
          /\ claim = [claim EXCEPT ![peer[r]] = claim[peer[r]]]
      BY <1>0, <2>1 DEF TypeOK, Claims
    <3>2. PICK c \in Token \cup {None}, b \in BOOLEAN :
            c = claim[peer[r]] /\ (b <=> peer[r] \in flagged')
      BY <3>1
    <3> QED
      BY <1>0, <2>1, <2>3, <3>1, <3>2, ChangesOne
  <2> QED
    BY <2>1, <2>2, <2>3
<1>9. ASSUME NEW p \in Peer, RevokePeer(p) \/ UnrevokePeer(p) PROVE Durable!Next
  <2>1. /\ up /\ up' /\ claim' = claim /\ flagged' \ {p} = flagged \ {p}
        /\ Free /\ SaveBegins("admin")
        /\ claim[p] \in Token \cup {None} /\ claim = [claim EXCEPT ![p] = claim[p]]
    BY <1>0, <1>9 DEF RevokePeer, UnrevokePeer, FlagsWithout, Free, TypeOK, Claims, procVars
  <2>2. PICK c \in Token \cup {None}, b \in BOOLEAN : c = claim[p] /\ (b <=> p \in flagged')
    BY <2>1
  <2> QED
    BY <1>0, <2>1, <2>2, ChangesOne
<1>10. ASSUME NEW p \in Peer, UnlockPeerClaim(p) \/ DeleteRepo(p) PROVE Durable!Next
  <2>1. /\ up /\ up' /\ claim' = [claim EXCEPT ![p] = None] /\ flagged' = flagged \ {p}
        /\ Free /\ SaveBegins("admin")
    BY <1>10 DEF UnlockPeerClaim, UnlockSaves, DeleteRepo, Free, procVars
  <2> QED
    BY <1>0, <2>1, ChangesOne
<1>11. CASE AdminSaved
  <2>1. up /\ up' /\ lock # None
    BY <1>11, GitAssumption DEF AdminSaved
  <2> QED
    BY <1>2, <1>11, <2>1 DEF AdminSaved, memVars
<1>12. CASE Crash
  <2>1. ~up' /\ file' = file /\ lock' = None
    BY <1>12 DEF Crash
  <2>2. Kept' = Loaded /\ Loaded' = Loaded
    BY <2>1 DEF Kept, Loaded, ClaimOf
  <2>3. Durable!Death
    BY <2>1, <2>2 DEF Durable!Death
  <2> QED
    BY <2>3 DEF Durable!Next
<1>13. CASE Restart
  <2>1. /\ ~up /\ up' /\ UNCHANGED <<file, lock>>
        /\ claim' = file.claim /\ flagged' = file.flagged
    BY <1>13 DEF Restart
  <2>2. Kept' = Loaded /\ Kept = Loaded /\ Loaded' = Loaded
    BY <2>1 DEF Kept, Loaded, ClaimOf
  <2> QED
    BY <2>1, <2>2
<1> QED
  BY <1>3, <1>4, <1>5, <1>6, <1>7, <1>8, <1>9, <1>10, <1>11, <1>12, <1>13, Steps

\* The claims keep the promise of SavedMap: each handler and each operation of the
\* admin changes one peer's claim and saves, whether the writes succeed or not, and
\* a crash goes back to the last save that succeeded or to nothing.
THEOREM KeepsMap == Spec => SavesDurably
<1>1. Init => Typing
  BY InitTyped
<1>2. Typing /\ [Next]_vars => Typing'
  BY StepTyped
<1>3. Init => Durable!Init
  <2>1. Init => Kept = ClaimOf(Empty.claim, Empty.flagged) /\ Loaded = Kept /\ lock = None
    BY DEF Init, Kept, Loaded, Empty
  <2> QED
    BY <2>1, NoClaims DEF Durable!Init
<1>4. Typing /\ [Next]_vars => [Durable!Next]_(Durable!mapVars)
  BY StepDurable
<1> QED
  BY <1>1, <1>2, <1>3, <1>4, PTL DEF Spec, SavesDurably, Durable!Spec

-----------------------------------------------------------------------------
(* The Revoked flag *)

\* A flag has a claim and a revocation behind it, in memory and on disk.
Reasons ==
  /\ \A p \in flagged : claim[p] # None /\ p \in revoked
  /\ \A p \in file.flagged : file.claim[p] # None

LEMMA StepReasons ==
  ASSUME Typing, Reasons, [Next]_vars
  PROVE  Reasons'
<1> USE GitAssumption
<1>0. TypeOK /\ Addressed
  BY DEF Typing
<1>1. ASSUME UNCHANGED memVars, file' \in {file, Empty} PROVE Reasons'
  BY <1>1 DEF Reasons, memVars, Empty
<1>2. ASSUME SaveEnds, UNCHANGED memVars PROVE Reasons'
  BY <1>2 DEF Reasons, SaveEnds, Memory, memVars
<1>3. CASE UNCHANGED vars
  BY <1>1, <1>3 DEF vars
<1>4. ASSUME NEW r \in Request, NEW p \in Peer, NEW t \in Token \cup {None}, NEW a \in BOOLEAN,
             AskCredentials(r, p, t, a) \/ AskAccess(r, p, t)
      PROVE  Reasons'
  BY <1>1, <1>4 DEF AskCredentials, AskAccess
<1>5. ASSUME NEW r \in Request, \/ CheckRevoked(r) \/ CheckClaim(r) \/ CheckAccessRevoked(r)
                                \/ CheckAccessClaim(r)
      PROVE  Reasons'
  BY <1>1, <1>5 DEF CheckRevoked, CheckClaim, CheckAccessRevoked, CheckAccessClaim, SaveBegins
<1>6. ASSUME NEW r \in Request, RegisterClaim(r) PROVE Reasons'
  BY <1>0, <1>6 DEF RegisterClaim, SaveBegins, Empty, Reasons, TypeOK, Claims
<1>7. ASSUME NEW r \in Request, Answer(r) PROVE Reasons'
  BY <1>2, <1>7 DEF Answer
<1>8. ASSUME NEW p \in Peer, RevokePeer(p) PROVE Reasons'
  BY <1>0, <1>8 DEF RevokePeer, SaveBegins, Empty, Reasons
<1>9. ASSUME NEW p \in Peer, UnrevokePeer(p) PROVE Reasons'
  BY <1>0, <1>9 DEF UnrevokePeer, FlagsWithout, SaveBegins, Empty, Reasons
<1>10. ASSUME NEW p \in Peer, UnlockPeerClaim(p) \/ DeleteRepo(p) PROVE Reasons'
  <2>1. /\ claim' = [claim EXCEPT ![p] = None] /\ flagged' = flagged \ {p}
        /\ revoked \ {p} \subseteq revoked' /\ file' \in {file, Empty}
    BY <1>10 DEF UnlockPeerClaim, UnlockSaves, DeleteRepo, SaveBegins
  <2>2. \A q \in Peer \ {p} : claim'[q] = claim[q]
    BY <1>0, <2>1 DEF TypeOK, Claims
  <2> QED
    BY <1>0, <2>1, <2>2 DEF Reasons, Empty, TypeOK
<1>11. CASE AdminSaved
  BY <1>2, <1>11 DEF AdminSaved
<1>12. CASE Crash
  BY <1>12 DEF Crash, Reasons
<1>13. CASE Restart
  BY <1>13 DEF Restart, Reasons
<1> QED
  BY <1>3, <1>4, <1>5, <1>6, <1>7, <1>8, <1>9, <1>10, <1>11, <1>12, <1>13, Steps

\* The Revoked flag of a claim never outlives the revocation nor the claim, in
\* memory or, by FileCurrent, in the file.
THEOREM FlagsAreFounded == Spec => []FlagsHaveReason
<1>1. Init => Typing /\ Reasons
  BY InitTyped DEF Init, Reasons, Empty
<1>2. Typing /\ Reasons /\ [Next]_vars => (Typing /\ Reasons)'
  BY StepTyped, StepReasons
<1>3. Typing /\ Reasons /\ FileCurrent => FlagsHaveReason
  BY DEF Typing, Reasons, FlagsHaveReason
<1> QED
  BY <1>1, <1>2, <1>3, FileFollows, PTL DEF Spec

-----------------------------------------------------------------------------
(* Whom a revocation or a claim shuts out *)

\* A request whose peer has been revoked all along is on its way to its refusal.
Barred ==
  /\ \A r \in through : peer[r] \in revoked /\ pc[r] \in {"cred", "access", "denied"}
  /\ ~up => through = {}

\* A token that is or was in a claim, wherever that has been seen, has been
\* registered, and a request registers one token, once; nobody lives across a crash.
Registered(t) == t # None => pc[t] \notin {"idle", "cred", "allowed", "claiming"}
Used ==
  /\ \A p \in Peer : Registered(claim[p]) /\ Registered(file.claim[p])
  /\ \A r \in Request : Registered(found[r])
  /\ ~up => \A r \in Request : pc[r] \in {"idle", "granted", "denied", "dead"}
Latecomers == \A r \in Request : ClaimedToOthers(r) => pc[r] # "claiming"

LEMMA StepBarred ==
  ASSUME Typing, Barred, [Next]_vars
  PROVE  Barred'
<1> USE GitAssumption
<1>0. TypeOK /\ Addressed
  BY DEF Typing
\* One request moves, if it is barred to its refusal.
<1>1. ASSUME NEW r \in Request, NEW q \in Place, pc' = [pc EXCEPT ![r] = q],
             UNCHANGED <<peer, revoked, through, up>>, r \in through => q = "denied"
      PROVE  Barred'
  BY <1>0, <1>1 DEF Barred, TypeOK
\* One request arrives; it is about no peer yet.
<1>2. ASSUME NEW r \in Request, NEW p \in Peer, NEW q \in {"cred", "access"}, pc[r] = "idle",
             pc' = [pc EXCEPT ![r] = q], peer' = [peer EXCEPT ![r] = p],
             through' = IF p \in revoked THEN through \cup {r} ELSE through,
             revoked' = revoked, up, up'
      PROVE  Barred'
  <2>1. r \notin through
    BY <1>2 DEF Barred
  <2>2. \A d \in Request : /\ pc'[d] = IF d = r THEN q ELSE pc[d]
                           /\ peer'[d] = IF d = r THEN p ELSE peer[d]
    BY <1>0, <1>2 DEF TypeOK
  <2> QED
    BY <1>0, <1>2, <2>1, <2>2 DEF Barred, TypeOK
<1>3. ASSUME UNCHANGED <<pc, peer, up>>, through' \subseteq through,
             \A r \in through' : peer[r] \in revoked => peer[r] \in revoked'
      PROVE  Barred'
  BY <1>3 DEF Barred
<1>4. CASE UNCHANGED vars
  BY <1>3, <1>4 DEF vars, reqVars, memVars, procVars, histVars
<1>5. ASSUME NEW r \in Request, NEW p \in Peer, NEW t \in Token \cup {None}, NEW a \in BOOLEAN,
             AskCredentials(r, p, t, a)
      PROVE  Barred'
  BY <1>2, <1>5 DEF AskCredentials, Goes, memVars, procVars
<1>6. ASSUME NEW r \in Request, NEW p \in Peer, NEW t \in Token, AskAccess(r, p, t) PROVE Barred'
  BY <1>2, <1>6 DEF AskAccess, Goes, memVars, procVars
<1>7. ASSUME NEW r \in Request, CheckRevoked(r) \/ CheckAccessRevoked(r) PROVE Barred'
  <2>1. r \in through => IsPeerRevoked(peer[r])
    BY DEF Barred, IsPeerRevoked
  <2> QED
    BY <1>1, <1>7, <2>1 DEF CheckRevoked, CheckAccessRevoked, Goes, Place, memVars, procVars, histVars
<1>8. ASSUME NEW r \in Request, CheckClaim(r) \/ RegisterClaim(r) PROVE Barred'
  BY <1>1, <1>8 DEF CheckClaim, RegisterClaim, Goes, Place, Barred, memVars, procVars, histVars
<1>9. ASSUME NEW r \in Request, Answer(r) PROVE Barred'
  BY <1>1, <1>9 DEF Answer, Goes, Place, Barred, memVars, histVars
<1>10. ASSUME NEW r \in Request, CheckAccessClaim(r) PROVE Barred'
  <2>1. /\ pc[r] = "admitted" /\ \E q \in Place : pc' = [pc EXCEPT ![r] = q]
        /\ UNCHANGED <<peer, memVars, procVars, histVars>>
    BY <1>10 DEF CheckAccessClaim, Goes, Place
  <2> QED
    BY <1>1, <2>1 DEF Barred, memVars, procVars, histVars
<1>11. ASSUME NEW p \in Peer, RevokePeer(p) PROVE Barred'
  BY <1>3, <1>11 DEF RevokePeer, reqVars, procVars, histVars
<1>12. ASSUME NEW p \in Peer, UnrevokePeer(p) \/ DeleteRepo(p) PROVE Barred'
  BY <1>3, <1>12 DEF UnrevokePeer, DeleteRepo, Others, reqVars, procVars
<1>13. ASSUME NEW p \in Peer, UnlockPeerClaim(p) PROVE Barred'
  BY <1>3, <1>13 DEF UnlockPeerClaim, reqVars, procVars, histVars
<1>14. CASE AdminSaved
  BY <1>3, <1>14 DEF AdminSaved, reqVars, memVars, procVars, histVars
<1>15. CASE Crash
  BY <1>15 DEF Crash, Barred
<1>16. CASE Restart
  BY <1>16 DEF Restart, Barred, histVars
<1> QED
  BY <1>4, <1>5, <1>6, <1>7, <1>8, <1>9, <1>10, <1>11, <1>12, <1>13, <1>14, <1>15, <1>16, Steps

LEMMA StepUsed ==
  ASSUME Typing, Used, [Next]_vars
  PROVE  Used'
<1> USE GitAssumption
<1>0. TypeOK /\ Addressed
  BY DEF Typing
<1>a. /\ \A p \in Peer : claim[p] \in Request \cup {None} /\ file.claim[p] \in Request \cup {None}
      /\ \A r \in Request : found[r] \in Request \cup {None}
  BY <1>0 DEF TypeOK, Claims, Token
\* The process runs, requests move on or not at all, and claims become None or stay.
<1>1. ASSUME up = TRUE, up' = TRUE, found' = found,
             \A t \in Request : pc[t] \notin {"idle", "cred", "allowed", "claiming"}
                                => pc'[t] \notin {"idle", "cred", "allowed", "claiming"},
             \A p \in Peer : claim'[p] \in {claim[p], None},
             file' \in {file, Memory, Empty}
      PROVE  Used'
  <2>1. \A p \in Peer : file'.claim[p] \in {file.claim[p], claim[p], None}
    BY <1>1 DEF Memory, Empty, Unclaimed
  <2> QED
    BY <1>1, <1>a, <2>1 DEF Used, Registered
<1>2. ASSUME NEW r \in Request, NEW q \in Place \ {"idle", "cred"}, up = TRUE, up' = TRUE,
             pc[r] # "idle",
             pc' = [pc EXCEPT ![r] = q], q \in {"allowed", "claiming"} => pc[r] \in {"cred", "allowed"},
             UNCHANGED <<claim, found>>, file' \in {file, Memory, Empty}
      PROVE  Used'
  BY <1>0, <1>1, <1>2 DEF TypeOK
<1>3. CASE UNCHANGED vars
  BY <1>3 DEF vars, reqVars, memVars, procVars, histVars, Used, Registered
<1>4. ASSUME NEW r \in Request, NEW p \in Peer, NEW t \in Token \cup {None}, NEW a \in BOOLEAN,
             AskCredentials(r, p, t, a)
      PROVE  Used'
  <2>1. /\ pc[r] = "idle" /\ pc' = [pc EXCEPT ![r] = "cred"] /\ up = TRUE
        /\ found' = [found EXCEPT ![r] = claim[p]] /\ UNCHANGED <<claim, file, up>>
    BY <1>0, <1>4 DEF AskCredentials, Goes, memVars, procVars, TypeOK
  <2>2. \A d \in Request : /\ pc'[d] = IF d = r THEN "cred" ELSE pc[d]
                           /\ found'[d] = IF d = r THEN claim[p] ELSE found[d]
    BY <1>0, <2>1 DEF TypeOK
  <2> QED
    BY <1>a, <2>1, <2>2 DEF Used, Registered
<1>5. ASSUME NEW r \in Request, NEW p \in Peer, NEW t \in Token, AskAccess(r, p, t) PROVE Used'
  <2>1. /\ pc[r] = "idle" /\ pc' = [pc EXCEPT ![r] = "access"] /\ up = TRUE
        /\ UNCHANGED <<claim, file, up, found>>
    BY <1>0, <1>5 DEF AskAccess, Goes, memVars, procVars, TypeOK
  <2> QED
    BY <1>0, <1>1, <2>1 DEF TypeOK
<1>6. ASSUME NEW r \in Request, CheckRevoked(r) \/ CheckClaim(r) \/ CheckAccessRevoked(r) PROVE Used'
  BY <1>0, <1>2, <1>6 DEF CheckRevoked, CheckClaim, CheckAccessRevoked, Free, Goes, Place, TypeOK,
     memVars, procVars, histVars
<1>7. ASSUME NEW r \in Request, CheckAccessClaim(r) PROVE Used'
  <2>1. /\ pc[r] = "admitted" /\ \E q \in {"saving", "denied", "granted"} : pc' = [pc EXCEPT ![r] = q]
        /\ up = TRUE /\ UNCHANGED <<memVars, up, histVars>> /\ file' \in {file, Empty}
    BY <1>0, <1>7 DEF CheckAccessClaim, SaveBegins, Free, Goes, TypeOK, procVars
  <2> QED
    BY <1>2, <2>1 DEF Place, memVars, histVars
<1>8. ASSUME NEW r \in Request, RegisterClaim(r) PROVE Used'
  <2>1. /\ pc[r] = "claiming" /\ pc' = [pc EXCEPT ![r] = "saving"] /\ up = TRUE
        /\ claim' = [claim EXCEPT ![peer[r]] = r] /\ UNCHANGED <<up, found>>
        /\ file' \in {file, Empty}
    BY <1>0, <1>8 DEF RegisterClaim, SaveBegins, Free, Goes, TypeOK, procVars, histVars
  <2>2. /\ \A d \in Request : pc'[d] = IF d = r THEN "saving" ELSE pc[d]
        /\ \A p \in Peer : claim'[p] \in {claim[p], r}
        /\ \A p \in Peer : file'.claim[p] \in {file.claim[p], None}
    BY <1>0, <2>1 DEF TypeOK, Claims, Empty, Unclaimed
  <2> QED
    BY <1>a, <2>1, <2>2 DEF Used, Registered
<1>9. ASSUME NEW r \in Request, Answer(r) PROVE Used'
  <2>1. /\ pc[r] = "saving" /\ pc' = [pc EXCEPT ![r] = "granted"] /\ up = TRUE /\ up' = TRUE
        /\ file' \in {file, Memory} /\ UNCHANGED <<claim, found>>
    BY <1>0, <1>9 DEF Answer, SaveEnds, Goes, TypeOK, memVars, histVars
  <2> QED
    BY <1>0, <1>1, <2>1 DEF TypeOK
<1>10. ASSUME NEW p \in Peer, RevokePeer(p) \/ UnrevokePeer(p) PROVE Used'
  <2>1. /\ up = TRUE /\ file' \in {file, Empty} /\ UNCHANGED <<pc, claim, up, found>>
    BY <1>0, <1>10 DEF RevokePeer, UnrevokePeer, SaveBegins, Free, TypeOK, reqVars, procVars, histVars
  <2> QED
    BY <1>1, <2>1
<1>11. ASSUME NEW p \in Peer, UnlockPeerClaim(p) \/ DeleteRepo(p) PROVE Used'
  <2>1. /\ claim' = [claim EXCEPT ![p] = None] /\ up = TRUE /\ UNCHANGED <<pc, up, found>>
        /\ file' \in {file, Empty}
    BY <1>0, <1>11 DEF UnlockPeerClaim, UnlockSaves, DeleteRepo, SaveBegins, Free, TypeOK, reqVars,
       procVars, histVars
  <2>2. \A q \in Peer : claim'[q] \in {claim[q], None}
    BY <1>0, <2>1 DEF TypeOK, Claims
  <2> QED
    BY <1>1, <2>1, <2>2
<1>12. CASE AdminSaved
  <2>1. /\ up = TRUE /\ up' = TRUE /\ file' \in {file, Memory} /\ UNCHANGED <<pc, claim, found>>
    BY <1>0, <1>12 DEF AdminSaved, SaveEnds, TypeOK, reqVars, memVars, histVars
  <2> QED
    BY <1>1, <2>1
<1>13. CASE Crash
  <2>1. /\ \A r \in Request : pc'[r] = IF pc[r] \in {"idle", "granted", "denied"} THEN pc[r] ELSE "dead"
        /\ claim' = Unclaimed /\ UNCHANGED <<file, found>>
    BY <1>13 DEF Crash
  <2> QED
    BY <1>a, <2>1 DEF Used, Registered, Unclaimed
<1>14. CASE Restart
  <2>1. claim' = file.claim /\ UNCHANGED <<pc, file, found>> /\ up' = TRUE
    BY <1>14 DEF Restart, reqVars, histVars
  <2> QED
    BY <1>a, <2>1 DEF Used, Registered
<1> QED
  BY <1>3, <1>4, <1>5, <1>6, <1>7, <1>8, <1>9, <1>10, <1>11, <1>12, <1>13, <1>14, Steps

LEMMA StepLatecomers ==
  ASSUME Typing, Used, Latecomers, [Next]_vars
  PROVE  Latecomers'
<1> USE GitAssumption
<1>0. TypeOK /\ Addressed
  BY DEF Typing
\* Nobody comes to "claiming", and who is there sees no claim appear it had found.
<1>1. ASSUME \A r \in Request : pc'[r] = "claiming" =>
               /\ pc[r] = "claiming" /\ peer'[r] = peer[r] /\ found'[r] = found[r]
               /\ shown'[r] = shown[r] /\ byAdmin'[r] = byAdmin[r]
               /\ found[r] # None /\ claim'[peer[r]] = found[r] => claim[peer[r]] = found[r]
      PROVE  Latecomers'
  BY <1>1 DEF Latecomers, ClaimedToOthers, Anonymous
<1>2. ASSUME UNCHANGED <<peer, shown, byAdmin, claim, found>>,
             \A r \in Request : pc'[r] = "claiming" => pc[r] = "claiming"
      PROVE  Latecomers'
  BY <1>1, <1>2
<1>3. CASE UNCHANGED vars
  BY <1>2, <1>3 DEF vars, reqVars, memVars, histVars
<1>4. ASSUME NEW r \in Request, NEW p \in Peer, NEW t \in Token \cup {None}, NEW a \in BOOLEAN,
             AskCredentials(r, p, t, a)
      PROVE  Latecomers'
  BY <1>0, <1>1, <1>4 DEF AskCredentials, Goes, TypeOK, memVars
<1>5. ASSUME NEW r \in Request, NEW p \in Peer, NEW t \in Token, AskAccess(r, p, t) PROVE Latecomers'
  BY <1>0, <1>1, <1>5 DEF AskAccess, Goes, TypeOK, memVars
<1>6. ASSUME NEW r \in Request, CheckRevoked(r) \/ CheckAccessRevoked(r) PROVE Latecomers'
  BY <1>0, <1>2, <1>6 DEF CheckRevoked, CheckAccessRevoked, Goes, TypeOK, memVars, histVars
<1>7. ASSUME NEW r \in Request, CheckClaim(r) PROVE Latecomers'
  <2>1. /\ pc' = [pc EXCEPT ![r] = IF MayClaim(r, claim[peer[r]]) THEN "claiming" ELSE "denied"]
        /\ UNCHANGED <<peer, shown, byAdmin, claim, found>>
    BY <1>7 DEF CheckClaim, Goes, memVars, histVars
  <2>2. ClaimedToOthers(r) => ~MayClaim(r, claim[peer[r]])
    BY DEF ClaimedToOthers, Anonymous, MayClaim
  <2>3. \A d \in Request \ {r} : pc'[d] = pc[d]
    BY <1>0, <2>1 DEF TypeOK
  <2>4. \A d \in Request : ClaimedToOthers(d)' <=> ClaimedToOthers(d)
    BY <2>1 DEF ClaimedToOthers, Anonymous
  <2>5. ClaimedToOthers(r) => pc'[r] = "denied"
    BY <1>0, <2>1, <2>2 DEF TypeOK
  <2> QED
    BY <2>3, <2>4, <2>5 DEF Latecomers
<1>8. ASSUME NEW r \in Request, CheckAccessClaim(r) PROVE Latecomers'
  <2>1. /\ \E q \in {"saving", "denied", "granted"} : pc' = [pc EXCEPT ![r] = q]
        /\ UNCHANGED <<peer, shown, byAdmin, claim, found>>
    BY <1>8 DEF CheckAccessClaim, Goes, memVars, histVars
  <2> QED
    BY <1>0, <1>2, <2>1 DEF TypeOK
<1>9. ASSUME NEW r \in Request, RegisterClaim(r) PROVE Latecomers'
  <2>1. /\ pc[r] = "claiming" /\ pc' = [pc EXCEPT ![r] = "saving"]
        /\ claim' = [claim EXCEPT ![peer[r]] = r] /\ UNCHANGED <<peer, shown, byAdmin, found>>
    BY <1>9 DEF RegisterClaim, Goes, histVars
  <2>2. \A d \in Request : found[d] # r
    BY <2>1 DEF Used, Registered
  <2>3. \A d \in Request : pc'[d] = "claiming" => pc[d] = "claiming" /\ peer[d] \in Peer
    BY <1>0, <2>1 DEF TypeOK, Addressed
  <2>4. \A p \in Peer : claim'[p] # r => claim'[p] = claim[p]
    BY <1>0, <2>1 DEF TypeOK, Claims
  <2> QED
    BY <1>1, <2>1, <2>2, <2>3, <2>4
<1>10. ASSUME NEW r \in Request, Answer(r) PROVE Latecomers'
  BY <1>0, <1>2, <1>10 DEF Answer, Goes, TypeOK, memVars, histVars
<1>11. ASSUME NEW p \in Peer, RevokePeer(p) \/ UnrevokePeer(p) PROVE Latecomers'
  BY <1>2, <1>11 DEF RevokePeer, UnrevokePeer, reqVars, histVars
<1>12. ASSUME NEW p \in Peer, UnlockPeerClaim(p) \/ DeleteRepo(p) PROVE Latecomers'
  <2>1. claim' = [claim EXCEPT ![p] = None] /\ UNCHANGED <<pc, peer, shown, byAdmin, found>>
    BY <1>12 DEF UnlockPeerClaim, DeleteRepo, reqVars, histVars
  <2>2. \A q \in Peer : claim'[q] # None => claim'[q] = claim[q]
    BY <1>0, <2>1 DEF TypeOK, Claims
  <2>3. \A d \in Request : pc[d] = "claiming" => peer[d] \in Peer
    BY <1>0 DEF TypeOK, Addressed
  <2> QED
    BY <1>1, <2>1, <2>2, <2>3
<1>13. CASE AdminSaved
  BY <1>2, <1>13 DEF AdminSaved, reqVars, memVars, histVars
<1>14. CASE Crash
  BY <1>14 DEF Crash, Latecomers
<1>15. CASE Restart
  BY <1>1, <1>15 DEF Restart, Used, reqVars, histVars
<1> QED
  BY <1>3, <1>4, <1>5, <1>6, <1>7, <1>8, <1>9, <1>10, <1>11, <1>12, <1>13, <1>14, <1>15, Steps

\* What was decided when a request arrived, and is not taken back before it has
\* been handled, shuts it out: a revocation, or the claim of another device.
THEOREM ShutsOut == Spec => []LatecomersShutOut
<1> DEFINE Inv == Typing /\ Barred /\ Used /\ Latecomers
<1>1. Init => Inv
  BY InitTyped DEF Init, Barred, Used, Registered, Latecomers, Empty, Unclaimed
<1>2. Inv /\ [Next]_vars => Inv'
  BY StepTyped, StepBarred, StepUsed, StepLatecomers
<1>3. Inv => LatecomersShutOut
  BY DEF Barred, Latecomers, LatecomersShutOut, RevokedGetNothing
<1> QED
  BY <1>1, <1>2, <1>3, PTL DEF Spec
=============================================================================
