--------------------------- MODULE PushStoreProofs ---------------------------
(***************************************************************************)
(* Theorems about PushStore, for any number of workers, peers,             *)
(* subscriptions and key pairs: the subscriptions file is always whole     *)
(* and, if writes succeed, holds what was answered, keeps the promise of   *)
(* DurableMap and is bound to the keys in use, and a subscription is lost  *)
(* only to a notification that was under way when it was made.             *)
(***************************************************************************)
EXTENDS PushStore, TLAPS

LEMMA TypeStep == TypeOK /\ [Next]_vars => TypeOK'
<1> SUFFICES ASSUME TypeOK, [Next]_vars PROVE TypeOK'
  OBVIOUS
<1> USE PushAssumption DEF TypeOK, keyVars, workVars, Goes, About
<1>0. {"idle", "subscribe", "send", "gone", "writing", "written", "saved"} \subseteq Place
      /\ NoRecords \in Records
  BY DEF Place, Records, NoRecords
<1>1. CASE StartKeys
  <2>1. Loaded \in Records
    BY <1>0 DEF Loaded
  <2> QED BY <1>1, <2>1 DEF StartKeys
<1>2. CASE KeysWritten
  BY <1>2 DEF KeysWritten
<1>3. CASE Crash
  BY <1>0, <1>3 DEF Crash
<1>4. ASSUME NEW k \in Worker, NEW p \in Peer, HandleSend(k, p)
      PROVE  TypeOK'
  <2>1. records[p] \in Sub \cup {None}
    BY DEF Records
  <2> QED BY <1>0, <1>4, <2>1 DEF HandleSend
<1>5. ASSUME NEW k \in Worker, NEW p \in Peer, NEW s \in Sub, Register(k, p, s)
      PROVE  TypeOK'
  BY <1>0, <1>5 DEF Register
<1>6. ASSUME NEW k \in Worker, HandleSubscribe(k)
      PROVE  TypeOK'
  <2>1. records' \in Records
    BY <1>6 DEF HandleSubscribe, Records
  <2>2. raced' \subseteq Peer
    BY <1>6 DEF HandleSubscribe
  <2> QED BY <1>0, <1>6, <2>1, <2>2 DEF HandleSubscribe, Saves
<1>7. ASSUME NEW k \in Worker, SendNotification(k)
      PROVE  TypeOK'
  BY <1>0, <1>7 DEF SendNotification
<1>8. ASSUME NEW k \in Worker, Prune(k)
      PROVE  TypeOK'
  <2>1. records' \in Records
    BY <1>8 DEF Prune, Records
  <2> QED BY <1>0, <1>8, <2>1 DEF Prune, Saves
<1>9. ASSUME NEW k \in Worker, SaveWritten(k)
      PROVE  TypeOK'
  BY <1>0, <1>9 DEF SaveWritten
<1>10. ASSUME NEW k \in Worker, SaveRenamed(k)
       PROVE  TypeOK'
  <2>1. stored' \in Records
    BY <1>10 DEF SaveRenamed, Records
  <2> QED BY <1>0, <1>10, <2>1 DEF SaveRenamed
<1>11. ASSUME NEW k \in Worker, Answer(k)
       PROVE  TypeOK'
  BY <1>0, <1>11 DEF Answer
<1>12. ASSUME NEW s \in Sub, Expires(s)
       PROVE  TypeOK'
  BY <1>12 DEF Expires
<1>13. CASE UNCHANGED vars
  BY <1>13 DEF vars
<1> QED
  BY <1>1, <1>2, <1>3, <1>4, <1>5, <1>6, <1>7, <1>8, <1>9, <1>10, <1>11, <1>12, <1>13
  DEF Next, Start, Request

\* Every reachable state of the push store is well typed (PushManager's fields,
\* its two files and the goroutines of its handlers).
THEOREM TypeCorrect == Spec => []TypeOK
<1>1. Init => TypeOK
  BY PushAssumption DEF Init, TypeOK, Records, NoRecords, Place
<1> QED BY <1>1, TypeStep, PTL DEF Spec

-----------------------------------------------------------------------------
(* The file *)

Saving == {"writing", "written", "saved"}

\* Whoever saves holds the mutex, and nobody works before the process is up.
Exclusive ==
  /\ \A k \in Worker : pc[k] \in Saving <=> holder = k
  /\ up # "up" => \A k \in Worker : pc[k] = "idle"

\* How far a save has got says what the two files hold.
SaveProgress ==
  /\ store # Torn
  /\ \A k \in Worker : pc[k] = "written" => tmp = records
  /\ \A k \in Worker : pc[k] = "saved" => store = records
  /\ up # "down" /\ holder = None => records = Loaded

FileInv == Exclusive /\ SaveProgress

LEMMA ExclusiveStep == TypeOK /\ Exclusive /\ [Next]_vars => Exclusive'
<1> SUFFICES ASSUME TypeOK, Exclusive, [Next]_vars PROVE Exclusive'
  OBVIOUS
<1> USE PushAssumption DEF TypeOK, Exclusive, Saving, keyVars, workVars, Goes, About
<1>1. CASE StartKeys
  BY <1>1 DEF StartKeys
<1>2. CASE KeysWritten
  BY <1>2 DEF KeysWritten
<1>3. CASE Crash
  BY <1>3 DEF Crash
<1>4. ASSUME NEW k \in Worker, NEW p \in Peer, HandleSend(k, p)
      PROVE  Exclusive'
  BY <1>4 DEF HandleSend
<1>5. ASSUME NEW k \in Worker, NEW p \in Peer, NEW s \in Sub, Register(k, p, s)
      PROVE  Exclusive'
  BY <1>5 DEF Register
<1>6. ASSUME NEW k \in Worker, HandleSubscribe(k)
      PROVE  Exclusive'
  BY <1>6 DEF HandleSubscribe, Saves
<1>7. ASSUME NEW k \in Worker, SendNotification(k)
      PROVE  Exclusive'
  BY <1>7 DEF SendNotification
<1>8. ASSUME NEW k \in Worker, Prune(k)
      PROVE  Exclusive'
  BY <1>8 DEF Prune, Saves
<1>9. ASSUME NEW k \in Worker, SaveWritten(k)
      PROVE  Exclusive'
  BY <1>9 DEF SaveWritten
<1>10. ASSUME NEW k \in Worker, SaveRenamed(k)
       PROVE  Exclusive'
  BY <1>10 DEF SaveRenamed
<1>11. ASSUME NEW k \in Worker, Answer(k)
       PROVE  Exclusive'
  BY <1>11 DEF Answer
<1>12. ASSUME NEW s \in Sub, Expires(s)
       PROVE  Exclusive'
  BY <1>12 DEF Expires
<1>13. CASE UNCHANGED vars
  BY <1>13 DEF vars
<1> QED
  BY <1>1, <1>2, <1>3, <1>4, <1>5, <1>6, <1>7, <1>8, <1>9, <1>10, <1>11, <1>12, <1>13
  DEF Next, Start, Request

\* A save under way has the mutex, so that nobody changes the records: what is
\* renamed is what was written, and what was written is what there is.
LEMMA ProgressStep ==
  ASSUME ~WriteFails
  PROVE  TypeOK /\ FileInv /\ [Next]_vars => SaveProgress'
<1> SUFFICES ASSUME TypeOK, Exclusive, SaveProgress, [Next]_vars PROVE SaveProgress'
  BY DEF FileInv
<1> USE PushAssumption
    DEF TypeOK, Exclusive, SaveProgress, Saving, Loaded, keyVars, workVars, Goes, About
<1>1. CASE StartKeys
  BY <1>1 DEF StartKeys
<1>2. CASE KeysWritten
  BY <1>2 DEF KeysWritten
<1>3. CASE Crash
  BY <1>3 DEF Crash
<1>4. ASSUME NEW k \in Worker, NEW p \in Peer, HandleSend(k, p)
      PROVE  SaveProgress'
  BY <1>4 DEF HandleSend
<1>5. ASSUME NEW k \in Worker, NEW p \in Peer, NEW s \in Sub, Register(k, p, s)
      PROVE  SaveProgress'
  BY <1>5 DEF Register
<1>6. ASSUME NEW k \in Worker, HandleSubscribe(k)
      PROVE  SaveProgress'
  BY <1>6 DEF HandleSubscribe, Saves
<1>7. ASSUME NEW k \in Worker, SendNotification(k)
      PROVE  SaveProgress'
  BY <1>7 DEF SendNotification
<1>8. ASSUME NEW k \in Worker, Prune(k)
      PROVE  SaveProgress'
  BY <1>8 DEF Prune, Saves
<1>9. ASSUME NEW k \in Worker, SaveWritten(k)
      PROVE  SaveProgress'
  BY <1>9 DEF SaveWritten
<1>10. ASSUME NEW k \in Worker, SaveRenamed(k)
       PROVE  SaveProgress'
  <2>1. tmp = records /\ store' = records /\ records' = records /\ records # Torn
    BY <1>10 DEF SaveRenamed, Records
  <2> QED BY <1>10, <2>1 DEF SaveRenamed
<1>11. ASSUME NEW k \in Worker, Answer(k)
       PROVE  SaveProgress'
  <2>1. store = records /\ records \notin {None, Torn}
    BY <1>11 DEF Answer, Records
  <2> QED BY <1>11, <2>1 DEF Answer
<1>12. ASSUME NEW s \in Sub, Expires(s)
       PROVE  SaveProgress'
  BY <1>12 DEF Expires
<1>13. CASE UNCHANGED vars
  BY <1>13 DEF vars
<1> QED
  BY <1>1, <1>2, <1>3, <1>4, <1>5, <1>6, <1>7, <1>8, <1>9, <1>10, <1>11, <1>12, <1>13
  DEF Next, Start, Request

\* What is in memory and not yet in the file is the one record being saved.
Pending ==
  up # "down" =>
    \A p \in Peer :
      records[p] = Loaded[p] \/ \E k \in Worker : pc[k] \in {"writing", "written"} /\ peer[k] = p

LEMMA PendingStep ==
  ASSUME ~WriteFails
  PROVE  TypeOK /\ FileInv /\ Pending /\ [Next]_vars => Pending'
<1> SUFFICES ASSUME TypeOK, FileInv, Pending, [Next]_vars PROVE Pending'
  OBVIOUS
<1> DEFINE Busy(k, p) == pc[k] \in {"writing", "written"} /\ peer[k] = p
<1>0. /\ pc \in [Worker -> Place] /\ peer \in [Worker -> Peer \cup {None}] /\ records \in Records
      /\ up # "down" => \A p \in Peer : records[p] = Loaded[p] \/ \E k \in Worker : Busy(k, p)
      /\ \A k \in Worker : pc[k] \in Saving <=> holder = k
      /\ \A k \in Worker : pc[k] = "saved" => store = records
      /\ Loaded \in Records
  BY DEF TypeOK, Pending, FileInv, Exclusive, SaveProgress, Loaded, NoRecords, Records
<1>1. ASSUME UNCHANGED <<records, store>>, up' # "down" => up # "down",
             \A k \in Worker, p \in Peer : Busy(k, p) => Busy(k, p)'
      PROVE  Pending'
  BY <1>0, <1>1 DEF Pending, Loaded
<1>2. CASE StartKeys
  BY <1>2 DEF StartKeys, Pending, Loaded
<1>3. CASE Crash
  BY <1>3 DEF Crash, Pending
<1>4. CASE KeysWritten
  BY <1>1, <1>4 DEF KeysWritten, workVars
<1>5. ASSUME NEW k \in Worker, NEW p \in Peer, HandleSend(k, p)
      PROVE  Pending'
  BY <1>0, <1>1, <1>5 DEF HandleSend, Goes, About
<1>6. ASSUME NEW k \in Worker, NEW p \in Peer, NEW s \in Sub, Register(k, p, s)
      PROVE  Pending'
  BY <1>0, <1>1, <1>6 DEF Register, Goes, About
<1>7. ASSUME NEW k \in Worker, SendNotification(k)
      PROVE  Pending'
  BY <1>0, <1>1, <1>7 DEF SendNotification, Goes, About
<1>8. ASSUME NEW k \in Worker, HandleSubscribe(k) \/ Prune(k)
      PROVE  Pending'
  <2>1. /\ pc' = [pc EXCEPT ![k] = "writing"] /\ peer'[k] = peer[k]
        /\ \E v : records' = [records EXCEPT ![peer[k]] = v]
        /\ UNCHANGED <<up, store>> /\ up # "down" /\ holder = None
    BY <1>0, <1>8, PushAssumption
    DEF HandleSubscribe, Prune, Saves, Goes, About, FileInv, Exclusive
  <2>2. \A j \in Worker : pc[j] \notin Saving
    BY <1>0, <2>1, PushAssumption
  <2>3. ASSUME NEW p \in Peer
        PROVE  records'[p] = Loaded'[p] \/ Busy(k, p)'
    <3>1. CASE p = peer[k]
      BY <1>0, <2>1, <3>1
    <3>2. CASE p # peer[k]
      <4>1. records'[p] = records[p]
        BY <1>0, <2>1, <3>2 DEF Records
      <4>2. records[p] = Loaded[p]
        BY <1>0, <2>1, <2>2 DEF Saving
      <4> QED BY <2>1, <4>1, <4>2 DEF Loaded
    <3> QED BY <3>1, <3>2
  <2> QED BY <2>3 DEF Pending
<1>9. ASSUME NEW k \in Worker, SaveWritten(k)
      PROVE  Pending'
  <2>1. /\ pc[k] = "writing" /\ pc' = [pc EXCEPT ![k] = "written"]
        /\ UNCHANGED <<up, records, store, peer>>
    BY <1>9 DEF SaveWritten, Goes
  <2> QED BY <1>0, <1>1, <2>1
<1>10. ASSUME NEW k \in Worker, SaveRenamed(k)
       PROVE  Pending'
  <2>1. tmp = records /\ store' = tmp /\ records' = records
    BY <1>10 DEF SaveRenamed, FileInv, SaveProgress
  <2>2. Loaded' = records'
    BY <1>0, <2>1, PushAssumption DEF Loaded, Records
  <2> QED BY <2>2 DEF Pending
<1>11. ASSUME NEW k \in Worker, Answer(k)
       PROVE  Pending'
  <2>1. store' = records' /\ records' = records
    BY <1>0, <1>11 DEF Answer
  <2>2. Loaded' = records'
    BY <1>0, <2>1, PushAssumption DEF Loaded, Records
  <2> QED BY <2>2 DEF Pending
<1>12. ASSUME NEW s \in Sub, Expires(s)
       PROVE  Pending'
  BY <1>1, <1>12 DEF Expires, workVars
<1>13. CASE UNCHANGED vars
  BY <1>1, <1>13 DEF vars, workVars
<1> QED
  BY <1>2, <1>3, <1>4, <1>5, <1>6, <1>7, <1>8, <1>9, <1>10, <1>11, <1>12, <1>13
  DEF Next, Start, Request

LEMMA FileAlways == ASSUME ~WriteFails PROVE Spec => [](TypeOK /\ FileInv /\ Pending)
<1>1. Init => TypeOK /\ FileInv /\ Pending
  BY PushAssumption
  DEF Init, TypeOK, FileInv, Exclusive, SaveProgress, Saving, Pending, Records, NoRecords, Place
<1>2. TypeOK /\ FileInv /\ Pending /\ [Next]_vars => TypeOK' /\ FileInv' /\ Pending'
  BY TypeStep, ExclusiveStep, ProgressStep, PendingStep DEF FileInv
<1> QED BY <1>1, <1>2, PTL DEF Spec

\* If writes succeed, the subscriptions file is never torn, whenever the
\* process dies in saveToDiskLocked, and holds every record but the one that
\* is being saved: a peer whose subscription was answered is in it.
THEOREM FileFollows == ASSUME ~WriteFails PROVE Spec => []FileCurrent
<1>1. TypeOK /\ FileInv /\ Pending => FileCurrent
  BY DEF FileInv, SaveProgress, Pending, FileCurrent
<1>2. Spec => [](TypeOK /\ FileInv /\ Pending)
  BY FileAlways
<1> QED BY <1>1, <1>2, PTL

LEMMA InitDurable == Init => Durable!Init
  BY DEF Init, Durable!Init, Durable!Nowhere, Loaded, NoRecords

\* The rename is the change: what it puts in the place of the file differs in
\* the record of the worker that saves, whatever was saved, or died, before.
LEMMA StepDurable ==
  TypeOK /\ FileInv /\ Pending /\ [Next]_vars => [Durable!Next]_Loaded
<1> SUFFICES ASSUME TypeOK, FileInv, Pending, [Next]_vars, Loaded' # Loaded
             PROVE  Durable!Next
  OBVIOUS
<1>1. PICK k \in Worker : SaveRenamed(k)
  <2>1. store' # store
    BY DEF Loaded
  <2> QED
    BY <2>1
    DEF Next, Start, StartKeys, KeysWritten, Crash, Request, HandleSend, Register,
        HandleSubscribe, SendNotification, Prune, SaveWritten, Answer, Expires, vars
<1>2. /\ pc[k] = "written" /\ tmp = records /\ store' = records
      /\ records \in Records /\ Loaded \in Records /\ up # "down" /\ peer[k] \in Peer
  BY <1>1 DEF SaveRenamed, FileInv, SaveProgress, Exclusive, TypeOK, Loaded, NoRecords, Records
<1>3. Loaded' = records
  BY <1>2, PushAssumption DEF Loaded, Records
<1>4. \A j \in Worker : pc[j] \in {"writing", "written"} => j = k
  BY <1>2 DEF FileInv, Exclusive, Saving
<1>5. \A p \in Peer : p # peer[k] => records[p] = Loaded[p]
  BY <1>2, <1>4 DEF Pending
<1>6. PICK p \in Peer, v \in Sub \cup {None} : p = peer[k] /\ v = records[p]
  BY <1>2 DEF Records
<1>7. records = [Loaded EXCEPT ![p] = v]
  BY <1>2, <1>5, <1>6 DEF Records
<1>8. Durable!Change(p, v)
  BY <1>3, <1>7 DEF Durable!Change
<1> QED
  BY <1>8 DEF Durable!Next

\* If writes succeed, web push keeps its subscriptions as DurableMap says: the
\* rename in saveToDiskLocked changes one of them, nothing else changes what a
\* start would load, and no crash takes back what was answered.
THEOREM KeepsMap == ASSUME ~WriteFails PROVE Spec => SavesDurably
<1>1. Spec => [](TypeOK /\ FileInv /\ Pending)
  BY FileAlways
<1> QED
  BY <1>1, InitDurable, StepDurable, PTL DEF Spec, SavesDurably, Durable!Spec

-----------------------------------------------------------------------------
(* The keys *)

\* s has been made, by a browser that had a key.
Made(s) == s # None => keyOf[s] # 0
AllMade(r) == \A p \in Peer : Made(r[p])

\* Keys are written before anybody can subscribe, so that every subscription
\* there is was made with those in the file, in memory and on disk.
KeyInv ==
  /\ \A s \in Sub : keyOf[s] # 0 => keyOf[s] = keyFile
  /\ up = "up" => key = keyFile /\ key # 0
  /\ up = "keys" => keyFile = 0 /\ key # 0
  /\ AllMade(records)
  /\ store \notin {None, Torn} => AllMade(store)
  /\ tmp \notin {None, Torn} => AllMade(tmp)
  /\ \A k \in Worker : Made(sub[k])

LEMMA KeyStep ==
  ASSUME ~WriteFails
  PROVE  TypeOK /\ KeyInv /\ [Next]_vars => KeyInv'
<1> SUFFICES ASSUME TypeOK, KeyInv, [Next]_vars PROVE KeyInv'
  OBVIOUS
<1> USE PushAssumption
    DEF TypeOK, Records, KeyInv, AllMade, Made, keyVars, workVars, Goes, About
<1>1. CASE StartKeys
  <2>1. AllMade(Loaded)
    BY DEF Loaded, NoRecords
  <2> QED BY <1>1, <2>1 DEF StartKeys, KeysFound
<1>2. CASE KeysWritten
  BY <1>2 DEF KeysWritten
<1>3. CASE Crash
  BY <1>3 DEF Crash, NoRecords
<1>4. ASSUME NEW k \in Worker, NEW p \in Peer, HandleSend(k, p)
      PROVE  KeyInv'
  BY <1>4 DEF HandleSend
<1>5. ASSUME NEW k \in Worker, NEW p \in Peer, NEW s \in Sub, Register(k, p, s)
      PROVE  KeyInv'
  <2>1. \A u \in Sub : keyOf[u] # 0 => keyOf'[u] # 0
    BY <1>5 DEF Register
  <2> QED BY <1>5, <2>1 DEF Register
<1>6. ASSUME NEW k \in Worker, HandleSubscribe(k)
      PROVE  KeyInv'
  BY <1>6 DEF HandleSubscribe, Saves
<1>7. ASSUME NEW k \in Worker, SendNotification(k)
      PROVE  KeyInv'
  BY <1>7 DEF SendNotification
<1>8. ASSUME NEW k \in Worker, Prune(k)
      PROVE  KeyInv'
  BY <1>8 DEF Prune, Saves
<1>9. ASSUME NEW k \in Worker, SaveWritten(k)
      PROVE  KeyInv'
  BY <1>9 DEF SaveWritten
<1>10. ASSUME NEW k \in Worker, SaveRenamed(k)
       PROVE  KeyInv'
  BY <1>10 DEF SaveRenamed
<1>11. ASSUME NEW k \in Worker, Answer(k)
       PROVE  KeyInv'
  BY <1>11 DEF Answer
<1>12. ASSUME NEW s \in Sub, Expires(s)
       PROVE  KeyInv'
  BY <1>12 DEF Expires
<1>13. CASE UNCHANGED vars
  BY <1>13 DEF vars
<1> QED
  BY <1>1, <1>2, <1>3, <1>4, <1>5, <1>6, <1>7, <1>8, <1>9, <1>10, <1>11, <1>12, <1>13
  DEF Next, Start, Request

\* If writes succeed, every subscription that is kept was made with the VAPID
\* keys in use, after any number of crashes and starts: NewPushManager writes
\* vapid_keys.json before the server gives the key out.
THEOREM KeysFollow == ASSUME ~WriteFails PROVE Spec => []KeysMatch
<1>1. Init => TypeOK /\ KeyInv
  BY PushAssumption
  DEF Init, TypeOK, KeyInv, AllMade, Made, Records, NoRecords, Place
<1>2. TypeOK /\ KeyInv /\ [Next]_vars => TypeOK' /\ KeyInv'
  BY TypeStep, KeyStep
<1>3. TypeOK /\ KeyInv => KeysMatch
  BY PushAssumption DEF TypeOK, Records, KeyInv, AllMade, Made, KeysMatch
<1> QED BY <1>1, <1>2, <1>3, PTL DEF Spec

-----------------------------------------------------------------------------
(* Whoever has a subscription keeps it *)

\* p's subscription stored last is still good, and nobody has raced for it.
Live(p) == p \notin raced /\ stored[p] \in alive

\* k has put a subscription of p into the records and not yet into the file.
Storing(k, p) == pc[k] \in {"writing", "written"} /\ peer[k] = p /\ sub[k] # None

\* What is good is in the file, and in memory unless a newer one is on its way.
Kept ==
  /\ \A p \in Peer : Live(p) => Loaded[p] = stored[p]
  /\ up # "down" =>
       \A p \in Peer : Live(p) =>
         records[p] = stored[p] \/ \E k \in Worker : Storing(k, p)
  /\ \A p \in Peer : Made(stored[p])

\* What a worker is about to store, sends to, or is about to delete.
Errands ==
  \A k \in Worker :
    /\ pc[k] = "subscribe" => sub[k] \in Sub
    /\ pc[k] \in Saving /\ sub[k] # None => records[peer[k]] = sub[k]
    /\ pc[k] = "send" /\ Live(peer[k]) => sub[k] = stored[peer[k]]
    /\ pc[k] = "gone" => ~Live(peer[k])
    /\ pc[k] \in {"send", "gone"} =>
         \A j \in Worker : Storing(j, peer[k]) => peer[k] \in raced

RaceInv == FileInv /\ KeyInv /\ Kept /\ Errands

\* A step that leaves what is stored, and does not bring back what is gone,
\* makes nothing good that was not good before.
LEMMA LiveBefore ==
  ASSUME TypeOK, RaceInv, [Next]_vars, NEW p \in Peer, Live(p)', stored'[p] = stored[p]
  PROVE  Live(p)
<1> USE DEF Live, TypeOK, keyVars, workVars
<1>1. raced \subseteq raced'
  BY DEF Next, Start, StartKeys, KeysWritten, Crash, Request, HandleSend, Register,
         HandleSubscribe, SendNotification, Prune, SaveWritten, SaveRenamed, Answer, Expires, vars
<1>2. ASSUME NEW k \in Worker, NEW q \in Peer, NEW s \in Sub, Register(k, q, s)
      PROVE  stored[p] \in alive
  BY <1>2, PushAssumption DEF Register, RaceInv, Kept, Made, Records
<1>3. alive' \subseteq alive \/ \E k \in Worker, q \in Peer, s \in Sub : Register(k, q, s)
  BY DEF Next, Start, StartKeys, KeysWritten, Crash, Request, HandleSend,
         HandleSubscribe, SendNotification, Prune, SaveWritten, SaveRenamed, Answer, Expires, vars
<1> QED
  BY <1>1, <1>2, <1>3

LEMMA KeptStep ==
  ASSUME ~WriteFails
  PROVE  TypeOK /\ RaceInv /\ [Next]_vars => Kept'
<1> SUFFICES ASSUME TypeOK, RaceInv, [Next]_vars PROVE Kept'
  OBVIOUS
<1>0. \A p \in Peer : Live(p)' /\ stored'[p] = stored[p] => Live(p)
  BY LiveBefore
<1> USE PushAssumption
    DEF TypeOK, RaceInv, FileInv, Exclusive, SaveProgress, Saving, Loaded, Kept, Errands, Live, Storing,
        Made, Records, keyVars, workVars, Goes, About, Saves
<1>1. CASE StartKeys
  BY <1>0, <1>1 DEF StartKeys
<1>2. CASE KeysWritten
  BY <1>0, <1>2 DEF KeysWritten
<1>3. CASE Crash
  BY <1>0, <1>3 DEF Crash
<1>4. ASSUME NEW k \in Worker, NEW p \in Peer, HandleSend(k, p)
      PROVE  Kept'
  BY <1>0, <1>4 DEF HandleSend
<1>5. ASSUME NEW k \in Worker, NEW p \in Peer, NEW s \in Sub, Register(k, p, s)
      PROVE  Kept'
  BY <1>0, <1>5 DEF Register
<1>6. ASSUME NEW k \in Worker, HandleSubscribe(k)
      PROVE  Kept'
  BY <1>0, <1>6 DEF HandleSubscribe
<1>7. ASSUME NEW k \in Worker, SendNotification(k)
      PROVE  Kept'
  BY <1>0, <1>7 DEF SendNotification
<1>8. ASSUME NEW k \in Worker, Prune(k)
      PROVE  Kept'
  BY <1>0, <1>8 DEF Prune
<1>9. ASSUME NEW k \in Worker, SaveWritten(k)
      PROVE  Kept'
  BY <1>0, <1>9 DEF SaveWritten
<1>10. ASSUME NEW k \in Worker, SaveRenamed(k)
       PROVE  Kept'
  <2>1. Loaded' = records /\ records' = records /\ up' = up /\ up # "down"
    BY <1>10 DEF SaveRenamed, Records
  <2>2. peer[k] \in Peer /\ pc[k] = "written" /\ holder = k
        /\ \A j \in Worker : j # k => pc[j] \notin Saving
    BY <1>10 DEF SaveRenamed
  <2>3. CASE sub[k] = None
    <3>1. stored' = stored /\ \A p \in Peer : Live(p) => records[p] = stored[p]
      BY <1>10, <2>1, <2>2, <2>3 DEF SaveRenamed
    <3>2. \A p \in Peer : Live(p)' => Live(p)
      BY <1>0, <3>1
    <3>3. keyOf' = keyOf
      BY <1>10 DEF SaveRenamed
    <3> HIDE DEF Live, Loaded
    <3> QED
      BY <2>1, <3>1, <3>2, <3>3
  <2>4. CASE sub[k] # None
    <3>1. records[peer[k]] = sub[k] /\ stored' = [stored EXCEPT ![peer[k]] = sub[k]]
      BY <1>10, <2>2, <2>4 DEF SaveRenamed
    <3>2. \A p \in Peer : stored'[p] = IF p = peer[k] THEN records[p] ELSE stored[p]
      BY <3>1 DEF Records
    <3>3. ASSUME NEW p \in Peer, Live(p)', p # peer[k] PROVE records[p] = stored[p]
      <4>1. Live(p)
        BY <1>0, <3>2, <3>3
      <4>2. ~\E j \in Worker : Storing(j, p)
        BY <2>2, <3>3
      <4> QED
        BY <2>1, <4>1, <4>2
    <3>4. keyOf' = keyOf
      BY <1>10 DEF SaveRenamed
    <3> HIDE DEF Live, Loaded
    <3> QED
      BY <2>1, <3>2, <3>3, <3>4 DEF KeyInv, AllMade
  <2> QED
    BY <2>3, <2>4
<1>11. ASSUME NEW k \in Worker, Answer(k)
       PROVE  Kept'
  BY <1>0, <1>11 DEF Answer
<1>12. ASSUME NEW s \in Sub, Expires(s)
       PROVE  Kept'
  BY <1>0, <1>12 DEF Expires
<1>13. CASE UNCHANGED vars
  BY <1>0, <1>13 DEF vars
<1> QED
  BY <1>1, <1>2, <1>3, <1>4, <1>5, <1>6, <1>7, <1>8, <1>9, <1>10, <1>11, <1>12, <1>13
  DEF Next, Start, Request

LEMMA ErrandsStep ==
  ASSUME ~WriteFails
  PROVE  TypeOK /\ RaceInv /\ [Next]_vars => Errands'
<1> SUFFICES ASSUME TypeOK, RaceInv, [Next]_vars PROVE Errands'
  OBVIOUS
<1>0. \A p \in Peer : Live(p)' /\ stored'[p] = stored[p] => Live(p)
  BY LiveBefore
<1> USE PushAssumption
    DEF TypeOK, RaceInv, FileInv, Exclusive, SaveProgress, Saving, Loaded, Kept, Errands, Live, Storing,
        Made, Records, keyVars, workVars, Goes, About, Saves, Notifying
<1>1. CASE StartKeys
  BY <1>0, <1>1 DEF StartKeys
<1>2. CASE KeysWritten
  BY <1>0, <1>2 DEF KeysWritten
<1>3. CASE Crash
  BY <1>0, <1>3 DEF Crash
<1>4. ASSUME NEW k \in Worker, NEW p \in Peer, HandleSend(k, p)
      PROVE  Errands'
  BY <1>0, <1>4 DEF HandleSend
<1>5. ASSUME NEW k \in Worker, NEW p \in Peer, NEW s \in Sub, Register(k, p, s)
      PROVE  Errands'
  BY <1>0, <1>5 DEF Register
<1>6. ASSUME NEW k \in Worker, HandleSubscribe(k)
      PROVE  Errands'
  BY <1>0, <1>6 DEF HandleSubscribe
<1>7. ASSUME NEW k \in Worker, SendNotification(k)
      PROVE  Errands'
  <2>1. UNCHANGED <<stored, raced, alive, records, holder>>
    BY <1>7 DEF SendNotification
  <2>2. CASE Gone(sub[k])
    <3>1. pc' = [pc EXCEPT ![k] = "gone"] /\ UNCHANGED <<peer, sub>> /\ pc[k] = "send"
      BY <1>7, <2>2 DEF SendNotification
    <3>2. ~Live(peer[k])
      BY <2>2, <3>1 DEF Gone
    <3> QED
      BY <2>1, <3>1, <3>2
  <2>3. CASE ~Gone(sub[k])
    BY <1>7, <2>1, <2>3 DEF SendNotification
  <2> QED
    BY <2>2, <2>3
<1>8. ASSUME NEW k \in Worker, Prune(k)
      PROVE  Errands'
  BY <1>0, <1>8 DEF Prune
<1>9. ASSUME NEW k \in Worker, SaveWritten(k)
      PROVE  Errands'
  BY <1>0, <1>9 DEF SaveWritten
<1>10. ASSUME NEW k \in Worker, SaveRenamed(k)
       PROVE  Errands'
  BY <1>0, <1>10 DEF SaveRenamed
<1>11. ASSUME NEW k \in Worker, Answer(k)
       PROVE  Errands'
  BY <1>0, <1>11 DEF Answer
<1>12. ASSUME NEW s \in Sub, Expires(s)
       PROVE  Errands'
  BY <1>0, <1>12 DEF Expires
<1>13. CASE UNCHANGED vars
  BY <1>0, <1>13 DEF vars
<1> QED
  BY <1>1, <1>2, <1>3, <1>4, <1>5, <1>6, <1>7, <1>8, <1>9, <1>10, <1>11, <1>12, <1>13
  DEF Next, Start, Request

\* Deleting the subscription of whom a notification does not reach (Prune) is the
\* delete of a newer one only if that was stored while the notification was under
\* way: with writes that succeed, any other peer whose stored subscription is
\* still good has one in memory, through crashes and restarts.
THEOREM KeptUnlessRaced == ASSUME ~WriteFails PROVE Spec => []LostByRaceOnly
<1>1. Init => TypeOK /\ RaceInv
  BY PushAssumption
  DEF Init, TypeOK, RaceInv, FileInv, Exclusive, SaveProgress, Saving, KeyInv, AllMade, Made,
      Kept, Errands, Live, Storing, Records, NoRecords, Place
<1>2. TypeOK /\ RaceInv /\ [Next]_vars => TypeOK' /\ RaceInv'
  BY TypeStep, ExclusiveStep, ProgressStep, KeyStep, KeptStep, ErrandsStep DEF RaceInv, FileInv
<1>3. TypeOK /\ RaceInv /\ FileCurrent => LostByRaceOnly
  <2> SUFFICES ASSUME TypeOK, RaceInv, FileCurrent, up = "up", NEW p \in Peer \ raced, stored[p] \in alive
               PROVE  records[p] # None
    BY DEF LostByRaceOnly
  <2>1. CASE records[p] = stored[p]
    BY <2>1, PushAssumption DEF TypeOK
  <2>2. ASSUME NEW k \in Worker, Storing(k, p) PROVE records[p] # None
    BY <2>2 DEF RaceInv, Errands, Storing, Saving
  <2> QED
    BY <2>1, <2>2 DEF RaceInv, Kept, Live
<1>4. Spec => []FileCurrent
  BY FileFollows
<1> QED BY <1>1, <1>2, <1>3, <1>4, PTL DEF Spec
=============================================================================
