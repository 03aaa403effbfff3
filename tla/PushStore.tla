------------------------------ MODULE PushStore ------------------------------
(***************************************************************************)
(* Web push subscriptions (push_manager.go): the records in memory, the    *)
(* file they are saved to and the VAPID keys they are bound to.  A record  *)
(* is replaced, deleted and saved under the mutex; a notification looks    *)
(* its target up, is sent with no mutex held, and deletes the target if    *)
(* the push service answers 404 or 410.  The file is written beside itself *)
(* and renamed.  The process may die at any step and start again.  The     *)
(* token of a sender and the notification itself are left out.             *)
(***************************************************************************)
EXTENDS Naturals, FiniteSets

CONSTANTS
  Worker,       \* goroutines that handle requests
  Peer,         \* userPublicKeys
  Sub,          \* subscriptions a browser may make, each once
  MaxKeys,      \* bound: VAPID key pairs that may be generated
  WriteFails,   \* os.WriteFile may fail
  None, Torn    \* no subscription, no file; a file cut off in the middle

ASSUME PushAssumption ==
  /\ None \notin Sub /\ None \notin Worker
  /\ None # Torn /\ {None, Torn} \cap [Peer -> Sub \cup {None}] = {}
  /\ MaxKeys \in Nat \ {0} /\ WriteFails \in BOOLEAN

VARIABLES
  up,           \* the process: "down", "keys", "up"
  key, keyFile, \* the VAPID keys in use, those in vapid_keys.json
  made,         \* key pairs generated so far
  records,      \* records[p]: the subscription of p
  store,        \* the subscriptions file
  tmp,          \* the file beside it
  holder,       \* the worker that holds the mutex, and saves
  pc, peer, sub,\* where worker k is, the peer and subscription it is about
  alive,        \* subscriptions the push service still knows
  keyOf,        \* keyOf[s]: the key s was made with, 0 if it is not made yet
  stored,       \* history, stored[p]: the subscription of p stored last
  raced         \* history, peers that subscribed while a notification to them
                \* was under way

keyVars == <<key, keyFile, made>>
workVars == <<pc, peer, sub>>
vars == <<up, keyVars, records, store, tmp, holder, workVars, alive, keyOf, stored, raced>>

Records == [Peer -> Sub \cup {None}]
NoRecords == [p \in Peer |-> None]
Place == {"idle", "subscribe", "send", "gone", "writing", "written", "saved"}

TypeOK ==
  /\ up \in {"down", "keys", "up"}
  /\ key \in 0..MaxKeys /\ made \in 0..MaxKeys /\ keyFile \in 0..MaxKeys
  /\ records \in Records
  /\ store = None \/ store = Torn \/ store \in Records
  /\ tmp = None \/ tmp = Torn \/ tmp \in Records
  /\ holder \in Worker \cup {None}
  /\ pc \in [Worker -> Place]
  /\ peer \in [Worker -> Peer \cup {None}] /\ sub \in [Worker -> Sub \cup {None}]
  /\ alive \in SUBSET Sub /\ keyOf \in [Sub -> 0..MaxKeys]
  /\ stored \in Records /\ raced \subseteq Peer
  /\ \A k \in Worker : pc[k] # "idle" => peer[k] \in Peer

\* The first start: nothing on disk.  Key 0 is no key.
Init ==
  /\ up = "down" /\ key = 0 /\ keyFile = 0 /\ made = 0
  /\ records = NoRecords /\ store = None /\ tmp = None
  /\ holder = None
  /\ pc = [k \in Worker |-> "idle"]
  /\ peer = [k \in Worker |-> None] /\ sub = [k \in Worker |-> None]
  /\ alive = {} /\ keyOf = [s \in Sub |-> 0]
  /\ stored = NoRecords /\ raced = {}

-----------------------------------------------------------------------------
(* NewPushManager *)

\* The keys are loaded, or generated and written; a file that cannot be read as
\* keys counts as none, so a torn one is no other than 0.
Loaded == IF store \in {None, Torn} THEN NoRecords ELSE store
KeysFound_Never == FALSE                                              \* mutant
KeysFound == keyFile # 0
StartKeys ==
  /\ up = "down"
  /\ \/ KeysFound /\ up' = "up" /\ key' = keyFile /\ UNCHANGED <<keyFile, made>>
     \/ /\ ~KeysFound /\ made < MaxKeys
        /\ up' = "keys" /\ key' = made + 1 /\ made' = made + 1
        /\ UNCHANGED keyFile
  /\ records' = Loaded
  /\ UNCHANGED <<store, tmp, holder, workVars, alive, keyOf, stored, raced>>

KeysWritten ==
  /\ up = "keys"
  /\ up' = "up"
  /\ \/ keyFile' = key
     \/ WriteFails /\ UNCHANGED keyFile
  /\ UNCHANGED <<key, made, records, store, tmp, holder, workVars, alive, keyOf, stored, raced>>

Crash ==
  /\ up # "down"
  /\ up' = "down" /\ key' = 0 /\ records' = NoRecords /\ holder' = None
  /\ pc' = [k \in Worker |-> "idle"]
  /\ peer' = [k \in Worker |-> None] /\ sub' = [k \in Worker |-> None]
  /\ UNCHANGED <<keyFile, made, store, tmp, alive, keyOf, stored, raced>>

-----------------------------------------------------------------------------
(* Requests *)

Goes(k, place) == pc' = [pc EXCEPT ![k] = place]
About(k, p, s) == peer' = [peer EXCEPT ![k] = p] /\ sub' = [sub EXCEPT ![k] = s]

\* A browser subscribes at the push service with the key the server gives out,
\* and registers; one that registers anew may leave its old subscription.
Register(k, p, s) ==
  /\ up = "up" /\ pc[k] = "idle" /\ keyOf[s] = 0
  /\ Goes(k, "subscribe") /\ About(k, p, s)
  /\ alive' = alive \cup {s} /\ keyOf' = [keyOf EXCEPT ![s] = key]
  /\ UNCHANGED <<up, keyVars, records, store, tmp, holder, stored, raced>>

\* saveToDiskLocked begins, its caller holding the mutex.
Saves_Unlocked(k) == Goes(k, "writing") /\ tmp' = Torn /\ UNCHANGED holder  \* mutant
Saves(k) == Goes(k, "writing") /\ holder' = k /\ tmp' = Torn

\* HandleSubscribe
Notifying(p) == \E j \in Worker : pc[j] \in {"send", "gone"} /\ peer[j] = p
HandleSubscribe(k) ==
  /\ pc[k] = "subscribe" /\ holder = None
  /\ records' = [records EXCEPT ![peer[k]] = sub[k]]
  /\ Saves(k)
  /\ raced' = IF Notifying(peer[k]) THEN raced \cup {peer[k]} ELSE raced
  /\ UNCHANGED <<up, keyVars, store, peer, sub, alive, keyOf, stored>>

\* HandleSend and HandleTest: the target is looked up and released.
HandleSend(k, p) ==
  /\ up = "up" /\ pc[k] = "idle" /\ holder = None /\ records[p] # None
  /\ Goes(k, "send") /\ About(k, p, records[p])
  /\ UNCHANGED <<up, keyVars, records, store, tmp, holder, alive, keyOf, stored, raced>>

Gone_Always(s) == TRUE                                                \* mutant
Gone(s) == s \notin alive
SendNotification(k) ==
  /\ pc[k] = "send"
  /\ IF Gone(sub[k]) THEN Goes(k, "gone") /\ UNCHANGED <<peer, sub>>
     ELSE Goes(k, "idle") /\ About(k, None, None)
  /\ UNCHANGED <<up, keyVars, records, store, tmp, holder, alive, keyOf, stored, raced>>

\* delete(pm.records, targetID), whatever is there now.
Prune(k) ==
  /\ pc[k] = "gone" /\ holder = None
  /\ records' = [records EXCEPT ![peer[k]] = None]
  /\ Saves(k)
  /\ About(k, peer[k], None)
  /\ UNCHANGED <<up, keyVars, store, alive, keyOf, stored, raced>>

SaveWritten(k) ==
  /\ pc[k] = "writing"
  /\ \/ tmp' = records /\ Goes(k, "written")
     \/ WriteFails /\ Goes(k, "saved") /\ UNCHANGED tmp
  /\ UNCHANGED <<up, keyVars, records, store, holder, peer, sub, alive, keyOf, stored, raced>>

SaveRenamed(k) ==
  /\ pc[k] = "written"
  /\ store' = tmp /\ tmp' = None
  /\ stored' = IF sub[k] = None THEN stored ELSE [stored EXCEPT ![peer[k]] = sub[k]]
  /\ Goes(k, "saved")
  /\ UNCHANGED <<up, keyVars, records, holder, peer, sub, alive, keyOf, raced>>

\* The mutex is released and the answer goes out, "Cloud activated" to a peer
\* that has subscribed.
Answer(k) ==
  /\ pc[k] = "saved"
  /\ holder' = None
  /\ Goes(k, "idle") /\ About(k, None, None)
  /\ UNCHANGED <<up, keyVars, records, store, tmp, alive, keyOf, stored, raced>>

-----------------------------------------------------------------------------
(* The push service *)

Expires(s) ==
  /\ s \in alive
  /\ alive' = alive \ {s}
  /\ UNCHANGED <<up, keyVars, records, store, tmp, holder, workVars, keyOf, stored, raced>>

Request(k) ==
  \/ \E p \in Peer : HandleSend(k, p) \/ (\E s \in Sub : Register(k, p, s))
  \/ HandleSubscribe(k) \/ SendNotification(k) \/ Prune(k)
  \/ SaveWritten(k) \/ SaveRenamed(k) \/ Answer(k)
Start == StartKeys \/ KeysWritten

Next == Start \/ Crash \/ (\E k \in Worker : Request(k)) \/ (\E s \in Sub : Expires(s))

Spec == Init /\ [][Next]_vars

-----------------------------------------------------------------------------
(* Properties *)

\* The file is never cut off, whenever the process dies, and holds what is in
\* memory but for the one record that somebody is about to save: whoever has been
\* answered is in the file.
FileCurrent ==
  /\ store # Torn
  /\ up = "up" =>
       \A p \in Peer :
         \/ records[p] = Loaded[p]
         \/ \E k \in Worker : pc[k] \in {"writing", "written"} /\ peer[k] = p

\* The promise of saveToDiskLocked, DurableMap: what a start would load changes
\* one subscription at a time, although every save writes all of them, and a
\* crash between any two steps takes nothing back.
Durable == INSTANCE DurableMap WITH
  Key <- Peer, Value <- Sub \cup {None}, Blank <- None, map <- Loaded
SavesDurably == Durable!Spec

\* Claves VAPID "persistidas": a subscription that is used was made with the
\* keys in use, after any number of starts.
KeysMatch == up = "up" => \A p \in Peer : records[p] # None => keyOf[records[p]] = key

\* "Suscripcion no valida o expirada ... Eliminando": only what is gone is
\* deleted.  A peer whose subscription stored last is still known to the push
\* service has one, through crashes and restarts...
StoredKept ==
  \A p \in Peer : up = "up" /\ stored[p] \in alive => records[p] # None

\* ...as long as it has not subscribed while a notification to it was under way:
\* that is the only way to lose it, in memory or on disk.
LostByRaceOnly ==
  /\ TypeOK /\ FileCurrent
  /\ \A p \in Peer \ raced : up = "up" /\ stored[p] \in alive => records[p] # None
=============================================================================
