------------------------------ MODULE Broadcast ------------------------------
(***************************************************************************)
(* The WHIP/WHEP broadcast relay (broadcast_relay.go): one stream per WHIP *)
(* request, at most maxStreams of them registered, each with one publisher *)
(* connection and any number of subscribers.  A stream is the object its   *)
(* WHIP request r creates, and is named r.  The manager's mutex is held    *)
(* for single looks at the registry; closing a stream happens outside it,  *)
(* under the stream's own mutex, by whoever took the stream out.  The      *)
(* WebRTC library tells of a lost or closed connection on a goroutine of   *)
(* its own, some time later.  Media packets, key frame requests, SDP and   *)
(* the HTTP answers are left out.                                          *)
(***************************************************************************)
EXTENDS Nothing, Naturals, FiniteSets

CONSTANTS
  Pub,         \* WHIP requests, each made once, and the streams they create
  Sub,         \* WHEP requests, each made once, and their subscribers
  Id,          \* stream ids
  IdsOf,       \* IdsOf[r]: the ids that r may ask for
  Track,       \* tracks a publisher may send
  Limits,      \* values the manager may be made with: main.go passes 2
  Losses       \* a connection may fail, that is, its Failed state be reported

ASSUME BroadcastAssumption ==
  /\ None \notin Pub /\ None \notin Id /\ Pub \cap Sub = {} /\ IdsOf \in [Pub -> SUBSET Id]
  /\ Limits \subseteq Nat \ {0} /\ Losses \in BOOLEAN

VARIABLES
  maxStreams,   \* how many streams may be registered, set once
  streams,      \* streams[i]: the stream registered under i
  pc, id,       \* pc[r], id[r]: where the WHIP handler of r is, the id it is about
  conn,         \* conn[r]: the publisher's connection of the stream r
  closing,      \* streams that somebody has taken out and is about to Close
  closed,       \* streams whose Close has run
  tracks,       \* tracks[r]: LocalTracks of the stream r
  subscribers,  \* subscribers[r]: the Subscribers map of the stream r
  spc, of,      \* spc[w], of[w]: where the WHEP handler of w is, the stream it found
  sconn,        \* sconn[w]: the connection of the subscriber w
  has,          \* has[w][t]: how often t has been added to that connection
  calls         \* the state changes the library is about to report

registry == <<maxStreams, streams>>
pubVars == <<pc, id, conn>>
subVars == <<spc, of, sconn, has>>
castVars == <<registry, pubVars, closing, closed, tracks, subscribers, subVars, calls>>

ConnState == {"none", "open", "failed", "closed"}
PubPlace == {"idle", "body", "attached", "negotiating", "failing", "done"}
SubPlace == {"idle", "found", "copied", "joined", "failing", "done"}
StateChange == (Pub \cup Sub) \X {"failed", "closed"}

CastTypeOK ==
  /\ maxStreams \in Limits
  /\ streams \in [Id -> Pub \cup {None}]
  /\ pc \in [Pub -> PubPlace] /\ id \in [Pub -> Id \cup {None}]
  /\ conn \in [Pub -> ConnState]
  /\ closing \in SUBSET Pub /\ closed \in SUBSET Pub
  /\ tracks \in [Pub -> SUBSET Track]
  /\ subscribers \in [Pub -> SUBSET Sub]
  /\ spc \in [Sub -> SubPlace] /\ of \in [Sub -> Pub \cup {None}]
  /\ sconn \in [Sub -> ConnState]
  /\ has \in [Sub -> [Track -> 0..2]]
  /\ calls \in SUBSET StateChange

CastInit ==
  /\ maxStreams \in Limits
  /\ streams = [i \in Id |-> None]
  /\ pc = [r \in Pub |-> "idle"] /\ id = [r \in Pub |-> None]
  /\ conn = [r \in Pub |-> "none"]
  /\ closing = {} /\ closed = {}
  /\ tracks = [r \in Pub |-> {}] /\ subscribers = [r \in Pub |-> {}]
  /\ spc = [w \in Sub |-> "idle"] /\ of = [w \in Sub |-> None]
  /\ sconn = [w \in Sub |-> "none"]
  /\ has = [w \in Sub |-> [t \in Track |-> 0]]
  /\ calls = {}

PubGoes(r, place) == pc' = [pc EXCEPT ![r] = place]
SubGoes(w, place) == spc' = [spc EXCEPT ![w] = place]

-----------------------------------------------------------------------------
(* Taking a stream out, and closing it *)

\* closeStream, under the manager's mutex: whatever is registered under i.
Deleted(i) == [streams EXCEPT ![i] = None]
Taken(i) == {streams[i]} \ {None}
CloseStream(i) ==
  /\ streams' = Deleted(i) /\ UNCHANGED maxStreams
  /\ closing' = closing \cup Taken(i)

\* The state changes Close of the connections in ws brings about; only those
\* whose handler is registered by then are reported.
PubListens(r) == pc[r] \in {"negotiating", "done"} \/ (pc[r] = "failing" /\ conn[r] # "none")
SubListens(w) == spc[w] \in {"joined", "failing", "done"}
ClosedSubs_Dropped(ws) == sconn                                       \* mutant
ClosedSubs(ws) == [w \in Sub |-> IF w \in ws THEN "closed" ELSE sconn[w]]

\* BroadcastStream.Close: the publisher's connection, if there is one yet, and
\* all subscribers'.
StreamClose(x) ==
  LET listening == {y \in {x} : PubListens(y) /\ conn[y] \in {"open", "failed"}}
                     \cup {w \in subscribers[x] : SubListens(w)} IN
  /\ x \in closing
  /\ closing' = closing \ {x} /\ closed' = closed \cup {x}
  /\ conn' = [conn EXCEPT ![x] = IF @ = "none" THEN @ ELSE "closed"]
  /\ sconn' = ClosedSubs(subscribers[x])
  /\ subscribers' = [subscribers EXCEPT ![x] = {}]
  /\ calls' = calls \cup (listening \X {"closed"})
  /\ UNCHANGED <<registry, pc, id, tracks, spc, of, has>>

-----------------------------------------------------------------------------
(* HandleWHIP *)

Registered == {i \in Id : streams[i] # None}
Full == Cardinality(Registered) >= maxStreams

Refused(r) ==
  /\ pc[r] = "idle" /\ Full
  /\ PubGoes(r, "done")
  /\ UNCHANGED <<registry, id, conn, closing, closed, tracks, subscribers, subVars, calls>>

\* A stream with the same id is closed by a goroutine, not waited for.
Replaced_Lost(i) == {}                                                \* mutant
Replaced(i) == Taken(i)
Publish(r, i) ==
  /\ pc[r] = "idle" /\ ~Full /\ i \in IdsOf[r]
  /\ PubGoes(r, "body") /\ id' = [id EXCEPT ![r] = i]
  /\ streams' = [streams EXCEPT ![i] = r] /\ UNCHANGED maxStreams
  /\ closing' = closing \cup Replaced(i)
  /\ UNCHANGED <<conn, closed, tracks, subscribers, subVars, calls>>

\* NewPeerConnection, then "stream.PublisherPC = pc", under no mutex.
Attach(r) ==
  /\ pc[r] = "body"
  /\ PubGoes(r, "attached")
  /\ conn' = [conn EXCEPT ![r] = "open"]
  /\ UNCHANGED <<registry, id, closing, closed, tracks, subscribers, subVars, calls>>

\* OnTrack and OnConnectionStateChange.
RegisterCallbacks(r) ==
  /\ pc[r] = "attached"
  /\ PubGoes(r, "negotiating")
  /\ UNCHANGED <<registry, id, conn, closing, closed, tracks, subscribers, subVars, calls>>

\* No body, no connection, or an offer the connection does not take: a closed
\* one takes none.
Fails(r) ==
  /\ pc[r] \in {"body", "negotiating"}
  /\ PubGoes(r, "failing")
  /\ UNCHANGED <<registry, id, conn, closing, closed, tracks, subscribers, subVars, calls>>

Answered(r) ==
  /\ pc[r] = "negotiating" /\ conn[r] # "closed"
  /\ PubGoes(r, "done")
  /\ UNCHANGED <<registry, id, conn, closing, closed, tracks, subscribers, subVars, calls>>

FailureCloses(r) ==
  /\ pc[r] = "failing"
  /\ PubGoes(r, "done")
  /\ CloseStream(id[r])
  /\ UNCHANGED <<id, conn, closed, tracks, subscribers, subVars, calls>>

\* DELETE /api/whip/{id}
Unpublish(i) ==
  /\ CloseStream(i)
  /\ UNCHANGED <<pubVars, closed, tracks, subscribers, subVars, calls>>

\* OnTrack: the track is attached to the subscribers there are.
Audience_Coming(r) == {w \in Sub : of[w] = r}                         \* mutant
Audience(r) == subscribers[r]
OnTrack(r, t) ==
  /\ pc[r] \in {"negotiating", "done"} /\ conn[r] \in {"open", "failed"} /\ t \notin tracks[r]
  /\ tracks' = [tracks EXCEPT ![r] = @ \cup {t}]
  /\ has' = [w \in Sub |-> IF w \in Audience(r) THEN [has[w] EXCEPT ![t] = @ + 1] ELSE has[w]]
  /\ UNCHANGED <<registry, pubVars, closing, closed, subscribers, spc, of, sconn, calls>>

-----------------------------------------------------------------------------
(* HandleWHEP *)

\* A stream that is not registered is answered with 404.
Subscribe(w, i) ==
  /\ spc[w] = "idle" /\ streams[i] # None
  /\ SubGoes(w, "found") /\ of' = [of EXCEPT ![w] = streams[i]]
  /\ UNCHANGED <<registry, pubVars, closing, closed, tracks, subscribers, sconn, has, calls>>

\* The connection is made and gets the tracks there are, under the read lock.
CopyTracks(w) ==
  /\ spc[w] = "found"
  /\ SubGoes(w, "copied")
  /\ sconn' = [sconn EXCEPT ![w] = "open"]
  /\ has' = [has EXCEPT ![w] = [t \in Track |-> @[t] + IF t \in tracks[of[w]] THEN 1 ELSE 0]]
  /\ UNCHANGED <<registry, pubVars, closing, closed, tracks, subscribers, of, calls>>

AddSubscriber(w) ==
  /\ spc[w] = "copied"
  /\ SubGoes(w, "joined")
  /\ subscribers' = [subscribers EXCEPT ![of[w]] = @ \cup {w}]
  /\ UNCHANGED <<registry, pubVars, closing, closed, tracks, of, sconn, has, calls>>

\* The offer is refused, or the answer goes out.
Negotiated(w) ==
  /\ spc[w] = "joined"
  /\ \/ SubGoes(w, "failing")
     \/ sconn[w] # "closed" /\ SubGoes(w, "done")
  /\ UNCHANGED <<registry, pubVars, closing, closed, tracks, subscribers, of, sconn, has, calls>>

\* removeSubscriber, on the stream x: nothing is done twice.
RemoveSubscriber(x, w) ==
  LET present == subscribers[x] \cap {w} IN
  /\ subscribers' = [subscribers EXCEPT ![x] = @ \ {w}]
  /\ sconn' = ClosedSubs(present)

SubFailureRemoves(w) ==
  /\ spc[w] = "failing"
  /\ SubGoes(w, "done")
  /\ RemoveSubscriber(of[w], w)
  /\ calls' = calls \cup ((subscribers[of[w]] \cap {w}) \X {"closed"})
  /\ UNCHANGED <<registry, pubVars, closing, closed, tracks, of, has>>

\* DELETE /api/whep/{id}/{subscriber}, by who has had the answer: on the
\* stream that is registered now.
Unsubscribe(w, i) ==
  /\ spc[w] = "done" /\ streams[i] # None /\ w \in subscribers[streams[i]]
  /\ RemoveSubscriber(streams[i], w)
  /\ calls' = calls \cup {<<w, "closed">>}
  /\ UNCHANGED <<registry, pubVars, closing, closed, tracks, spc, of, has>>

-----------------------------------------------------------------------------
(* The library reports *)

Notifies_ClosedOnly(state) == state = "closed"                        \* mutant
Notifies(state) == state \in {"failed", "closed"}
Reported(c, state) == IF Notifies(state) THEN {<<c, state>>} ELSE {}

PubLost(r) ==
  /\ Losses /\ pc[r] = "done" /\ conn[r] = "open"
  /\ conn' = [conn EXCEPT ![r] = "failed"]
  /\ calls' = calls \cup Reported(r, "failed")
  /\ UNCHANGED <<registry, pc, id, closing, closed, tracks, subscribers, subVars>>

SubLost(w) ==
  /\ Losses /\ spc[w] = "done" /\ sconn[w] = "open"
  /\ sconn' = [sconn EXCEPT ![w] = "failed"]
  /\ calls' = calls \cup Reported(w, "failed")
  /\ UNCHANGED <<registry, pubVars, closing, closed, tracks, subscribers, spc, of, has>>

\* The publisher's callback: closeStream of the ID, whatever stream has it now.
PubCallback(r) ==
  \E state \in {"failed", "closed"} :
    /\ <<r, state>> \in calls
    /\ calls' = calls \ {<<r, state>>}
    /\ CloseStream(id[r])
    /\ UNCHANGED <<pubVars, closed, tracks, subscribers, subVars>>

\* The subscriber's: removeSubscriber of its own stream.
SubCallback(w) ==
  \E state \in {"failed", "closed"} :
    /\ <<w, state>> \in calls
    /\ RemoveSubscriber(of[w], w)
    /\ calls' = (calls \ {<<w, state>>}) \cup ((subscribers[of[w]] \cap {w}) \X {"closed"})
    /\ UNCHANGED <<registry, pubVars, closing, closed, tracks, spc, of, has>>

-----------------------------------------------------------------------------

PubHandler(r) ==
  Attach(r) \/ RegisterCallbacks(r) \/ Fails(r) \/ Answered(r) \/ FailureCloses(r)
SubHandler(w) ==
  CopyTracks(w) \/ AddSubscriber(w) \/ Negotiated(w) \/ SubFailureRemoves(w)
Requests ==
  \/ \E r \in Pub : Refused(r) \/ (\E i \in Id : Publish(r, i))
  \/ \E i \in Id : Unpublish(i) \/ (\E w \in Sub : Subscribe(w, i) \/ Unsubscribe(w, i))
Library ==
  \/ \E r \in Pub : PubLost(r) \/ (\E t \in Track : OnTrack(r, t))
  \/ \E w \in Sub : SubLost(w)

CastNext ==
  \/ Requests \/ Library
  \/ \E r \in Pub : PubHandler(r) \/ StreamClose(r) \/ PubCallback(r)
  \/ \E w \in Sub : SubHandler(w) \/ SubCallback(w)

CastSpec == CastInit /\ [][CastNext]_castVars

\* Handlers and callbacks run to their end; who publishes, fails, subscribes or
\* leaves is up to the clients.
CastFairSpec ==
  /\ CastSpec
  /\ \A r \in Pub :
       WF_castVars(PubHandler(r)) /\ WF_castVars(StreamClose(r)) /\ WF_castVars(PubCallback(r))
  /\ \A w \in Sub : WF_castVars(SubHandler(w)) /\ WF_castVars(SubCallback(w))

-----------------------------------------------------------------------------
(* Properties *)

\* "Safe default for low-power appliances": no more than maxStreams streams are
\* registered at a time, and none under two ids, although streams with the same
\* id are replaced without counting.
CapacityKept ==
  /\ Cardinality(Registered) <= maxStreams
  /\ \A i, j \in Id : streams[i] = streams[j] /\ streams[i] # None => i = j

\* The registry is well typed and within its limit, and a subscriber never finds
\* in it a stream that has been closed, or is about to be: whoever closes a
\* stream, the handlers, a DELETE or a callback that comes late, has taken it
\* out before.
RegistryKept ==
  /\ CastTypeOK /\ CapacityKept
  /\ \A i \in Id : streams[i] \notin closed \cup closing

\* That, and the promise of the registry: every stream that leaves it, replaced or
\* taken out by whatever handler, DELETE or late callback, is given to be closed in
\* that step, and none comes back.
Streams == INSTANCE StreamRegistry WITH gone <- closing \cup closed
KeepsStreams == []RegistryKept /\ Streams!Spec

\* No track is attached twice to a subscriber that joins while tracks arrive.
NoTrackTwice == \A w \in Sub, t \in Track : has[w][t] <= 1

\* Whoever is not in the list of its stream any more has been disconnected: no
\* subscriber is forgotten and left open.
DroppedClosed ==
  \A w \in Sub : spc[w] \in {"joined", "failing", "done"} /\ w \notin subscribers[of[w]]
                   => sconn[w] = "closed"

\* A publisher or a subscriber that is lost makes room.
LostMakesRoom ==
  /\ \A r \in Pub : (conn[r] = "failed") ~> (\A i \in Id : streams[i] # r)
  /\ \A w \in Sub : (sconn[w] = "failed") ~> (sconn[w] = "closed")

\* "If a stream with this ID already exists, close the old one": the old one's
\* end does not take the new one out.
OldEndSparesNew ==
  [][\A r \in Pub : PubCallback(r) => streams[id[r]] \in {None, r}]_castVars

\* "Stream %s closed and resources freed": once a stream is closed and its
\* handler is through, its publisher's connection is closed.
PublisherFreed ==
  \A r \in closed : pc[r] = "done" => conn[r] \in {"none", "closed"}

\* The same of the connections of its subscribers.
SubscribersFreed ==
  \A w \in Sub : spc[w] = "done" /\ of[w] \in closed => sconn[w] = "closed"
=============================================================================
