--------------------------- MODULE StreamRegistry ---------------------------
(***************************************************************************)
(* What the broadcast relay promises about its streams, without its        *)
(* handlers, its callbacks and its connections.  A stream is registered    *)
(* once, where there is room; whoever takes it out, or registers another   *)
(* in its place, gives it up to be closed in that same step; and what has  *)
(* been given up is never found again.                                     *)
(***************************************************************************)
EXTENDS Naturals, FiniteSets

CONSTANTS Pub, Id, None, Limits

VARIABLES
  maxStreams,  \* how many may be registered
  streams,     \* streams[i]: the stream registered under i, or None
  gone         \* the streams that have been given up

registry == <<maxStreams, streams, gone>>

Init == maxStreams \in Limits /\ streams = [i \in Id |-> None] /\ gone = {}

GiveUp(i) == gone' = gone \cup ({streams[i]} \ {None})

Register(r, i) ==
  /\ Cardinality({j \in Id : streams[j] # None}) < maxStreams
  /\ r \notin gone /\ \A j \in Id : streams[j] # r
  /\ streams' = [streams EXCEPT ![i] = r] /\ GiveUp(i)
  /\ UNCHANGED maxStreams

TakeOut(i) ==
  /\ streams[i] # None
  /\ streams' = [streams EXCEPT ![i] = None] /\ GiveUp(i)
  /\ UNCHANGED maxStreams

Next == \E i \in Id : TakeOut(i) \/ \E r \in Pub : Register(r, i)

Spec == Init /\ [][Next]_registry
=============================================================================
