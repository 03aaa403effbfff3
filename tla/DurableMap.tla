----------------------------- MODULE DurableMap -----------------------------
(***************************************************************************)
(* What a component promises that keeps a map in a file it replaces whole: *)
(* the map changes one key at a time, a change is there whole or not at    *)
(* all, and a death of the process, at whatever step, takes nothing back.  *)
(***************************************************************************)
CONSTANTS
  Key, Value,
  Blank      \* the value of a key that is not there

VARIABLE map

Nowhere == [k \in Key |-> Blank]

Init == map = Nowhere

Change(k, v) == map' = [map EXCEPT ![k] = v]

Next == \E k \in Key, v \in Value : Change(k, v)

Spec == Init /\ [][Next]_map
=============================================================================
