------------------------------ MODULE SavedMap ------------------------------
(***************************************************************************)
(* What a component promises that keeps a map in memory and rewrites one   *)
(* file in place after every change, looking at no error of the write: the *)
(* map changes one key at a time and only with a save, the file holds the  *)
(* map as it was after the last save that succeeded, or nothing from the   *)
(* start of a save until one succeeds, and a death goes back to the file.  *)
(***************************************************************************)
CONSTANTS
  Key, Value,
  Blank      \* the value of a key that is not there

VARIABLES
  map,       \* the map, while the process is down the one that will be loaded
  file,      \* the map in the file
  open       \* a save is under way

mapVars == <<map, file, open>>

Nowhere == [k \in Key |-> Blank]

Init == map = Nowhere /\ file = Nowhere /\ open = FALSE

\* The save that comes with a change empties the file, or cannot open it.
Change(k, v) ==
  /\ ~open /\ open' = TRUE
  /\ map' = [map EXCEPT ![k] = v]
  /\ file' \in {file, Nowhere}

\* It ends, and may have failed.
Saved == /\ open /\ open' = FALSE
         /\ file' \in {file, map}
         /\ map' = map

Death == map' = file /\ file' = file /\ open' = FALSE

Next == (\E k \in Key, v \in Value : Change(k, v)) \/ Saved \/ Death

Spec == Init /\ [][Next]_mapVars
=============================================================================
