----------------------------- MODULE OrderedMaps -----------------------------
(***************************************************************************)
(* What PersistentMap promises its users (common/persistent_map.py): an    *)
(* immutable mapping that iterates as a dict does.  Every map ever made    *)
(* stays as it was; a write makes one more.                                *)
(***************************************************************************)
EXTENDS Naturals, Sequences

CONSTANTS Keys, Values

VARIABLE maps       \* every map made so far, as its items in iteration order

Holds(items, key) == \E i \in DOMAIN items : items[i][1] = key

\* Rewriting a key keeps its place; a new key, or one deleted before, is last.
With(items, key, value) ==
    IF Holds(items, key)
    THEN [i \in DOMAIN items |-> IF items[i][1] = key THEN <<key, value>> ELSE items[i]]
    ELSE Append(items, <<key, value>>)

\* A key is in one item: those after it close up.
Without(items, key) ==
    LET at == CHOOSE i \in DOMAIN items : items[i][1] = key
    IN  [n \in 1..(Len(items) - 1) |-> items[IF n < at THEN n ELSE n + 1]]

MapsInit == maps = << <<>> >>

\* set and delete; deleting a key that is not there is a KeyError.
MadeFrom(old, new) ==
    \E key \in Keys :
        \/ Holds(old, key) /\ new = Without(old, key)
        \/ \E value \in Values : new = With(old, key, value)

\* A write makes one map, and leaves every other as it is.  (A refinement
\* mapping computes maps; here each is computed once.)
MapsNext ==
    \E before \in {maps}, after \in {maps'} :
        /\ Len(after) = Len(before) + 1
        /\ \A i \in DOMAIN before : after[i] = before[i]
        /\ \E i \in DOMAIN before : MadeFrom(before[i], after[Len(after)])

MapsSpec == MapsInit /\ [][MapsNext]_maps
=============================================================================
