------------------------ MODULE MC_CheckpointedRun ------------------------
EXTENDS CheckpointedRun, TLC
Symmetry == Permutations(Writers)
\* One record, or two that change an order and add one, or skip and change.
SomeBatches == {<<"add">>, <<"change", "add">>, <<"skip", "change">>}
=============================================================================
