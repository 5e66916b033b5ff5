--------------------------- MODULE MCAsyncResults ---------------------------
(* AsyncResults on small instances.  Polls and spawns are interchangeable.  *)
EXTENDS AsyncResults, TLC

Interchangeable == Permutations(Poll) \cup Permutations(Spawn)
=============================================================================
