--------------------------- MODULE MCAsyncWriter ----------------------------
(* Instances of AsyncWriter for TLC: a cache that two or three events fill.   *)
EXTENDS AsyncWriter

SmallSizes == {1, 2}
=============================================================================
