----------------------------- MODULE MCStateLock -----------------------------
(***************************************************************************)
(* Instances of StateLock for TLC: the sessions are interchangeable.       *)
(***************************************************************************)
EXTENDS StateLock, TLC

Interchangeable == Permutations(Sessions)

==============================================================================
