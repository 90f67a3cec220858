----------------------------- MODULE MCPublish -----------------------------
(***************************************************************************)
(* PublishAttempts for TLC.  Requests are interchangeable.                 *)
(***************************************************************************)
EXTENDS PublishAttempts

Symmetry == Permutations(Requests)
=============================================================================
