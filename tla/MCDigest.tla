------------------------------- MODULE MCDigest -------------------------------
(* One fingerprint, two threads that handle comments.                           *)
EXTENDS Digest, TLC

Symmetry == Permutations(Workers)
===============================================================================
