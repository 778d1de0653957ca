------------------------------ MODULE MCStack ------------------------------
(***************************************************************************)
(* Two terminals, which are interchangeable.                               *)
(***************************************************************************)
EXTENDS Stack, TLC

CliSymmetry == Permutations(Cli)
=============================================================================
