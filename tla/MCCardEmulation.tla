-------------------------- MODULE MCCardEmulation --------------------------
(***************************************************************************)
(* Small instances of CardEmulation: one or two AIDs, a response counter   *)
(* that wraps after two exchanges.                                         *)
(***************************************************************************)
EXTENDS CardEmulation, TLC

AidSymmetry == Permutations(Aids)
=============================================================================
