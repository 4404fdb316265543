----------------------------- MODULE MCTagWrite -----------------------------
(***************************************************************************)
(* Small instances of TagWrite: two concurrent requests.                   *)
(***************************************************************************)
EXTENDS TagWrite
=============================================================================
