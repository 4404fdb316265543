---------------------------- MODULE MCNfcService ----------------------------
(***************************************************************************)
(* A small instance of NfcService; messages and subscribers are alike.     *)
(***************************************************************************)
EXTENDS NfcService
=============================================================================
