----------------------------- MODULE MCNfcdLink -----------------------------
(***************************************************************************)
(* Small instances of NfcdLink: two adapters, one tag path (nfcd reuses    *)
(* paths after a restart), a bounded number of changes of nfcd.            *)
(***************************************************************************)
EXTENDS NfcdLink
=============================================================================
