--------------------------- MODULE MCPassportRead ---------------------------
(***************************************************************************)
(* Small instances of PassportRead: files of one or three bytes, read two  *)
(* at a time, on a chip that pads them to four.                            *)
(***************************************************************************)
EXTENDS PassportRead
=============================================================================
