----------------------------- MODULE MCTagRead -----------------------------
(***************************************************************************)
(* A small instance of TagRead: two tag paths, three sectors of which the  *)
(* last two are large, and five cards: a MIFARE card, the same card        *)
(* re-keyed, a MIFARE card without NFCID1, a Type 2 tag with two records   *)
(* and a tag of another kind with one.                                     *)
(***************************************************************************)
EXTENDS TagRead, TLC

SectorKeys(k0, k1, k2) == 0 :> k0 @@ 1 :> k1 @@ 2 :> k2

MCCard(t, u, ks, n) == [kind |-> t, uid |-> u, keys |-> ks, nrec |-> n]

MCCards ==
  { MCCard("mifare", "u1", SectorKeys(0, 1, 1), 0),
    MCCard("mifare", "u1", SectorKeys(1, NoKey, 0), 0),
    MCCard("mifare", NoUid, SectorKeys(NoKey, 0, 1), 0),
    MCCard("type2", NoUid, SectorKeys(NoKey, NoKey, NoKey), 2),
    MCCard("other", NoUid, SectorKeys(NoKey, NoKey, NoKey), 1) }
=============================================================================
