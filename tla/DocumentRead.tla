---------------------------- MODULE DocumentRead ----------------------------
(***************************************************************************)
(* What the terminal and the chip of a travel document say to each other   *)
(* in one readPassport or readPassportPACE: the callbacks of nfcd_client.c *)
(* from the first APDU to the result, with the data they exchange.  The    *)
(* order of the calls, their abort and what follows them are in module     *)
(* PassportRead; here the tag is acquired and stays, and only the link may *)
(* fail.                                                                   *)
(*                                                                         *)
(* The chip (external) keeps to the protocols of ICAO 9303, which bac.h    *)
(* and pace.h name, as far as the document supports them: refuses says at  *)
(* which commands it answers with an error, as documents without BAC,      *)
(* without PACE or without an eMRTD application do.  A document is what    *)
(* its issuer put on it; the layout of its files is written down in        *)
(* MCDocumentRead, apart from the code that reads them.                    *)
(***************************************************************************)
EXTENDS SecureMessaging

CONSTANTS
  Documents,     \* the documents, by name: their files and their secrets
  Typings,       \* what a caller may pass for each
  Challenges,    \* challenges <<high, low>>
  FirstLe,       \* 4 in the code: length of the first READ BINARY
  Chunk          \* 255 in the code: length of the others

ASSUME DocumentAssumption ==
  /\ FirstLe \in 1..255 /\ Chunk \in 1..255
  /\ \A c \in Challenges : c \in (0..(Base - 1)) \X (0..(Base - 1))
  \* A CAN has six digits, the order of a curve 256 bits.
  /\ \A name \in DOMAIN Documents :
       /\ Documents[name].can \in Points
       \* EF.DG1 is mandatory, a document without EF.DG2 has dg2 = NoBytes.
       /\ Documents[name].refuses \cap {"select_dg1", "select_dg2"} = {}
       /\ \A typed \in Typings[name] : typed.can \in Points \union {-1}

VARIABLES
  doc,       \* the document in hand
  ask,       \* the call: use_pace, read_photo and what was typed
  stage,     \* the callback awaited
  read,      \* struct passport_read
  chip,      \* the chip's side of the session (external)
  wire,      \* the APDU on its way, or its answer
  faulted,   \* the link has failed
  result     \* what cb was told

vars == <<doc, ask, stage, read, chip, wire, faulted, result>>

BacOps == {"select_aid", "get_challenge", "mutual_auth"}
PaceOps == {"select_ef_cardaccess", "ef_cardaccess_rest", "mse_set_at",
            "get_nonce", "map_nonce", "key_agreement", "pace_mutual_auth"}
SecureOps == {"pace_select_aid", "select_dg1", "dg1_rest", "select_dg2",
              "dg2_rest"}

NoSession == [seed |-> 0, ssc |-> ZeroSsc]
NoChallenge == <<0, 0>>

NoRead ==
  [keys |-> NoBytes, rnd_icc |-> NoChallenge, rnd_ifd |-> NoChallenge, k_ifd |-> 0,
   oid |-> NoBytes, s |-> 0, priv1 |-> 0, gtilde |-> 0, priv2 |-> 0,
   my_pub2 |-> 0, session |-> NoSession,
   card_access |-> NoBytes, dg1 |-> NoBytes, dg2 |-> NoBytes, total |-> 0]

NoChip ==
  [rnd_icc |-> NoChallenge, k_icc |-> 0, oid |-> NoBytes, s |-> 0, gtilde |-> 0,
   pub2 |-> 0, peer |-> 0, session |-> NoSession, sm |-> FALSE, file |-> "none"]

\* An APDU is its content: class, header, lengths and the 7C wrapping of the
\* PACE data objects are left out.  res of an answer: "ok", "refused" by the
\* chip, or "lost".
Apdu(dir, res, body) == [dir |-> dir, res |-> res, body |-> body]
NoWire == Apdu("none", "ok", <<>>)

-----------------------------------------------------------------------------
(* The chip and the link (external).                                       *)

ChipHears(op) == wire.dir = "cmd" /\ stage = op /\ op \notin doc.refuses
ChipSays(c, body) ==
  /\ chip' = c
  /\ wire' = Apdu("resp", "ok", body)
  /\ UNCHANGED <<doc, ask, stage, read, faulted, result>>
ChipRejects ==
  /\ wire' = Apdu("resp", "refused", <<>>)
  /\ UNCHANGED <<doc, ask, stage, read, chip, faulted, result>>

\* The document does not support, or does not want, the command of the
\* handshake it hears.
ChipRefuses ==
  /\ wire.dir = "cmd" /\ stage \in doc.refuses \ SecureOps
  /\ ChipRejects

\* Transceive() fails: the document has moved.
LinkFails ==
  /\ wire.dir = "cmd"
  /\ wire' = Apdu("resp", "lost", <<>>)
  /\ faulted' = TRUE
  /\ UNCHANGED <<doc, ask, stage, read, chip, result>>

ChipSelects ==
  /\ ChipHears("select_aid") \/ ChipHears("select_ef_cardaccess")
  /\ ChipSays(chip, <<>>)

ChipChallenges ==
  /\ ChipHears("get_challenge")
  /\ \E c \in Challenges, k \in 0..1 :
       ChipSays([chip EXCEPT !.rnd_icc = c, !.k_icc = k], c)

\* The MAC first, then the own challenge.
ChipAuthenticates ==
  /\ ChipHears("mutual_auth")
  /\ LET q == wire.body
         s == q.e.data
         keys == doc.key_text
     IN  IF /\ q.m = Mac(kmac(keys), q.e)
            /\ q.e.key = kenc(keys) /\ s[2] = chip.rnd_icc
           THEN ChipSays([chip EXCEPT !.sm = TRUE,
                            !.session = [seed |-> (s[3] + chip.k_icc) % 2,
                                         ssc |-> <<chip.rnd_icc[2], s[1][2]>>]],
                         Cryptogram(keys, chip.rnd_icc, s[1], chip.k_icc))
           ELSE ChipRejects

\* At most le bytes of the file from where the command says.
ReadBinary(file, cmd) == Slice(doc[file], cmd.p1 * 256 + cmd.p2, cmd.le)

ChipReadsAccess ==
  /\ ChipHears("ef_cardaccess_rest")
  /\ ChipSays(chip, ReadBinary("access", wire.body))

ChipSetsPace ==
  /\ ChipHears("mse_set_at")
  /\ ChipSays([chip EXCEPT !.oid = wire.body], <<>>)

ChipNonce ==
  /\ ChipHears("get_nonce")
  /\ \E s \in Points :
       ChipSays([chip EXCEPT !.s = s], Sealed(Kpi(doc.can), ZeroIv, s))

ChipMaps ==
  /\ ChipHears("map_nonce")
  /\ \E k \in Points \ {0} :
       ChipSays([chip EXCEPT !.gtilde = (chip.s + k * wire.body) % Q], k)

\* A chip needs a generator; it takes no other challenge.
ChipAgrees ==
  /\ ChipHears("key_agreement")
  /\ IF chip.gtilde = 0 THEN ChipRejects
     ELSE \E k \in Points \ {0} :
            ChipSays([chip EXCEPT !.pub2 = Times(k, chip.gtilde), !.peer = wire.body,
                        !.session = [seed |-> X(Times(k, wire.body)), ssc |-> ZeroSsc]],
                     Times(k, chip.gtilde))

\* To a wrong token it answers with an error status or with none of its own.
NoToken == Mac(Key(0, 0), <<NoBytes, 0>>)

ChipVerifies ==
  /\ ChipHears("pace_mutual_auth")
  /\ LET key == Key(chip.session.seed, 2)
     IN  IF wire.body = Mac(key, <<chip.oid, chip.pub2>>)
           THEN ChipSays([NoChip EXCEPT !.sm = TRUE, !.gtilde = chip.gtilde,
                                          !.session = chip.session],
                         Mac(key, <<chip.oid, chip.peer>>))
           ELSE ChipRejects \/ ChipSays(chip, NoToken)

\* Numbers modulo Base * Base, the counters' own arithmetic.
Number(ssc) == ssc[1] * Base + ssc[2]
Counter(n) == <<(n \div Base) % Base, n % Base>>
ChipSsc == Counter(Number(chip.session.ssc) + 1)
ChipSscAfter == Counter(Number(chip.session.ssc) + 2)

\* With PACE data is encrypted with the counter.
Iv(ssc) == IF ask.use_pace THEN ssc ELSE ZeroIv
Block == IF ask.use_pace THEN 16 ELSE 8

\* Whether the chip can read the protected command q.
Genuine(q) ==
  /\ chip.sm
  /\ q.do8e = Mac(Key(chip.session.seed, 2), <<ChipSsc, q.header, q.do87, q.do97>>)
  /\ \A k \in DOMAIN q.do87 :
       /\ q.do87[k].key = Key(chip.session.seed, 1)
       /\ q.do87[k].iv = Iv(ChipSsc)
       /\ Marked(q.do87[k].data)

Protected(data, sw) ==
  LET do87 == IF data = <<>> THEN <<>>
              ELSE <<Sealed(Key(chip.session.seed, 1), Iv(ChipSscAfter),
                            iso_pad(data, Block))>>
  IN  [do87 |-> do87, do99 |-> sw, sw |-> sw,
       do8e |-> Mac(Key(chip.session.seed, 2), <<ChipSscAfter, do87, sw>>)]

Ok == <<144, 0>>
NotFound == <<106, 130>>

Fid == [dg1 |-> <<1, 1>>, dg2 |-> <<1, 2>>]
EmrtdAid == <<160, 0, 0, 2, 71, 16, 1>>

\* The file a SELECT opens, if the document has it.
FileOf(data) ==
  CASE data = Fid.dg1 -> "dg1"
    [] data = Fid.dg2 /\ doc.dg2 # NoBytes -> "dg2"
    [] OTHER -> "none"

ChipObeys ==
  /\ wire.dir = "cmd" /\ stage \in SecureOps
  /\ LET q == wire.body
         data == IF q.do87 = <<>> THEN <<>> ELSE Unpadded(q.do87[1].data)
         moved == [chip EXCEPT !.session.ssc = ChipSscAfter]
     IN  CASE ~Genuine(q) -> ChipRejects
           [] Genuine(q) /\ q.header[1] = "select" ->
                IF /\ stage \notin doc.refuses
                   /\ data = EmrtdAid \/ FileOf(data) # "none"
                  THEN ChipSays([moved EXCEPT !.file = FileOf(data)], Protected(<<>>, Ok))
                  ELSE ChipSays(moved, Protected(<<>>, NotFound))
           [] Genuine(q) /\ q.header[1] = "read" ->
                ChipSays(moved, Protected(
                  ReadBinary(chip.file, [p1 |-> q.header[2], p2 |-> q.header[3],
                                         le |-> q.do97]), Ok))

Chip ==
  \/ ChipSelects \/ ChipChallenges \/ ChipAuthenticates \/ ChipReadsAccess
  \/ ChipSetsPace \/ ChipNonce \/ ChipMaps \/ ChipAgrees \/ ChipVerifies
  \/ ChipObeys \/ ChipRefuses

-----------------------------------------------------------------------------
(* The terminal.                                                           *)

\* The answer to the APDU sent for callback op is there.
Answered(op) ==
  /\ stage = op /\ wire.dir = "resp"
  /\ UNCHANGED <<doc, ask, faulted>>

Lost == wire.res = "lost"
Good == wire.res = "ok"

\* passport_transceive(): r is the read from here on.
Transceive(r, op, body) ==
  /\ stage' = op
  /\ read' = r
  /\ wire' = Apdu("cmd", "ok", body)
  /\ UNCHANGED <<chip, result>>

\* passport_read_finish(): the struct is freed, and the field is dropped.
Finish(outcome) ==
  /\ result' = outcome
  /\ stage' = "done" /\ read' = NoRead /\ wire' = NoWire /\ chip' = NoChip

NoResult == [status |-> "none", why |-> "", mrz |-> NoBytes, fields |-> NoFields,
             photo |-> NoPhoto]
Fail(why) == Finish([NoResult EXCEPT !.status = "failed", !.why = why])

\* What next there is after a good answer; each callback has a message of its
\* own for an answer that is none.
Unless(why, next) ==
  IF Lost THEN Fail("link") ELSE IF ~Good THEN Fail(why) ELSE next

\* A JPEG 2000 is converted if photo_jp2_to_bmp() can; data stands for the
\* picture either way.
Shown(photo) ==
  IF photo.format = "jpeg2000" THEN {photo, [photo EXCEPT !.format = "bmp"]}
  ELSE {photo}

passport_build_result_and_finish(r) ==
  LET mrz == bac_parse_dg1_mrz(r.dg1)
  IN  \E photo \in Shown(bac_extract_dg2_photo(r.dg2)) :
        Finish([status |-> "success", why |-> "", mrz |-> mrz,
                fields |-> bac_parse_mrz_fields(mrz), photo |-> photo])

nfcd_client_read_passport ==
  /\ stage = "idle" /\ ~ask.use_pace
  /\ UNCHANGED <<doc, ask, faulted>>
  /\ LET keys == bac_mrz_sha1(ask.number, ask.birth, ask.expiry)
     IN  IF keys = NoBytes THEN Fail("typed")
         ELSE Transceive([NoRead EXCEPT !.keys = keys], "select_aid", <<>>)

\* An empty CAN is -1.
nfcd_client_read_passport_pace ==
  /\ stage = "idle" /\ ask.use_pace
  /\ UNCHANGED <<doc, ask, faulted>>
  /\ IF ask.can = -1 THEN Fail("typed")
     ELSE Transceive(NoRead, "select_ef_cardaccess", <<>>)

passport_select_aid_ready ==
  /\ Answered("select_aid")
  /\ Unless("not_emrtd", Transceive(read, "get_challenge", <<>>))

passport_get_challenge_ready ==
  /\ Answered("get_challenge")
  /\ Unless("challenge",
       \E rnd_ifd \in Challenges, k_ifd \in 0..1 :
         Transceive([read EXCEPT !.rnd_icc = wire.body, !.rnd_ifd = rnd_ifd,
                                 !.k_ifd = k_ifd],
                    "mutual_auth",
                    bac_build_mutual_authenticate(read.keys, wire.body, rnd_ifd, k_ifd)))

sm_protect(session, cmd) ==
  IF ask.use_pace THEN pace_sm_protect(session, cmd) ELSE bac_sm_protect(session, cmd)
sm_unprotect(session, resp) ==
  IF ask.use_pace THEN pace_sm_unprotect(session, resp)
                  ELSE bac_sm_unprotect(session, resp)

\* A protected command goes out with session, or the read ends with instead.
Secured(r, session, op, cmd, instead) ==
  LET p == sm_protect(session, cmd)
  IN  IF p.ok THEN Transceive([r EXCEPT !.session = p.session], op, p.apdu)
              ELSE instead

Select(data) == Command("select", 2, 12, data, -1)
Read(offset, le) == Command("read", (offset \div 256) % 256, offset % 256, <<>>, le)

passport_mutual_auth_ready ==
  /\ Answered("mutual_auth")
  /\ Unless("rejected",
       LET p == bac_process_mutual_authenticate_response(
                  read.keys, read.rnd_icc, read.rnd_ifd, read.k_ifd, wire.body)
       IN  IF p.ok THEN Secured(read, p.session, "select_dg1", Select(Fid.dg1),
                                Fail("build"))
                   ELSE Fail("unverified"))

-----------------------------------------------------------------------------
(* PACE.                                                                   *)

\* Le = 0 asks for up to 256 bytes.
passport_select_ef_cardaccess_ready ==
  /\ Answered("select_ef_cardaccess")
  /\ Unless("no_card_access",
            Transceive(read, "ef_cardaccess_rest", Read(0, Chunk + 1)))

MaxLen == [card_access |-> 2048, dg1 |-> 2048, dg2 |-> 65536]

\* The length of file f by its TLV header, 0 without one or if it is too long.
Total(f, bytes) ==
  LET h == bac_ber_tlv_header(bytes)
  IN  IF h.header + h.content <= MaxLen[f] THEN h.header + h.content ELSE 0

\* The answer is kept; the first one tells the length of the file.
Grown(f) ==
  LET bytes == read[f] \o wire.body
  IN  [read EXCEPT ![f] = bytes,
                   !.total = IF read[f] = NoBytes THEN Total(f, bytes) ELSE @]

passport_ef_cardaccess_rest_ready ==
  /\ Answered("ef_cardaccess_rest")
  /\ Unless("card_access",
       IF wire.body = <<>> THEN Fail("card_access")
       ELSE \E r \in {Grown("card_access")} :
            \E entry \in {passport_pick_pace_entry(r.card_access)} :
            LET left == r.total - Len(r.card_access)
            IN  CASE r.total = 0 -> Fail("structure")
                  [] r.total > 0 /\ left > 0 ->
                       Transceive(r, "ef_cardaccess_rest",
                                  Read(Len(r.card_access), Min({left, Chunk})))
                  [] r.total > 0 /\ left <= 0 /\ entry = NoEntry -> Fail("unsupported")
                  [] OTHER -> Transceive([r EXCEPT !.oid = entry.oid], "mse_set_at",
                                         entry.oid))

pace_mse_set_at_ready ==
  /\ Answered("mse_set_at")
  /\ Unless("set_at", Transceive(read, "get_nonce", <<>>))

\* random_scalar() may be 0, whose point cannot be encoded.
pace_get_nonce_ready ==
  /\ Answered("get_nonce")
  /\ Unless("nonce",
       \E priv1 \in Points :
         IF priv1 = 0 THEN Fail("scalar")
         ELSE Transceive([read EXCEPT !.priv1 = priv1,
                            !.s = pace_process_nonce_response(ask.can, wire.body)],
                         "map_nonce", Times(priv1, 1)))

pace_map_nonce_ready ==
  /\ Answered("map_nonce")
  /\ Unless("mapping",
       LET g == pace_process_map_nonce_response(read.s, read.priv1, wire.body)
       IN  \E priv2 \in Points :
             IF Times(priv2, g) = 0 THEN Fail("scalar")
             ELSE Transceive([read EXCEPT !.gtilde = g, !.priv2 = priv2,
                                          !.my_pub2 = Times(priv2, g)],
                             "key_agreement", Times(priv2, g)))

pace_key_agreement_ready ==
  /\ Answered("key_agreement")
  /\ Unless("agreement",
       LET session == pace_process_key_agreement_response(read.priv2, wire.body)
       IN  Transceive([read EXCEPT !.session = session], "pace_mutual_auth",
                      pace_build_mutual_auth(session, read.oid, wire.body)))

\* Then pace_exchange_free().
pace_mutual_auth_ready ==
  /\ Answered("pace_mutual_auth")
  /\ Unless("can",
       IF pace_verify_mutual_auth_response(read.session, read.oid, read.my_pub2, wire.body)
         THEN Secured([NoRead EXCEPT !.card_access = read.card_access, !.oid = read.oid],
                      read.session, "pace_select_aid",
                      Command("select", 4, 12, EmrtdAid, -1), Fail("build"))
         ELSE Fail("can"))

-----------------------------------------------------------------------------
(* Under secure messaging.                                                 *)

\* The read with the session advanced and the data of the answer, or why not.
Opened(why, r, data) == [ok |-> why = "", why |-> why, r |-> r, data |-> data]

\* p is what the answer unwraps to.
Unwrapped(p) ==
  CASE ~p.ok -> Opened("integrity", read, <<>>)
    [] p.ok /\ p.sw # Ok -> Opened("refused", read, <<>>)
    [] OTHER -> Opened("", [read EXCEPT !.session = p.session], p.plaintext)

passport_sm_response_ok ==
  CASE Lost -> Opened("link", read, <<>>)
    [] wire.res = "refused" -> Opened("integrity", read, <<>>)
    [] Good -> Unwrapped(sm_unprotect(read.session, wire.body))

\* It has one message for an answer that cannot be read and for an error.
pace_select_aid_ready ==
  /\ Answered("pace_select_aid")
  /\ \E u \in {passport_sm_response_ok} :
         IF u.ok THEN Secured(u.r, u.r.session, "select_dg1", Select(Fid.dg1), Fail("build"))
                 ELSE Fail(IF Lost THEN "link" ELSE "application")

passport_select_dg1_ready ==
  /\ Answered("select_dg1")
  /\ \E u \in {passport_sm_response_ok} :
         IF u.ok THEN Secured([u.r EXCEPT !.total = 0], u.r.session, "dg1_rest",
                              Read(0, FirstLe), Fail("build"))
                 ELSE Fail(u.why)

\* File f with the data of one more answer, and what is next: "more" of it to
\* read, the "whole" of it, or why it ends here.
ReadOn(r, f, data) ==
  LET bytes == r[f] \o (IF data = <<>> THEN <<>> ELSE data[1])
      total == IF r.total = 0 THEN Total(f, bytes) ELSE r.total
  IN  [r |-> IF data = <<>> THEN r ELSE [r EXCEPT ![f] = bytes, !.total = total],
       next |-> CASE data = <<>> -> "empty"
                  [] data # <<>> /\ total = 0 -> "structure"
                  [] data # <<>> /\ total > 0 /\ total = Len(bytes) -> "whole"
                  [] OTHER -> "more"]

\* The next READ BINARY of file f; failing to build it ends in instead.
ReadMore(r, f, op, instead) ==
  Secured(r, r.session, op, Read(Len(r[f]), Min({r.total - Len(r[f]), Chunk})), instead)

\* The end of EF.DG1.  For EF.DG2 every failure is the end with what there is.
passport_select_dg2_start(r) ==
  IF bac_parse_dg1_mrz(r.dg1) = NoBytes THEN Fail("parse")
  ELSE IF ask.read_photo
    THEN Secured(r, r.session, "select_dg2", Select(Fid.dg2),
                 passport_build_result_and_finish(r))
    ELSE passport_build_result_and_finish(r)

passport_dg1_rest_ready ==
  /\ Answered("dg1_rest")
  /\ \E u \in {passport_sm_response_ok} : \E on \in {ReadOn(u.r, "dg1", u.data)} :
         CASE ~u.ok -> Fail(u.why)
           [] u.ok /\ on.next = "more" -> ReadMore(on.r, "dg1", "dg1_rest", Fail("build"))
           [] u.ok /\ on.next = "whole" -> passport_select_dg2_start(on.r)
           [] OTHER -> Fail(on.next)

passport_select_dg2_ready ==
  /\ Answered("select_dg2")
  /\ \E u \in {passport_sm_response_ok} :
         IF u.ok THEN Secured([u.r EXCEPT !.total = 0], u.r.session, "dg2_rest",
                              Read(0, FirstLe), passport_build_result_and_finish(u.r))
                 ELSE passport_build_result_and_finish(u.r)

passport_dg2_rest_ready ==
  /\ Answered("dg2_rest")
  /\ \E u \in {passport_sm_response_ok} : \E on \in {ReadOn(u.r, "dg2", u.data)} :
         IF u.ok /\ on.next = "more"
           THEN ReadMore(on.r, "dg2", "dg2_rest", passport_build_result_and_finish(on.r))
           ELSE passport_build_result_and_finish(IF u.ok THEN on.r ELSE u.r)

Terminal ==
  \/ nfcd_client_read_passport \/ nfcd_client_read_passport_pace
  \/ passport_select_aid_ready \/ passport_get_challenge_ready
  \/ passport_mutual_auth_ready
  \/ passport_select_ef_cardaccess_ready \/ passport_ef_cardaccess_rest_ready
  \/ pace_mse_set_at_ready \/ pace_get_nonce_ready \/ pace_map_nonce_ready
  \/ pace_key_agreement_ready \/ pace_mutual_auth_ready \/ pace_select_aid_ready
  \/ passport_select_dg1_ready \/ passport_dg1_rest_ready
  \/ passport_select_dg2_ready \/ passport_dg2_rest_ready

Next == Chip \/ LinkFails \/ Terminal

Init ==
  /\ \E name \in DOMAIN Documents : doc = Documents[name] /\ ask \in Typings[name]
  /\ stage = "idle" /\ read = NoRead /\ chip = NoChip /\ wire = NoWire
  /\ faulted = FALSE /\ result = NoResult

Spec == Init /\ [][Next]_vars

-----------------------------------------------------------------------------
(* The documents.                                                          *)

\* The length of a data group of document d, by what is read of it first.
FileLength(d, f) == Total(f, Slice(d[f], 0, FirstLe))
AccessLength(d) == Total("card_access", Slice(d.access, 0, Chunk + 1))

\* Bit 8 of P1 would make a READ BINARY name another file, so the code cannot
\* reach further into EF.DG2 (ReadBinary has no such commands).
Reach == 32768

\* "present only when the MRZ parses as a recognized TD1 (ID card) or TD3
\* (passport) layout" (docs/API.md).
ReportedFields(d) == IF d.layout \in {"TD1", "TD3"} THEN d.fields ELSE NoFields

\* A document as it is issued: a file is as long as its header says or longer,
\* and what the parsers of bac.c and pace.c find in it is what the issuer put
\* there.  Of a picture that is cut they find a part.  A document that refuses
\* EF.CardAccess need not have one.
Issued(d) ==
  /\ {d.dg1, d.dg2, d.access} \subseteq Seq(Nat)
  /\ FileLength(d, "dg1") \in FirstLe..Len(d.dg1)
  /\ d.dg2 # NoBytes => /\ FileLength(d, "dg2") \in FirstLe..Len(d.dg2)
                        /\ FileLength(d, "dg2") <= Reach
  /\ "select_ef_cardaccess" \notin d.refuses => AccessLength(d) \in 1..Len(d.access)
  /\ d.mrz # NoBytes /\ bac_parse_dg1_mrz(Slice(d.dg1, 0, FileLength(d, "dg1"))) = d.mrz
  /\ bac_parse_mrz_fields(d.mrz) = ReportedFields(d)
  /\ \A n \in 0..Len(d.dg2) :
       LET data == bac_extract_dg2_photo(Slice(d.dg2, 0, n)).data
       IN  /\ IsPrefix(data, d.image)
           /\ d.dg2 = NoBytes \/ n = FileLength(d, "dg2") => data = d.image
  /\ \A n \in AccessLength(d)..Len(d.access) :
       d.supported => passport_pick_pace_entry(Slice(d.access, 0, n)) # NoEntry

\* What is right or malformed of the document number and dates of a call.
Entered(d, typed) ==
  LET keys == bac_mrz_sha1(typed.number, typed.birth, typed.expiry)
  IN  IF typed.use_pace THEN typed.can = -1 => typed.malformed
      ELSE /\ keys = NoBytes => typed.malformed
           /\ typed.right => keys = d.key_text

-----------------------------------------------------------------------------
(* Properties.                                                             *)

IsSession(s) == s.ssc \in (0..(Base - 1)) \X (0..(Base - 1)) /\ s.seed \in Nat

TypeOK ==
  /\ \E name \in DOMAIN Documents : doc = Documents[name] /\ ask \in Typings[name]
  /\ stage \in BacOps \union PaceOps \union SecureOps \union {"idle", "done"}
  /\ wire.dir \in {"none", "cmd", "resp"}
  /\ IsSession(read.session) /\ IsSession(chip.session)
  /\ {read.s, read.priv1, read.gtilde, read.priv2, read.my_pub2, chip.s,
      chip.gtilde, chip.pub2} \subseteq Points
  /\ read.total \in Nat /\ faulted \in BOOLEAN
  /\ result.status \in {"none", "success", "failed"}

Secure == stage \in SecureOps

(***************************************************************************)
(* From the handshake on, terminal and chip have the same session keys,    *)
(* and their send sequence counters never part, over carries and overflow: *)
(* the terminal is one ahead while a command is out and the chip while an  *)
(* answer is.  A counter that parts makes every later MAC fail, which no   *)
(* test with one fixed challenge shows.                                    *)
(***************************************************************************)
InStep ==
  Secure /\ wire.res = "ok" =>
    /\ chip.sm
    /\ read.session.seed = chip.session.seed
    /\ IF wire.dir = "cmd"
         THEN read.session.ssc = Counter(Number(chip.session.ssc) + 1)
         ELSE chip.session.ssc = Counter(Number(read.session.ssc) + 1)

\* With another CAN both sides end with a point of the same x coordinate.
Coincidence == (2 * chip.gtilde + ask.can - doc.can) % Q = 0

(***************************************************************************)
(* Secure messaging means the password was right: the document number and  *)
(* the dates of the document in hand for BAC (bac.h: "Only usable by       *)
(* whoever already holds the physical document"), its CAN for PACE, except *)
(* where s G + H is the negative of what it would have been.               *)
(***************************************************************************)
PasswordProved ==
  Secure => IF ask.use_pace
              THEN ask.can = doc.can \/ Coincidence
              ELSE bac_mrz_sha1(ask.number, ask.birth, ask.expiry) = doc.key_text

(***************************************************************************)
(* What a successful read reports is what the issuer wrote, however the    *)
(* file is cut into APDUs and padded in the messages: the MRZ; the fields  *)
(* of it where the layout is TD1 or TD3, and none of them in any other     *)
(* ("present only when the MRZ parses as a recognized TD1 (ID card) or TD3 *)
(* (passport) layout", docs/API.md:460); and the picture, which a failure  *)
(* of the link may cut short.  The comment on struct                       *)
(* nfcd_passport_result, "fields are always populated on a successful      *)
(* result (parse failure would itself be reported as a failure)"           *)
(* (nfcd_client.h:55), is not what the code does: of a TD2 document it     *)
(* reports success without fields.                                         *)
(***************************************************************************)
ReportsTheDocument ==
  result.status = "success" =>
    /\ result.mrz = doc.mrz
    /\ result.fields = ReportedFields(doc)
    /\ IsPrefix(result.photo.data, doc.image)
    /\ ask.read_photo /\ ~faulted => result.photo.data = doc.image
    /\ ~ask.read_photo => result.photo = NoPhoto

RightPassword ==
  IF ask.use_pace THEN ask.can = doc.can ELSE ask.right

\* The command whose refusal is the reason for a message.
RefusalOf ==
  [not_emrtd |-> "select_aid", challenge |-> "get_challenge",
   no_card_access |-> "select_ef_cardaccess", card_access |-> "ef_cardaccess_rest",
   set_at |-> "mse_set_at", nonce |-> "get_nonce", mapping |-> "map_nonce",
   application |-> "pace_select_aid", rejected |-> "mutual_auth",
   agreement |-> "key_agreement", can |-> "pace_mutual_auth"]

(***************************************************************************)
(* The caller of a failed read is told why.  "typed": the data were        *)
(* malformed.  "rejected": they are not those of the document, or it does  *)
(* not take BAC ("check the document number, date of birth and date of     *)
(* expiry, or this document may need PACE instead of BAC").  "agreement"   *)
(* and "can": the CAN is not that of the document, or it refuses to go on. *)
(* "unsupported": no parameters of the document's are.  Every other        *)
(* message about the document is given only when the document refuses the  *)
(* command it is about ("Not an ICAO 9303 document", "this document        *)
(* doesn't expose its PACE parameters where expected", and so on; "the CAN *)
(* is probably wrong" of the nonce too, since a wrong CAN decrypts it to   *)
(* another number and no more).  Whatever else is told, the link failed:   *)
(* without that or a zero among the random numbers, a read with the right  *)
(* password of a document that this build supports, and that supports the  *)
(* protocol, does not fail.                                                *)
(***************************************************************************)
ErrorTellsWhy ==
  result.status = "failed" =>
    CASE result.why = "typed" -> ask.malformed
      [] result.why = "unsupported" -> ask.use_pace /\ ~doc.supported
      [] result.why \in {"rejected", "can", "agreement"} ->
           ~RightPassword \/ RefusalOf[result.why] \in doc.refuses
      [] result.why \in DOMAIN RefusalOf \ {"rejected", "can", "agreement"} ->
           RefusalOf[result.why] \in doc.refuses
      [] result.why = "scalar" -> ask.use_pace
      [] OTHER -> faulted
=============================================================================
