------------------------------- MODULE Emrtd -------------------------------
(***************************************************************************)
(* The files of an electronic travel document as bac.c and pace.c read     *)
(* them: BER lengths, the MRZ in EF.DG1 and its fields, the picture in     *)
(* EF.DG2 and the PACE parameters in EF.CardAccess.  Bytes are numbers,    *)
(* characters their ASCII codes, and a file or text is a sequence of them; *)
(* positions are offsets, as in C.                                         *)
(***************************************************************************)
EXTENDS Integers, Sequences, FiniteSets, SequencesExt

\* What a function that returns FALSE or NULL leaves behind.
NoBytes == <<>>

Slice(s, at, n) == SubSeq(s, at + 1, Min({at + n, Len(s)}))
From(s, at) == SubSeq(s, at + 1, Len(s))
At(s, at) == s[at + 1]

-----------------------------------------------------------------------------
(* MRZ characters and check digits.                                        *)

Fill == 60     \* '<'
Space == 32
Digits == 48..57
Capitals == 65..90

\* Mutant: a document number is taken as it was typed.
toupper_typed(c) == c

toupper(c) == IF c \in 97..122 THEN c - 32 ELSE c

mrz_char_value(c) ==
  CASE c \in Digits -> c - 48
    [] c \in Capitals -> c - 55
    [] c = Fill -> 0
    [] OTHER -> -1

\* Mutant: the weights start with 3.
Weight_shifted(n) == <<7, 3, 1>>[(n % 3) + 1]

Weight(n) == <<7, 3, 1>>[((n - 1) % 3) + 1]

\* The digit, or -1 for a character that no MRZ has.
mrz_check_digit(field) ==
  IF \E n \in DOMAIN field : mrz_char_value(field[n]) < 0 THEN -1
  ELSE 48 + (MapThenSumSet(LAMBDA n : mrz_char_value(field[n]) * Weight(n),
                           DOMAIN field) % 10)

Fills(n) == [i \in 1..n |-> Fill]

\* The text whose digest seeds the keys; the digest itself is left out.
bac_mrz_sha1(number, birth, expiry) ==
  LET doc == [n \in DOMAIN number |-> toupper(number[n])] \o Fills(9 - Len(number))
      checked == <<doc, birth, expiry>>
  IN  IF /\ Len(number) \in 1..9 /\ Len(birth) = 6 /\ Len(expiry) = 6
         /\ \A n \in 1..3 : mrz_check_digit(checked[n]) # -1
        THEN FlattenSeq([n \in 1..3 |-> Append(checked[n], mrz_check_digit(checked[n]))])
        ELSE NoBytes

-----------------------------------------------------------------------------
(* BER lengths.                                                            *)

NoHeader == [header |-> 0, content |-> 0]

ber_length(p) ==
  CASE Len(p) >= 1 /\ p[1] < 128 -> [header |-> 1, content |-> p[1]]
    [] Len(p) >= 2 /\ p[1] = 129 -> [header |-> 2, content |-> p[2]]
    [] Len(p) >= 3 /\ p[1] = 130 -> [header |-> 3, content |-> p[2] * 256 + p[3]]
    [] OTHER -> NoHeader

\* With the tag, which is one byte.
Tagged(l) == IF l = NoHeader THEN NoHeader ELSE [l EXCEPT !.header = @ + 1]

bac_ber_tlv_header(data) ==
  IF Len(data) < 2 THEN NoHeader ELSE Tagged(ber_length(From(data, 1)))

-----------------------------------------------------------------------------
(* EF.DG1.                                                                 *)

\* The value whose length starts at pos.
ValueAt(dg1, pos, inner) ==
  IF inner # NoHeader /\ pos + inner.header + inner.content <= Len(dg1)
    THEN Slice(dg1, pos + inner.header, inner.content)
    ELSE NoBytes

\* The MRZ in the template, whose header is outer.
MrzIn(dg1, outer) ==
  IF /\ outer # NoHeader /\ outer.header + outer.content <= Len(dg1)
     /\ Slice(dg1, outer.header, 2) = <<95, 31>>
    THEN ValueAt(dg1, outer.header + 2, ber_length(From(dg1, outer.header + 2)))
    ELSE NoBytes

bac_parse_dg1_mrz(dg1) ==
  IF Len(dg1) < 2 \/ dg1[1] # 97 THEN NoBytes ELSE MrzIn(dg1, bac_ber_tlv_header(dg1))

\* Up to the first fill character.
mrz_trim_copy(field) ==
  LET fills == {n \in DOMAIN field : field[n] = Fill}
  IN  IF fills = {} THEN field ELSE SubSeq(field, 1, Min(fills) - 1)

\* Fill characters inside a name are spaces; the ones after it are dropped.
Spaced(s) == [n \in DOMAIN s |-> IF s[n] = Fill THEN Space ELSE s[n]]
g_strchomp(s) ==
  LET kept == {n \in DOMAIN s : s[n] # Space}
  IN  IF kept = {} THEN <<>> ELSE SubSeq(s, 1, Max(kept))
Name(s, cap) == g_strchomp(Spaced(Slice(s, 0, Min({Len(s), cap - 1}))))

\* Mutant: the separator is one fill character.
mrz_decode_name_single(field) ==
  LET seps == {n \in 0..(Len(field) - 1) : At(field, n) = Fill}
      sep == IF seps = {} THEN Len(field) ELSE Min(seps)
  IN  [surname |-> Name(Slice(field, 0, sep), 64),
       given_names |-> Name(From(field, sep + 2), 64)]

\* Surname "<<" given names; without "<<" all of it is the surname.
mrz_decode_name(field) ==
  LET seps == {n \in 0..(Len(field) - 2) :
                 At(field, n) = Fill /\ At(field, n + 1) = Fill}
      sep == IF seps = {} THEN Len(field) ELSE Min(seps)
  IN  [surname |-> Name(Slice(field, 0, sep), 64),
       given_names |-> Name(From(field, sep + 2), 64)]

\* Where the fields are in the 90 characters of a card (TD1) and the 88 of a
\* passport (TD3).
TD1 == [number |-> 5, birth |-> 30, sex |-> 37, expiry |-> 38,
        nationality |-> 45, name |-> 60, name_len |-> 30]
TD3 == [name |-> 5, name_len |-> 39, number |-> 44, nationality |-> 54,
        birth |-> 57, sex |-> 64, expiry |-> 65]

Checked(mrz, at, len) == mrz_check_digit(Slice(mrz, at, len)) = At(mrz, at + len)

FieldsAt(mrz, layout) ==
  [type |-> mrz_trim_copy(Slice(mrz, 0, 2)),
   state |-> mrz_trim_copy(Slice(mrz, 2, 3)),
   name |-> mrz_decode_name(Slice(mrz, layout.name, layout.name_len)),
   number |-> mrz_trim_copy(Slice(mrz, layout.number, 9)),
   nationality |-> mrz_trim_copy(Slice(mrz, layout.nationality, 3)),
   birth |-> mrz_trim_copy(Slice(mrz, layout.birth, 6)),
   sex |-> At(mrz, layout.sex),
   expiry |-> mrz_trim_copy(Slice(mrz, layout.expiry, 6)),
   number_ok |-> Checked(mrz, layout.number, 9),
   birth_ok |-> Checked(mrz, layout.birth, 6),
   expiry_ok |-> Checked(mrz, layout.expiry, 6)]

NoFields == [type |-> NoBytes]

\* An MRZ of another length has no fields.
bac_parse_mrz_fields(mrz) ==
  CASE Len(mrz) = 90 -> FieldsAt(mrz, TD1)
    [] Len(mrz) = 88 -> FieldsAt(mrz, TD3)
    [] OTHER -> NoFields

-----------------------------------------------------------------------------
(* EF.DG2.                                                                 *)

jpeg_magic == <<255, 216, 255>>
jp2_magic == <<0, 0, 0, 12, 106, 80, 32, 32, 13, 10, 135, 10>>
jp2_codestream_magic == <<255, 79, 255, 81>>

\* The first place of needle, or -1.
find_bytes(haystack, needle) ==
  LET found == {n \in 0..(Len(haystack) - Len(needle)) :
                  Slice(haystack, n, Len(needle)) = needle}
  IN  IF found = {} THEN -1 ELSE Min(found)

NoPhoto == [format |-> "none", data |-> NoBytes]

\* All that follows the signature, that of a JPEG before that of a JPEG 2000.
bac_extract_dg2_photo(dg2) ==
  LET jpeg == find_bytes(dg2, jpeg_magic)
      jp2 == find_bytes(dg2, jp2_magic)
      stream == find_bytes(dg2, jp2_codestream_magic)
  IN  CASE jpeg >= 0 -> [format |-> "jpeg", data |-> From(dg2, jpeg)]
        [] jpeg < 0 /\ jp2 >= 0 -> [format |-> "jpeg2000", data |-> From(dg2, jp2)]
        [] jpeg < 0 /\ jp2 < 0 /\ stream >= 0 ->
             [format |-> "jpeg2000", data |-> From(dg2, stream)]
        [] OTHER -> NoPhoto

-----------------------------------------------------------------------------
(* EF.CardAccess.                                                          *)

id_pace_prefix == <<4, 0, 127, 0, 7, 2, 2, 4>>
pace_oid_aes128 == id_pace_prefix \o <<2, 2>>
pace_oid_aes256 == id_pace_prefix \o <<2, 4>>

pace_key_len_for_oid(oid) ==
  CASE oid = pace_oid_aes128 -> 16 [] oid = pace_oid_aes256 -> 32 [] OTHER -> 0

pace_oid_supported(oid) == pace_key_len_for_oid(oid) # 0

\* 12, 13 and 14 are the curves; 0 stands for none.
pace_ec_curve_for_parameter_id(id) == IF id \in 12..14 THEN id ELSE 0

\* The value of an INTEGER of one to four bytes at p of seq, or -1.
ParameterId(seq, p) ==
  LET h == bac_ber_tlv_header(From(seq, p))
      bytes == Slice(seq, p + h.header, h.content)
  IN  IF p < Len(seq) /\ At(seq, p) = 2 /\ h # NoHeader /\ h.content \in 1..4
        THEN FoldLeft(LAMBDA v, b : v * 256 + b, 0, bytes)
        ELSE -1

\* Mutant: the version is taken for the parameters.
AfterVersion_at(seq, p) == p

\* Past the INTEGER version at p of seq; its value is not looked at.
AfterVersion(seq, p) ==
  LET version == bac_ber_tlv_header(From(seq, p))
  IN  IF p < Len(seq) /\ At(seq, p) = 2 /\ version # NoHeader
        THEN p + version.header + version.content ELSE p

\* The PACEInfo in seq, as a sequence of none or one: the protocol, whose
\* header oid is at p, and after the version the optional parameters.
PaceInfo(seq, p, oid) ==
  IF /\ p < Len(seq) /\ At(seq, p) = 6
     /\ oid # NoHeader /\ oid.content \in 8..16
     /\ Slice(seq, p + oid.header, 8) = id_pace_prefix
    THEN <<[oid |-> Slice(seq, p + oid.header, oid.content),
            parameter_id |->
              ParameterId(seq, AfterVersion(seq, p + oid.header + oid.content))]>>
    ELSE <<>>

\* The SEQUENCE seq has a header of p bytes.
SecurityInfo(seq, p) == PaceInfo(seq, p, bac_ber_tlv_header(From(seq, p)))

\* Every PACEInfo of the SET, up to max_entries; the walk ends at what is no
\* SEQUENCE.
pace_parse_card_access(data, max_entries) ==
  LET outer == bac_ber_tlv_header(data)
      end == outer.header + outer.content
      walk[pos \in 0..Len(data)] ==
        LET h == bac_ber_tlv_header(Slice(data, pos, end - pos))
            len == h.header + h.content
        IN  IF pos < end /\ At(data, pos) = 48 /\ h # NoHeader /\ pos + len <= end
              THEN SecurityInfo(Slice(data, pos, len), h.header) \o walk[pos + len]
              ELSE <<>>
      found == walk[outer.header]
  IN  IF Len(data) >= 2 /\ data[1] = 49 /\ outer # NoHeader /\ end <= Len(data)
        THEN SubSeq(found, 1, Min({Len(found), max_entries}))
        ELSE <<>>

NoEntry == [oid |-> NoBytes, parameter_id |-> -1]

\* Mutant: room for one entry.
MaxEntries_one == 1

MaxEntries == 8

Usable(entry) ==
  /\ pace_oid_supported(entry.oid)
  /\ pace_ec_curve_for_parameter_id(entry.parameter_id) # 0

FirstUsable(entries) ==
  LET usable == {i \in DOMAIN entries : Usable(entries[i])}
  IN  IF usable = {} THEN NoEntry ELSE entries[Min(usable)]

\* The first entry this build can run.
passport_pick_pace_entry(card_access) ==
  FirstUsable(pace_parse_card_access(card_access, MaxEntries))
=============================================================================
