--------------------------- MODULE MCDocumentRead ---------------------------
(***************************************************************************)
(* Documents for DocumentRead, laid out after ICAO 9303 by their issuer:   *)
(* two specimens of 9303 with the check digits printed there, a card with  *)
(* a short number and a name that fills its line, and a TD2 document, the  *)
(* format bac_parse_mrz_fields() does not know; and cards that refuse a    *)
(* step: without BAC, without PACE, without an eMRTD application, or in    *)
(* the middle of a handshake.                                              *)
(***************************************************************************)
EXTENDS DocumentRead

Padded(text, n) == SubSeq(text \o Fills(n), 1, n)

Length(n) == CASE n < 128 -> <<n>>
               [] n \in 128..255 -> <<129, n>>
               [] OTHER -> <<130, n \div 256, n % 256>>
Tlv(tag, content) == tag \o Length(Len(content)) \o content

Filled(name) == [n \in DOMAIN name |-> IF name[n] = Space THEN Fill ELSE name[n]]
NameText(f) == Filled(f.name.surname) \o Fills(2) \o Filled(f.name.given_names)

\* digits: the check digits of number, birth and expiry.
Td1Text(f, digits) ==
  Padded(f.type, 2) \o Padded(f.state, 3) \o Padded(f.number, 9) \o <<digits[1]>>
    \o Fills(15) \o f.birth \o <<digits[2], f.sex>> \o f.expiry \o <<digits[3]>>
    \o Padded(f.nationality, 3) \o Fills(11) \o <<54>> \o Padded(NameText(f), 30)
Td3Text(f, digits) ==
  Padded(f.type, 2) \o Padded(f.state, 3) \o Padded(NameText(f), 39)
    \o Padded(f.number, 9) \o <<digits[1]>> \o Padded(f.nationality, 3)
    \o f.birth \o <<digits[2], f.sex>> \o f.expiry \o <<digits[3]>>
    \o Fills(14) \o <<48, 54>>
Td2Text(f, digits) ==
  Padded(f.type, 2) \o Padded(f.state, 3) \o Padded(NameText(f), 31)
    \o Padded(f.number, 9) \o <<digits[1]>> \o Padded(f.nationality, 3)
    \o f.birth \o <<digits[2], f.sex>> \o f.expiry \o <<digits[3]>>
    \o Fills(7) \o <<54>>

Uto == <<85, 84, 79>>                             \* UTO
Birth == <<55, 52, 48, 56, 49, 50>>               \* 740812, digit 2
Expiry == <<49, 50, 48, 52, 49, 53>>              \* 120415, digit 9
Eriksson == <<69, 82, 73, 75, 83, 83, 79, 78>>
AnnaMaria == <<65, 78, 78, 65, 32, 77, 65, 82, 73, 65>>
LongName == [n \in 1..29 |-> IF n = 4 THEN Space ELSE 65 + (n % 26)]

Holder(type, surname, given, number) ==
  [type |-> type, state |-> Uto, name |-> [surname |-> surname, given_names |-> given],
   number |-> number, nationality |-> Uto, birth |-> Birth, sex |-> 70,
   expiry |-> Expiry, number_ok |-> TRUE, birth_ok |-> TRUE, expiry_ok |-> TRUE]

PassportNumber == <<76, 56, 57, 56, 57, 48, 50, 67, 51>>   \* L898902C3, digit 6
CardNumber == <<68, 50, 51, 49, 52, 53, 56, 57, 48>>       \* D23145890, digit 7
ShortNumber == <<88, 49>>                                  \* X1, digit 4

\* EF.CardAccess: SecurityInfos with or without parameters, in a larger file.
Info(oid, id) ==
  Tlv(<<48>>, Tlv(<<6>>, oid) \o <<2, 1, 2>> \o (IF id = -1 THEN <<>> ELSE <<2, 1, id>>))
ChipAuthentication == Info(<<4, 0, 127, 0, 7, 2, 2, 3, 2, 2>>, -1)
Aes192 == Info(id_pace_prefix \o <<2, 3>>, 13)
Explicit == Info(pace_oid_aes128, -1)
Access(infos) == Tlv(<<49>>, FlattenSeq(infos)) \o [n \in 1..3 |-> 0]

\* A face record around the image.
Dg2(image) == IF image = NoBytes THEN NoBytes
              ELSE Tlv(<<117>>, <<127, 97, 70, 65, 67, 0>> \o image)
Jpeg == jpeg_magic \o <<224, 1, 128, 0, 0>>
Jp2 == jp2_magic \o [n \in 1..125 |-> n % 7]

Document(fields, layout, text, digits, image, can, access, supported) ==
  [mrz |-> text, fields |-> fields, layout |-> layout, image |-> image, refuses |-> {},
   dg1 |-> Tlv(<<97>>, Tlv(<<95, 31>>, text)), dg2 |-> Dg2(image),
   access |-> access, supported |-> supported, can |-> can,
   number |-> fields.number,
   key_text |-> Padded(fields.number, 9) \o <<digits[1]>> \o Birth \o <<digits[2]>>
                  \o Expiry \o <<digits[3]>>]

Passport == Holder(<<80>>, Eriksson, AnnaMaria, PassportNumber)
Card == Holder(<<73>>, Eriksson, <<>>, CardNumber)
Short == Holder(<<73, 68>>, LongName, <<>>, ShortNumber)

CardDocument(image) ==
  Document(Card, "TD1", Td1Text(Card, <<55, 50, 57>>), <<55, 50, 57>>, image, 2,
           Access(<<Info(pace_oid_aes128, 13)>>), TRUE)
Refusing(ops) == [CardDocument(NoBytes) EXCEPT !.refuses = ops]

Complete ==
  [passport |-> Document(Passport, "TD3", Td3Text(Passport, <<54, 50, 57>>),
                  <<54, 50, 57>>, Jpeg, 1,
                  Access(<<ChipAuthentication, Explicit, Aes192,
                           Info(pace_oid_aes256, 14)>>), TRUE),
   card |-> CardDocument(Jp2),
   short |-> Document(Short, "TD1", Td1Text(Short, <<52, 50, 57>>), <<52, 50, 57>>,
               NoBytes, 3, Access(<<ChipAuthentication, Aes192>>), FALSE),
   td2 |-> Document(Card, "TD2", Td2Text(Card, <<55, 50, 57>>), <<55, 50, 57>>,
              NoBytes, 4, Access(<<Info(pace_oid_aes128, 12)>>), TRUE)]

\* The one without PACE has no EF.CardAccess, and no parameters in it.
Incomplete ==
  [pace_only |-> Refusing({"mutual_auth"}),
   bac_only |-> [Refusing({"select_ef_cardaccess"}) EXCEPT !.access = NoBytes,
                                                           !.supported = FALSE],
   not_emrtd |-> Refusing({"select_aid", "pace_select_aid"}),
   locked |-> Refusing({"get_challenge", "get_nonce"}),
   set_at |-> Refusing({"mse_set_at"}),
   mapping |-> Refusing({"map_nonce"})]

MCDocuments == Complete @@ Incomplete

Bac(number, right, malformed, photo) ==
  [use_pace |-> FALSE, read_photo |-> photo, number |-> number, birth |-> Birth,
   expiry |-> Expiry, can |-> 0, right |-> right, malformed |-> malformed]
Pace(can, photo) ==
  [use_pace |-> TRUE, read_photo |-> photo, number |-> <<>>, birth |-> <<>>,
   expiry |-> <<>>, can |-> can, right |-> FALSE, malformed |-> can = -1]

Lower(number) == [n \in DOMAIN number |-> IF number[n] \in Capitals THEN number[n] + 32
                                          ELSE number[n]]

\* Typed as printed or in small letters, mistyped, too long or with a dash;
\* the CAN right, of another document, or empty.
TypingsFor(number, can) ==
  {Bac(number, TRUE, FALSE, photo) : photo \in BOOLEAN} \union
  {Bac(Lower(number), TRUE, FALSE, FALSE),
   Bac(<<65>> \o Tail(number), FALSE, FALSE, FALSE),
   Bac(number \o Fills(10 - Len(number)), FALSE, TRUE, FALSE),
   Bac(<<45>> \o Tail(number), FALSE, TRUE, FALSE),
   Pace(can, TRUE), Pace((can % 4) + 1, FALSE), Pace(-1, FALSE)}

MCTypings ==
  [d \in DOMAIN MCDocuments |->
     IF d \in DOMAIN Complete
       THEN TypingsFor(MCDocuments[d].number, MCDocuments[d].can)
       ELSE {Bac(MCDocuments[d].number, TRUE, FALSE, FALSE),
             Pace(MCDocuments[d].can, FALSE)}]

MCChallenges == {<<0, 3>>, <<1, 2>>, <<3, 3>>}

\* The hypotheses of the theorems about results, of these documents.  TLC finds
\* this true.  It is not an ASSUME: a parser that is wrong would end a run before
\* it shows what the caller would be told.
DocumentsAreIssued ==
  \A d \in DOMAIN MCDocuments :
    Issued(MCDocuments[d]) /\ \A typed \in MCTypings[d] : Entered(MCDocuments[d], typed)
=============================================================================
