-------------------------------- MODULE Ndef --------------------------------
(***************************************************************************)
(* The NDEF codec of ndef.c as operators: the builders behind writeTag,    *)
(* the Type 2 TLV, the hexadecimal strings of getTagInfo and cloneTag, and *)
(* the decoder behind getTagInfo's records.                                *)
(*                                                                         *)
(* A byte string is a sequence of numbers below 256.  Text is abstracted   *)
(* to words: n characters that are told apart from other words by a common *)
(* value, so that prefixes and lengths are those of the real strings.      *)
(* Offsets are the code's, from 0.                                         *)
(***************************************************************************)
EXTENDS Integers, SequencesExt

CONSTANT NULL

\* A string of n printable characters, word w.
Word(w, n) == [k \in 1..n |-> 32 + w]

Bit(byte, mask) == (byte \div mask) % 2 = 1

NDEF_HDR_MB == 128
NDEF_HDR_ME == 64
NDEF_HDR_SR == 16
NDEF_HDR_IL == 8

-----------------------------------------------------------------------------
(* Hexadecimal.  A string is a sequence of digits; 16 is any other letter. *)

ndef_bytes_to_hex(data) ==
  [k \in 1..2 * Len(data) |-> IF k % 2 = 1 THEN data[(k + 1) \div 2] \div 16
                                           ELSE data[k \div 2] % 16]

ndef_hex_to_bytes(hex) ==
  IF hex = NULL \/ hex = <<>> \/ Len(hex) % 2 # 0
     \/ \E k \in DOMAIN hex : hex[k] > 15
    THEN NULL
    ELSE [k \in 1..Len(hex) \div 2 |-> 16 * hex[2 * k - 1] + hex[2 * k]]

-----------------------------------------------------------------------------
(* The table of URI abbreviations: the prefix of code c is its element     *)
(* c + 1.                                                                  *)

Ftp == Word(7, 6)
Urn == Word(8, 4)
Epc == Urn \o Word(9, 4)

uri_prefixes ==
  << <<>>, Word(1, 7) \o Word(2, 4), Word(3, 8) \o Word(2, 4), Word(1, 7),
     Word(3, 8), Word(4, 4), Word(5, 7), Ftp \o Word(6, 20), Ftp \o Word(10, 4),
     Word(11, 7), Word(12, 7), Word(13, 6), Word(14, 6), Ftp, Word(15, 6),
     Word(16, 5), Word(17, 9), Word(18, 5), Word(19, 7), Urn, Word(20, 4),
     Word(21, 4), Word(22, 5), Word(23, 5), Word(24, 8), Word(25, 10),
     Word(26, 9), Word(27, 10), Word(28, 11), Word(29, 7), Epc \o Word(30, 3),
     Epc \o Word(31, 4), Epc \o Word(32, 4), Epc \o Word(33, 4), Epc,
     Urn \o Word(34, 4) >>

TypeU == <<85>>
TypeT == <<84>>
TypeSp == <<83, 112>>
TextSlash == Word(40, 5)
TypeVcard == TextSlash \o Word(41, 5)
TypeWsc == Word(42, 23)
TypeOob == Word(43, 32)

-----------------------------------------------------------------------------
(* Decoding.                                                               *)

type_to_string(type) ==
  IF type = <<>> \/ \E k \in DOMAIN type : type[k] < 32 \/ type[k] > 126
    THEN NULL ELSE type

decode_uri_payload(payload) ==
  IF payload = <<>> THEN NULL
  ELSE [kind |-> "uri",
        uri |-> (IF payload[1] < Len(uri_prefixes)
                   THEN uri_prefixes[payload[1] + 1] ELSE <<>>)
                \o Tail(payload)]

\* Code units in the byte order of the host, which is little endian; an odd
\* last byte is left out.  Lone surrogates do not convert.
Utf16(bytes) ==
  LET unit == [k \in 1..Len(bytes) \div 2 |->
                 bytes[2 * k - 1] + 256 * bytes[2 * k]]
  IN  IF \E k \in DOMAIN unit : unit[k] \in 55296..57343 THEN NULL ELSE unit

decode_text_payload(payload) ==
  LET utf16 == Bit(payload[1], 128)
      lang_len == payload[1] % 64
      rest == SubSeq(payload, 2 + lang_len, Len(payload))
      text == IF utf16 THEN Utf16(rest) ELSE rest
  IN  IF payload = <<>> THEN NULL
      ELSE IF Len(payload) < 1 + lang_len THEN NULL
      ELSE IF text = NULL THEN NULL
      ELSE [kind |-> "text", text |-> text,
            language |-> SubSeq(payload, 2, 1 + lang_len), utf16 |-> utf16]

RECURSIVE ndef_message_to_json(_)

\* What a record's type adds to its raw fields.
Decoded(tnf, type, payload) ==
  CASE tnf = 1 /\ type = TypeU -> decode_uri_payload(payload)
    [] tnf = 1 /\ type = TypeT -> decode_text_payload(payload)
    [] tnf = 1 /\ type = TypeSp ->
         [kind |-> "smartposter", records |-> ndef_message_to_json(payload)]
    [] tnf = 2 ->
         LET m == type_to_string(type)
         IN  [kind |-> "media", mediaType |-> m,
              text |-> IF m = NULL THEN NULL
                       ELSE IF /\ IsPrefix(TextSlash, m)
                               /\ \A k \in DOMAIN payload : payload[k] < 128
                         THEN payload ELSE NULL]
    [] tnf = 3 -> [kind |-> "uri", uri |-> payload]
    [] tnf = 4 -> [kind |-> "external", externalType |-> type_to_string(type)]
    [] OTHER -> NULL

ndef_record_to_json(tnf, type, id, payload) ==
  [tnf |-> tnf, type |-> type_to_string(type),
   typeHex |-> ndef_bytes_to_hex(type),
   idHex |-> IF id = <<>> THEN NULL ELSE ndef_bytes_to_hex(id),
   payloadHex |-> ndef_bytes_to_hex(payload), payloadSize |-> Len(payload),
   decoded |-> Decoded(tnf, type, payload)]

\* The len bytes of data from offset pos on.
Slice(data, pos, len) == SubSeq(data, pos + 1, pos + len)

\* Mutant: the id length byte of a record is not counted.
RecordAt_no_id(data, pos) ==
  LET header == data[pos + 1]
      short == Bit(header, NDEF_HDR_SR)
      body == pos + (IF short THEN 3 ELSE 6)
      type_len == data[pos + 2]
      payload_len == IF short THEN data[pos + 3]
                     ELSE data[pos + 3] * 2^24 + data[pos + 4] * 2^16
                          + data[pos + 5] * 2^8 + data[pos + 6]
      end == body + type_len + payload_len
  IN  IF body > Len(data) THEN NULL
      ELSE IF end > Len(data) THEN NULL
      ELSE [json |-> ndef_record_to_json(header % 8, Slice(data, body, type_len),
                       <<>>, Slice(data, body + type_len, payload_len)),
            next |-> end, last |-> Bit(header, NDEF_HDR_ME)]

\* Mutant: a payload may run one byte past the end.
RecordAt_overrun(data, pos) ==
  LET header == data[pos + 1]
      short == Bit(header, NDEF_HDR_SR)
      lens == pos + (IF short THEN 3 ELSE 6)
      body == lens + (IF Bit(header, NDEF_HDR_IL) THEN 1 ELSE 0)
      type_len == data[pos + 2]
      id_len == IF Bit(header, NDEF_HDR_IL) THEN data[body] ELSE 0
      payload_len == IF short THEN data[pos + 3]
                     ELSE data[pos + 3] * 2^24 + data[pos + 4] * 2^16
                          + data[pos + 5] * 2^8 + data[pos + 6]
      end == body + type_len + id_len + payload_len
  IN  IF body > Len(data) THEN NULL
      ELSE IF end > Len(data) + 1 THEN NULL
      ELSE [json |-> ndef_record_to_json(header % 8, Slice(data, body, type_len),
                       Slice(data, body + type_len, id_len), <<>>),
            next |-> end, last |-> Bit(header, NDEF_HDR_ME)]

\* The record at offset pos: its JSON, the offset after it and whether it is
\* flagged as the last; NULL if it does not fit.  The checks of its length
\* bytes come to one, that the last of them is there.
RecordAt(data, pos) ==
  LET header == data[pos + 1]
      short == Bit(header, NDEF_HDR_SR)
      lens == pos + (IF short THEN 3 ELSE 6)
      body == lens + (IF Bit(header, NDEF_HDR_IL) THEN 1 ELSE 0)
      type_len == data[pos + 2]
      id_len == IF Bit(header, NDEF_HDR_IL) THEN data[body] ELSE 0
      payload_len == IF short THEN data[pos + 3]
                     ELSE data[pos + 3] * 2^24 + data[pos + 4] * 2^16
                          + data[pos + 5] * 2^8 + data[pos + 6]
      end == body + type_len + id_len + payload_len
  IN  IF body > Len(data) THEN NULL
      ELSE IF end > Len(data) THEN NULL
      ELSE [json |-> ndef_record_to_json(header % 8, Slice(data, body, type_len),
                       Slice(data, body + type_len, id_len),
                       Slice(data, end - payload_len, payload_len)),
            next |-> end, last |-> Bit(header, NDEF_HDR_ME)]

\* The loop over records from offset pos on; NULL once one is malformed.
RECURSIVE Records(_, _, _)
Records(data, pos, records) ==
  IF pos >= Len(data) THEN records
  ELSE LET r == RecordAt(data, pos) IN
       IF r = NULL THEN NULL
       ELSE IF r.last THEN Append(records, r.json)
       ELSE Records(data, r.next, Append(records, r.json))

ndef_message_to_json(data) ==
  IF data = <<>> THEN NULL ELSE Records(data, 0, <<>>)

-----------------------------------------------------------------------------
(* Building.                                                               *)

\* Mutant: the length byte takes whatever it is given.
build_single_record_unchecked(tnf, type, payload) ==
  <<NDEF_HDR_MB + NDEF_HDR_ME + NDEF_HDR_SR + tnf, Len(type), Len(payload) % 256>>
    \o type \o payload

build_single_record(tnf, type, payload) ==
  IF Len(payload) > 255 THEN NULL
  ELSE <<NDEF_HDR_MB + NDEF_HDR_ME + NDEF_HDR_SR + tnf, Len(type), Len(payload)>>
         \o type \o payload

\* Mutant: the first abbreviation that matches is taken.
best_prefix_first(uri) ==
  LET matching == {n \in 2..Len(uri_prefixes) : IsPrefix(uri_prefixes[n], uri)}
  IN  IF matching = {} THEN 1
      ELSE CHOOSE n \in matching : \A m \in matching : n <= m

\* The longest abbreviation that matches.
best_prefix(uri) ==
  LET matching == {n \in 2..Len(uri_prefixes) : IsPrefix(uri_prefixes[n], uri)}
  IN  IF matching = {} THEN 1
      ELSE CHOOSE n \in matching :
             \A m \in matching : Len(uri_prefixes[m]) <= Len(uri_prefixes[n])

ndef_build_uri_message(uri) ==
  LET n == best_prefix(uri)
  IN  build_single_record(1, TypeU,
        <<n - 1>> \o Slice(uri, Len(uri_prefixes[n]),
                           Len(uri) - Len(uri_prefixes[n])))

En == Word(44, 2)

ndef_build_text_message(text, language) ==
  LET lang == IF language \in {NULL, <<>>} THEN En ELSE language
  IN  IF Len(lang) > 63 THEN NULL
      ELSE build_single_record(1, TypeT, <<Len(lang)>> \o lang \o text)

Given(s) == s \notin {NULL, <<>>}

\* The lines of a contact, their fixed parts as words of the same length.
ndef_build_vcard_message(name, phone, email) ==
  LET line(w, n, value, m) == Word(w, n) \o value \o Word(w, m)
      optional(w, n, value) == IF Given(value) THEN line(w, n, value, 2) ELSE <<>>
  IN  IF ~Given(name) THEN NULL
      ELSE build_single_record(2, TypeVcard,
             Word(50, 26) \o line(51, 3, name, 5) \o line(52, 3, name, 2)
               \o optional(53, 4, phone) \o optional(54, 6, email)
               \o Word(55, 11))

BigEndian16(n) == <<n \div 256, n % 256>>

wsc_append_tlv(type, value) ==
  BigEndian16(type) \o BigEndian16(Len(value)) \o value

WSC_ATTR_SSID == 4165
WSC_ATTR_AUTH_TYPE == 4099
WSC_ATTR_ENCRYPTION_TYPE == 4111
WSC_ATTR_NETWORK_KEY == 4135
WSC_ATTR_MAC_ADDRESS == 4128
WSC_ATTR_CREDENTIAL == 4110

\* A token stands for every way to write it in upper and lower case.
wsc_auth_type(auth) ==
  CASE auth \in {"Open", "None"} -> 1
    [] auth \in {"WPA-Personal", "WPA"} -> 2
    [] auth \in {"WPA2-Personal", "WPA2"} -> 32
    [] OTHER -> 34

wsc_encryption_type(encryption) ==
  CASE encryption = "None" -> 1 [] encryption = "WEP" -> 2
    [] encryption = "TKIP" -> 4 [] encryption = "AES" -> 8
    [] OTHER -> 12

ndef_build_wifi_message(ssid, password, auth, encryption) ==
  LET credential ==
        wsc_append_tlv(WSC_ATTR_SSID, ssid)
          \o wsc_append_tlv(WSC_ATTR_AUTH_TYPE, BigEndian16(wsc_auth_type(auth)))
          \o wsc_append_tlv(WSC_ATTR_ENCRYPTION_TYPE,
                            BigEndian16(wsc_encryption_type(encryption)))
          \o (IF Given(password) THEN wsc_append_tlv(WSC_ATTR_NETWORK_KEY, password)
                                 ELSE <<>>)
          \o wsc_append_tlv(WSC_ATTR_MAC_ADDRESS, [k \in 1..6 |-> 255])
  IN  IF ~Given(ssid) THEN NULL
      ELSE IF Len(ssid) > 32 THEN NULL
      ELSE IF Given(password) /\ Len(password) > 64 THEN NULL
      ELSE build_single_record(2, TypeWsc,
             wsc_append_tlv(WSC_ATTR_CREDENTIAL, credential))

\* The numbers sscanf() finds between the colons.
parse_mac_address(numbers) ==
  IF Len(numbers) < 6 \/ \E k \in DOMAIN numbers : numbers[k] > 255 THEN NULL
  ELSE SubSeq(numbers, 1, 6)

\* A name too long for its length byte is left out.
ndef_build_bluetooth_message(mac_address, device_name) ==
  LET mac == parse_mac_address(mac_address)
      name == IF Given(device_name) THEN device_name ELSE <<>>
      data == Reverse(mac)
                \o (IF Len(name) \in 1..252 THEN <<Len(name) + 1, 9>> \o name
                                             ELSE <<>>)
  IN  IF mac = NULL THEN NULL
      ELSE build_single_record(2, TypeOob,
             <<Len(data) % 256, Len(data) \div 256>> \o data)

\* Mutant: 255 is taken for a length of one byte.
ndef_wrap_type2_tlv_255(message) ==
  <<3>> \o (IF Len(message) <= 255 THEN <<Len(message)>>
            ELSE <<255>> \o BigEndian16(Len(message)))
        \o message \o <<254>>

ndef_wrap_type2_tlv(message) ==
  <<3>> \o (IF Len(message) < 255 THEN <<Len(message)>>
            ELSE <<255>> \o BigEndian16(Len(message)))
        \o message \o <<254>>

\* The record writeTag builds for its parameters p, NULL if it cannot.
write_tag_message(p) ==
  CASE p.type = "uri" ->
         IF p.uri = NULL THEN NULL ELSE ndef_build_uri_message(p.uri)
    [] p.type = "text" ->
         IF p.text = NULL THEN NULL ELSE ndef_build_text_message(p.text, p.language)
    [] p.type = "vcard" -> ndef_build_vcard_message(p.name, p.phone, p.email)
    [] p.type = "wifi" ->
         ndef_build_wifi_message(p.ssid, p.password, p.auth, p.encryption)
    [] p.type = "bluetooth" ->
         IF p.macAddress = NULL THEN NULL
         ELSE ndef_build_bluetooth_message(p.macAddress, p.deviceName)
    [] OTHER -> NULL
=============================================================================
