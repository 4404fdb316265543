------------------------------ MODULE NdefTag ------------------------------
(***************************************************************************)
(* What is on a tag and what getTagInfo shows of it: writeTag builds a     *)
(* record and wraps it in a TLV, cloneTag copies raw bytes, other devices  *)
(* write messages of their own, and nfcd reads the tag and hands its       *)
(* records to ndef_record_to_json().  The write itself (module TagWrite)   *)
(* and the read (module TagRead) succeed here.                             *)
(***************************************************************************)
EXTENDS Ndef

CONSTANTS
  Params,     \* parameters of writeTag
  Messages    \* messages other devices write: sequences of records

VARIABLES
  tag,        \* the bytes in the data area of the Type 2 tag
  asked,      \* ghost: the parameters of the writeTag that wrote the tag
  foreign,    \* ghost: the message another device wrote to it
  reply,      \* the last answer of writeTag or cloneTag
  rejected,   \* ghost: the parameters the last writeTag was refused for
  rawDataHex, shown   \* of getTagInfo; NULL before the tag is read

vars == <<tag, asked, foreign, reply, rejected, rawDataHex, shown>>

-----------------------------------------------------------------------------
(* The NDEF and Type 2 formats (external): how other devices write them    *)
(* and how nfcd reads them.                                                *)

\* A record in the form it is given in: sr, short; il, with an id length.
EncodeRecord(r, first, last) ==
  LET flag(b, mask) == IF b THEN mask ELSE 0
      n == Len(r.payload)
  IN  << flag(first, 128) + flag(last, 64) + flag(r.sr, 16) + flag(r.il, 8)
           + r.tnf, Len(r.type) >>
        \o (IF r.sr THEN <<n>> ELSE <<0, 0>> \o BigEndian16(n))
        \o (IF r.il THEN <<Len(r.id)>> ELSE <<>>)
        \o r.type \o r.id \o r.payload

Encode(m) == FlattenSeq([k \in DOMAIN m |-> EncodeRecord(m[k], k = 1, k = Len(m))])

\* The value of the NDEF TLV, given that it is the first one; NULL if it runs
\* past the end of the tag.
Unwrap(bytes) ==
  LET long == bytes[2] = 255
      at == IF long THEN 4 ELSE 2
      len == IF long THEN 256 * bytes[3] + bytes[4] ELSE bytes[2]
  IN  IF at + len > Len(bytes) THEN NULL ELSE Slice(bytes, at, len)

\* The only way to read bytes as one short record.
ShortRecord(bytes) ==
  [tnf |-> bytes[1] % 8, type |-> Slice(bytes, 3, bytes[2]), id |-> <<>>,
   payload |-> Slice(bytes, 3 + bytes[2], bytes[3]), sr |-> TRUE, il |-> FALSE]

\* nfcd takes bytes for the message they encode.
NfcdRecords(bytes) ==
  LET m == {x \in Messages \union {<<ShortRecord(bytes)>>} : Encode(x) = bytes}
  IN  IF bytes = NULL \/ m = {} THEN NULL ELSE CHOOSE x \in m : TRUE

-----------------------------------------------------------------------------

Init ==
  /\ tag = <<3, 0, 254>> /\ asked = NULL /\ foreign = NULL
  /\ reply = "none" /\ rejected = NULL
  /\ rawDataHex = NULL /\ shown = NULL

\* A tag that is written anew is read anew.
Written(bytes, p, m) ==
  /\ tag' = bytes /\ asked' = p /\ foreign' = m
  /\ rejected' = NULL /\ rawDataHex' = NULL /\ shown' = NULL

Blank == asked = NULL /\ foreign = NULL

writeTag(p) ==
  LET message == write_tag_message(p) IN
  /\ Blank
  /\ IF message = NULL
       THEN /\ reply' = "error" /\ rejected' = p
            /\ UNCHANGED <<tag, asked, foreign, rawDataHex, shown>>
       ELSE /\ reply' = "ok"
            /\ Written(ndef_wrap_type2_tlv(message), p, NULL)

OtherWriter(m) ==
  LET bytes == Encode(m) IN
  /\ Blank
  /\ Written(<<3>> \o (IF Len(bytes) < 255 THEN <<Len(bytes)>>
                       ELSE <<255>> \o BigEndian16(Len(bytes)))
                   \o bytes \o <<254>>, NULL, m)
  /\ UNCHANGED reply

\* tag_read_finish(): the decoded contents are there.
Read ==
  LET m == NfcdRecords(Unwrap(tag)) IN
  /\ ~Blank /\ shown = NULL
  /\ rawDataHex' = ndef_bytes_to_hex(tag)
  /\ shown' = IF m = NULL THEN <<>>
              ELSE [k \in DOMAIN m |-> ndef_record_to_json(m[k].tnf, m[k].type,
                                                           m[k].id, m[k].payload)]
  /\ UNCHANGED <<tag, asked, foreign, reply, rejected>>

\* The caller passes on what getTagInfo showed of the tag to be copied, or
\* something that is no such string.
cloneTag(hex) ==
  LET raw_data == ndef_hex_to_bytes(hex) IN
  /\ reply # "cloned"
  /\ IF raw_data = NULL
       THEN /\ reply' = "error"
            /\ UNCHANGED <<tag, asked, foreign, rejected, rawDataHex, shown>>
       ELSE reply' = "cloned" /\ Written(raw_data, asked, foreign)

Next ==
  \/ \E p \in Params : writeTag(p)
  \/ \E m \in Messages : OtherWriter(m)
  \/ Read
  \/ /\ shown # NULL
     /\ \E hex \in {rawDataHex, NULL, <<>>, Append(rawDataHex, 1), <<16, 0>>} :
          cloneTag(hex)

Spec == Init /\ [][Next]_vars

-----------------------------------------------------------------------------
(* Properties.                                                             *)

\* The value of attribute a in a sequence of WSC attributes.
RECURSIVE WscAttribute(_, _)
WscAttribute(bytes, a) ==
  IF bytes = <<>> THEN NULL
  ELSE LET len == 256 * bytes[3] + bytes[4] IN
       IF 256 * bytes[1] + bytes[2] = a THEN Slice(bytes, 4, len)
       ELSE WscAttribute(Slice(bytes, 4 + len, Len(bytes) - 4 - len), a)

HasText(s, t) == \E k \in 0..(Len(s) - Len(t)) : Slice(s, k, Len(t)) = t

\* Record j says what the caller of writeTag asked for with p.
Says(j, p) ==
  LET payload == ndef_hex_to_bytes(j.payloadHex) IN
  CASE p.type = "uri" -> j.decoded = [kind |-> "uri", uri |-> p.uri]
    [] p.type = "text" ->
         j.decoded = [kind |-> "text", text |-> p.text, utf16 |-> FALSE,
                      language |-> IF Given(p.language) THEN p.language ELSE En]
    [] p.type = "vcard" ->
         /\ j.type = TypeVcard
         /\ \A s \in {p.name, p.phone, p.email} :
              Given(s) => HasText(j.decoded.text, s)
    [] p.type = "wifi" ->
         LET c == WscAttribute(payload, WSC_ATTR_CREDENTIAL) IN
         /\ j.type = TypeWsc
         /\ WscAttribute(c, WSC_ATTR_SSID) = p.ssid
         /\ WscAttribute(c, WSC_ATTR_NETWORK_KEY)
              = (IF Given(p.password) THEN p.password ELSE NULL)
    [] p.type = "bluetooth" ->
         /\ j.type = TypeOob
         /\ \A k \in 1..6 : payload[9 - k] = p.macAddress[k]
         /\ Given(p.deviceName) /\ Len(p.deviceName) <= 252 =>
              Slice(payload, 10, payload[9] - 1) = p.deviceName

\* The records of message m, nested ones included, as getTagInfo has them.
RECURSIVE ShownAs(_, _)
ShownAs(j, m) ==
  /\ Len(j) = Len(m)
  /\ \A k \in DOMAIN m :
       /\ j[k].tnf = m[k].tnf
       /\ j[k].typeHex = ndef_bytes_to_hex(m[k].type)
       /\ j[k].idHex = IF m[k].id = <<>> THEN NULL ELSE ndef_bytes_to_hex(m[k].id)
       /\ j[k].payloadHex = ndef_bytes_to_hex(m[k].payload)
       /\ m[k].inner # NULL => ShownAs(j[k].decoded.records, m[k].inner)

TypeOK ==
  /\ \A k \in DOMAIN tag : tag[k] \in 0..255
  /\ asked \in Params \union {NULL} /\ foreign \in Messages \union {NULL}
  /\ reply \in {"none", "ok", "error", "cloned"}
  /\ rejected \in Params \union {NULL}
  /\ shown # NULL => \A k \in DOMAIN rawDataHex : rawDataHex[k] \in 0..15

(***************************************************************************)
(* What is written on a tag is what getTagInfo shows of it, whatever the   *)
(* lengths.  By writeTag: the one and the three byte TLV lengths (message  *)
(* of 254 and 255 bytes), the limits of the short record and of the        *)
(* language code, every URI abbreviation.  By other devices: records in    *)
(* short and long form, with and without ids, and a Smart Poster with the  *)
(* records nested in it.  The same after cloneTag has copied the bytes to  *)
(* another tag by way of rawDataHex.                                       *)
(***************************************************************************)
ReadsBack ==
  shown # NULL =>
    /\ asked # NULL => Len(shown) = 1 /\ Says(shown[1], asked)
    /\ foreign # NULL => ShownAs(shown, foreign)

(***************************************************************************)
(* "Returns NULL if the message is malformed" (ndef.h): a nested message   *)
(* cut off inside a record is not shown in part.                           *)
(***************************************************************************)
CutIsMalformed ==
  foreign # NULL /\ shown # NULL =>
    \A k \in DOMAIN foreign : foreign[k].inner # NULL =>
      LET m == foreign[k].inner
          whole == {Len(Encode(SubSeq(m, 1, n))) : n \in 0..Len(m)}
      IN  \A cut \in 1..Len(foreign[k].payload) :
            cut \notin whole =>
              ndef_message_to_json(SubSeq(foreign[k].payload, 1, cut)) = NULL

\* The bytes the payload of a record for p takes, at least.
Size(p) ==
  CASE p.type = "uri" ->
         1 + Len(p.uri) - Len(uri_prefixes[CHOOSE n \in DOMAIN uri_prefixes :
           /\ IsPrefix(uri_prefixes[n], p.uri)
           /\ \A m \in DOMAIN uri_prefixes : IsPrefix(uri_prefixes[m], p.uri) =>
                Len(uri_prefixes[m]) <= Len(uri_prefixes[n])])
    [] p.type = "text" -> 1 + Len(p.text)
                            + (IF Given(p.language) THEN Len(p.language) ELSE 2)
    [] p.type = "vcard" -> 50 + 2 * Len(p.name)
                             + (IF Given(p.phone) THEN 6 + Len(p.phone) ELSE 0)
                             + (IF Given(p.email) THEN 8 + Len(p.email) ELSE 0)
    [] p.type = "wifi" -> 0
    [] p.type = "bluetooth" ->
         IF Given(p.deviceName) /\ Len(p.deviceName) <= 252
           THEN 10 + Len(p.deviceName) ELSE 8

\* p is in order by docs/API.md of writeTag.
InOrder(p) ==
  CASE p.type = "uri" -> p.uri # NULL
    [] p.type = "text" -> p.text # NULL /\ (Given(p.language) => Len(p.language) <= 63)
    [] p.type = "vcard" -> Given(p.name)
    [] p.type = "wifi" -> /\ Given(p.ssid) /\ Len(p.ssid) <= 32
                          /\ Given(p.password) => Len(p.password) <= 64
    [] p.type = "bluetooth" -> /\ p.macAddress # NULL /\ Len(p.macAddress) = 6
                               /\ \A k \in 1..6 : p.macAddress[k] < 256
    [] OTHER -> FALSE

(***************************************************************************)
(* "refuse rather than silently truncate" (comment in                      *)
(* build_single_record()): writeTag refuses what does not fit a short      *)
(* record and nothing that would, the abbreviation of a URI taken into     *)
(* account ("pick the longest abbreviation that matches").  A Bluetooth    *)
(* name of more than 252 bytes is the exception: it is left out.           *)
(***************************************************************************)
RefusesWhatDoesNotFit ==
  /\ rejected # NULL => ~InOrder(rejected) \/ Size(rejected) > 255
  /\ asked # NULL => InOrder(asked) /\ Size(asked) <= 255
=============================================================================
