----------------------------- MODULE MCNdefTag -----------------------------
(***************************************************************************)
(* NdefTag on strings whose lengths lie on both sides of every limit of    *)
(* the formats.                                                            *)
(***************************************************************************)
EXTENDS NdefTag

X(n) == Word(60, n)
Y(n) == Word(61, n)

\* With every abbreviation, and with 255 and 256 bytes to store.
UriParams ==
  {[type |-> "uri", uri |-> uri_prefixes[n] \o X(k)] :
     n \in DOMAIN uri_prefixes, k \in {0, 1, 254, 255}}

\* Messages of 254, 255 and 256 bytes, texts at the limit.
TextParams ==
  {[type |-> "text", text |-> X(n), language |-> l] :
     n \in {0, 1, 246, 247, 248, 249, 252, 253}, l \in {NULL, <<>>, Y(2)}}
  \union {[type |-> "text", text |-> X(n), language |-> Y(l)] :
            n \in {0, 191, 192}, l \in {63, 64}}

VcardParams ==
  {[type |-> "vcard", name |-> n, phone |-> p, email |-> e] :
     n \in {NULL, <<>>, X(1), X(89), X(102), X(103)},
     p \in {NULL, Y(12)}, e \in {NULL, Y(0), Y(1)}}

WifiParams ==
  {[type |-> "wifi", ssid |-> s, password |-> p, auth |-> a, encryption |-> e] :
     s \in {NULL, <<>>, X(1), X(32), X(33)}, p \in {NULL, <<>>, Y(64), Y(65)},
     a \in {"WPA2", "other"}, e \in {"AES", NULL}}

BluetoothParams ==
  {[type |-> "bluetooth", macAddress |-> m, deviceName |-> d] :
     m \in {NULL, <<1, 2, 3, 4, 5>>, <<1, 2, 3, 4, 5, 256>>, <<0, 2, 3, 4, 5, 255>>},
     d \in {NULL, <<>>, X(1), X(245), X(246), X(252), X(253)}}

MCParams ==
  UriParams \union TextParams \union VcardParams \union WifiParams
  \union BluetoothParams
  \union {[type |-> "uri", uri |-> NULL], [type |-> NULL],
          [type |-> "text", text |-> NULL, language |-> NULL]}

\* A record with fields as given; inner: the message nested in it, if any.
Rec(tnf, type, id, payload, sr, il) ==
  [tnf |-> tnf, type |-> type, id |-> id, payload |-> payload, sr |-> sr,
   il |-> il, inner |-> NULL]

Poster(m, sr) == [Rec(1, TypeSp, <<>>, Encode(m), sr, FALSE) EXCEPT !.inner = m]

Plain ==
  {Rec(1, TypeU, id, <<4>> \o X(3), sr, il) :
     id \in {<<>>}, sr \in BOOLEAN, il \in BOOLEAN}
  \union {Rec(1, TypeU, <<>>, <<>>, TRUE, FALSE),
          Rec(1, TypeU, <<7>>, <<200>> \o X(2), TRUE, TRUE),
          Rec(1, TypeT, <<7, 8>>, <<2>> \o En \o X(2), FALSE, TRUE),
          Rec(1, TypeT, <<>>, <<130>> \o En \o <<65, 0, 66, 0>>, TRUE, FALSE),
          Rec(1, TypeT, <<>>, <<9, 1>>, TRUE, FALSE),
          Rec(1, TypeT, <<>>, <<>>, TRUE, FALSE),
          Rec(2, TextSlash \o X(2), <<>>, <<65, 200>>, TRUE, FALSE),
          Rec(2, <<1>>, <<>>, X(1), TRUE, FALSE),
          Rec(3, <<>>, <<>>, X(4), TRUE, FALSE),
          Rec(4, X(3), <<>>, <<>>, TRUE, FALSE),
          Rec(0, <<>>, <<>>, <<>>, TRUE, FALSE),
          Rec(5, <<>>, <<>>, X(300), FALSE, FALSE)}

Some == {r \in Plain : r.tnf \in {0, 3, 5} \/ r.id # <<>>}

MCMessages ==
  {<<r>> : r \in Plain} \union {<<r, s>> : r \in Some, s \in Some}
  \union {<<Poster(<<r, s>>, FALSE)>> : r \in Some, s \in Some}
  \union {<<Poster(<<Poster(<<r>>, TRUE), s>>, TRUE), s>> :
            r \in {x \in Some : x.tnf # 5}, s \in {x \in Some : x.tnf # 5}}
=============================================================================
