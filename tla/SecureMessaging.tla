-------------------------- MODULE SecureMessaging --------------------------
(***************************************************************************)
(* The cryptographic protocols of bac.c and pace.c: the handshakes and     *)
(* secure messaging.  Cryptography is symbolic: a key is the record of     *)
(* what it was derived from, a ciphertext that of its key, its IV and its  *)
(* plaintext, a MAC that of its key and all it covers; with another key a  *)
(* ciphertext is not read and a MAC is not met.  What is arithmetic stays  *)
(* arithmetic: the send sequence counter is a sequence of digits with      *)
(* carry, and the points of the curve are the multiples of its generator,  *)
(* the numbers below the prime Q.                                          *)
(***************************************************************************)
EXTENDS Emrtd

CONSTANTS
  Base,     \* 256 in the code: values of one byte of a counter
  Q         \* the order of the curve, a prime

ASSUME CryptoAssumption == Base \in Nat \ {0, 1} /\ Q \in Nat \ {0, 1, 2}
ASSUME PrimeAssumption == \A a, b \in 1..(Q - 1) : (a * b) % Q # 0

Key(seed, c) == [seed |-> seed, c |-> c]
Sealed(key, iv, data) == [key |-> key, iv |-> iv, data |-> data]
Mac(key, covered) == [key |-> key, covered |-> covered]

-----------------------------------------------------------------------------
(* The send sequence counter.                                              *)

\* Mutant: the carry is forgotten.
ssc_increment_no_carry(ssc) ==
  [ssc EXCEPT ![Len(ssc)] = (@ + 1) % Base]

\* The last byte that does not overflow is the one that grows.
ssc_increment(ssc) ==
  LET room == {n \in DOMAIN ssc : ssc[n] # Base - 1}
      grows == IF room = {} THEN 0 ELSE Max(room)
  IN  [n \in DOMAIN ssc |-> CASE n < grows -> ssc[n]
                              [] n = grows -> ssc[n] + 1
                              [] n > grows -> 0]

Advanced(session) == [session EXCEPT !.ssc = ssc_increment(@)]

-----------------------------------------------------------------------------
(* Secure messaging.  A session has its key seed and its counter.          *)

ks_enc(session) == Key(session.seed, 1)
ks_mac(session) == Key(session.seed, 2)

\* ISO 7816-4 padding to a multiple of block bytes, and its removal.
iso_pad(data, block) ==
  data \o <<128>> \o [n \in 1..(block - 1 - (Len(data) % block)) |-> 0]

Unpadded(dec) ==
  LET i == Max({0} \union {n \in DOMAIN dec : dec[n] # 0})
  IN  SubSeq(dec, 1, i - 1)

Marked(dec) == \E i \in DOMAIN dec : dec[i] = 128 /\ \A n \in DOMAIN dec : n > i => dec[n] = 0

\* A command before it is protected; le < 0: none is expected.
Command(ins, p1, p2, data, le) ==
  [ins |-> ins, p1 |-> p1, p2 |-> p2, data |-> data, le |-> le]

Header(cmd) == <<cmd.ins, cmd.p1, cmd.p2>>

Protect(session, cmd, iv, block) ==
  LET do87 == IF cmd.data = <<>> THEN <<>>
              ELSE <<Sealed(ks_enc(session), iv, iso_pad(cmd.data, block))>>
  IN  [header |-> Header(cmd), do87 |-> do87, do97 |-> cmd.le,
       do8e |-> Mac(ks_mac(session),
                    <<session.ssc, Header(cmd), do87, cmd.le>>)]

ZeroIv == <<>>

\* The counter moves on, then the command is protected with it.
bac_sm_protect(session, cmd) ==
  [ok |-> cmd.le <= 255 /\ Len(cmd.data) <= 223,
   session |-> Advanced(session),
   apdu |-> Protect(Advanced(session), cmd, ZeroIv, 8)]

\* Mutant: the IV is made of the counter as it was.
pace_sm_protect_old_iv(session, cmd) ==
  [ok |-> cmd.le <= 255 /\ Len(cmd.data) <= 190,
   session |-> Advanced(session),
   apdu |-> Protect(Advanced(session), cmd, session.ssc, 16)]

pace_sm_protect(session, cmd) ==
  [ok |-> cmd.le <= 255 /\ Len(cmd.data) <= 190,
   session |-> Advanced(session),
   apdu |-> Protect(Advanced(session), cmd, Advanced(session).ssc, 16)]

\* The status word at the end of a response is walked over as if it were a
\* data object, which only one without a length is.
TrailerParses(sw) == sw[2] = 0

\* What unwrapping resp with the advanced session s gives; iv as for Protect.
Unprotect(s, resp, iv) ==
  LET opened == [k \in DOMAIN resp.do87 |-> resp.do87[k].data]
  IN  [ok |-> /\ TrailerParses(resp.sw)
              /\ resp.do8e = Mac(ks_mac(s), <<s.ssc, resp.do87, resp.do99>>)
              /\ \A k \in DOMAIN resp.do87 :
                   /\ resp.do87[k].key = ks_enc(s)
                   /\ resp.do87[k].iv = iv
                   /\ Marked(opened[k]),
       session |-> s,
       plaintext |-> [k \in DOMAIN opened |-> Unpadded(opened[k])],
       sw |-> resp.do99]

bac_sm_unprotect(session, resp) == Unprotect(Advanced(session), resp, ZeroIv)
pace_sm_unprotect(session, resp) ==
  Unprotect(Advanced(session), resp, Advanced(session).ssc)

-----------------------------------------------------------------------------
(* Basic Access Control.  The keys are the text they are derived from; a   *)
(* challenge is <<high, low>>, the k of each side a bit.                   *)

kenc(keys) == Key(keys, 1)
kmac(keys) == Key(keys, 2)

Cryptogram(keys, a, b, k) ==
  LET e == Sealed(kenc(keys), ZeroIv, <<a, b, k>>)
  IN  [e |-> e, m |-> Mac(kmac(keys), e)]

bac_build_mutual_authenticate(keys, rnd_icc, rnd_ifd, k_ifd) ==
  Cryptogram(keys, rnd_ifd, rnd_icc, k_ifd)

\* Mutant: the counter starts with the first halves.
BacSession_high(rnd_icc, rnd_ifd, k_ifd, k_icc) ==
  [seed |-> (k_ifd + k_icc) % 2, ssc |-> <<rnd_icc[1], rnd_ifd[1]>>]

\* XOR of the k of both sides; the counter is the low half of each challenge.
BacSession(rnd_icc, rnd_ifd, k_ifd, k_icc) ==
  [seed |-> (k_ifd + k_icc) % 2, ssc |-> <<rnd_icc[2], rnd_ifd[2]>>]

bac_process_mutual_authenticate_response(keys, rnd_icc, rnd_ifd, k_ifd, resp) ==
  LET r == resp.e.data
  IN  [ok |-> /\ resp.m = Mac(kmac(keys), resp.e)
              /\ resp.e.key = kenc(keys)
              /\ r[1] = rnd_icc /\ r[2] = rnd_ifd,
       session |-> BacSession(rnd_icc, rnd_ifd, k_ifd, r[3])]

-----------------------------------------------------------------------------
(* PACE.  Point k is k times the generator of the curve, 0 the point at    *)
(* infinity, which has neither an encoding nor coordinates.                *)

Points == 0..(Q - 1)
Times(k, point) == (k * point) % Q

\* A point and its negative have the same x coordinate.
X(point) == IF point <= Q - point THEN point ELSE Q - point

Kpi(can) == Key(can, 3)

\* Read with the key of another CAN the nonce is another number.
pace_process_nonce_response(can, z) == (z.data + can - z.key.seed) % Q

\* Mutant: the nonce is not mapped.
pace_process_map_nonce_response_unmapped(s, priv1, chip_pub1) ==
  Times(priv1, chip_pub1)

\* The generator s G + H, H the secret shared by the mapping keys.
pace_process_map_nonce_response(s, priv1, chip_pub1) ==
  (s + Times(priv1, chip_pub1)) % Q

ZeroSsc == <<0, 0>>

pace_process_key_agreement_response(priv2, chip_pub2) ==
  [seed |-> X(Times(priv2, chip_pub2)), ssc |-> ZeroSsc]

\* Over the other side's key and the protocol negotiated.
compute_token(session, oid, pub2) == Mac(ks_mac(session), <<oid, pub2>>)

pace_build_mutual_auth(session, oid, chip_pub2) ==
  compute_token(session, oid, chip_pub2)

\* Mutant: the answer is not looked at.
pace_verify_mutual_auth_response_trusting(session, oid, my_pub2, token) == TRUE

pace_verify_mutual_auth_response(session, oid, my_pub2, token) ==
  token = compute_token(session, oid, my_pub2)
=============================================================================
