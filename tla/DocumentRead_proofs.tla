------------------------ MODULE DocumentRead_proofs ------------------------
(***************************************************************************)
(* Proofs about a read, for counters of any base, a curve of any prime     *)
(* order, any documents, calls and challenges, and READ BINARYs of any     *)
(* length that a short APDU can ask for.                                   *)
(*                                                                         *)
(* DocumentInv needs nothing of the document:                              *)
(*   BacInv     Both sides derive the session from the same four numbers.  *)
(*   PaceInv    What either side has of the other's numbers: the           *)
(*              generators differ by the difference of the CANs.           *)
(*   SecureInv  InStep and PasswordProved.                                 *)
(* ReadInv is about a document as issuers make them (Regular), and rests   *)
(* on DocumentInv:                                                         *)
(*   MessageInv    Every protected command is the one of its stage, every  *)
(*                 answer the one to it.                                   *)
(*   FileInv       A data group has been read up to some byte of it.       *)
(*   AccessInv     So has EF.CardAccess.                                   *)
(*   HandshakeInv  A command of a handshake is refused only for the        *)
(*                 password, or because the document does not take it.     *)
(*   ResultInv     ReportsTheDocument and ErrorTellsWhy.                   *)
(***************************************************************************)
EXTENDS DocumentRead, TLAPS

-----------------------------------------------------------------------------
(* The send sequence counter.                                              *)

Digit == 0..(Base - 1)
Ssc == Digit \X Digit

\* A number of two digits of base Base is what division takes it apart to.
LEMMA Apart ==
  ASSUME NEW a \in Nat, NEW b \in Digit
  PROVE  (a * Base + b) \div Base = a /\ (a * Base + b) % Base = b
BY CryptoAssumption DEF Digit

LEMMA Folded ==
  ASSUME NEW a \in 0..Base
  PROVE  a % Base = IF a = Base THEN 0 ELSE a
BY CryptoAssumption

LEMMA CounterOf ==
  ASSUME NEW a \in 0..Base, NEW b \in Digit
  PROVE  Counter(a * Base + b) = <<IF a = Base THEN 0 ELSE a, b>>
BY Apart, Folded, CryptoAssumption DEF Counter, Digit

LEMMA Pair ==
  ASSUME NEW S, NEW f \in [1..2 -> S], NEW x, NEW y, f[1] = x, f[2] = y
  PROVE  f = <<x, y>>
<1>1. f = [n \in 1..2 |-> f[n]]
  OBVIOUS
<1>2. x \in S /\ y \in S
  OBVIOUS
<1>3. <<x, y>> \in [1..2 -> S]
  BY <1>2
<1> QED
  BY <1>1, <1>3

\* ssc_increment() takes the counter to the next number, over the carry and
\* over the end.
LEMMA Increment ==
  ASSUME NEW ssc \in Ssc
  PROVE  /\ ssc_increment(ssc) = Counter(Number(ssc) + 1)
         /\ ssc_increment(ssc) \in Ssc
<1> DEFINE a == ssc[1]
           b == ssc[2]
           room == {n \in DOMAIN ssc : ssc[n] # Base - 1}
           next == ssc_increment(ssc)
<1>1. /\ a \in Digit /\ b \in Digit /\ DOMAIN ssc = 1..2
      /\ room = {n \in 1..2 : ssc[n] # Base - 1}
  BY DEF Ssc
<1>2. next = [n \in 1..2 |-> next[n]]
  <2> DEFINE grows == IF room = {} THEN 0 ELSE Max(room)
             G(n) == CASE n < grows -> ssc[n]
                       [] n = grows -> ssc[n] + 1
                       [] n > grows -> 0
  <2>1. next = [n \in DOMAIN ssc |-> G(n)]
    BY Zenon DEF ssc_increment
  <2> HIDE DEF G, next
  <2> QED
    BY <1>1, <2>1
<1>3. CASE b # Base - 1
  <2>1. Max(room) = 2
    BY <1>1, <1>3 DEF Max
  <2>2. next[1] = a /\ next[2] = b + 1
    BY <1>1, <1>3, <2>1 DEF ssc_increment
  <2>3. b + 1 \in Digit /\ a \in 0..Base /\ a # Base
    BY <1>1, <1>3, CryptoAssumption DEF Digit
  <2>4. Number(ssc) + 1 = a * Base + (b + 1)
    BY <1>1, CryptoAssumption DEF Number, Digit
  <2>5. Counter(Number(ssc) + 1) = <<a, b + 1>>
    BY <2>3, <2>4, CounterOf
  <2>a. next \in [1..2 -> Digit]
    <3> HIDE DEF next
    <3> QED
      BY <1>1, <1>2, <2>2, <2>3
  <2>6. next = <<a, b + 1>>
    <3> HIDE DEF next
    <3> QED
      BY <2>2, <2>a, Pair
  <2> QED
    BY <1>1, <2>3, <2>5, <2>6 DEF Ssc
<1>4. CASE b = Base - 1 /\ a # Base - 1
  <2>1. Max(room) = 1
    BY <1>1, <1>4 DEF Max
  <2>2. next[1] = a + 1 /\ next[2] = 0
    BY <1>1, <1>4, <2>1 DEF ssc_increment
  <2>3. 0 \in Digit /\ a + 1 \in 0..Base /\ a + 1 # Base /\ a + 1 \in Digit
    BY <1>1, <1>4, CryptoAssumption DEF Digit
  <2>4. Number(ssc) + 1 = (a + 1) * Base + 0
    BY <1>1, <1>4, CryptoAssumption DEF Number, Digit
  <2>5. Counter(Number(ssc) + 1) = <<a + 1, 0>>
    BY <2>3, <2>4, CounterOf
  <2>a. next \in [1..2 -> Digit]
    <3> HIDE DEF next
    <3> QED
      BY <1>1, <1>2, <2>2, <2>3
  <2>6. next = <<a + 1, 0>>
    <3> HIDE DEF next
    <3> QED
      BY <2>2, <2>a, Pair
  <2> QED
    BY <2>3, <2>5, <2>6 DEF Ssc
<1>5. CASE b = Base - 1 /\ a = Base - 1
  <2>1. room = {}
    BY <1>1, <1>5
  <2>2. next[1] = 0 /\ next[2] = 0
    BY <1>1, <2>1 DEF ssc_increment
  <2>3. 0 \in Digit /\ Base \in 0..Base
    BY CryptoAssumption DEF Digit
  <2>4. Number(ssc) + 1 = Base * Base + 0
    BY <1>5, CryptoAssumption DEF Number
  <2>5. Counter(Number(ssc) + 1) = <<0, 0>>
    BY <2>3, <2>4, CounterOf
  <2>a. next \in [1..2 -> Digit]
    <3> HIDE DEF next
    <3> QED
      BY <1>1, <1>2, <2>2, <2>3
  <2>6. next = <<0, 0>>
    <3> HIDE DEF next
    <3> QED
      BY <2>2, <2>a, Pair
  <2> QED
    BY <2>3, <2>5, <2>6 DEF Ssc
<1> QED
  BY <1>3, <1>4, <1>5

\* Two steps of the chip's counter are one step after another.
LEMMA TwoSteps ==
  ASSUME NEW ssc \in Ssc
  PROVE  Counter(Number(ssc) + 2) = Counter(Number(Counter(Number(ssc) + 1)) + 1)
<1> DEFINE a == ssc[1]
           b == ssc[2]
           one == Counter(Number(ssc) + 1)
<1>1. a \in Digit /\ b \in Digit /\ Base \in Nat \ {0, 1} /\ Number(ssc) = a * Base + b
  BY CryptoAssumption DEF Ssc, Number
<1>2. CASE b + 2 < Base
  <2>1. b + 1 \in Digit /\ b + 2 \in Digit /\ a \in 0..Base
    BY <1>1, <1>2 DEF Digit
  <2>2. Number(ssc) + 1 = a * Base + (b + 1) /\ Number(ssc) + 2 = a * Base + (b + 2)
    BY <1>1 DEF Digit
  <2>3. one[1] = a /\ one[2] = b + 1
    BY <1>1, <2>1, <2>2, CounterOf DEF Digit
  <2>4. Number(one) + 1 = a * Base + (b + 2)
    BY <1>1, <2>3 DEF Number, Digit
  <2> QED
    BY <2>2, <2>4
<1>3. CASE b + 2 = Base
  <2>1. b + 1 \in Digit /\ a \in 0..Base
    BY <1>1, <1>3 DEF Digit
  <2>2. Number(ssc) + 1 = a * Base + (b + 1)
    BY <1>1 DEF Digit
  <2>3. one[1] = a /\ one[2] = b + 1
    BY <1>1, <2>1, <2>2, CounterOf DEF Digit
  <2>4. Number(one) + 1 = Number(ssc) + 2
    BY <1>1, <2>3 DEF Number, Digit
  <2> QED
    BY <2>4
<1>4. CASE b + 1 = Base
  <2>1. 0 \in Digit /\ 1 \in Digit /\ a + 1 \in 0..Base
    BY <1>1 DEF Digit
  <2>2. Number(ssc) + 1 = (a + 1) * Base + 0 /\ Number(ssc) + 2 = (a + 1) * Base + 1
    BY <1>1, <1>4 DEF Digit
  <2>3. one[1] = (IF a + 1 = Base THEN 0 ELSE a + 1) /\ one[2] = 0
    BY <2>1, <2>2, CounterOf
  <2>4. Counter(Number(ssc) + 2) = <<IF a + 1 = Base THEN 0 ELSE a + 1, 1>>
    BY <2>1, <2>2, CounterOf
  <2>5. one[1] \in 0..Base /\ one[1] # Base
    BY <1>1, <2>3 DEF Digit
  <2>6. Number(one) + 1 = one[1] * Base + 1
    BY <1>1, <2>3, <2>5 DEF Number
  <2>7. Counter(Number(one) + 1) = <<one[1], 1>>
    BY <2>1, <2>5, <2>6, CounterOf
  <2> QED
    BY <2>3, <2>4, <2>7
<1>5. b + 2 < Base \/ b + 2 = Base \/ b + 1 = Base
  BY <1>1 DEF Digit
<1> QED
  BY <1>2, <1>3, <1>4, <1>5

-----------------------------------------------------------------------------
(* The points of the curve.                                                *)

LEMMA Remainder ==
  ASSUME NEW x \in Int
  PROVE  x % Q \in Points /\ \E q \in Int : x = q * Q + (x % Q)
<1>1. x = (x \div Q) * Q + (x % Q) /\ x \div Q \in Int /\ x % Q \in 0..(Q - 1)
  BY CryptoAssumption
<1> QED
  BY <1>1 DEF Points

LEMMA RemainderIs ==
  ASSUME NEW x \in Int, NEW q \in Int, NEW r \in Points, x = q * Q + r
  PROVE  x % Q = r
BY CryptoAssumption DEF Points

\* Numbers with the same remainder differ by a multiple of Q.
LEMMA SameRemainder ==
  ASSUME NEW x \in Int, NEW y \in Int, NEW q \in Int, x = y + q * Q
  PROVE  x % Q = y % Q
<1>1. PICK p \in Int : y = p * Q + (y % Q)
  BY Remainder
<1>2. y % Q \in Points
  BY Remainder
<1>3. x = (p + q) * Q + (y % Q)
  BY <1>1, <1>2, CryptoAssumption DEF Points
<1> QED
  BY <1>2, <1>3, RemainderIs

\* Q is a prime.
LEMMA NoDivisor ==
  ASSUME NEW a \in Points \ {0}, NEW x \in Int, (a * x) % Q = 0
  PROVE  x % Q = 0
<1> DEFINE r == x % Q
<1>1. PICK p \in Int : x = p * Q + r
  BY Remainder
<1>2. r \in Points /\ a \in Int
  BY Remainder DEF Points
<1> HIDE DEF r
<1>3. a * r = a * x + (-(a * p)) * Q /\ a * r \in Int /\ a * x \in Int /\ -(a * p) \in Int
  BY <1>1, <1>2, CryptoAssumption DEF Points
<1>4. (a * r) % Q = 0
  BY <1>3, SameRemainder
<1>5. r = 0
  BY <1>2, <1>4, PrimeAssumption DEF Points
<1> QED
  BY <1>5 DEF r

LEMMA TimesType ==
  ASSUME NEW k \in Points, NEW g \in Points
  PROVE  Times(k, g) \in Points
<1>1. k * g \in Int
  BY DEF Points
<1> QED
  BY <1>1, Remainder DEF Times

\* Times is associative up to multiples of Q.
LEMMA TimesTwice ==
  ASSUME NEW k \in Points, NEW p \in Points, NEW g \in Points
  PROVE  \E q \in Int : Times(k, Times(p, g)) = k * p * g + q * Q
<1> DEFINE t == Times(p, g)
<1>1. PICK m \in Int : p * g = m * Q + t
  BY Remainder DEF Times, Points
<1>2. t \in Points
  BY TimesType
<1> HIDE DEF t
<1>3. PICK n \in Int : k * t = n * Q + Times(k, t)
  BY <1>2, Remainder DEF Times, Points
<1>4. Times(k, t) \in Points
  BY <1>2, TimesType
<1>5. /\ k \in Int /\ p \in Int /\ g \in Int /\ t \in Int /\ Times(k, t) \in Int
      /\ Q \in Int /\ p * g \in Int
  BY <1>2, <1>4, CryptoAssumption DEF Points
<1>6. k * (p * g) = k * (m * Q) + k * t
  BY <1>1, <1>5
<1>7. Times(k, t) = k * p * g + (-(k * m + n)) * Q /\ -(k * m + n) \in Int
  BY <1>3, <1>5, <1>6
<1> QED
  BY <1>7 DEF t

\* Only a point and its negative have the same x coordinate.
LEMMA SameX ==
  ASSUME NEW a \in Points, NEW b \in Points, X(a) = X(b)
  PROVE  a = b \/ a + b = Q
BY CryptoAssumption DEF X, Points

(***************************************************************************)
(* The algebra of PACE: when both sides end with the same x coordinate     *)
(* their generators are the same, or each other's negative.                *)
(***************************************************************************)
LEMMA Agreement ==
  ASSUME NEW k \in Points \ {0}, NEW p \in Points \ {0},
         NEW g \in Points, NEW h \in Points,
         X(Times(p, Times(k, g))) = X(Times(k, Times(p, h)))
  PROVE  (g - h) % Q = 0 \/ (g + h) % Q = 0
<1> DEFINE a == Times(p, Times(k, g))
           b == Times(k, Times(p, h))
<1>1. a \in Points /\ b \in Points
  BY TimesType
<1>2. a = b \/ a + b = Q
  BY <1>1, SameX
<1>3. PICK m \in Int : a = p * k * g + m * Q
  BY TimesTwice
<1>4. PICK n \in Int : b = k * p * h + n * Q
  BY TimesTwice
<1>5. /\ k \in Int /\ p \in Int /\ g \in Int /\ h \in Int /\ Q \in Int
      /\ a \in Int /\ b \in Int
  BY <1>1, CryptoAssumption DEF Points
<1> HIDE DEF a, b
<1>0. 0 % Q = 0 /\ 0 \in Int
  BY CryptoAssumption
<1>6. CASE a = b
  <2>0. g - h \in Int /\ k * (g - h) \in Int /\ p * (k * (g - h)) \in Int
    BY <1>5
  <2>1. p * (k * (g - h)) = 0 + (n - m) * Q /\ n - m \in Int
    BY <1>3, <1>4, <1>5, <1>6
  <2>2. (p * (k * (g - h))) % Q = 0
    BY <1>0, <2>0, <2>1, SameRemainder
  <2>3. (k * (g - h)) % Q = 0
    BY <2>0, <2>2, NoDivisor
  <2> QED
    BY <2>0, <2>3, NoDivisor
<1>7. CASE a + b = Q
  <2>0. g + h \in Int /\ k * (g + h) \in Int /\ p * (k * (g + h)) \in Int
    BY <1>5
  <2>1. p * (k * (g + h)) = 0 + (1 - n - m) * Q /\ 1 - n - m \in Int
    BY <1>3, <1>4, <1>5, <1>7
  <2>2. (p * (k * (g + h))) % Q = 0
    BY <1>0, <2>0, <2>1, SameRemainder
  <2>3. (k * (g + h)) % Q = 0
    BY <2>0, <2>2, NoDivisor
  <2> QED
    BY <2>0, <2>3, NoDivisor
<1> QED
  BY <1>2, <1>6, <1>7

\* A CAN that is another number modulo Q is another CAN.
LEMMA CanOf ==
  ASSUME NEW can \in Points, NEW own \in Points, NEW g \in Points, NEW h \in Points,
         h = (g + can - own) % Q, (g - h) % Q = 0 \/ (g + h) % Q = 0
  PROVE  can = own \/ (2 * g + can - own) % Q = 0
<1>1. /\ can \in Int /\ own \in Int /\ g \in Int /\ h \in Int /\ Q \in Int
      /\ g + can - own \in Int /\ g - h \in Int /\ g + h \in Int /\ 2 * g + can - own \in Int
  BY CryptoAssumption DEF Points
<1>2. PICK q \in Int : g + can - own = q * Q + h
  BY <1>1, Remainder
<1>3. CASE (g - h) % Q = 0
  <2>1. PICK n \in Int : g - h = n * Q + 0
    BY <1>1, <1>3, Remainder
  <2>2. can - own = (q - n) * Q
    BY <1>1, <1>2, <2>1
  <2>3. PICK m \in Int : m = q - n
    OBVIOUS
  <2>4. can - own = m * Q
    BY <2>2, <2>3
  <2>5. m = 0
    BY <1>1, <2>4, CryptoAssumption DEF Points
  <2> QED
    BY <1>1, <2>4, <2>5
<1>4. CASE (g + h) % Q = 0
  <2>1. PICK n \in Int : g + h = n * Q + 0
    BY <1>1, <1>4, Remainder
  <2>2. 2 * g + can - own = (q + n) * Q + 0 /\ q + n \in Int
    BY <1>1, <1>2, <2>1
  <2>3. 0 \in Points
    BY CryptoAssumption DEF Points
  <2> QED
    BY <1>1, <2>2, <2>3, RemainderIs
<1> QED
  BY <1>3, <1>4

\* The generators differ by what the CANs differ.
LEMMA MappedBy ==
  ASSUME NEW s \in Points, NEW can \in Points, NEW own \in Points,
         NEW p \in Points, NEW k \in Points
  PROVE  pace_process_map_nonce_response((s + can - own) % Q, p, k)
           = (((s + k * Times(p, 1)) % Q) + can - own) % Q
<1> DEFINE r == (s + can - own) % Q
           t == Times(p, k)
           c == (s + k * p) % Q
<1>1. /\ s \in Int /\ can \in Int /\ own \in Int /\ p \in Int /\ k \in Int /\ Q \in Int
      /\ s + can - own \in Int /\ p * k \in Int /\ s + k * p \in Int
  BY CryptoAssumption DEF Points
<1>2. Times(p, 1) = p
  BY CryptoAssumption DEF Times, Points
<1>a. r \in Points /\ t \in Points /\ c \in Points
  BY <1>1, Remainder DEF Times
<1>3. r \in Int /\ t \in Int /\ c \in Int
  BY <1>a DEF Points
<1>4. PICK m \in Int : s + can - own = m * Q + r
  BY <1>1, Remainder
<1>5. PICK n \in Int : p * k = n * Q + t
  BY <1>1, Remainder DEF Times
<1>6. PICK l \in Int : s + k * p = l * Q + c
  BY <1>1, Remainder
<1> HIDE DEF r, t, c
<1>7. /\ r + t = (c + can - own) + (l - m - n) * Q /\ l - m - n \in Int
      /\ r + t \in Int /\ c + can - own \in Int
  BY <1>1, <1>3, <1>4, <1>5, <1>6
<1>8. (r + t) % Q = (c + can - own) % Q
  BY <1>7, SameRemainder
<1> QED
  BY <1>2, <1>8 DEF r, t, c, pace_process_map_nonce_response

-----------------------------------------------------------------------------
(* The invariant.                                                          *)

Session(s) == DOMAIN s = {"seed", "ssc"} /\ s.ssc \in Ssc

Shape ==
  /\ \E name \in DOMAIN Documents : doc = Documents[name] /\ ask \in Typings[name]
  /\ stage \in BacOps \union PaceOps \union SecureOps \union {"idle", "done"}
  /\ DOMAIN read = DOMAIN NoRead /\ Session(read.session)
  /\ DOMAIN chip = DOMAIN NoChip /\ Session(chip.session)
  /\ wire.dir \in {"none", "cmd", "resp"} /\ wire.res \in {"ok", "refused", "lost"}
  /\ stage \in {"idle", "done"} <=> wire.dir = "none"
  /\ wire.dir = "cmd" => wire.res = "ok"

\* A command of stage op is on its way, or the chip's answer to it.
Asks(op) == stage = op /\ wire.dir = "cmd"
Answers(op) == stage = op /\ wire.dir = "resp" /\ wire.res = "ok"

\* BAC: the chip answers only what was made with its own keys and challenge, so
\* that both sides derive the session from the same four numbers.
BacInv ==
  /\ stage \in BacOps => /\ ~ask.use_pace
                         /\ read.keys = bac_mrz_sha1(ask.number, ask.birth, ask.expiry)
  /\ Answers("get_challenge") => wire.body = chip.rnd_icc /\ chip.rnd_icc \in Challenges
  /\ stage = "mutual_auth" => read.rnd_icc \in Challenges /\ read.rnd_ifd \in Challenges
  /\ Asks("mutual_auth") =>
       wire.body = Cryptogram(read.keys, read.rnd_ifd, read.rnd_icc, read.k_ifd)
  /\ Answers("mutual_auth") =>
       /\ read.keys = doc.key_text
       /\ chip.sm = TRUE
       /\ chip.session =
            BacSession(read.rnd_icc, read.rnd_ifd, read.k_ifd, wire.body.e.data[3])

\* The generator of the terminal, by that of the chip.
Generator == (chip.gtilde + ask.can - doc.can) % Q

\* The chip has chosen k for its second key.
Chose(k) ==
  /\ chip.pub2 = Times(k, chip.gtilde)
  /\ chip.session.seed = X(Times(k, read.my_pub2)) /\ chip.session.ssc = ZeroSsc

CanProved == ask.can = doc.can \/ Coincidence

\* PACE: what either side has of the other's numbers.
PaceInv ==
  /\ stage \in PaceOps => ask.use_pace /\ ask.can \in Points
  /\ Answers("get_nonce") =>
       chip.s \in Points /\ wire.body = Sealed(Kpi(doc.can), ZeroIv, chip.s)
  /\ stage = "map_nonce" => /\ chip.s \in Points /\ read.priv1 \in Points
                            /\ read.s = (chip.s + ask.can - doc.can) % Q
  /\ Asks("map_nonce") => wire.body = Times(read.priv1, 1)
  /\ Answers("map_nonce") =>
       /\ wire.body \in Points
       /\ chip.gtilde = (chip.s + wire.body * Times(read.priv1, 1)) % Q
  /\ stage \in {"key_agreement", "pace_mutual_auth"} =>
       /\ chip.gtilde \in Points /\ read.priv2 \in Points \ {0}
       /\ read.my_pub2 = Times(read.priv2, Generator)
  /\ Asks("key_agreement") => wire.body = read.my_pub2
  /\ Answers("key_agreement") =>
       /\ \E k \in Points \ {0} : Chose(k)
       /\ wire.body = chip.pub2
  /\ Asks("pace_mutual_auth") =>
       /\ \E k \in Points \ {0} : Chose(k)
       /\ read.session.seed = X(Times(read.priv2, chip.pub2))
       /\ read.session.ssc = ZeroSsc
       /\ wire.body = compute_token(read.session, read.oid, chip.pub2)
  /\ Answers("pace_mutual_auth") =>
       \/ wire.body = NoToken
       \/ /\ chip.sm = TRUE /\ CanProved
          /\ chip.session.seed = read.session.seed /\ chip.session.ssc = read.session.ssc

\* Under secure messaging: InStep, and the chip knows every command.
SecureInv ==
  /\ InStep /\ PasswordProved
  /\ Secure /\ wire.dir = "cmd" => wire.body.header[1] \in {"select", "read"}

DocumentInv == Shape /\ BacInv /\ PaceInv /\ SecureInv

-----------------------------------------------------------------------------
(* The chip and the link.                                                  *)

LEMMA DocumentOk ==
  ASSUME Shape
  PROVE  /\ doc.can \in Points /\ ask.can \in Points \union {-1}
         /\ "select_dg1" \notin doc.refuses /\ "select_dg2" \notin doc.refuses
BY DocumentAssumption DEF Shape

LEMMA ChallengeOk ==
  ASSUME NEW c \in Challenges
  PROVE  c[2] \in Digit /\ c \in Ssc
BY DocumentAssumption DEF Digit, Ssc

LEMMA ZeroOk == ZeroSsc \in Ssc
BY CryptoAssumption DEF ZeroSsc, Ssc, Digit

LEMMA InitDocument == Init => DocumentInv
<1> SUFFICES ASSUME Init PROVE DocumentInv
  OBVIOUS
<1>1. Session(NoSession)
  BY ZeroOk DEF Session, NoSession
<1>2. Shape
  BY <1>1 DEF Init, Shape, NoRead, NoChip, NoWire, Apdu
<1> QED
  BY <1>2 DEF Init, DocumentInv, BacInv, PaceInv, SecureInv, InStep, PasswordProved, Secure,
              Asks, Answers, BacOps, PaceOps, SecureOps

\* What every answer leaves as it is: the read, and what has been agreed before.
LEMMA ReplyShape ==
  ASSUME DocumentInv, wire.dir = "cmd", UNCHANGED <<doc, ask, stage, read>>,
         wire'.dir = "resp", wire'.res \in {"ok", "refused", "lost"},
         DOMAIN chip' = DOMAIN NoChip, Session(chip'.session)
  PROVE  Shape'
BY DEF DocumentInv, Shape, Session, Ssc, Digit

\* An answer that is no answer: refused by the chip, or lost.
LEMMA SilentStep ==
  ASSUME DocumentInv, wire.dir = "cmd", UNCHANGED <<doc, ask, stage, read, chip>>,
         wire'.dir = "resp", wire'.res \in {"refused", "lost"}
  PROVE  DocumentInv'
<1>1. Shape'
  BY ReplyShape DEF DocumentInv, Shape
<1>2. BacInv' /\ PaceInv'
  BY DEF DocumentInv, BacInv, PaceInv, Asks, Answers, Generator
<1>3. SecureInv'
  BY DEF DocumentInv, SecureInv, InStep, PasswordProved, Secure, Coincidence
<1> QED
  BY <1>1, <1>2, <1>3 DEF DocumentInv

LEMMA LinkStep == DocumentInv /\ LinkFails => DocumentInv'
BY SilentStep DEF LinkFails, Apdu

LEMMA RejectStep == DocumentInv /\ wire.dir = "cmd" /\ ChipRejects => DocumentInv'
BY SilentStep DEF ChipRejects, Apdu

LEMMA ChipRefusesStep == DocumentInv /\ ChipRefuses => DocumentInv'
BY RejectStep DEF ChipRefuses

\* Answers that carry nothing the invariant speaks of.
LEMMA PlainReply ==
  ASSUME DocumentInv, wire.dir = "cmd", NEW c, NEW body, ChipSays(c, body),
         stage \in {"select_aid", "select_ef_cardaccess", "ef_cardaccess_rest", "mse_set_at"},
         DOMAIN c = DOMAIN chip, c.session = chip.session
  PROVE  DocumentInv'
<1>1. Shape'
  BY ReplyShape DEF DocumentInv, Shape, ChipSays, Apdu
<1>2. BacInv' /\ PaceInv'
  BY DEF DocumentInv, BacInv, PaceInv, Asks, Answers, ChipSays, BacOps, PaceOps
<1>3. SecureInv'
  BY DEF SecureInv, InStep, PasswordProved, Secure, SecureOps, ChipSays
<1> QED
  BY <1>1, <1>2, <1>3 DEF DocumentInv

LEMMA ChipSelectsStep == DocumentInv /\ ChipSelects => DocumentInv'
BY PlainReply DEF ChipSelects, ChipHears

LEMMA ChipReadsAccessStep == DocumentInv /\ ChipReadsAccess => DocumentInv'
BY PlainReply DEF ChipReadsAccess, ChipHears

LEMMA ChipSetsPaceStep == DocumentInv /\ ChipSetsPace => DocumentInv'
<1> SUFFICES ASSUME DocumentInv, ChipSetsPace PROVE DocumentInv'
  OBVIOUS
<1> DEFINE c == [chip EXCEPT !.oid = wire.body]
<1>1. DOMAIN c = DOMAIN chip /\ c.session = chip.session
  BY DEF DocumentInv, Shape, NoChip
<1> HIDE DEF c
<1>2. ChipSays(c, <<>>) /\ wire.dir = "cmd" /\ stage = "mse_set_at"
  BY DEF ChipSetsPace, ChipHears, c
<1> QED
  BY <1>1, <1>2, PlainReply

LEMMA ChipChallengesStep == DocumentInv /\ ChipChallenges => DocumentInv'
<1> SUFFICES ASSUME DocumentInv, ChipChallenges PROVE DocumentInv'
  OBVIOUS
<1>1. PICK c \in Challenges, k \in 0..1 :
        ChipSays([chip EXCEPT !.rnd_icc = c, !.k_icc = k], c)
  BY DEF ChipChallenges
<1>2. stage = "get_challenge" /\ wire.dir = "cmd"
  BY DEF ChipChallenges, ChipHears
<1>3. /\ DOMAIN chip' = DOMAIN NoChip /\ chip'.session = chip.session
      /\ chip'.rnd_icc = c
  BY <1>1 DEF DocumentInv, Shape, NoChip, ChipSays
<1>4. wire'.dir = "resp" /\ wire'.res = "ok" /\ wire'.body = c
  BY <1>1 DEF ChipSays, Apdu
<1>5. UNCHANGED <<doc, ask, stage, read>>
  BY <1>1 DEF ChipSays
<1>6. Shape'
  BY <1>2, <1>3, <1>4, <1>5, ReplyShape DEF DocumentInv, Shape
<1>7. BacInv' /\ PaceInv'
  BY <1>2, <1>3, <1>4, <1>5 DEF DocumentInv, BacInv, PaceInv, Asks, Answers, BacOps, PaceOps
<1>8. SecureInv'
  BY <1>2, <1>5 DEF SecureInv, InStep, PasswordProved, Secure, SecureOps
<1> QED
  BY <1>6, <1>7, <1>8 DEF DocumentInv

LEMMA ChipAuthenticatesStep == DocumentInv /\ ChipAuthenticates => DocumentInv'
<1> SUFFICES ASSUME DocumentInv, ChipAuthenticates PROVE DocumentInv'
  OBVIOUS
<1> DEFINE q == wire.body
           s == q.e.data
           own == doc.key_text
           fits == q.m = Mac(kmac(own), q.e) /\ q.e.key = kenc(own) /\ s[2] = chip.rnd_icc
           session == [seed |-> (s[3] + chip.k_icc) % 2,
                       ssc |-> <<chip.rnd_icc[2], s[1][2]>>]
           body == Cryptogram(own, chip.rnd_icc, s[1], chip.k_icc)
<1>1. stage = "mutual_auth" /\ wire.dir = "cmd"
  BY DEF ChipAuthenticates, ChipHears
<1>2. CASE ~fits
  <2>1. ChipRejects
    BY <1>2 DEF ChipAuthenticates
  <2> QED
    BY <1>1, <2>1, RejectStep
<1>3. CASE fits
  <2>1. ChipSays([chip EXCEPT !.sm = TRUE, !.session = session], body)
    BY <1>3 DEF ChipAuthenticates
  <2>2. q = Cryptogram(read.keys, read.rnd_ifd, read.rnd_icc, read.k_ifd)
    BY <1>1 DEF DocumentInv, BacInv, Asks
  <2>3. /\ s = <<read.rnd_ifd, read.rnd_icc, read.k_ifd>>
        /\ q.e.key = kenc(read.keys)
    BY <2>2 DEF Cryptogram, Sealed
  <2>4. read.keys = own /\ chip.rnd_icc = read.rnd_icc
    BY <1>3, <2>3 DEF kenc, Key
  <2>5. body.e.data[3] = chip.k_icc
    BY DEF Cryptogram, Sealed
  <2>6. session = BacSession(read.rnd_icc, read.rnd_ifd, read.k_ifd, body.e.data[3])
    BY <2>3, <2>4, <2>5 DEF BacSession
  <2>7. read.rnd_icc \in Challenges /\ read.rnd_ifd \in Challenges
    BY <1>1 DEF DocumentInv, BacInv
  <2>8. Session(session)
    BY <2>6, <2>7, ChallengeOk DEF BacSession, Session, Ssc
  <2> HIDE DEF session, body
  <2>9. /\ DOMAIN chip' = DOMAIN NoChip /\ chip'.session = session
        /\ chip'.sm = TRUE
    BY <2>1 DEF DocumentInv, Shape, NoChip, ChipSays
  <2>10. wire'.dir = "resp" /\ wire'.res = "ok" /\ wire'.body = body
    BY <2>1 DEF ChipSays, Apdu
  <2>11. UNCHANGED <<doc, ask, stage, read>>
    BY <2>1 DEF ChipSays
  <2>12. Shape'
    BY <1>1, <2>8, <2>9, <2>10, <2>11, ReplyShape
  <2>13. BacInv'
    BY <1>1, <2>4, <2>6, <2>9, <2>10, <2>11
       DEF DocumentInv, BacInv, Asks, Answers, BacOps
  <2>14. PaceInv' /\ SecureInv'
    BY <1>1, <2>11 DEF PaceInv, Asks, Answers, PaceOps, SecureInv, InStep, PasswordProved,
                       Secure, SecureOps
  <2> QED
    BY <2>12, <2>13, <2>14 DEF DocumentInv
<1> QED
  BY <1>2, <1>3

LEMMA ChipNonceStep == DocumentInv /\ ChipNonce => DocumentInv'
<1> SUFFICES ASSUME DocumentInv, ChipNonce PROVE DocumentInv'
  OBVIOUS
<1>1. PICK s \in Points : ChipSays([chip EXCEPT !.s = s], Sealed(Kpi(doc.can), ZeroIv, s))
  BY DEF ChipNonce
<1>2. stage = "get_nonce" /\ wire.dir = "cmd"
  BY DEF ChipNonce, ChipHears
<1>3. DOMAIN chip' = DOMAIN NoChip /\ chip'.session = chip.session /\ chip'.s = s
  BY <1>1 DEF DocumentInv, Shape, NoChip, ChipSays
<1>4. /\ wire'.dir = "resp" /\ wire'.res = "ok"
      /\ wire'.body = Sealed(Kpi(doc.can), ZeroIv, s)
  BY <1>1 DEF ChipSays, Apdu
<1>5. UNCHANGED <<doc, ask, stage, read>>
  BY <1>1 DEF ChipSays
<1>6. Shape'
  BY <1>2, <1>3, <1>4, <1>5, ReplyShape DEF DocumentInv, Shape
<1>7. BacInv' /\ PaceInv'
  BY <1>2, <1>3, <1>4, <1>5 DEF DocumentInv, BacInv, PaceInv, Asks, Answers, BacOps, PaceOps
<1>8. SecureInv'
  BY <1>2, <1>5 DEF SecureInv, InStep, PasswordProved, Secure, SecureOps
<1> QED
  BY <1>6, <1>7, <1>8 DEF DocumentInv

LEMMA ChipMapsStep == DocumentInv /\ ChipMaps => DocumentInv'
<1> SUFFICES ASSUME DocumentInv, ChipMaps PROVE DocumentInv'
  OBVIOUS
<1>1. PICK k \in Points \ {0} :
        ChipSays([chip EXCEPT !.gtilde = (chip.s + k * wire.body) % Q], k)
  BY DEF ChipMaps
<1>2. stage = "map_nonce" /\ wire.dir = "cmd"
  BY DEF ChipMaps, ChipHears
<1>3. wire.body = Times(read.priv1, 1)
  BY <1>2 DEF DocumentInv, PaceInv, Asks
<1>4. /\ DOMAIN chip' = DOMAIN NoChip /\ chip'.session = chip.session /\ chip'.s = chip.s
      /\ chip'.gtilde = (chip.s + k * Times(read.priv1, 1)) % Q
  BY <1>1, <1>3 DEF DocumentInv, Shape, NoChip, ChipSays
<1>5. wire'.dir = "resp" /\ wire'.res = "ok" /\ wire'.body = k
  BY <1>1 DEF ChipSays, Apdu
<1>6. UNCHANGED <<doc, ask, stage, read>>
  BY <1>1 DEF ChipSays
<1>7. Shape'
  BY <1>2, <1>4, <1>5, <1>6, ReplyShape DEF DocumentInv, Shape
<1>8. BacInv'
  BY <1>2, <1>6 DEF BacInv, Asks, Answers, BacOps
<1>9. PaceInv'
  BY <1>2, <1>4, <1>5, <1>6 DEF DocumentInv, PaceInv, Asks, Answers, PaceOps
<1>10. SecureInv'
  BY <1>2, <1>6 DEF SecureInv, InStep, PasswordProved, Secure, SecureOps
<1> QED
  BY <1>7, <1>8, <1>9, <1>10 DEF DocumentInv

LEMMA ChipAgreesStep == DocumentInv /\ ChipAgrees => DocumentInv'
<1> SUFFICES ASSUME DocumentInv, ChipAgrees PROVE DocumentInv'
  OBVIOUS
<1>1. stage = "key_agreement" /\ wire.dir = "cmd"
  BY Zenon DEF ChipAgrees, ChipHears
<1>2. CASE chip.gtilde = 0
  <2>1. ChipRejects
    BY <1>2 DEF ChipAgrees
  <2> QED
    BY <1>1, <2>1, RejectStep
<1>3. CASE chip.gtilde # 0
  <2>1. PICK k \in Points \ {0} :
          ChipSays([chip EXCEPT !.pub2 = Times(k, chip.gtilde), !.peer = wire.body,
                      !.session = [seed |-> X(Times(k, wire.body)), ssc |-> ZeroSsc]],
                   Times(k, chip.gtilde))
    BY <1>3 DEF ChipAgrees
  <2>2. wire.body = read.my_pub2
    BY <1>1 DEF DocumentInv, PaceInv, Asks
  <2> DEFINE session == [seed |-> X(Times(k, read.my_pub2)), ssc |-> ZeroSsc]
  <2>3. Session(session) /\ session.seed = X(Times(k, read.my_pub2)) /\ session.ssc = ZeroSsc
    BY ZeroOk DEF Session
  <2>4. /\ DOMAIN chip' = DOMAIN NoChip /\ chip'.gtilde = chip.gtilde
        /\ chip'.pub2 = Times(k, chip.gtilde) /\ chip'.session = session
    BY <2>1, <2>2 DEF DocumentInv, Shape, NoChip, ChipSays
  <2> HIDE DEF session
  <2>5. wire'.dir = "resp" /\ wire'.res = "ok" /\ wire'.body = Times(k, chip.gtilde)
    BY <2>1 DEF ChipSays, Apdu
  <2>6. UNCHANGED <<doc, ask, stage, read>>
    BY <2>1 DEF ChipSays
  <2>7. Shape'
    BY <1>1, <2>3, <2>4, <2>5, <2>6, ReplyShape
  <2>8. Chose(k)'
    BY <2>3, <2>4, <2>6 DEF Chose
  <2>9. PaceInv'
    BY <1>1, <2>4, <2>5, <2>6, <2>8
       DEF DocumentInv, PaceInv, Asks, Answers, PaceOps, Generator
  <2>10. BacInv' /\ SecureInv'
    BY <1>1, <2>6 DEF BacInv, Asks, Answers, BacOps, SecureInv, InStep, PasswordProved, Secure,
                      SecureOps
  <2> QED
    BY <2>7, <2>9, <2>10 DEF DocumentInv
<1> QED
  BY <1>2, <1>3

\* A session both sides have proved to know is that of the right CAN.
LEMMA SeedsMeet ==
  ASSUME DocumentInv, Asks("pace_mutual_auth"), read.session.seed = chip.session.seed
  PROVE  CanProved
<1>1. /\ chip.gtilde \in Points /\ read.priv2 \in Points \ {0}
      /\ read.my_pub2 = Times(read.priv2, Generator)
      /\ read.session.seed = X(Times(read.priv2, chip.pub2))
  BY DEF DocumentInv, PaceInv, Asks
<1>2. PICK k \in Points \ {0} : Chose(k)
  BY DEF DocumentInv, PaceInv
<1>3. ask.can \in Points /\ doc.can \in Points
  BY DocumentOk DEF DocumentInv, PaceInv, Asks, PaceOps
<1>4. chip.gtilde + ask.can - doc.can \in Int
  BY <1>1, <1>3 DEF Points
<1>5. Generator \in Points
  BY <1>4, Remainder DEF Generator
<1>6. X(Times(read.priv2, Times(k, chip.gtilde))) = X(Times(k, Times(read.priv2, Generator)))
  BY <1>1, <1>2 DEF Chose
<1>7. (chip.gtilde - Generator) % Q = 0 \/ (chip.gtilde + Generator) % Q = 0
  BY <1>1, <1>5, <1>6, Agreement
<1> QED
  BY <1>1, <1>3, <1>5, <1>7, CanOf DEF Generator, CanProved, Coincidence

LEMMA ChipVerifiesStep == DocumentInv /\ ChipVerifies => DocumentInv'
<1> SUFFICES ASSUME DocumentInv, ChipVerifies PROVE DocumentInv'
  OBVIOUS
<1> DEFINE key == Key(chip.session.seed, 2)
           token == Mac(key, <<chip.oid, chip.peer>>)
           c == [NoChip EXCEPT !.sm = TRUE, !.gtilde = chip.gtilde, !.session = chip.session]
<1>1. stage = "pace_mutual_auth" /\ wire.dir = "cmd" /\ Asks("pace_mutual_auth")
  BY DEF ChipVerifies, ChipHears, Asks
<1>2. Session(chip.session)
  BY DEF DocumentInv, Shape
<1>3. BacInv' /\ SecureInv'
  <2>1. stage' = stage
    BY DEF ChipVerifies, ChipSays, ChipRejects
  <2> QED
    BY <1>1, <2>1 DEF BacInv, Asks, Answers, BacOps, SecureInv, InStep, PasswordProved, Secure,
                      SecureOps
<1>4. CASE wire.body = Mac(key, <<chip.oid, chip.pub2>>)
  <2>1. ChipSays(c, token)
    BY <1>4 DEF ChipVerifies
  <2>2. read.session.seed = chip.session.seed
    BY <1>1, <1>4 DEF DocumentInv, PaceInv, compute_token, ks_mac, Mac, Key
  <2>3. CanProved
    BY <1>1, <2>2, SeedsMeet
  <2>4. read.session.ssc = chip.session.ssc
    BY <1>1 DEF DocumentInv, PaceInv, Chose
  <2>5. /\ DOMAIN chip' = DOMAIN NoChip /\ chip'.gtilde = chip.gtilde
        /\ chip'.sm = TRUE /\ chip'.session = chip.session
    BY <2>1 DEF NoChip, ChipSays
  <2> HIDE DEF c, token
  <2>6. wire'.dir = "resp" /\ wire'.res = "ok"
    BY <2>1 DEF ChipSays, Apdu
  <2>7. UNCHANGED <<doc, ask, stage, read>>
    BY <2>1 DEF ChipSays
  <2>8. Shape'
    BY <1>1, <1>2, <2>5, <2>6, <2>7, ReplyShape
  <2>9. CanProved'
    BY <2>3, <2>5, <2>7 DEF CanProved, Coincidence
  <2>10. PaceInv'
    BY <1>1, <2>2, <2>4, <2>5, <2>6, <2>7, <2>9
       DEF DocumentInv, PaceInv, Asks, Answers, PaceOps, Generator
  <2> QED
    BY <1>3, <2>8, <2>10 DEF DocumentInv
<1>5. CASE ChipRejects
  BY <1>1, <1>5, RejectStep
<1>6. CASE ChipSays(chip, NoToken)
  <2>2. /\ wire'.dir = "resp" /\ wire'.res = "ok" /\ wire'.body = NoToken
        /\ UNCHANGED <<doc, ask, stage, read, chip>>
    BY <1>6 DEF ChipSays, Apdu
  <2>3. Shape'
    BY <1>1, <2>2, ReplyShape DEF DocumentInv, Shape
  <2>4. PaceInv'
    BY <1>1, <2>2 DEF DocumentInv, PaceInv, Asks, Answers, PaceOps, Generator
  <2> QED
    BY <1>3, <2>3, <2>4 DEF DocumentInv
<1> QED
  BY <1>4, <1>5, <1>6 DEF ChipVerifies

\* Under secure messaging the chip answers with the counter two further.
LEMMA ChipObeysStep == DocumentInv /\ ChipObeys => DocumentInv'
<1> SUFFICES ASSUME DocumentInv, ChipObeys PROVE DocumentInv'
  OBVIOUS
<1> DEFINE moved == [chip EXCEPT !.session.ssc = ChipSscAfter]
<1>1. stage \in SecureOps /\ wire.dir = "cmd" /\ wire.res = "ok"
  BY DEF ChipObeys, DocumentInv, Shape
<1>2. wire.body.header[1] \in {"select", "read"}
  BY <1>1 DEF DocumentInv, SecureInv, Secure
<1>3. \/ ChipRejects
      \/ \E f, body : ChipSays([moved EXCEPT !.file = f], body)
      \/ \E body : ChipSays(moved, body)
  BY <1>2, Zenon DEF ChipObeys
<1>4. CASE ChipRejects
  BY <1>1, <1>4, RejectStep
<1>5. ASSUME NEW c, NEW body, ChipSays(c, body),
             c = moved \/ \E f : c = [moved EXCEPT !.file = f]
      PROVE  DocumentInv'
  <2>1. /\ DOMAIN c = DOMAIN NoChip /\ c.session = [chip.session EXCEPT !.ssc = ChipSscAfter]
        /\ c.sm = chip.sm /\ c.gtilde = chip.gtilde
    BY <1>5 DEF DocumentInv, Shape, NoChip
  <2>2. /\ chip'= c /\ wire'.dir = "resp" /\ wire'.res = "ok"
        /\ UNCHANGED <<doc, ask, stage, read>>
    BY <1>5 DEF ChipSays, Apdu
  <2>3. /\ chip.sm /\ read.session.seed = chip.session.seed
        /\ read.session.ssc = Counter(Number(chip.session.ssc) + 1)
        /\ chip.session.ssc \in Ssc /\ DOMAIN chip.session = {"seed", "ssc"}
        /\ read.session.ssc \in Ssc
    BY <1>1 DEF DocumentInv, SecureInv, InStep, Secure, Shape, Session
  <2>4. ChipSscAfter = Counter(Number(read.session.ssc) + 1)
    BY <2>3, TwoSteps DEF ChipSscAfter
  <2>5. ChipSscAfter \in Ssc
    BY <2>3, <2>4, Increment
  <2>6. /\ chip'.session.seed = chip.session.seed /\ chip'.session.ssc = ChipSscAfter
        /\ Session(chip'.session)
    BY <2>1, <2>2, <2>3, <2>5 DEF Session
  <2>7. Shape'
    BY <1>1, <2>1, <2>2, <2>6, ReplyShape
  <2>8. BacInv' /\ PaceInv'
    BY <1>1, <2>2 DEF BacInv, PaceInv, Asks, Answers, BacOps, PaceOps, SecureOps
  <2>9. InStep'
    BY <1>1, <2>1, <2>2, <2>3, <2>4, <2>6 DEF InStep, Secure
  <2>10. PasswordProved'
    BY <1>1, <2>1, <2>2 DEF DocumentInv, SecureInv, PasswordProved, Secure, Coincidence
  <2> QED
    BY <2>2, <2>7, <2>8, <2>9, <2>10 DEF DocumentInv, SecureInv
<1> HIDE DEF moved
<1> QED
  BY <1>3, <1>4, <1>5

LEMMA ChipStep == DocumentInv /\ Chip => DocumentInv'
BY ChipSelectsStep, ChipChallengesStep, ChipAuthenticatesStep, ChipReadsAccessStep,
   ChipSetsPaceStep, ChipNonceStep, ChipMapsStep, ChipAgreesStep, ChipVerifiesStep,
   ChipObeysStep, ChipRefusesStep DEF Chip

-----------------------------------------------------------------------------
(* The terminal.                                                           *)

Ended == /\ stage' = "done" /\ read' = NoRead /\ wire' = NoWire /\ chip' = NoChip
         /\ UNCHANGED <<doc, ask>>

\* The next command is op, and the read is r.
Sends(r, op, body) ==
  /\ stage' = op /\ read' = r /\ wire' = Apdu("cmd", "ok", body)
  /\ UNCHANGED <<doc, ask, chip, result>>

LEMMA EndedStep ==
  ASSUME DocumentInv, Ended
  PROVE  DocumentInv'
<1>1. Session(NoSession)
  BY ZeroOk DEF Session, NoSession
<1>2. Shape'
  BY <1>1 DEF DocumentInv, Shape, Ended, NoRead, NoChip, NoWire, Apdu, Session
<1> QED
  BY <1>2 DEF DocumentInv, Ended, BacInv, PaceInv, SecureInv, InStep, PasswordProved, Secure,
              Asks, Answers, BacOps, PaceOps, SecureOps

LEMMA FailEnds ==
  ASSUME NEW why, Fail(why), UNCHANGED <<doc, ask>>
  PROVE  Ended
BY DEF Fail, Finish, Ended

LEMMA ResultEnds ==
  ASSUME NEW r, passport_build_result_and_finish(r), UNCHANGED <<doc, ask>>
  PROVE  Ended
BY DEF passport_build_result_and_finish, Finish, Ended

LEMMA TransceiveSends ==
  ASSUME NEW r, NEW op, NEW body, Transceive(r, op, body), UNCHANGED <<doc, ask>>
  PROVE  Sends(r, op, body)
BY DEF Transceive, Sends

LEMMA SendShape ==
  ASSUME DocumentInv, NEW r, NEW op \in BacOps \union PaceOps \union SecureOps, NEW body,
         Sends(r, op, body), DOMAIN r = DOMAIN NoRead, Session(r.session)
  PROVE  Shape' /\ wire'.dir = "cmd" /\ wire'.res = "ok" /\ wire'.body = body
BY DEF DocumentInv, Shape, Sends, Apdu, Session, BacOps, PaceOps, SecureOps

\* The calls.
LEMMA ReadPassportStep == DocumentInv /\ nfcd_client_read_passport => DocumentInv'
<1> SUFFICES ASSUME DocumentInv, nfcd_client_read_passport PROVE DocumentInv'
  OBVIOUS
<1> DEFINE keys == bac_mrz_sha1(ask.number, ask.birth, ask.expiry)
           r == [NoRead EXCEPT !.keys = keys]
<1>1. UNCHANGED <<doc, ask>> /\ ~ask.use_pace
  BY DEF nfcd_client_read_passport
<1>2. CASE Fail("typed")
  BY <1>1, <1>2, FailEnds, EndedStep
<1>3. CASE Transceive(r, "select_aid", <<>>)
  <2>1. DOMAIN r = DOMAIN NoRead /\ Session(r.session) /\ r.keys = keys
    BY ZeroOk DEF NoRead, NoSession, Session
  <2> HIDE DEF r
  <2>2. Sends(r, "select_aid", <<>>)
    BY <1>1, <1>3, TransceiveSends
  <2>3. Shape'
    BY <2>1, <2>2, SendShape DEF BacOps
  <2> QED
    BY <1>1, <2>1, <2>2, <2>3
       DEF DocumentInv, Sends, BacInv, PaceInv, SecureInv, InStep, PasswordProved, Secure,
           Asks, Answers, BacOps, PaceOps, SecureOps
<1> QED
  BY <1>2, <1>3 DEF nfcd_client_read_passport

LEMMA ReadPassportPaceStep == DocumentInv /\ nfcd_client_read_passport_pace => DocumentInv'
<1> SUFFICES ASSUME DocumentInv, nfcd_client_read_passport_pace PROVE DocumentInv'
  OBVIOUS
<1>1. UNCHANGED <<doc, ask>> /\ ask.use_pace
  BY DEF nfcd_client_read_passport_pace
<1>2. CASE Fail("typed")
  BY <1>1, <1>2, FailEnds, EndedStep
<1>3. CASE ask.can # -1 /\ Transceive(NoRead, "select_ef_cardaccess", <<>>)
  <2>1. Session(NoRead.session) /\ ask.can \in Points
    BY <1>3, ZeroOk, DocumentOk DEF DocumentInv, NoRead, NoSession, Session
  <2>2. Sends(NoRead, "select_ef_cardaccess", <<>>)
    BY <1>1, <1>3, TransceiveSends
  <2>3. Shape'
    BY <2>1, <2>2, SendShape DEF PaceOps
  <2> QED
    BY <1>1, <2>1, <2>2, <2>3
       DEF DocumentInv, Sends, BacInv, PaceInv, SecureInv, InStep, PasswordProved, Secure,
           Asks, Answers, BacOps, PaceOps, SecureOps
<1> QED
  BY <1>2, <1>3 DEF nfcd_client_read_passport_pace

\* A step from one stage of a handshake to another.
LEMMA HandshakeStep ==
  ASSUME DocumentInv, NEW r, NEW op, NEW body, Sends(r, op, body),
         DOMAIN r = DOMAIN NoRead, Session(r.session),
         \/ /\ stage \in BacOps /\ op = "get_challenge" /\ r.keys = read.keys
         \/ stage \in PaceOps /\ op \in {"ef_cardaccess_rest", "mse_set_at", "get_nonce"}
  PROVE  DocumentInv'
<1>1. Shape' /\ wire'.dir = "cmd" /\ stage' = op /\ read' = r /\ UNCHANGED <<doc, ask, chip>>
  BY SendShape DEF Sends, BacOps, PaceOps
<1>2. BacInv' /\ PaceInv'
  BY <1>1 DEF DocumentInv, BacInv, PaceInv, Asks, Answers, BacOps, PaceOps
<1>3. SecureInv'
  BY <1>1 DEF SecureInv, InStep, PasswordProved, Secure, SecureOps
<1> QED
  BY <1>1, <1>2, <1>3 DEF DocumentInv

LEMMA SelectAidStep == DocumentInv /\ passport_select_aid_ready => DocumentInv'
<1> SUFFICES ASSUME DocumentInv, passport_select_aid_ready PROVE DocumentInv'
  OBVIOUS
<1>1. UNCHANGED <<doc, ask>> /\ stage = "select_aid"
  BY Zenon DEF passport_select_aid_ready, Answered
<1>2. Ended \/ Sends(read, "get_challenge", <<>>)
  BY <1>1, FailEnds, TransceiveSends DEF passport_select_aid_ready, Unless
<1> QED
  BY <1>1, <1>2, EndedStep, HandshakeStep DEF DocumentInv, Shape, BacOps

LEMMA SelectAccessStep == DocumentInv /\ passport_select_ef_cardaccess_ready => DocumentInv'
<1> SUFFICES ASSUME DocumentInv, passport_select_ef_cardaccess_ready PROVE DocumentInv'
  OBVIOUS
<1>1. UNCHANGED <<doc, ask>> /\ stage = "select_ef_cardaccess"
  BY Zenon DEF passport_select_ef_cardaccess_ready, Answered
<1>2. Ended \/ \E body : Sends(read, "ef_cardaccess_rest", body)
  BY <1>1, FailEnds, TransceiveSends DEF passport_select_ef_cardaccess_ready, Unless
<1> QED
  BY <1>1, <1>2, EndedStep, HandshakeStep DEF DocumentInv, Shape, PaceOps

LEMMA AccessRestStep == DocumentInv /\ passport_ef_cardaccess_rest_ready => DocumentInv'
<1> SUFFICES ASSUME DocumentInv, passport_ef_cardaccess_rest_ready PROVE DocumentInv'
  OBVIOUS
<1> DEFINE r == Grown("card_access")
<1>1. UNCHANGED <<doc, ask>> /\ stage = "ef_cardaccess_rest"
  BY Zenon DEF passport_ef_cardaccess_rest_ready, Answered
<1>2. DOMAIN r = DOMAIN NoRead /\ r.session = read.session
  BY DEF Grown, DocumentInv, Shape, NoRead
<1> HIDE DEF r
<1>3. \/ \E why : Fail(why)
      \/ \E body : Transceive(r, "ef_cardaccess_rest", body)
      \/ \E oid : Transceive([r EXCEPT !.oid = oid], "mse_set_at", oid)
  BY Zenon DEF passport_ef_cardaccess_rest_ready, Unless, r
<1>4. \/ Ended
      \/ \E body : Sends(r, "ef_cardaccess_rest", body)
      \/ \E oid : Sends([r EXCEPT !.oid = oid], "mse_set_at", oid)
  BY <1>1, <1>3, FailEnds, TransceiveSends
<1>5. Session(read.session)
  BY DEF DocumentInv, Shape
<1>6. ASSUME NEW oid PROVE LET e == [r EXCEPT !.oid = oid]
                          IN  DOMAIN e = DOMAIN NoRead /\ e.session = read.session
  BY <1>2 DEF NoRead
<1> QED
  BY <1>1, <1>2, <1>4, <1>5, <1>6, EndedStep, HandshakeStep DEF PaceOps

LEMMA SetAtStep == DocumentInv /\ pace_mse_set_at_ready => DocumentInv'
<1> SUFFICES ASSUME DocumentInv, pace_mse_set_at_ready PROVE DocumentInv'
  OBVIOUS
<1>1. UNCHANGED <<doc, ask>> /\ stage = "mse_set_at"
  BY Zenon DEF pace_mse_set_at_ready, Answered
<1>2. Ended \/ Sends(read, "get_nonce", <<>>)
  BY <1>1, FailEnds, TransceiveSends DEF pace_mse_set_at_ready, Unless
<1> QED
  BY <1>1, <1>2, EndedStep, HandshakeStep DEF DocumentInv, Shape, PaceOps

LEMMA GetChallengeStep == DocumentInv /\ passport_get_challenge_ready => DocumentInv'
<1> SUFFICES ASSUME DocumentInv, passport_get_challenge_ready PROVE DocumentInv'
  OBVIOUS
<1>1. UNCHANGED <<doc, ask>> /\ stage = "get_challenge" /\ wire.dir = "resp"
  BY Zenon DEF passport_get_challenge_ready, Answered
<1>2. CASE Lost \/ ~Good
  <2>1. Fail("link") \/ Fail("challenge")
    BY <1>2, Zenon DEF passport_get_challenge_ready, Unless
  <2> QED
    BY <1>1, <2>1, FailEnds, EndedStep
<1>3. CASE ~Lost /\ Good
  <2>1. PICK rnd_ifd \in Challenges, k_ifd \in 0..1 :
          Transceive([read EXCEPT !.rnd_icc = wire.body, !.rnd_ifd = rnd_ifd, !.k_ifd = k_ifd],
                     "mutual_auth",
                     bac_build_mutual_authenticate(read.keys, wire.body, rnd_ifd, k_ifd))
    BY <1>3, Zenon DEF passport_get_challenge_ready, Unless
  <2> DEFINE r == [read EXCEPT !.rnd_icc = wire.body, !.rnd_ifd = rnd_ifd, !.k_ifd = k_ifd]
             body == bac_build_mutual_authenticate(read.keys, wire.body, rnd_ifd, k_ifd)
  <2>2. wire.body \in Challenges
    BY <1>1, <1>3 DEF DocumentInv, BacInv, Answers, Good
  <2>3. /\ DOMAIN r = DOMAIN NoRead /\ r.session = read.session /\ r.keys = read.keys
        /\ r.rnd_icc = wire.body /\ r.rnd_ifd = rnd_ifd /\ r.k_ifd = k_ifd
    BY DEF DocumentInv, Shape, NoRead
  <2>4. body = Cryptogram(r.keys, r.rnd_ifd, r.rnd_icc, r.k_ifd)
    BY <2>3 DEF bac_build_mutual_authenticate
  <2> HIDE DEF r, body
  <2>5. Sends(r, "mutual_auth", body)
    BY <1>1, <2>1, TransceiveSends DEF r, body
  <2>6. /\ Shape' /\ wire'.dir = "cmd" /\ wire'.body = body
        /\ stage' = "mutual_auth" /\ read' = r /\ UNCHANGED <<doc, ask, chip>>
    BY <2>3, <2>5, SendShape DEF DocumentInv, Shape, Sends, BacOps
  <2>7. BacInv' /\ PaceInv'
    BY <1>1, <2>2, <2>3, <2>4, <2>6
       DEF DocumentInv, BacInv, PaceInv, Asks, Answers, BacOps, PaceOps
  <2>8. SecureInv'
    BY <2>6 DEF SecureInv, InStep, PasswordProved, Secure, SecureOps
  <2> QED
    BY <2>6, <2>7, <2>8 DEF DocumentInv
<1> QED
  BY <1>2, <1>3

LEMMA GetNonceStep == DocumentInv /\ pace_get_nonce_ready => DocumentInv'
<1> SUFFICES ASSUME DocumentInv, pace_get_nonce_ready PROVE DocumentInv'
  OBVIOUS
<1>1. UNCHANGED <<doc, ask>> /\ stage = "get_nonce" /\ wire.dir = "resp"
  BY Zenon DEF pace_get_nonce_ready, Answered
<1>2. CASE Lost \/ ~Good
  <2>1. Fail("link") \/ Fail("nonce")
    BY <1>2, Zenon DEF pace_get_nonce_ready, Unless
  <2> QED
    BY <1>1, <2>1, FailEnds, EndedStep
<1>3. CASE ~Lost /\ Good
  <2> DEFINE s == pace_process_nonce_response(ask.can, wire.body)
             R(p) == [read EXCEPT !.priv1 = p, !.s = s]
  <2>1. PICK p \in Points : Fail("scalar") \/ Transceive(R(p), "map_nonce", Times(p, 1))
    BY <1>3, Zenon DEF pace_get_nonce_ready, Unless
  <2>2. CASE Fail("scalar")
    BY <1>1, <2>2, FailEnds, EndedStep
  <2>3. CASE Transceive(R(p), "map_nonce", Times(p, 1))
    <3>1. chip.s \in Points /\ wire.body = Sealed(Kpi(doc.can), ZeroIv, chip.s)
      BY <1>1, <1>3 DEF DocumentInv, PaceInv, Answers, Good
    <3>2. s = (chip.s + ask.can - doc.can) % Q
      BY <3>1 DEF pace_process_nonce_response, Sealed, Kpi, Key
    <3>3. /\ DOMAIN R(p) = DOMAIN NoRead /\ R(p).session = read.session
          /\ R(p).priv1 = p /\ R(p).s = s
      BY DEF DocumentInv, Shape, NoRead
    <3> HIDE DEF R, s
    <3>4. Sends(R(p), "map_nonce", Times(p, 1))
      BY <1>1, <2>3, TransceiveSends
    <3>5. /\ Shape' /\ wire'.dir = "cmd" /\ wire'.body = Times(p, 1)
          /\ stage' = "map_nonce" /\ read' = R(p) /\ UNCHANGED <<doc, ask, chip>>
      BY <3>3, <3>4, SendShape DEF DocumentInv, Shape, Sends, PaceOps
    <3>6. BacInv' /\ PaceInv'
      BY <1>1, <3>1, <3>2, <3>3, <3>5
         DEF DocumentInv, BacInv, PaceInv, Asks, Answers, BacOps, PaceOps
    <3>7. SecureInv'
      BY <3>5 DEF SecureInv, InStep, PasswordProved, Secure, SecureOps
    <3> QED
      BY <3>5, <3>6, <3>7 DEF DocumentInv
  <2> QED
    BY <2>1, <2>2, <2>3
<1> QED
  BY <1>2, <1>3

LEMMA MapNonceStep == DocumentInv /\ pace_map_nonce_ready => DocumentInv'
<1> SUFFICES ASSUME DocumentInv, pace_map_nonce_ready PROVE DocumentInv'
  OBVIOUS
<1>1. UNCHANGED <<doc, ask>> /\ stage = "map_nonce" /\ wire.dir = "resp"
  BY Zenon DEF pace_map_nonce_ready, Answered
<1>2. CASE Lost \/ ~Good
  <2>1. Fail("link") \/ Fail("mapping")
    BY <1>2, Zenon DEF pace_map_nonce_ready, Unless
  <2> QED
    BY <1>1, <2>1, FailEnds, EndedStep
<1>3. CASE ~Lost /\ Good
  <2> DEFINE g == pace_process_map_nonce_response(read.s, read.priv1, wire.body)
             R(p) == [read EXCEPT !.gtilde = g, !.priv2 = p, !.my_pub2 = Times(p, g)]
  <2>1. PICK p \in Points :
          \/ Fail("scalar")
          \/ Times(p, g) # 0 /\ Transceive(R(p), "key_agreement", Times(p, g))
    BY <1>3, Zenon DEF pace_map_nonce_ready, Unless
  <2>2. CASE Fail("scalar")
    BY <1>1, <2>2, FailEnds, EndedStep
  <2>3. CASE Times(p, g) # 0 /\ Transceive(R(p), "key_agreement", Times(p, g))
    <3>1. /\ chip.s \in Points /\ read.priv1 \in Points /\ wire.body \in Points
          /\ read.s = (chip.s + ask.can - doc.can) % Q
          /\ chip.gtilde = (chip.s + wire.body * Times(read.priv1, 1)) % Q
          /\ ask.can \in Points /\ doc.can \in Points
      BY <1>1, <1>3, DocumentOk DEF DocumentInv, PaceInv, Answers, Good, PaceOps
    <3>2. g = Generator
      BY <3>1, MappedBy DEF Generator
    <3>3. chip.gtilde \in Points
      <4>a. 1 \in Points
        BY CryptoAssumption DEF Points
      <4>1. Times(read.priv1, 1) \in Points
        BY <3>1, <4>a, TimesType
      <4>2. chip.s + wire.body * Times(read.priv1, 1) \in Int
        BY <3>1, <4>1 DEF Points
      <4> QED
        BY <3>1, <4>2, Remainder
    <3>4. g \in Points
      <4>1. chip.gtilde + ask.can - doc.can \in Int
        BY <3>1, <3>3 DEF Points
      <4> QED
        BY <3>2, <4>1, Remainder DEF Generator
    <3> HIDE DEF g
    <3>5. p # 0
      BY <2>3, <3>4, CryptoAssumption DEF Times, Points
    <3>6. /\ DOMAIN R(p) = DOMAIN NoRead /\ R(p).session = read.session
          /\ R(p).priv2 = p /\ R(p).my_pub2 = Times(p, g)
      BY DEF DocumentInv, Shape, NoRead
    <3> HIDE DEF R
    <3>7. Sends(R(p), "key_agreement", Times(p, g))
      BY <1>1, <2>3, TransceiveSends
    <3>8. /\ Shape' /\ wire'.dir = "cmd" /\ wire'.body = Times(p, g)
          /\ stage' = "key_agreement" /\ read' = R(p) /\ UNCHANGED <<doc, ask, chip>>
      BY <3>6, <3>7, SendShape DEF DocumentInv, Shape, Sends, PaceOps
    <3>9. Generator' = g
      BY <3>2, <3>8 DEF Generator
    <3>10. BacInv' /\ PaceInv'
      BY <1>1, <3>3, <3>5, <3>6, <3>8, <3>9
         DEF DocumentInv, BacInv, PaceInv, Asks, Answers, BacOps, PaceOps
    <3>11. SecureInv'
      BY <3>8 DEF SecureInv, InStep, PasswordProved, Secure, SecureOps
    <3> QED
      BY <3>8, <3>10, <3>11 DEF DocumentInv
  <2> QED
    BY <2>1, <2>2, <2>3
<1> QED
  BY <1>2, <1>3

LEMMA KeyAgreementStep == DocumentInv /\ pace_key_agreement_ready => DocumentInv'
<1> SUFFICES ASSUME DocumentInv, pace_key_agreement_ready PROVE DocumentInv'
  OBVIOUS
<1>1. UNCHANGED <<doc, ask>> /\ stage = "key_agreement" /\ wire.dir = "resp"
  BY Zenon DEF pace_key_agreement_ready, Answered
<1>2. CASE Lost \/ ~Good
  BY <1>1, <1>2, FailEnds, EndedStep DEF pace_key_agreement_ready, Unless
<1>3. CASE ~Lost /\ Good
  <2> DEFINE session == pace_process_key_agreement_response(read.priv2, wire.body)
             r == [read EXCEPT !.session = session]
             body == pace_build_mutual_auth(session, read.oid, wire.body)
  <2>1. Transceive(r, "pace_mutual_auth", body)
    BY <1>3 DEF pace_key_agreement_ready, Unless, Good, Lost
  <2>2. wire.body = chip.pub2 /\ \E k \in Points \ {0} : Chose(k)
    BY <1>1, <1>3 DEF DocumentInv, PaceInv, Answers, Good
  <2>3. /\ Session(session) /\ session.ssc = ZeroSsc
        /\ session.seed = X(Times(read.priv2, chip.pub2))
    BY <2>2, ZeroOk DEF pace_process_key_agreement_response, Session
  <2>4. body = compute_token(session, read.oid, chip.pub2)
    BY <2>2 DEF pace_build_mutual_auth
  <2> HIDE DEF session, body
  <2>5. /\ DOMAIN r = DOMAIN NoRead /\ r.session = session /\ r.oid = read.oid
        /\ r.priv2 = read.priv2 /\ r.my_pub2 = read.my_pub2
    BY DEF DocumentInv, Shape, NoRead
  <2> HIDE DEF r
  <2>6. Sends(r, "pace_mutual_auth", body)
    BY <1>1, <2>1, TransceiveSends
  <2>7. /\ Shape' /\ wire'.dir = "cmd" /\ wire'.body = body
        /\ stage' = "pace_mutual_auth" /\ read' = r /\ UNCHANGED <<doc, ask, chip>>
    BY <2>3, <2>5, <2>6, SendShape DEF Sends, PaceOps
  <2>8. (\E k \in Points \ {0} : Chose(k))'
    BY <2>2, <2>5, <2>7 DEF Chose, Points
  <2>9. BacInv'
    BY <2>7 DEF BacInv, Asks, Answers, BacOps
  <2>10. PaceInv'
    BY <1>1, <2>3, <2>4, <2>5, <2>7, <2>8
       DEF DocumentInv, PaceInv, Asks, Answers, PaceOps, Generator
  <2>11. SecureInv'
    BY <2>7 DEF SecureInv, InStep, PasswordProved, Secure, SecureOps
  <2> QED
    BY <2>7, <2>9, <2>10, <2>11 DEF DocumentInv
<1> QED
  BY <1>2, <1>3

-----------------------------------------------------------------------------
(* Secure messaging.                                                       *)

\* The commands of the read.
IsCommand(cmd) == cmd.ins \in {"select", "read"} /\ cmd.data \in Seq(Nat)

\* A command protected with session s, once its counter has moved on.
Protecting(s, cmd) == Protect(Advanced(s), cmd, Iv(Advanced(s).ssc), Block)

\* A protected command is sent, with session from here on.
SendsSecured(session) ==
  \E r, op, cmd :
    /\ DOMAIN r = DOMAIN NoRead /\ op \in SecureOps /\ IsCommand(cmd)
    /\ Sends([r EXCEPT !.session = Advanced(session)], op, Protecting(session, cmd))

LEMMA ProtectOutcome ==
  ASSUME NEW s, NEW cmd
  PROVE  /\ sm_protect(s, cmd).session = Advanced(s)
         /\ sm_protect(s, cmd).apdu = Protecting(s, cmd)
BY DEF sm_protect, pace_sm_protect, bac_sm_protect, Protecting, Iv, Block

LEMMA SecuredSends ==
  ASSUME NEW r, NEW s, NEW op \in SecureOps, NEW cmd, DOMAIN r = DOMAIN NoRead,
         IsCommand(cmd), UNCHANGED <<doc, ask>>,
         Transceive([r EXCEPT !.session = sm_protect(s, cmd).session], op,
                    sm_protect(s, cmd).apdu)
  PROVE  SendsSecured(s)
BY ProtectOutcome, TransceiveSends DEF SendsSecured

LEMMA Commands ==
  /\ IsCommand(Select(Fid.dg1)) /\ IsCommand(Select(Fid.dg2))
  /\ IsCommand(Command("select", 4, 12, EmrtdAid, -1))
  /\ \A offset, le : IsCommand(Read(offset, le))
BY DEF IsCommand, Select, Read, Command, Fid, EmrtdAid

\* The session after the answer, if it is one.
LEMMA UnwrapOutcome ==
  ASSUME Shape, passport_sm_response_ok.ok
  PROVE  /\ Good /\ DOMAIN passport_sm_response_ok.r = DOMAIN NoRead
         /\ passport_sm_response_ok.r.session = Advanced(read.session)
<1> DEFINE p == sm_unprotect(read.session, wire.body)
<1>1. p.session = Advanced(read.session)
  BY DEF sm_unprotect, pace_sm_unprotect, bac_sm_unprotect, Unprotect
<1> HIDE DEF p
<1>2. CASE Lost
  <2>1. passport_sm_response_ok = Opened("link", read, <<>>)
    BY <1>2 DEF passport_sm_response_ok, Lost, Good
  <2> QED
    BY <2>1 DEF Opened
<1>3. CASE wire.res = "refused"
  BY <1>3 DEF passport_sm_response_ok, Opened, Lost, Good
<1>4. CASE Good
  <2>1. passport_sm_response_ok = Unwrapped(p)
    BY <1>4 DEF passport_sm_response_ok, Lost, Good, p
  <2>2. CASE ~p.ok
    BY <2>1, <2>2 DEF Unwrapped, Opened
  <2>3. CASE p.ok /\ p.sw # Ok
    BY <2>1, <2>3 DEF Unwrapped, Opened
  <2>4. CASE p.ok /\ ~(p.sw # Ok)
    <3>1. Unwrapped(p) = Opened("", [read EXCEPT !.session = p.session], p.plaintext)
      BY <2>4 DEF Unwrapped
    <3> DEFINE e == [read EXCEPT !.session = p.session]
    <3>2. DOMAIN e = DOMAIN NoRead /\ e.session = Advanced(read.session)
      BY <1>1 DEF Shape, NoRead
    <3> HIDE DEF e
    <3>3. Opened("", e, p.plaintext).r = e
      BY DEF Opened
    <3> QED
      BY <1>4, <2>1, <3>1, <3>2, <3>3 DEF e
  <2> QED
    BY <2>2, <2>3, <2>4
<1> QED
  BY <1>2, <1>3, <1>4 DEF Shape, Lost, Good

LEMMA ReadOnOutcome ==
  ASSUME NEW r, NEW f \in {"dg1", "dg2"}, NEW data, DOMAIN r = DOMAIN NoRead
  PROVE  /\ DOMAIN ReadOn(r, f, data).r = DOMAIN NoRead
         /\ ReadOn(r, f, data).r.session = r.session
BY DEF ReadOn, NoRead

\* Two steps of the counter keep it ahead.
LEMMA AdvanceOutcome ==
  ASSUME NEW s, Session(s)
  PROVE  /\ Session(Advanced(s)) /\ Advanced(s).seed = s.seed
         /\ Advanced(s).ssc = Counter(Number(s.ssc) + 1)
BY Increment DEF Session, Advanced

LEMMA ProtectingHeader ==
  ASSUME NEW s, NEW cmd
  PROVE  Protecting(s, cmd).header[1] = cmd.ins
BY DEF Protecting, Protect, Header

\* The first protected command, with the session of the handshake.
LEMMA FirstSecured ==
  ASSUME DocumentInv, NEW s, SendsSecured(s), Session(s),
         chip.sm, s.seed = chip.session.seed, s.ssc = chip.session.ssc,
         IF ask.use_pace THEN CanProved
         ELSE bac_mrz_sha1(ask.number, ask.birth, ask.expiry) = doc.key_text
  PROVE  DocumentInv'
<1>1. PICK r, op, cmd :
        /\ DOMAIN r = DOMAIN NoRead /\ op \in SecureOps /\ IsCommand(cmd)
        /\ Sends([r EXCEPT !.session = Advanced(s)], op, Protecting(s, cmd))
  BY DEF SendsSecured
<1> DEFINE e == [r EXCEPT !.session = Advanced(s)]
<1>2. DOMAIN e = DOMAIN NoRead /\ e.session = Advanced(s)
  BY <1>1 DEF NoRead
<1> HIDE DEF e
<1>3. /\ Session(Advanced(s)) /\ Advanced(s).seed = s.seed
      /\ Advanced(s).ssc = Counter(Number(s.ssc) + 1)
  BY AdvanceOutcome
<1>4. /\ Shape' /\ wire'.dir = "cmd" /\ wire'.res = "ok" /\ wire'.body = Protecting(s, cmd)
      /\ stage' = op /\ read' = e /\ UNCHANGED <<doc, ask, chip>>
  BY <1>1, <1>2, <1>3, SendShape DEF Sends, e
<1>5. BacInv' /\ PaceInv'
  BY <1>1, <1>4 DEF BacInv, PaceInv, Asks, Answers, BacOps, PaceOps, SecureOps
<1>6. InStep'
  BY <1>2, <1>3, <1>4 DEF InStep
<1>7. PasswordProved'
  BY <1>4 DEF PasswordProved, CanProved, Coincidence
<1>8. wire'.body.header[1] \in {"select", "read"}
  BY <1>1, <1>4, ProtectingHeader DEF IsCommand
<1> QED
  BY <1>4, <1>5, <1>6, <1>7, <1>8 DEF DocumentInv, SecureInv

LEMMA MutualAuthStep == DocumentInv /\ passport_mutual_auth_ready => DocumentInv'
<1> SUFFICES ASSUME DocumentInv, passport_mutual_auth_ready PROVE DocumentInv'
  OBVIOUS
<1> DEFINE p == bac_process_mutual_authenticate_response(
                  read.keys, read.rnd_icc, read.rnd_ifd, read.k_ifd, wire.body)
<1>1. UNCHANGED <<doc, ask>> /\ stage = "mutual_auth" /\ wire.dir = "resp"
  BY Zenon DEF passport_mutual_auth_ready, Answered
<1>2. CASE Good /\ Secured(read, p.session, "select_dg1", Select(Fid.dg1), Fail("build"))
  <2>1. Ended \/ SendsSecured(p.session)
    BY <1>1, <1>2, FailEnds, SecuredSends, Commands
       DEF Secured, DocumentInv, Shape, SecureOps
  <2>2. /\ read.keys = doc.key_text /\ chip.sm = TRUE
        /\ chip.session =
             BacSession(read.rnd_icc, read.rnd_ifd, read.k_ifd, wire.body.e.data[3])
        /\ ~ask.use_pace /\ read.keys = bac_mrz_sha1(ask.number, ask.birth, ask.expiry)
    BY <1>1, <1>2 DEF DocumentInv, BacInv, Answers, Good, BacOps
  <2>3. p.session = chip.session
    BY <2>2 DEF bac_process_mutual_authenticate_response
  <2>4. Session(chip.session)
    BY DEF DocumentInv, Shape
  <2> HIDE DEF p
  <2> QED
    BY <2>1, <2>2, <2>3, <2>4, EndedStep, FirstSecured
<1>3. CASE \E why : Fail(why)
  BY <1>1, <1>3, FailEnds, EndedStep
<1> HIDE DEF p
<1> QED
  BY <1>2, <1>3 DEF passport_mutual_auth_ready, Unless, p

LEMMA PaceMutualAuthStep == DocumentInv /\ pace_mutual_auth_ready => DocumentInv'
<1> SUFFICES ASSUME DocumentInv, pace_mutual_auth_ready PROVE DocumentInv'
  OBVIOUS
<1> DEFINE r == [NoRead EXCEPT !.card_access = read.card_access, !.oid = read.oid]
<1>1. UNCHANGED <<doc, ask>> /\ stage = "pace_mutual_auth" /\ wire.dir = "resp"
  BY Zenon DEF pace_mutual_auth_ready, Answered
<1>2. CASE \E why : Fail(why)
  BY <1>1, <1>2, FailEnds, EndedStep
<1>3. CASE /\ Good
           /\ pace_verify_mutual_auth_response(read.session, read.oid, read.my_pub2, wire.body)
           /\ Secured(r, read.session, "pace_select_aid",
                      Command("select", 4, 12, EmrtdAid, -1), Fail("build"))
  <2>1. DOMAIN r = DOMAIN NoRead
    BY DEF NoRead
  <2> HIDE DEF r
  <2>2. Ended \/ SendsSecured(read.session)
    BY <1>1, <1>3, <2>1, FailEnds, SecuredSends, Commands DEF Secured, SecureOps
  <2>3. wire.body # NoToken
    BY <1>3 DEF pace_verify_mutual_auth_response, compute_token, ks_mac, NoToken, Mac, Key
  <2>4. /\ chip.sm = TRUE /\ CanProved /\ ask.use_pace
        /\ chip.session.seed = read.session.seed /\ chip.session.ssc = read.session.ssc
    BY <1>1, <1>3, <2>3 DEF DocumentInv, PaceInv, Answers, Good, PaceOps
  <2>5. Session(read.session)
    BY DEF DocumentInv, Shape
  <2> QED
    BY <2>2, <2>4, <2>5, EndedStep, FirstSecured
<1> HIDE DEF r
<1> QED
  BY <1>2, <1>3 DEF pace_mutual_auth_ready, Unless, r

\* Under secure messaging: the end, or the next command after a good answer.
SecureOutcome == Ended \/ (Good /\ SendsSecured(Advanced(read.session)))

LEMMA SecureStep ==
  ASSUME DocumentInv, Secure, wire.dir = "resp", SecureOutcome
  PROVE  DocumentInv'
<1>1. CASE Ended
  BY <1>1, EndedStep
<1>2. CASE Good /\ SendsSecured(Advanced(read.session))
  <2>1. /\ chip.sm /\ read.session.seed = chip.session.seed
        /\ chip.session.ssc = Counter(Number(read.session.ssc) + 1)
    BY <1>2 DEF DocumentInv, SecureInv, InStep, Good
  <2>2. /\ Session(Advanced(read.session))
        /\ Advanced(read.session).seed = chip.session.seed
        /\ Advanced(read.session).ssc = chip.session.ssc
    BY <2>1, AdvanceOutcome DEF DocumentInv, Shape
  <2>3. IF ask.use_pace THEN CanProved
        ELSE bac_mrz_sha1(ask.number, ask.birth, ask.expiry) = doc.key_text
    BY DEF DocumentInv, SecureInv, PasswordProved, CanProved
  <2> QED
    BY <1>2, <2>1, <2>2, <2>3, FirstSecured
<1> QED
  BY <1>1, <1>2 DEF SecureOutcome

\* One lemma for each callback.
LEMMA PaceSelectAidOutcome ==
  ASSUME Shape, pace_select_aid_ready
  PROVE  Secure /\ wire.dir = "resp" /\ SecureOutcome
<1> DEFINE u == passport_sm_response_ok
<1>1. UNCHANGED <<doc, ask>> /\ stage = "pace_select_aid" /\ wire.dir = "resp"
  BY Zenon DEF pace_select_aid_ready, Answered
<1>2. CASE ~u.ok
  BY <1>1, <1>2, FailEnds DEF pace_select_aid_ready, SecureOutcome, Secure, SecureOps
<1>3. CASE u.ok
  <2>1. /\ Good /\ DOMAIN u.r = DOMAIN NoRead
        /\ u.r.session = Advanced(read.session)
    BY <1>3, UnwrapOutcome
  <2>2. Secured(u.r, u.r.session, "select_dg1", Select(Fid.dg1), Fail("build"))
    BY <1>3, Zenon DEF pace_select_aid_ready
  <2> HIDE DEF u
  <2>3. Ended \/ SendsSecured(u.r.session)
    BY <1>1, <2>1, <2>2, FailEnds, SecuredSends, Commands DEF Secured, SecureOps
  <2> QED
    BY <1>1, <2>1, <2>3 DEF SecureOutcome, Secure, SecureOps
<1> QED
  BY <1>2, <1>3

LEMMA SelectDg1Outcome ==
  ASSUME Shape, passport_select_dg1_ready
  PROVE  Secure /\ wire.dir = "resp" /\ SecureOutcome
<1> DEFINE u == passport_sm_response_ok
<1>1. UNCHANGED <<doc, ask>> /\ stage = "select_dg1" /\ wire.dir = "resp"
  BY Zenon DEF passport_select_dg1_ready, Answered
<1>2. CASE ~u.ok
  BY <1>1, <1>2, FailEnds DEF passport_select_dg1_ready, SecureOutcome, Secure, SecureOps
<1>3. CASE u.ok
  <2> DEFINE r == [u.r EXCEPT !.total = 0]
  <2>1. /\ Good /\ DOMAIN u.r = DOMAIN NoRead
        /\ u.r.session = Advanced(read.session)
    BY <1>3, UnwrapOutcome
  <2>2. Secured(r, u.r.session, "dg1_rest", Read(0, FirstLe), Fail("build"))
    BY <1>3, Zenon DEF passport_select_dg1_ready
  <2> HIDE DEF u
  <2>3. DOMAIN r = DOMAIN NoRead
    BY <2>1 DEF NoRead
  <2> HIDE DEF r
  <2>4. Ended \/ SendsSecured(u.r.session)
    BY <1>1, <2>2, <2>3, FailEnds, SecuredSends, Commands DEF Secured, SecureOps
  <2> QED
    BY <1>1, <2>1, <2>4 DEF SecureOutcome, Secure, SecureOps
<1> QED
  BY <1>2, <1>3

LEMMA SelectDg2Outcome ==
  ASSUME Shape, passport_select_dg2_ready
  PROVE  Secure /\ wire.dir = "resp" /\ SecureOutcome
<1> DEFINE u == passport_sm_response_ok
<1>1. UNCHANGED <<doc, ask>> /\ stage = "select_dg2" /\ wire.dir = "resp"
  BY Zenon DEF passport_select_dg2_ready, Answered
<1>2. CASE ~u.ok
  BY <1>1, <1>2, ResultEnds DEF passport_select_dg2_ready, SecureOutcome, Secure, SecureOps
<1>3. CASE u.ok
  <2> DEFINE r == [u.r EXCEPT !.total = 0]
  <2>1. /\ Good /\ DOMAIN u.r = DOMAIN NoRead
        /\ u.r.session = Advanced(read.session)
    BY <1>3, UnwrapOutcome
  <2>2. Secured(r, u.r.session, "dg2_rest", Read(0, FirstLe),
                passport_build_result_and_finish(u.r))
    BY <1>3, Zenon DEF passport_select_dg2_ready
  <2> HIDE DEF u
  <2>3. DOMAIN r = DOMAIN NoRead
    BY <2>1 DEF NoRead
  <2> HIDE DEF r
  <2>4. Ended \/ SendsSecured(u.r.session)
    BY <1>1, <2>2, <2>3, ResultEnds, SecuredSends, Commands DEF Secured, SecureOps
  <2> QED
    BY <1>1, <2>1, <2>4 DEF SecureOutcome, Secure, SecureOps
<1> QED
  BY <1>2, <1>3

LEMMA Dg1RestOutcome ==
  ASSUME Shape, passport_dg1_rest_ready
  PROVE  Secure /\ wire.dir = "resp" /\ SecureOutcome
<1> DEFINE u == passport_sm_response_ok
           on == ReadOn(u.r, "dg1", u.data)
<1>1. UNCHANGED <<doc, ask>> /\ stage = "dg1_rest" /\ wire.dir = "resp"
  BY Zenon DEF passport_dg1_rest_ready, Answered
<1>2. \/ \E why : Fail(why)
      \/ u.ok /\ ReadMore(on.r, "dg1", "dg1_rest", Fail("build"))
      \/ u.ok /\ passport_select_dg2_start(on.r)
  BY Zenon DEF passport_dg1_rest_ready
<1>3. CASE \E why : Fail(why)
  BY <1>1, <1>3, FailEnds DEF SecureOutcome, Secure, SecureOps
<1>4. ASSUME u.ok
      PROVE  /\ Good /\ DOMAIN on.r = DOMAIN NoRead
             /\ on.r.session = Advanced(read.session)
  <2>1. /\ Good /\ DOMAIN u.r = DOMAIN NoRead
        /\ u.r.session = Advanced(read.session)
    BY <1>4, UnwrapOutcome
  <2> HIDE DEF u
  <2> QED
    BY <2>1, ReadOnOutcome
<1> HIDE DEF u, on
<1>5. CASE u.ok /\ ReadMore(on.r, "dg1", "dg1_rest", Fail("build"))
  <2>1. Ended \/ SendsSecured(on.r.session)
    BY <1>1, <1>4, <1>5, FailEnds, SecuredSends, Commands DEF ReadMore, Secured, SecureOps
  <2> QED
    BY <1>1, <1>4, <1>5, <2>1 DEF SecureOutcome, Secure, SecureOps
<1>6. CASE u.ok /\ passport_select_dg2_start(on.r)
  <2>1. Ended \/ SendsSecured(on.r.session)
    BY <1>1, <1>4, <1>6, FailEnds, ResultEnds, SecuredSends, Commands
       DEF passport_select_dg2_start, Secured, SecureOps
  <2> QED
    BY <1>1, <1>4, <1>6, <2>1 DEF SecureOutcome, Secure, SecureOps
<1> QED
  BY <1>2, <1>3, <1>5, <1>6

LEMMA Dg2RestOutcome ==
  ASSUME Shape, passport_dg2_rest_ready
  PROVE  Secure /\ wire.dir = "resp" /\ SecureOutcome
<1> DEFINE u == passport_sm_response_ok
           on == ReadOn(u.r, "dg2", u.data)
<1>1. UNCHANGED <<doc, ask>> /\ stage = "dg2_rest" /\ wire.dir = "resp"
  BY Zenon DEF passport_dg2_rest_ready, Answered
<1>2. \/ u.ok /\ ReadMore(on.r, "dg2", "dg2_rest", passport_build_result_and_finish(on.r))
      \/ \E r : passport_build_result_and_finish(r)
  BY Zenon DEF passport_dg2_rest_ready
<1>3. CASE \E r : passport_build_result_and_finish(r)
  BY <1>1, <1>3, ResultEnds DEF SecureOutcome, Secure, SecureOps
<1>4. ASSUME u.ok
      PROVE  /\ Good /\ DOMAIN on.r = DOMAIN NoRead
             /\ on.r.session = Advanced(read.session)
  <2>1. /\ Good /\ DOMAIN u.r = DOMAIN NoRead
        /\ u.r.session = Advanced(read.session)
    BY <1>4, UnwrapOutcome
  <2> HIDE DEF u
  <2> QED
    BY <2>1, ReadOnOutcome
<1> HIDE DEF u, on
<1>5. CASE u.ok /\ ReadMore(on.r, "dg2", "dg2_rest", passport_build_result_and_finish(on.r))
  <2>1. Ended \/ SendsSecured(on.r.session)
    BY <1>1, <1>4, <1>5, ResultEnds, SecuredSends, Commands DEF ReadMore, Secured, SecureOps
  <2> QED
    BY <1>1, <1>4, <1>5, <2>1 DEF SecureOutcome, Secure, SecureOps
<1> QED
  BY <1>2, <1>3, <1>5

LEMMA TerminalStep == DocumentInv /\ Terminal => DocumentInv'
<1> SUFFICES ASSUME DocumentInv, Terminal PROVE DocumentInv'
  OBVIOUS
<1>1. CASE \/ pace_select_aid_ready \/ passport_select_dg1_ready \/ passport_dg1_rest_ready
           \/ passport_select_dg2_ready \/ passport_dg2_rest_ready
  BY <1>1, PaceSelectAidOutcome, SelectDg1Outcome, Dg1RestOutcome, SelectDg2Outcome,
     Dg2RestOutcome, SecureStep DEF DocumentInv
<1> QED
  BY <1>1, ReadPassportStep, ReadPassportPaceStep, SelectAidStep, GetChallengeStep,
     MutualAuthStep, SelectAccessStep, AccessRestStep, SetAtStep, GetNonceStep, MapNonceStep,
     KeyAgreementStep, PaceMutualAuthStep DEF Terminal

LEMMA DocumentStep == DocumentInv /\ [Next]_vars => DocumentInv'
<1>1. DocumentInv /\ UNCHANGED vars => DocumentInv'
  BY DEF vars, DocumentInv, Shape, BacInv, PaceInv, SecureInv, InStep, PasswordProved, Secure,
         Asks, Answers, Generator, Chose, CanProved, Coincidence, Session
<1> QED
  BY <1>1, ChipStep, LinkStep, TerminalStep DEF Next

(***************************************************************************)
(* The inductive invariant of a read: what each side of a handshake has of *)
(* the other's numbers, and then InStep and PasswordProved.                *)
(***************************************************************************)
THEOREM DocumentInvariant == Spec => []DocumentInv
BY InitDocument, DocumentStep, PTL DEF Spec

(***************************************************************************)
(* For counters of any base, challenges and documents: the terminal's      *)
(* counter, incremented byte by byte (ssc_increment), and the chip's,      *)
(* which is a number, never part, nor do the session keys.                 *)
(***************************************************************************)
THEOREM CountersInStep == Spec => []InStep
<1>1. DocumentInv => InStep
  BY DEF DocumentInv, SecureInv
<1> QED
  BY <1>1, DocumentInvariant, PTL

(***************************************************************************)
(* For a curve of any prime order: no document is read under secure        *)
(* messaging with another password than its own, except with the CAN that  *)
(* makes of s G + H its negative (pace_process_map_nonce_response).        *)
(***************************************************************************)
THEOREM PasswordIsProved == Spec => []PasswordProved
<1>1. DocumentInv => PasswordProved
  BY DEF DocumentInv, SecureInv
<1> QED
  BY <1>1, DocumentInvariant, PTL

-----------------------------------------------------------------------------
(* What is said under secure messaging, and what comes of it.              *)

\* The read is of a document as issuers make them, and the call as it says.
Regular == Issued(doc) /\ Entered(doc, ask)

Aid == Command("select", 4, 12, EmrtdAid, -1)

\* What the next READ BINARY of a data group asks for.
NextLe(f) == IF read.total = 0 THEN FirstLe ELSE Min({read.total - Len(read[f]), Chunk})

CommandFor(op) ==
  CASE op = "pace_select_aid" -> Aid
    [] op = "select_dg1" -> Select(Fid.dg1)
    [] op = "select_dg2" -> Select(Fid.dg2)
    [] op = "dg1_rest" -> Read(Len(read.dg1), NextLe("dg1"))
    [] op = "dg2_rest" -> Read(Len(read.dg2), NextLe("dg2"))

\* An answer of the chip, once its counter has moved on.
Reply(data, sw) ==
  LET do87 == IF data = <<>> THEN <<>>
              ELSE <<Sealed(Key(chip.session.seed, 1), Iv(chip.session.ssc),
                            iso_pad(data, Block))>>
  IN  [do87 |-> do87, do99 |-> sw, sw |-> sw,
       do8e |-> Mac(Key(chip.session.seed, 2), <<chip.session.ssc, do87, sw>>)]

FileOfOp(op) == IF op = "dg1_rest" THEN "dg1" ELSE "dg2"

DataFor(op) ==
  IF op \in {"dg1_rest", "dg2_rest"}
    THEN Slice(doc[FileOfOp(op)], Len(read[FileOfOp(op)]), NextLe(FileOfOp(op)))
    ELSE <<>>

SwFor(op) ==
  IF \/ op = "select_dg2" /\ doc.dg2 = NoBytes
     \/ op = "pace_select_aid" /\ op \in doc.refuses
    THEN NotFound ELSE Ok

\* Every protected command is the one its stage is about, every answer the one
\* to it, and none of them unprotected.
MessageInv ==
  Secure =>
    /\ wire.dir = "cmd" =>
         wire.body = Protect(read.session, CommandFor(stage), Iv(read.session.ssc), Block)
    /\ wire.res # "refused"
    /\ wire.dir = "resp" /\ wire.res = "ok" => wire.body = Reply(DataFor(stage), SwFor(stage))

\* The data groups as far as they have been read.
Reading(f) ==
  \/ read.total = 0 /\ read[f] = <<>>
  \/ /\ read.total = FileLength(doc, f)
     /\ \E n \in FirstLe..(FileLength(doc, f) - 1) : read[f] = Slice(doc[f], 0, n)

FileInv ==
  /\ stage \in {"pace_select_aid", "select_dg1"} => read.dg1 = <<>> /\ read.dg2 = <<>>
  /\ stage = "dg1_rest" => Reading("dg1") /\ read.dg2 = <<>>
  /\ stage \in {"select_dg2", "dg2_rest"} =>
       ask.read_photo /\ read.dg1 = Slice(doc.dg1, 0, FileLength(doc, "dg1"))
  /\ stage = "select_dg2" => read.dg2 = <<>>
  /\ stage = "dg2_rest" => Reading("dg2") /\ doc.dg2 # NoBytes
  /\ stage = "dg1_rest" \/ Answers("select_dg1") => chip.file = "dg1"
  /\ stage = "dg2_rest" \/ (Answers("select_dg2") /\ doc.dg2 # NoBytes) => chip.file = "dg2"

\* The handshakes succeed with the right password.
HandshakeInv ==
  /\ stage \in BacOps \union PaceOps =>
       read.dg1 = <<>> /\ read.dg2 = <<>>
  /\ stage = "select_ef_cardaccess" => read.card_access = <<>>
  /\ wire.res = "refused" =>
       /\ stage \in BacOps \union PaceOps
       /\ \/ stage \in doc.refuses
          \/ /\ stage \in {"mutual_auth", "key_agreement", "pace_mutual_auth"}
             /\ ~RightPassword
  /\ Answers("select_ef_cardaccess") => "select_ef_cardaccess" \notin doc.refuses
  /\ stage = "mutual_auth" => read.rnd_icc = chip.rnd_icc
  /\ Answers("mutual_auth") =>
       wire.body = Cryptogram(doc.key_text, read.rnd_icc, read.rnd_ifd, chip.k_icc)
  /\ Asks("mse_set_at") => wire.body = read.oid
  /\ Answers("mse_set_at") \/ stage \in {"get_nonce", "map_nonce", "key_agreement"}
       \/ Asks("pace_mutual_auth") => chip.oid = read.oid
  /\ stage = "key_agreement" => read.my_pub2 # 0
  /\ Answers("key_agreement") \/ Asks("pace_mutual_auth") => chip.peer = read.my_pub2
  /\ Answers("pace_mutual_auth") =>
       \/ ~RightPassword
       \/ wire.body = compute_token(read.session, read.oid, read.my_pub2)

\* EF.CardAccess as far as it has been read.
AccessInv ==
  stage = "ef_cardaccess_rest" =>
    LET n == Len(read.card_access)
        le == IF n = 0 THEN Chunk + 1 ELSE Min({AccessLength(doc) - n, Chunk})
    IN  /\ "select_ef_cardaccess" \notin doc.refuses
        /\ n \in 0..(AccessLength(doc) - 1)
        /\ read.card_access = Slice(doc.access, 0, n)
        /\ n = 0 \/ read.total = AccessLength(doc)
        /\ wire.dir = "cmd" => wire.body = Read(n, le)
        /\ wire.dir = "resp" /\ wire.res = "ok" => wire.body = Slice(doc.access, n, le)

ResultInv ==
  /\ wire.res = "lost" => faulted = TRUE
  /\ stage # "done" => result = NoResult
  /\ ReportsTheDocument /\ ErrorTellsWhy

Parts == MessageInv /\ FileInv /\ HandshakeInv /\ AccessInv /\ ResultInv

ReadInv == Regular => Parts

-----------------------------------------------------------------------------
(* Bytes.                                                                  *)

LEMMA MinPair ==
  ASSUME NEW a \in Int, NEW b \in Int
  PROVE  Min({a, b}) = IF a <= b THEN a ELSE b
BY DEF Min

LEMMA SliceOf ==
  ASSUME NEW s \in Seq(Nat), NEW at \in Nat, NEW n \in Nat, at + n <= Len(s)
  PROVE  /\ Slice(s, at, n) = SubSeq(s, at + 1, at + n)
         /\ Slice(s, at, n) \in Seq(Nat) /\ Len(Slice(s, at, n)) = n
<1>1. Min({at + n, Len(s)}) = at + n
  BY MinPair
<1>2. Slice(s, at, n) = SubSeq(s, at + 1, at + n)
  BY <1>1 DEF Slice
<1> QED
  BY <1>2

LEMMA SameSeq ==
  ASSUME NEW a \in Seq(Nat), NEW b \in Seq(Nat), NEW n \in Nat, Len(a) = n, Len(b) = n,
         \A i \in 1..n : a[i] = b[i]
  PROVE  a = b
OBVIOUS

LEMMA EmptySlice ==
  ASSUME NEW s \in Seq(Nat)
  PROVE  Slice(s, 0, 0) = <<>>
<1>1. 0 + 0 <= Len(s) /\ 0 \in Nat
  OBVIOUS
<1>2. Slice(s, 0, 0) \in Seq(Nat) /\ Len(Slice(s, 0, 0)) = 0
  BY <1>1, SliceOf
<1> QED
  BY <1>2

\* A file read in two goes.
LEMMA SliceJoined ==
  ASSUME NEW s \in Seq(Nat), NEW n \in Nat, NEW le \in Nat, n + le <= Len(s)
  PROVE  Slice(s, 0, n) \o Slice(s, n, le) = Slice(s, 0, n + le)
<1>0. 0 \in Nat /\ 0 + 1 = 1 /\ 0 + n = n /\ 0 + n <= Len(s) /\ Len(s) \in Nat
      /\ n + le \in Nat /\ 0 + (n + le) = n + le /\ 0 + (n + le) <= Len(s)
  OBVIOUS
<1>1. Slice(s, 0, n) = SubSeq(s, 1, n)
  BY <1>0, SliceOf
<1>2. Slice(s, n, le) = SubSeq(s, n + 1, n + le)
  BY <1>0, SliceOf
<1>3. Slice(s, 0, n + le) = SubSeq(s, 1, n + le)
  BY <1>0, SliceOf
<1> DEFINE x == SubSeq(s, 1, n)
           y == SubSeq(s, n + 1, n + le)
           z == SubSeq(s, 1, n + le)
<1>4. x \in Seq(Nat) /\ Len(x) = n /\ \A i \in 1..n : x[i] = s[i]
  OBVIOUS
<1>5. y \in Seq(Nat) /\ Len(y) = le /\ \A i \in 1..le : y[i] = s[n + i]
  OBVIOUS
<1>6. z \in Seq(Nat) /\ Len(z) = n + le /\ \A i \in 1..(n + le) : z[i] = s[i]
  OBVIOUS
<1> HIDE DEF x, y, z
<1>7. x \o y \in Seq(Nat) /\ Len(x \o y) = n + le
  BY <1>4, <1>5
<1>8. ASSUME NEW i \in 1..(n + le) PROVE (x \o y)[i] = s[i]
  <2>1. CASE i <= n
    BY <1>4, <1>5, <2>1
  <2>2. CASE i > n
    <3>1. i - n \in 1..le /\ n + (i - n) = i
      BY <2>2
    <3>2. (x \o y)[i] = y[i - n]
      BY <1>4, <1>5, <2>2
    <3> QED
      BY <1>5, <3>1, <3>2
  <2>3. i <= n \/ i > n
    OBVIOUS
  <2> QED
    BY <2>1, <2>2, <2>3
<1> DEFINE w == x \o y
<1>9. w \in Seq(Nat) /\ Len(w) = n + le /\ \A i \in 1..(n + le) : w[i] = s[i]
  BY <1>7, <1>8
<1> HIDE DEF w
<1>10. \A i \in 1..(n + le) : w[i] = z[i]
  BY <1>6, <1>9
<1>11. w = z
  BY <1>0, <1>6, <1>9, <1>10, SameSeq
<1> QED
  BY <1>1, <1>2, <1>3, <1>11 DEF w, x, y, z

\* iso_pad() of any data: the mark is there, and takes the padding off again.
LEMMA Padding ==
  ASSUME NEW data \in Seq(Nat), NEW block \in {8, 16}
  PROVE  Marked(iso_pad(data, block)) /\ Unpadded(iso_pad(data, block)) = data
<1> DEFINE l == Len(data)
           z == block - 1 - (l % block)
           zeros == [n \in 1..z |-> 0]
           s == iso_pad(data, block)
<1>1. l \in Nat /\ z \in Nat
  BY DEF l
<1>2. zeros \in Seq(Nat) /\ Len(zeros) = z
  BY <1>1
<1>3. s = data \o <<128>> \o zeros
  BY DEF iso_pad
<1> HIDE DEF z, l
<1>a. \A i \in 1..z : zeros[i] = 0
  OBVIOUS
<1> HIDE DEF zeros, s
<1>4. s \in Seq(Nat) /\ Len(s) = l + 1 + z
  BY <1>1, <1>2, <1>3 DEF l
<1>5. \A i \in 1..l : s[i] = data[i]
  BY <1>1, <1>2, <1>3 DEF l
<1>6. s[l + 1] = 128
  BY <1>1, <1>2, <1>3 DEF l
<1>7. \A i \in (l + 2)..Len(s) : s[i] = 0
  <2> SUFFICES ASSUME NEW i \in (l + 2)..Len(s) PROVE s[i] = 0
    OBVIOUS
  <2>1. s[i] = zeros[i - (l + 1)] /\ i - (l + 1) \in 1..z
    BY <1>1, <1>2, <1>3, <1>4 DEF l
  <2> QED
    BY <1>a, <2>1
<1>8. DOMAIN s = 1..Len(s)
  BY <1>4
<1>9. Marked(s)
  <2>1. l + 1 \in DOMAIN s /\ \A n \in DOMAIN s : n > l + 1 => s[n] = 0
    BY <1>1, <1>4, <1>7, <1>8
  <2> QED
    BY <1>6, <2>1 DEF Marked
<1>10. Max({0} \union {n \in DOMAIN s : s[n] # 0}) = l + 1
  <2> DEFINE S == {0} \union {n \in DOMAIN s : s[n] # 0}
  <2>1. l + 1 \in S
    BY <1>1, <1>4, <1>6, <1>8
  <2>2. \A n \in S : n \in Int /\ n <= l + 1
    BY <1>1, <1>4, <1>7, <1>8
  <2> HIDE DEF S
  <2>3. Max(S) = l + 1
    BY <1>1, <2>1, <2>2 DEF Max
  <2> QED
    BY <2>3 DEF S
<1>11. Unpadded(s) = SubSeq(s, 1, l)
  <2>1. Unpadded(s) = SubSeq(s, 1, (l + 1) - 1)
    BY <1>10 DEF Unpadded
  <2> QED
    BY <1>1, <2>1
<1>12. SubSeq(s, 1, l) = data
  <2>1. SubSeq(s, 1, l) \in Seq(Nat) /\ Len(SubSeq(s, 1, l)) = l
    BY <1>1, <1>4
  <2>2. \A i \in 1..l : SubSeq(s, 1, l)[i] = data[i]
    BY <1>1, <1>4, <1>5
  <2> QED
    BY <2>1, <2>2 DEF l
<1> QED
  BY <1>9, <1>11, <1>12 DEF s

LEMMA Quotient ==
  ASSUME NEW n \in Int, NEW d \in Int, NEW r \in Int,
         0 <= r, r <= 255, 0 <= n, n <= 65535, n = 256 * d + r
  PROVE  0 <= d /\ d <= 255
<1>1. 0 <= d
  OBVIOUS
<1>2. d <= 255
  OBVIOUS
<1> QED
  BY <1>1, <1>2

LEMMA OneByte ==
  ASSUME NEW d \in 0..255
  PROVE  d % 256 = d
OBVIOUS

\* The offset of a READ BINARY as the chip finds it in the command.
LEMMA OffsetKept ==
  ASSUME NEW n \in Nat, n <= 65535
  PROVE  ((n \div 256) % 256) * 256 + (n % 256) = n
<1>1. n = 256 * (n \div 256) + (n % 256) /\ n \div 256 \in Int /\ n % 256 \in Int
      /\ 0 <= n % 256 /\ n % 256 <= 255 /\ n \in Int /\ 0 <= n /\ n <= 65535
  OBVIOUS
<1>2. n \div 256 \in 0..255
  BY <1>1, Quotient
<1>3. (n \div 256) % 256 = n \div 256
  BY <1>2, OneByte
<1> QED
  BY <1>1, <1>3

-----------------------------------------------------------------------------
(* What is said under secure messaging is understood.                      *)

BytesOf(data) == IF data = <<>> THEN <<>> ELSE <<data>>

LEMMA BlockIs == Block \in {8, 16}
BY DEF Block

\* The chip reads what the terminal protected.
LEMMA CommandRead ==
  ASSUME DocumentInv, Secure, wire.dir = "cmd", NEW cmd, cmd.data \in Seq(Nat),
         wire.body = Protect(read.session, cmd, Iv(read.session.ssc), Block)
  PROVE  /\ Genuine(wire.body)
         /\ wire.body.header = Header(cmd) /\ wire.body.do97 = cmd.le
         /\ cmd.data = <<>> => wire.body.do87 = <<>>
         /\ cmd.data # <<>> => /\ wire.body.do87 # <<>>
                               /\ Unpadded(wire.body.do87[1].data) = cmd.data
<1> DEFINE sealed == Sealed(ks_enc(read.session), Iv(read.session.ssc),
                            iso_pad(cmd.data, Block))
           do87 == IF cmd.data = <<>> THEN <<>> ELSE <<sealed>>
<1>1. /\ chip.sm /\ read.session.seed = chip.session.seed
      /\ read.session.ssc = ChipSsc
  BY DEF DocumentInv, Shape, SecureInv, InStep, ChipSsc
<1>2. /\ wire.body.header = Header(cmd) /\ wire.body.do97 = cmd.le /\ wire.body.do87 = do87
      /\ wire.body.do8e = Mac(ks_mac(read.session), <<read.session.ssc, Header(cmd), do87, cmd.le>>)
  BY DEF Protect
<1>3. /\ sealed.key = Key(chip.session.seed, 1) /\ sealed.iv = Iv(ChipSsc)
      /\ sealed.data = iso_pad(cmd.data, Block)
  BY <1>1 DEF Sealed, ks_enc
<1>4. Marked(iso_pad(cmd.data, Block)) /\ Unpadded(iso_pad(cmd.data, Block)) = cmd.data
  BY BlockIs, Padding
<1>5. ks_mac(read.session) = Key(chip.session.seed, 2)
  BY <1>1 DEF ks_mac
<1> HIDE DEF sealed
<1>6. ASSUME NEW k \in DOMAIN do87 PROVE do87[k] = sealed
  BY <1>6
<1>7. ASSUME cmd.data # <<>> PROVE do87 # <<>> /\ do87[1] = sealed
  BY <1>7
<1> HIDE DEF do87
<1>8. Genuine(wire.body)
  BY <1>1, <1>2, <1>3, <1>4, <1>5, <1>6 DEF Genuine
<1>9. cmd.data = <<>> => do87 = <<>>
  BY DEF do87
<1> QED
  BY <1>2, <1>3, <1>4, <1>7, <1>8, <1>9

\* The terminal reads what the chip answered.
LEMMA ReplyRead ==
  ASSUME DocumentInv, Secure, wire.dir = "resp", wire.res = "ok",
         NEW data \in Seq(Nat), wire.body = Reply(data, Ok)
  PROVE  passport_sm_response_ok =
           Opened("", [read EXCEPT !.session = Advanced(read.session)], BytesOf(data))
<1> DEFINE s == Advanced(read.session)
           sealed == Sealed(Key(chip.session.seed, 1), Iv(chip.session.ssc),
                            iso_pad(data, Block))
           do87 == IF data = <<>> THEN <<>> ELSE <<sealed>>
           p == Unprotect(s, wire.body, Iv(s.ssc))
<1>1. s.seed = chip.session.seed /\ s.ssc = chip.session.ssc
  BY AdvanceOutcome DEF DocumentInv, Shape, SecureInv, InStep
<1>2. sm_unprotect(read.session, wire.body) = p
  BY DEF sm_unprotect, pace_sm_unprotect, bac_sm_unprotect, Iv
<1>3. /\ wire.body.do87 = do87 /\ wire.body.do99 = Ok /\ wire.body.sw = Ok
      /\ wire.body.do8e = Mac(Key(chip.session.seed, 2), <<chip.session.ssc, do87, Ok>>)
  BY DEF Reply
<1>4. /\ sealed.key = ks_enc(s) /\ sealed.iv = Iv(s.ssc)
      /\ sealed.data = iso_pad(data, Block)
  BY <1>1 DEF Sealed, ks_enc
<1>5. Marked(iso_pad(data, Block)) /\ Unpadded(iso_pad(data, Block)) = data
  BY BlockIs, Padding
<1>6. ks_mac(s) = Key(chip.session.seed, 2)
  BY <1>1 DEF ks_mac
<1>7. TrailerParses(Ok)
  BY DEF TrailerParses, Ok
<1> HIDE DEF s, sealed
<1>8. ASSUME NEW k \in DOMAIN do87 PROVE do87[k] = sealed
  BY <1>8
<1> DEFINE opened == [k \in DOMAIN do87 |-> do87[k].data]
           plain == [k \in DOMAIN opened |-> Unpadded(opened[k])]
<1>9. plain = BytesOf(data)
  <2>1. CASE data = <<>>
    BY <2>1 DEF BytesOf
  <2>2. CASE data # <<>>
    <3>1. do87 = <<sealed>> /\ DOMAIN do87 = 1..1
      BY <2>2
    <3>2. opened = [k \in 1..1 |-> iso_pad(data, Block)]
      BY <1>4, <3>1
    <3>3. plain = [k \in 1..1 |-> data]
      BY <1>5, <3>2
    <3> QED
      BY <2>2, <3>3 DEF BytesOf
  <2> QED
    BY <2>1, <2>2
<1>10. \A k \in DOMAIN do87 : /\ do87[k].key = ks_enc(s) /\ do87[k].iv = Iv(s.ssc)
                              /\ Marked(opened[k])
  BY <1>4, <1>5, <1>8
<1> HIDE DEF do87
<1>11. p.ok /\ p.session = s /\ p.sw = Ok /\ p.plaintext = BytesOf(data)
  <2>1. p.session = s /\ p.sw = Ok
    BY <1>3 DEF Unprotect
  <2>2. p.plaintext = plain
    BY <1>3 DEF Unprotect
  <2>3. p.ok
    BY <1>1, <1>3, <1>6, <1>7, <1>10 DEF Unprotect
  <2> QED
    BY <1>9, <2>1, <2>2, <2>3
<1> HIDE DEF p
<1>12. Unwrapped(p) = Opened("", [read EXCEPT !.session = s], BytesOf(data))
  BY <1>11, Zenon DEF Unwrapped
<1>13. passport_sm_response_ok = Unwrapped(sm_unprotect(read.session, wire.body))
  BY DEF passport_sm_response_ok, Lost, Good
<1> QED
  BY <1>2, <1>12, <1>13 DEF s

\* A file that is not there: a status word that the walk over the answer trips on.
LEMMA NotFoundRead ==
  ASSUME wire.res = "ok", wire.body = Reply(<<>>, NotFound)
  PROVE  passport_sm_response_ok = Opened("integrity", read, <<>>)
<1> DEFINE p == sm_unprotect(read.session, wire.body)
<1>1. wire.body.sw = NotFound
  BY DEF Reply
<1>2. ~TrailerParses(wire.body.sw)
  BY <1>1 DEF TrailerParses, NotFound
<1>3. ~p.ok
  BY <1>2 DEF sm_unprotect, pace_sm_unprotect, bac_sm_unprotect, Unprotect
<1>4. passport_sm_response_ok = Unwrapped(p)
  BY DEF passport_sm_response_ok, Lost, Good
<1> HIDE DEF p
<1> QED
  BY <1>3, <1>4 DEF Unwrapped

-----------------------------------------------------------------------------
(* A file read piece by piece.                                             *)

HasFile(f) == f = "dg1" \/ (f = "dg2" /\ doc.dg2 # NoBytes)

LEMMA FileFacts ==
  ASSUME Issued(doc), NEW f, HasFile(f)
  PROVE  /\ doc[f] \in Seq(Nat)
         /\ FileLength(doc, f) \in FirstLe..Len(doc[f])
         /\ FileLength(doc, f) <= 65536
<1>1. doc[f] \in Seq(Nat) /\ FileLength(doc, f) \in FirstLe..Len(doc[f])
  BY DEF Issued, HasFile
<1>2. MaxLen[f] <= 65536 /\ MaxLen[f] \in Nat
  BY DEF MaxLen, HasFile
<1>3. ASSUME NEW bytes PROVE Total(f, bytes) <= MaxLen[f] \/ Total(f, bytes) = 0
  BY DEF Total
<1>4. FileLength(doc, f) <= MaxLen[f] \/ FileLength(doc, f) = 0
  BY <1>3 DEF FileLength
<1>5. FirstLe \in 1..255 /\ FileLength(doc, f) \in Nat
  BY <1>1, DocumentAssumption
<1> QED
  BY <1>1, <1>2, <1>4, <1>5

\* The next piece of file f.
Piece(f) == Slice(doc[f], Len(read[f]), NextLe(f))

LEMMA PieceFacts ==
  ASSUME Issued(doc), NEW f, HasFile(f), Reading(f)
  PROVE  /\ Len(read[f]) \in Nat /\ Len(read[f]) <= 65535 /\ NextLe(f) \in 1..255
         /\ Len(read[f]) + NextLe(f) \in FirstLe..FileLength(doc, f)
         /\ Piece(f) \in Seq(Nat) /\ Piece(f) # <<>>
         /\ read[f] \o Piece(f) = Slice(doc[f], 0, Len(read[f]) + NextLe(f))
         /\ read.total = 0 => Len(read[f]) + NextLe(f) = FirstLe
         /\ read.total # 0 => read.total = FileLength(doc, f)
<1> DEFINE l == FileLength(doc, f)
           n == Len(read[f])
           le == NextLe(f)
           s == doc[f]
<1>1. /\ s \in Seq(Nat) /\ l \in FirstLe..Len(s) /\ l <= 65536 /\ Len(s) \in Nat
      /\ FirstLe \in 1..255 /\ Chunk \in 1..255 /\ l \in Nat
  <2>1. s \in Seq(Nat) /\ l \in FirstLe..Len(s) /\ l <= 65536
    BY FileFacts
  <2>2. FirstLe \in 1..255 /\ Chunk \in 1..255
    BY DocumentAssumption
  <2> HIDE DEF l, s
  <2> QED
    BY <2>1, <2>2
<1> HIDE DEF l, s
<1>2. /\ n \in Nat /\ n < l /\ read[f] = Slice(s, 0, n)
      /\ IF read.total = 0 THEN n = 0 ELSE n >= FirstLe /\ read.total = l
  <2>1. CASE read.total = 0 /\ read[f] = <<>>
    <3>1. Len(<<>>) = 0 /\ Slice(s, 0, 0) = <<>>
      BY <1>1, EmptySlice
    <3>2. n = 0
      BY <2>1, <3>1
    <3> QED
      BY <1>1, <2>1, <3>1, <3>2
  <2>2. ASSUME read.total = l, NEW m \in FirstLe..(l - 1), read[f] = Slice(s, 0, m)
        PROVE  /\ n \in Nat /\ n < l /\ read[f] = Slice(s, 0, n)
               /\ IF read.total = 0 THEN n = 0 ELSE n >= FirstLe /\ read.total = l
    <3>1. m \in Nat /\ 0 \in Nat /\ 0 + m <= Len(s) /\ m < l /\ m >= FirstLe
      BY <1>1, <2>2
    <3>2. n = m
      BY <1>1, <2>2, <3>1, SliceOf
    <3> QED
      BY <1>1, <2>2, <3>1, <3>2
  <2> QED
    BY <2>1, <2>2 DEF Reading, l, s
<1>a. n \in Nat /\ n < l
  BY <1>2
<1>c. read[f] = Slice(s, 0, n)
  BY <1>2
<1>b. read.total # 0 => read.total = l
  BY <1>2
<1>3. /\ le \in 1..255 /\ n + le \in FirstLe..l
      /\ read.total = 0 => n + le = FirstLe
  <2>1. CASE read.total = 0
    <3>1. le = FirstLe /\ n = 0
      BY <1>2, <2>1 DEF NextLe
    <3> QED
      BY <1>1, <3>1
  <2>2. CASE read.total # 0
    <3>1. /\ n >= FirstLe /\ read.total = l /\ l - n \in Nat /\ l - n >= 1 /\ l - n \in Int
          /\ Chunk \in Int
      BY <1>1, <1>2, <2>2
    <3>2. le = Min({l - n, Chunk})
      BY <2>2, <3>1 DEF NextLe
    <3>3. le = IF l - n <= Chunk THEN l - n ELSE Chunk
      BY <3>1, <3>2, MinPair
    <3> HIDE DEF n, le
    <3>4. CASE l - n <= Chunk
      <4>1. le = l - n
        BY <3>3, <3>4
      <4>2. n + (l - n) = l /\ l - n \in 1..255
        BY <1>1, <1>a, <3>1, <3>4
      <4> QED
        BY <1>1, <2>2, <4>1, <4>2
    <3>5. CASE ~(l - n <= Chunk)
      BY <1>1, <1>2, <2>2, <3>1, <3>3, <3>5
    <3> QED
      BY <3>4, <3>5
  <2> QED
    BY <2>1, <2>2
<1> HIDE DEF n, le
<1>4. n + le <= Len(s) /\ le \in Nat /\ n <= 65535
  BY <1>1, <1>2, <1>3
<1>d. s \in Seq(Nat) /\ n \in Nat
  BY <1>1, <1>a
<1>5. Slice(s, n, le) \in Seq(Nat) /\ Len(Slice(s, n, le)) = le
  BY <1>d, <1>4, SliceOf
<1>6. Slice(s, n, le) # <<>>
  BY <1>3, <1>5
<1>7. Slice(s, 0, n) \o Slice(s, n, le) = Slice(s, 0, n + le)
  BY <1>1, <1>a, <1>4, SliceJoined
<1>8. Piece(f) = Slice(s, n, le)
  BY DEF Piece, n, le, s
<1>9. n \in Nat /\ n <= 65535
  BY <1>a, <1>4
<1>10. read[f] \o Piece(f) = Slice(s, 0, n + le)
  BY <1>c, <1>7, <1>8
<1>11. Piece(f) \in Seq(Nat) /\ Piece(f) # <<>>
  BY <1>5, <1>6, <1>8
<1>12. Len(read[f]) \in Nat /\ Len(read[f]) <= 65535
  BY <1>9 DEF n
<1>15. NextLe(f) \in 1..255 /\ Len(read[f]) + NextLe(f) \in FirstLe..FileLength(doc, f)
  BY <1>3, Zenon DEF n, le, l
<1>13. /\ read.total = 0 => Len(read[f]) + NextLe(f) = FirstLe
       /\ read.total # 0 => read.total = FileLength(doc, f)
  BY <1>3, <1>b, Zenon DEF n, le, l
<1>14. read[f] \o Piece(f) = Slice(doc[f], 0, Len(read[f]) + NextLe(f))
  BY <1>10, Zenon DEF n, le, s
<1> QED
  BY <1>11, <1>12, <1>13, <1>14, <1>15

\* What passport_dg1_rest_ready() and passport_dg2_rest_ready() make of it: r
\* is the read with the session moved on.
LEMMA ReadOnPiece ==
  ASSUME Issued(doc), NEW f, HasFile(f), Reading(f), NEW r, DOMAIN r = DOMAIN NoRead,
         r[f] = read[f], r.total = read.total
  PROVE  LET on == ReadOn(r, f, <<Piece(f)>>)
             m == Len(read[f]) + NextLe(f)
         IN  /\ on.r = [r EXCEPT ![f] = Slice(doc[f], 0, m), !.total = FileLength(doc, f)]
             /\ on.next = IF m = FileLength(doc, f) THEN "whole" ELSE "more"
<1> DEFINE m == Len(read[f]) + NextLe(f)
           l == FileLength(doc, f)
           bytes == r[f] \o Piece(f)
           total == IF r.total = 0 THEN Total(f, bytes) ELSE r.total
<1>1. /\ bytes = Slice(doc[f], 0, m) /\ m \in FirstLe..l
      /\ read.total = 0 => m = FirstLe
      /\ read.total # 0 => read.total = l
  <2>1. bytes = read[f] \o Piece(f)
    OBVIOUS
  <2>2. read[f] \o Piece(f) = Slice(doc[f], 0, Len(read[f]) + NextLe(f))
    BY PieceFacts
  <2>3. Len(read[f]) + NextLe(f) \in FirstLe..FileLength(doc, f)
    BY PieceFacts
  <2>4. read.total = 0 => Len(read[f]) + NextLe(f) = FirstLe
    BY PieceFacts
  <2>5. read.total # 0 => read.total = FileLength(doc, f)
    BY PieceFacts
  <2> HIDE DEF bytes
  <2> QED
    BY <2>1, <2>2, <2>3, <2>4, <2>5
<1>2. /\ doc[f] \in Seq(Nat) /\ l \in FirstLe..Len(doc[f]) /\ FirstLe \in 1..255
      /\ l \in Nat /\ l > 0 /\ Len(doc[f]) \in Nat
  <2>1. doc[f] \in Seq(Nat) /\ l \in FirstLe..Len(doc[f])
    BY FileFacts
  <2>2. FirstLe \in 1..255
    BY DocumentAssumption
  <2> HIDE DEF l
  <2> QED
    BY <2>1, <2>2
<1> HIDE DEF m
<1>3. total = l
  <2>1. CASE read.total = 0
    BY <1>1, <2>1 DEF FileLength
  <2>2. CASE read.total # 0
    BY <1>1, <2>2
  <2> QED
    BY <2>1, <2>2
<1>4. Len(bytes) = m
  <2>1. m \in Nat /\ 0 \in Nat /\ 0 + m <= Len(doc[f])
    BY <1>1, <1>2
  <2> QED
    BY <1>1, <1>2, <2>1, SliceOf
<1> DEFINE d == <<Piece(f)>>
<1>5. d # <<>> /\ d[1] = Piece(f)
  OBVIOUS
<1> HIDE DEF d
<1>6. ReadOn(r, f, d).r = [r EXCEPT ![f] = bytes, !.total = total]
  BY <1>5 DEF ReadOn
<1>7. ReadOn(r, f, d).next = IF total = 0 THEN "structure"
                             ELSE IF total = Len(bytes) THEN "whole" ELSE "more"
  <2>1. CASE total = 0
    BY <1>2, <1>3, <2>1
  <2>2. CASE total > 0 /\ total = Len(bytes)
    BY <1>5, <2>2 DEF ReadOn
  <2>3. CASE total > 0 /\ total # Len(bytes)
    BY <1>5, <2>3 DEF ReadOn
  <2> QED
    BY <1>2, <1>3, <2>1, <2>2, <2>3
<1>8. ReadOn(r, f, d).r = [r EXCEPT ![f] = Slice(doc[f], 0, m), !.total = l]
  BY <1>1, <1>3, <1>6
<1> HIDE DEF bytes, total
<1>9. ReadOn(r, f, d).next = IF m = l THEN "whole" ELSE "more"
  BY <1>2, <1>3, <1>4, <1>7
<1> QED
  BY <1>8, <1>9 DEF m, d

-----------------------------------------------------------------------------
(* The answers.                                                            *)

Handshaking == stage \in BacOps \union PaceOps

LEMMA NoStatus ==
  ASSUME result.status = "none"
  PROVE  ReportsTheDocument /\ ErrorTellsWhy
BY DEF ReportsTheDocument, ErrorTellsWhy

LEMMA InitParts == Init => Parts
<1> SUFFICES ASSUME Init PROVE Parts
  OBVIOUS
<1>1. result = NoResult /\ result.status = "none"
  BY DEF Init, NoResult
<1>2. stage = "idle" /\ wire.dir = "none" /\ wire.res = "ok"
  BY DEF Init, NoWire, Apdu
<1>3. ResultInv
  BY <1>1, <1>2, NoStatus DEF ResultInv
<1>4. MessageInv /\ FileInv /\ HandshakeInv /\ AccessInv
  BY <1>2 DEF MessageInv, FileInv, HandshakeInv, AccessInv, Secure, Asks, Answers, BacOps,
              PaceOps, SecureOps
<1> QED
  BY <1>3, <1>4 DEF Parts

\* No result yet is no wrong result.
LEMMA NoResultYet ==
  ASSUME ResultInv, stage # "done", UNCHANGED result, stage' # "done",
         wire'.res = "lost" => faulted' = TRUE
  PROVE  ResultInv'
<1>1. result' = NoResult
  BY DEF ResultInv
<1>a. NoResult.status = "none"
  BY DEF NoResult
<1>2. result'.status = "none"
  BY <1>1, <1>a
<1>3. (ReportsTheDocument /\ ErrorTellsWhy)'
  BY <1>2 DEF ReportsTheDocument, ErrorTellsWhy
<1> QED
  BY <1>1, <1>3 DEF ResultInv

LEMMA NotDone ==
  ASSUME DocumentInv, wire.dir # "none"
  PROVE  stage # "done" /\ stage # "idle"
BY DEF DocumentInv, Shape

\* During a handshake nothing is protected.
LEMMA PlainParts ==
  ASSUME stage' \in BacOps \union PaceOps
  PROVE  MessageInv' /\ FileInv'
BY DEF MessageInv, FileInv, Secure, Asks, Answers, BacOps, PaceOps, SecureOps

LEMMA SecureParts ==
  ASSUME stage' \in SecureOps, wire'.res # "refused"
  PROVE  HandshakeInv' /\ AccessInv'
BY DEF HandshakeInv, AccessInv, Asks, Answers, BacOps, PaceOps, SecureOps

LEMMA LinkParts == DocumentInv /\ Parts /\ LinkFails => Parts'
<1> SUFFICES ASSUME DocumentInv, Parts, LinkFails PROVE Parts'
  OBVIOUS
<1>1. /\ wire.dir = "cmd" /\ wire'.dir = "resp" /\ wire'.res = "lost" /\ faulted' = TRUE
      /\ UNCHANGED <<doc, ask, stage, read, chip, result>>
  BY DEF LinkFails, Apdu
<1>2. stage # "done" /\ stage' # "done"
  BY <1>1, NotDone
<1>3. ResultInv'
  BY <1>1, <1>2, NoResultYet DEF Parts
<1>4. MessageInv'
  BY <1>1 DEF Parts, MessageInv
<1>5. FileInv'
  BY <1>1 DEF Parts, FileInv, Answers, Reading
<1>6. HandshakeInv'
  BY <1>1 DEF Parts, HandshakeInv, Asks, Answers
<1>7. AccessInv'
  BY <1>1 DEF Parts, AccessInv
<1> QED
  BY <1>3, <1>4, <1>5, <1>6, <1>7 DEF Parts

\* The answer of the chip in a handshake, but for what it is.
LEMMA AnswerParts ==
  ASSUME DocumentInv, Parts, Handshaking, wire.dir = "cmd",
         UNCHANGED <<stage, result, faulted>>, wire'.res # "lost",
         HandshakeInv', AccessInv'
  PROVE  Parts'
<1>1. stage # "done" /\ stage' # "done"
  BY NotDone
<1>2. ResultInv'
  BY <1>1, NoResultYet DEF Parts
<1>3. MessageInv' /\ FileInv'
  BY PlainParts DEF Handshaking
<1> QED
  BY <1>2, <1>3 DEF Parts

\* What is the same after an answer.
LEMMA ChipSaysFacts ==
  ASSUME NEW c, NEW body, ChipSays(c, body)
  PROVE  /\ chip' = c /\ wire'.dir = "resp" /\ wire'.res = "ok" /\ wire'.body = body
         /\ UNCHANGED <<doc, ask, stage, read, faulted, result>>
BY DEF ChipSays, Apdu

LEMMA ChipRejectsFacts ==
  ASSUME ChipRejects
  PROVE  /\ wire'.dir = "resp" /\ wire'.res = "refused"
         /\ UNCHANGED <<doc, ask, stage, read, chip, faulted, result>>
BY DEF ChipRejects, Apdu

LEMMA ChipSelectsParts == DocumentInv /\ Parts /\ ChipSelects => Parts'
<1> SUFFICES ASSUME DocumentInv, Parts, ChipSelects PROVE Parts'
  OBVIOUS
<1>1. /\ stage \in {"select_aid", "select_ef_cardaccess"} /\ wire.dir = "cmd"
      /\ stage \notin doc.refuses /\ ChipSays(chip, <<>>)
  BY DEF ChipSelects, ChipHears
<1>2. /\ chip' = chip /\ wire'.dir = "resp" /\ wire'.res = "ok"
      /\ UNCHANGED <<doc, ask, stage, read, faulted, result>>
  BY <1>1, ChipSaysFacts
<1>3. HandshakeInv' /\ AccessInv'
  BY <1>1, <1>2 DEF Parts, HandshakeInv, AccessInv, Asks, Answers
<1> QED
  BY <1>1, <1>2, <1>3, AnswerParts DEF Handshaking, BacOps, PaceOps

LEMMA ChipChallengesParts == DocumentInv /\ Parts /\ ChipChallenges => Parts'
<1> SUFFICES ASSUME DocumentInv, Parts, ChipChallenges PROVE Parts'
  OBVIOUS
<1>1. stage = "get_challenge" /\ wire.dir = "cmd"
  BY DEF ChipChallenges, ChipHears
<1>2. PICK c, body : ChipSays(c, body)
  BY DEF ChipChallenges
<1>3. /\ wire'.dir = "resp" /\ wire'.res = "ok"
      /\ UNCHANGED <<doc, ask, stage, read, faulted, result>>
  BY <1>2, ChipSaysFacts
<1>4. HandshakeInv' /\ AccessInv'
  BY <1>1, <1>3 DEF Parts, HandshakeInv, AccessInv, Asks, Answers
<1> QED
  BY <1>1, <1>3, <1>4, AnswerParts DEF Handshaking, BacOps

LEMMA ChipAuthenticatesParts ==
  ASSUME DocumentInv, Parts, Regular, ChipAuthenticates
  PROVE  Parts'
<1> DEFINE q == wire.body
           s == q.e.data
           own == doc.key_text
           fits == q.m = Mac(kmac(own), q.e) /\ q.e.key = kenc(own) /\ s[2] = chip.rnd_icc
<1>1. stage = "mutual_auth" /\ wire.dir = "cmd"
  BY DEF ChipAuthenticates, ChipHears
<1>2. q = Cryptogram(read.keys, read.rnd_ifd, read.rnd_icc, read.k_ifd)
  BY <1>1 DEF DocumentInv, BacInv, Asks
<1>3. /\ s = <<read.rnd_ifd, read.rnd_icc, read.k_ifd>>
      /\ q.e.key = kenc(read.keys) /\ q.m = Mac(kmac(read.keys), q.e)
  BY <1>2 DEF Cryptogram, Sealed
<1>4. read.rnd_icc = chip.rnd_icc /\ read.dg1 = <<>> /\ read.dg2 = <<>>
  BY <1>1 DEF Parts, HandshakeInv, BacOps
<1>5. /\ ~ask.use_pace /\ read.keys = bac_mrz_sha1(ask.number, ask.birth, ask.expiry)
  BY <1>1 DEF DocumentInv, BacInv, BacOps
<1>6. CASE ~fits
  <2>1. ChipRejects
    BY <1>6 DEF ChipAuthenticates
  <2>2. /\ wire'.dir = "resp" /\ wire'.res = "refused"
        /\ UNCHANGED <<doc, ask, stage, read, chip, faulted, result>>
    BY <2>1, ChipRejectsFacts
  <2>3. read.keys # own
    BY <1>3, <1>4, <1>6
  <2>4. ~RightPassword /\ ~RightPassword'
    BY <1>5, <2>2, <2>3 DEF RightPassword, Regular, Entered
  <2>5. HandshakeInv' /\ AccessInv'
    BY <1>1, <1>4, <2>2, <2>4 DEF HandshakeInv, AccessInv, Asks, Answers,
        BacOps, PaceOps
  <2> QED
    BY <1>1, <2>2, <2>5, AnswerParts DEF Handshaking, BacOps
<1>7. CASE fits
  <2> DEFINE c == [chip EXCEPT !.sm = TRUE,
                     !.session = [seed |-> (s[3] + chip.k_icc) % 2,
                                  ssc |-> <<chip.rnd_icc[2], s[1][2]>>]]
  <2>1. ChipSays(c, Cryptogram(own, chip.rnd_icc, s[1], chip.k_icc))
    BY <1>7 DEF ChipAuthenticates
  <2>2. c.rnd_icc = chip.rnd_icc /\ c.k_icc = chip.k_icc
    BY DEF DocumentInv, Shape, NoChip
  <2> HIDE DEF c
  <2>3. s[1] = read.rnd_ifd
    BY <1>3
  <2>4. /\ wire'.dir = "resp" /\ wire'.res = "ok" /\ chip' = c
        /\ wire'.body = Cryptogram(own, chip.rnd_icc, s[1], chip.k_icc)
        /\ UNCHANGED <<doc, ask, stage, read, faulted, result>>
    BY <2>1, ChipSaysFacts
  <2>5. HandshakeInv' /\ AccessInv'
    BY <1>1, <1>4, <2>2, <2>3, <2>4 DEF HandshakeInv, AccessInv, Asks, Answers
  <2> QED
    BY <1>1, <2>4, <2>5, AnswerParts DEF Handshaking, BacOps
<1> QED
  BY <1>6, <1>7

LEMMA ReadCommand ==
  ASSUME NEW n \in Nat, n <= 65535, NEW le
  PROVE  /\ Read(n, le).p1 * 256 + Read(n, le).p2 = n
         /\ Read(n, le).le = le /\ Read(n, le).data = <<>> /\ Read(n, le).ins = "read"
<1>1. /\ Read(n, le).p1 = (n \div 256) % 256 /\ Read(n, le).p2 = n % 256
      /\ Read(n, le).le = le /\ Read(n, le).data = <<>> /\ Read(n, le).ins = "read"
  BY DEF Read, Command
<1>2. ((n \div 256) % 256) * 256 + (n % 256) = n
  BY OffsetKept
<1> QED
  BY <1>1, <1>2

LEMMA AccessFacts ==
  ASSUME Issued(doc), "select_ef_cardaccess" \notin doc.refuses
  PROVE  /\ doc.access \in Seq(Nat)
         /\ AccessLength(doc) \in 1..Len(doc.access) /\ AccessLength(doc) <= 2048
<1>1. doc.access \in Seq(Nat) /\ AccessLength(doc) \in 1..Len(doc.access)
  BY DEF Issued
<1>2. ASSUME NEW bytes PROVE Total("card_access", bytes) <= 2048 \/ Total("card_access", bytes) = 0
  BY DEF Total, MaxLen
<1>3. AccessLength(doc) <= 2048 \/ AccessLength(doc) = 0
  BY <1>2 DEF AccessLength
<1> QED
  BY <1>1, <1>3

LEMMA ChipReadsAccessParts ==
  ASSUME DocumentInv, Parts, Regular, ChipReadsAccess
  PROVE  Parts'
<1> DEFINE n == Len(read.card_access)
           le == IF n = 0 THEN Chunk + 1 ELSE Min({AccessLength(doc) - n, Chunk})
<1>1. stage = "ef_cardaccess_rest" /\ wire.dir = "cmd"
  BY DEF ChipReadsAccess, ChipHears
<1>2. ChipSays(chip, ReadBinary("access", wire.body))
  BY DEF ChipReadsAccess
<1>3. /\ wire'.dir = "resp" /\ wire'.res = "ok" /\ wire'.body = ReadBinary("access", wire.body)
      /\ UNCHANGED <<doc, ask, stage, read, faulted, result>>
  BY <1>2, ChipSaysFacts
<1>4. /\ n \in 0..(AccessLength(doc) - 1) /\ read.card_access = Slice(doc.access, 0, n)
      /\ n = 0 \/ read.total = AccessLength(doc)
      /\ wire.body = Read(n, le) /\ "select_ef_cardaccess" \notin doc.refuses
  BY <1>1 DEF Parts, AccessInv
<1>5. AccessLength(doc) \in Nat /\ AccessLength(doc) <= 2048
  BY <1>4, AccessFacts DEF Regular
<1> HIDE DEF n, le
<1>6. n \in Nat /\ n <= 65535
  BY <1>4, <1>5
<1>7. wire.body.p1 * 256 + wire.body.p2 = n /\ wire.body.le = le
  BY <1>4, <1>6, ReadCommand
<1>8. wire'.body = Slice(doc.access, n, le)
  BY <1>3, <1>7 DEF ReadBinary
<1>9. AccessInv'
  BY <1>1, <1>3, <1>4, <1>8 DEF AccessInv, n, le
<1>10. HandshakeInv'
  BY <1>1, <1>3 DEF Parts, HandshakeInv, Asks, Answers
<1> QED
  BY <1>1, <1>3, <1>9, <1>10, AnswerParts DEF Handshaking, PaceOps

LEMMA ChipSetsPaceParts == DocumentInv /\ Parts /\ ChipSetsPace => Parts'
<1> SUFFICES ASSUME DocumentInv, Parts, ChipSetsPace PROVE Parts'
  OBVIOUS
<1>1. /\ stage = "mse_set_at" /\ wire.dir = "cmd"
      /\ ChipSays([chip EXCEPT !.oid = wire.body], <<>>)
  BY DEF ChipSetsPace, ChipHears
<1>2. /\ wire'.dir = "resp" /\ wire'.res = "ok" /\ chip' = [chip EXCEPT !.oid = wire.body]
      /\ UNCHANGED <<doc, ask, stage, read, faulted, result>>
  BY <1>1, ChipSaysFacts
<1>3. chip'.oid = read.oid
  BY <1>1, <1>2 DEF DocumentInv, Shape, NoChip, Parts, HandshakeInv, Asks
<1>4. HandshakeInv' /\ AccessInv'
  BY <1>1, <1>2, <1>3 DEF Parts, HandshakeInv, AccessInv, Asks, Answers
<1> QED
  BY <1>1, <1>2, <1>4, AnswerParts DEF Handshaking, PaceOps

LEMMA ChipNonceParts == DocumentInv /\ Parts /\ ChipNonce => Parts'
<1> SUFFICES ASSUME DocumentInv, Parts, ChipNonce PROVE Parts'
  OBVIOUS
<1>1. stage = "get_nonce" /\ wire.dir = "cmd"
  BY DEF ChipNonce, ChipHears
<1>2. PICK s, body : ChipSays([chip EXCEPT !.s = s], body)
  BY DEF ChipNonce
<1>3. /\ wire'.dir = "resp" /\ wire'.res = "ok" /\ chip' = [chip EXCEPT !.s = s]
      /\ UNCHANGED <<doc, ask, stage, read, faulted, result>>
  BY <1>2, ChipSaysFacts
<1>4. chip'.oid = chip.oid
  BY <1>3 DEF DocumentInv, Shape, NoChip
<1>5. HandshakeInv' /\ AccessInv'
  BY <1>1, <1>3, <1>4 DEF Parts, HandshakeInv, AccessInv, Asks, Answers
<1> QED
  BY <1>1, <1>3, <1>5, AnswerParts DEF Handshaking, PaceOps

LEMMA ChipMapsParts == DocumentInv /\ Parts /\ ChipMaps => Parts'
<1> SUFFICES ASSUME DocumentInv, Parts, ChipMaps PROVE Parts'
  OBVIOUS
<1>1. stage = "map_nonce" /\ wire.dir = "cmd"
  BY DEF ChipMaps, ChipHears
<1>2. PICK g, body : ChipSays([chip EXCEPT !.gtilde = g], body)
  BY DEF ChipMaps
<1>3. /\ wire'.dir = "resp" /\ wire'.res = "ok" /\ chip' = [chip EXCEPT !.gtilde = g]
      /\ UNCHANGED <<doc, ask, stage, read, faulted, result>>
  BY <1>2, ChipSaysFacts
<1>4. chip'.oid = chip.oid
  BY <1>3 DEF DocumentInv, Shape, NoChip
<1>5. HandshakeInv' /\ AccessInv'
  BY <1>1, <1>3, <1>4 DEF Parts, HandshakeInv, AccessInv, Asks, Answers
<1> QED
  BY <1>1, <1>3, <1>5, AnswerParts DEF Handshaking, PaceOps

\* With the right CAN the generators are the same.
LEMMA SameGenerator ==
  ASSUME DocumentInv, ask.can = doc.can, chip.gtilde \in Points
  PROVE  Generator = chip.gtilde
<1>1. doc.can \in Points
  BY DocumentOk DEF DocumentInv
<1>2. chip.gtilde + ask.can - doc.can = chip.gtilde /\ chip.gtilde \in 0..(Q - 1)
  BY <1>1 DEF Points
<1>3. chip.gtilde % Q = chip.gtilde
  BY <1>2, CryptoAssumption
<1> QED
  BY <1>2, <1>3 DEF Generator

\* The chip has no generator only where the terminal has another.
LEMMA NoGenerator ==
  ASSUME DocumentInv, HandshakeInv, stage = "key_agreement", chip.gtilde = 0
  PROVE  ~RightPassword
<1>1. /\ ask.use_pace /\ chip.gtilde \in Points /\ read.priv2 \in Points
      /\ read.my_pub2 = Times(read.priv2, Generator) /\ read.my_pub2 # 0
  BY DEF DocumentInv, PaceInv, PaceOps, HandshakeInv
<1>2. ASSUME ask.can = doc.can PROVE FALSE
  <2>1. Generator = 0
    BY <1>1, <1>2, SameGenerator
  <2>2. Times(read.priv2, 0) = 0
    BY <1>1, CryptoAssumption DEF Times, Points
  <2> QED
    BY <1>1, <2>1, <2>2
<1> QED
  BY <1>1, <1>2 DEF RightPassword

LEMMA ChipAgreesParts == DocumentInv /\ Parts /\ ChipAgrees => Parts'
<1> SUFFICES ASSUME DocumentInv, Parts, ChipAgrees PROVE Parts'
  OBVIOUS
<1>1. stage = "key_agreement" /\ wire.dir = "cmd"
  BY DEF ChipAgrees, ChipHears
<1>2. CASE chip.gtilde = 0
  <2>1. ChipRejects
    BY <1>2 DEF ChipAgrees
  <2>2. /\ wire'.dir = "resp" /\ wire'.res = "refused"
        /\ UNCHANGED <<doc, ask, stage, read, chip, faulted, result>>
    BY <2>1, ChipRejectsFacts
  <2>3. ~RightPassword'
    BY <1>1, <1>2, <2>2, NoGenerator DEF Parts, RightPassword
  <2>4. HandshakeInv' /\ AccessInv'
    BY <1>1, <2>2, <2>3 DEF Parts, HandshakeInv, AccessInv, Asks, Answers, PaceOps
  <2> QED
    BY <1>1, <2>2, <2>4, AnswerParts DEF Handshaking, PaceOps
<1>3. CASE chip.gtilde # 0
  <2>1. PICK pub2, session, body :
          ChipSays([chip EXCEPT !.pub2 = pub2, !.peer = wire.body, !.session = session], body)
    BY <1>3 DEF ChipAgrees
  <2>2. wire.body = read.my_pub2
    BY <1>1 DEF DocumentInv, PaceInv, Asks
  <2>3. /\ wire'.dir = "resp" /\ wire'.res = "ok"
        /\ chip' = [chip EXCEPT !.pub2 = pub2, !.peer = wire.body, !.session = session]
        /\ UNCHANGED <<doc, ask, stage, read, faulted, result>>
    BY <2>1, ChipSaysFacts
  <2>4. chip'.oid = chip.oid /\ chip'.peer = read.my_pub2
    BY <2>2, <2>3 DEF DocumentInv, Shape, NoChip
  <2>5. HandshakeInv' /\ AccessInv'
    BY <1>1, <2>3, <2>4 DEF Parts, HandshakeInv, AccessInv, Asks, Answers
  <2> QED
    BY <1>1, <2>3, <2>5, AnswerParts DEF Handshaking, PaceOps
<1> QED
  BY <1>2, <1>3

\* Both sides multiply the same two numbers.
LEMMA TimesCommutes ==
  ASSUME NEW p \in Points, NEW k \in Points, NEW g \in Points
  PROVE  Times(p, Times(k, g)) = Times(k, Times(p, g))
<1> DEFINE a == Times(p, Times(k, g))
           b == Times(k, Times(p, g))
<1>1. a \in Points /\ b \in Points
  BY TimesType
<1>2. PICK m \in Int : a = p * k * g + m * Q
  BY TimesTwice
<1>3. PICK n \in Int : b = k * p * g + n * Q
  BY TimesTwice
<1>4. /\ k \in Int /\ p \in Int /\ g \in Int /\ Q \in Int /\ a \in Int /\ b \in Int
      /\ 0 <= a /\ a < Q /\ 0 <= b /\ b < Q
  BY <1>1, CryptoAssumption DEF Points
<1> HIDE DEF a, b
<1>5. a - b = (m - n) * Q
  BY <1>2, <1>3, <1>4
<1>6. PICK d \in Int : d = m - n
  OBVIOUS
<1>7. a - b = d * Q
  BY <1>5, <1>6
<1>8. d = 0
  BY <1>4, <1>7, CryptoAssumption
<1>9. a = b
  BY <1>4, <1>7, <1>8
<1> QED
  BY <1>9 DEF a, b

LEMMA SeedsAgree ==
  ASSUME DocumentInv, Asks("pace_mutual_auth"), ask.can = doc.can
  PROVE  read.session.seed = chip.session.seed
<1>1. /\ chip.gtilde \in Points /\ read.priv2 \in Points
      /\ read.my_pub2 = Times(read.priv2, Generator)
      /\ read.session.seed = X(Times(read.priv2, chip.pub2))
  BY DEF DocumentInv, PaceInv, Asks
<1>2. PICK k \in Points \ {0} : Chose(k)
  BY DEF DocumentInv, PaceInv
<1>3. Generator = chip.gtilde
  BY <1>1, SameGenerator
<1>4. Times(read.priv2, Times(k, chip.gtilde)) = Times(k, Times(read.priv2, chip.gtilde))
  BY <1>1, TimesCommutes
<1> QED
  BY <1>1, <1>2, <1>3, <1>4 DEF Chose

LEMMA ChipVerifiesParts == DocumentInv /\ Parts /\ ChipVerifies => Parts'
<1> SUFFICES ASSUME DocumentInv, Parts, ChipVerifies PROVE Parts'
  OBVIOUS
<1> DEFINE key == Key(chip.session.seed, 2)
<1>1. stage = "pace_mutual_auth" /\ wire.dir = "cmd" /\ Asks("pace_mutual_auth")
  BY DEF ChipVerifies, ChipHears, Asks
<1>2. /\ chip.oid = read.oid /\ chip.peer = read.my_pub2
      /\ wire.body = compute_token(read.session, read.oid, chip.pub2)
  BY <1>1 DEF DocumentInv, PaceInv, Parts, HandshakeInv
<1>3. ask.use_pace
  BY <1>1 DEF DocumentInv, PaceInv, PaceOps
<1>4. ASSUME RightPassword
      PROVE  /\ wire.body = Mac(key, <<chip.oid, chip.pub2>>)
             /\ Mac(key, <<chip.oid, chip.peer>>)
                  = compute_token(read.session, read.oid, read.my_pub2)
  <2>1. read.session.seed = chip.session.seed
    BY <1>1, <1>3, <1>4, SeedsAgree DEF RightPassword
  <2> QED
    BY <1>2, <2>1 DEF compute_token, ks_mac
<1>5. CASE wire.body # Mac(key, <<chip.oid, chip.pub2>>) /\ ChipRejects
  <2>1. /\ wire'.dir = "resp" /\ wire'.res = "refused"
        /\ UNCHANGED <<doc, ask, stage, read, chip, faulted, result>>
    BY <1>5, ChipRejectsFacts
  <2>2. ~RightPassword'
    BY <1>4, <1>5, <2>1 DEF RightPassword
  <2>3. HandshakeInv' /\ AccessInv'
    BY <1>1, <2>1, <2>2 DEF Parts, HandshakeInv, AccessInv, Asks, Answers, PaceOps
  <2> QED
    BY <1>1, <2>1, <2>3, AnswerParts DEF Handshaking, PaceOps
<1>6. CASE \E c, body :
             /\ ChipSays(c, body)
             /\ wire.body = Mac(key, <<chip.oid, chip.pub2>>)
                  => body = Mac(key, <<chip.oid, chip.peer>>)
  <2>1. PICK c, body :
          /\ ChipSays(c, body)
          /\ wire.body = Mac(key, <<chip.oid, chip.pub2>>)
               => body = Mac(key, <<chip.oid, chip.peer>>)
    BY <1>6
  <2> HIDE DEF key
  <2>2. /\ wire'.dir = "resp" /\ wire'.res = "ok" /\ wire'.body = body
        /\ UNCHANGED <<doc, ask, stage, read, faulted, result>>
    BY <2>1, ChipSaysFacts
  <2>3. \/ ~RightPassword'
        \/ wire'.body = compute_token(read.session, read.oid, read.my_pub2)
    BY <1>4, <2>1, <2>2 DEF RightPassword
  <2>4. HandshakeInv' /\ AccessInv'
    BY <1>1, <2>2, <2>3 DEF Parts, HandshakeInv, AccessInv, Asks, Answers
  <2> QED
    BY <1>1, <2>2, <2>4, AnswerParts DEF Handshaking, PaceOps
<1> QED
  BY <1>5, <1>6 DEF ChipVerifies

\* The document does not support what it is asked for.
LEMMA ChipRefusesParts == DocumentInv /\ Parts /\ ChipRefuses => Parts'
<1> SUFFICES ASSUME DocumentInv, Parts, ChipRefuses PROVE Parts'
  OBVIOUS
<1>1. wire.dir = "cmd" /\ stage \in doc.refuses /\ stage \notin SecureOps /\ ChipRejects
  BY DEF ChipRefuses
<1>2. stage \in BacOps \union PaceOps
  BY <1>1 DEF DocumentInv, Shape
<1>3. /\ wire'.dir = "resp" /\ wire'.res = "refused"
      /\ UNCHANGED <<doc, ask, stage, read, chip, faulted, result>>
  BY <1>1, ChipRejectsFacts
<1>4. HandshakeInv' /\ AccessInv'
  BY <1>1, <1>2, <1>3 DEF Parts, HandshakeInv, AccessInv, Asks, Answers
<1> QED
  BY <1>1, <1>2, <1>3, <1>4, AnswerParts DEF Handshaking

\* Under secure messaging.
LEMMA ReplyIs ==
  ASSUME NEW d, NEW sw, UNCHANGED ask,
         chip'.session.seed = chip.session.seed, chip'.session.ssc = ChipSscAfter
  PROVE  Reply(d, sw)' = Protected(d, sw)
BY DEF Reply, Protected, Iv, Block

LEMMA ObeyedParts ==
  ASSUME DocumentInv, Parts, Secure, wire.dir = "cmd", NEW c, NEW d, NEW sw,
         ChipSays(c, Protected(d, sw)), c.session = [chip.session EXCEPT !.ssc = ChipSscAfter],
         d = DataFor(stage), sw = SwFor(stage),
         stage = "select_dg1" => c.file = "dg1",
         stage = "select_dg2" /\ doc.dg2 # NoBytes => c.file = "dg2",
         stage \in {"dg1_rest", "dg2_rest"} => c.file = chip.file
  PROVE  Parts'
<1>1. /\ chip' = c /\ wire'.dir = "resp" /\ wire'.res = "ok" /\ wire'.body = Protected(d, sw)
      /\ UNCHANGED <<doc, ask, stage, read, faulted, result>>
  BY ChipSaysFacts
<1>2. chip'.session.seed = chip.session.seed /\ chip'.session.ssc = ChipSscAfter
  BY <1>1 DEF DocumentInv, Shape, Session
<1>3. Reply(d, sw)' = Protected(d, sw)
  BY <1>1, <1>2, ReplyIs
<1>4. DataFor(stage)' = d /\ SwFor(stage)' = sw
  BY <1>1 DEF DataFor, SwFor, FileOfOp, NextLe
<1>5. MessageInv'
  <2>1. wire'.body = Reply(DataFor(stage), SwFor(stage))'
    BY <1>1, <1>3, <1>4
  <2> QED
    BY <1>1, <2>1 DEF MessageInv
<1>6. FileInv'
  BY <1>1 DEF Parts, FileInv, Answers, Reading, Secure, SecureOps
<1>7. HandshakeInv' /\ AccessInv'
  BY <1>1, SecureParts DEF Secure
<1>8. stage # "done" /\ stage' # "done"
  BY <1>1, NotDone
<1>9. ResultInv'
  BY <1>1, <1>8, NoResultYet DEF Parts
<1> QED
  BY <1>5, <1>6, <1>7, <1>9 DEF Parts

LEMMA CommandOf ==
  ASSUME Secure
  PROVE  /\ stage = "pace_select_aid" => CommandFor(stage) = Aid
         /\ stage = "select_dg1" => CommandFor(stage) = Select(Fid.dg1)
         /\ stage = "select_dg2" => CommandFor(stage) = Select(Fid.dg2)
         /\ stage = "dg1_rest" => CommandFor(stage) = Read(Len(read.dg1), NextLe("dg1"))
         /\ stage = "dg2_rest" => CommandFor(stage) = Read(Len(read.dg2), NextLe("dg2"))
BY DEF CommandFor

LEMMA Selects ==
  /\ Aid.ins = "select" /\ Aid.data = EmrtdAid /\ EmrtdAid \in Seq(Nat) /\ EmrtdAid # <<>>
  /\ Select(Fid.dg1).ins = "select" /\ Select(Fid.dg1).data = Fid.dg1
  /\ Select(Fid.dg2).ins = "select" /\ Select(Fid.dg2).data = Fid.dg2
  /\ Fid.dg1 \in Seq(Nat) /\ Fid.dg1 # <<>> /\ Fid.dg2 \in Seq(Nat) /\ Fid.dg2 # <<>>
  /\ Fid.dg1 # Fid.dg2 /\ Fid.dg2 # EmrtdAid
<1>1. Fid.dg1 = <<1, 1>> /\ Fid.dg2 = <<1, 2>>
  BY DEF Fid
<1>2. Fid.dg1[2] = 1 /\ Fid.dg2[2] = 2 /\ Fid.dg2[1] = 1 /\ EmrtdAid[1] = 160
  BY <1>1 DEF EmrtdAid
<1>3. EmrtdAid \in Seq(Nat) /\ EmrtdAid # <<>>
  BY DEF EmrtdAid
<1>4. /\ Fid.dg1 \in Seq(Nat) /\ Fid.dg1 # <<>> /\ Fid.dg2 \in Seq(Nat) /\ Fid.dg2 # <<>>
  BY <1>1
<1>5. /\ Aid.ins = "select" /\ Aid.data = EmrtdAid
      /\ \A x : Select(x).ins = "select" /\ Select(x).data = x
  BY DEF Aid, Select, Command
<1>6. Fid.dg1 # Fid.dg2
  BY <1>2
<1>7. Fid.dg2 # EmrtdAid
  BY <1>2
<1>8. /\ Select(Fid.dg1).ins = "select" /\ Select(Fid.dg1).data = Fid.dg1
      /\ Select(Fid.dg2).ins = "select" /\ Select(Fid.dg2).data = Fid.dg2
  BY <1>5
<1> QED
  BY <1>3, <1>4, <1>5, <1>6, <1>7, <1>8, Zenon

\* What the chip makes of the command: a SELECT, or a READ BINARY.
LEMMA ObeysSelect ==
  ASSUME DocumentInv, ChipObeys, NEW cmd, cmd.ins = "select",
         cmd.data \in Seq(Nat), cmd.data # <<>>,
         wire.body = Protect(read.session, cmd, Iv(read.session.ssc), Block)
  PROVE  LET moved == [chip EXCEPT !.session.ssc = ChipSscAfter]
         IN  IF stage \notin doc.refuses /\ (cmd.data = EmrtdAid \/ FileOf(cmd.data) # "none")
               THEN ChipSays([moved EXCEPT !.file = FileOf(cmd.data)], Protected(<<>>, Ok))
               ELSE ChipSays(moved, Protected(<<>>, NotFound))
<1>1. Secure /\ wire.dir = "cmd"
  BY DEF ChipObeys, Secure
<1>2. /\ Genuine(wire.body) /\ wire.body.header = Header(cmd) /\ wire.body.do87 # <<>>
      /\ Unpadded(wire.body.do87[1].data) = cmd.data
  BY <1>1, CommandRead
<1>3. wire.body.header[1] = "select"
  BY <1>2 DEF Header
<1> QED
  BY <1>2, <1>3, Zenon DEF ChipObeys

LEMMA ObeysRead ==
  ASSUME DocumentInv, ChipObeys, NEW n \in Nat, n <= 65535, NEW le,
         wire.body = Protect(read.session, Read(n, le), Iv(read.session.ssc), Block)
  PROVE  ChipSays([chip EXCEPT !.session.ssc = ChipSscAfter],
                  Protected(Slice(doc[chip.file], n, le), Ok))
<1> DEFINE cmd == Read(n, le)
           q == wire.body
           as == [p1 |-> q.header[2], p2 |-> q.header[3], le |-> q.do97]
<1>1. Secure /\ wire.dir = "cmd"
  BY DEF ChipObeys, Secure
<1>2. /\ cmd.p1 * 256 + cmd.p2 = n /\ cmd.le = le /\ cmd.data = <<>> /\ cmd.ins = "read"
  BY ReadCommand
<1>3. cmd.data \in Seq(Nat)
  BY <1>2
<1> HIDE DEF cmd
<1>4. wire.body = Protect(read.session, cmd, Iv(read.session.ssc), Block)
  BY DEF cmd
<1>5. Genuine(q) /\ q.header = Header(cmd) /\ q.do97 = cmd.le
  BY <1>1, <1>3, <1>4, CommandRead
<1>6. q.header[1] = "read" /\ q.header[2] = cmd.p1 /\ q.header[3] = cmd.p2
  BY <1>2, <1>5 DEF Header
<1>7. as.p1 * 256 + as.p2 = n /\ as.le = le
  BY <1>2, <1>5, <1>6
<1>8. ReadBinary(chip.file, as) = Slice(doc[chip.file], n, le)
  BY <1>7 DEF ReadBinary
<1>9. q.header[1] # "select"
  BY <1>6
<1>10. ChipSays([chip EXCEPT !.session.ssc = ChipSscAfter],
                Protected(ReadBinary(chip.file, as), Ok))
  BY <1>5, <1>6, <1>9 DEF ChipObeys
<1> QED
  BY <1>8, <1>10

LEMMA ChipObeysParts ==
  ASSUME DocumentInv, Parts, Regular, ChipObeys
  PROVE  Parts'
<1> DEFINE moved == [chip EXCEPT !.session.ssc = ChipSscAfter]
<1>1. Secure /\ wire.dir = "cmd" /\ stage \in SecureOps
  BY DEF ChipObeys, Secure
<1>2. wire.body = Protect(read.session, CommandFor(stage), Iv(read.session.ssc), Block)
  BY <1>1 DEF Parts, MessageInv
<1>3. /\ DOMAIN chip = DOMAIN NoChip
      /\ moved.session = [chip.session EXCEPT !.ssc = ChipSscAfter] /\ moved.file = chip.file
  BY DEF DocumentInv, Shape, NoChip
<1>4. ASSUME NEW f
      PROVE  LET c == [moved EXCEPT !.file = f]
             IN  c.file = f /\ c.session = [chip.session EXCEPT !.ssc = ChipSscAfter]
  BY DEF DocumentInv, Shape, NoChip
<1> HIDE DEF moved
<1>a. /\ stage = "select_dg1" => stage \notin doc.refuses
      /\ stage = "select_dg2" => stage \notin doc.refuses
  BY DocumentOk DEF DocumentInv
<1>5. CASE stage = "pace_select_aid"
  <2>1. CASE stage \notin doc.refuses
    <3>1. PICK f : ChipSays([moved EXCEPT !.file = f], Protected(<<>>, Ok))
      BY <1>1, <1>2, <1>5, <2>1, CommandOf, Selects, ObeysSelect DEF moved
    <3>2. DataFor(stage) = <<>> /\ SwFor(stage) = Ok
      BY <1>5, <2>1 DEF DataFor, SwFor
    <3> QED
      BY <1>1, <1>4, <1>5, <3>1, <3>2, ObeyedParts
  <2>2. CASE stage \in doc.refuses
    <3>1. ChipSays(moved, Protected(<<>>, NotFound))
      BY <1>1, <1>2, <1>5, <2>2, CommandOf, Selects, ObeysSelect DEF moved
    <3>2. DataFor(stage) = <<>> /\ SwFor(stage) = NotFound
      BY <1>5, <2>2 DEF DataFor, SwFor
    <3> QED
      BY <1>1, <1>3, <1>5, <3>1, <3>2, ObeyedParts
  <2> QED
    BY <2>1, <2>2
<1>6. CASE stage = "select_dg1"
  <2>1. FileOf(Fid.dg1) = "dg1"
    BY Selects DEF FileOf
  <2>2. ChipSays([moved EXCEPT !.file = "dg1"], Protected(<<>>, Ok))
    BY <1>1, <1>2, <1>a, <1>6, <2>1, CommandOf, Selects, ObeysSelect DEF moved
  <2>3. DataFor(stage) = <<>> /\ SwFor(stage) = Ok
    BY <1>6 DEF DataFor, SwFor
  <2> QED
    BY <1>1, <1>4, <1>6, <2>2, <2>3, ObeyedParts
<1>7. CASE stage = "select_dg2" /\ doc.dg2 # NoBytes
  <2>1. FileOf(Fid.dg2) = "dg2"
    BY <1>7, Selects DEF FileOf
  <2>2. ChipSays([moved EXCEPT !.file = "dg2"], Protected(<<>>, Ok))
    BY <1>1, <1>2, <1>a, <1>7, <2>1, CommandOf, Selects, ObeysSelect DEF moved
  <2>3. DataFor(stage) = <<>> /\ SwFor(stage) = Ok
    BY <1>7 DEF DataFor, SwFor
  <2> QED
    BY <1>1, <1>4, <1>7, <2>2, <2>3, ObeyedParts
<1>8. CASE stage = "select_dg2" /\ doc.dg2 = NoBytes
  <2>1. FileOf(Fid.dg2) = "none"
    BY <1>8, Selects DEF FileOf
  <2>2. ChipSays(moved, Protected(<<>>, NotFound))
    BY <1>1, <1>2, <1>8, <2>1, CommandOf, Selects, ObeysSelect DEF moved
  <2>3. DataFor(stage) = <<>> /\ SwFor(stage) = NotFound
    BY <1>8 DEF DataFor, SwFor
  <2> QED
    BY <1>1, <1>3, <1>8, <2>2, <2>3, ObeyedParts
<1>9. CASE stage = "dg1_rest"
  <2>a. FileInv
    BY DEF Parts
  <2>b. Reading("dg1") /\ chip.file = "dg1"
    BY <1>9, <2>a, Zenon DEF FileInv
  <2>1. Reading("dg1") /\ chip.file = "dg1" /\ HasFile("dg1")
    BY <2>b DEF HasFile
  <2>2. Len(read.dg1) \in Nat /\ Len(read.dg1) <= 65535
    BY <2>1, PieceFacts DEF Regular
  <2>3. ChipSays(moved, Protected(Slice(doc["dg1"], Len(read.dg1), NextLe("dg1")), Ok))
    BY <1>1, <1>2, <1>9, <2>1, <2>2, CommandOf, ObeysRead DEF moved
  <2>4. DataFor(stage) = Slice(doc["dg1"], Len(read.dg1), NextLe("dg1")) /\ SwFor(stage) = Ok
    BY <1>9 DEF DataFor, SwFor, FileOfOp
  <2> QED
    BY <1>1, <1>3, <1>9, <2>3, <2>4, ObeyedParts
<1>10. CASE stage = "dg2_rest"
  <2>a. FileInv
    BY DEF Parts
  <2>1. Reading("dg2") /\ chip.file = "dg2" /\ HasFile("dg2")
    BY <1>10, <2>a DEF FileInv, HasFile
  <2>2. Len(read.dg2) \in Nat /\ Len(read.dg2) <= 65535
    BY <2>1, PieceFacts DEF Regular
  <2>3. ChipSays(moved, Protected(Slice(doc["dg2"], Len(read.dg2), NextLe("dg2")), Ok))
    BY <1>1, <1>2, <1>10, <2>1, <2>2, CommandOf, ObeysRead DEF moved
  <2>4. DataFor(stage) = Slice(doc["dg2"], Len(read.dg2), NextLe("dg2")) /\ SwFor(stage) = Ok
    BY <1>10 DEF DataFor, SwFor, FileOfOp
  <2> QED
    BY <1>1, <1>3, <1>10, <2>3, <2>4, ObeyedParts
<1> QED
  BY <1>1, <1>5, <1>6, <1>7, <1>8, <1>9, <1>10 DEF SecureOps

-----------------------------------------------------------------------------
(* The ends of a read.                                                     *)

LEMMA EndedParts ==
  ASSUME Ended
  PROVE  /\ MessageInv' /\ FileInv' /\ HandshakeInv' /\ AccessInv'
         /\ stage' = "done" /\ wire'.res = "ok"
<1>1. stage' = "done" /\ wire'.dir = "none" /\ wire'.res = "ok"
  BY DEF Ended, NoWire, Apdu
<1> QED
  BY <1>1 DEF MessageInv, FileInv, HandshakeInv, AccessInv, Secure, Asks, Answers, BacOps,
              PaceOps, SecureOps

\* What a failure needs to be told with why.
Excused(why) ==
  CASE why = "typed" -> ask.malformed
    [] why = "unsupported" -> ask.use_pace /\ ~doc.supported
    [] why \in {"rejected", "can", "agreement"} ->
         ~RightPassword \/ RefusalOf[why] \in doc.refuses
    [] why \in DOMAIN RefusalOf \ {"rejected", "can", "agreement"} ->
         RefusalOf[why] \in doc.refuses
    [] why = "scalar" -> ask.use_pace
    [] OTHER -> faulted

LEMMA FailParts ==
  ASSUME NEW why, Fail(why), UNCHANGED <<doc, ask, faulted>>, Excused(why)
  PROVE  Parts'
<1>1. Ended
  BY FailEnds
<1>2. /\ MessageInv' /\ FileInv' /\ HandshakeInv' /\ AccessInv'
      /\ stage' = "done" /\ wire'.res = "ok"
  BY <1>1, EndedParts
<1>3. result' = [NoResult EXCEPT !.status = "failed", !.why = why]
  BY DEF Fail, Finish
<1>4. result'.status = "failed" /\ result'.why = why
  BY <1>3 DEF NoResult
<1>5. ReportsTheDocument'
  BY <1>4 DEF ReportsTheDocument
<1>6. ErrorTellsWhy'
  BY <1>4 DEF ErrorTellsWhy, Excused, RightPassword
<1> QED
  BY <1>2, <1>5, <1>6 DEF Parts, ResultInv

\* The failures that only a failure of the link leads to.
LinkWhys == {"link", "integrity", "refused", "structure", "empty", "build", "parse",
             "unverified"}

LEMMA LinkFailParts ==
  ASSUME NEW why \in LinkWhys, Fail(why), UNCHANGED <<doc, ask, faulted>>, faulted
  PROVE  Parts'
<1>1. Excused(why)
  BY DEF Excused, LinkWhys, RefusalOf
<1> QED
  BY <1>1, FailParts

LEMMA NotGood ==
  ASSUME DocumentInv, Parts, wire.dir = "resp", ~Good, Lost \/ Secure
  PROVE  faulted /\ Lost
<1>1. wire.res = "lost"
  BY DEF DocumentInv, Shape, Good, Lost, Parts, MessageInv
<1> QED
  BY <1>1 DEF Parts, ResultInv, Lost

\* The answer to a command of a handshake is none: the link has failed, or why
\* names the command and the chip has refused it.
LEMMA BadAnswerParts ==
  ASSUME DocumentInv, Parts, wire.dir = "resp", Lost \/ ~Good,
         UNCHANGED <<doc, ask, faulted>>,
         NEW why \in DOMAIN RefusalOf, stage = RefusalOf[why], stage \notin SecureOps,
         Lost => Fail("link"), ~Lost => Fail(why)
  PROVE  Parts'
<1>1. CASE Lost
  <2>1. faulted
    BY <1>1, NotGood DEF Lost, Good
  <2> QED
    BY <1>1, <2>1, LinkFailParts DEF LinkWhys
<1>2. CASE ~Lost
  <2>1. wire.res = "refused"
    BY <1>2 DEF DocumentInv, Shape, Good, Lost
  <2>2. \/ RefusalOf[why] \in doc.refuses
        \/ stage \in {"mutual_auth", "key_agreement", "pace_mutual_auth"} /\ ~RightPassword
    BY <2>1 DEF Parts, HandshakeInv
  <2>3. stage \in {"mutual_auth", "key_agreement", "pace_mutual_auth"} =>
          why \in {"rejected", "can", "agreement"}
    BY DEF RefusalOf
  <2>4. why \notin {"typed", "unsupported", "scalar"}
    BY DEF RefusalOf
  <2>5. Excused(why)
    BY <2>2, <2>3, <2>4 DEF Excused
  <2> QED
    BY <1>2, <2>5, FailParts
<1> QED
  BY <1>1, <1>2

LEMMA ExtractShape ==
  ASSUME NEW dg2
  PROVE  DOMAIN bac_extract_dg2_photo(dg2) = {"format", "data"}
<1> DEFINE jpeg == find_bytes(dg2, jpeg_magic)
           jp2 == find_bytes(dg2, jp2_magic)
           stream == find_bytes(dg2, jp2_codestream_magic)
<1>1. \/ \E format, data : bac_extract_dg2_photo(dg2) = [format |-> format, data |-> data]
      \/ bac_extract_dg2_photo(dg2) = NoPhoto
  BY DEF bac_extract_dg2_photo
<1> QED
  BY <1>1 DEF NoPhoto

LEMMA NothingFound ==
  ASSUME NEW needle \in Seq(Nat), Len(needle) > 0
  PROVE  find_bytes(<<>>, needle) = -1
<1>1. Len(<<>>) = 0 /\ Len(needle) \in Nat
  OBVIOUS
<1>2. 0..(Len(<<>>) - Len(needle)) = {}
  BY <1>1
<1> QED
  BY <1>2 DEF find_bytes

LEMMA NoPicture == bac_extract_dg2_photo(<<>>) = NoPhoto
<1>1. /\ jpeg_magic \in Seq(Nat) /\ Len(jpeg_magic) > 0
      /\ jp2_codestream_magic \in Seq(Nat) /\ Len(jp2_codestream_magic) > 0
  BY DEF jpeg_magic, jp2_codestream_magic
<1>2. jp2_magic \in Seq(Nat) /\ Len(jp2_magic) > 0
  BY DEF jp2_magic
<1>3. /\ find_bytes(<<>>, jpeg_magic) = -1 /\ find_bytes(<<>>, jp2_magic) = -1
      /\ find_bytes(<<>>, jp2_codestream_magic) = -1
  BY <1>1, <1>2, NothingFound
<1>4. ~(-1 >= 0)
  OBVIOUS
<1> QED
  BY <1>3, <1>4 DEF bac_extract_dg2_photo

LEMMA ShownIs ==
  ASSUME NEW photo, DOMAIN photo = {"format", "data"}, NEW shown \in Shown(photo)
  PROVE  shown.data = photo.data
BY DEF Shown

\* The result is that of the document when the files of the read r are.
LEMMA ResultParts ==
  ASSUME Regular, NEW r, passport_build_result_and_finish(r), UNCHANGED <<doc, ask, faulted>>,
         r.dg1 = Slice(doc.dg1, 0, FileLength(doc, "dg1")),
         NEW n \in 0..Len(doc.dg2), r.dg2 = Slice(doc.dg2, 0, n),
         ask.read_photo /\ ~faulted => doc.dg2 = NoBytes \/ n = FileLength(doc, "dg2"),
         ~ask.read_photo => r.dg2 = <<>>
  PROVE  Parts'
<1> DEFINE mrz == bac_parse_dg1_mrz(r.dg1)
           photo == bac_extract_dg2_photo(r.dg2)
<1>1. PICK shown \in Shown(photo) :
        Finish([status |-> "success", why |-> "", mrz |-> mrz,
                fields |-> bac_parse_mrz_fields(mrz), photo |-> shown])
  BY DEF passport_build_result_and_finish
<1>2. Ended
  BY ResultEnds
<1>3. /\ MessageInv' /\ FileInv' /\ HandshakeInv' /\ AccessInv'
      /\ stage' = "done" /\ wire'.res = "ok"
  BY <1>2, EndedParts
<1>4. mrz = doc.mrz /\ bac_parse_mrz_fields(mrz) = ReportedFields(doc)
  BY DEF Regular, Issued
<1>5. /\ IsPrefix(photo.data, doc.image)
      /\ doc.dg2 = NoBytes \/ n = FileLength(doc, "dg2") => photo.data = doc.image
  BY DEF Regular, Issued
<1>6. shown.data = photo.data
  BY ExtractShape, ShownIs
<1>7. ~ask.read_photo => shown = NoPhoto
  <2> SUFFICES ASSUME ~ask.read_photo PROVE shown = NoPhoto
    OBVIOUS
  <2>1. photo = NoPhoto
    BY NoPicture
  <2>2. NoPhoto.format # "jpeg2000"
    BY DEF NoPhoto
  <2>3. Shown(NoPhoto) = {NoPhoto}
    BY <2>2 DEF Shown
  <2> QED
    BY <2>1, <2>3
<1> HIDE DEF mrz, photo
<1>8. /\ result'.status = "success" /\ result'.mrz = mrz
      /\ result'.fields = bac_parse_mrz_fields(mrz) /\ result'.photo = shown
  BY <1>1 DEF Finish
<1>9. ReportsTheDocument'
  BY <1>4, <1>5, <1>6, <1>7, <1>8 DEF ReportsTheDocument, ReportedFields
<1>10. ErrorTellsWhy'
  BY <1>8 DEF ErrorTellsWhy
<1> QED
  BY <1>3, <1>9, <1>10 DEF Parts, ResultInv

-----------------------------------------------------------------------------
(* The terminal in the handshakes.                                         *)

LEMMA SendParts ==
  ASSUME Parts, NEW r, NEW op, NEW body, Sends(r, op, body), UNCHANGED faulted,
         stage # "done", op # "done",
         MessageInv', FileInv', HandshakeInv', AccessInv'
  PROVE  Parts'
<1>1. stage' = op /\ wire'.res = "ok" /\ UNCHANGED result
  BY DEF Sends, Apdu
<1>2. ResultInv'
  BY <1>1, NoResultYet DEF Parts
<1> QED
  BY <1>2 DEF Parts

\* The next command of a handshake.
LEMMA HandshakeParts ==
  ASSUME Parts, NEW r, NEW op \in BacOps \union PaceOps, NEW body, Sends(r, op, body),
         UNCHANGED faulted, stage # "done", r.dg1 = <<>>, r.dg2 = <<>>,
         op = "select_ef_cardaccess" => r.card_access = <<>>,
         op = "mutual_auth" => r.rnd_icc = chip.rnd_icc,
         op = "mse_set_at" => body = r.oid,
         op \in {"get_nonce", "map_nonce", "key_agreement", "pace_mutual_auth"} =>
           chip.oid = r.oid,
         op = "key_agreement" => r.my_pub2 # 0,
         op = "pace_mutual_auth" => chip.peer = r.my_pub2,
         op = "ef_cardaccess_rest" => AccessInv'
  PROVE  Parts'
<1>1. /\ stage' = op /\ read' = r /\ wire'.dir = "cmd" /\ wire'.res = "ok" /\ wire'.body = body
      /\ UNCHANGED <<doc, ask, chip, result>>
  BY DEF Sends, Apdu
<1>2. MessageInv' /\ FileInv'
  BY <1>1, PlainParts
<1>3. HandshakeInv'
  BY <1>1 DEF HandshakeInv, Asks, Answers
<1>4. AccessInv'
  BY <1>1 DEF AccessInv
<1>5. op # "done"
  BY DEF BacOps, PaceOps
<1> QED
  BY <1>2, <1>3, <1>4, <1>5, SendParts

LEMMA ReadPassportParts ==
  ASSUME DocumentInv, Parts, Regular, nfcd_client_read_passport
  PROVE  Parts'
<1> DEFINE keys == bac_mrz_sha1(ask.number, ask.birth, ask.expiry)
           r == [NoRead EXCEPT !.keys = keys]
<1>1. UNCHANGED <<doc, ask, faulted>> /\ ~ask.use_pace /\ stage = "idle"
  BY DEF nfcd_client_read_passport
<1>2. CASE keys = NoBytes
  <2>1. Fail("typed")
    BY <1>2 DEF nfcd_client_read_passport
  <2>2. Excused("typed")
    BY <1>1, <1>2 DEF Excused, RefusalOf, Regular, Entered
  <2> QED
    BY <1>1, <2>1, <2>2, FailParts
<1>3. CASE keys # NoBytes
  <2>1. Transceive(r, "select_aid", <<>>)
    BY <1>3 DEF nfcd_client_read_passport
  <2>2. r.dg1 = <<>> /\ r.dg2 = <<>>
    BY DEF NoRead, NoBytes
  <2> HIDE DEF r
  <2>3. Sends(r, "select_aid", <<>>)
    BY <1>1, <2>1, TransceiveSends
  <2> QED
    BY <1>1, <2>2, <2>3, HandshakeParts DEF BacOps
<1> QED
  BY <1>2, <1>3

LEMMA ReadPassportPaceParts ==
  ASSUME DocumentInv, Parts, Regular, nfcd_client_read_passport_pace
  PROVE  Parts'
<1>1. UNCHANGED <<doc, ask, faulted>> /\ ask.use_pace /\ stage = "idle"
  BY DEF nfcd_client_read_passport_pace
<1>2. CASE ask.can = -1
  <2>1. Fail("typed")
    BY <1>2 DEF nfcd_client_read_passport_pace
  <2>2. Excused("typed")
    BY <1>1, <1>2 DEF Excused, RefusalOf, Regular, Entered
  <2> QED
    BY <1>1, <2>1, <2>2, FailParts
<1>3. CASE ask.can # -1
  <2>1. Transceive(NoRead, "select_ef_cardaccess", <<>>)
    BY <1>3 DEF nfcd_client_read_passport_pace
  <2>2. NoRead.dg1 = <<>> /\ NoRead.dg2 = <<>> /\ NoRead.card_access = <<>>
    BY DEF NoRead, NoBytes
  <2>3. Sends(NoRead, "select_ef_cardaccess", <<>>)
    BY <1>1, <2>1, TransceiveSends
  <2> QED
    BY <1>1, <2>2, <2>3, HandshakeParts DEF PaceOps
<1> QED
  BY <1>2, <1>3

\* An answer in a handshake.
LEMMA Plain ==
  ASSUME DocumentInv, Parts, wire.dir = "resp", stage \in BacOps \union PaceOps
  PROVE  /\ Good => Answers(stage)
         /\ read.dg1 = <<>> /\ read.dg2 = <<>> /\ stage # "done" /\ stage \notin SecureOps
<1>1. read.dg1 = <<>> /\ read.dg2 = <<>>
  BY DEF Parts, HandshakeInv
<1> QED
  BY <1>1 DEF Good, Answers, BacOps, PaceOps, SecureOps

LEMMA SelectAidParts ==
  ASSUME DocumentInv, Parts, passport_select_aid_ready
  PROVE  Parts'
<1>1. UNCHANGED <<doc, ask, faulted>> /\ stage = "select_aid" /\ wire.dir = "resp"
  BY Zenon DEF passport_select_aid_ready, Answered
<1>2. read.dg1 = <<>> /\ read.dg2 = <<>> /\ stage # "done" /\ stage \notin SecureOps
  BY <1>1, Plain DEF BacOps
<1>3. CASE Lost \/ ~Good
  <2>1. (Lost => Fail("link")) /\ (~Lost => Fail("not_emrtd"))
    BY <1>3, Zenon DEF passport_select_aid_ready, Unless
  <2>2. "not_emrtd" \in DOMAIN RefusalOf /\ RefusalOf["not_emrtd"] = stage
    BY <1>1 DEF RefusalOf
  <2> QED
    BY <1>1, <1>2, <1>3, <2>1, <2>2, BadAnswerParts
<1>4. CASE ~Lost /\ Good
  <2>1. Sends(read, "get_challenge", <<>>)
    BY <1>1, <1>4, TransceiveSends DEF passport_select_aid_ready, Unless
  <2> QED
    BY <1>1, <1>2, <2>1, HandshakeParts DEF BacOps
<1> QED
  BY <1>3, <1>4

LEMMA GetChallengeParts ==
  ASSUME DocumentInv, Parts, passport_get_challenge_ready
  PROVE  Parts'
<1>1. UNCHANGED <<doc, ask, faulted>> /\ stage = "get_challenge" /\ wire.dir = "resp"
  BY Zenon DEF passport_get_challenge_ready, Answered
<1>2. /\ Good => Answers("get_challenge")
      /\ read.dg1 = <<>> /\ read.dg2 = <<>> /\ stage # "done" /\ stage \notin SecureOps
  BY <1>1, Plain DEF BacOps
<1>3. CASE Lost \/ ~Good
  <2>1. (Lost => Fail("link")) /\ (~Lost => Fail("challenge"))
    BY <1>3, Zenon DEF passport_get_challenge_ready, Unless
  <2>2. "challenge" \in DOMAIN RefusalOf /\ RefusalOf["challenge"] = stage
    BY <1>1 DEF RefusalOf
  <2> QED
    BY <1>1, <1>2, <1>3, <2>1, <2>2, BadAnswerParts
<1>4. CASE ~Lost /\ Good
  <2>1. PICK rnd_ifd, k_ifd, body :
          Transceive([read EXCEPT !.rnd_icc = wire.body, !.rnd_ifd = rnd_ifd, !.k_ifd = k_ifd],
                     "mutual_auth", body)
    BY <1>4, Zenon DEF passport_get_challenge_ready, Unless
  <2> DEFINE r == [read EXCEPT !.rnd_icc = wire.body, !.rnd_ifd = rnd_ifd, !.k_ifd = k_ifd]
  <2>2. r.dg1 = <<>> /\ r.dg2 = <<>> /\ r.rnd_icc = wire.body
    BY <1>2 DEF DocumentInv, Shape, NoRead
  <2> HIDE DEF r
  <2>3. Sends(r, "mutual_auth", body)
    BY <1>1, <2>1, TransceiveSends DEF r
  <2>4. wire.body = chip.rnd_icc
    BY <1>2, <1>4 DEF DocumentInv, BacInv
  <2> QED
    BY <1>1, <1>2, <2>2, <2>3, <2>4, HandshakeParts DEF BacOps
<1> QED
  BY <1>3, <1>4

LEMMA SelectAccessParts ==
  ASSUME DocumentInv, Parts, Regular, passport_select_ef_cardaccess_ready
  PROVE  Parts'
<1>1. UNCHANGED <<doc, ask, faulted>> /\ stage = "select_ef_cardaccess" /\ wire.dir = "resp"
  BY Zenon DEF passport_select_ef_cardaccess_ready, Answered
<1>2. /\ Good => Answers("select_ef_cardaccess")
      /\ read.dg1 = <<>> /\ read.dg2 = <<>> /\ stage # "done" /\ stage \notin SecureOps
  BY <1>1, Plain DEF PaceOps
<1>3. CASE Lost \/ ~Good
  <2>1. (Lost => Fail("link")) /\ (~Lost => Fail("no_card_access"))
    BY <1>3, Zenon DEF passport_select_ef_cardaccess_ready, Unless
  <2>2. "no_card_access" \in DOMAIN RefusalOf /\ RefusalOf["no_card_access"] = stage
    BY <1>1 DEF RefusalOf
  <2> QED
    BY <1>1, <1>2, <1>3, <2>1, <2>2, BadAnswerParts
<1>4. CASE ~Lost /\ Good
  <2>1. Sends(read, "ef_cardaccess_rest", Read(0, Chunk + 1))
    BY <1>1, <1>4, TransceiveSends DEF passport_select_ef_cardaccess_ready, Unless
  <2>2. read.card_access = <<>> /\ Len(<<>>) = 0
    BY <1>1 DEF Parts, HandshakeInv
  <2>3. /\ stage' = "ef_cardaccess_rest" /\ read' = read /\ doc' = doc
        /\ wire'.dir = "cmd" /\ wire'.body = Read(0, Chunk + 1)
    BY <2>1 DEF Sends, Apdu
  <2>4. "select_ef_cardaccess" \notin doc.refuses
    BY <1>2, <1>4 DEF Parts, HandshakeInv
  <2>5. 0 \in 0..(AccessLength(doc) - 1) /\ Slice(doc.access, 0, 0) = <<>>
    BY <2>4, AccessFacts, EmptySlice DEF Regular
  <2>6. AccessInv'
    BY <2>2, <2>3, <2>4, <2>5 DEF AccessInv
  <2> QED
    BY <1>1, <1>2, <2>1, <2>6, HandshakeParts DEF PaceOps
<1> QED
  BY <1>3, <1>4

LEMMA SetAtParts ==
  ASSUME DocumentInv, Parts, pace_mse_set_at_ready
  PROVE  Parts'
<1>1. UNCHANGED <<doc, ask, faulted>> /\ stage = "mse_set_at" /\ wire.dir = "resp"
  BY Zenon DEF pace_mse_set_at_ready, Answered
<1>2. /\ Good => Answers("mse_set_at")
      /\ read.dg1 = <<>> /\ read.dg2 = <<>> /\ stage # "done" /\ stage \notin SecureOps
  BY <1>1, Plain DEF PaceOps
<1>3. CASE Lost \/ ~Good
  <2>1. (Lost => Fail("link")) /\ (~Lost => Fail("set_at"))
    BY <1>3, Zenon DEF pace_mse_set_at_ready, Unless
  <2>2. "set_at" \in DOMAIN RefusalOf /\ RefusalOf["set_at"] = stage
    BY <1>1 DEF RefusalOf
  <2> QED
    BY <1>1, <1>2, <1>3, <2>1, <2>2, BadAnswerParts
<1>4. CASE ~Lost /\ Good
  <2>1. Sends(read, "get_nonce", <<>>)
    BY <1>1, <1>4, TransceiveSends DEF pace_mse_set_at_ready, Unless
  <2>2. chip.oid = read.oid
    BY <1>2, <1>4 DEF Parts, HandshakeInv
  <2> QED
    BY <1>1, <1>2, <2>1, <2>2, HandshakeParts DEF PaceOps
<1> QED
  BY <1>3, <1>4

LEMMA SliceShort ==
  ASSUME NEW s \in Seq(Nat), NEW n \in Nat
  PROVE  \E m \in 0..Len(s) : /\ Slice(s, 0, n) = Slice(s, 0, m) /\ m <= n
                              /\ m = n \/ m = Len(s)
<1> DEFINE m == IF n <= Len(s) THEN n ELSE Len(s)
<1>1. Len(s) \in Nat /\ m \in 0..Len(s) /\ m <= n /\ (m = n \/ m = Len(s)) /\ 0 + n = n /\ 0 + m = m
  OBVIOUS
<1>2. Min({0 + n, Len(s)}) = m /\ Min({0 + m, Len(s)}) = m
  BY <1>1, MinPair
<1>3. Slice(s, 0, n) = Slice(s, 0, m)
  BY <1>2 DEF Slice
<1> HIDE DEF m
<1> QED
  BY <1>1, <1>3

\* EF.CardAccess with one more answer is a longer part of it, with its length.
LEMMA GrownFacts ==
  ASSUME DocumentInv, Parts, Regular, Answers("ef_cardaccess_rest")
  PROVE  /\ wire.body # <<>>
         /\ \E m \in 1..Len(doc.access) :
              Grown("card_access") = [read EXCEPT !.card_access = Slice(doc.access, 0, m),
                                                  !.total = AccessLength(doc)]
<1> DEFINE s == doc.access
           l == AccessLength(doc)
           n == Len(read.card_access)
           le == IF n = 0 THEN Chunk + 1 ELSE Min({l - n, Chunk})
           bytes == read.card_access \o wire.body
<1>1. s \in Seq(Nat) /\ l \in 1..Len(s) /\ Len(s) \in Nat /\ l \in Nat
  <2>1. s \in Seq(Nat) /\ l \in 1..Len(s)
    BY AccessFacts DEF Regular, Parts, AccessInv, Answers
  <2> HIDE DEF s, l
  <2> QED
    BY <2>1
<1>2. /\ n \in 0..(l - 1) /\ read.card_access = Slice(s, 0, n)
      /\ n = 0 \/ read.total = l
      /\ wire.body = Slice(s, n, le)
  BY DEF Parts, AccessInv, Answers
<1>3. Chunk \in Nat /\ Chunk >= 1
  BY DocumentAssumption
<1>4. Grown("card_access") =
        [read EXCEPT !.card_access = bytes,
                     !.total = IF read.card_access = NoBytes THEN Total("card_access", bytes) ELSE @]
  BY DEF Grown
<1>5. CASE n = 0
  <2>1. read.card_access = <<>> /\ read.card_access = NoBytes
    BY <1>1, <1>2, <1>5, EmptySlice DEF NoBytes
  <2>2. wire.body = Slice(s, 0, Chunk + 1)
    BY <1>2, <1>5
  <2>3. PICK m \in 0..Len(s) : /\ Slice(s, 0, Chunk + 1) = Slice(s, 0, m) /\ m <= Chunk + 1
                               /\ m = Chunk + 1 \/ m = Len(s)
    <3>1. s \in Seq(Nat) /\ Chunk + 1 \in Nat
      BY <1>1, <1>3
    <3> HIDE DEF s
    <3> QED
      BY <3>1, SliceShort
  <2>4. m \in 1..Len(s) /\ m \in Nat /\ 0 \in Nat /\ 0 + m <= Len(s)
    BY <1>1, <1>3, <2>3
  <2>5. wire.body \in Seq(Nat) /\ Len(wire.body) = m
    BY <1>1, <2>2, <2>3, <2>4, SliceOf
  <2>6. wire.body # <<>>
    BY <2>4, <2>5
  <2>7. bytes = wire.body
    BY <2>1, <2>5
  <2>8. Total("card_access", bytes) = l
    BY <2>2, <2>7 DEF AccessLength
  <2> HIDE DEF bytes, n, l, s
  <2>9. Grown("card_access") = [read EXCEPT !.card_access = Slice(s, 0, m), !.total = l]
    BY <1>4, <2>1, <2>2, <2>3, <2>7, <2>8
  <2> QED
    BY <2>4, <2>6, <2>9 DEF s, l
<1>6. CASE n # 0
  <2>1. n \in Nat /\ n >= 1 /\ n < l /\ l - n \in Int /\ Chunk \in Int /\ read.total = l
    BY <1>1, <1>2, <1>3, <1>6
  <2>2. le = IF l - n <= Chunk THEN l - n ELSE Chunk
    BY <1>6, <2>1, MinPair
  <2> HIDE DEF n, l, s, le
  <2>3. le \in Nat /\ le >= 1 /\ n + le \in Nat /\ n + le <= l
    BY <1>1, <1>3, <2>1, <2>2
  <2>4. n + le <= Len(s) /\ n + le \in 1..Len(s)
    BY <1>1, <2>1, <2>3
  <2>5. wire.body \in Seq(Nat) /\ Len(wire.body) = le
    <3>1. s \in Seq(Nat) /\ n \in Nat /\ le \in Nat /\ n + le <= Len(s)
      BY <1>1, <2>1, <2>3, <2>4
    <3>2. Slice(s, n, le) \in Seq(Nat) /\ Len(Slice(s, n, le)) = le
      BY <3>1, SliceOf
    <3> QED
      BY <1>2, <3>2
  <2>6. wire.body # <<>>
    BY <2>3, <2>5
  <2>7. bytes = Slice(s, 0, n + le)
    <3>1. s \in Seq(Nat) /\ n \in Nat /\ le \in Nat /\ n + le <= Len(s)
      BY <1>1, <2>1, <2>3, <2>4
    <3>2. Slice(s, 0, n) \o Slice(s, n, le) = Slice(s, 0, n + le)
      BY <3>1, SliceJoined
    <3> QED
      BY <1>2, <3>2
  <2>8. read.card_access # NoBytes
    BY <2>1 DEF n, NoBytes
  <2> HIDE DEF bytes
  <2>9. DOMAIN read = DOMAIN NoRead
    BY DEF DocumentInv, Shape
  <2>10. Grown("card_access") = [read EXCEPT !.card_access = Slice(s, 0, n + le), !.total = l]
    BY <1>4, <2>1, <2>7, <2>8, <2>9 DEF NoRead
  <2> QED
    BY <2>4, <2>6, <2>10 DEF s, l
<1> QED
  BY <1>5, <1>6

LEMMA AccessRestParts ==
  ASSUME DocumentInv, Parts, Regular, passport_ef_cardaccess_rest_ready
  PROVE  Parts'
<1> DEFINE r == Grown("card_access")
           entry == passport_pick_pace_entry(r.card_access)
           left == r.total - Len(r.card_access)
           l == AccessLength(doc)
<1>1. UNCHANGED <<doc, ask, faulted>> /\ stage = "ef_cardaccess_rest" /\ wire.dir = "resp"
  BY Zenon DEF passport_ef_cardaccess_rest_ready, Answered
<1>2. /\ Good => Answers("ef_cardaccess_rest")
      /\ read.dg1 = <<>> /\ read.dg2 = <<>> /\ stage # "done" /\ stage \notin SecureOps
  BY <1>1, Plain DEF PaceOps
<1>3. ask.use_pace
  BY <1>1 DEF DocumentInv, PaceInv, PaceOps
<1>4. CASE Lost \/ ~Good
  <2>1. (Lost => Fail("link")) /\ (~Lost => Fail("card_access"))
    BY <1>4, Zenon DEF passport_ef_cardaccess_rest_ready, Unless
  <2>2. "card_access" \in DOMAIN RefusalOf /\ RefusalOf["card_access"] = stage
    BY <1>1 DEF RefusalOf
  <2> QED
    BY <1>1, <1>2, <1>4, <2>1, <2>2, BadAnswerParts
<1>5. CASE ~Lost /\ Good
  <2>1. wire.body # <<>>
    BY <1>2, <1>5, GrownFacts
  <2>2. PICK m \in 1..Len(doc.access) :
          r = [read EXCEPT !.card_access = Slice(doc.access, 0, m), !.total = l]
    BY <1>2, <1>5, GrownFacts
  <2>3. /\ r.card_access = Slice(doc.access, 0, m) /\ r.total = l
        /\ r.dg1 = <<>> /\ r.dg2 = <<>> /\ DOMAIN r = DOMAIN NoRead
    BY <1>2, <2>2 DEF DocumentInv, Shape, NoRead
  <2>4. /\ doc.access \in Seq(Nat) /\ l \in 1..Len(doc.access) /\ Len(doc.access) \in Nat
    BY <1>1, AccessFacts DEF Regular, Parts, AccessInv
  <2>a. "select_ef_cardaccess" \notin doc.refuses
    BY <1>1 DEF Parts, AccessInv
  <2>5. m \in Nat /\ 0 \in Nat /\ 0 + m <= Len(doc.access)
    BY <2>4
  <2>6. Len(r.card_access) = m
    <3>1. doc.access \in Seq(Nat)
      BY <2>4
    <3>2. Len(Slice(doc.access, 0, m)) = m
      BY <2>5, <3>1, SliceOf
    <3> HIDE DEF r
    <3> QED
      BY <2>3, <3>2
  <2>7. \/ r.total = 0 /\ Fail("structure")
        \/ r.total > 0 /\ left > 0 /\
             Transceive(r, "ef_cardaccess_rest", Read(Len(r.card_access), Min({left, Chunk})))
        \/ r.total > 0 /\ left <= 0 /\ entry = NoEntry /\ Fail("unsupported")
        \/ Transceive([r EXCEPT !.oid = entry.oid], "mse_set_at", entry.oid)
    BY <1>5, <2>1, Zenon DEF passport_ef_cardaccess_rest_ready, Unless
  <2> HIDE DEF r
  <2>8. r.total # 0 /\ left = l - m
    BY <2>3, <2>4, <2>6
  <2> HIDE DEF l, left
  <2>9. CASE left > 0 /\ Transceive(r, "ef_cardaccess_rest",
                                    Read(Len(r.card_access), Min({left, Chunk})))
    <3>1. Sends(r, "ef_cardaccess_rest", Read(m, Min({l - m, Chunk})))
      BY <1>1, <2>6, <2>8, <2>9, TransceiveSends
    <3>2. /\ stage' = "ef_cardaccess_rest" /\ read' = r /\ doc' = doc
          /\ wire'.dir = "cmd" /\ wire'.body = Read(m, Min({l - m, Chunk}))
      BY <3>1 DEF Sends, Apdu
    <3>3. m \in 0..(l - 1) /\ m # 0
      BY <2>4, <2>8, <2>9 DEF l
    <3>4. AccessInv'
      BY <2>3, <2>6, <2>a, <3>2, <3>3 DEF AccessInv, l
    <3>5. /\ r.dg1 = <<>> /\ r.dg2 = <<>> /\ UNCHANGED faulted /\ stage # "done"
          /\ "ef_cardaccess_rest" \in BacOps \union PaceOps
      BY <1>1, <1>2, <2>3 DEF PaceOps
    <3> HIDE DEF entry
    <3> QED
      BY <3>1, <3>4, <3>5, HandshakeParts
  <2>10. CASE left <= 0 /\ entry = NoEntry /\ Fail("unsupported")
    <3>1. m \in l..Len(doc.access)
      BY <2>4, <2>8, <2>10 DEF l
    <3>2. ~doc.supported
      BY <2>3, <2>10, <3>1 DEF Regular, Issued, l, entry
    <3>3. Excused("unsupported")
      BY <1>3, <3>2 DEF Excused, RefusalOf
    <3> QED
      BY <1>1, <2>10, <3>3, FailParts
  <2>11. CASE Transceive([r EXCEPT !.oid = entry.oid], "mse_set_at", entry.oid)
    <3> DEFINE e == [r EXCEPT !.oid = entry.oid]
    <3>1. e.dg1 = <<>> /\ e.dg2 = <<>> /\ e.oid = entry.oid
      BY <2>3 DEF NoRead
    <3> HIDE DEF e, entry
    <3>2. Sends(e, "mse_set_at", entry.oid)
      BY <1>1, <2>11, TransceiveSends DEF e
    <3>3. UNCHANGED faulted /\ stage # "done" /\ "mse_set_at" \in BacOps \union PaceOps
      BY <1>1, <1>2 DEF PaceOps
    <3> QED
      BY <3>1, <3>2, <3>3, HandshakeParts
  <2> QED
    BY <2>7, <2>8, <2>9, <2>10, <2>11
<1> QED
  BY <1>4, <1>5

LEMMA GetNonceParts ==
  ASSUME DocumentInv, Parts, pace_get_nonce_ready
  PROVE  Parts'
<1>1. UNCHANGED <<doc, ask, faulted>> /\ stage = "get_nonce" /\ wire.dir = "resp"
  BY Zenon DEF pace_get_nonce_ready, Answered
<1>2. read.dg1 = <<>> /\ read.dg2 = <<>> /\ stage # "done" /\ stage \notin SecureOps
  BY <1>1, Plain DEF PaceOps
<1>3. CASE Lost \/ ~Good
  <2>1. (Lost => Fail("link")) /\ (~Lost => Fail("nonce"))
    BY <1>3, Zenon DEF pace_get_nonce_ready, Unless
  <2>2. "nonce" \in DOMAIN RefusalOf /\ RefusalOf["nonce"] = stage
    BY <1>1 DEF RefusalOf
  <2> QED
    BY <1>1, <1>2, <1>3, <2>1, <2>2, BadAnswerParts
<1>4. CASE Fail("scalar")
  <2>1. Excused("scalar")
    BY <1>1 DEF Excused, RefusalOf, DocumentInv, PaceInv, PaceOps
  <2> QED
    BY <1>1, <1>4, <2>1, FailParts
<1>5. CASE \E priv1, s, body :
             Transceive([read EXCEPT !.priv1 = priv1, !.s = s], "map_nonce", body)
  <2>1. PICK priv1, s, body :
          Transceive([read EXCEPT !.priv1 = priv1, !.s = s], "map_nonce", body)
    BY <1>5
  <2> DEFINE r == [read EXCEPT !.priv1 = priv1, !.s = s]
  <2>2. r.dg1 = <<>> /\ r.dg2 = <<>> /\ r.oid = read.oid
    BY <1>2 DEF DocumentInv, Shape, NoRead
  <2> HIDE DEF r
  <2>3. Sends(r, "map_nonce", body)
    BY <1>1, <2>1, TransceiveSends DEF r
  <2>4. chip.oid = read.oid
    BY <1>1 DEF Parts, HandshakeInv
  <2> QED
    BY <1>1, <1>2, <2>2, <2>3, <2>4, HandshakeParts DEF PaceOps
<1> QED
  BY <1>3, <1>4, <1>5, Zenon DEF pace_get_nonce_ready, Unless

LEMMA MapNonceParts ==
  ASSUME DocumentInv, Parts, pace_map_nonce_ready
  PROVE  Parts'
<1>1. UNCHANGED <<doc, ask, faulted>> /\ stage = "map_nonce" /\ wire.dir = "resp"
  BY Zenon DEF pace_map_nonce_ready, Answered
<1>2. read.dg1 = <<>> /\ read.dg2 = <<>> /\ stage # "done" /\ stage \notin SecureOps
  BY <1>1, Plain DEF PaceOps
<1>3. CASE Lost \/ ~Good
  <2>1. (Lost => Fail("link")) /\ (~Lost => Fail("mapping"))
    BY <1>3, Zenon DEF pace_map_nonce_ready, Unless
  <2>2. "mapping" \in DOMAIN RefusalOf /\ RefusalOf["mapping"] = stage
    BY <1>1 DEF RefusalOf
  <2> QED
    BY <1>1, <1>2, <1>3, <2>1, <2>2, BadAnswerParts
<1>4. CASE Fail("scalar")
  <2>1. Excused("scalar")
    BY <1>1 DEF Excused, RefusalOf, DocumentInv, PaceInv, PaceOps
  <2> QED
    BY <1>1, <1>4, <2>1, FailParts
<1>5. CASE \E g, priv2, pub : pub # 0 /\
             Transceive([read EXCEPT !.gtilde = g, !.priv2 = priv2, !.my_pub2 = pub],
                        "key_agreement", pub)
  <2>1. PICK g, priv2, pub : pub # 0 /\
          Transceive([read EXCEPT !.gtilde = g, !.priv2 = priv2, !.my_pub2 = pub],
                     "key_agreement", pub)
    BY <1>5
  <2> DEFINE r == [read EXCEPT !.gtilde = g, !.priv2 = priv2, !.my_pub2 = pub]
  <2>2. r.dg1 = <<>> /\ r.dg2 = <<>> /\ r.oid = read.oid /\ r.my_pub2 = pub
    BY <1>2 DEF DocumentInv, Shape, NoRead
  <2> HIDE DEF r
  <2>3. Sends(r, "key_agreement", pub)
    BY <1>1, <2>1, TransceiveSends DEF r
  <2>4. chip.oid = read.oid
    BY <1>1 DEF Parts, HandshakeInv
  <2>5. UNCHANGED faulted /\ stage # "done" /\ "key_agreement" \in BacOps \union PaceOps
    BY <1>1, <1>2 DEF PaceOps
  <2>6. pub # 0
    BY <2>1
  <2> QED
    BY <2>2, <2>3, <2>4, <2>5, <2>6, HandshakeParts
<1> QED
  BY <1>3, <1>4, <1>5, Zenon DEF pace_map_nonce_ready, Unless

LEMMA KeyAgreementParts ==
  ASSUME DocumentInv, Parts, pace_key_agreement_ready
  PROVE  Parts'
<1>1. UNCHANGED <<doc, ask, faulted>> /\ stage = "key_agreement" /\ wire.dir = "resp"
  BY Zenon DEF pace_key_agreement_ready, Answered
<1>2. read.dg1 = <<>> /\ read.dg2 = <<>> /\ stage # "done" /\ stage \notin SecureOps
  BY <1>1, Plain DEF PaceOps
<1>3. CASE Lost \/ ~Good
  <2>1. (Lost => Fail("link")) /\ (~Lost => Fail("agreement"))
    BY <1>3, Zenon DEF pace_key_agreement_ready, Unless
  <2>2. "agreement" \in DOMAIN RefusalOf /\ RefusalOf["agreement"] = stage
    BY <1>1 DEF RefusalOf
  <2> QED
    BY <1>1, <1>2, <1>3, <2>1, <2>2, BadAnswerParts
<1>4. CASE ~Lost /\ Good
  <2>1. PICK session, body :
          Transceive([read EXCEPT !.session = session], "pace_mutual_auth", body)
    BY <1>4 DEF pace_key_agreement_ready, Unless
  <2> DEFINE r == [read EXCEPT !.session = session]
  <2>2. r.dg1 = <<>> /\ r.dg2 = <<>> /\ r.oid = read.oid /\ r.my_pub2 = read.my_pub2
    BY <1>2 DEF DocumentInv, Shape, NoRead
  <2> HIDE DEF r
  <2>3. Sends(r, "pace_mutual_auth", body)
    BY <1>1, <2>1, TransceiveSends DEF r
  <2>4. chip.oid = read.oid /\ chip.peer = read.my_pub2
    BY <1>1, <1>4 DEF Parts, HandshakeInv, Answers, Good
  <2> QED
    BY <1>1, <1>2, <2>2, <2>3, <2>4, HandshakeParts DEF PaceOps
<1> QED
  BY <1>3, <1>4

-----------------------------------------------------------------------------
(* The terminal under secure messaging.                                    *)

LEMMA ProtectOk ==
  ASSUME NEW s, NEW cmd, cmd.le \in Int, cmd.le <= 255,
         Len(cmd.data) \in Nat, Len(cmd.data) <= 190
  PROVE  sm_protect(s, cmd).ok
<1>1. Len(cmd.data) <= 223
  OBVIOUS
<1> DEFINE pace == cmd.le <= 255 /\ Len(cmd.data) <= 190
           bac == cmd.le <= 255 /\ Len(cmd.data) <= 223
<1>2. pace /\ bac
  BY <1>1
<1>3. pace_sm_protect(s, cmd).ok = pace /\ bac_sm_protect(s, cmd).ok = bac
  BY DEF pace_sm_protect, bac_sm_protect
<1> HIDE DEF pace, bac
<1> QED
  BY <1>2, <1>3 DEF sm_protect

LEMMA SelectOk ==
  ASSUME NEW s
  PROVE  /\ sm_protect(s, Aid).ok
         /\ sm_protect(s, Select(Fid.dg1)).ok /\ sm_protect(s, Select(Fid.dg2)).ok
<1>1. Len(EmrtdAid) = 7
  BY DEF EmrtdAid
<1>2. Len(Fid.dg1) = 2 /\ Len(Fid.dg2) = 2
  <2>1. Fid.dg1 = <<1, 1>> /\ Fid.dg2 = <<1, 2>>
    BY DEF Fid
  <2> QED
    BY <2>1
<1>3. ASSUME NEW data, Len(data) \in {2, 7}, NEW p1
      PROVE  sm_protect(s, Command("select", p1, 12, data, -1)).ok
  <2> DEFINE cmd == Command("select", p1, 12, data, -1)
  <2>1. cmd.le = -1 /\ cmd.data = data
    BY DEF Command
  <2> HIDE DEF cmd
  <2>2. cmd.le \in Int /\ cmd.le <= 255
    BY <2>1
  <2>3. Len(cmd.data) \in Nat /\ Len(cmd.data) <= 190
    <3>1. Len(cmd.data) = 2 \/ Len(cmd.data) = 7
      BY <1>3, <2>1
    <3>2. CASE Len(cmd.data) = 2
      BY <3>2
    <3>3. CASE Len(cmd.data) = 7
      BY <3>3
    <3> QED
      BY <3>1, <3>2, <3>3
  <2>4. sm_protect(s, cmd).ok
    BY <2>2, <2>3, ProtectOk
  <2> QED
    BY <2>4 DEF cmd
<1>4. sm_protect(s, Aid).ok
  BY <1>1, <1>3 DEF Aid
<1>5. \A fid : Len(fid) = 2 => sm_protect(s, Select(fid)).ok
  BY <1>3 DEF Select
<1> QED
  BY <1>2, <1>4, <1>5

LEMMA ReadOk ==
  ASSUME NEW s, NEW offset, NEW le \in 1..255
  PROVE  sm_protect(s, Read(offset, le)).ok
<1>1. Read(offset, le).le = le /\ Read(offset, le).data = <<>>
  BY DEF Read, Command
<1>2. Len(<<>>) = 0 /\ le \in Int /\ le <= 255
  OBVIOUS
<1> QED
  BY <1>1, <1>2, ProtectOk

\* A protected command that is the one of its stage.
LEMMA SecuredParts ==
  ASSUME Parts, NEW r, NEW s, NEW op \in SecureOps, NEW cmd,
         DOMAIN r = DOMAIN NoRead, UNCHANGED <<doc, ask, faulted>>, stage # "done",
         Transceive([r EXCEPT !.session = sm_protect(s, cmd).session], op,
                    sm_protect(s, cmd).apdu),
         CommandFor(stage)' = cmd, FileInv'
  PROVE  Parts'
<1> DEFINE e == [r EXCEPT !.session = Advanced(s)]
<1>1. Sends(e, op, Protecting(s, cmd))
  BY ProtectOutcome, TransceiveSends
<1>2. e.session = Advanced(s)
  BY DEF NoRead
<1> HIDE DEF e
<1>3. /\ stage' = op /\ read' = e /\ wire'.dir = "cmd" /\ wire'.res = "ok"
      /\ wire'.body = Protecting(s, cmd) /\ UNCHANGED <<doc, ask>>
  BY <1>1 DEF Sends, Apdu
<1>4. Protecting(s, cmd) = Protect(read'.session, cmd, Iv(read.session.ssc)', Block')
  BY <1>2, <1>3 DEF Protecting, Iv, Block
<1>5. MessageInv'
  BY <1>3, <1>4 DEF MessageInv
<1>6. HandshakeInv' /\ AccessInv'
  BY <1>3, SecureParts
<1>7. op # "done"
  BY DEF SecureOps
<1> QED
  BY <1>1, <1>5, <1>6, <1>7, SendParts

LEMMA CommandNext ==
  /\ stage' = "pace_select_aid" => CommandFor(stage)' = Aid
  /\ stage' = "select_dg1" => CommandFor(stage)' = Select(Fid.dg1)
  /\ stage' = "select_dg2" => CommandFor(stage)' = Select(Fid.dg2)
  /\ stage' = "dg1_rest" => CommandFor(stage)' = Read(Len(read'.dg1), NextLe("dg1")')
  /\ stage' = "dg2_rest" => CommandFor(stage)' = Read(Len(read'.dg2), NextLe("dg2")')
BY DEF CommandFor

\* The read r with another session.
LEMMA WithSession ==
  ASSUME NEW r, DOMAIN r = DOMAIN NoRead, NEW session
  PROVE  LET e == [r EXCEPT !.session = session]
         IN  /\ DOMAIN e = DOMAIN NoRead /\ e.session = session
             /\ e.dg1 = r.dg1 /\ e.dg2 = r.dg2 /\ e.total = r.total
BY DEF NoRead

LEMMA MutualAuthParts ==
  ASSUME DocumentInv, Parts, passport_mutual_auth_ready
  PROVE  Parts'
<1> DEFINE p == bac_process_mutual_authenticate_response(
                  read.keys, read.rnd_icc, read.rnd_ifd, read.k_ifd, wire.body)
           cmd == Select(Fid.dg1)
<1>1. UNCHANGED <<doc, ask, faulted>> /\ stage = "mutual_auth" /\ wire.dir = "resp"
  BY Zenon DEF passport_mutual_auth_ready, Answered
<1>2. /\ read.dg1 = <<>> /\ read.dg2 = <<>> /\ stage # "done" /\ stage \notin SecureOps
      /\ DOMAIN read = DOMAIN NoRead
  BY <1>1, Plain DEF BacOps, DocumentInv, Shape
<1>3. CASE Lost \/ ~Good
  <2>1. (Lost => Fail("link")) /\ (~Lost => Fail("rejected"))
    BY <1>3, Zenon DEF passport_mutual_auth_ready, Unless
  <2>2. "rejected" \in DOMAIN RefusalOf /\ RefusalOf["rejected"] = stage
    BY <1>1 DEF RefusalOf
  <2> QED
    BY <1>1, <1>2, <1>3, <2>1, <2>2, BadAnswerParts
<1>4. CASE ~Lost /\ Good
  <2>1. /\ read.keys = doc.key_text
        /\ wire.body = Cryptogram(doc.key_text, read.rnd_icc, read.rnd_ifd, chip.k_icc)
    BY <1>1, <1>4 DEF DocumentInv, BacInv, Parts, HandshakeInv, Answers, Good
  <2>2. p.ok
    BY <2>1 DEF bac_process_mutual_authenticate_response, Cryptogram, Sealed
  <2>3. sm_protect(p.session, cmd).ok
    BY SelectOk
  <2>4. Transceive([read EXCEPT !.session = sm_protect(p.session, cmd).session], "select_dg1",
                   sm_protect(p.session, cmd).apdu)
    BY <1>4, <2>2, <2>3 DEF passport_mutual_auth_ready, Unless, Secured
  <2> HIDE DEF p
  <2>5. /\ stage' = "select_dg1" /\ wire'.dir = "cmd"
        /\ read' = [read EXCEPT !.session = sm_protect(p.session, cmd).session]
    BY <2>4 DEF Transceive, Apdu
  <2>6. read'.dg1 = <<>> /\ read'.dg2 = <<>>
    BY <1>2, <2>5, WithSession
  <2>7. FileInv'
    BY <2>5, <2>6 DEF FileInv, Answers
  <2>8. CommandFor(stage)' = cmd
    BY <2>5, CommandNext
  <2>9. "select_dg1" \in SecureOps
    BY DEF SecureOps
  <2> HIDE DEF cmd
  <2> QED
    BY <1>1, <1>2, <2>4, <2>7, <2>8, <2>9, SecuredParts
<1> QED
  BY <1>3, <1>4

LEMMA PaceMutualAuthParts ==
  ASSUME DocumentInv, Parts, pace_mutual_auth_ready
  PROVE  Parts'
<1> DEFINE r == [NoRead EXCEPT !.card_access = read.card_access, !.oid = read.oid]
           fits == pace_verify_mutual_auth_response(read.session, read.oid, read.my_pub2, wire.body)
<1>1. UNCHANGED <<doc, ask, faulted>> /\ stage = "pace_mutual_auth" /\ wire.dir = "resp"
  BY Zenon DEF pace_mutual_auth_ready, Answered
<1>2. /\ Good => Answers("pace_mutual_auth")
      /\ stage # "done" /\ stage \notin SecureOps
  BY <1>1, Plain DEF PaceOps
<1>3. CASE Lost \/ ~Good
  <2>1. (Lost => Fail("link")) /\ (~Lost => Fail("can"))
    BY <1>3, Zenon DEF pace_mutual_auth_ready, Unless
  <2>2. "can" \in DOMAIN RefusalOf /\ RefusalOf["can"] = stage
    BY <1>1 DEF RefusalOf
  <2> QED
    BY <1>1, <1>2, <1>3, <2>1, <2>2, BadAnswerParts
<1>4. CASE ~Lost /\ Good /\ ~fits
  <2>1. Fail("can")
    BY <1>4 DEF pace_mutual_auth_ready, Unless
  <2>2. ~RightPassword
    BY <1>2, <1>4 DEF Parts, HandshakeInv, pace_verify_mutual_auth_response
  <2>3. Excused("can")
    BY <2>2 DEF Excused
  <2> QED
    BY <1>1, <2>1, <2>3, FailParts
<1>5. CASE ~Lost /\ Good /\ fits
  <2>1. sm_protect(read.session, Aid).ok
    BY SelectOk
  <2>2. Transceive([r EXCEPT !.session = sm_protect(read.session, Aid).session],
                   "pace_select_aid", sm_protect(read.session, Aid).apdu)
    BY <1>5, <2>1 DEF pace_mutual_auth_ready, Unless, Secured, Aid
  <2>3. DOMAIN r = DOMAIN NoRead /\ r.dg1 = <<>> /\ r.dg2 = <<>>
    BY DEF NoRead, NoBytes
  <2> HIDE DEF r
  <2>4. /\ stage' = "pace_select_aid"
        /\ read' = [r EXCEPT !.session = sm_protect(read.session, Aid).session]
    BY <2>2 DEF Transceive
  <2>5. read'.dg1 = <<>> /\ read'.dg2 = <<>>
    BY <2>3, <2>4, WithSession
  <2>6. FileInv'
    BY <2>4, <2>5 DEF FileInv, Answers
  <2>7. CommandFor(stage)' = Aid
    BY <2>4, CommandNext
  <2>8. "pace_select_aid" \in SecureOps
    BY DEF SecureOps
  <2> QED
    BY <1>1, <1>2, <2>2, <2>3, <2>6, <2>7, <2>8, SecuredParts
<1> QED
  BY <1>3, <1>4, <1>5

\* The read with the session moved on, as a good answer leaves it.
Moved == [read EXCEPT !.session = Advanced(read.session)]

LEMMA MovedFacts ==
  ASSUME DocumentInv
  PROVE  /\ DOMAIN Moved = DOMAIN NoRead /\ Moved.session = Advanced(read.session)
         /\ Moved.dg1 = read.dg1 /\ Moved.dg2 = read.dg2 /\ Moved.total = read.total
<1>1. DOMAIN read = DOMAIN NoRead
  BY DEF DocumentInv, Shape
<1> QED
  BY <1>1, WithSession DEF Moved

LEMMA NotOpened ==
  ASSUME NEW u, NEW why, NEW r, u = Opened(why, r, <<>>), why # ""
  PROVE  ~u.ok /\ u.why = why /\ u.r = r
BY DEF Opened

\* Under secure messaging only the link makes an answer bad.
LEMMA Heard ==
  ASSUME DocumentInv, Parts, Secure, wire.dir = "resp"
  PROVE  /\ stage # "done"
         /\ ~Good => faulted /\ passport_sm_response_ok = Opened("link", read, <<>>)
         /\ Good => wire.body = Reply(DataFor(stage), SwFor(stage))
<1>1. stage # "done"
  BY DEF Secure, SecureOps
<1>2. ASSUME ~Good PROVE faulted /\ Lost
  BY <1>1, <1>2, NotGood
<1>3. ASSUME Lost PROVE passport_sm_response_ok = Opened("link", read, <<>>)
  BY <1>3 DEF passport_sm_response_ok, Lost, Good
<1>4. Good => wire.body = Reply(DataFor(stage), SwFor(stage))
  BY DEF Parts, MessageInv, Good
<1> QED
  BY <1>1, <1>2, <1>3, <1>4

LEMMA HeardOk ==
  ASSUME DocumentInv, Parts, Secure, wire.dir = "resp", Good,
         NEW data \in Seq(Nat), data = DataFor(stage), SwFor(stage) = Ok
  PROVE  passport_sm_response_ok = Opened("", Moved, BytesOf(data))
<1>1. wire.body = Reply(data, Ok) /\ wire.res = "ok"
  BY Heard DEF Good
<1> QED
  BY <1>1, ReplyRead DEF Moved

\* What a protected command leaves of the read r.
LEMMA SentFacts ==
  ASSUME NEW r, NEW s, NEW op, NEW cmd, DOMAIN r = DOMAIN NoRead,
         Transceive([r EXCEPT !.session = sm_protect(s, cmd).session], op,
                    sm_protect(s, cmd).apdu)
  PROVE  /\ stage' = op /\ wire'.dir = "cmd" /\ chip' = chip
         /\ read'.dg1 = r.dg1 /\ read'.dg2 = r.dg2 /\ read'.total = r.total
<1>1. /\ stage' = op /\ wire'.dir = "cmd" /\ chip' = chip
      /\ read' = [r EXCEPT !.session = sm_protect(s, cmd).session]
  BY DEF Transceive, Apdu
<1> QED
  BY <1>1, WithSession

LEMMA PaceSelectAidParts ==
  ASSUME DocumentInv, Parts, pace_select_aid_ready
  PROVE  Parts'
<1> DEFINE u == passport_sm_response_ok
           cmd == Select(Fid.dg1)
           s == Advanced(read.session)
<1>1. UNCHANGED <<doc, ask, faulted>> /\ stage = "pace_select_aid" /\ wire.dir = "resp"
  BY Zenon DEF pace_select_aid_ready, Answered
<1>2. Secure
  BY <1>1 DEF Secure, SecureOps
<1>3. CASE ~Good
  <2>1. faulted /\ u = Opened("link", read, <<>>)
    BY <1>1, <1>2, <1>3, Heard
  <2> HIDE DEF u
  <2>2. ~u.ok
    BY <2>1, NotOpened
  <2>3. Lost
    BY <1>1, <1>2, <1>3, NotGood
  <2>4. Fail("link")
    BY <2>2, <2>3, Zenon DEF pace_select_aid_ready, u
  <2> QED
    BY <1>1, <2>1, <2>4, LinkFailParts DEF LinkWhys
<1>4. CASE Good /\ stage \in doc.refuses
  <2>1. DataFor(stage) = <<>> /\ SwFor(stage) = NotFound
    BY <1>1, <1>4 DEF DataFor, SwFor
  <2>2. wire.res = "ok" /\ wire.body = Reply(<<>>, NotFound)
    BY <1>1, <1>2, <1>4, <2>1, Heard DEF Good
  <2>3. u = Opened("integrity", read, <<>>) /\ ~Lost
    BY <2>2, NotFoundRead DEF Lost
  <2> HIDE DEF u
  <2>4. ~u.ok
    BY <2>3, NotOpened
  <2>5. Fail("application")
    BY <2>3, <2>4, Zenon DEF pace_select_aid_ready, u
  <2>6. Excused("application")
    BY <1>1, <1>4 DEF Excused, RefusalOf
  <2> QED
    BY <1>1, <2>5, <2>6, FailParts
<1>5. CASE Good /\ stage \notin doc.refuses
  <2>1. DataFor(stage) = <<>> /\ SwFor(stage) = Ok /\ <<>> \in Seq(Nat)
    BY <1>1, <1>5 DEF DataFor, SwFor
  <2>2. u = Opened("", Moved, BytesOf(<<>>))
    BY <1>1, <1>2, <1>5, <2>1, HeardOk
  <2> HIDE DEF u
  <2>3. u.ok /\ u.r = Moved
    BY <2>2, Zenon DEF Opened
  <2>4. Secured(Moved, Moved.session, "select_dg1", cmd, Fail("build"))
    BY <2>3, Zenon DEF pace_select_aid_ready, u
  <2>5. sm_protect(s, cmd).ok /\ Moved.session = s /\ DOMAIN Moved = DOMAIN NoRead
    BY SelectOk, MovedFacts
  <2>6. Transceive([Moved EXCEPT !.session = sm_protect(s, cmd).session], "select_dg1",
                   sm_protect(s, cmd).apdu)
    BY <2>4, <2>5 DEF Secured
  <2>7. /\ stage' = "select_dg1" /\ wire'.dir = "cmd"
        /\ read'.dg1 = <<>> /\ read'.dg2 = <<>>
    BY <1>1, <2>5, <2>6, SentFacts, MovedFacts DEF Parts, FileInv
  <2>8. FileInv'
    BY <2>7 DEF FileInv, Answers
  <2>9. CommandFor(stage)' = cmd
    BY <2>7, CommandNext
  <2>10. "select_dg1" \in SecureOps /\ stage # "done"
    BY <1>1 DEF SecureOps
  <2> HIDE DEF cmd, s
  <2> QED
    BY <1>1, <2>5, <2>6, <2>8, <2>9, <2>10, SecuredParts
<1> QED
  BY <1>3, <1>4, <1>5

\* The first READ BINARY of a data group.
LEMMA FirstRead ==
  ASSUME NEW s
  PROVE  sm_protect(s, Read(0, FirstLe)).ok
<1>1. FirstLe \in 1..255
  BY DocumentAssumption
<1> QED
  BY <1>1, ReadOk

LEMMA FirstCommand ==
  ASSUME NEW f \in {"dg1", "dg2"}, stage' = (IF f = "dg1" THEN "dg1_rest" ELSE "dg2_rest"),
         (read[f])' = <<>>, read'.total = 0
  PROVE  CommandFor(stage)' = Read(0, FirstLe)
<1>1. Len(<<>>) = 0 /\ NextLe(f)' = FirstLe
  BY DEF NextLe
<1> QED
  BY <1>1, CommandNext

LEMMA WithoutTotal ==
  ASSUME DocumentInv
  PROVE  LET r == [Moved EXCEPT !.total = 0]
         IN  /\ DOMAIN r = DOMAIN NoRead /\ r.total = 0
             /\ r.dg1 = read.dg1 /\ r.dg2 = read.dg2
BY MovedFacts DEF NoRead

LEMMA SelectDg1Parts ==
  ASSUME DocumentInv, Parts, passport_select_dg1_ready
  PROVE  Parts'
<1> DEFINE u == passport_sm_response_ok
           cmd == Read(0, FirstLe)
           s == Advanced(read.session)
           r == [Moved EXCEPT !.total = 0]
<1>1. UNCHANGED <<doc, ask, faulted>> /\ stage = "select_dg1" /\ wire.dir = "resp"
  BY Zenon DEF passport_select_dg1_ready, Answered
<1>2. Secure
  BY <1>1 DEF Secure, SecureOps
<1>3. CASE ~Good
  <2>1. faulted /\ u = Opened("link", read, <<>>)
    BY <1>1, <1>2, <1>3, Heard
  <2> HIDE DEF u
  <2>2. ~u.ok /\ u.why = "link"
    BY <2>1, NotOpened
  <2>3. Fail("link")
    BY <2>2, Zenon DEF passport_select_dg1_ready, u
  <2> QED
    BY <1>1, <2>1, <2>3, LinkFailParts DEF LinkWhys
<1>4. CASE Good
  <2>1. DataFor(stage) = <<>> /\ SwFor(stage) = Ok /\ <<>> \in Seq(Nat)
    BY <1>1 DEF DataFor, SwFor
  <2>2. u = Opened("", Moved, BytesOf(<<>>))
    BY <1>1, <1>2, <1>4, <2>1, HeardOk
  <2> HIDE DEF u
  <2>3. u.ok /\ u.r = Moved
    BY <2>2, Zenon DEF Opened
  <2>4. Secured(r, Moved.session, "dg1_rest", cmd, Fail("build"))
    BY <2>3, Zenon DEF passport_select_dg1_ready, u
  <2>5. sm_protect(s, cmd).ok /\ Moved.session = s
    BY FirstRead, MovedFacts
  <2>6. /\ DOMAIN r = DOMAIN NoRead /\ r.total = 0
        /\ r.dg1 = <<>> /\ r.dg2 = <<>>
    BY <1>1, WithoutTotal DEF Parts, FileInv
  <2> HIDE DEF r
  <2>7. Transceive([r EXCEPT !.session = sm_protect(s, cmd).session], "dg1_rest",
                   sm_protect(s, cmd).apdu)
    BY <2>4, <2>5 DEF Secured
  <2>8. /\ stage' = "dg1_rest" /\ wire'.dir = "cmd" /\ chip' = chip
        /\ read'.dg1 = <<>> /\ read'.dg2 = <<>> /\ read'.total = 0
    BY <2>6, <2>7, SentFacts
  <2>9. chip.file = "dg1"
    BY <1>1, <1>4 DEF Parts, FileInv, Answers, Good
  <2>10. Reading("dg1")'
    BY <2>8 DEF Reading
  <2>11. FileInv'
    BY <2>8, <2>9, <2>10 DEF FileInv, Answers
  <2>12. CommandFor(stage)' = cmd
    BY <2>8, FirstCommand
  <2>13. "dg1_rest" \in SecureOps /\ stage # "done"
    BY <1>1 DEF SecureOps
  <2> HIDE DEF cmd, s
  <2> QED
    BY <1>1, <2>6, <2>7, <2>11, <2>12, <2>13, SecuredParts
<1> QED
  BY <1>3, <1>4

\* One more piece of a data group has come.
RestOp(f) == IF f = "dg1" THEN "dg1_rest" ELSE "dg2_rest"
ReadTo(f, m) == [Moved EXCEPT ![f] = Slice(doc[f], 0, m), !.total = FileLength(doc, f)]

LEMMA PieceHeard ==
  ASSUME DocumentInv, Parts, Issued(doc), NEW f \in {"dg1", "dg2"}, HasFile(f), Reading(f),
         stage = RestOp(f), wire.dir = "resp", Good
  PROVE  LET u == passport_sm_response_ok
             on == ReadOn(u.r, f, u.data)
             m == Len(read[f]) + NextLe(f)
         IN  /\ u.ok /\ on.r = ReadTo(f, m)
             /\ on.next = IF m = FileLength(doc, f) THEN "whole" ELSE "more"
<1> DEFINE u == passport_sm_response_ok
           m == Len(read[f]) + NextLe(f)
<1>1. Secure /\ SwFor(stage) = Ok
  BY DEF Secure, SecureOps, RestOp, SwFor
<1>2. DataFor(stage) = Piece(f)
  BY DEF DataFor, RestOp, FileOfOp, Piece
<1>3. Piece(f) \in Seq(Nat) /\ Piece(f) # <<>>
  BY PieceFacts
<1>4. PICK d \in Seq(Nat) : d = Piece(f) /\ d # <<>>
  BY <1>3
<1>5. u = Opened("", Moved, BytesOf(d))
  BY <1>1, <1>2, <1>4, HeardOk
<1>6. BytesOf(d) = <<Piece(f)>>
  BY <1>4 DEF BytesOf
<1> HIDE DEF u
<1>7. u.ok /\ u.r = Moved /\ u.data = <<Piece(f)>>
  BY <1>5, <1>6, Zenon DEF Opened
<1>8. DOMAIN Moved = DOMAIN NoRead /\ Moved[f] = read[f] /\ Moved.total = read.total
  BY MovedFacts
<1>9. PICK r : r = Moved
  OBVIOUS
<1>10. /\ ReadOn(r, f, <<Piece(f)>>).r =
            [r EXCEPT ![f] = Slice(doc[f], 0, m), !.total = FileLength(doc, f)]
       /\ ReadOn(r, f, <<Piece(f)>>).next = IF m = FileLength(doc, f) THEN "whole" ELSE "more"
  BY <1>8, <1>9, ReadOnPiece
<1> HIDE DEF m
<1>11. /\ ReadOn(Moved, f, <<Piece(f)>>).r = ReadTo(f, m)
       /\ ReadOn(Moved, f, <<Piece(f)>>).next =
            IF m = FileLength(doc, f) THEN "whole" ELSE "more"
  BY <1>9, <1>10 DEF ReadTo
<1> QED
  BY <1>7, <1>11 DEF u, m

LEMMA ReadToFacts ==
  ASSUME DocumentInv, NEW f \in {"dg1", "dg2"}, NEW m
  PROVE  /\ DOMAIN ReadTo(f, m) = DOMAIN NoRead
         /\ ReadTo(f, m)[f] = Slice(doc[f], 0, m)
         /\ ReadTo(f, m).total = FileLength(doc, f)
         /\ ReadTo(f, m).session = Advanced(read.session)
         /\ f = "dg1" => ReadTo(f, m).dg2 = read.dg2
         /\ f = "dg2" => ReadTo(f, m).dg1 = read.dg1
BY MovedFacts DEF ReadTo, NoRead

\* There is more to read.
LEMMA MoreParts ==
  ASSUME DocumentInv, Parts, Issued(doc), NEW f \in {"dg1", "dg2"}, HasFile(f),
         stage = RestOp(f), UNCHANGED <<doc, ask, faulted>>,
         NEW m \in FirstLe..FileLength(doc, f), m # FileLength(doc, f), NEW instead,
         ReadMore(ReadTo(f, m), f, RestOp(f), instead)
  PROVE  Parts'
<1> DEFINE r == ReadTo(f, m)
           l == FileLength(doc, f)
           le == Min({l - m, Chunk})
           cmd == Read(m, le)
           s == Advanced(read.session)
<1>1. /\ doc[f] \in Seq(Nat) /\ l \in FirstLe..Len(doc[f]) /\ FirstLe \in 1..255
      /\ Chunk \in 1..255
  BY FileFacts, DocumentAssumption
<1>2. /\ DOMAIN r = DOMAIN NoRead /\ r[f] = Slice(doc[f], 0, m)
      /\ r.total = l /\ r.session = s
      /\ f = "dg1" => r.dg2 = read.dg2
      /\ f = "dg2" => r.dg1 = read.dg1
  BY ReadToFacts
<1> HIDE DEF r
<1>3. m \in FirstLe..(l - 1) /\ m \in Nat /\ l \in Nat
  <2> HIDE DEF l
  <2>1. m \in FirstLe..l /\ m # l
    BY DEF l
  <2> QED
    BY <1>1, <2>1
<1>4. Len(r[f]) = m
  <2> HIDE DEF l
  <2>1. doc[f] \in Seq(Nat) /\ 0 \in Nat /\ m \in Nat
    BY <1>1, <1>3
  <2>2. 0 + m <= Len(doc[f])
    BY <1>1, <1>3
  <2>3. Len(Slice(doc[f], 0, m)) = m
    BY <2>1, <2>2, SliceOf
  <2> QED
    BY <1>2, <2>3
<1>5. le \in 1..255
  <2> HIDE DEF l
  <2>1. l - m \in Int /\ Chunk \in Int /\ l - m >= 1
    BY <1>1, <1>3
  <2>2. le = IF l - m <= Chunk THEN l - m ELSE Chunk
    BY <2>1, MinPair
  <2> HIDE DEF le
  <2> QED
    BY <1>1, <2>1, <2>2
<1>6. Secured(r, s, RestOp(f), cmd, instead)
  <2>1. Secured(r, r.session, RestOp(f), Read(Len(r[f]), Min({r.total - Len(r[f]), Chunk})),
                instead)
    BY DEF ReadMore, r
  <2> QED
    BY <1>2, <1>4, <2>1
<1> HIDE DEF l
<1>7. sm_protect(s, cmd).ok
  <2> HIDE DEF le
  <2> QED
    BY <1>5, ReadOk
<1>8. Transceive([r EXCEPT !.session = sm_protect(s, cmd).session], RestOp(f),
                 sm_protect(s, cmd).apdu)
  BY <1>6, <1>7, Zenon DEF Secured
<1> HIDE DEF s, cmd
<1>9. /\ stage' = RestOp(f) /\ wire'.dir = "cmd" /\ chip' = chip
      /\ read'.dg1 = r.dg1 /\ read'.dg2 = r.dg2 /\ read'.total = r.total
  BY <1>2, <1>8, SentFacts
<1>10. read'[f] = r[f] /\ read'.total = l
  BY <1>2, <1>9
<1>11. Reading(f)'
  <2>1. read'.total = FileLength(doc, f)' /\ read'[f] = Slice(doc[f], 0, m)'
    BY <1>2, <1>10 DEF l
  <2>2. m \in FirstLe..(FileLength(doc, f)' - 1)
    BY <1>3 DEF l
  <2> QED
    BY <2>1, <2>2 DEF Reading
<1>12. FileInv'
  <2>1. CASE f = "dg1"
    <3>1. stage = "dg1_rest" /\ stage' = "dg1_rest"
      BY <1>9, <2>1 DEF RestOp
    <3>2. chip'.file = "dg1" /\ read'.dg2 = <<>>
      BY <1>2, <1>9, <2>1, <3>1 DEF Parts, FileInv
    <3> QED
      BY <1>11, <2>1, <3>1, <3>2 DEF FileInv, Answers
  <2>2. CASE f = "dg2"
    <3>1. stage = "dg2_rest" /\ stage' = "dg2_rest"
      BY <1>9, <2>2 DEF RestOp
    <3>2. /\ chip'.file = "dg2" /\ ask'.read_photo /\ doc'.dg2 # NoBytes
          /\ read'.dg1 = Slice(doc.dg1, 0, FileLength(doc, "dg1"))'
      BY <1>2, <1>9, <2>2, <3>1 DEF Parts, FileInv
    <3> QED
      BY <1>11, <2>2, <3>1, <3>2 DEF FileInv, Answers
  <2> QED
    BY <2>1, <2>2
<1>13. CommandFor(stage)' = cmd
  <2>1. CommandFor(stage)' = Read(Len(read'[f]), NextLe(f)')
    BY <1>9, CommandNext DEF RestOp
  <2>2. read'.total # 0
    <3>1. l # 0
      BY <1>1, <1>3
    <3> QED
      BY <1>10, <3>1
  <2>3. NextLe(f)' = le
    <3>1. NextLe(f)' = Min({read'.total - Len(read'[f]), Chunk})
      BY <2>2 DEF NextLe
    <3> QED
      BY <1>4, <1>10, <3>1
  <2> HIDE DEF le
  <2> QED
    BY <1>4, <1>10, <2>1, <2>3 DEF cmd
<1>14. RestOp(f) \in SecureOps /\ stage # "done"
  BY DEF RestOp, SecureOps
<1> HIDE DEF le
<1> QED
  BY <1>2, <1>8, <1>12, <1>13, <1>14, SecuredParts

\* EF.DG1 is whole.
LEMMA Dg2StartParts ==
  ASSUME DocumentInv, Parts, Regular, stage = "dg1_rest", UNCHANGED <<doc, ask, faulted>>,
         passport_select_dg2_start(ReadTo("dg1", FileLength(doc, "dg1")))
  PROVE  Parts'
<1> DEFINE l == FileLength(doc, "dg1")
           r == ReadTo("dg1", l)
           cmd == Select(Fid.dg2)
           s == Advanced(read.session)
<1>1. /\ DOMAIN r = DOMAIN NoRead /\ r.dg1 = Slice(doc.dg1, 0, l) /\ r.session = s
      /\ r.dg2 = read.dg2
  BY ReadToFacts
<1>2. read.dg2 = <<>>
  BY DEF Parts, FileInv
<1>3. bac_parse_dg1_mrz(r.dg1) # NoBytes
  <2>1. /\ doc.mrz # NoBytes
        /\ bac_parse_dg1_mrz(Slice(doc.dg1, 0, FileLength(doc, "dg1"))) = doc.mrz
    BY DEF Regular, Issued
  <2> HIDE DEF r
  <2> QED
    BY <1>1, <2>1
<1>4. IF ask.read_photo
        THEN Secured(r, r.session, "select_dg2", cmd, passport_build_result_and_finish(r))
        ELSE passport_build_result_and_finish(r)
  BY <1>3, Zenon DEF passport_select_dg2_start
<1> HIDE DEF r
<1>5. CASE ~ask.read_photo
  <2>1. passport_build_result_and_finish(r)
    BY <1>4, <1>5
  <2>2. doc.dg2 \in Seq(Nat)
    BY DEF Regular, Issued
  <2>3. 0 \in 0..Len(doc.dg2) /\ Slice(doc.dg2, 0, 0) = <<>>
    BY <2>2, EmptySlice
  <2>4. PICK n \in 0..Len(doc.dg2) : r.dg2 = Slice(doc.dg2, 0, n)
    BY <1>1, <1>2, <2>3
  <2>5. r.dg2 = <<>>
    BY <1>1, <1>2
  <2> QED
    BY <1>1, <1>5, <2>1, <2>4, <2>5, ResultParts
<1>6. CASE ask.read_photo
  <2>1. sm_protect(s, cmd).ok
    BY SelectOk
  <2>2. Secured(r, s, "select_dg2", cmd, passport_build_result_and_finish(r))
    BY <1>1, <1>4, <1>6
  <2>3. Transceive([r EXCEPT !.session = sm_protect(s, cmd).session], "select_dg2",
                   sm_protect(s, cmd).apdu)
    BY <2>1, <2>2, Zenon DEF Secured
  <2> HIDE DEF s
  <2>4. /\ stage' = "select_dg2" /\ wire'.dir = "cmd"
        /\ read'.dg1 = Slice(doc.dg1, 0, l) /\ read'.dg2 = <<>>
    BY <1>1, <1>2, <2>3, SentFacts
  <2>5. FileInv'
    BY <1>6, <2>4 DEF FileInv, Answers
  <2>6. CommandFor(stage)' = cmd
    BY <2>4, CommandNext
  <2>7. "select_dg2" \in SecureOps /\ stage # "done"
    BY DEF SecureOps
  <2> HIDE DEF cmd, l
  <2> QED
    BY <1>1, <2>3, <2>5, <2>6, <2>7, SecuredParts
<1> QED
  BY <1>5, <1>6

LEMMA Dg1RestParts ==
  ASSUME DocumentInv, Parts, Regular, passport_dg1_rest_ready
  PROVE  Parts'
<1> DEFINE u == passport_sm_response_ok
           on == ReadOn(u.r, "dg1", u.data)
           m == Len(read.dg1) + NextLe("dg1")
           l == FileLength(doc, "dg1")
<1>1. UNCHANGED <<doc, ask, faulted>> /\ stage = "dg1_rest" /\ wire.dir = "resp"
  BY Zenon DEF passport_dg1_rest_ready, Answered
<1>2. Secure
  BY <1>1 DEF Secure, SecureOps
<1>3. CASE ~Good
  <2>1. faulted /\ u = Opened("link", read, <<>>)
    BY <1>1, <1>2, <1>3, Heard
  <2> HIDE DEF u
  <2>2. ~u.ok /\ u.why = "link"
    BY <2>1, NotOpened
  <2>3. Fail(u.why)
    BY <2>2, Zenon DEF passport_dg1_rest_ready, u
  <2> QED
    BY <1>1, <2>1, <2>2, <2>3, LinkFailParts DEF LinkWhys
<1>4. CASE Good
  <2>1. Issued(doc) /\ HasFile("dg1") /\ Reading("dg1") /\ stage = RestOp("dg1")
    BY <1>1 DEF Regular, HasFile, Parts, FileInv, RestOp
  <2>2. /\ u.ok /\ on.r = ReadTo("dg1", m)
        /\ on.next = IF m = l THEN "whole" ELSE "more"
    BY <1>1, <1>4, <2>1, PieceHeard
  <2>3. m \in FirstLe..l
    BY <2>1, PieceFacts
  <2>4. CASE m = l
    <3>1. on.next = "whole" /\ on.next # "more"
      BY <2>2, <2>4
    <3>2. passport_select_dg2_start(on.r)
      <4> HIDE DEF m, l
      <4> QED
        BY <2>2, <3>1, Zenon DEF passport_dg1_rest_ready
    <3> HIDE DEF on, m
    <3> QED
      BY <1>1, <2>2, <2>4, <3>2, Dg2StartParts
  <2>5. CASE m # l
    <3>1. on.next = "more"
      BY <2>2, <2>5
    <3>2. ReadMore(on.r, "dg1", "dg1_rest", Fail("build"))
      <4> HIDE DEF m, l
      <4> QED
        BY <2>2, <3>1, Zenon DEF passport_dg1_rest_ready
    <3> HIDE DEF on, m
    <3>3. ReadMore(ReadTo("dg1", m), "dg1", RestOp("dg1"), Fail("build"))
      BY <2>2, <3>2 DEF RestOp
    <3> QED
      BY <1>1, <2>1, <2>3, <2>5, <3>3, MoreParts
  <2> QED
    BY <2>4, <2>5
<1> QED
  BY <1>3, <1>4

LEMMA SelectDg2Parts ==
  ASSUME DocumentInv, Parts, Regular, passport_select_dg2_ready
  PROVE  Parts'
<1> DEFINE u == passport_sm_response_ok
           cmd == Read(0, FirstLe)
           s == Advanced(read.session)
           r == [Moved EXCEPT !.total = 0]
<1>1. UNCHANGED <<doc, ask, faulted>> /\ stage = "select_dg2" /\ wire.dir = "resp"
  BY Zenon DEF passport_select_dg2_ready, Answered
<1>2. Secure
  BY <1>1 DEF Secure, SecureOps
<1>3. /\ ask.read_photo /\ read.dg1 = Slice(doc.dg1, 0, FileLength(doc, "dg1"))
      /\ read.dg2 = <<>>
  BY <1>1 DEF Parts, FileInv
<1>4. ASSUME ~u.ok, u.r = read, faulted \/ doc.dg2 = NoBytes
      PROVE  Parts'
  <2> HIDE DEF u
  <2>1. passport_build_result_and_finish(read)
    BY <1>4, Zenon DEF passport_select_dg2_ready, u
  <2>2. doc.dg2 \in Seq(Nat)
    BY DEF Regular, Issued
  <2>3. 0 \in 0..Len(doc.dg2) /\ Slice(doc.dg2, 0, 0) = <<>>
    BY <2>2, EmptySlice
  <2>4. PICK n \in 0..Len(doc.dg2) : read.dg2 = Slice(doc.dg2, 0, n)
    BY <1>3, <2>3
  <2> QED
    BY <1>1, <1>3, <1>4, <2>1, <2>4, ResultParts
<1>5. CASE ~Good
  <2>1. faulted /\ u = Opened("link", read, <<>>)
    BY <1>1, <1>2, <1>5, Heard
  <2> HIDE DEF u
  <2>2. ~u.ok /\ u.r = read
    BY <2>1, Zenon DEF Opened
  <2> QED
    BY <1>4, <2>1, <2>2
<1>6. CASE Good /\ doc.dg2 = NoBytes
  <2>1. DataFor(stage) = <<>> /\ SwFor(stage) = NotFound
    BY <1>1, <1>6 DEF DataFor, SwFor
  <2>2. wire.body = Reply(<<>>, NotFound) /\ wire.res = "ok"
    BY <1>1, <1>2, <1>6, <2>1, Heard DEF Good
  <2>3. u = Opened("integrity", read, <<>>)
    BY <2>2, NotFoundRead
  <2> HIDE DEF u
  <2>4. ~u.ok /\ u.r = read
    BY <2>3, Zenon DEF Opened
  <2> QED
    BY <1>4, <1>6, <2>4
<1>7. CASE Good /\ doc.dg2 # NoBytes
  <2>1. DataFor(stage) = <<>> /\ SwFor(stage) = Ok /\ <<>> \in Seq(Nat)
    BY <1>1, <1>7 DEF DataFor, SwFor
  <2>2. u = Opened("", Moved, BytesOf(<<>>))
    BY <1>1, <1>2, <1>7, <2>1, HeardOk
  <2> HIDE DEF u
  <2>3. u.ok /\ u.r = Moved
    BY <2>2, Zenon DEF Opened
  <2>4. Secured(r, Moved.session, "dg2_rest", cmd, passport_build_result_and_finish(Moved))
    BY <2>3, Zenon DEF passport_select_dg2_ready, u
  <2>5. sm_protect(s, cmd).ok /\ Moved.session = s
    BY FirstRead, MovedFacts
  <2>6. /\ DOMAIN r = DOMAIN NoRead /\ r.total = 0
        /\ r.dg1 = read.dg1 /\ r.dg2 = <<>>
    BY <1>3, WithoutTotal
  <2> HIDE DEF r
  <2>7. Transceive([r EXCEPT !.session = sm_protect(s, cmd).session], "dg2_rest",
                   sm_protect(s, cmd).apdu)
    BY <2>4, <2>5, Zenon DEF Secured
  <2>8. /\ stage' = "dg2_rest" /\ wire'.dir = "cmd" /\ chip' = chip
        /\ read'.dg1 = read.dg1 /\ read'.dg2 = <<>> /\ read'.total = 0
    BY <2>6, <2>7, SentFacts
  <2>9. chip.file = "dg2"
    BY <1>1, <1>7 DEF Parts, FileInv, Answers, Good
  <2>10. Reading("dg2")'
    BY <2>8 DEF Reading
  <2>11. FileInv'
    BY <1>1, <1>3, <1>7, <2>8, <2>9, <2>10 DEF FileInv, Answers
  <2>12. CommandFor(stage)' = cmd
    BY <2>8, FirstCommand
  <2>13. "dg2_rest" \in SecureOps /\ stage # "done"
    BY <1>1 DEF SecureOps
  <2> HIDE DEF cmd, s
  <2> QED
    BY <1>1, <2>6, <2>7, <2>11, <2>12, <2>13, SecuredParts
<1> QED
  BY <1>5, <1>6, <1>7

LEMMA Dg2RestParts ==
  ASSUME DocumentInv, Parts, Regular, passport_dg2_rest_ready
  PROVE  Parts'
<1> DEFINE u == passport_sm_response_ok
           on == ReadOn(u.r, "dg2", u.data)
           m == Len(read.dg2) + NextLe("dg2")
           l == FileLength(doc, "dg2")
<1>1. UNCHANGED <<doc, ask, faulted>> /\ stage = "dg2_rest" /\ wire.dir = "resp"
  BY Zenon DEF passport_dg2_rest_ready, Answered
<1>2. Secure
  BY <1>1 DEF Secure, SecureOps
<1>3. /\ ask.read_photo /\ read.dg1 = Slice(doc.dg1, 0, FileLength(doc, "dg1"))
      /\ Reading("dg2") /\ doc.dg2 # NoBytes
  BY <1>1 DEF Parts, FileInv
<1>4. Issued(doc) /\ HasFile("dg2") /\ stage = RestOp("dg2")
  BY <1>1, <1>3 DEF Regular, HasFile, RestOp
<1>5. doc.dg2 \in Seq(Nat) /\ l \in FirstLe..Len(doc.dg2) /\ FirstLe \in 1..255
  BY <1>4, FileFacts, DocumentAssumption
<1>6. CASE ~Good
  <2>1. faulted /\ u = Opened("link", read, <<>>)
    BY <1>1, <1>2, <1>6, Heard
  <2>2. PICK n \in 0..Len(doc.dg2) : read.dg2 = Slice(doc.dg2, 0, n)
    <3> HIDE DEF l
    <3>1. CASE read.dg2 = <<>>
      <4>1. 0 \in 0..Len(doc.dg2) /\ Slice(doc.dg2, 0, 0) = <<>>
        BY <1>5, EmptySlice
      <4> QED
        BY <3>1, <4>1
    <3>2. CASE \E n \in FirstLe..(l - 1) : read.dg2 = Slice(doc.dg2, 0, n)
      BY <1>5, <3>2
    <3> QED
      BY <1>3, <3>1, <3>2 DEF Reading, l
  <2> HIDE DEF u
  <2>3. ~u.ok /\ u.r = read
    BY <2>1, Zenon DEF Opened
  <2>4. passport_build_result_and_finish(read)
    BY <2>3, Zenon DEF passport_dg2_rest_ready, u
  <2> QED
    BY <1>1, <1>3, <2>1, <2>2, <2>4, ResultParts
<1>7. CASE Good
  <2>1. /\ u.ok /\ on.r = ReadTo("dg2", m)
        /\ on.next = IF m = l THEN "whole" ELSE "more"
    BY <1>1, <1>3, <1>4, <1>7, PieceHeard
  <2>2. m \in FirstLe..l
    BY <1>3, <1>4, PieceFacts
  <2>3. CASE m = l
    <3>1. on.next # "more"
      BY <2>1, <2>3
    <3>2. passport_build_result_and_finish(on.r)
      <4> HIDE DEF m, l
      <4> QED
        BY <2>1, <3>1, Zenon DEF passport_dg2_rest_ready
    <3> HIDE DEF on, m
    <3>3. /\ on.r.dg2 = Slice(doc.dg2, 0, l)
          /\ on.r.dg1 = Slice(doc.dg1, 0, FileLength(doc, "dg1"))
      BY <1>3, <2>1, <2>3, ReadToFacts
    <3>4. PICK n \in 0..Len(doc.dg2) : n = FileLength(doc, "dg2")
      <4>1. l \in 0..Len(doc.dg2)
        <5> HIDE DEF l
        <5> QED
          BY <1>5
      <4> QED
        BY <4>1
    <3>5. PICK r : r = on.r
      OBVIOUS
    <3> QED
      BY <1>1, <1>3, <3>2, <3>3, <3>4, <3>5, ResultParts
  <2>4. CASE m # l
    <3>1. on.next = "more"
      BY <2>1, <2>4
    <3>2. ReadMore(on.r, "dg2", "dg2_rest", passport_build_result_and_finish(on.r))
      <4> HIDE DEF m, l
      <4> QED
        BY <2>1, <3>1, Zenon DEF passport_dg2_rest_ready
    <3> HIDE DEF on, m
    <3>3. ReadMore(ReadTo("dg2", m), "dg2", RestOp("dg2"),
                   passport_build_result_and_finish(ReadTo("dg2", m)))
      BY <2>1, <3>2 DEF RestOp
    <3> QED
      BY <1>1, <1>4, <2>2, <2>4, <3>3, MoreParts
  <2> QED
    BY <2>3, <2>4
<1> QED
  BY <1>6, <1>7

-----------------------------------------------------------------------------
(* Every step.                                                             *)

LEMMA ChipParts ==
  ASSUME DocumentInv, Parts, Regular, Chip
  PROVE  Parts'
<1>1. CASE ChipAuthenticates \/ ChipReadsAccess \/ ChipObeys
  BY <1>1, ChipAuthenticatesParts, ChipReadsAccessParts, ChipObeysParts
<1>2. CASE \/ ChipSelects \/ ChipChallenges \/ ChipSetsPace \/ ChipNonce \/ ChipMaps
           \/ ChipAgrees \/ ChipVerifies \/ ChipRefuses
  BY <1>2, ChipSelectsParts, ChipChallengesParts, ChipSetsPaceParts, ChipNonceParts,
     ChipMapsParts, ChipAgreesParts, ChipVerifiesParts, ChipRefusesParts
<1> QED
  BY <1>1, <1>2 DEF Chip

LEMMA TerminalParts ==
  ASSUME DocumentInv, Parts, Regular, Terminal
  PROVE  Parts'
<1>1. CASE nfcd_client_read_passport \/ nfcd_client_read_passport_pace
  BY <1>1, ReadPassportParts, ReadPassportPaceParts
<1>2. CASE \/ passport_select_aid_ready \/ passport_get_challenge_ready
           \/ passport_mutual_auth_ready
  BY <1>2, SelectAidParts, GetChallengeParts, MutualAuthParts
<1>3. CASE \/ passport_select_ef_cardaccess_ready \/ passport_ef_cardaccess_rest_ready
           \/ pace_mse_set_at_ready
  BY <1>3, SelectAccessParts, AccessRestParts, SetAtParts
<1>4. CASE \/ pace_get_nonce_ready \/ pace_map_nonce_ready \/ pace_key_agreement_ready
           \/ pace_mutual_auth_ready
  BY <1>4, GetNonceParts, MapNonceParts, KeyAgreementParts, PaceMutualAuthParts
<1>5. CASE \/ pace_select_aid_ready \/ passport_select_dg1_ready \/ passport_dg1_rest_ready
           \/ passport_select_dg2_ready \/ passport_dg2_rest_ready
  BY <1>5, PaceSelectAidParts, SelectDg1Parts, Dg1RestParts, SelectDg2Parts, Dg2RestParts
<1> QED
  BY <1>1, <1>2, <1>3, <1>4, <1>5 DEF Terminal

LEMMA StutterParts == Parts /\ UNCHANGED vars => Parts'
<1> SUFFICES ASSUME Parts, UNCHANGED vars PROVE Parts'
  OBVIOUS
<1>1. UNCHANGED <<doc, ask, stage, read, chip, wire, faulted, result>>
  BY DEF vars
<1>2. MessageInv'
  <2>1. CommandFor(stage)' = CommandFor(stage)
    BY <1>1 DEF CommandFor, NextLe
  <2>2. DataFor(stage)' = DataFor(stage) /\ SwFor(stage)' = SwFor(stage)
    BY <1>1 DEF DataFor, FileOfOp, NextLe, SwFor
  <2>3. Iv(read.session.ssc)' = Iv(read.session.ssc) /\ Block' = Block /\ Secure' = Secure
    BY <1>1 DEF Iv, Block, Secure
  <2>4. Reply(DataFor(stage), SwFor(stage))' = Reply(DataFor(stage), SwFor(stage))
    BY <1>1, <2>2 DEF Reply, Iv, Block
  <2> QED
    BY <1>1, <2>1, <2>3, <2>4 DEF Parts, MessageInv
<1>3. FileInv'
  BY <1>1 DEF Parts, FileInv, Answers, Reading
<1>4. HandshakeInv'
  BY <1>1 DEF Parts, HandshakeInv, Asks, Answers, RightPassword
<1>5. AccessInv'
  BY <1>1 DEF Parts, AccessInv
<1>6. ResultInv'
  BY <1>1 DEF Parts, ResultInv, ReportsTheDocument, ErrorTellsWhy, RightPassword
<1> QED
  BY <1>2, <1>3, <1>4, <1>5, <1>6 DEF Parts

\* The document and the call stay what they are.
LEMMA SameDocument ==
  ASSUME DocumentInv, [Next]_vars
  PROVE  UNCHANGED <<doc, ask>>
<1>1. Chip => UNCHANGED <<doc, ask>>
  <2>1. /\ \A c, body : ChipSays(c, body) => UNCHANGED <<doc, ask>>
        /\ ChipRejects => UNCHANGED <<doc, ask>>
    BY DEF ChipSays, ChipRejects
  <2>2. ChipAuthenticates => UNCHANGED <<doc, ask>>
    BY <2>1 DEF ChipAuthenticates
  <2>3. ASSUME ChipObeys PROVE UNCHANGED <<doc, ask>>
    <3>1. wire.body.header[1] = "select" \/ wire.body.header[1] = "read"
      BY <2>3 DEF ChipObeys, DocumentInv, SecureInv, Secure
    <3>2. (\E c, body : ChipSays(c, body)) \/ ChipRejects
      BY <2>3, <3>1, Zenon DEF ChipObeys
    <3> QED
      BY <2>1, <3>2
  <2>4. ChipAgrees \/ ChipVerifies => UNCHANGED <<doc, ask>>
    BY <2>1 DEF ChipAgrees, ChipVerifies
  <2>6. ChipRefuses => UNCHANGED <<doc, ask>>
    BY <2>1 DEF ChipRefuses
  <2>5. (\/ ChipSelects \/ ChipChallenges \/ ChipReadsAccess \/ ChipSetsPace \/ ChipNonce
         \/ ChipMaps) => UNCHANGED <<doc, ask>>
    BY <2>1 DEF ChipSelects, ChipChallenges, ChipReadsAccess, ChipSetsPace, ChipNonce, ChipMaps
  <2> QED
    BY <2>1, <2>2, <2>3, <2>4, <2>5, <2>6 DEF Chip
<1>2. Terminal => UNCHANGED <<doc, ask>>
  BY DEF Terminal, Answered, nfcd_client_read_passport, nfcd_client_read_passport_pace,
         passport_select_aid_ready, passport_get_challenge_ready, passport_mutual_auth_ready,
         passport_select_ef_cardaccess_ready, passport_ef_cardaccess_rest_ready,
         pace_mse_set_at_ready, pace_get_nonce_ready, pace_map_nonce_ready,
         pace_key_agreement_ready, pace_mutual_auth_ready, pace_select_aid_ready,
         passport_select_dg1_ready, passport_dg1_rest_ready, passport_select_dg2_ready,
         passport_dg2_rest_ready
<1> QED
  BY <1>1, <1>2 DEF Next, LinkFails, vars

LEMMA ReadStep == DocumentInv /\ ReadInv /\ [Next]_vars => ReadInv'
<1> SUFFICES ASSUME DocumentInv, ReadInv, [Next]_vars, Regular'
             PROVE  Parts'
  BY DEF ReadInv
<1>1. Regular
  BY SameDocument DEF Regular
<1>2. Parts
  BY <1>1 DEF ReadInv
<1> QED
  BY <1>1, <1>2, ChipParts, TerminalParts, LinkParts, StutterParts DEF Next

(***************************************************************************)
(* The invariant of a read of a document as issuers make them: what every  *)
(* protected command asks and its answer brings, how far each file has     *)
(* been read, and that only the link, the password or a document that does *)
(* not take the protocol ends a handshake.                                 *)
(***************************************************************************)
THEOREM ReadInvariant == Spec => []ReadInv
<1>1. Init => ReadInv
  BY InitParts DEF ReadInv
<1> QED
  BY <1>1, DocumentInvariant, ReadStep, PTL DEF Spec

(***************************************************************************)
(* Whatever is on the document, however READ BINARY cuts it into pieces    *)
(* (FirstLe, Chunk), whatever the counters start at and wherever the link  *)
(* fails: a result is the MRZ and the picture of the document, with the    *)
(* fields of a TD1 or TD3 MRZ and none of another, provided its files are  *)
(* as an issuer makes them and the call is what it is said to be.          *)
(***************************************************************************)
THEOREM ResultIsTheDocument ==
  Spec => [](Issued(doc) /\ Entered(doc, ask) => ReportsTheDocument)
<1>1. ReadInv => (Issued(doc) /\ Entered(doc, ask) => ReportsTheDocument)
  BY DEF ReadInv, Regular, Parts, ResultInv
<1> QED
  BY <1>1, ReadInvariant, PTL

(***************************************************************************)
(* And a read that fails says why, whichever commands of the handshakes    *)
(* the document refuses: the message of each callback is about the command *)
(* that was refused, the password is blamed when it is wrong or when the   *)
(* document does not take the protocol, the typing when it is malformed,   *)
(* and everything else only when the link has failed.                      *)
(***************************************************************************)
THEOREM FailureIsExplained ==
  Spec => [](Issued(doc) /\ Entered(doc, ask) => ErrorTellsWhy)
<1>1. ReadInv => (Issued(doc) /\ Entered(doc, ask) => ErrorTellsWhy)
  BY DEF ReadInv, Regular, Parts, ResultInv
<1> QED
  BY <1>1, ReadInvariant, PTL
=============================================================================
