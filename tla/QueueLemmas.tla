---------------------------- MODULE QueueLemmas ----------------------------
(***************************************************************************)
(* Facts about the FIFO queues that the modules have for D-Bus: what is in *)
(* a sequence after Append, Tail and \o, position by position, and which   *)
(* kinds of messages are still to come in it.  The proof modules cite them *)
(* by name.                                                                *)
(***************************************************************************)
EXTENDS SequenceTheorems, TLAPS

\* A message is put at the end of a queue.
LEMMA Appended ==
  ASSUME NEW S, NEW s \in Seq(S), NEW e \in S
  PROVE  /\ Append(s, e) \in Seq(S)
         /\ Len(s) \in Nat
         /\ Len(Append(s, e)) = Len(s) + 1
         /\ \A k \in 1..Len(s) : Append(s, e)[k] = s[k]
         /\ Append(s, e)[Len(s) + 1] = e
BY AppendProperties, LenProperties

\* The message at the head of a queue is taken.
LEMMA Taken ==
  ASSUME NEW S, NEW s \in Seq(S), s # <<>>
  PROVE  /\ Head(s) = s[1] /\ Head(s) \in S
         /\ Len(s) \in Nat \ {0}
         /\ Tail(s) \in Seq(S)
         /\ Len(Tail(s)) = Len(s) - 1
         /\ \A k \in 1..Len(s) - 1 : Tail(s)[k] = s[k + 1]
BY HeadTailProperties, EmptySeq

\* A function on 1..n is a sequence of length n.
LEMMA FunctionSeq ==
  ASSUME NEW S, NEW n \in Nat, NEW f \in [1..n -> S]
  PROVE  f \in Seq(S) /\ Len(f) = n
<1>1. f \in Seq(S)
  BY SeqDef, Zenon
<1>2. DOMAIN f = 1..n /\ DOMAIN f = 1..Len(f) /\ Len(f) \in Nat
  BY <1>1, LenProperties
<1> QED
  BY <1>1, <1>2

\* A crash: one message, and then an answer to each of the n calls that are
\* out, are put at the end of a queue.
LEMMA CrashQueue ==
  ASSUME NEW S, NEW s \in Seq(S), NEW e \in S, NEW n \in Nat, NEW f \in [1..n -> S]
  PROVE  /\ Append(s, e) \o f \in Seq(S)
         /\ Len(s) \in Nat
         /\ Len(Append(s, e) \o f) = Len(s) + 1 + n
         /\ \A k \in 1..Len(s) : (Append(s, e) \o f)[k] = s[k]
         /\ (Append(s, e) \o f)[Len(s) + 1] = e
         /\ \A k \in 1..n : (Append(s, e) \o f)[Len(s) + 1 + k] = f[k]
<1> DEFINE a == Append(s, e)
<1>1. /\ a \in Seq(S) /\ Len(s) \in Nat /\ Len(a) = Len(s) + 1
      /\ \A k \in 1..Len(s) : a[k] = s[k]
      /\ a[Len(s) + 1] = e
  BY Appended
<1>2. f \in Seq(S) /\ Len(f) = n
  BY FunctionSeq
<1> HIDE DEF a
<1>3. /\ a \o f \in Seq(S)
      /\ Len(a \o f) = Len(a) + n
      /\ \A k \in 1..Len(a) + n :
           (a \o f)[k] = IF k <= Len(a) THEN a[k] ELSE f[k - Len(a)]
  BY <1>1, <1>2, ConcatProperties
<1>4. \A k \in 1..n : (a \o f)[Len(s) + 1 + k] = f[k]
  BY <1>1, <1>3
<1>5. \A k \in 1..Len(s) + 1 : (a \o f)[k] = a[k]
  BY <1>1, <1>3
<1> QED
  BY <1>1, <1>3, <1>4, <1>5 DEF a
-----------------------------------------------------------------------------
(* What is still to come in a queue, by kinds of messages.                 *)

\* No message of kind C.
Free(q, C) == \A k \in 1..Len(q) : q[k] \notin C

\* There are messages of kind C, and the last of them is one of V.
LastIn(q, C, V) ==
  \E k \in 1..Len(q) : /\ q[k] \in C /\ q[k] \in V
                       /\ \A l \in 1..Len(q) : l > k => q[l] \notin C

\* t is s without its head m, and t is s with m at its end, as far as Free and
\* LastIn can tell.
Popped(t, s, m) ==
  /\ \A C : Free(s, C) <=> m \notin C /\ Free(t, C)
  /\ \A C, V : LastIn(s, C, V) <=>
                 LastIn(t, C, V) \/ (m \in C /\ m \in V /\ Free(t, C))
  /\ \A C, V : LastIn(t, C, V) => ~Free(t, C) /\ ~Free(t, V)
Pushed(t, s, m) ==
  /\ \A C : Free(t, C) <=> Free(s, C) /\ m \notin C
  /\ \A C, V : LastIn(t, C, V) <=>
                 (m \in C /\ m \in V) \/ (m \notin C /\ LastIn(s, C, V))
  /\ \A C, V : LastIn(s, C, V) => ~Free(s, C) /\ ~Free(s, V)

LEMMA LastNotFree ==
  ASSUME NEW q, NEW C, NEW V, LastIn(q, C, V)
  PROVE  ~Free(q, C) /\ ~Free(q, V)
BY DEF Free, LastIn

\* Taking the head.
LEMMA TakenKinds ==
  ASSUME NEW S, NEW s \in Seq(S), s # <<>>
  PROVE  Popped(Tail(s), s, Head(s))
<1> DEFINE t == Tail(s)
           n == Len(s)
<1>1. /\ Head(s) = s[1] /\ n \in Nat \ {0} /\ Len(t) = n - 1
      /\ \A k \in 1..n - 1 : t[k] = s[k + 1]
  BY Taken
<1> HIDE DEF t, n
<1>2. /\ 1 \in 1..n
      /\ \A k \in 1..n - 1 : k + 1 \in 1..n
      /\ \A k \in 1..n : k = 1 \/ (k - 1 \in 1..n - 1 /\ s[k] = t[k - 1])
  BY <1>1
<1>3. ASSUME NEW C PROVE Free(s, C) <=> Head(s) \notin C /\ Free(t, C)
  BY <1>1, <1>2 DEF Free, n
<1>4. ASSUME NEW C, NEW V, LastIn(t, C, V) PROVE LastIn(s, C, V)
  <2>1. PICK k \in 1..n - 1 : /\ t[k] \in C /\ t[k] \in V
                              /\ \A l \in 1..n - 1 : l > k => t[l] \notin C
    BY <1>1, <1>4 DEF LastIn
  <2>2. s[k + 1] \in C /\ s[k + 1] \in V /\ k + 1 \in 1..n
    BY <1>1, <1>2, <2>1
  <2>3. ASSUME NEW l \in 1..n, l > k + 1 PROVE s[l] \notin C
    <3>1. l - 1 \in 1..n - 1 /\ l - 1 > k /\ s[l] = t[l - 1]
      BY <1>1, <1>2, <2>3
    <3> QED
      BY <2>1, <3>1
  <2> QED
    BY <2>2, <2>3 DEF LastIn, n
<1>5. ASSUME NEW C, NEW V, Head(s) \in C, Head(s) \in V, Free(t, C) PROVE LastIn(s, C, V)
  <2>1. ASSUME NEW l \in 1..n, l > 1 PROVE s[l] \notin C
    <3>1. l - 1 \in 1..n - 1 /\ s[l] = t[l - 1]
      BY <1>2, <2>1
    <3>2. \A k \in 1..n - 1 : t[k] \notin C
      BY <1>1, <1>5 DEF Free
    <3> QED
      BY <3>1, <3>2
  <2> QED
    BY <1>1, <1>2, <1>5, <2>1 DEF LastIn, n
<1>6. ASSUME NEW C, NEW V, LastIn(s, C, V)
      PROVE  LastIn(t, C, V) \/ (Head(s) \in C /\ Head(s) \in V /\ Free(t, C))
  <2>1. PICK k \in 1..n : /\ s[k] \in C /\ s[k] \in V
                          /\ \A l \in 1..n : l > k => s[l] \notin C
    BY <1>6 DEF LastIn, n
  <2>2. ASSUME NEW l \in 1..n - 1, l + 1 > k PROVE t[l] \notin C
    BY <1>1, <1>2, <2>1, <2>2
  <2>3. CASE k = 1
    <3>1. \A l \in 1..n - 1 : l + 1 > k
      BY <1>1, <2>3
    <3> QED
      BY <1>1, <2>1, <2>2, <2>3, <3>1 DEF Free
  <2>4. CASE k # 1
    <3>1. k - 1 \in 1..n - 1 /\ t[k - 1] = s[k]
      BY <1>1, <1>2, <2>4
    <3>2. \A l \in 1..n - 1 : l > k - 1 => t[l] \notin C
      BY <1>1, <2>2
    <3> QED
      BY <1>1, <2>1, <3>1, <3>2 DEF LastIn
  <2> QED
    BY <2>3, <2>4
<1> QED
  BY <1>3, <1>4, <1>5, <1>6, LastNotFree DEF Popped, t

\* Adding a message.
LEMMA AppendedKinds ==
  ASSUME NEW S, NEW s \in Seq(S), NEW e \in S
  PROVE  Pushed(Append(s, e), s, e)
<1> DEFINE t == Append(s, e)
           n == Len(s)
<1>1. /\ n \in Nat /\ Len(t) = n + 1 /\ t[n + 1] = e
      /\ \A k \in 1..n : t[k] = s[k]
  BY Appended
<1> HIDE DEF t, n
<1>2. /\ n + 1 \in 1..n + 1
      /\ \A k \in 1..n : k \in 1..n + 1 /\ k < n + 1
      /\ \A k \in 1..n + 1 : k = n + 1 \/ k \in 1..n
  BY <1>1
<1>3. ASSUME NEW C PROVE Free(t, C) <=> Free(s, C) /\ e \notin C
  BY <1>1, <1>2 DEF Free, n
<1>4. ASSUME NEW C, NEW V, e \in C, e \in V PROVE LastIn(t, C, V)
  <2>1. \A l \in 1..n + 1 : ~(l > n + 1)
    BY <1>1
  <2> QED
    BY <1>1, <1>2, <1>4, <2>1 DEF LastIn
<1>5. ASSUME NEW C, NEW V, e \notin C, LastIn(s, C, V) PROVE LastIn(t, C, V)
  <2>1. PICK k \in 1..n : /\ s[k] \in C /\ s[k] \in V
                          /\ \A l \in 1..n : l > k => s[l] \notin C
    BY <1>5 DEF LastIn, n
  <2>2. t[k] \in C /\ t[k] \in V /\ k \in 1..n + 1
    BY <1>1, <1>2, <2>1
  <2>3. \A l \in 1..n + 1 : l > k => t[l] \notin C
    BY <1>1, <1>2, <1>5, <2>1
  <2> QED
    BY <1>1, <2>2, <2>3 DEF LastIn
<1>6. ASSUME NEW C, NEW V, LastIn(t, C, V)
      PROVE  (e \in C /\ e \in V) \/ (e \notin C /\ LastIn(s, C, V))
  <2>1. PICK k \in 1..n + 1 : /\ t[k] \in C /\ t[k] \in V
                              /\ \A l \in 1..n + 1 : l > k => t[l] \notin C
    BY <1>1, <1>6 DEF LastIn
  <2>2. CASE k = n + 1
    BY <1>1, <2>1, <2>2
  <2>3. CASE k \in 1..n
    <3>1. e \notin C /\ s[k] \in C /\ s[k] \in V
      BY <1>1, <1>2, <2>1, <2>3
    <3>2. \A l \in 1..n : l > k => s[l] \notin C
      BY <1>1, <1>2, <2>1
    <3> QED
      BY <2>3, <3>1, <3>2 DEF LastIn, n
  <2> QED
    BY <1>2, <2>2, <2>3
<1> QED
  BY <1>3, <1>4, <1>5, <1>6, LastNotFree DEF Pushed, t
-----------------------------------------------------------------------------
(* One queue behind another, and kinds that a queue has once at most.      *)

\* At most one message of kind C.
Single(q, C) ==
  \A i, j \in 1..Len(q) : q[i] \in C /\ q[j] \in C => i = j

\* t is s followed by u, as far as Free, LastIn and Single can tell.
Joined(t, s, u) ==
  /\ \A C : Free(t, C) <=> Free(s, C) /\ Free(u, C)
  /\ \A C, V : LastIn(t, C, V) <=>
                 LastIn(u, C, V) \/ (Free(u, C) /\ LastIn(s, C, V))
  /\ \A C, V : LastIn(s, C, V) => ~Free(s, C) /\ ~Free(s, V)
  /\ \A C : \/ Single(s, C) /\ Free(u, C)
            \/ Free(s, C) /\ Single(u, C)
            => Single(t, C)

\* Taking the head of a queue takes the only message of its kind.
LEMMA TakenSingle ==
  ASSUME NEW S, NEW s \in Seq(S), s # <<>>, NEW C, Single(s, C)
  PROVE  Single(Tail(s), C) /\ (Head(s) \in C => Free(Tail(s), C))
<1> DEFINE t == Tail(s)
           n == Len(s)
<1>1. /\ Head(s) = s[1] /\ n \in Nat \ {0} /\ Len(t) = n - 1
      /\ \A k \in 1..n - 1 : t[k] = s[k + 1]
  BY Taken
<1> HIDE DEF t, n
<1>2. /\ 1 \in 1..n
      /\ \A k \in 1..n - 1 : k + 1 \in 1..n /\ k + 1 # 1
  BY <1>1
<1>3. ASSUME NEW i \in 1..n - 1, NEW j \in 1..n - 1, t[i] \in C, t[j] \in C
      PROVE  i = j
  <2>1. i + 1 = j + 1
    BY <1>1, <1>2, <1>3 DEF Single, n
  <2> QED
    BY <1>1, <2>1
<1>4. ASSUME Head(s) \in C, NEW i \in 1..n - 1 PROVE t[i] \notin C
  BY <1>1, <1>2, <1>4 DEF Single, n
<1> QED
  BY <1>1, <1>3, <1>4 DEF Single, Free, t

\* A message of a kind that is not in the queue, or not of the kind.
LEMMA AppendedSingle ==
  ASSUME NEW S, NEW s \in Seq(S), NEW e \in S, NEW C, Single(s, C),
         e \notin C \/ Free(s, C)
  PROVE  Single(Append(s, e), C)
<1> DEFINE t == Append(s, e)
           n == Len(s)
<1>1. /\ n \in Nat /\ Len(t) = n + 1 /\ t[n + 1] = e
      /\ \A k \in 1..n : t[k] = s[k]
  BY Appended
<1> HIDE DEF t, n
<1>2. \A k \in 1..n + 1 : k = n + 1 \/ k \in 1..n
  BY <1>1
<1>3. ASSUME NEW i \in 1..n + 1, NEW j \in 1..n + 1, t[i] \in C, t[j] \in C
      PROVE  i = j
  BY <1>1, <1>2, <1>3 DEF Single, Free, n
<1> QED
  BY <1>1, <1>3 DEF Single, t

\* Adding a queue.
LEMMA JoinedKinds ==
  ASSUME NEW S, NEW s \in Seq(S), NEW u \in Seq(S)
  PROVE  s \o u \in Seq(S) /\ Joined(s \o u, s, u)
<1> DEFINE t == s \o u
           n == Len(s)
           m == Len(u)
<1>1. /\ t \in Seq(S) /\ n \in Nat /\ m \in Nat /\ Len(t) = n + m
      /\ \A k \in 1..n + m : t[k] = IF k <= n THEN s[k] ELSE u[k - n]
  BY ConcatProperties, LenProperties
<1> HIDE DEF t, n, m
<1>2. /\ \A k \in 1..n : k \in 1..n + m /\ t[k] = s[k]
      /\ \A k \in 1..m : k + n \in 1..n + m /\ t[k + n] = u[k] /\ k + n > n
      /\ \A k \in 1..n + m : k \in 1..n \/ (k - n \in 1..m /\ t[k] = u[k - n])
  BY <1>1
<1>3. ASSUME NEW C PROVE Free(t, C) <=> Free(s, C) /\ Free(u, C)
  <2>1. Free(t, C) => Free(s, C) /\ Free(u, C)
    BY <1>1, <1>2 DEF Free, n, m
  <2>2. Free(s, C) /\ Free(u, C) => Free(t, C)
    BY <1>1, <1>2 DEF Free, n, m
  <2> QED
    BY <2>1, <2>2
<1>4. ASSUME NEW C, NEW V, LastIn(u, C, V) PROVE LastIn(t, C, V)
  <2>1. PICK k \in 1..m : /\ u[k] \in C /\ u[k] \in V
                          /\ \A l \in 1..m : l > k => u[l] \notin C
    BY <1>4 DEF LastIn, m
  <2>2. t[k + n] \in C /\ t[k + n] \in V /\ k + n \in 1..n + m
    BY <1>2, <2>1
  <2>3. ASSUME NEW l \in 1..n + m, l > k + n PROVE t[l] \notin C
    <3>1. l - n \in 1..m /\ l - n > k /\ t[l] = u[l - n]
      BY <1>1, <1>2, <2>3
    <3> QED
      BY <2>1, <3>1
  <2> QED
    BY <1>1, <2>2, <2>3 DEF LastIn
<1>5. ASSUME NEW C, NEW V, Free(u, C), LastIn(s, C, V) PROVE LastIn(t, C, V)
  <2>1. PICK k \in 1..n : /\ s[k] \in C /\ s[k] \in V
                          /\ \A l \in 1..n : l > k => s[l] \notin C
    BY <1>5 DEF LastIn, n
  <2>2. t[k] \in C /\ t[k] \in V /\ k \in 1..n + m
    BY <1>2, <2>1
  <2>3. ASSUME NEW l \in 1..n + m, l > k PROVE t[l] \notin C
    BY <1>2, <1>5, <2>1, <2>3 DEF Free, m
  <2> QED
    BY <1>1, <2>2, <2>3 DEF LastIn
<1>6. ASSUME NEW C, NEW V, LastIn(t, C, V)
      PROVE  LastIn(u, C, V) \/ (Free(u, C) /\ LastIn(s, C, V))
  <2>1. PICK k \in 1..n + m : /\ t[k] \in C /\ t[k] \in V
                              /\ \A l \in 1..n + m : l > k => t[l] \notin C
    BY <1>1, <1>6 DEF LastIn
  <2>2. CASE k \in 1..n
    <3>1. s[k] \in C /\ s[k] \in V
      BY <1>2, <2>1, <2>2
    <3>2. ASSUME NEW l \in 1..n, l > k PROVE s[l] \notin C
      BY <1>2, <2>1, <3>2
    <3>3. ASSUME NEW l \in 1..m PROVE u[l] \notin C
      <4>1. l + n > k
        BY <1>1, <2>2
      <4> QED
        BY <1>2, <2>1, <4>1
    <3> QED
      BY <2>2, <3>1, <3>2, <3>3 DEF LastIn, Free, n, m
  <2>3. CASE k \notin 1..n
    <3>1. k - n \in 1..m /\ u[k - n] \in C /\ u[k - n] \in V
      BY <1>2, <2>1, <2>3
    <3>2. ASSUME NEW l \in 1..m, l > k - n PROVE u[l] \notin C
      <4>1. l + n > k
        BY <1>1, <2>1, <3>2
      <4> QED
        BY <1>2, <2>1, <4>1
    <3> QED
      BY <3>1, <3>2 DEF LastIn, m
  <2> QED
    BY <2>2, <2>3
<1>7. ASSUME NEW C, Single(s, C), Free(u, C) PROVE Single(t, C)
  <2>1. ASSUME NEW k \in 1..n + m, t[k] \in C PROVE k \in 1..n /\ s[k] \in C
    BY <1>2, <1>7, <2>1 DEF Free, m
  <2> QED
    BY <1>1, <1>7, <2>1 DEF Single, n
<1>8. ASSUME NEW C, Free(s, C), Single(u, C) PROVE Single(t, C)
  <2>1. ASSUME NEW k \in 1..n + m, t[k] \in C PROVE k - n \in 1..m /\ u[k - n] \in C
    BY <1>2, <1>8, <2>1 DEF Free, n
  <2>2. ASSUME NEW i \in 1..n + m, NEW j \in 1..n + m, t[i] \in C, t[j] \in C
        PROVE  i = j
    <3>1. i - n = j - n
      BY <1>8, <2>1, <2>2 DEF Single, m
    <3> QED
      BY <1>1, <3>1
  <2> QED
    BY <1>1, <2>2 DEF Single
<1> QED
  BY <1>1, <1>3, <1>4, <1>5, <1>6, <1>7, <1>8, LastNotFree DEF Joined, t
=============================================================================
