------------------------- MODULE PassportRead_proofs -------------------------
(***************************************************************************)
(* What PassportRead checks on two reads, two documents and one crash of   *)
(* nfcd, proved for any number of each and for files of any length.        *)
(*                                                                         *)
(* The invariant ReadInv has three parts.                                  *)
(*   TypeInv     types, and that nfcd names no more paths than tags were   *)
(*               placed.                                                   *)
(*   ChainInv    a read, its calls on the bus and its answers in the inbox *)
(*               belong together: what struct passport_read holds at each  *)
(*               stage (RecordOK), what a call that is out and an answer   *)
(*               that is in may say (CallOK, MessageOK), that a read has   *)
(*               one of each at most, and both only once it was cancelled  *)
(*               (Distinct), and that a read that runs is waiting for      *)
(*               something that comes (Waiting).  The lengths asked for    *)
(*               and received fit the file (Fits).                         *)
(*   CurrentInv  OneReadAtATime, and that the current read is the latest   *)
(*               one with anything on the bus.                             *)
(* The actions are first reduced to a few shapes of step (StepsAreShapes): *)
(* a message of nfcd or none, a call served, a read that starts, is        *)
(* refused, goes on, ends or is aborted, a Release() answered, a message   *)
(* about the tag.  The parts of the invariant are then proved shape by     *)
(* shape, and so are those of the invariant of the session below.          *)
(***************************************************************************)
EXTENDS PassportRead, QueueLemmas

\* The calls a running read waits for.
ChainOps == ApduOps \union {"tag_proxy", "acquire"}
EarlyOps == {"tag_proxy", "acquire"}
RestOps == {"ef_cardaccess_rest", "dg1_rest", "dg2_rest"}

-----------------------------------------------------------------------------
(* The invariant, in three parts.                                          *)

\* nfcd hands out one path for each activation, at most.
TypeInv == TypeOK /\ last_path <= placed

\* Of data group f no byte has been read; remaining has not wrapped, and the
\* first bytes tell the length.
Unread(d, f) == d.len[f] = 0 /\ d.total[f] = 0
Bounded(d, f) ==
  /\ d.total[f] >= FirstLe => d.len[f] <= d.total[f]
  /\ d.total[f] = 0 => d.len[f] = 0

\* What struct passport_read says at each stage.
RecordOK(d) ==
  /\ d.stage \in ChainOps \union {"idle", "done"}
  /\ d.stage = "idle" => d = NoRead
  /\ d.answers = IF d.stage = "done" THEN 1 ELSE 0
  /\ d.stage \in ChainOps => d.path # NULL
  /\ d.acquired <=> d.stage \in ApduOps
  /\ Bounded(d, "dg1") /\ Bounded(d, "dg2")
  /\ d.stage \notin {"dg1_rest", "select_dg2", "dg2_rest"} => Unread(d, "dg1")
  /\ d.stage # "dg2_rest" => Unread(d, "dg2")

\* n more bytes of the data group that the READ BINARY op reads are no more
\* than the first command asks for or, of a file long enough for that, than
\* what remains of it.
Fits(d, op, n) ==
  op \in {"dg1_rest", "dg2_rest"} =>
    /\ d.total[FileOf(op)] = 0 => n <= FirstLe
    /\ d.total[FileOf(op)] >= FirstLe
         => d.len[FileOf(op)] + n <= d.total[FileOf(op)]

\* Nor are they more than the chip holds.
Kept(d, op, n) ==
  /\ Fits(d, op, n)
  /\ op \in RestOps => d.len[FileOf(op)] + n <= ChipLen

\* A call q that nfcd has not answered; d is its read.  A call of a read that
\* is over was cancelled.
CallOK(q, d) ==
  /\ q.op \in ChainOps =>
       /\ d.stage \in {q.op, "done"}
       /\ d.stage = q.op => q.path = d.path
       /\ d.stage = q.op /\ q.op \in {"dg1_rest", "dg2_rest"} => Fits(d, q.op, q.le)
  /\ q.op \notin ChainOps => d.stage = "done"

\* A message m of the inbox; d is its read, unless it is about the tag (id 0).
MessageOK(m, d) ==
  /\ m.id = 0 <=> m.op = "tags"
  /\ m.id # 0 =>
       \/ m.op = "release" /\ d.stage = "done" /\ m.path # NULL
       \/ /\ m.op \in ChainOps
          /\ m.op = d.stage /\ m.path = d.path
          /\ m.res = "ok" => Kept(d, m.op, m.n)

\* A read has one answer in the inbox at most, and one call out; it has both
\* only when it was cancelled.
Distinct ==
  /\ \A k, l \in 1..Len(reqs) :
       reqs[k].op \in ChainOps /\ reqs[l].op \in ChainOps /\ reqs[k].id = reqs[l].id
         => k = l
  /\ \A k, l \in 1..Len(inbox) :
       inbox[k].op \in ChainOps /\ inbox[l].op \in ChainOps /\ inbox[k].id = inbox[l].id
         => k = l
  /\ \A k \in 1..Len(reqs), l \in 1..Len(inbox) :
       reqs[k].op \in ChainOps /\ inbox[l].op \in ChainOps /\ reqs[k].id = inbox[l].id
         => read[reqs[k].id].cancelled

\* A running read waits for an answer that is in the inbox or due.
Waiting(r) ==
  Live(r) =>
    \/ \E k \in 1..Len(inbox) : inbox[k].id = r /\ inbox[k].op \in ChainOps
    \/ /\ ~read[r].cancelled
       /\ \E k \in 1..Len(reqs) : reqs[k].id = r /\ reqs[k].op = read[r].stage

ChainInv ==
  /\ \A r \in Reads : RecordOK(read[r]) /\ Waiting(r)
  /\ \A r \in Reads : r > nreads => read[r].stage = "idle"
  /\ \A k \in 1..Len(reqs) : CallOK(reqs[k], read[reqs[k].id])
  /\ \A k \in 1..Len(inbox) : MessageOK(inbox[k], read[inbox[k].id])
  /\ Distinct

\* passport_reading is the latest read that called nfcd, on tag_path.
CurrentInv ==
  /\ OneReadAtATime
  /\ passport_reading # NULL =>
       /\ read[passport_reading].path = tag_path
       /\ \A k \in 1..Len(reqs) : reqs[k].id <= passport_reading
       /\ \A k \in 1..Len(inbox) : inbox[k].id <= passport_reading
       /\ \A r \in Reads : Live(r) => r <= passport_reading

ReadInv == TypeInv /\ ChainInv /\ CurrentInv

-----------------------------------------------------------------------------
(* What a step can be.  The handlers, the functions that start a read and  *)
(* nfcd's answers are reduced to a few shapes of step.                     *)

\* Message e is put at the end of queue s; the head of queue s is taken.
Added(t, s, e) ==
  /\ Len(t) = Len(s) + 1
  /\ \A k \in 1..Len(s) : t[k] = s[k]
  /\ t[Len(s) + 1] = e
Dropped(t, s) ==
  /\ Len(s) \in Nat \ {0} /\ Len(t) = Len(s) - 1
  /\ \A k \in 1..Len(s) - 1 : t[k] = s[k + 1]

\* nfcd changes by itself: the tag comes or goes, nfcd goes or comes.
NfcdShape ==
  /\ UNCHANGED <<reqs, tag_path, passport_reading, nreads, read>>
  /\ inbox' = inbox \/ \E p \in 0..MaxTags : Added(inbox', inbox, TagsMsg(p))

\* What call q may put into the inbox.
Reply(q, m) ==
  \/ q.op = "deactivate" /\ m = TagsMsg(NULL)
  \/ /\ Awaited(q) /\ q.op \in ChainOps \union {"release"}
     /\ m.id = q.id /\ m.op = q.op /\ m.path = q.path
     /\ m.res = "ok" => Kept(read[q.id], q.op, m.n)

ServeShape ==
  /\ Dropped(reqs', reqs)
  /\ UNCHANGED <<tag_path, passport_reading, nreads, read>>
  /\ \/ inbox' = inbox /\ (reqs[1].op = "deactivate" \/ ~Awaited(reqs[1]))
     \/ \E m \in Messages : Reply(reqs[1], m) /\ Added(inbox', inbox, m)

\* The answer to the call of read r is dispatched.
Answered(r) ==
  /\ Dropped(inbox', inbox)
  /\ inbox[1].id = r /\ inbox[1].op \in ChainOps

\* Read r goes on as d, with call q.
GoesOn(d, e, q) ==
  /\ q.op = d.stage /\ q.path = d.path /\ CallOK(q, d)
  /\ d.path = e.path /\ d.client = e.client /\ d.cancelled = e.cancelled
  /\ e.stage = "tag_proxy" => d.stage = "acquire"
  /\ e.stage # "tag_proxy" => d.stage \in ApduOps

GoShape(r, d, q) ==
  /\ Answered(r) /\ inbox[1].res = "ok" /\ ~read[r].cancelled
  /\ d \in Records /\ RecordOK(d) /\ GoesOn(d, read[r], q)
  /\ read' = [read EXCEPT ![r] = d]
  /\ q.id = r /\ Added(reqs', reqs, q)
  /\ UNCHANGED <<nfcdVars, tag_path, passport_reading, nreads>>

\* What is left of a read.
Over(d) ==
  /\ d \in Records /\ d.stage = "done" /\ RecordOK(d)
  /\ ~d.client /\ ~d.cancelled /\ d.path = NULL

EndShape(r, d) ==
  /\ Answered(r)
  /\ inbox[1].op = "acquire" /\ inbox[1].res = "ok" => read[r].cancelled
  /\ Over(d) /\ read' = [read EXCEPT ![r] = d]
  /\ passport_reading' = IF read[r].client /\ passport_reading = r THEN NULL
                         ELSE passport_reading
  /\ IF read[r].acquired
       THEN Added(reqs', reqs, Call(r, "release", read[r].path, 0))
       ELSE reqs' = reqs
  /\ UNCHANGED <<nfcdVars, tag_path, nreads>>

ReleaseShape ==
  /\ Dropped(inbox', inbox) /\ inbox[1].op = "release"
  /\ Added(reqs', reqs, Call(inbox[1].id, "deactivate", inbox[1].path, 0))
  /\ UNCHANGED <<nfcdVars, tag_path, passport_reading, nreads, read>>

\* A read starts, or is refused.
StartShape(r, d, q) ==
  /\ r = nreads + 1 /\ nreads' = r
  /\ passport_reading = NULL /\ passport_reading' = r /\ tag_path # NULL
  /\ d \in Records /\ RecordOK(d) /\ d.stage = "tag_proxy"
  /\ d.client /\ ~d.cancelled /\ d.path = tag_path
  /\ read' = [read EXCEPT ![r] = d]
  /\ q = Call(r, "tag_proxy", tag_path, 0) /\ Added(reqs', reqs, q)
  /\ UNCHANGED <<nfcdVars, tag_path, inbox>>

RefuseShape(r, d) ==
  /\ r = nreads + 1 /\ nreads' = r
  /\ Over(d) /\ read' = [read EXCEPT ![r] = d]
  /\ UNCHANGED <<nfcdVars, tag_path, passport_reading, reqs, inbox>>

\* A message about the tag.  abort: there is a read to abort; late: its call
\* is out, and fails.
TagShape(changed) ==
  /\ Dropped(inbox', inbox) /\ inbox[1].op = "tags"
  /\ tag_path' = inbox[1].path
  /\ IF changed THEN tag_path' # tag_path ELSE tag_path' = tag_path
  /\ IF changed THEN passport_reading = NULL /\ passport_reading' = NULL
                ELSE UNCHANGED passport_reading
  /\ UNCHANGED <<nfcdVars, reqs, nreads, read>>

Aborted(r, d) ==
  /\ d \in Records
  /\ d = [read[r] EXCEPT !.client = FALSE, !.cancelled = TRUE]

AbortShape(r, d) ==
  /\ r = passport_reading /\ r # NULL /\ passport_reading' = NULL
  /\ inbox # <<>> /\ inbox[1].op = "tags"
  /\ tag_path' = inbox[1].path /\ tag_path' # tag_path
  /\ Aborted(r, d) /\ read' = [read EXCEPT ![r] = d]
  /\ \/ /\ \E i \in 1..Len(reqs) : reqs[i].id = r /\ reqs[i].op = read[r].stage
        /\ Len(inbox') = Len(inbox)
        /\ \A k \in 1..Len(inbox) - 1 : inbox'[k] = inbox[k + 1]
        /\ inbox'[Len(inbox)] = Answer(Call(r, read[r].stage, read[r].path, 0),
                                       "fail", 0)
     \/ /\ \A i \in 1..Len(reqs) : ~(reqs[i].id = r /\ reqs[i].op = read[r].stage)
        /\ Dropped(inbox', inbox)
  /\ UNCHANGED <<nfcdVars, reqs, nreads>>

ClientShapes ==
  \/ ReleaseShape
  \/ \E r \in Reads : \E d : \/ EndShape(r, d) \/ RefuseShape(r, d) \/ AbortShape(r, d)
                             \/ \E q \in Calls : GoShape(r, d, q) \/ StartShape(r, d, q)
  \/ \E c \in BOOLEAN : TagShape(c)

Shapes ==
  \/ NfcdShape \/ ServeShape \/ ClientShapes

LEMMA QueueFacts ==
  ASSUME NEW S, NEW s \in Seq(S)
  PROVE  /\ Len(s) \in Nat
         /\ \A e \in S : Append(s, e) \in Seq(S) /\ Added(Append(s, e), s, e)
         /\ s # <<>> => /\ Head(s) = s[1] /\ s[1] \in S
                        /\ Tail(s) \in Seq(S) /\ Dropped(Tail(s), s)
         /\ \A k \in 1..Len(s) : s[k] \in S
<1>1. Len(s) \in Nat /\ \A k \in 1..Len(s) : s[k] \in S
  BY LenProperties, ElementOfSeq
<1>2. ASSUME NEW e \in S PROVE Append(s, e) \in Seq(S) /\ Added(Append(s, e), s, e)
  BY Appended DEF Added
<1>3. ASSUME s # <<>> PROVE /\ Head(s) = s[1] /\ s[1] \in S
                            /\ Tail(s) \in Seq(S) /\ Dropped(Tail(s), s)
  <2>1. /\ Head(s) = s[1] /\ Head(s) \in S
        /\ Len(s) \in Nat \ {0} /\ Tail(s) \in Seq(S) /\ Len(Tail(s)) = Len(s) - 1
        /\ \A k \in 1..Len(s) - 1 : Tail(s)[k] = s[k + 1]
    BY <1>3, Taken
  <2> QED
    BY <2>1 DEF Dropped
<1> QED
  BY <1>1, <1>2, <1>3

\* An answer to call q, of n bytes, if it is one that the chip may give.
LEMMA ReplyFacts ==
  ASSUME TypeOK, ChainInv, NEW q \in Calls, CallOK(q, read[q.id]),
         Awaited(q), q.op \in ChainOps, NEW n \in Lengths(q)
  PROVE  Answer(q, "ok", n) \in Messages /\ Reply(q, Answer(q, "ok", n))
<1> DEFINE d == read[q.id]
<1>1. d \in Records /\ q.id \in Reads
  BY DEF TypeOK, Calls
<1>2. d.stage = q.op
  BY DEF Awaited, ChainOps, ApduOps, BacOps, PaceOps, DgOps
<1>3. /\ n \in 0..ChipLen
      /\ Kept(d, q.op, n)
  <2>1. CASE q.op \in RestOps
    <3> DEFINE l == d.len[FileOf(q.op)]
    <3>1. l \in 0..ChipLen
      BY <1>1 DEF Records, FileOf, Files
    <3>2. ChipLen \in Nat /\ q.le \in Nat
      BY PassportAssumption DEF Calls
    <3>3. n \in 1..(IF q.le < ChipLen - l THEN q.le ELSE ChipLen - l)
      BY <2>1 DEF Lengths, RestOps
    <3>4. n \in 0..ChipLen /\ n <= q.le /\ l + n <= ChipLen
      BY <3>1, <3>2, <3>3
    <3>5. Fits(d, q.op, n)
      <4>1. CASE q.op \in {"dg1_rest", "dg2_rest"}
        <5>1. Fits(d, q.op, q.le)
          BY <1>2, <4>1 DEF CallOK, ChainOps, ApduOps, DgOps
        <5>2. d.total[FileOf(q.op)] \in Nat /\ FirstLe \in Nat
          <6>1. FileOf(q.op) \in Files
            BY DEF FileOf, Files
          <6>2. d.total[FileOf(q.op)] \in {0} \union FileLens
            BY <1>1, <6>1 DEF Records
          <6>3. (\A k \in FileLens : k \in Nat) /\ FirstLe \in Nat
            BY PassportAssumption
          <6> QED
            BY <6>2, <6>3
        <5> QED
          BY <3>1, <3>2, <3>4, <4>1, <5>1, <5>2 DEF Fits
      <4> QED
        BY <4>1 DEF Fits
    <3> QED
      BY <3>4, <3>5 DEF Kept
  <2>2. CASE q.op \notin RestOps
    BY <2>2, PassportAssumption DEF Lengths, RestOps, Fits, Kept
  <2> QED
    BY <2>1, <2>2
<1>4. Answer(q, "ok", n) \in Messages
  BY <1>3 DEF Answer, Messages, Calls, Reads
<1> QED
  BY <1>3, <1>4 DEF Reply, Answer

\* Nor does an error say more.
LEMMA RefuseFacts ==
  ASSUME TypeOK, NEW q \in Calls, Awaited(q), q.op \in ChainOps \union {"release"},
         NEW res \in {"ok", "fail"}, res = "ok" => q.op \notin RestOps
  PROVE  Answer(q, res, 0) \in Messages /\ Reply(q, Answer(q, res, 0))
BY PassportAssumption DEF Answer, Messages, Calls, Reads, Reply, Fits, Kept, RestOps

LEMMA ServeIsShape ==
  ASSUME TypeOK, ChainInv, Serve
  PROVE  TypeOK' /\ ServeShape
<1> DEFINE q == Head(reqs)
<1>1. /\ reqs # <<>> /\ reqs' = Tail(reqs)
      /\ UNCHANGED <<up, crashes, attached, placed, last_path, tag_path, isodep,
                     passport_reading, nreads, read>>
      /\ ServeProxy(q) \/ ServeAcquire(q) \/ ServeApdu(q)
         \/ ServeRelease(q) \/ ServeDeactivate(q)
  BY DEF Serve, clientVars
<1>2. /\ q = reqs[1] /\ q \in Calls /\ Dropped(reqs', reqs) /\ reqs' \in Seq(Calls)
      /\ CallOK(q, read[q.id]) /\ q.id \in Reads
  <2>1. /\ q = reqs[1] /\ reqs[1] \in Calls
        /\ Tail(reqs) \in Seq(Calls) /\ Dropped(Tail(reqs), reqs)
    BY <1>1, QueueFacts DEF TypeOK
  <2> QED
    BY <2>1, <1>1 DEF ChainInv, Dropped, Calls
<1> HIDE DEF q
<1>3. \/ inbox' = inbox /\ (q.op = "deactivate" \/ ~Awaited(q))
      \/ \E m \in Messages : Reply(q, m) /\ inbox' = Append(inbox, m)
  <2>2. CASE q.op \in ChainOps /\ Refuse(q)
    BY <2>2, <1>2, RefuseFacts DEF Refuse
  <2>1. CASE q.op \in ChainOps /\ Take(q)
    BY <2>1, <2>2, <1>2, ReplyFacts DEF Take
  <2>3. CASE ServeProxy(q)
    BY <2>3, <2>1 DEF ServeProxy, ChainOps
  <2>4. CASE ServeAcquire(q)
    <3>1. q.op = "acquire" /\ q.op \notin RestOps /\ q.op \in ChainOps
      BY <2>4 DEF ServeAcquire, ChainOps, RestOps
    <3>2. CASE Refuse(q)
      BY <3>1, <3>2, <2>2
    <3>3. CASE inbox' = IF Awaited(q) THEN Append(inbox, Answer(q, "ok", 0)) ELSE inbox
      BY <3>1, <3>3, <1>2, RefuseFacts
    <3> QED
      BY <3>2, <3>3, <2>4 DEF ServeAcquire
  <2>5. CASE ServeApdu(q)
    <3>1. q.op \in ChainOps
      BY <2>5 DEF ServeApdu, ChainOps
    <3>2. Take(q) \/ Refuse(q)
      BY <2>5 DEF ServeApdu
    <3> QED
      BY <3>1, <3>2, <2>1, <2>2
  <2>6. CASE ServeRelease(q)
    <3>1. q.op = "release" /\ q.op \notin RestOps /\ Awaited(q)
      BY <2>6 DEF ServeRelease, RestOps, Awaited
    <3>2. inbox' = Append(inbox, Answer(q, "ok", 0))
      BY <2>6 DEF ServeRelease
    <3> QED
      BY <3>1, <3>2, <1>2, RefuseFacts
  <2>7. CASE ServeDeactivate(q)
    <3>1. q.op = "deactivate" /\ (inbox' = inbox \/ inbox' = Append(inbox, TagsMsg(NULL)))
      BY <2>7 DEF ServeDeactivate, Signal
    <3>2. TagsMsg(NULL) \in Messages
      BY PassportAssumption DEF TagsMsg, Messages, NULL
    <3> QED
      BY <3>1, <3>2 DEF Reply
  <2> QED
    BY <1>1, <2>3, <2>4, <2>5, <2>6, <2>7
<1>4. \A m \in Messages : Append(inbox, m) \in Seq(Messages)
                          /\ Added(Append(inbox, m), inbox, m)
  BY QueueFacts DEF TypeOK
<1>5. /\ inbox' \in Seq(Messages)
      /\ \/ inbox' = inbox /\ (q.op = "deactivate" \/ ~Awaited(q))
         \/ \E m \in Messages : Reply(q, m) /\ Added(inbox', inbox, m)
  BY <1>3, <1>4, Zenon DEF TypeOK
<1>6. ntag' \in 0..MaxTags /\ locks' \in Nat /\ session' \in 0..MaxReads
  <2>1. ntag \in 0..MaxTags /\ locks \in Nat /\ session \in 0..MaxReads /\ q.id \in 0..MaxReads
        /\ 0 \in 0..MaxTags /\ 0 \in 0..MaxReads
    BY <1>2, PassportAssumption DEF TypeOK, Reads
  <2> QED
    BY <2>1, <1>1 DEF ServeProxy, ServeAcquire, ServeApdu, ServeRelease,
                      ServeDeactivate, NULL
<1> QED
  BY <1>1, <1>2, <1>5, <1>6 DEF TypeOK, ServeShape

-----------------------------------------------------------------------------
(* The handlers.                                                           *)

\* Where nothing has been read remaining has not wrapped.
LEMMA UnreadBounded ==
  ASSUME NEW d, Unread(d, "dg1"), Unread(d, "dg2")
  PROVE  Bounded(d, "dg1") /\ Bounded(d, "dg2")
BY DEF Unread, Bounded

LEMMA NoReadFacts ==
  /\ NoRead \in Records /\ NoRead.stage = "idle" /\ NoRead.path = NULL
  /\ NoRead.client = FALSE /\ NoRead.cancelled = FALSE /\ NoRead.acquired = FALSE
  /\ NoRead.len = [f \in Files |-> 0] /\ NoRead.total = [f \in Files |-> 0]
  /\ NoRead.answers = 0 /\ NoRead.reply = "none"
BY PassportAssumption DEF NoRead, Records, NULL

LEMMA EndedOver ==
  ASSUME NEW d, d.answers = 0, NEW reply \in {"error", "success"},
         NEW photo \in {"none", "part", "whole"}
  PROVE  Over(Ended(d, reply, photo))
<1> DEFINE e == Ended(d, reply, photo)
<1>1. /\ e \in Records /\ e.stage = "done" /\ e.path = NULL /\ e.answers = 1
      /\ e.client = FALSE /\ e.cancelled = FALSE /\ e.acquired = FALSE
      /\ e.len = [f \in Files |-> 0] /\ e.total = [f \in Files |-> 0]
  <2>1. PICK n \in Records : n = NoRead
    BY NoReadFacts
  <2>2. PICK n1 \in Records : n1 = [n EXCEPT !.stage = "done"]
    BY DEF Records
  <2>3. PICK n2 \in Records : n2 = [n1 EXCEPT !.reply = reply]
    BY DEF Records
  <2>4. PICK n3 \in Records : n3 = [n2 EXCEPT !.photo = photo]
    BY DEF Records
  <2>5. PICK n4 \in Records : n4 = [n3 EXCEPT !.answers = 1]
    BY DEF Records
  <2>0. d.answers + 1 = 1
    OBVIOUS
  <2>6. e = n4
    BY <2>0, <2>1, <2>2, <2>3, <2>4, <2>5, Zenon DEF Ended
  <2>7. /\ n4.stage = "done" /\ n4.answers = 1
        /\ n4.path = n.path /\ n4.client = n.client /\ n4.cancelled = n.cancelled
        /\ n4.acquired = n.acquired /\ n4.len = n.len /\ n4.total = n.total
    BY <2>2, <2>3, <2>4, <2>5 DEF Records
  <2> QED
    BY <2>1, <2>6, <2>7, NoReadFacts
<1> HIDE DEF e
<1>2. /\ e.len["dg1"] = 0 /\ e.len["dg2"] = 0 /\ e.total["dg1"] = 0 /\ e.total["dg2"] = 0
  BY <1>1 DEF Files
<1>3. "done" \notin ApduOps /\ "done" \notin ChainOps
  BY DEF ChainOps, ApduOps, BacOps, PaceOps, DgOps
<1> QED
  BY <1>1, <1>2, <1>3 DEF Over, RecordOK, Unread, Bounded, e

\* The answer at the head of the inbox is the one its read waits for.
LEMMA DispatchFacts ==
  ASSUME TypeOK, ChainInv, NEW r \in Reads, NEW o \in ChainOps, Dispatch(r, o)
  PROVE  /\ Answered(r) /\ inbox' \in Seq(Messages)
         /\ Head(inbox) = inbox[1] /\ inbox[1] \in Messages
         /\ read[r] \in Records /\ RecordOK(read[r]) /\ read[r].stage = o
         /\ read[r].answers = 0
         /\ inbox[1].res = "ok" => Kept(read[r], o, inbox[1].n)
         /\ UNCHANGED <<nfcdVars, tag_path, isodep, nreads>>
<1>1. /\ inbox # <<>> /\ Head(inbox).id = r /\ Head(inbox).op = o
      /\ inbox' = Tail(inbox) /\ UNCHANGED <<nfcdVars, tag_path, isodep, nreads>>
  BY DEF Dispatch, clientVars
<1>2. /\ Head(inbox) = inbox[1] /\ inbox[1] \in Messages
      /\ inbox' \in Seq(Messages) /\ Dropped(inbox', inbox)
  BY <1>1, QueueFacts DEF TypeOK
<1>3. MessageOK(inbox[1], read[inbox[1].id]) /\ read[r] \in Records /\ RecordOK(read[r])
  BY <1>2 DEF ChainInv, Dropped, TypeOK
<1>4. r # 0 /\ o # "release" /\ o # "done"
  BY PassportAssumption DEF Reads, ChainOps, ApduOps, BacOps, PaceOps, DgOps
<1>5. read[r].stage = o /\ (inbox[1].res = "ok" => Kept(read[r], o, inbox[1].n))
  BY <1>1, <1>2, <1>3, <1>4 DEF MessageOK
<1> QED
  BY <1>1, <1>2, <1>3, <1>4, <1>5 DEF Answered, RecordOK

LEMMA SendIsGo ==
  ASSUME TypeOK, ChainInv, NEW r \in Reads, NEW o \in ChainOps, Dispatch(r, o),
         Ok(r), NEW d \in Records, NEW op \in ApduOps \union {"acquire"}, NEW le \in Nat,
         Send(r, d, op, le),
         d.path = read[r].path, d.client = read[r].client,
         d.cancelled = read[r].cancelled,
         RecordOK([d EXCEPT !.stage = op]),
         op \in {"dg1_rest", "dg2_rest"} => Fits(d, op, le),
         op = "acquire" <=> o = "tag_proxy"
  PROVE  TypeOK' /\ \E e, q : e \in Records /\ q \in Calls /\ GoShape(r, e, q)
<1> DEFINE e == [d EXCEPT !.stage = op]
           q == Call(r, op, d.path, le)
<1>1. /\ Answered(r) /\ inbox' \in Seq(Messages)
      /\ Head(inbox) = inbox[1] /\ read[r].stage = o
      /\ read[r] \in Records /\ RecordOK(read[r])
      /\ UNCHANGED <<nfcdVars, tag_path, isodep, nreads>>
  BY DispatchFacts
<1>2. /\ read' = [read EXCEPT ![r] = e] /\ reqs' = Append(reqs, q)
      /\ passport_reading' = passport_reading
  BY DEF Send
<1>3. /\ e \in Records /\ e.stage = op /\ e.path = d.path /\ e.client = d.client
      /\ e.cancelled = d.cancelled /\ e.len = d.len /\ e.total = d.total
  BY DEF Records, Ops
<1>4. d.path \in 1..MaxTags
  <2>1. d.path # NULL
    BY <1>1 DEF RecordOK
  <2> QED
    BY <2>1, PassportAssumption DEF Records, NULL
<1>5. q \in Calls /\ q.id = r /\ q.op = op /\ q.path = d.path /\ q.le = le
  BY <1>4 DEF Call, Calls, Ops
<1> HIDE DEF e, q
<1>6. Added(reqs', reqs, q) /\ reqs' \in Seq(Calls)
  BY <1>2, <1>5, QueueFacts DEF TypeOK
<1>7. op \in ChainOps
  BY DEF ChainOps
<1>8. CallOK(q, e)
  BY <1>3, <1>5, <1>7 DEF CallOK, Fits
<1>9. GoesOn(e, read[r], q)
  BY <1>1, <1>3, <1>5, <1>8 DEF GoesOn
<1>10. inbox[1].res = "ok" /\ ~read[r].cancelled
  BY <1>1 DEF Ok
<1>11. GoShape(r, e, q)
  BY <1>1, <1>2, <1>3, <1>5, <1>6, <1>9, <1>10 DEF GoShape, e
<1>12. TypeOK'
  BY <1>1, <1>2, <1>3, <1>6 DEF TypeOK, nfcdVars
<1> QED
  BY <1>3, <1>5, <1>11, <1>12

LEMMA FinishIsEnd ==
  ASSUME TypeOK, ChainInv, NEW r \in Reads, NEW o \in ChainOps, Dispatch(r, o),
         NEW d, d.path = read[r].path, d.client = read[r].client,
         d.acquired = read[r].acquired, d.answers = read[r].answers,
         NEW reply \in {"error", "success"}, NEW photo \in {"none", "part", "whole"},
         passport_read_finish(r, d, reply, photo), o = "acquire" => ~Ok(r)
  PROVE  TypeOK' /\ \E e : EndShape(r, e)
<1> DEFINE e == Ended(d, reply, photo)
           q == Call(r, "release", read[r].path, 0)
<1>1. /\ Answered(r) /\ inbox' \in Seq(Messages) /\ read[r].answers = 0
      /\ read[r] \in Records /\ RecordOK(read[r]) /\ read[r].stage = o
      /\ UNCHANGED <<nfcdVars, tag_path, isodep, nreads>>
  BY DispatchFacts
<1>2. /\ read' = [read EXCEPT ![r] = e]
      /\ passport_reading' = IF read[r].client /\ passport_reading = r THEN NULL
                             ELSE passport_reading
      /\ reqs' = IF read[r].acquired THEN Append(reqs, q) ELSE reqs
  BY DEF passport_read_finish
<1>3. Over(e)
  BY <1>1, EndedOver
<1>4. q \in Calls
  <2>1. read[r].path # NULL
    BY <1>1 DEF RecordOK
  <2> QED
    BY <2>1, <1>1, PassportAssumption DEF Call, Calls, Ops, Records, NULL
<1> HIDE DEF e, q
<1>5. /\ reqs' \in Seq(Calls)
      /\ IF read[r].acquired THEN Added(reqs', reqs, q) ELSE reqs' = reqs
  BY <1>2, <1>4, QueueFacts DEF TypeOK
<1>a. inbox[1].op = "acquire" /\ inbox[1].res = "ok" => read[r].cancelled
  BY DispatchFacts DEF Dispatch, Ok
<1>6. EndShape(r, e)
  BY <1>a, <1>1, <1>2, <1>3, <1>5 DEF EndShape, q
<1>7. TypeOK'
  BY <1>1, <1>2, <1>3, <1>5, PassportAssumption DEF TypeOK, nfcdVars, Over, NULL
<1> QED
  BY <1>6, <1>7

\* What a handler that dispatches an answer does.
HandlerShape(r) ==
  \/ \E e : EndShape(r, e)
  \/ \E e, q : e \in Records /\ q \in Calls /\ GoShape(r, e, q)

LEMMA FailIsEnd ==
  ASSUME TypeOK, ChainInv, NEW r \in Reads, NEW o \in ChainOps, Dispatch(r, o), Fail(r),
         o = "acquire" => ~Ok(r)
  PROVE  TypeOK' /\ HandlerShape(r)
BY FinishIsEnd DEF Fail, HandlerShape

\* The result is that of read d, which has read more.
LEMMA ResultIsEnd ==
  ASSUME TypeOK, ChainInv, NEW r \in Reads, NEW o \in ChainOps, Dispatch(r, o),
         NEW d, d.path = read[r].path, d.client = read[r].client,
         d.acquired = read[r].acquired, d.answers = read[r].answers,
         passport_build_result_and_finish(r, d), o = "acquire" => ~Ok(r)
  PROVE  TypeOK' /\ HandlerShape(r)
<1>1. bac_extract_dg2_photo(d) \in {"none", "part", "whole"}
  BY DEF bac_extract_dg2_photo
<1> QED
  BY <1>1, FinishIsEnd DEF passport_build_result_and_finish, HandlerShape

\* Stages that have read nothing of EF.DG1.
Before == (BacOps \union PaceOps \union {"select_dg1"}) \union EarlyOps

LEMMA OpFacts ==
  /\ Before \subseteq ChainOps /\ ApduOps \subseteq ChainOps /\ ChainOps \subseteq Ops
  /\ Before \subseteq ApduOps \union EarlyOps
  /\ \A o \in Before : o \notin {"dg1_rest", "select_dg2", "dg2_rest", "idle", "done"}
  /\ \A o \in ChainOps : o \notin {"release", "deactivate", "tags", "idle", "done"}
  /\ \A o \in ChainOps : o \in ApduOps <=> o \notin EarlyOps
  /\ EarlyOps \subseteq ChainOps
BY DEF Before, EarlyOps, ChainOps, Ops, ApduOps, BacOps, PaceOps, DgOps

LEMMA StepIsShape ==
  ASSUME TypeOK, ChainInv, NEW r \in Reads, NEW o \in Before, o # "acquire",
         NEW op \in Before \ {"tag_proxy"}, op = "acquire" <=> o = "tag_proxy",
         NEW le \in Nat, Dispatch(r, o),
         IF Ok(r) THEN Send(r, read[r], op, le) ELSE Fail(r)
  PROVE  TypeOK' /\ HandlerShape(r)
<1>1. o \in ChainOps /\ op \in ApduOps \union {"acquire"} /\ op \in ChainOps
  BY OpFacts DEF EarlyOps
<1>2. /\ read[r] \in Records /\ RecordOK(read[r]) /\ read[r].stage = o
  BY <1>1, DispatchFacts
<1> DEFINE d == read[r]
           e == [d EXCEPT !.stage = op]
<1>3. /\ e \in Records /\ e.stage = op /\ e.path = d.path /\ e.answers = d.answers
      /\ e.acquired = d.acquired /\ e.len = d.len /\ e.total = d.total
  BY <1>1, <1>2, OpFacts DEF Records
<1>4. /\ op \notin {"dg1_rest", "select_dg2", "dg2_rest", "idle", "done"}
      /\ o \notin {"dg1_rest", "select_dg2", "dg2_rest", "idle", "done"}
  BY OpFacts
<1>5. /\ d.answers = 0 /\ d.path # NULL /\ Unread(d, "dg1") /\ Unread(d, "dg2")
      /\ d.acquired <=> o \in ApduOps
  BY <1>1, <1>2, <1>4 DEF RecordOK
<1>6. o \in ApduOps <=> op \in ApduOps
  BY OpFacts, <1>1 DEF EarlyOps
<1>7. RecordOK(e)
  BY <1>1, <1>3, <1>4, <1>5, <1>6, UnreadBounded DEF RecordOK, Unread
<1>8. CASE Ok(r)
  BY <1>1, <1>2, <1>4, <1>7, <1>8, SendIsGo DEF HandlerShape
<1>9. CASE ~Ok(r)
  BY <1>1, <1>9, FailIsEnd
<1> QED
  BY <1>8, <1>9

LEMMA AcquireIsShape ==
  ASSUME TypeOK, ChainInv, NEW r \in Reads, passport_acquire_ready(r)
  PROVE  TypeOK' /\ HandlerShape(r)
<1> DEFINE o == "acquire"
           op == IF read[r].use_pace THEN "select_ef_cardaccess" ELSE "select_aid"
           c == [read[r] EXCEPT !.acquired = TRUE]
           e == [c EXCEPT !.stage = op]
<1>1. Dispatch(r, o) /\ IF Ok(r) THEN Send(r, c, op, 0) ELSE Fail(r)
  BY DEF passport_acquire_ready, passport_transceive
<1>2. o \in ChainOps /\ op \in ApduOps /\ op \in Before
  BY DEF ChainOps, ApduOps, BacOps, PaceOps, Before
<1>3. /\ read[r] \in Records /\ RecordOK(read[r]) /\ read[r].stage = o
  BY <1>1, <1>2, DispatchFacts
<1>4. /\ c \in Records /\ c.path = read[r].path /\ c.answers = read[r].answers
      /\ c.client = read[r].client /\ c.cancelled = read[r].cancelled
      /\ c.acquired = TRUE /\ c.len = read[r].len /\ c.total = read[r].total
  BY <1>3 DEF Records
<1> HIDE DEF c, op
<1>5. /\ e \in Records /\ e.stage = op /\ e.path = c.path /\ e.answers = c.answers
      /\ e.acquired = c.acquired /\ e.len = c.len /\ e.total = c.total
  BY <1>2, <1>4, OpFacts DEF Records
<1>6. /\ read[r].answers = 0 /\ read[r].path # NULL
      /\ Unread(read[r], "dg1") /\ Unread(read[r], "dg2")
  BY <1>2, <1>3 DEF RecordOK
<1>7. op \notin {"dg1_rest", "select_dg2", "dg2_rest", "idle", "done"} /\ op \in ChainOps
  BY <1>2, OpFacts
<1>8. RecordOK(e)
  BY <1>2, <1>4, <1>5, <1>6, <1>7, UnreadBounded DEF RecordOK, Unread
<1>9. CASE Ok(r)
  <2>1. op # "acquire"
    BY <1>2 DEF ApduOps, BacOps, PaceOps, DgOps
  <2> QED
    BY <1>1, <1>2, <1>4, <1>7, <1>8, <1>9, <2>1, SendIsGo DEF HandlerShape
<1>10. CASE ~Ok(r)
  BY <1>1, <1>2, <1>10, FailIsEnd
<1> QED
  BY <1>9, <1>10

-----------------------------------------------------------------------------
(* Reading files.                                                          *)

LEMMA StageOK ==
  ASSUME NEW c \in Records, NEW op \in ApduOps,
         c.answers = 0, c.path # NULL, c.acquired = TRUE,
         Bounded(c, "dg1"), Bounded(c, "dg2"),
         op \notin {"dg1_rest", "select_dg2", "dg2_rest"} => Unread(c, "dg1"),
         op # "dg2_rest" => Unread(c, "dg2")
  PROVE  RecordOK([c EXCEPT !.stage = op])
<1> DEFINE e == [c EXCEPT !.stage = op]
<1>1. op \in ChainOps /\ op \in Ops /\ op \notin {"idle", "done"}
  BY OpFacts
<1>2. /\ e.stage = op /\ e.path = c.path /\ e.answers = c.answers
      /\ e.acquired = c.acquired /\ e.len = c.len /\ e.total = c.total
  BY <1>1 DEF Records
<1> HIDE DEF e
<1>3. RecordOK(e)
  BY <1>1, <1>2 DEF RecordOK, Unread, Bounded
<1> QED
  BY <1>3 DEF e

\* The bytes of an answer have been put to file f.
LEMMA GrownFacts ==
  ASSUME NEW r \in Reads, read[r] \in Records, NEW f \in Files,
         NEW n \in Nat, NEW t \in FileLens, Head(inbox).n = n, read[r].len[f] + n <= ChipLen
  PROVE  /\ Grown(r, f, t) \in Records
         /\ Grown(r, f, t).len[f] = read[r].len[f] + n /\ Grown(r, f, t).total[f] = t
         /\ \A g \in Files \ {f} : /\ Grown(r, f, t).len[g] = read[r].len[g]
                                   /\ Grown(r, f, t).total[g] = read[r].total[g]
         /\ Grown(r, f, t).path = read[r].path /\ Grown(r, f, t).client = read[r].client
         /\ Grown(r, f, t).cancelled = read[r].cancelled
         /\ Grown(r, f, t).acquired = read[r].acquired
         /\ Grown(r, f, t).answers = read[r].answers
<1>1. PICK d \in Records : d = read[r]
  OBVIOUS
<1>0. /\ d.len \in [Files -> 0..ChipLen] /\ d.len[f] \in 0..ChipLen
      /\ d.len[f] + n \in 0..ChipLen
  <2>1. d.len \in [Files -> 0..ChipLen] /\ ChipLen \in Nat
    BY PassportAssumption DEF Records
  <2> QED
    BY <1>1, <2>1
<1>2. PICK v \in [Files -> 0..ChipLen] : v = [d.len EXCEPT ![f] = d.len[f] + n]
  BY <1>0
<1>3. PICK u \in [Files -> {0} \union FileLens] : u = [d.total EXCEPT ![f] = t]
  BY DEF Records
<1>4. PICK c \in Records : c = [d EXCEPT !.len = v]
  BY DEF Records
<1>5. PICK e \in Records : e = [c EXCEPT !.total = u]
  BY DEF Records
<1>6. c.total = d.total
  BY <1>4 DEF Records
<1>7. Grown(r, f, t) = e
  <2>1. Grown(r, f, t) = [[d EXCEPT !.len = [d.len EXCEPT ![f] = d.len[f] + n]]
                         EXCEPT !.total = [d.total EXCEPT ![f] = t]]
    BY <1>1, <1>4, <1>6, <1>2 DEF Grown
  <2> QED
    BY <2>1, <1>2, <1>3, <1>4, <1>5, Zenon
<1>8. /\ e.len = v /\ e.total = u /\ e.path = d.path /\ e.client = d.client
      /\ e.cancelled = d.cancelled /\ e.acquired = d.acquired /\ e.answers = d.answers
  BY <1>4, <1>5 DEF Records
<1>9. /\ v[f] = d.len[f] + n /\ u[f] = t
      /\ \A g \in Files \ {f} : v[g] = d.len[g] /\ u[g] = d.total[g]
  BY <1>2, <1>3 DEF Records
<1> QED
  BY <1>1, <1>7, <1>8, <1>9

\* gsize remaining is a length in any case.
LEMMA RemainingIsNat ==
  ASSUME NEW d, NEW f, d.total[f] \in {0} \union FileLens, d.len[f] \in Nat
  PROVE  Remaining(d, f) \in Nat
<1>1. Gsize \in Nat /\ Gsize > 0
  BY PassportAssumption
<1>2. d.total[f] - d.len[f] \in Int
  <2>1. \A n \in FileLens : n \in Nat
    BY PassportAssumption
  <2>2. d.total[f] = 0 \/ d.total[f] \in FileLens
    OBVIOUS
  <2>3. d.total[f] \in Nat
    BY <2>1, <2>2
  <2> QED
    BY <2>3
<1> QED
  BY <1>1, <1>2 DEF Remaining

\* gsize remaining does not wrap.
LEMMA RemainingExact ==
  ASSUME NEW d, NEW f, d.total[f] \in FileLens, d.len[f] \in 0..d.total[f]
  PROVE  Remaining(d, f) = d.total[f] - d.len[f]
<1>1. d.total[f] \in Nat /\ Gsize \in Nat \ {0} /\ d.total[f] < Gsize
  BY PassportAssumption
<1>2. \A x \in 0..d.total[f] : x % Gsize = x
  BY <1>1
<1> QED
  BY <1>1, <1>2 DEF Remaining

LEMMA AnnouncedFacts ==
  ASSUME NEW r \in Reads, read[r] \in Records, NEW f \in Files
  PROVE  Announced(r, f) \subseteq FileLens
BY DEF Announced, Records

LEMMA CardAccessIsShape ==
  ASSUME TypeOK, ChainInv, NEW r \in Reads, passport_ef_cardaccess_rest_ready(r)
  PROVE  TypeOK' /\ HandlerShape(r)
<1> DEFINE o == "ef_cardaccess_rest"
           d == read[r]
           C(t) == Grown(r, "card_access", t)
<1>1. Dispatch(r, o) /\ o \in ChainOps /\ o \in ApduOps
  BY DEF passport_ef_cardaccess_rest_ready, ChainOps, ApduOps, PaceOps
<1>2. /\ d \in Records /\ RecordOK(d) /\ d.stage = o /\ d.answers = 0
      /\ Head(inbox) = inbox[1] /\ inbox[1] \in Messages
      /\ inbox[1].res = "ok" => Kept(d, o, inbox[1].n)
  BY <1>1, DispatchFacts
<1>3. CASE Fail(r)
  BY <1>1, <1>3, FailIsEnd
<1>4. ASSUME Ok(r), NEW t \in FileLens
      PROVE  /\ C(t) \in Records /\ C(t).path = d.path /\ C(t).client = d.client
             /\ C(t).cancelled = d.cancelled
             /\ \A op \in {o, "mse_set_at"} : RecordOK([C(t) EXCEPT !.stage = op])
  <2> DEFINE c == C(t)
  <2>1. Head(inbox).n \in Nat /\ d.len["card_access"] + Head(inbox).n <= ChipLen
    BY <1>2, <1>4 DEF Ok, Kept, RestOps, FileOf, Messages
  <2>2. "card_access" \in Files /\ "dg1" \in Files \ {"card_access"}
        /\ "dg2" \in Files \ {"card_access"}
    BY DEF Files
  <2>3. /\ c \in Records /\ c.path = d.path /\ c.client = d.client
        /\ c.cancelled = d.cancelled /\ c.acquired = d.acquired /\ c.answers = d.answers
        /\ c.len["dg1"] = d.len["dg1"] /\ c.len["dg2"] = d.len["dg2"]
        /\ c.total["dg1"] = d.total["dg1"] /\ c.total["dg2"] = d.total["dg2"]
    BY <1>2, <2>1, <2>2, GrownFacts
  <2> HIDE DEF c
  <2>4. /\ d.acquired = TRUE /\ d.path # NULL /\ Unread(d, "dg1") /\ Unread(d, "dg2")
    BY <1>1, <1>2 DEF RecordOK, Records
  <2>5. {o, "mse_set_at"} \subseteq ApduOps
    BY DEF ApduOps, PaceOps
  <2> QED
    <3>1. Unread(c, "dg1") /\ Unread(c, "dg2")
      BY <2>3, <2>4 DEF Unread
    <3>2. \A op \in {o, "mse_set_at"} : RecordOK([c EXCEPT !.stage = op])
      BY <1>2, <2>3, <2>4, <2>5, <3>1, UnreadBounded, StageOK
    <3> QED
      BY <2>3, <3>2 DEF c
<1> HIDE DEF C
<1>5. ASSUME Ok(r), NEW t \in FileLens, NEW op \in {o, "mse_set_at"}, NEW le \in Nat, Send(r, C(t), op, le)
      PROVE  TypeOK' /\ HandlerShape(r)
  <2>1. op \in ApduOps /\ op # "acquire" /\ op \notin {"dg1_rest", "dg2_rest"}
    BY <1>5 DEF ApduOps, PaceOps
  <2> QED
    BY <1>1, <1>4, <1>5, <2>1, SendIsGo DEF HandlerShape
<1>6. ASSUME Ok(r), NEW t \in FileLens, ReadMore(r, C(t), "card_access", o)
      PROVE  TypeOK' /\ HandlerShape(r)
  <2>1. Remaining(C(t), "card_access") \in Nat /\ Chunk \in Nat
    <3>1. /\ C(t).total["card_access"] \in {0} \union FileLens
          /\ C(t).len["card_access"] \in 0..ChipLen
      BY <1>4, <1>6 DEF Records, Files
    <3> QED
      BY <3>1, RemainingIsNat, PassportAssumption
  <2> QED
    BY <1>5, <1>6, <2>1 DEF ReadMore
<1>7. ASSUME Ok(r), NEW t \in FileLens, passport_transceive(r, C(t), "mse_set_at")
      PROVE  TypeOK' /\ HandlerShape(r)
  BY <1>5, <1>7 DEF passport_transceive
<1>8. CASE ~Fail(r)
  <2>1. Ok(r)
    BY <1>8 DEF passport_ef_cardaccess_rest_ready
  <2>2. PICK t \in FileLens : \/ ReadMore(r, C(t), "card_access", o)
                              \/ passport_transceive(r, C(t), "mse_set_at")
    <3>1. Announced(r, "card_access") \subseteq FileLens
      BY <1>2, AnnouncedFacts DEF Files
    <3> QED
      BY <1>8, <3>1 DEF passport_ef_cardaccess_rest_ready, C
  <2> QED
    BY <2>1, <2>2, <1>6, <1>7
<1> QED
  BY <1>3, <1>8

\* READ BINARY of the data group f, whose stage is o.
LEMMA ReadIsShape ==
  ASSUME TypeOK, ChainInv, NEW r \in Reads, NEW o \in {"dg1_rest", "dg2_rest"},
         Dispatch(r, o), Ok(r), NEW t \in Announced(r, FileOf(o))
  PROVE  LET c == Grown(r, FileOf(o), t) IN
         /\ c \in Records /\ c.path = read[r].path /\ c.client = read[r].client
         /\ c.acquired = read[r].acquired /\ c.answers = read[r].answers
         /\ ReadMore(r, c, FileOf(o), o) => TypeOK' /\ HandlerShape(r)
         /\ o = "dg1_rest" /\ passport_transceive(r, c, "select_dg2")
              => TypeOK' /\ HandlerShape(r)
<1> DEFINE f == FileOf(o)
           d == read[r]
           c == Grown(r, f, t)
<1>1. o \in ChainOps /\ o \in ApduOps /\ o \in RestOps /\ o # "ef_cardaccess_rest"
  BY DEF ChainOps, ApduOps, DgOps, RestOps
<1>2. /\ d \in Records /\ RecordOK(d) /\ d.stage = o /\ d.answers = 0
      /\ Head(inbox) = inbox[1] /\ inbox[1] \in Messages /\ inbox[1].res = "ok"
      /\ Kept(d, o, inbox[1].n)
  BY <1>1, DispatchFacts DEF Ok
<1>3. /\ f \in {"dg1", "dg2"} /\ f \in Files
      /\ o = "dg1_rest" => f = "dg1"
      /\ o = "dg2_rest" => f = "dg2"
  BY DEF FileOf, Files
<1>4. /\ Head(inbox).n \in Nat /\ d.len[f] \in Nat
      /\ t \in FileLens /\ t \in Nat \ {0} /\ FirstLe \in Nat \ {0} /\ ChipLen \in Nat
      /\ d.len[f] + Head(inbox).n <= ChipLen
      /\ t >= FirstLe => d.len[f] + Head(inbox).n <= t
  <2>1. /\ Head(inbox).n \in Nat /\ d.len[f] \in 0..ChipLen
        /\ d.total[f] \in {0} \union FileLens
    BY <1>2, <1>3, PassportAssumption DEF Messages, Records
  <2>2. t \in FileLens /\ (d.total[f] # 0 => t = d.total[f])
    BY <1>2, <1>3, AnnouncedFacts DEF Announced
  <2>3. d.total[f] = 0 => d.len[f] = 0
    <3>1. Bounded(d, "dg1") /\ Bounded(d, "dg2")
      BY <1>2 DEF RecordOK
    <3> QED
      BY <1>3, <3>1 DEF Bounded
  <2>4. /\ d.len[f] + Head(inbox).n <= ChipLen
        /\ d.total[f] = 0 => Head(inbox).n <= FirstLe
        /\ d.total[f] >= FirstLe => d.len[f] + Head(inbox).n <= d.total[f]
    BY <1>1, <1>2 DEF Kept, Fits
  <2>5. t \in Nat \ {0} /\ FirstLe \in Nat \ {0} /\ ChipLen \in Nat
    BY <2>2, PassportAssumption
  <2> QED
    BY <2>1, <2>2, <2>3, <2>4, <2>5
<1>5. /\ c \in Records /\ c.path = d.path /\ c.client = d.client
      /\ c.cancelled = d.cancelled /\ c.acquired = d.acquired /\ c.answers = d.answers
      /\ c.len[f] = d.len[f] + Head(inbox).n /\ c.total[f] = t
      /\ \A g \in Files \ {f} : c.len[g] = d.len[g] /\ c.total[g] = d.total[g]
  BY <1>2, <1>3, <1>4, GrownFacts
<1>6. c.len[f] \in Nat /\ (t >= FirstLe => c.len[f] \in 0..t)
  BY <1>4, <1>5
<1>7. /\ d.acquired = TRUE /\ d.path # NULL
      /\ Bounded(d, "dg1") /\ Bounded(d, "dg2")
      /\ o = "dg1_rest" => Unread(d, "dg2")
  <2>1. Bounded(d, "dg1") /\ Bounded(d, "dg2")
    BY <1>2 DEF RecordOK
  <2>2. d.acquired = TRUE /\ d.path # NULL
    BY <1>1, <1>2 DEF RecordOK, Records
  <2>3. o = "dg1_rest" => Unread(d, "dg2")
    BY <1>1, <1>2 DEF RecordOK
  <2> QED
    BY <2>1, <2>2, <2>3
<1> HIDE DEF c
<1>8. /\ Bounded(c, "dg1") /\ Bounded(c, "dg2")
      /\ o = "dg1_rest" => Unread(c, "dg2")
  <2>1. Bounded(c, f)
    BY <1>4, <1>5, <1>6 DEF Bounded
  <2>2. \A g \in {"dg1", "dg2"} \ {f} : Bounded(c, g)
    BY <1>5, <1>7 DEF Bounded, Files
  <2>3. o = "dg1_rest" => Unread(c, "dg2")
    BY <1>3, <1>5, <1>7 DEF Unread, Files
  <2> QED
    BY <1>3, <2>1, <2>2, <2>3
<1>9. /\ RecordOK([c EXCEPT !.stage = o])
      /\ o = "dg1_rest" => RecordOK([c EXCEPT !.stage = "select_dg2"])
  <2>1. "select_dg2" \in ApduOps
    BY DEF ApduOps, DgOps
  <2> QED
    BY <1>1, <1>2, <1>5, <1>7, <1>8, <2>1, StageOK
<1>10. ASSUME ReadMore(r, c, f, o) PROVE TypeOK' /\ HandlerShape(r)
  <2>1. /\ Remaining(c, f) \in Nat
        /\ t >= FirstLe => Remaining(c, f) = t - c.len[f]
    <3>1. t >= FirstLe => Remaining(c, f) = t - c.len[f]
      BY <1>4, <1>5, <1>6, RemainingExact
    <3>2. Remaining(c, f) \in Nat
      BY <1>4, <1>5, <1>6, RemainingIsNat
    <3> QED
      BY <3>1, <3>2
  <2> DEFINE le == IF Remaining(c, f) < Chunk THEN Remaining(c, f) ELSE Chunk
  <2>2. le \in Nat /\ (t >= FirstLe => c.len[f] + le <= t)
    BY <2>1, <1>4, <1>6, PassportAssumption
  <2>3. Send(r, c, o, le)
    BY <1>10 DEF ReadMore
  <2> HIDE DEF le
  <2>4. Fits(c, o, le)
    BY <2>2, <1>4, <1>5 DEF Fits
  <2>5. o # "acquire" /\ o # "tag_proxy"
    OBVIOUS
  <2> QED
    BY <1>1, <1>5, <1>9, <2>2, <2>3, <2>4, <2>5, SendIsGo DEF HandlerShape
<1>11. ASSUME o = "dg1_rest", passport_transceive(r, c, "select_dg2")
       PROVE  TypeOK' /\ HandlerShape(r)
  <2>1. Send(r, c, "select_dg2", 0) /\ "select_dg2" \in ApduOps
    BY <1>11 DEF passport_transceive, ApduOps, DgOps
  <2>2. o # "acquire" /\ o # "tag_proxy"
    OBVIOUS
  <2> QED
    BY <1>1, <1>5, <1>9, <1>11, <2>1, <2>2, SendIsGo DEF HandlerShape
<1> QED
  BY <1>5, <1>10, <1>11 DEF c

\* The first READ BINARY of a data group asks for FirstLe bytes.
LEMMA FirstIsShape ==
  ASSUME TypeOK, ChainInv, NEW r \in Reads, NEW o \in {"select_dg1", "select_dg2"},
         NEW op, op = IF o = "select_dg1" THEN "dg1_rest" ELSE "dg2_rest",
         Dispatch(r, o), Ok(r), Send(r, read[r], op, FirstLe)
  PROVE  TypeOK' /\ HandlerShape(r)
<1> DEFINE d == read[r]
<1>1. o \in ChainOps /\ o \in ApduOps /\ op \in ApduOps /\ op \in RestOps
  BY DEF ChainOps, ApduOps, DgOps, RestOps
<1>2. /\ d \in Records /\ RecordOK(d) /\ d.stage = o /\ d.answers = 0
  BY <1>1, DispatchFacts
<1>3. /\ d.acquired = TRUE /\ d.path # NULL
      /\ Bounded(d, "dg1") /\ Bounded(d, "dg2")
      /\ Unread(d, "dg2") /\ (o = "select_dg1" => Unread(d, "dg1"))
  <2>1. Bounded(d, "dg1") /\ Bounded(d, "dg2")
    BY <1>2 DEF RecordOK
  <2>2. d.acquired = TRUE /\ d.path # NULL
    BY <1>1, <1>2 DEF RecordOK, Records
  <2>3. Unread(d, "dg2") /\ (o = "select_dg1" => Unread(d, "dg1"))
    BY <1>1, <1>2 DEF RecordOK
  <2> QED
    BY <2>1, <2>2, <2>3
<1>4. RecordOK([d EXCEPT !.stage = op])
  BY <1>1, <1>2, <1>3, StageOK
<1>5. FirstLe \in Nat \ {0}
  BY PassportAssumption
<1>6. Fits(d, op, FirstLe)
  BY <1>3, <1>5 DEF Fits, FileOf, Unread
<1> QED
  BY <1>1, <1>2, <1>4, <1>5, <1>6, SendIsGo DEF HandlerShape

LEMMA HandlersAreShapes ==
  ASSUME TypeOK, ChainInv, NEW r \in Reads, Callback(r), ~passport_release_ready(r)
  PROVE  TypeOK' /\ HandlerShape(r)
<1>1. ASSUME NEW o \in BacOps \union PaceOps, NEW op \in BacOps \union PaceOps \union {"select_dg1"},
             Step(r, o, op)
      PROVE  TypeOK' /\ HandlerShape(r)
  <2>1. o \in Before /\ op \in Before \ {"tag_proxy"} /\ o # "acquire" /\ op # "acquire"
        /\ o # "tag_proxy"
    BY DEF Before, BacOps, PaceOps
  <2> QED
    BY <1>1, <2>1, StepIsShape DEF Step, passport_transceive
<1>2. CASE passport_tag_proxy_ready(r)
  <2>1. "tag_proxy" \in Before /\ "acquire" \in Before \ {"tag_proxy"}
    BY DEF Before, EarlyOps
  <2> QED
    BY <1>2, <2>1, StepIsShape DEF passport_tag_proxy_ready
<1>3. CASE passport_acquire_ready(r)
  BY <1>3, AcquireIsShape
<1>4. CASE passport_select_ef_cardaccess_ready(r)
  <2>1. "select_ef_cardaccess" \in Before /\ "ef_cardaccess_rest" \in Before \ {"tag_proxy"}
        /\ Chunk + 1 \in Nat
    BY PassportAssumption DEF Before, PaceOps
  <2> QED
    BY <1>4, <2>1, StepIsShape DEF passport_select_ef_cardaccess_ready
<1>5. CASE passport_ef_cardaccess_rest_ready(r)
  BY <1>5, CardAccessIsShape
<1>6. CASE passport_select_dg1_ready(r)
  <2>1. "select_dg1" \in ChainOps /\ Dispatch(r, "select_dg1")
    BY <1>6 DEF ChainOps, ApduOps, DgOps, passport_select_dg1_ready
  <2>2. CASE Ok(r)
    BY <1>6, <2>1, <2>2, FirstIsShape DEF passport_select_dg1_ready
  <2>3. CASE ~Ok(r)
    BY <1>6, <2>1, <2>3, FailIsEnd DEF passport_select_dg1_ready
  <2> QED
    BY <2>2, <2>3
<1>7. CASE passport_dg1_rest_ready(r)
  <2>1. "dg1_rest" \in ChainOps /\ Dispatch(r, "dg1_rest") /\ FileOf("dg1_rest") = "dg1"
    BY <1>7 DEF ChainOps, ApduOps, DgOps, passport_dg1_rest_ready, FileOf
  <2>2. CASE ~Ok(r)
    BY <1>7, <2>1, <2>2, FailIsEnd DEF passport_dg1_rest_ready
  <2>3. CASE Ok(r)
    <3>0. PICK t \in Announced(r, "dg1") : passport_dg1_read_more(r, Grown(r, "dg1", t))
      BY <1>7, <2>3 DEF passport_dg1_rest_ready
    <3> DEFINE c == Grown(r, "dg1", t)
    <3>1. passport_dg1_read_more(r, c)
      BY <3>0
    <3>2. /\ c \in Records /\ c.path = read[r].path /\ c.client = read[r].client
          /\ c.acquired = read[r].acquired /\ c.answers = read[r].answers
          /\ ReadMore(r, c, "dg1", "dg1_rest") => TypeOK' /\ HandlerShape(r)
          /\ passport_transceive(r, c, "select_dg2") => TypeOK' /\ HandlerShape(r)
      BY <2>1, <2>3, ReadIsShape
    <3> HIDE DEF c
    <3>3. CASE Fail(r)
      BY <2>1, <3>3, FailIsEnd
    <3>4. CASE passport_build_result_and_finish(r, c)
      BY <2>1, <3>2, <3>4, ResultIsEnd
    <3> QED
      BY <3>1, <3>2, <3>3, <3>4 DEF passport_dg1_read_more, passport_select_dg2_start
  <2> QED
    BY <2>2, <2>3
<1>8. CASE passport_select_dg2_ready(r)
  <2>1. "select_dg2" \in ChainOps /\ Dispatch(r, "select_dg2")
    BY <1>8 DEF ChainOps, ApduOps, DgOps, passport_select_dg2_ready
  <2>2. CASE Ok(r)
    BY <1>8, <2>1, <2>2, FirstIsShape DEF passport_select_dg2_ready
  <2>3. CASE ~Ok(r)
    BY <1>8, <2>1, <2>3, ResultIsEnd DEF passport_select_dg2_ready
  <2> QED
    BY <2>2, <2>3
<1>9. CASE passport_dg2_rest_ready(r)
  <2>1. "dg2_rest" \in ChainOps /\ Dispatch(r, "dg2_rest") /\ FileOf("dg2_rest") = "dg2"
    BY <1>9 DEF ChainOps, ApduOps, DgOps, passport_dg2_rest_ready, FileOf
  <2>2. CASE ~Ok(r)
    BY <1>9, <2>1, <2>2, ResultIsEnd DEF passport_dg2_rest_ready
  <2>3. CASE Ok(r)
    <3>0. PICK t \in Announced(r, "dg2") : passport_dg2_read_more(r, Grown(r, "dg2", t))
      BY <1>9, <2>3 DEF passport_dg2_rest_ready
    <3> DEFINE c == Grown(r, "dg2", t)
    <3>1. passport_dg2_read_more(r, c)
      BY <3>0
    <3>2. /\ c \in Records /\ c.path = read[r].path /\ c.client = read[r].client
          /\ c.acquired = read[r].acquired /\ c.answers = read[r].answers
          /\ ReadMore(r, c, "dg2", "dg2_rest") => TypeOK' /\ HandlerShape(r)
      BY <2>1, <2>3, ReadIsShape
    <3> HIDE DEF c
    <3>3. CASE passport_build_result_and_finish(r, c)
      BY <2>1, <3>2, <3>3, ResultIsEnd
    <3> QED
      BY <3>1, <3>2, <3>3 DEF passport_dg2_read_more
  <2> QED
    BY <2>2, <2>3
<1> QED
  <2>1. {"select_aid", "get_challenge", "mutual_auth", "mse_set_at", "get_nonce",
         "map_nonce", "key_agreement", "pace_mutual_auth", "pace_select_aid"}
          \subseteq BacOps \union PaceOps
    BY DEF BacOps, PaceOps
  <2> QED
    BY <1>1, <1>2, <1>3, <1>4, <1>5, <1>6, <1>7, <1>8, <1>9, <2>1
       DEF Callback, passport_select_aid_ready, passport_get_challenge_ready,
           passport_mutual_auth_ready, pace_mse_set_at_ready, pace_get_nonce_ready,
           pace_map_nonce_ready, pace_key_agreement_ready, pace_mutual_auth_ready,
           pace_select_aid_ready

-----------------------------------------------------------------------------
(* The other steps.                                                        *)

LEMMA ReleaseIsShape ==
  ASSUME TypeOK, ChainInv, NEW r \in Reads, passport_release_ready(r)
  PROVE  TypeOK' /\ ReleaseShape
<1>1. /\ inbox # <<>> /\ Head(inbox).id = r /\ Head(inbox).op = "release"
      /\ inbox' = Tail(inbox) /\ UNCHANGED <<nfcdVars, tag_path, isodep, nreads>>
      /\ reqs' = Append(reqs, Call(r, "deactivate", Head(inbox).path, 0))
      /\ UNCHANGED <<passport_reading, read>>
  BY DEF passport_release_ready, Dispatch, clientVars, passport_deactivate
<1>2. /\ Head(inbox) = inbox[1] /\ inbox[1] \in Messages
      /\ inbox' \in Seq(Messages) /\ Dropped(inbox', inbox)
  BY <1>1, QueueFacts DEF TypeOK
<1>3. inbox[1].path # NULL
  <2>1. MessageOK(inbox[1], read[inbox[1].id])
    BY <1>2 DEF ChainInv, Dropped
  <2>2. r # 0 /\ "release" \notin ChainOps
    BY OpFacts DEF Reads
  <2> QED
    BY <1>1, <1>2, <2>1, <2>2 DEF MessageOK
<1> DEFINE q == Call(r, "deactivate", inbox[1].path, 0)
<1>4. q \in Calls
  BY <1>2, <1>3, PassportAssumption DEF Call, Calls, Ops, Messages, NULL
<1> HIDE DEF q
<1>5. Added(reqs', reqs, q) /\ reqs' \in Seq(Calls)
  BY <1>1, <1>2, <1>4, QueueFacts DEF TypeOK, q
<1>6. ReleaseShape
  BY <1>1, <1>2, <1>5 DEF ReleaseShape, q
<1> QED
  BY <1>1, <1>2, <1>5, <1>6 DEF TypeOK, nfcdVars

\* A call with a member of each type is a call.
LEMMA CallTyped ==
  ASSUME NEW r \in Reads, NEW op \in Ops, NEW p \in 1..MaxTags
  PROVE  Call(r, op, p, 0) \in Calls
BY DEF Call, Calls

LEMMA StartIsShape ==
  ASSUME TypeOK, ChainInv, NEW r \in Reads, NEW pace \in BOOLEAN, NEW photo \in BOOLEAN,
         NEW keys \in BOOLEAN, Start(r, pace, photo, keys)
  PROVE  /\ TypeOK'
         /\ \E d : RefuseShape(r, d) \/ \E q \in Calls : StartShape(r, d, q)
<1> DEFINE d0 == [[NoRead EXCEPT !.use_pace = pace] EXCEPT !.read_photo = photo]
<1>1. /\ r = nreads + 1 /\ nreads' = r
      /\ UNCHANGED <<nfcdVars, tag_path, isodep, inbox>>
      /\ IF passport_read_precheck /\ keys
           THEN passport_read_dispatch(r, d0)
           ELSE /\ read' = [read EXCEPT ![r] = Ended(d0, "error", "none")]
                /\ UNCHANGED <<reqs, passport_reading>>
  BY DEF Start, clientVars
<1>2. PICK n \in Records : n = NoRead
  BY NoReadFacts
<1>3. PICK n1 \in Records : n1 = [n EXCEPT !.use_pace = pace]
  BY DEF Records
<1>4. PICK d \in Records : d = [n1 EXCEPT !.read_photo = photo]
  BY DEF Records
<1>5. d0 = d
  BY <1>2, <1>3, <1>4, Zenon
<1>6. /\ d.answers = 0 /\ d.acquired = FALSE /\ d.cancelled = FALSE
      /\ d.len = [f \in Files |-> 0] /\ d.total = [f \in Files |-> 0]
  <2>1. /\ d.answers = n.answers /\ d.acquired = n.acquired /\ d.cancelled = n.cancelled
        /\ d.len = n.len /\ d.total = n.total
    BY <1>3, <1>4 DEF Records
  <2> QED
    BY <2>1, <1>2, NoReadFacts
<1> HIDE DEF d0
<1>7. nreads' \in 0..MaxReads /\ r \in 0..MaxReads
  BY <1>1, PassportAssumption DEF TypeOK, Reads
<1>8. CASE passport_read_precheck /\ keys
  <2>1. /\ passport_reading = NULL /\ tag_path # NULL
        /\ read' = [read EXCEPT ![r] = [[[d EXCEPT !.stage = "tag_proxy"]
                                           EXCEPT !.client = TRUE] EXCEPT !.path = tag_path]]
        /\ reqs' = Append(reqs, Call(r, "tag_proxy", tag_path, 0))
        /\ passport_reading' = r
    BY <1>1, <1>5, <1>8 DEF passport_read_precheck, passport_read_dispatch
  <2>2. PICK e1 \in Records : e1 = [d EXCEPT !.stage = "tag_proxy"]
    BY DEF Records, Ops
  <2>3. PICK e2 \in Records : e2 = [e1 EXCEPT !.client = TRUE]
    BY DEF Records
  <2>4. PICK e \in Records : e = [e2 EXCEPT !.path = tag_path]
    BY DEF Records, TypeOK
  <2>5. read' = [read EXCEPT ![r] = e]
    BY <2>1, <2>2, <2>3, <2>4, Zenon
  <2>6. /\ e.stage = "tag_proxy" /\ e.client = TRUE /\ e.path = tag_path
        /\ e.answers = d.answers /\ e.acquired = d.acquired /\ e.cancelled = d.cancelled
        /\ e.len = d.len /\ e.total = d.total
    BY <2>2, <2>3, <2>4 DEF Records
  <2>7. /\ e.len["dg1"] = 0 /\ e.len["dg2"] = 0
        /\ e.total["dg1"] = 0 /\ e.total["dg2"] = 0
    BY <2>6, <1>6 DEF Files
  <2>8. "tag_proxy" \in ChainOps /\ "tag_proxy" \notin ApduOps
    BY OpFacts DEF ChainOps, EarlyOps
  <2>9. RecordOK(e)
    BY <2>1, <2>6, <2>7, <2>8, <1>6 DEF RecordOK, Unread, Bounded
  <2> DEFINE q == Call(r, "tag_proxy", tag_path, 0)
  <2>10. q \in Calls
    <3>t. tag_path \in 0..MaxTags /\ MaxTags \in Nat /\ tag_path # 0
      BY <2>1, PassportAssumption, Zenon DEF TypeOK, NULL
    <3>1. tag_path \in 1..MaxTags
      BY <3>t
    <3>2. "tag_proxy" \in Ops
      BY DEF Ops
    <3> QED
      BY <3>1, <3>2, CallTyped
  <2>11. Added(reqs', reqs, q) /\ reqs' \in Seq(Calls)
    BY <2>1, <2>10, QueueFacts DEF TypeOK
  <2>12. StartShape(r, e, q)
    BY <1>1, <1>6, <2>1, <2>5, <2>6, <2>9, <2>11 DEF StartShape
  <2>13. TypeOK'
    BY <1>1, <1>7, <2>1, <2>5, <2>11 DEF TypeOK, nfcdVars
  <2> QED
    BY <2>10, <2>12, <2>13
<1>9. CASE ~(passport_read_precheck /\ keys)
  <2>1. /\ read' = [read EXCEPT ![r] = Ended(d, "error", "none")]
        /\ UNCHANGED <<reqs, passport_reading>>
    BY <1>1, <1>5, <1>9
  <2>2. Over(Ended(d, "error", "none"))
    BY <1>6, EndedOver
  <2>3. RefuseShape(r, Ended(d, "error", "none"))
    BY <1>1, <2>1, <2>2 DEF RefuseShape
  <2>4. TypeOK'
    BY <1>1, <1>7, <2>1, <2>2 DEF TypeOK, nfcdVars, Over
  <2> QED
    BY <2>3, <2>4
<1> QED
  BY <1>8, <1>9

LEMMA TagIsShape ==
  ASSUME TypeOK, ChainInv, OneReadAtATime, set_current_tag
  PROVE  /\ TypeOK'
         /\ \/ \E c \in BOOLEAN : TagShape(c)
            \/ \E d : AbortShape(passport_reading, d) /\ passport_reading \in Reads
<1>1. /\ inbox # <<>> /\ Head(inbox).op = "tags" /\ UNCHANGED <<nfcdVars, reqs, nreads>>
  BY DEF set_current_tag
<1>2. /\ Head(inbox) = inbox[1] /\ inbox[1] \in Messages
      /\ Tail(inbox) \in Seq(Messages) /\ Dropped(Tail(inbox), inbox)
  BY <1>1, QueueFacts DEF TypeOK
<1>3. CASE Head(inbox).path = tag_path
  <2>1. inbox' = Tail(inbox) /\ UNCHANGED <<tag_path, isodep, passport_reading, read>>
    BY <1>3 DEF set_current_tag, clientVars
  <2>2. TagShape(FALSE)
    BY <1>1, <1>2, <1>3, <2>1 DEF TagShape
  <2> QED
    BY <1>1, <1>2, <2>1, <2>2 DEF TypeOK, nfcdVars
<1>4. CASE Head(inbox).path # tag_path
  <2>1. /\ tag_path' = inbox[1].path /\ isodep' = FALSE /\ passport_reading' = NULL
        /\ IF passport_reading # NULL
             THEN passport_read_abort(passport_reading, Tail(inbox))
             ELSE inbox' = Tail(inbox) /\ UNCHANGED read
    BY <1>2, <1>4 DEF set_current_tag
  <2>2. tag_path' \in 0..MaxTags /\ passport_reading' \in 0..MaxReads
    BY <2>1, <1>2, PassportAssumption DEF Messages, NULL
  <2>3. CASE passport_reading = NULL
    <3>1. TagShape(TRUE)
      BY <1>1, <1>2, <1>4, <2>1, <2>3 DEF TagShape
    <3> QED
      BY <1>1, <1>2, <2>1, <2>2, <2>3, <3>1 DEF TypeOK, nfcdVars
  <2>4. CASE passport_reading # NULL
    <3> DEFINE r == passport_reading
               a == Answer(Call(r, read[r].stage, read[r].path, 0), "fail", 0)
               out == \E i \in 1..Len(reqs) : reqs[i].id = r /\ reqs[i].op = read[r].stage
    <3>1. r \in Reads
      BY <2>4, PassportAssumption DEF TypeOK, Reads, NULL
    <3>t. read[r] \in Records
      BY <3>1 DEF TypeOK
    <3>2. PICK d1 \in Records : d1 = [read[r] EXCEPT !.client = FALSE]
      BY <3>t DEF Records
    <3>3. PICK d \in Records : d = [d1 EXCEPT !.cancelled = TRUE]
      BY DEF Records
    <3>4. Aborted(r, d)
      BY <3>2, <3>3, Zenon DEF Aborted
    <3>5. /\ read' = [read EXCEPT ![r] = d]
          /\ inbox' = IF out THEN Append(Tail(inbox), a) ELSE Tail(inbox)
      <4>1. DOMAIN reqs = 1..Len(reqs)
        BY LenProperties DEF TypeOK
      <4>2. /\ read' = [[read EXCEPT ![r].client = FALSE] EXCEPT ![r].cancelled = TRUE]
            /\ inbox' = IF out THEN Append(Tail(inbox), a) ELSE Tail(inbox)
        BY <2>1, <2>4, <4>1, Zenon DEF passport_read_abort
      <4>3. PICK s \in [Reads -> Records] : s = [read EXCEPT ![r].client = FALSE]
        BY <3>1, <3>2 DEF TypeOK
      <4>4. s = [read EXCEPT ![r] = d1] /\ s[r] = d1
        BY <3>1, <3>2, <4>3 DEF TypeOK
      <4>5. [s EXCEPT ![r].cancelled = TRUE] = [s EXCEPT ![r] = d]
        BY <3>1, <3>3, <4>4
      <4>6. [s EXCEPT ![r] = d] = [read EXCEPT ![r] = d]
        BY <3>1, <4>4 DEF TypeOK
      <4> QED
        BY <4>2, <4>3, <4>5, <4>6
    <3>6. a \in Messages
      <4>1. read[r] \in Records /\ RecordOK(read[r]) /\ Live(r)
        BY <2>4, <3>1 DEF TypeOK, ChainInv, OneReadAtATime
      <4> QED
        BY <3>1, <4>1, PassportAssumption DEF Answer, Call, Messages, Reads, Records, Live
    <3> HIDE DEF a, out
    <3>7. /\ inbox' \in Seq(Messages)
          /\ \/ /\ out /\ Len(inbox') = Len(inbox)
                /\ \A k \in 1..Len(inbox) - 1 : inbox'[k] = inbox[k + 1]
                /\ inbox'[Len(inbox)] = a
             \/ ~out /\ Dropped(inbox', inbox)
      <4>1. CASE out
        <5>1. /\ Append(Tail(inbox), a) \in Seq(Messages)
              /\ Added(Append(Tail(inbox), a), Tail(inbox), a)
          BY <1>2, <3>6, QueueFacts
        <5> QED
          BY <4>1, <3>5, <5>1, <1>2 DEF Added, Dropped
      <4>2. CASE ~out
        BY <4>2, <3>5, <1>2
      <4> QED
        BY <4>1, <4>2
    <3>8. AbortShape(r, d)
      BY <1>1, <1>2, <1>4, <2>1, <2>4, <3>4, <3>5, <3>7 DEF AbortShape, a, out
    <3>9. TypeOK'
      BY <1>1, <2>1, <2>2, <3>5, <3>7 DEF TypeOK, nfcdVars
    <3> QED
      BY <3>1, <3>8, <3>9
  <2> QED
    BY <2>3, <2>4
<1> QED
  BY <1>3, <1>4

LEMMA NfcdIsShape ==
  ASSUME TypeInv, Nfcd \/ TagReadDone
  PROVE  TypeInv' /\ NfcdShape
<1>1. ASSUME NEW p \in 0..MaxTags
      PROVE  /\ TagsMsg(p) \in Messages
             /\ Append(inbox, TagsMsg(p)) \in Seq(Messages)
             /\ Added(Append(inbox, TagsMsg(p)), inbox, TagsMsg(p))
  <2>1. TagsMsg(p) \in Messages
    BY PassportAssumption DEF TagsMsg, Messages
  <2> QED
    BY <2>1, QueueFacts DEF TypeInv, TypeOK
<1>2. /\ UNCHANGED <<reqs, tag_path, passport_reading, nreads, read>>
      /\ inbox' = inbox \/ \E p \in 0..MaxTags : inbox' = Append(inbox, TagsMsg(p))
      /\ up' \in BOOLEAN /\ attached' \in BOOLEAN /\ isodep' \in BOOLEAN
      /\ crashes' \in 0..MaxCrashes /\ placed' \in 0..MaxTags
      /\ ntag' \in 0..MaxTags /\ last_path' \in 0..MaxTags /\ last_path' <= placed'
      /\ locks' \in Nat /\ session' \in 0..MaxReads
  <2> USE PassportAssumption DEF TypeInv, TypeOK, clientVars, NULL
  <2>1. CASE PlaceTag
    <3>a. /\ placed < MaxTags /\ placed' = placed + 1 /\ ntag' = placed + 1
          /\ last_path' = last_path + 1 /\ session' = 0
          /\ inbox' = Signal(inbox, last_path + 1)
          /\ UNCHANGED <<up, crashes, attached, locks, tag_path, isodep,
                         passport_reading, nreads, read, reqs>>
      BY <2>1 DEF PlaceTag
    <3>b. /\ placed \in 0..MaxTags /\ last_path \in 0..MaxTags
          /\ last_path <= placed /\ crashes \in 0..MaxCrashes /\ locks \in Nat
          /\ MaxTags \in Nat /\ MaxReads \in Nat
      OBVIOUS
    <3>c. up \in BOOLEAN /\ attached \in BOOLEAN /\ isodep \in BOOLEAN
      OBVIOUS
    <3> HIDE PassportAssumption DEF TypeInv, TypeOK, clientVars, NULL
    <3>1. /\ last_path + 1 \in 0..MaxTags /\ placed + 1 \in 0..MaxTags
          /\ last_path + 1 <= placed + 1 /\ 0 \in 0..MaxReads
      BY <3>a, <3>b
    <3>2. inbox' = inbox \/ inbox' = Append(inbox, TagsMsg(last_path + 1))
      BY <3>a DEF Signal
    <3>3. inbox' = inbox \/ \E p \in 0..MaxTags : inbox' = Append(inbox, TagsMsg(p))
      BY <3>1, <3>2, Zenon
    <3>4. up' \in BOOLEAN /\ attached' \in BOOLEAN /\ isodep' \in BOOLEAN
      BY <3>a, <3>c, Zenon
    <3>5. /\ crashes' \in 0..MaxCrashes /\ placed' \in 0..MaxTags
          /\ ntag' \in 0..MaxTags /\ last_path' \in 0..MaxTags
          /\ last_path' <= placed' /\ locks' \in Nat /\ session' \in 0..MaxReads
      BY <3>a, <3>b, <3>1, Zenon
    <3> QED
      BY <3>a, <3>3, <3>4, <3>5, Zenon
  <2>2. CASE RemoveTag
    BY <2>2 DEF RemoveTag, Signal
  <2>3. CASE Crash
    <3>1. 0 \in 0..MaxTags /\ crashes + 1 \in 0..MaxCrashes
      BY <2>3 DEF Crash
    <3>2. \E p \in 0..MaxTags : inbox' = Append(inbox, TagsMsg(p))
      BY <2>3, <3>1, Zenon DEF Crash
    <3>3. /\ crashes' = crashes + 1 /\ up' = FALSE /\ attached' = FALSE /\ ntag' = 0
          /\ locks' = 0 /\ last_path' = 0 /\ session' = 0 /\ placed' = placed
          /\ UNCHANGED <<reqs, tag_path, isodep, passport_reading, nreads, read>>
      BY <2>3 DEF Crash
    <3>4. up' \in BOOLEAN /\ attached' \in BOOLEAN /\ isodep' \in BOOLEAN
      BY <3>3, Zenon
    <3>5. /\ crashes' \in 0..MaxCrashes /\ placed' \in 0..MaxTags
          /\ ntag' \in 0..MaxTags /\ last_path' \in 0..MaxTags /\ last_path' <= placed'
          /\ locks' \in Nat /\ session' \in 0..MaxReads
      BY <3>1, <3>3
    <3> QED
      BY <3>2, <3>3, <3>4, <3>5
  <2>4. CASE Restart
    BY <2>4 DEF Restart
  <2>5. CASE Attach
    BY <2>5 DEF Attach, npath
  <2>6. CASE TagReadDone
    BY <2>6 DEF TagReadDone, nfcdVars
  <2> QED
    BY <2>1, <2>2, <2>3, <2>4, <2>5, <2>6 DEF Nfcd
<1>3. /\ inbox' \in Seq(Messages)
      /\ inbox' = inbox \/ \E p \in 0..MaxTags : Added(inbox', inbox, TagsMsg(p))
  BY <1>1, <1>2 DEF TypeInv, TypeOK
<1> QED
  BY <1>2, <1>3 DEF TypeInv, TypeOK, NfcdShape

\* Every step has one of the shapes, and keeps the types.
LEMMA StepsAreShapes ==
  ASSUME TypeInv, ChainInv, OneReadAtATime, Next
  PROVE  /\ TypeInv' /\ Shapes
         /\ Nfcd \/ TagReadDone \/ Serve \/ ClientShapes
<1>0. TypeOK
  BY DEF TypeInv
<1>1. CASE Nfcd \/ TagReadDone
  BY <1>1, NfcdIsShape DEF Shapes
<1>2. CASE Serve
  <2>1. TypeOK' /\ ServeShape /\ UNCHANGED <<last_path, placed>>
    BY <1>0, <1>2, ServeIsShape DEF Serve
  <2> QED
    BY <1>2, <2>1 DEF TypeInv, Shapes
<1>3. CASE set_current_tag
  <2>1. UNCHANGED <<last_path, placed>>
    BY <1>3 DEF set_current_tag, nfcdVars
  <2> QED
    BY <1>0, <1>3, <2>1, TagIsShape DEF TypeInv, Shapes, ClientShapes
<1>4. ASSUME NEW r \in Reads, Callback(r) PROVE TypeInv' /\ Shapes /\ ClientShapes
  <2>1. CASE passport_release_ready(r)
    <3>1. TypeOK' /\ ReleaseShape
      BY <1>0, <2>1, ReleaseIsShape
    <3> QED
      BY <3>1 DEF TypeInv, Shapes, ClientShapes, ReleaseShape, nfcdVars
  <2>2. CASE ~passport_release_ready(r)
    <3>1. TypeOK' /\ HandlerShape(r)
      BY <1>0, <1>4, <2>2, HandlersAreShapes
    <3>2. UNCHANGED <<last_path, placed>>
      BY <3>1 DEF HandlerShape, GoShape, EndShape, nfcdVars
    <3> QED
      BY <3>1, <3>2 DEF TypeInv, Shapes, ClientShapes, HandlerShape
  <2> QED
    BY <2>1, <2>2
<1>5. CASE Caller
  <2>1. PICK r \in Reads, pace, photo, keys \in BOOLEAN : Start(r, pace, photo, keys)
    BY <1>5 DEF Caller, nfcd_client_read_passport, nfcd_client_read_passport_pace
  <2>2. TypeOK' /\ \E d : RefuseShape(r, d) \/ \E q \in Calls : StartShape(r, d, q)
    BY <1>0, <2>1, StartIsShape
  <2>3. UNCHANGED <<last_path, placed>>
    BY <2>1 DEF Start, nfcdVars
  <2> QED
    BY <2>2, <2>3 DEF TypeInv, Shapes, ClientShapes
<1> QED
  BY <1>1, <1>2, <1>3, <1>4, <1>5 DEF Next, Client

-----------------------------------------------------------------------------
(* The chains of calls.                                                    *)

LEMMA ItemTypes ==
  ASSUME TypeOK
  PROVE  /\ Len(reqs) \in Nat /\ Len(inbox) \in Nat
         /\ \A k \in 1..Len(reqs) : /\ reqs[k] \in Calls /\ reqs[k].id \in Reads
                                    /\ reqs[k].id # 0
         /\ \A k \in 1..Len(inbox) : /\ inbox[k] \in Messages /\ inbox[k].id \in 0..MaxReads
                                     /\ inbox[k].id # 0 => inbox[k].id \in Reads
         /\ \A r \in Reads : r \in Nat /\ r # 0 /\ read[r] \in Records
<1>1. /\ Len(reqs) \in Nat /\ Len(inbox) \in Nat
      /\ \A k \in 1..Len(reqs) : reqs[k] \in Calls
      /\ \A k \in 1..Len(inbox) : inbox[k] \in Messages
  BY QueueFacts DEF TypeOK
<1>2. MaxReads \in Nat
  BY PassportAssumption
<1>3. \A r \in Reads : r \in Nat /\ r # 0 /\ read[r] \in Records
  BY <1>2 DEF TypeOK, Reads
<1>4. \A k \in 1..Len(reqs) : reqs[k].id \in Reads /\ reqs[k].id # 0
  BY <1>1, <1>3 DEF Calls
<1>5. \A k \in 1..Len(inbox) : /\ inbox[k].id \in 0..MaxReads
                               /\ inbox[k].id # 0 => inbox[k].id \in Reads
  BY <1>1, <1>2 DEF Messages, Reads
<1> QED
  BY <1>1, <1>3, <1>4, <1>5

\* The read whose answer is dispatched has no other message, and a call out
\* only if it was cancelled.
LEMMA AnsweredAlone ==
  ASSUME TypeOK, ChainInv, NEW r \in Reads, Answered(r)
  PROVE  /\ read[r].stage = inbox[1].op /\ inbox[1].op \in ChainOps /\ Live(r)
         /\ inbox[1].path = read[r].path
         /\ \A k \in 2..Len(inbox) : inbox[k].id # r
         /\ \A k \in 1..Len(reqs) : reqs[k].id = r =>
              reqs[k].op \in ChainOps /\ read[r].cancelled
<1>1. /\ Len(inbox) \in Nat \ {0} /\ inbox[1].id = r /\ inbox[1].op \in ChainOps
      /\ 1 \in 1..Len(inbox)
  BY DEF Answered, Dropped
<1>2. r # 0 /\ Len(reqs) \in Nat
  BY ItemTypes
<1>3. /\ read[r].stage = inbox[1].op /\ inbox[1].path = read[r].path
  BY <1>1, <1>2, OpFacts DEF ChainInv, MessageOK
<1>4. read[r].stage \notin {"idle", "done"}
  BY <1>1, <1>3, OpFacts
<1>5. ASSUME NEW k \in 2..Len(inbox), inbox[k].id = r PROVE FALSE
  <2>1. k \in 1..Len(inbox) /\ k # 1
    BY <1>1
  <2>2. inbox[k].op \in ChainOps
    BY <1>2, <1>4, <1>5, <2>1 DEF ChainInv, MessageOK
  <2> QED
    BY <1>1, <1>5, <2>1, <2>2 DEF ChainInv, Distinct
<1>6. ASSUME NEW k \in 1..Len(reqs), reqs[k].id = r
      PROVE  reqs[k].op \in ChainOps /\ read[r].cancelled
  <2>1. reqs[k].op \in ChainOps
    BY <1>4, <1>6 DEF ChainInv, CallOK
  <2> QED
    BY <1>1, <1>6, <2>1 DEF ChainInv, Distinct
<1> QED
  BY <1>1, <1>3, <1>4, <1>5, <1>6 DEF Live

\* The parts of Distinct, to be cited one by one.
LEMMA DistinctParts ==
  ASSUME ChainInv
  PROVE  /\ \A k, l \in 1..Len(reqs) :
              reqs[k].op \in ChainOps /\ reqs[l].op \in ChainOps
                /\ reqs[k].id = reqs[l].id => k = l
         /\ \A k, l \in 1..Len(inbox) :
              inbox[k].op \in ChainOps /\ inbox[l].op \in ChainOps
                /\ inbox[k].id = inbox[l].id => k = l
         /\ \A k \in 1..Len(reqs), l \in 1..Len(inbox) :
              reqs[k].op \in ChainOps /\ inbox[l].op \in ChainOps
                /\ reqs[k].id = inbox[l].id => read[reqs[k].id].cancelled
BY DEF ChainInv, Distinct

LEMMA ChainNfcd ==
  ASSUME TypeOK, TypeOK', ChainInv, NfcdShape
  PROVE  ChainInv'
<1>1. CASE inbox' = inbox
  BY <1>1 DEF NfcdShape, ChainInv, Distinct, Waiting, Live
<1>2. ASSUME NEW p \in 0..MaxTags, Added(inbox', inbox, TagsMsg(p))
      PROVE  ChainInv'
  <2>1. /\ Len(inbox) \in Nat /\ Len(inbox') = Len(inbox) + 1
        /\ \A k \in 1..Len(inbox) : inbox'[k] = inbox[k]
        /\ inbox'[Len(inbox) + 1] = TagsMsg(p)
    BY <1>2, ItemTypes DEF Added
  <2>2. TagsMsg(p).id = 0 /\ TagsMsg(p).op = "tags" /\ "tags" \notin ChainOps
    BY OpFacts DEF TagsMsg
  <2>3. \A k \in 1..Len(inbox') : MessageOK(inbox'[k], read'[inbox'[k].id])
    <3> SUFFICES ASSUME NEW k \in 1..Len(inbox') PROVE MessageOK(inbox'[k], read'[inbox'[k].id])
      OBVIOUS
    <3>1. CASE k = Len(inbox) + 1
      BY <3>1, <2>1, <2>2 DEF MessageOK
    <3>2. CASE k \in 1..Len(inbox)
      BY <3>2, <2>1 DEF ChainInv, NfcdShape
    <3> QED
      BY <2>1, <3>1, <3>2
  <2>4. \A r \in Reads : Waiting(r)'
    BY <2>1 DEF ChainInv, Waiting, Live, NfcdShape
  <2>5. Distinct'
    <3>1. UNCHANGED <<reqs, read>>
      BY DEF NfcdShape
    <3>2. \A k \in 1..Len(inbox') : inbox'[k].op \in ChainOps =>
            k \in 1..Len(inbox) /\ inbox'[k] = inbox[k]
      BY <2>1, <2>2
    <3>3. \A k, l \in 1..Len(inbox') :
            inbox'[k].op \in ChainOps /\ inbox'[l].op \in ChainOps
              /\ inbox'[k].id = inbox'[l].id => k = l
      BY <3>2, DistinctParts
    <3>4. \A k \in 1..Len(reqs), l \in 1..Len(inbox') :
            reqs[k].op \in ChainOps /\ inbox'[l].op \in ChainOps
              /\ reqs[k].id = inbox'[l].id => read[reqs[k].id].cancelled
      BY <3>2, DistinctParts
    <3> QED
      BY <3>1, <3>3, <3>4, DistinctParts DEF Distinct
  <2> QED
    BY <2>3, <2>4, <2>5 DEF ChainInv, NfcdShape
<1> QED
  BY <1>1, <1>2 DEF NfcdShape

LEMMA ChainServe ==
  ASSUME TypeOK, TypeOK', ChainInv, ServeShape
  PROVE  ChainInv'
<1> DEFINE q == reqs[1]
<1>1. /\ Len(reqs) \in Nat \ {0} /\ Len(reqs') = Len(reqs) - 1
      /\ \A k \in 1..Len(reqs') : reqs'[k] = reqs[k + 1] /\ k + 1 \in 1..Len(reqs)
      /\ 1 \in 1..Len(reqs) /\ q \in Calls /\ q.id \in Reads /\ q.id # 0
      /\ Len(inbox) \in Nat
  BY ItemTypes DEF ServeShape, Dropped
<1>2. UNCHANGED <<tag_path, passport_reading, nreads, read>>
  BY DEF ServeShape
<1>3. CallOK(q, read[q.id])
  BY <1>1 DEF ChainInv
<1>4. \A k \in 1..Len(reqs') : CallOK(reqs'[k], read'[reqs'[k].id])
  BY <1>1, <1>2 DEF ChainInv
<1>5. \A k, l \in 1..Len(reqs') :
        reqs'[k].op \in ChainOps /\ reqs'[l].op \in ChainOps /\ reqs'[k].id = reqs'[l].id
          => k = l
  BY <1>1 DEF ChainInv, Distinct
<1>6. CASE inbox' = inbox /\ (q.op = "deactivate" \/ ~Awaited(q))
  <2>1. \A r \in Reads : Waiting(r)'
    <3> SUFFICES ASSUME NEW r \in Reads, Live(r), ~read[r].cancelled,
                        NEW k \in 1..Len(reqs), reqs[k].id = r, reqs[k].op = read[r].stage
                 PROVE  \E j \in 1..Len(reqs') : reqs'[j].id = r /\ reqs'[j].op = read[r].stage
      BY <1>2, <1>6 DEF ChainInv, Waiting, Live
    <3>1. read[r].stage \in ChainOps
      BY DEF ChainInv, RecordOK, Live
    <3>2. k # 1
      BY <1>6, <3>1, OpFacts DEF Awaited
    <3>3. k - 1 \in 1..Len(reqs') /\ reqs'[k - 1] = reqs[k]
      BY <1>1, <3>2
    <3> QED
      BY <3>3
  <2>2. \A k \in 1..Len(inbox') : MessageOK(inbox'[k], read'[inbox'[k].id])
    BY <1>2, <1>6 DEF ChainInv
  <2>3. Distinct'
    <3>1. \A k \in 1..Len(reqs'), l \in 1..Len(inbox) :
            reqs'[k].op \in ChainOps /\ inbox[l].op \in ChainOps
              /\ reqs'[k].id = inbox[l].id => read[reqs'[k].id].cancelled
      BY <1>1, DistinctParts
    <3> QED
      BY <1>2, <1>5, <1>6, <3>1, DistinctParts DEF Distinct
  <2> QED
    BY <1>2, <1>4, <2>1, <2>2, <2>3 DEF ChainInv
<1>7. ASSUME NEW m \in Messages, Reply(q, m), Added(inbox', inbox, m)
      PROVE  ChainInv'
  <2>1. /\ Len(inbox') = Len(inbox) + 1
        /\ \A k \in 1..Len(inbox) : inbox'[k] = inbox[k]
        /\ inbox'[Len(inbox) + 1] = m
    BY <1>7 DEF Added
  <2>2. q.op = "deactivate" => m.id = 0 /\ m.op = "tags"
    <3>1. "deactivate" \notin ChainOps
      BY OpFacts
    <3> QED
      BY <3>1, <1>7 DEF Reply, TagsMsg
  <2>3. q.op # "deactivate" =>
          /\ m.id = q.id /\ m.op = q.op /\ m.path = q.path /\ Awaited(q)
          /\ q.op \in ChainOps \union {"release"}
          /\ m.res = "ok" => Kept(read[q.id], q.op, m.n)
    BY <1>7 DEF Reply
  <2>4. MessageOK(m, read[m.id])
    <3>1. CASE q.op = "deactivate"
      BY <3>1, <2>2 DEF MessageOK
    <3>2. CASE q.op = "release"
      <4>1. read[q.id].stage = "done" /\ q.path # NULL /\ q.op # "tags"
        BY <1>1, <1>3, <3>2, OpFacts DEF CallOK, Calls, NULL
      <4> QED
        BY <1>1, <2>3, <3>2, <4>1 DEF MessageOK
    <3>3. CASE q.op \in ChainOps
      <4>1. q.op \notin {"release", "deactivate", "tags", "done"}
        BY <3>3, OpFacts
      <4>2. read[q.id].stage = q.op
        BY <2>3, <4>1 DEF Awaited
      <4>3. q.path = read[q.id].path
        BY <1>3, <3>3, <4>2 DEF CallOK
      <4> QED
        BY <1>1, <2>3, <3>3, <4>1, <4>2, <4>3 DEF MessageOK
    <3> QED
      BY <2>3, <3>1, <3>2, <3>3
  <2>5. \A k \in 1..Len(inbox') : MessageOK(inbox'[k], read'[inbox'[k].id])
    <3> SUFFICES ASSUME NEW k \in 1..Len(inbox') PROVE MessageOK(inbox'[k], read'[inbox'[k].id])
      OBVIOUS
    <3>1. CASE k = Len(inbox) + 1
      BY <3>1, <2>1, <2>4, <1>2
    <3>2. CASE k \in 1..Len(inbox)
      BY <3>2, <2>1, <1>2 DEF ChainInv
    <3> QED
      BY <2>1, <1>1, <3>1, <3>2
  <2>6. \A r \in Reads : Waiting(r)'
    <3> SUFFICES ASSUME NEW r \in Reads, Live(r) PROVE Waiting(r)'
      BY <1>2 DEF Waiting, Live
    <3>1. CASE \E k \in 1..Len(inbox) : inbox[k].id = r /\ inbox[k].op \in ChainOps
      BY <3>1, <2>1, <1>1 DEF Waiting
    <3>2. CASE /\ ~read[r].cancelled
               /\ \E k \in 1..Len(reqs) : reqs[k].id = r /\ reqs[k].op = read[r].stage
      <4>1. PICK k \in 1..Len(reqs) : reqs[k].id = r /\ reqs[k].op = read[r].stage
        BY <3>2
      <4>2. read[r].stage \in ChainOps
        BY DEF ChainInv, RecordOK, Live
      <4>3. CASE k = 1
        <5>1. m.id = r /\ m.op \in ChainOps
          BY <4>1, <4>2, <4>3, <2>3, OpFacts
        <5> QED
          BY <5>1, <2>1, <1>1 DEF Waiting
      <4>4. CASE k # 1
        <5>1. k - 1 \in 1..Len(reqs') /\ reqs'[k - 1] = reqs[k]
          BY <1>1, <4>4
        <5> QED
          BY <5>1, <4>1, <3>2, <1>2 DEF Waiting
      <4> QED
        BY <4>3, <4>4
    <3> QED
      BY <3>1, <3>2 DEF ChainInv, Waiting
  <2>7. Distinct'
    <3>1. "tags" \notin ChainOps
      BY OpFacts
    <3>2. m.op \in ChainOps => /\ m.id = q.id /\ q.op \in ChainOps
                               /\ ~read[q.id].cancelled
      BY <2>2, <2>3, <3>1, OpFacts DEF Awaited
    <3>3. m.op \in ChainOps =>
            /\ \A k \in 1..Len(inbox) : inbox[k].op \in ChainOps => inbox[k].id # m.id
            /\ \A k \in 1..Len(reqs') : reqs'[k].op \in ChainOps => reqs'[k].id # m.id
      BY <3>2, <1>1 DEF ChainInv, Distinct
    <3>4. \A k, l \in 1..Len(inbox') :
            inbox'[k].op \in ChainOps /\ inbox'[l].op \in ChainOps
              /\ inbox'[k].id = inbox'[l].id => k = l
      <4>1. \A k, l \in 1..Len(inbox) :
              inbox[k].op \in ChainOps /\ inbox[l].op \in ChainOps
                /\ inbox[k].id = inbox[l].id => k = l
        BY DEF ChainInv, Distinct
      <4>2. 1..Len(inbox') = 1..Len(inbox) \union {Len(inbox) + 1}
        BY <1>1, <2>1
      <4> QED
        BY <2>1, <3>3, <4>1, <4>2
    <3>5. \A k \in 1..Len(reqs'), l \in 1..Len(inbox') :
            reqs'[k].op \in ChainOps /\ inbox'[l].op \in ChainOps
              /\ reqs'[k].id = inbox'[l].id => read[reqs'[k].id].cancelled
      <4> SUFFICES ASSUME NEW k \in 1..Len(reqs'), NEW l \in 1..Len(inbox'),
                          reqs'[k].op \in ChainOps, inbox'[l].op \in ChainOps,
                          reqs'[k].id = inbox'[l].id
                   PROVE  read[reqs'[k].id].cancelled
        OBVIOUS
      <4>1. CASE l = Len(inbox) + 1
        <5>1. inbox'[l] = m
          BY <2>1, <4>1
        <5> QED
          BY <3>3, <5>1
      <4>2. CASE l \in 1..Len(inbox)
        <5>1. /\ inbox'[l] = inbox[l]
              /\ reqs'[k] = reqs[k + 1] /\ k + 1 \in 1..Len(reqs)
          BY <1>1, <2>1, <4>2
        <5> QED
          BY <4>2, <5>1, DistinctParts
      <4> QED
        BY <1>1, <2>1, <4>1, <4>2
    <3> QED
      BY <1>2, <1>5, <3>4, <3>5 DEF Distinct
  <2> QED
    BY <1>2, <1>4, <2>5, <2>6, <2>7 DEF ChainInv
<1> QED
  BY <1>6, <1>7 DEF ServeShape

\* A message of another read is still there when the head is taken.
LEMMA StillWaiting ==
  ASSUME TypeOK, ChainInv, NEW s \in Reads, Live(s), Dropped(inbox', inbox),
         inbox[1].id # s \/ inbox[1].op \notin ChainOps,
         \A k \in 1..Len(reqs) : reqs'[k] = reqs[k], Len(reqs') >= Len(reqs),
         Len(reqs') \in Nat,
         read'[s] = read[s]
  PROVE  Waiting(s)'
<1>1. /\ Len(inbox) \in Nat \ {0} /\ Len(inbox') = Len(inbox) - 1
      /\ \A k \in 1..Len(inbox) - 1 : inbox'[k] = inbox[k + 1]
  BY DEF Dropped
<1>2. CASE \E k \in 1..Len(inbox) : inbox[k].id = s /\ inbox[k].op \in ChainOps
  <2>1. PICK k \in 1..Len(inbox) : inbox[k].id = s /\ inbox[k].op \in ChainOps
    BY <1>2
  <2>2. k - 1 \in 1..Len(inbox') /\ inbox'[k - 1] = inbox[k]
    BY <1>1, <2>1
  <2> QED
    BY <2>1, <2>2 DEF Waiting
<1>3. CASE /\ ~read[s].cancelled
           /\ \E k \in 1..Len(reqs) : reqs[k].id = s /\ reqs[k].op = read[s].stage
  <2>1. Len(reqs) \in Nat
    BY ItemTypes
  <2>2. \A k \in 1..Len(reqs) : k \in 1..Len(reqs')
    BY <2>1
  <2> QED
    BY <1>3, <2>2 DEF Waiting
<1> QED
  BY <1>2, <1>3 DEF ChainInv, Waiting

LEMMA ChainGo ==
  ASSUME TypeOK, TypeOK', ChainInv, NEW r \in Reads, NEW d, NEW q \in Calls,
         GoShape(r, d, q)
  PROVE  ChainInv'
<1>1. /\ Answered(r) /\ ~read[r].cancelled
      /\ d \in Records /\ RecordOK(d) /\ GoesOn(d, read[r], q)
      /\ read' = [read EXCEPT ![r] = d] /\ nreads' = nreads
      /\ q.id = r /\ Added(reqs', reqs, q)
  BY DEF GoShape
<1>2. /\ Len(inbox) \in Nat \ {0} /\ Len(inbox') = Len(inbox) - 1
      /\ \A k \in 1..Len(inbox') : inbox'[k] = inbox[k + 1] /\ k + 1 \in 2..Len(inbox)
                                   /\ k + 1 \in 1..Len(inbox)
      /\ inbox[1].id = r
  BY <1>1 DEF Answered, Dropped
<1>3. /\ Len(reqs) \in Nat /\ Len(reqs') = Len(reqs) + 1
      /\ \A k \in 1..Len(reqs) : reqs'[k] = reqs[k]
      /\ reqs'[Len(reqs) + 1] = q
      /\ 1..Len(reqs') = 1..Len(reqs) \union {Len(reqs) + 1}
  BY <1>1, ItemTypes DEF Added
<1>4. /\ \A k \in 2..Len(inbox) : inbox[k].id # r
      /\ \A k \in 1..Len(reqs) : reqs[k].id # r
      /\ Live(r)
  BY <1>1, AnsweredAlone
<1>5. /\ read'[r] = d /\ \A s \in Reads \ {r} : read'[s] = read[s]
  BY <1>1 DEF TypeOK
<1>6. /\ \A k \in 1..Len(reqs) : reqs[k].id \in Reads
      /\ \A k \in 1..Len(inbox) : inbox[k].id # 0 => inbox[k].id \in Reads
      /\ r # 0
  BY ItemTypes
<1>7. \A s \in Reads : RecordOK(read[s])'
  BY <1>1, <1>5 DEF ChainInv
<1>8. \A s \in Reads : Waiting(s)'
  <2>1. ~d.cancelled /\ q.op = d.stage
    BY <1>1 DEF GoesOn
  <2>2. Waiting(r)'
    BY <1>1, <1>3, <1>5, <2>1 DEF Waiting
  <2>3. ASSUME NEW s \in Reads \ {r} PROVE Waiting(s)'
    <3>1. read'[s] = read[s] /\ Dropped(inbox', inbox) /\ inbox[1].id # s
      BY <1>1, <1>2, <1>5 DEF Answered
    <3>2. CASE Live(s)
      BY <3>1, <3>2, <1>3, StillWaiting
    <3>3. CASE ~Live(s)
      BY <3>1, <3>3 DEF Waiting, Live
    <3> QED
      BY <3>2, <3>3
  <2> QED
    BY <2>2, <2>3
<1>9. \A s \in Reads : s > nreads' => read'[s].stage = "idle"
  BY <1>1, <1>4, <1>5 DEF ChainInv, Live
<1>10. \A k \in 1..Len(reqs') : CallOK(reqs'[k], read'[reqs'[k].id])
  BY <1>1, <1>3, <1>4, <1>5, <1>6 DEF ChainInv, GoesOn
<1>11. \A k \in 1..Len(inbox') : MessageOK(inbox'[k], read'[inbox'[k].id])
  <2> SUFFICES ASSUME NEW k \in 1..Len(inbox')
               PROVE  MessageOK(inbox[k + 1], read'[inbox[k + 1].id])
    BY <1>2
  <2>1. MessageOK(inbox[k + 1], read[inbox[k + 1].id]) /\ inbox[k + 1].id # r
    BY <1>2, <1>4 DEF ChainInv
  <2>2. CASE inbox[k + 1].id = 0
    BY <2>1, <2>2 DEF MessageOK
  <2>3. CASE inbox[k + 1].id # 0
    BY <2>1, <2>3, <1>2, <1>5, <1>6
  <2> QED
    BY <2>2, <2>3
<1>12. Distinct'
  <2>1. \A k, l \in 1..Len(reqs') :
          reqs'[k].op \in ChainOps /\ reqs'[l].op \in ChainOps
            /\ reqs'[k].id = reqs'[l].id => k = l
    BY <1>1, <1>3, <1>4, DistinctParts
  <2>2. \A k, l \in 1..Len(inbox') :
          inbox'[k].op \in ChainOps /\ inbox'[l].op \in ChainOps
            /\ inbox'[k].id = inbox'[l].id => k = l
    BY <1>2, DistinctParts
  <2>3. \A k \in 1..Len(reqs'), l \in 1..Len(inbox') :
          reqs'[k].op \in ChainOps /\ inbox'[l].op \in ChainOps
            /\ reqs'[k].id = inbox'[l].id => read'[reqs'[k].id].cancelled
    <3> SUFFICES ASSUME NEW k \in 1..Len(reqs'), NEW l \in 1..Len(inbox'),
                        reqs'[k].op \in ChainOps, inbox'[l].op \in ChainOps,
                        reqs'[k].id = inbox'[l].id
                 PROVE  read'[reqs'[k].id].cancelled
      OBVIOUS
    <3>1. inbox'[l] = inbox[l + 1] /\ l + 1 \in 1..Len(inbox) /\ inbox'[l].id # r
      BY <1>2, <1>4
    <3>2. k \in 1..Len(reqs) /\ reqs'[k] = reqs[k]
      BY <1>1, <1>3, <3>1
    <3>3. read[reqs[k].id].cancelled
      BY <3>1, <3>2, DistinctParts
    <3> QED
      BY <3>1, <3>2, <3>3, <1>5, <1>6
  <2> QED
    BY <2>1, <2>2, <2>3 DEF Distinct
<1> QED
  BY <1>7, <1>8, <1>9, <1>10, <1>11, <1>12 DEF ChainInv

LEMMA ChainEnd ==
  ASSUME TypeOK, TypeOK', ChainInv, NEW r \in Reads, NEW d, EndShape(r, d)
  PROVE  ChainInv'
<1> DEFINE q == Call(r, "release", read[r].path, 0)
<1>1. /\ Answered(r) /\ Over(d)
      /\ read' = [read EXCEPT ![r] = d] /\ nreads' = nreads
      /\ reqs' = reqs \/ Added(reqs', reqs, q)
  BY DEF EndShape
<1>2. /\ Len(inbox) \in Nat \ {0} /\ Len(inbox') = Len(inbox) - 1
      /\ \A k \in 1..Len(inbox') : inbox'[k] = inbox[k + 1] /\ k + 1 \in 2..Len(inbox)
                                   /\ k + 1 \in 1..Len(inbox)
      /\ inbox[1].id = r /\ Dropped(inbox', inbox)
  BY <1>1 DEF Answered, Dropped
<1>3. /\ Len(reqs) \in Nat /\ Len(reqs') \in Nat /\ Len(reqs') >= Len(reqs)
      /\ \A k \in 1..Len(reqs) : reqs'[k] = reqs[k]
      /\ \A k \in 1..Len(reqs') : k \in 1..Len(reqs) \/ reqs'[k] = q
  BY <1>1, ItemTypes DEF Added
<1>4. /\ \A k \in 2..Len(inbox) : inbox[k].id # r
      /\ Live(r)
  BY <1>1, AnsweredAlone
<1>5. /\ read'[r] = d /\ \A s \in Reads \ {r} : read'[s] = read[s]
  BY <1>1 DEF TypeOK
<1>6. /\ \A k \in 1..Len(reqs) : reqs[k].id \in Reads
      /\ \A k \in 1..Len(inbox) : inbox[k].id # 0 => inbox[k].id \in Reads
      /\ r # 0
  BY ItemTypes
<1>7. \A s \in Reads : RecordOK(read[s])'
  BY <1>1, <1>5 DEF ChainInv, Over
<1>8. \A s \in Reads : Waiting(s)'
  <2>1. Waiting(r)'
    BY <1>1, <1>5 DEF Waiting, Live, Over
  <2>2. ASSUME NEW s \in Reads \ {r} PROVE Waiting(s)'
    <3>1. read'[s] = read[s] /\ inbox[1].id # s
      BY <1>2, <1>5
    <3>2. CASE Live(s)
      BY <3>1, <3>2, <1>2, <1>3, StillWaiting
    <3>3. CASE ~Live(s)
      BY <3>1, <3>3 DEF Waiting, Live
    <3> QED
      BY <3>2, <3>3
  <2> QED
    BY <2>1, <2>2
<1>9. \A s \in Reads : s > nreads' => read'[s].stage = "idle"
  BY <1>1, <1>4, <1>5 DEF ChainInv, Live
<1>q. q.id = r /\ q.op = "release" /\ "release" \notin ChainOps
  BY OpFacts DEF Call
<1> HIDE DEF q
<1>10. \A k \in 1..Len(reqs') : CallOK(reqs'[k], read'[reqs'[k].id])
  <2> SUFFICES ASSUME NEW k \in 1..Len(reqs')
               PROVE  CallOK(reqs'[k], read'[reqs'[k].id])
    OBVIOUS
  <2>1. d.stage = "done"
    BY <1>1 DEF Over
  <2>2. CASE reqs'[k] = q
    BY <2>1, <2>2, <1>q, <1>5 DEF CallOK
  <2>3. CASE k \in 1..Len(reqs) /\ reqs[k].id # r
    BY <2>3, <1>3, <1>5, <1>6 DEF ChainInv
  <2>4. CASE k \in 1..Len(reqs) /\ reqs[k].id = r
    BY <2>1, <2>4, <1>3, <1>5, OpFacts DEF CallOK
  <2> QED
    BY <1>3, <2>2, <2>3, <2>4
<1>11. \A k \in 1..Len(inbox') : MessageOK(inbox'[k], read'[inbox'[k].id])
  <2> SUFFICES ASSUME NEW k \in 1..Len(inbox')
               PROVE  MessageOK(inbox[k + 1], read'[inbox[k + 1].id])
    BY <1>2
  <2>1. MessageOK(inbox[k + 1], read[inbox[k + 1].id]) /\ inbox[k + 1].id # r
    BY <1>2, <1>4 DEF ChainInv
  <2>2. CASE inbox[k + 1].id = 0
    BY <2>1, <2>2 DEF MessageOK
  <2>3. CASE inbox[k + 1].id # 0
    BY <2>1, <2>3, <1>2, <1>5, <1>6
  <2> QED
    BY <2>2, <2>3
<1>12. Distinct'
  <2>0. \A k \in 1..Len(reqs') : reqs'[k].op \in ChainOps =>
          k \in 1..Len(reqs) /\ reqs'[k] = reqs[k]
    BY <1>3, <1>q
  <2>1. \A k, l \in 1..Len(reqs') :
          reqs'[k].op \in ChainOps /\ reqs'[l].op \in ChainOps
            /\ reqs'[k].id = reqs'[l].id => k = l
    BY <2>0, DistinctParts
  <2>2. \A k, l \in 1..Len(inbox') :
          inbox'[k].op \in ChainOps /\ inbox'[l].op \in ChainOps
            /\ inbox'[k].id = inbox'[l].id => k = l
    BY <1>2, DistinctParts
  <2>3. \A k \in 1..Len(reqs'), l \in 1..Len(inbox') :
          reqs'[k].op \in ChainOps /\ inbox'[l].op \in ChainOps
            /\ reqs'[k].id = inbox'[l].id => read'[reqs'[k].id].cancelled
    <3> SUFFICES ASSUME NEW k \in 1..Len(reqs'), NEW l \in 1..Len(inbox'),
                        reqs'[k].op \in ChainOps, inbox'[l].op \in ChainOps,
                        reqs'[k].id = inbox'[l].id
                 PROVE  read'[reqs'[k].id].cancelled
      OBVIOUS
    <3>1. inbox'[l] = inbox[l + 1] /\ l + 1 \in 1..Len(inbox)
      BY <1>2
    <3>2. k \in 1..Len(reqs) /\ reqs'[k] = reqs[k]
      BY <2>0
    <3>3. read[reqs[k].id].cancelled
      BY <3>1, <3>2, DistinctParts
    <3> QED
      BY <3>1, <3>2, <3>3, <1>2, <1>4, <1>5, <1>6
  <2> QED
    BY <2>1, <2>2, <2>3 DEF Distinct
<1> QED
  BY <1>7, <1>8, <1>9, <1>10, <1>11, <1>12 DEF ChainInv

LEMMA ChainRelease ==
  ASSUME TypeOK, TypeOK', ChainInv, ReleaseShape
  PROVE  ChainInv'
<1> DEFINE r == inbox[1].id
           q == Call(r, "deactivate", inbox[1].path, 0)
<1>1. /\ Dropped(inbox', inbox) /\ inbox[1].op = "release" /\ Added(reqs', reqs, q)
      /\ UNCHANGED <<passport_reading, nreads, read>>
  BY DEF ReleaseShape
<1>2. /\ Len(inbox) \in Nat \ {0} /\ Len(inbox') = Len(inbox) - 1
      /\ \A k \in 1..Len(inbox') : inbox'[k] = inbox[k + 1] /\ k + 1 \in 1..Len(inbox)
      /\ 1 \in 1..Len(inbox)
  BY <1>1 DEF Dropped
<1>3. /\ Len(reqs) \in Nat /\ Len(reqs') \in Nat /\ Len(reqs') >= Len(reqs)
      /\ \A k \in 1..Len(reqs) : reqs'[k] = reqs[k]
      /\ \A k \in 1..Len(reqs') : k \in 1..Len(reqs) \/ reqs'[k] = q
  BY <1>1, ItemTypes DEF Added
<1>4. q.id = r /\ q.op = "deactivate" /\ "deactivate" \notin ChainOps
      /\ "release" \notin ChainOps
  BY OpFacts DEF Call
<1>5. read[r].stage = "done"
  <2>1. MessageOK(inbox[1], read[r])
    BY <1>2 DEF ChainInv
  <2> QED
    BY <2>1, <1>1, <1>4 DEF MessageOK
<1> HIDE DEF q
<1>6. \A s \in Reads : Waiting(s)'
  <2> SUFFICES ASSUME NEW s \in Reads, Live(s) PROVE Waiting(s)'
    BY <1>1 DEF Waiting, Live
  <2> QED
    BY <1>1, <1>3, <1>4, StillWaiting
<1>7. \A k \in 1..Len(reqs') : CallOK(reqs'[k], read'[reqs'[k].id])
  <2>1. CallOK(q, read[q.id])
    BY <1>4, <1>5 DEF CallOK
  <2> QED
    BY <2>1, <1>1, <1>3 DEF ChainInv
<1>8. \A k \in 1..Len(inbox') : MessageOK(inbox'[k], read'[inbox'[k].id])
  BY <1>1, <1>2 DEF ChainInv
<1>9. Distinct'
  <2>0. \A k \in 1..Len(reqs') : reqs'[k].op \in ChainOps =>
          k \in 1..Len(reqs) /\ reqs'[k] = reqs[k]
    BY <1>3, <1>4
  <2>1. \A k, l \in 1..Len(reqs') :
          reqs'[k].op \in ChainOps /\ reqs'[l].op \in ChainOps
            /\ reqs'[k].id = reqs'[l].id => k = l
    BY <2>0, DistinctParts
  <2>2. \A k, l \in 1..Len(inbox') :
          inbox'[k].op \in ChainOps /\ inbox'[l].op \in ChainOps
            /\ inbox'[k].id = inbox'[l].id => k = l
    BY <1>2, DistinctParts
  <2>3. \A k \in 1..Len(reqs'), l \in 1..Len(inbox') :
          reqs'[k].op \in ChainOps /\ inbox'[l].op \in ChainOps
            /\ reqs'[k].id = inbox'[l].id => read'[reqs'[k].id].cancelled
    <3> SUFFICES ASSUME NEW k \in 1..Len(reqs'), NEW l \in 1..Len(inbox'),
                        reqs'[k].op \in ChainOps, inbox'[l].op \in ChainOps,
                        reqs'[k].id = inbox'[l].id
                 PROVE  read'[reqs'[k].id].cancelled
      OBVIOUS
    <3>1. inbox'[l] = inbox[l + 1] /\ l + 1 \in 1..Len(inbox)
      BY <1>2
    <3>2. k \in 1..Len(reqs) /\ reqs'[k] = reqs[k]
      BY <2>0
    <3>3. read[reqs[k].id].cancelled
      BY <3>1, <3>2, DistinctParts
    <3> QED
      BY <3>1, <3>2, <3>3, <1>2, <1>1
  <2> QED
    BY <2>1, <2>2, <2>3 DEF Distinct
<1> QED
  BY <1>1, <1>6, <1>7, <1>8, <1>9 DEF ChainInv

\* A read that has not started has nothing on the bus.
LEMMA IdleAlone ==
  ASSUME TypeOK, ChainInv, NEW r \in Reads, r = nreads + 1
  PROVE  /\ read[r].stage = "idle"
         /\ \A k \in 1..Len(reqs) : reqs[k].id # r
         /\ \A k \in 1..Len(inbox) : inbox[k].id # r
<1>1. read[r].stage = "idle"
  <2>1. r > nreads
    BY DEF TypeOK
  <2> QED
    BY <2>1 DEF ChainInv
<1>2. r # 0
  BY ItemTypes
<1> QED
  BY <1>1, <1>2, OpFacts DEF ChainInv, CallOK, MessageOK

LEMMA ChainStart ==
  ASSUME TypeOK, TypeOK', ChainInv, NEW r \in Reads, NEW d, NEW q \in Calls,
         StartShape(r, d, q)
  PROVE  ChainInv'
<1>1. /\ r = nreads + 1 /\ nreads' = r /\ inbox' = inbox
      /\ d \in Records /\ RecordOK(d) /\ d.stage = "tag_proxy" /\ ~d.cancelled
      /\ d.path = tag_path /\ read' = [read EXCEPT ![r] = d]
      /\ q = Call(r, "tag_proxy", tag_path, 0) /\ Added(reqs', reqs, q)
  BY DEF StartShape
<1>2. q.id = r /\ q.op = "tag_proxy" /\ q.path = tag_path /\ q.op \in ChainOps
  BY <1>1, OpFacts DEF Call, EarlyOps
<1>3. /\ Len(reqs) \in Nat /\ Len(reqs') = Len(reqs) + 1
      /\ \A k \in 1..Len(reqs) : reqs'[k] = reqs[k]
      /\ reqs'[Len(reqs) + 1] = q
      /\ 1..Len(reqs') = 1..Len(reqs) \union {Len(reqs) + 1}
      /\ \A k \in 1..Len(reqs) : reqs[k].id \in Reads
      /\ \A k \in 1..Len(inbox) : inbox[k].id # 0 => inbox[k].id \in Reads
  BY <1>1, ItemTypes DEF Added
<1>4. /\ read[r].stage = "idle"
      /\ \A k \in 1..Len(inbox) : inbox[k].id # r
      /\ \A k \in 1..Len(reqs) : reqs[k].id # r
  BY <1>1, IdleAlone
<1>5. /\ read'[r] = d /\ \A s \in Reads \ {r} : read'[s] = read[s]
  BY <1>1 DEF TypeOK
<1>6. \A s \in Reads : RecordOK(read[s])'
  BY <1>1, <1>5 DEF ChainInv
<1>7. \A s \in Reads : Waiting(s)'
  <2>1. Waiting(r)'
    BY <1>1, <1>2, <1>3, <1>5 DEF Waiting
  <2>2. ASSUME NEW s \in Reads \ {r} PROVE Waiting(s)'
    BY <1>1, <1>3, <1>5 DEF ChainInv, Waiting, Live
  <2> QED
    BY <2>1, <2>2
<1>8. \A s \in Reads : s > nreads' => read'[s].stage = "idle"
  BY <1>1, <1>5 DEF ChainInv, TypeOK, Reads
<1>9. \A k \in 1..Len(reqs') : CallOK(reqs'[k], read'[reqs'[k].id])
  <2>1. CallOK(q, d)
    BY <1>1, <1>2 DEF CallOK
  <2> QED
    BY <2>1, <1>2, <1>3, <1>4, <1>5 DEF ChainInv
<1>10. \A k \in 1..Len(inbox') : MessageOK(inbox'[k], read'[inbox'[k].id])
  <2> SUFFICES ASSUME NEW k \in 1..Len(inbox)
               PROVE  MessageOK(inbox[k], read'[inbox[k].id])
    BY <1>1
  <2>1. MessageOK(inbox[k], read[inbox[k].id]) /\ inbox[k].id # r
    BY <1>4 DEF ChainInv
  <2>2. CASE inbox[k].id = 0
    BY <2>1, <2>2 DEF MessageOK
  <2>3. CASE inbox[k].id # 0
    BY <2>1, <2>3, <1>3, <1>5
  <2> QED
    BY <2>2, <2>3
<1>11. Distinct'
  <2>1. \A k, l \in 1..Len(reqs') :
          reqs'[k].op \in ChainOps /\ reqs'[l].op \in ChainOps
            /\ reqs'[k].id = reqs'[l].id => k = l
    BY <1>2, <1>3, <1>4, DistinctParts
  <2>2. \A k, l \in 1..Len(inbox') :
          inbox'[k].op \in ChainOps /\ inbox'[l].op \in ChainOps
            /\ inbox'[k].id = inbox'[l].id => k = l
    BY <1>1, DistinctParts
  <2>3. \A k \in 1..Len(reqs'), l \in 1..Len(inbox') :
          reqs'[k].op \in ChainOps /\ inbox'[l].op \in ChainOps
            /\ reqs'[k].id = inbox'[l].id => read'[reqs'[k].id].cancelled
    BY <1>1, <1>2, <1>3, <1>4, <1>5, DistinctParts
  <2> QED
    BY <2>1, <2>2, <2>3 DEF Distinct
<1> QED
  BY <1>6, <1>7, <1>8, <1>9, <1>10, <1>11 DEF ChainInv

LEMMA ChainRefuse ==
  ASSUME TypeOK, TypeOK', ChainInv, NEW r \in Reads, NEW d, RefuseShape(r, d)
  PROVE  ChainInv'
<1>1. /\ r = nreads + 1 /\ nreads' = r /\ inbox' = inbox /\ reqs' = reqs
      /\ Over(d) /\ read' = [read EXCEPT ![r] = d]
  BY DEF RefuseShape
<1>2. /\ \A k \in 1..Len(inbox) : inbox[k].id # r
      /\ \A k \in 1..Len(reqs) : reqs[k].id # r /\ reqs[k].id \in Reads
      /\ \A k \in 1..Len(inbox) : inbox[k].id # 0 => inbox[k].id \in Reads
  BY <1>1, IdleAlone, ItemTypes
<1>3. /\ read'[r] = d /\ \A s \in Reads \ {r} : read'[s] = read[s]
  BY <1>1 DEF TypeOK
<1>4. \A s \in Reads : RecordOK(read[s])'
  BY <1>1, <1>3 DEF ChainInv, Over
<1>5. \A s \in Reads : Waiting(s)'
  <2>1. Waiting(r)'
    BY <1>1, <1>3 DEF Waiting, Live, Over
  <2>2. ASSUME NEW s \in Reads \ {r} PROVE Waiting(s)'
    BY <1>1, <1>3 DEF ChainInv, Waiting, Live
  <2> QED
    BY <2>1, <2>2
<1>6. \A s \in Reads : s > nreads' => read'[s].stage = "idle"
  BY <1>1, <1>3 DEF ChainInv, TypeOK, Reads
<1>7. \A k \in 1..Len(reqs') : CallOK(reqs'[k], read'[reqs'[k].id])
  BY <1>1, <1>2, <1>3 DEF ChainInv
<1>8. \A k \in 1..Len(inbox') : MessageOK(inbox'[k], read'[inbox'[k].id])
  <2> SUFFICES ASSUME NEW k \in 1..Len(inbox)
               PROVE  MessageOK(inbox[k], read'[inbox[k].id])
    BY <1>1
  <2>1. MessageOK(inbox[k], read[inbox[k].id])
    BY DEF ChainInv
  <2>2. CASE inbox[k].id = 0
    BY <2>1, <2>2 DEF MessageOK
  <2>3. CASE inbox[k].id # 0
    BY <2>1, <2>3, <1>2, <1>3
  <2> QED
    BY <2>2, <2>3
<1>9. Distinct'
  BY <1>1, <1>2, <1>3 DEF ChainInv, Distinct
<1> QED
  BY <1>4, <1>5, <1>6, <1>7, <1>8, <1>9 DEF ChainInv

LEMMA ChainTag ==
  ASSUME TypeOK, TypeOK', ChainInv, NEW c \in BOOLEAN, TagShape(c)
  PROVE  ChainInv'
<1>1. /\ Dropped(inbox', inbox) /\ inbox[1].op = "tags" /\ UNCHANGED <<reqs, nreads, read>>
  BY DEF TagShape
<1>2. /\ Len(inbox) \in Nat \ {0} /\ Len(inbox') = Len(inbox) - 1
      /\ \A k \in 1..Len(inbox') : inbox'[k] = inbox[k + 1] /\ k + 1 \in 1..Len(inbox)
      /\ "tags" \notin ChainOps /\ Len(reqs) \in Nat
  BY <1>1, OpFacts, ItemTypes DEF Dropped
<1>3. \A s \in Reads : Waiting(s)'
  <2> SUFFICES ASSUME NEW s \in Reads, Live(s) PROVE Waiting(s)'
    BY <1>1 DEF Waiting, Live
  <2> QED
    BY <1>1, <1>2, StillWaiting
<1>4. \A k \in 1..Len(inbox') : MessageOK(inbox'[k], read'[inbox'[k].id])
  BY <1>1, <1>2 DEF ChainInv
<1>5. Distinct'
  <2>2. \A k, l \in 1..Len(inbox') :
          inbox'[k].op \in ChainOps /\ inbox'[l].op \in ChainOps
            /\ inbox'[k].id = inbox'[l].id => k = l
    <3> SUFFICES ASSUME NEW k \in 1..Len(inbox'), NEW l \in 1..Len(inbox'),
                        inbox'[k].op \in ChainOps, inbox'[l].op \in ChainOps,
                        inbox'[k].id = inbox'[l].id
                 PROVE  k = l
      OBVIOUS
    <3>1. k + 1 = l + 1
      BY <1>2, DistinctParts
    <3> QED
      BY <3>1, <1>2
  <2>3. \A k \in 1..Len(reqs), l \in 1..Len(inbox') :
          reqs[k].op \in ChainOps /\ inbox'[l].op \in ChainOps
            /\ reqs[k].id = inbox'[l].id => read[reqs[k].id].cancelled
    BY <1>1, <1>2, DistinctParts
  <2> QED
    BY <2>2, <2>3, <1>1, DistinctParts DEF Distinct
<1> QED
  BY <1>1, <1>3, <1>4, <1>5 DEF ChainInv

LEMMA ChainAbort ==
  ASSUME TypeOK, TypeOK', ChainInv, OneReadAtATime, NEW r \in Reads, NEW d,
         AbortShape(r, d)
  PROVE  ChainInv'
<1> DEFINE a == Answer(Call(r, read[r].stage, read[r].path, 0), "fail", 0)
           out == \E i \in 1..Len(reqs) : reqs[i].id = r /\ reqs[i].op = read[r].stage
<1>1. /\ r = passport_reading /\ r # NULL /\ inbox # <<>> /\ inbox[1].op = "tags"
      /\ Aborted(r, d) /\ read' = [read EXCEPT ![r] = d] /\ UNCHANGED <<reqs, nreads>>
  BY DEF AbortShape
<1>2. /\ Live(r) /\ ~read[r].cancelled /\ read[r].stage \in ChainOps /\ read[r] \in Records
      /\ RecordOK(read[r]) /\ read[r].stage # "idle"
  BY <1>1 DEF OneReadAtATime, ChainInv, RecordOK, Live, TypeOK
<1>3. /\ d \in Records /\ d.stage = read[r].stage /\ d.path = read[r].path
      /\ d.cancelled = TRUE /\ d.client = FALSE /\ d.acquired = read[r].acquired
      /\ d.answers = read[r].answers /\ d.len = read[r].len /\ d.total = read[r].total
  <2>1. PICK d1 \in Records : d1 = [read[r] EXCEPT !.client = FALSE]
    BY <1>2 DEF Records
  <2>2. d = [d1 EXCEPT !.cancelled = TRUE] /\ d \in Records
    BY <1>1, <2>1, Zenon DEF Aborted
  <2> QED
    BY <1>2, <2>1, <2>2 DEF Records
<1>4. RecordOK(d)
  BY <1>2, <1>3 DEF RecordOK, Unread, Bounded
<1>5. /\ read'[r] = d /\ \A s \in Reads \ {r} : read'[s] = read[s]
  BY <1>1 DEF TypeOK
<1>6. /\ Len(inbox) \in Nat \ {0} /\ Len(reqs) \in Nat /\ r # 0
      /\ \A k \in 1..Len(reqs) : reqs[k].id \in Reads
      /\ \A k \in 1..Len(inbox) : inbox[k].id # 0 => inbox[k].id \in Reads
  <2>1. Len(inbox) \in Nat \ {0}
    BY <1>1, QueueFacts DEF TypeOK, Dropped
  <2> QED
    BY <2>1, ItemTypes
<1>7. a.id = r /\ a.op = read[r].stage /\ a.path = read[r].path /\ a.res = "fail"
  BY DEF Answer, Call
<1> HIDE DEF a
<1>8. /\ \/ out /\ Len(inbox') = Len(inbox) /\ inbox'[Len(inbox)] = a
         \/ ~out /\ Len(inbox') = Len(inbox) - 1
      /\ \A k \in 1..Len(inbox) - 1 : inbox'[k] = inbox[k + 1]
  BY DEF AbortShape, Dropped, a
<1>9. /\ \A k \in 1..Len(inbox') :
           \/ k \in 1..Len(inbox) - 1 /\ inbox'[k] = inbox[k + 1] /\ k + 1 \in 1..Len(inbox)
           \/ k = Len(inbox) /\ inbox'[k] = a /\ out
      /\ \A k \in 2..Len(inbox) : k - 1 \in 1..Len(inbox') /\ inbox'[k - 1] = inbox[k]
  <2> HIDE DEF out
  <2> QED
    BY <1>6, <1>8
<1>10. out => \A k \in 1..Len(inbox) : inbox[k].op \in ChainOps => inbox[k].id # r
  BY <1>2, DistinctParts
<1>11. \A s \in Reads : RecordOK(read[s])'
  BY <1>4, <1>5 DEF ChainInv
<1>12. ASSUME NEW s \in Reads, NEW k \in 1..Len(inbox),
              inbox[k].id = s, inbox[k].op \in ChainOps
       PROVE  \E l \in 1..Len(inbox') : inbox'[l].id = s /\ inbox'[l].op \in ChainOps
  <2>1. k # 1
    BY <1>1, <1>12, OpFacts
  <2> QED
    BY <1>6, <1>9, <1>12, <2>1
<1>13. \A s \in Reads : Waiting(s)'
  <2>1. Waiting(r)'
    <3>1. CASE out
      <4>1. Len(inbox) \in 1..Len(inbox') /\ inbox'[Len(inbox)] = a
        BY <1>6, <1>8, <3>1
      <4> QED
        BY <4>1, <1>2, <1>7 DEF Waiting
    <3>2. CASE ~out
      <4>1. \E k \in 1..Len(inbox) : inbox[k].id = r /\ inbox[k].op \in ChainOps
        BY <1>2, <3>2 DEF ChainInv, Waiting
      <4> QED
        BY <4>1, <1>12 DEF Waiting
    <3> QED
      BY <3>1, <3>2
  <2>2. ASSUME NEW s \in Reads \ {r} PROVE Waiting(s)'
    BY <1>1, <1>5, <1>12 DEF ChainInv, Waiting, Live
  <2> QED
    BY <2>1, <2>2
<1>14. \A s \in Reads : s > nreads' => read'[s].stage = "idle"
  BY <1>1, <1>2, <1>5 DEF ChainInv
<1>15. \A k \in 1..Len(reqs') : CallOK(reqs'[k], read'[reqs'[k].id])
  <2> SUFFICES ASSUME NEW k \in 1..Len(reqs) PROVE CallOK(reqs[k], read'[reqs[k].id])
    BY <1>1
  <2>1. CallOK(reqs[k], read[reqs[k].id]) /\ reqs[k].id \in Reads
    BY <1>6 DEF ChainInv
  <2>2. CASE reqs[k].id = r
    BY <2>1, <2>2, <1>3, <1>5 DEF CallOK, Fits
  <2>3. CASE reqs[k].id # r
    BY <2>1, <2>3, <1>5
  <2> QED
    BY <2>2, <2>3
<1>16. \A k \in 1..Len(inbox') : MessageOK(inbox'[k], read'[inbox'[k].id])
  <2>1. MessageOK(a, d)
    BY <1>2, <1>3, <1>6, <1>7, OpFacts DEF MessageOK
  <2>2. ASSUME NEW k \in 1..Len(inbox) PROVE MessageOK(inbox[k], read'[inbox[k].id])
    <3>1. MessageOK(inbox[k], read[inbox[k].id])
      BY DEF ChainInv
    <3>2. CASE inbox[k].id = 0
      BY <3>1, <3>2 DEF MessageOK
    <3>3. CASE inbox[k].id = r
      BY <3>1, <3>3, <1>3, <1>5 DEF MessageOK, Fits, Kept
    <3>4. CASE inbox[k].id \notin {0, r}
      BY <3>1, <3>4, <1>5, <1>6
    <3> QED
      BY <3>2, <3>3, <3>4
  <2> QED
    BY <2>1, <2>2, <1>5, <1>7, <1>9
<1>17. Distinct'
  <2> HIDE DEF out
  <2>2. \A k, l \in 1..Len(inbox') :
          inbox'[k].op \in ChainOps /\ inbox'[l].op \in ChainOps
            /\ inbox'[k].id = inbox'[l].id => k = l
    <3> SUFFICES ASSUME NEW k \in 1..Len(inbox'), NEW l \in 1..Len(inbox'),
                        inbox'[k].op \in ChainOps, inbox'[l].op \in ChainOps,
                        inbox'[k].id = inbox'[l].id
                 PROVE  k = l
      OBVIOUS
    <3>1. ASSUME NEW i \in 1..Len(inbox'), inbox'[i].op \in ChainOps,
                 NEW j \in 1..Len(inbox'), j = Len(inbox), inbox'[j] = a, out,
                 inbox'[i].id = inbox'[j].id
          PROVE  i = Len(inbox)
      BY <1>7, <1>9, <1>10, <3>1
    <3>2. CASE k = Len(inbox) /\ inbox'[k] = a /\ out
      BY <3>1, <3>2
    <3>3. CASE l = Len(inbox) /\ inbox'[l] = a /\ out
      BY <3>1, <3>3
    <3>4. CASE /\ k + 1 \in 1..Len(inbox) /\ inbox'[k] = inbox[k + 1]
               /\ l + 1 \in 1..Len(inbox) /\ inbox'[l] = inbox[l + 1]
      <4>1. k + 1 = l + 1
        BY <3>4, DistinctParts
      <4> QED
        BY <4>1
    <3> QED
      BY <1>9, <3>2, <3>3, <3>4
  <2>3. \A k \in 1..Len(reqs), l \in 1..Len(inbox') :
          reqs[k].op \in ChainOps /\ inbox'[l].op \in ChainOps
            /\ reqs[k].id = inbox'[l].id => read'[reqs[k].id].cancelled
    <3> SUFFICES ASSUME NEW k \in 1..Len(reqs), NEW l \in 1..Len(inbox'),
                        reqs[k].op \in ChainOps, inbox'[l].op \in ChainOps,
                        reqs[k].id = inbox'[l].id, reqs[k].id # r
                 PROVE  read'[reqs[k].id].cancelled
      BY <1>3, <1>5
    <3>1. l + 1 \in 1..Len(inbox) /\ inbox'[l] = inbox[l + 1]
      BY <1>7, <1>9
    <3>2. read[reqs[k].id].cancelled
      BY <3>1, DistinctParts
    <3> QED
      BY <3>2, <1>5, <1>6
  <2> QED
    BY <2>2, <2>3, <1>1, DistinctParts DEF Distinct
<1> QED
  BY <1>11, <1>13, <1>14, <1>15, <1>16, <1>17 DEF ChainInv

LEMMA ChainStep ==
  ASSUME TypeOK, TypeOK', ChainInv, OneReadAtATime, Shapes
  PROVE  ChainInv'
BY ChainNfcd, ChainServe, ChainRelease, ChainEnd, ChainRefuse, ChainAbort, ChainGo,
   ChainStart, ChainTag DEF Shapes, ClientShapes

-----------------------------------------------------------------------------
(* One read at a time.                                                     *)

\* Whatever is on the bus, or runs, has started.
LEMMA StartedFacts ==
  ASSUME TypeOK, ChainInv
  PROVE  /\ \A s \in Reads : Live(s) => s <= nreads
         /\ \A k \in 1..Len(reqs) : reqs[k].id <= nreads
         /\ \A k \in 1..Len(inbox) : inbox[k].id <= nreads
<1>1. nreads \in Nat /\ \A s \in Reads : s \in Nat
  BY ItemTypes DEF TypeOK
<1>2. \A s \in Reads : read[s].stage # "idle" => s <= nreads
  BY <1>1 DEF ChainInv
<1>3. ASSUME NEW k \in 1..Len(reqs) PROVE reqs[k].id <= nreads
  BY <1>2, ItemTypes, OpFacts DEF ChainInv, CallOK
<1>4. ASSUME NEW k \in 1..Len(inbox) PROVE inbox[k].id <= nreads
  <2>1. CASE inbox[k].id = 0
    BY <1>1, <2>1
  <2>2. CASE inbox[k].id # 0
    BY <2>2, <1>2, ItemTypes, OpFacts DEF ChainInv, MessageOK
  <2> QED
    BY <2>1, <2>2
<1> QED
  BY <1>2, <1>3, <1>4 DEF Live

\* OneReadAtATime, read by read.
LEMMA OneReadParts ==
  ASSUME TypeOK, OneReadAtATime
  PROVE  /\ passport_reading # NULL => passport_reading \in Reads
         /\ \A s \in Reads : Live(s) /\ s = passport_reading =>
              read[s].client /\ ~read[s].cancelled
         /\ \A s \in Reads : Live(s) /\ s # passport_reading =>
              ~read[s].client /\ read[s].cancelled
         /\ passport_reading # NULL => Live(passport_reading)
<1>1. passport_reading # NULL => passport_reading \in Reads
  BY PassportAssumption DEF TypeOK, Reads, NULL
<1> QED
  BY <1>1 DEF OneReadAtATime

LEMMA OneReadMade ==
  ASSUME passport_reading' # NULL => Live(passport_reading)',
         \A s \in Reads : Live(s)' /\ s = passport_reading' =>
           read'[s].client /\ ~read'[s].cancelled,
         \A s \in Reads : Live(s)' /\ s # passport_reading' =>
           ~read'[s].client /\ read'[s].cancelled,
         passport_reading' # NULL => passport_reading' \in Reads
  PROVE  OneReadAtATime'
BY Zenon DEF OneReadAtATime

LEMMA CurrentStep ==
  ASSUME TypeOK, TypeOK', ChainInv, CurrentInv, Shapes
  PROVE  CurrentInv'
<1>0. /\ OneReadAtATime /\ Len(reqs) \in Nat /\ Len(inbox) \in Nat
      /\ passport_reading \in Nat /\ nreads \in Nat
  <2>1. passport_reading \in 0..MaxReads /\ nreads \in 0..MaxReads /\ MaxReads \in Nat
    BY PassportAssumption DEF TypeOK
  <2>2. OneReadAtATime /\ Len(reqs) \in Nat /\ Len(inbox) \in Nat
    BY ItemTypes DEF CurrentInv
  <2> QED
    BY <2>1, <2>2
<1> DEFINE pr == passport_reading
           Parts == /\ pr # NULL => pr \in Reads
                    /\ \A s \in Reads : Live(s) /\ s = pr =>
                         read[s].client /\ ~read[s].cancelled
                    /\ \A s \in Reads : Live(s) /\ s # pr =>
                         ~read[s].client /\ read[s].cancelled
                    /\ pr # NULL => Live(pr)
           Bounds == pr # NULL =>
                       /\ read[pr].path = tag_path
                       /\ \A k \in 1..Len(reqs) : reqs[k].id <= pr
                       /\ \A k \in 1..Len(inbox) : inbox[k].id <= pr
                       /\ \A s \in Reads : Live(s) => s <= pr
<1>p. Parts
  BY <1>0, OneReadParts
<1>b. Bounds
  BY DEF CurrentInv
<1>q. Parts' /\ Bounds' => CurrentInv'
  BY OneReadMade DEF CurrentInv
<1>1. CASE NfcdShape
  <2>1. UNCHANGED <<reqs, tag_path, passport_reading, nreads, read>>
    BY <1>1 DEF NfcdShape
  <2>2. \A k \in 1..Len(inbox') : (k \in 1..Len(inbox) /\ inbox'[k] = inbox[k])
                                  \/ inbox'[k].id = 0
    <3>1. \A p \in 0..MaxTags : TagsMsg(p).id = 0
      BY DEF TagsMsg
    <3> QED
      BY <1>0, <1>1, <3>1 DEF NfcdShape, Added
  <2>3. Bounds'
    BY <1>0, <1>b, <2>1, <2>2 DEF Live
  <2>4. Parts'
    BY <1>p, <2>1 DEF Live
  <2> QED
    BY <1>q, <2>3, <2>4
<1>2. CASE ServeShape
  <2>1. UNCHANGED <<tag_path, passport_reading, nreads, read>>
    BY <1>2 DEF ServeShape
  <2>2. /\ \A k \in 1..Len(reqs') : reqs'[k] = reqs[k + 1] /\ k + 1 \in 1..Len(reqs)
        /\ 1 \in 1..Len(reqs)
    BY <1>0, <1>2 DEF ServeShape, Dropped
  <2>3. \A k \in 1..Len(inbox') : \/ k \in 1..Len(inbox) /\ inbox'[k] = inbox[k]
                                  \/ inbox'[k].id \in {0, reqs[1].id}
    <3>1. \A m \in Messages : Reply(reqs[1], m) => m.id \in {0, reqs[1].id}
      BY DEF Reply, TagsMsg
    <3> QED
      BY <1>0, <1>2, <3>1 DEF ServeShape, Added
  <2>4. Bounds'
    <3>1. ASSUME pr # NULL PROVE \A k \in 1..Len(inbox') : inbox'[k].id <= pr
      <4>1. reqs[1].id <= pr /\ 0 <= pr /\ \A k \in 1..Len(inbox) : inbox[k].id <= pr
        BY <1>0, <1>b, <2>2, <3>1
      <4> QED
        BY <2>3, <4>1
    <3>2. ASSUME pr # NULL PROVE \A k \in 1..Len(reqs') : reqs'[k].id <= pr
      BY <1>b, <2>2, <3>2
    <3> QED
      BY <1>b, <2>1, <3>1, <3>2 DEF Live
  <2>5. Parts'
    BY <1>p, <2>1 DEF Live
  <2> QED
    BY <1>q, <2>4, <2>5
<1>3. CASE ReleaseShape
  <2>1. UNCHANGED <<tag_path, passport_reading, nreads, read>>
    BY <1>3 DEF ReleaseShape
  <2>2. /\ \A k \in 1..Len(inbox') : inbox'[k] = inbox[k + 1] /\ k + 1 \in 1..Len(inbox)
        /\ 1 \in 1..Len(inbox)
    BY <1>0, <1>3 DEF ReleaseShape, Dropped
  <2>3. \A k \in 1..Len(reqs') : \/ k \in 1..Len(reqs) /\ reqs'[k] = reqs[k]
                                 \/ reqs'[k].id = inbox[1].id
    BY <1>0, <1>3 DEF ReleaseShape, Added, Call
  <2>4. Bounds'
    BY <1>0, <1>b, <2>1, <2>2, <2>3 DEF Live
  <2>5. Parts'
    BY <1>p, <2>1 DEF Live
  <2> QED
    BY <1>q, <2>4, <2>5
<1>4. ASSUME NEW c \in BOOLEAN, TagShape(c) PROVE CurrentInv'
  <2>1. /\ UNCHANGED <<reqs, nreads, read, passport_reading>>
        /\ pr = NULL \/ tag_path' = tag_path
        /\ Dropped(inbox', inbox)
    BY <1>4 DEF TagShape
  <2>2. /\ \A k \in 1..Len(inbox') : inbox'[k] = inbox[k + 1] /\ k + 1 \in 1..Len(inbox)
    BY <1>0, <2>1 DEF Dropped
  <2>3. Bounds'
    BY <1>0, <1>b, <2>1, <2>2 DEF Live
  <2>4. Parts'
    BY <1>p, <2>1 DEF Live
  <2> QED
    BY <1>q, <2>3, <2>4
<1>5. ASSUME NEW r \in Reads, NEW d, EndShape(r, d) PROVE CurrentInv'
  <2>1. /\ Answered(r) /\ Over(d) /\ read' = [read EXCEPT ![r] = d]
        /\ passport_reading' = IF read[r].client /\ pr = r THEN NULL ELSE pr
        /\ reqs' = reqs \/ Added(reqs', reqs, Call(r, "release", read[r].path, 0))
        /\ tag_path' = tag_path
    BY <1>5 DEF EndShape
  <2>2. Live(r)
    BY <2>1, AnsweredAlone
  <2>3. /\ read'[r] = d /\ d.stage = "done" /\ \A s \in Reads \ {r} : read'[s] = read[s]
    BY <2>1 DEF TypeOK, Over
  <2>4. /\ pr = r => passport_reading' = NULL
        /\ pr # r => passport_reading' = pr
    BY <1>p, <2>1, <2>2
  <2>5. \A s \in Reads : Live(s)' => s # r /\ Live(s) /\ read'[s] = read[s]
    BY <2>3 DEF Live
  <2>6. /\ \A k \in 1..Len(reqs') : \/ k \in 1..Len(reqs) /\ reqs'[k] = reqs[k]
                                    \/ reqs'[k].id = r
        /\ \A k \in 1..Len(inbox') : inbox'[k] = inbox[k + 1] /\ k + 1 \in 1..Len(inbox)
    BY <1>0, <2>1 DEF Answered, Dropped, Added, Call
  <2>7. Bounds'
    <3> SUFFICES ASSUME passport_reading' # NULL PROVE Bounds'
      OBVIOUS
    <3>1. /\ pr # r /\ passport_reading' = pr /\ pr # NULL
          /\ r <= pr /\ pr \in Reads /\ read'[pr] = read[pr]
      BY <1>p, <1>b, <2>2, <2>3, <2>4
    <3>2. \A k \in 1..Len(reqs') : reqs'[k].id <= pr
      BY <1>b, <2>6, <3>1
    <3>3. \A k \in 1..Len(inbox') : inbox'[k].id <= pr
      BY <1>b, <2>6, <3>1
    <3>4. \A s \in Reads : Live(s)' => s <= pr
      BY <1>b, <2>5, <3>1
    <3> QED
      BY <1>b, <2>1, <3>1, <3>2, <3>3, <3>4
  <2>8. Parts'
    <3>1. pr # r /\ pr # NULL => Live(pr)'
      BY <1>p, <2>3, <2>4 DEF Live
    <3>2. \A s \in Reads : s # NULL
      BY ItemTypes DEF NULL
    <3> QED
      BY <1>p, <2>3, <2>4, <2>5, <3>1, <3>2
  <2> QED
    BY <1>q, <2>7, <2>8
<1>6. ASSUME NEW r \in Reads, NEW d, NEW q \in Calls, GoShape(r, d, q) PROVE CurrentInv'
  <2>1. /\ Answered(r) /\ ~read[r].cancelled
        /\ d \in Records /\ RecordOK(d) /\ GoesOn(d, read[r], q)
        /\ read' = [read EXCEPT ![r] = d] /\ UNCHANGED <<tag_path, passport_reading>>
        /\ q.id = r /\ Added(reqs', reqs, q)
    BY <1>6 DEF GoShape
  <2>2. Live(r) /\ pr = r
    BY <1>p, <2>1, AnsweredAlone
  <2>3. /\ d.path = read[r].path /\ d.client = read[r].client /\ ~d.cancelled
        /\ d.stage \notin {"idle", "done"}
    <3>1. d.stage = "acquire" \/ d.stage \in ApduOps
      BY <2>1 DEF GoesOn
    <3> QED
      BY <2>1, <3>1, OpFacts DEF GoesOn
  <2>4. /\ read'[r] = d /\ \A s \in Reads \ {r} : read'[s] = read[s]
    BY <2>1 DEF TypeOK
  <2>5. Live(r)' /\ \A s \in Reads \ {r} : Live(s)' <=> Live(s)
    BY <2>3, <2>4 DEF Live
  <2>6. /\ \A k \in 1..Len(reqs') : \/ k \in 1..Len(reqs) /\ reqs'[k] = reqs[k]
                                    \/ reqs'[k].id = r
        /\ \A k \in 1..Len(inbox') : inbox'[k] = inbox[k + 1] /\ k + 1 \in 1..Len(inbox)
    BY <1>0, <2>1 DEF Answered, Dropped, Added
  <2>7. Bounds'
    BY <1>0, <1>b, <2>1, <2>2, <2>3, <2>4, <2>5, <2>6
  <2>8. Parts'
    BY <1>p, <2>1, <2>2, <2>3, <2>4, <2>5
  <2> QED
    BY <1>q, <2>7, <2>8
<1>7. ASSUME NEW r \in Reads, NEW d, NEW q \in Calls, StartShape(r, d, q) PROVE CurrentInv'
  <2>1. /\ r = nreads + 1 /\ pr = NULL /\ passport_reading' = r
        /\ d.stage = "tag_proxy" /\ d.client /\ ~d.cancelled /\ d.path = tag_path
        /\ read' = [read EXCEPT ![r] = d] /\ UNCHANGED <<tag_path, inbox>>
        /\ q.id = r /\ Added(reqs', reqs, q)
    BY <1>7 DEF StartShape, Call
  <2>2. /\ read'[r] = d /\ \A s \in Reads \ {r} : read'[s] = read[s]
    BY <2>1 DEF TypeOK
  <2>3. Live(r)' /\ \A s \in Reads \ {r} : Live(s)' <=> Live(s)
    BY <2>1, <2>2 DEF Live
  <2>4. /\ \A k \in 1..Len(reqs') : \/ k \in 1..Len(reqs) /\ reqs'[k] = reqs[k]
                                    \/ reqs'[k].id = r
    BY <1>0, <2>1 DEF Added
  <2>5. /\ \A s \in Reads : Live(s) => s <= nreads
        /\ \A k \in 1..Len(reqs) : reqs[k].id <= nreads
        /\ \A k \in 1..Len(inbox) : inbox[k].id <= nreads
        /\ \A k \in 1..Len(reqs) : reqs[k].id \in Nat
        /\ \A k \in 1..Len(inbox) : inbox[k].id \in Nat
        /\ \A s \in Reads : s \in Nat
    BY StartedFacts, ItemTypes
  <2>6. Bounds'
    BY <1>0, <2>1, <2>2, <2>3, <2>4, <2>5
  <2>7. Parts'
    <3>1. \A s \in Reads : s # NULL
      BY ItemTypes DEF NULL
    <3> QED
      BY <1>p, <2>1, <2>2, <2>3, <3>1
  <2> QED
    BY <1>q, <2>6, <2>7
<1>8. ASSUME NEW r \in Reads, NEW d, RefuseShape(r, d) PROVE CurrentInv'
  <2>1. /\ r = nreads + 1 /\ d.stage = "done"
        /\ read' = [read EXCEPT ![r] = d]
        /\ UNCHANGED <<tag_path, passport_reading, reqs, inbox>>
    BY <1>8 DEF RefuseShape, Over
  <2>2. /\ read'[r] = d /\ \A s \in Reads \ {r} : read'[s] = read[s]
    BY <2>1 DEF TypeOK
  <2>3. ~Live(r)' /\ ~Live(r) /\ \A s \in Reads \ {r} : Live(s)' <=> Live(s)
    <3>1. read[r].stage = "idle"
      BY <2>1, IdleAlone
    <3> QED
      BY <2>1, <2>2, <3>1 DEF Live
  <2>4. pr # r
    BY <1>p, <2>3, ItemTypes DEF NULL
  <2>5. Bounds'
    BY <1>p, <1>b, <2>1, <2>2, <2>3, <2>4
  <2>6. Parts'
    BY <1>p, <2>1, <2>2, <2>3, <2>4
  <2> QED
    BY <1>q, <2>5, <2>6
<1>9. ASSUME NEW r \in Reads, NEW d, AbortShape(r, d) PROVE CurrentInv'
  <2>1. /\ r = pr /\ passport_reading' = NULL /\ Aborted(r, d)
        /\ read' = [read EXCEPT ![r] = d]
    BY <1>9 DEF AbortShape
  <2>2. d.cancelled = TRUE /\ d.client = FALSE
    <3>1. read[r] \in Records
      BY ItemTypes
    <3>2. PICK d1 \in Records : d1 = [read[r] EXCEPT !.client = FALSE]
      BY <3>1 DEF Records
    <3>3. d = [d1 EXCEPT !.cancelled = TRUE]
      BY <2>1, <3>2, Zenon DEF Aborted
    <3> QED
      BY <3>1, <3>2, <3>3 DEF Records
  <2>3. /\ read'[r] = d /\ \A s \in Reads \ {r} : read'[s] = read[s]
    BY <2>1 DEF TypeOK
  <2>4. \A s \in Reads \ {r} : Live(s)' => Live(s)
    BY <2>3 DEF Live
  <2>5. Parts'
    <3>1. \A s \in Reads : s # NULL
      BY ItemTypes DEF NULL
    <3> QED
      BY <1>p, <2>1, <2>2, <2>3, <2>4, <3>1
  <2> QED
    BY <1>q, <2>1, <2>5
<1> QED
  BY <1>1, <1>2, <1>3, <1>4, <1>5, <1>6, <1>7, <1>8, <1>9 DEF Shapes, ClientShapes

-----------------------------------------------------------------------------
(* The theorems.                                                           *)

LEMMA ReadInit == Init => ReadInv
<1> SUFFICES ASSUME Init PROVE ReadInv
  OBVIOUS
<1>1. /\ up = TRUE /\ crashes = 0 /\ attached = TRUE /\ placed = 0 /\ ntag = NULL
      /\ last_path = 0 /\ locks = 0 /\ session = NULL /\ reqs = <<>> /\ inbox = <<>>
      /\ tag_path = NULL /\ isodep = FALSE /\ passport_reading = NULL /\ nreads = 0
      /\ \A r \in Reads : read[r] = NoRead
  BY DEF Init
<1>2. NoRead \in Records /\ RecordOK(NoRead)
  <2>1. NoRead.len["dg1"] = 0 /\ NoRead.len["dg2"] = 0
        /\ NoRead.total["dg1"] = 0 /\ NoRead.total["dg2"] = 0
    BY NoReadFacts DEF Files
  <2>2. "idle" \notin ChainOps /\ "idle" \notin ApduOps
    BY OpFacts
  <2> QED
    BY <2>1, <2>2, NoReadFacts DEF RecordOK, Unread, Bounded
<1>3. TypeInv
  <2>1. read \in [Reads -> Records]
    BY <1>2 DEF Init
  <2>2. up \in BOOLEAN /\ attached \in BOOLEAN /\ isodep \in BOOLEAN
    BY <1>1, Zenon
  <2>3. reqs \in Seq(Calls) /\ inbox \in Seq(Messages)
    BY <1>1
  <2> QED
    BY <1>1, <2>1, <2>2, <2>3, PassportAssumption DEF TypeInv, TypeOK, NULL
<1>4. \A r \in Reads : ~Live(r) /\ read[r].stage = "idle"
  BY <1>1, NoReadFacts DEF Live
<1>5. Len(reqs) = 0 /\ Len(inbox) = 0
  BY <1>1
<1>6. ChainInv
  BY <1>1, <1>2, <1>4, <1>5 DEF ChainInv, Distinct, Waiting
<1>7. CurrentInv
  BY <1>1, <1>4 DEF CurrentInv, OneReadAtATime
<1> QED
  BY <1>3, <1>6, <1>7 DEF ReadInv

LEMMA ReadStep ==
  ASSUME ReadInv, [Next]_vars
  PROVE  ReadInv'
<1>1. CASE Next
  <2>1. TypeInv' /\ Shapes /\ TypeOK /\ TypeOK'
    BY <1>1, StepsAreShapes DEF ReadInv, CurrentInv, TypeInv
  <2> QED
    BY <2>1, ChainStep, CurrentStep DEF ReadInv, CurrentInv
<1>2. CASE UNCHANGED vars
  BY <1>2 DEF ReadInv, vars, nfcdVars, clientVars, TypeInv, TypeOK, ChainInv, Waiting,
     Live, Distinct, CurrentInv, OneReadAtATime
<1> QED
  BY <1>1, <1>2

\* The invariant holds in every state.
THEOREM ReadInvariant == Spec => []ReadInv
<1>1. ReadInv /\ [Next]_vars => ReadInv'
  BY ReadStep
<1> QED
  BY ReadInit, <1>1, PTL DEF Spec

\* Type correctness.
THEOREM PassportTypes == Spec => []TypeOK
<1>1. ReadInv => TypeOK
  BY DEF ReadInv, TypeInv
<1> QED
  BY <1>1, ReadInvariant, PTL

\* However callers, aborts and late answers meet, client->passport_reading is
\* the one read that runs and was not aborted.
THEOREM OneRead == Spec => []OneReadAtATime
<1>1. ReadInv => OneReadAtATime
  BY DEF ReadInv, CurrentInv
<1> QED
  BY <1>1, ReadInvariant, PTL

\* Whatever lengths the headers of the files announce and however much the
\* chip holds, a data group of at least FirstLe bytes never has more bytes than
\* its header announced, so that gsize remaining does not wrap.
THEOREM NeverWraps == Spec => []FilesInBounds
<1>1. ReadInv => FilesInBounds
  <2>1. ASSUME ReadInv, NEW r \in Reads
        PROVE  Bounded(read[r], "dg1") /\ Bounded(read[r], "dg2")
    BY <2>1 DEF ReadInv, ChainInv, RecordOK
  <2> QED
    BY <2>1 DEF FilesInBounds, Files, Bounded
<1> QED
  BY <1>1, ReadInvariant, PTL

-----------------------------------------------------------------------------
(* The contract of Request.                                                *)

\* What the caller of the read with record d has been told.
Told(d) ==
  IF d.answers > 1 THEN "answered twice"
  ELSE IF d.answers = 0 THEN IF d.stage = "idle" THEN "idle" ELSE "pending"
  ELSE IF d.reply = "success" THEN "ok" ELSE "failed"

LEMMA ToldFacts ==
  ASSUME NEW d, RecordOK(d)
  PROVE  /\ d.stage = "idle" => Told(d) = "idle"
         /\ d.stage \in ChainOps => Told(d) = "pending"
         /\ d.stage = "done" => Told(d) \in {"ok", "failed"}
BY OpFacts DEF Told, RecordOK

\* A step of the contract for one read, or none.
ToldStep(a, b) ==
  \/ Told(b) = Told(a)
  \/ Told(a) = "idle" /\ Told(b) \in {"pending", "ok", "failed"}
  \/ Told(a) = "pending" /\ Told(b) \in {"ok", "failed"}

LEMMA ToldSteps ==
  ASSUME ReadInv, Next
  PROVE  \/ read' = read
         \/ \E r \in Reads : \E d : read' = [read EXCEPT ![r] = d] /\ ToldStep(read[r], d)
<1>0. TypeOK /\ ChainInv /\ Shapes /\ \A r \in Reads : RecordOK(read[r])
  BY StepsAreShapes DEF ReadInv, CurrentInv, TypeInv, ChainInv
<1>1. CASE NfcdShape \/ ServeShape \/ ReleaseShape \/ \E c \in BOOLEAN : TagShape(c)
  BY <1>1 DEF NfcdShape, ServeShape, ReleaseShape, TagShape
<1>2. ASSUME NEW r \in Reads, NEW d, EndShape(r, d)
      PROVE  read' = [read EXCEPT ![r] = d] /\ ToldStep(read[r], d)
  <2>1. read[r].stage \in ChainOps
    BY <1>0, <1>2, AnsweredAlone DEF EndShape
  <2> QED
    BY <1>0, <1>2, <2>1, ToldFacts DEF EndShape, Over, ToldStep
<1>3. ASSUME NEW r \in Reads, NEW d, RefuseShape(r, d)
      PROVE  read' = [read EXCEPT ![r] = d] /\ ToldStep(read[r], d)
  <2>1. read[r].stage = "idle"
    BY <1>0, <1>3, IdleAlone DEF RefuseShape
  <2> QED
    BY <1>0, <1>3, <2>1, ToldFacts DEF RefuseShape, Over, ToldStep
<1>4. ASSUME NEW r \in Reads, NEW d, AbortShape(r, d)
      PROVE  read' = [read EXCEPT ![r] = d] /\ ToldStep(read[r], d)
  <2>1. d.answers = read[r].answers /\ d.stage = read[r].stage /\ d.reply = read[r].reply
    <3>1. read[r] \in Records /\ Aborted(r, d)
      BY <1>0, <1>4, ItemTypes DEF AbortShape
    <3>2. PICK d1 \in Records : d1 = [read[r] EXCEPT !.client = FALSE]
      BY <3>1 DEF Records
    <3>3. d = [d1 EXCEPT !.cancelled = TRUE]
      BY <3>1, <3>2, Zenon DEF Aborted
    <3> QED
      BY <3>1, <3>2, <3>3 DEF Records
  <2>2. Told(d) = Told(read[r])
    BY <2>1 DEF Told
  <2> QED
    BY <1>4, <2>2 DEF AbortShape, ToldStep
<1>5. ASSUME NEW r \in Reads, NEW d, NEW q \in Calls, GoShape(r, d, q)
      PROVE  read' = [read EXCEPT ![r] = d] /\ ToldStep(read[r], d)
  <2>1. read[r].stage \in ChainOps /\ d.stage \in ChainOps /\ RecordOK(d)
    BY <1>0, <1>5, AnsweredAlone, OpFacts DEF GoShape, GoesOn, EarlyOps
  <2> QED
    BY <1>0, <1>5, <2>1, ToldFacts DEF GoShape, ToldStep
<1>6. ASSUME NEW r \in Reads, NEW d, NEW q \in Calls, StartShape(r, d, q)
      PROVE  read' = [read EXCEPT ![r] = d] /\ ToldStep(read[r], d)
  <2>1. read[r].stage = "idle" /\ d.stage \in ChainOps /\ RecordOK(d)
    BY <1>0, <1>6, IdleAlone, OpFacts DEF StartShape, EarlyOps
  <2> QED
    BY <1>0, <1>6, <2>1, ToldFacts DEF StartShape, ToldStep
<1> QED
  BY <1>0, <1>1, <1>2, <1>3, <1>4, <1>5, <1>6 DEF Shapes, ClientShapes

LEMMA ToldSim ==
  ASSUME ReadInv, [Next]_vars
  PROVE  [Contract!Next]_[r \in Reads |-> Told(read[r])]
<1> DEFINE phase == [r \in Reads |-> Told(read[r])]
<1>1. CASE read' = read
  BY <1>1
<1>2. ASSUME NEW r \in Reads, NEW d, read' = [read EXCEPT ![r] = d], ToldStep(read[r], d)
      PROVE  [Contract!Next]_phase
  <2>1. phase' = [phase EXCEPT ![r] = Told(d)] /\ phase[r] = Told(read[r])
    BY <1>2 DEF ReadInv, TypeInv, TypeOK
  <2>2. Told(d) = Told(read[r]) => phase' = phase
    BY <2>1
  <2>3. CASE Told(read[r]) = "idle" /\ Told(d) = "pending"
    BY <2>1, <2>3 DEF Contract!Next, Contract!Ask, Told
  <2>4. CASE Told(read[r]) = "idle" /\ Told(d) \in {"ok", "failed"}
    BY <2>1, <2>4 DEF Contract!Next, Contract!AnswerAtOnce, Contract!Answers, Told
  <2>5. CASE Told(read[r]) = "pending" /\ Told(d) \in {"ok", "failed"}
    BY <2>1, <2>5 DEF Contract!Next, Contract!Answer, Contract!Answers, Told
  <2> QED
    BY <1>2, <2>2, <2>3, <2>4, <2>5 DEF ToldStep
<1> QED
  BY <1>1, <1>2, ToldSteps DEF vars

\* The safety half of EveryReadAnswered: "every step below ends here exactly
\* once" (comment on passport_read_finish()).  No caller is answered twice, or
\* before it called, whatever is aborted and however late the answers are.
THEOREM AnsweredOnce == Spec => Contract!Safety
<1>1. Init => Contract!Init
  BY NoReadFacts DEF Init, Contract!Init
<1>2. ReadInv /\ [Next]_vars => [Contract!Next]_[r \in Reads |-> Told(read[r])]
  BY ToldSim
<1> QED
  BY <1>1, <1>2, ReadInvariant, PTL DEF Spec, Contract!Safety, Told

-----------------------------------------------------------------------------
(***************************************************************************)
(* What the Release() and the Deactivate() that follow a passport read     *)
(* achieve, proved for any number of reads, documents and crashes of nfcd: *)
(* no handshake reaches a chip that has seen another (FreshSession), and   *)
(* until nfcd crashes no tag stays acquired (TagGivenBack).                *)
(*                                                                         *)
(* A caller may start the next read as soon as it is told of the end of    *)
(* the last, before nfcd has seen the Release() of the last.  Only the     *)
(* order of the bus keeps the two apart, so the invariant is about that    *)
(* order.                                                                  *)
(*   OrderInv    of two reads r < s, s is not past its tag proxy while r   *)
(*               runs, its Acquire() is behind the Release() of r, and its *)
(*               commands are behind the Deactivate() of r (Behind).  A    *)
(*               command belongs to a read that has acquired the tag, or   *)
(*               is followed by that read's Release().                     *)
(*   SessionInv  the read whose handshake the chip has seen has the tag,   *)
(*               or its Release() or Deactivate() is still to come, and no *)
(*               command of an earlier read is out.                        *)
(*   LockInv     until nfcd crashes paths are not used twice, so that no   *)
(*               read of the tag in the field was aborted (PathInv), and   *)
(*               nfcd counts one lock at most, of a read that will release *)
(*               it (Holds).                                               *)
(* Each is proved for the shapes of step above, and for Serve and the      *)
(* actions of nfcd as they are.                                            *)
(***************************************************************************)

-----------------------------------------------------------------------------
(* The order of the reads on the bus.                                      *)

\* Read s has not acquired its tag.
Early(s) ==
  /\ ~read[s].acquired
  /\ \A k \in 1..Len(reqs) : reqs[k].id = s => reqs[k].op \in EarlyOps
  /\ \A k \in 1..Len(inbox) : inbox[k].id = s => inbox[k].op \in EarlyOps

\* Read s started after r.  Where r stands on its way out says how far s can be:
\* r runs, its Release() is out, is answered, its Deactivate() is out.
BehindRun(r, s) ==
  Live(r) =>
    /\ Early(s)
    /\ \A k \in 1..Len(reqs) : reqs[k].id = s => reqs[k].op = "tag_proxy"
    /\ \A k \in 1..Len(inbox) : inbox[k].id = s =>
         inbox[k].op = "tag_proxy" /\ \E i \in 1..k - 1 : inbox[i].id = r

BehindRelease(r, s) ==
  \A i \in 1..Len(reqs) : reqs[i].id = r /\ reqs[i].op = "release" =>
    /\ Early(s)
    /\ \A k \in 1..Len(reqs) : reqs[k].id = s /\ reqs[k].op = "acquire" => k > i
    /\ \A k \in 1..Len(inbox) : inbox[k].id = s /\ inbox[k].op = "acquire" =>
         read[s].cancelled

BehindAnswer(r, s) ==
  \A i \in 1..Len(inbox) : inbox[i].id = r /\ inbox[i].op = "release" =>
    /\ Early(s)
    /\ \A k \in 1..Len(inbox) : inbox[k].id = s /\ inbox[k].op = "acquire" =>
         k > i \/ read[s].cancelled

BehindDeactivate(r, s) ==
  \A i \in 1..Len(reqs) : reqs[i].id = r /\ reqs[i].op = "deactivate" =>
    \A k \in 1..Len(reqs) : reqs[k].id = s /\ reqs[k].op \notin EarlyOps => k > i

Behind(r, s) ==
  BehindRun(r, s) /\ BehindRelease(r, s) /\ BehindAnswer(r, s) /\ BehindDeactivate(r, s)

\* A command to a chip is the call of a read that holds the tag, or is followed
\* by the Release() of it.
CommandOK(k) ==
  reqs[k].op \in ApduOps =>
    \/ read[reqs[k].id].acquired /\ read[reqs[k].id].path = reqs[k].path
    \/ \E l \in k + 1..Len(reqs) : /\ reqs[l].op = "release"
                                   /\ reqs[l].id = reqs[k].id
                                   /\ reqs[l].path = reqs[k].path

\* Commands are sent in the order of their reads.
ApduOrder ==
  \A k, l \in 1..Len(reqs) :
    k < l /\ reqs[k].op \in ApduOps /\ reqs[l].op \in ApduOps => reqs[k].id <= reqs[l].id

OrderInv ==
  /\ \A r, s \in Reads : r < s => Behind(r, s)
  /\ \A k \in 1..Len(reqs) : CommandOK(k)
  /\ ApduOrder

\* The read that opened the session is yet to deactivate the tag.
Leaving(r) ==
  \/ read[r].acquired /\ read[r].path = npath
  \/ \E k \in 1..Len(reqs) : /\ reqs[k].id = r /\ reqs[k].path = npath
                             /\ reqs[k].op \in {"release", "deactivate"}
  \/ \E k \in 1..Len(inbox) : /\ inbox[k].id = r /\ inbox[k].path = npath
                              /\ inbox[k].op = "release"

SessionInv ==
  /\ ntag # NULL => up /\ last_path # 0
  /\ session # NULL =>
       /\ ntag # NULL
       /\ Leaving(session)
       /\ \A k \in 1..Len(reqs) : reqs[k].op \in ApduOps => session <= reqs[k].id

\* Until nfcd crashes a path is never used twice,
PathBounds ==
  /\ up /\ attached
  /\ tag_path <= last_path
  /\ \A r \in Reads : read[r].path <= last_path
  /\ \A k \in 1..Len(reqs) : reqs[k].path <= last_path
  /\ \A k \in 1..Len(inbox) : inbox[k].path <= last_path

\* the client hears of the tag in the field last,
PathTags ==
  npath # NULL =>
    /\ tag_path = npath => \A k \in 1..Len(inbox) : inbox[k].op # "tags"
    /\ \A k, l \in 1..Len(inbox) :
         inbox[k].op = "tags" /\ inbox[k].path = npath /\ k < l => inbox[l].op # "tags"

\* and so no read of the tag in the field was aborted.
PathReads ==
  npath # NULL =>
    /\ \A r \in Reads : Live(r) /\ read[r].cancelled => read[r].path # npath
    /\ \A k \in 1..Len(reqs) : reqs[k].op = "acquire" /\ reqs[k].path = npath =>
         read[reqs[k].id].stage = "acquire" /\ ~read[reqs[k].id].cancelled

PathInv == PathBounds /\ PathTags /\ PathReads

\* Read r will release the tag in the field.
Holds(r) ==
  \/ read[r].acquired /\ read[r].path = npath
  \/ \E k \in 1..Len(reqs) : /\ reqs[k].id = r /\ reqs[k].path = npath
                             /\ reqs[k].op = "release"
  \/ \E k \in 1..Len(inbox) : /\ inbox[k].id = r /\ inbox[k].path = npath
                              /\ inbox[k].op = "acquire" /\ inbox[k].res = "ok"

LockInv ==
  /\ ntag = NULL => locks = 0
  /\ crashes = 0 =>
       /\ PathInv
       /\ locks # 0 => locks = 1 /\ \E r \in Reads : Holds(r)

\* A step that leaves the calls and messages of r and s as they are, but for
\* the place of them, leaves s behind r.
LEMMA Undisturbed ==
  ASSUME TypeOK, TypeOK', NEW r \in Reads, NEW s \in Reads, Behind(r, s),
         NEW a \in {0, 1}, NEW b \in {0, 1},
         Live(r)' => Live(r),
         read'[s].acquired => read[s].acquired,
         read[s].cancelled => read'[s].cancelled,
         \A k \in 1..Len(reqs') : reqs'[k].id \in {r, s} =>
           k + a \in 1..Len(reqs) /\ reqs'[k] = reqs[k + a],
         \A k \in 1..Len(inbox') : inbox'[k].id \in {r, s} =>
           k + b \in 1..Len(inbox) /\ inbox'[k] = inbox[k + b],
         \A k \in 1..Len(inbox) : inbox[k].id = r =>
           k - b \in 1..Len(inbox') /\ inbox'[k - b] = inbox[k]
  PROVE  Behind(r, s)'
<1>0. Len(reqs) \in Nat /\ Len(inbox) \in Nat /\ Len(reqs') \in Nat /\ Len(inbox') \in Nat
  BY ItemTypes, QueueFacts DEF TypeOK
<1>1. Early(s) => Early(s)'
  BY DEF Early
<1>2. BehindRun(r, s)'
  <2> SUFFICES ASSUME Live(r)' PROVE BehindRun(r, s)'
    BY DEF BehindRun
  <2>1. /\ Early(s)
        /\ \A k \in 1..Len(reqs) : reqs[k].id = s => reqs[k].op = "tag_proxy"
        /\ \A k \in 1..Len(inbox) : inbox[k].id = s =>
             inbox[k].op = "tag_proxy" /\ \E i \in 1..k - 1 : inbox[i].id = r
    BY DEF Behind, BehindRun
  <2>2. ASSUME NEW k \in 1..Len(inbox'), inbox'[k].id = s
        PROVE  inbox'[k].op = "tag_proxy" /\ \E i \in 1..k - 1 : inbox'[i].id = r
    <3>1. k + b \in 1..Len(inbox) /\ inbox'[k] = inbox[k + b]
      BY <2>2
    <3>2. PICK i \in 1..(k + b) - 1 : inbox[i].id = r
      BY <2>1, <2>2, <3>1
    <3>3. i \in 1..Len(inbox) /\ i - b \in 1..Len(inbox') /\ inbox'[i - b] = inbox[i]
      BY <1>0, <3>1, <3>2
    <3>4. i - b \in 1..k - 1
      BY <1>0, <3>2, <3>3
    <3> QED
      BY <2>1, <2>2, <3>1, <3>2, <3>3, <3>4
  <2> QED
    BY <1>1, <2>1, <2>2 DEF BehindRun
<1>3. BehindRelease(r, s)'
  <2> SUFFICES ASSUME NEW i \in 1..Len(reqs'), reqs'[i].id = r, reqs'[i].op = "release"
               PROVE  /\ Early(s)'
                      /\ \A k \in 1..Len(reqs') :
                           reqs'[k].id = s /\ reqs'[k].op = "acquire" => k > i
                      /\ \A k \in 1..Len(inbox') :
                           inbox'[k].id = s /\ inbox'[k].op = "acquire" => read'[s].cancelled
    BY DEF BehindRelease
  <2>1. i + a \in 1..Len(reqs) /\ reqs[i + a].id = r /\ reqs[i + a].op = "release"
    OBVIOUS
  <2>2. /\ Early(s)
        /\ \A k \in 1..Len(reqs) : reqs[k].id = s /\ reqs[k].op = "acquire" => k > i + a
        /\ \A k \in 1..Len(inbox) :
             inbox[k].id = s /\ inbox[k].op = "acquire" => read[s].cancelled
    BY <2>1 DEF Behind, BehindRelease
  <2>3. ASSUME NEW k \in 1..Len(reqs'), reqs'[k].id = s, reqs'[k].op = "acquire"
        PROVE  k > i
    <3>1. k + a \in 1..Len(reqs) /\ reqs'[k] = reqs[k + a]
      BY <2>3
    <3>2. k + a > i + a
      BY <2>2, <2>3, <3>1
    <3> QED
      BY <3>2
  <2> QED
    BY <1>1, <2>2, <2>3
<1>4. BehindAnswer(r, s)'
  <2> SUFFICES ASSUME NEW i \in 1..Len(inbox'), inbox'[i].id = r, inbox'[i].op = "release"
               PROVE  /\ Early(s)'
                      /\ \A k \in 1..Len(inbox') :
                           inbox'[k].id = s /\ inbox'[k].op = "acquire"
                             => k > i \/ read'[s].cancelled
    BY DEF BehindAnswer
  <2>1. i + b \in 1..Len(inbox) /\ inbox[i + b].id = r /\ inbox[i + b].op = "release"
    OBVIOUS
  <2>2. /\ Early(s)
        /\ \A k \in 1..Len(inbox) : inbox[k].id = s /\ inbox[k].op = "acquire"
             => k > i + b \/ read[s].cancelled
    BY <2>1 DEF Behind, BehindAnswer
  <2>3. ASSUME NEW k \in 1..Len(inbox'), inbox'[k].id = s, inbox'[k].op = "acquire"
        PROVE  k > i \/ read'[s].cancelled
    <3>1. k + b \in 1..Len(inbox) /\ inbox'[k] = inbox[k + b]
      BY <2>3
    <3>2. k + b > i + b \/ read[s].cancelled
      BY <2>2, <2>3, <3>1
    <3> QED
      BY <3>2
  <2> QED
    BY <1>1, <2>2, <2>3
<1>5. BehindDeactivate(r, s)'
  <2> SUFFICES ASSUME NEW i \in 1..Len(reqs'), reqs'[i].id = r, reqs'[i].op = "deactivate",
                      NEW k \in 1..Len(reqs'), reqs'[k].id = s, reqs'[k].op \notin EarlyOps
               PROVE  k > i
    BY DEF BehindDeactivate
  <2>1. /\ i + a \in 1..Len(reqs) /\ reqs[i + a].id = r /\ reqs[i + a].op = "deactivate"
        /\ k + a \in 1..Len(reqs) /\ reqs[k + a].id = s /\ reqs[k + a].op \notin EarlyOps
    OBVIOUS
  <2>2. k + a > i + a
    BY <2>1 DEF Behind, BehindDeactivate
  <2> QED
    BY <2>2
<1> QED
  BY <1>2, <1>3, <1>4, <1>5 DEF Behind

\* A read that runs and was not aborted has nothing behind it.
LEMMA NothingBehind ==
  ASSUME TypeOK, ChainInv, CurrentInv, NEW r \in Reads, NEW s \in Reads, r < s,
         Live(r), ~read[r].cancelled
  PROVE  /\ r = passport_reading /\ ~Live(s) /\ ~read[s].acquired
         /\ \A k \in 1..Len(reqs) : reqs[k].id # s
         /\ \A k \in 1..Len(inbox) : inbox[k].id # s
<1>1. r = passport_reading /\ r # NULL /\ r \in Nat /\ s \in Nat
  BY OneReadParts, ItemTypes DEF CurrentInv, NULL
<1>2. ~Live(s)
  BY <1>1 DEF CurrentInv
<1>3. ~read[s].acquired
  BY <1>2, OpFacts DEF ChainInv, RecordOK, Live
<1>4. ASSUME NEW k \in 1..Len(reqs) PROVE reqs[k].id # s
  BY <1>1 DEF CurrentInv
<1>5. ASSUME NEW k \in 1..Len(inbox) PROVE inbox[k].id # s
  BY <1>1 DEF CurrentInv
<1> QED
  BY <1>1, <1>2, <1>3, <1>4, <1>5

\* An aborted read has an answer in the inbox.
LEMMA AbortedWaits ==
  ASSUME ChainInv, NEW r \in Reads, Live(r), read[r].cancelled
  PROVE  \E k \in 1..Len(inbox) : inbox[k].id = r /\ inbox[k].op \in ChainOps
BY DEF ChainInv, Waiting

LEMMA OrderNfcd ==
  ASSUME TypeOK, TypeOK', NEW r \in Reads, NEW s \in Reads, Behind(r, s), NfcdShape
  PROVE  Behind(r, s)'
<1>1. r # 0 /\ s # 0 /\ Len(inbox) \in Nat /\ Len(reqs) \in Nat
  BY ItemTypes
<1>2. \A p \in 0..MaxTags : TagsMsg(p).id = 0
  BY DEF TagsMsg
<1>3. /\ Len(inbox') >= Len(inbox) /\ Len(inbox') \in Nat
      /\ \A k \in 1..Len(inbox) : inbox'[k] = inbox[k]
      /\ \A k \in 1..Len(inbox') : inbox'[k].id \in {r, s} => k \in 1..Len(inbox)
  BY <1>1, <1>2 DEF NfcdShape, Added
<1>4. UNCHANGED <<reqs, read>>
  BY DEF NfcdShape
<1> DEFINE a == 0
<1>5. /\ \A k \in 1..Len(reqs') : k + a = k
      /\ \A k \in 1..Len(inbox') : k + a = k
      /\ \A k \in 1..Len(inbox) : k - a = k /\ k \in 1..Len(inbox')
  BY <1>1, <1>3, <1>4
<1> HIDE DEF a
<1>6. a \in {0, 1} /\ (Live(r)' => Live(r))
  BY <1>4 DEF a, Live
<1> QED
  BY <1>3, <1>4, <1>5, <1>6, Undisturbed

LEMMA OrderTag ==
  ASSUME TypeOK, TypeOK', ChainInv, NEW r \in Reads, NEW s \in Reads, Behind(r, s),
         NEW c \in BOOLEAN, TagShape(c)
  PROVE  Behind(r, s)'
<1>1. r # 0 /\ s # 0 /\ Len(inbox) \in Nat \ {0} /\ Len(reqs) \in Nat
      /\ Dropped(inbox', inbox) /\ UNCHANGED <<reqs, read>> /\ 1 \in 1..Len(inbox)
  BY ItemTypes DEF TagShape, Dropped
<1>2. inbox[1].id = 0
  BY <1>1 DEF TagShape, ChainInv, MessageOK
<1>3. /\ \A k \in 1..Len(inbox') : k + 1 \in 1..Len(inbox) /\ inbox'[k] = inbox[k + 1]
      /\ \A k \in 1..Len(inbox) : k # 1 => k - 1 \in 1..Len(inbox') /\ inbox'[k - 1] = inbox[k]
  BY <1>1 DEF Dropped
<1>4. \A k \in 1..Len(reqs') : k + 0 = k
  BY <1>1
<1>5. Live(r)' => Live(r)
  BY <1>1 DEF Live
<1> QED
  BY <1>1, <1>2, <1>3, <1>4, <1>5, Undisturbed

LEMMA DroppedFacts ==
  ASSUME NEW t, NEW s, Dropped(t, s)
  PROVE  /\ Len(s) \in Nat \ {0} /\ Len(t) \in Nat /\ 1 \in 1..Len(s)
         /\ \A k \in 1..Len(t) : k + 1 \in 1..Len(s) /\ k + 1 # 1 /\ t[k] = s[k + 1]
         /\ \A k \in 1..Len(s) : k # 1 => k - 1 \in 1..Len(t) /\ t[k - 1] = s[k]
BY DEF Dropped

LEMMA AddedFacts ==
  ASSUME NEW t, NEW s, NEW e, Len(s) \in Nat, Added(t, s, e)
  PROVE  /\ Len(t) = Len(s) + 1 /\ Len(s) + 1 \in 1..Len(t) /\ t[Len(s) + 1] = e
         /\ \A k \in 1..Len(t) : \/ k \in 1..Len(s) /\ t[k] = s[k]
                                 \/ k = Len(s) + 1 /\ t[k] = e
         /\ \A k \in 1..Len(s) : k \in 1..Len(t) /\ t[k] = s[k] /\ Len(s) + 1 > k
BY DEF Added

LEMMA OrderServe ==
  ASSUME TypeOK, TypeOK', ChainInv, CurrentInv,
         NEW r \in Reads, NEW s \in Reads, r < s, Behind(r, s), ServeShape
  PROVE  Behind(r, s)'
<1> DEFINE q == reqs[1]
           n == Len(inbox)
<1>0. Dropped(reqs', reqs) /\ read' = read
  BY DEF ServeShape
<1>1. /\ n \in Nat /\ r # s /\ r # 0 /\ s # 0 /\ 1 \in 1..Len(reqs)
      /\ Len(reqs) \in Nat /\ Len(reqs') \in Nat
      /\ \A k \in 1..Len(reqs') : k + 1 \in 1..Len(reqs) /\ k + 1 # 1 /\ reqs'[k] = reqs[k + 1]
  BY <1>0, ItemTypes, DroppedFacts
<1>2. \/ inbox' = inbox
      \/ \E m \in Messages : Reply(q, m) /\ Added(inbox', inbox, m)
  BY DEF ServeShape
<1> DEFINE Grows ==
             /\ Len(inbox') \in Nat
             /\ \A k \in 1..n : k \in 1..Len(inbox') /\ inbox'[k] = inbox[k] /\ n + 1 > k
             /\ \A k \in 1..Len(inbox') :
                  \/ k \in 1..n
                  \/ /\ k = n + 1
                     /\ inbox'[k].id # 0 => inbox'[k].id = q.id /\ inbox'[k].op = q.op
<1>3. Grows
  <2>1. \A m : Reply(q, m) /\ m.id # 0 => m.id = q.id /\ m.op = q.op
    BY DEF Reply, TagsMsg
  <2>2. CASE inbox' = inbox
    BY <1>1, <2>2
  <2>3. ASSUME NEW m \in Messages, Reply(q, m), Added(inbox', inbox, m)
        PROVE  Grows
    <3>1. /\ Len(inbox') = n + 1
          /\ \A k \in 1..Len(inbox') : \/ k \in 1..n /\ inbox'[k] = inbox[k]
                                       \/ k = n + 1 /\ inbox'[k] = m
          /\ \A k \in 1..n : k \in 1..Len(inbox') /\ inbox'[k] = inbox[k] /\ n + 1 > k
      BY <1>1, <2>3, AddedFacts
    <3> QED
      BY <1>1, <2>1, <2>3, <3>1
  <2> QED
    BY <1>2, <2>2, <2>3
<1> HIDE DEF q, n
<1>4. Early(s) => Early(s)'
  <2> SUFFICES ASSUME Early(s) PROVE Early(s)'
    OBVIOUS
  <2>1. \A k \in 1..Len(reqs') : reqs'[k].id = s => reqs'[k].op \in EarlyOps
    BY <1>1 DEF Early
  <2>2. q.id = s => q.op \in EarlyOps
    BY <1>1 DEF Early, q
  <2>3. \A k \in 1..Len(inbox') : inbox'[k].id = s => inbox'[k].op \in EarlyOps
    BY <1>1, <1>3, <2>2 DEF Early, n
  <2> QED
    BY <1>0, <2>1, <2>3 DEF Early
<1>5. BehindRun(r, s)'
  <2> SUFFICES ASSUME Live(r)' PROVE BehindRun(r, s)'
    BY DEF BehindRun
  <2>1. Live(r)
    BY <1>0 DEF Live
  <2>2. /\ Early(s)
        /\ \A k \in 1..Len(reqs) : reqs[k].id = s => reqs[k].op = "tag_proxy"
        /\ \A k \in 1..n : inbox[k].id = s =>
             inbox[k].op = "tag_proxy" /\ \E i \in 1..k - 1 : inbox[i].id = r
    BY <2>1 DEF Behind, BehindRun, n
  <2>3. ASSUME NEW k \in 1..Len(inbox'), inbox'[k].id = s
        PROVE  inbox'[k].op = "tag_proxy" /\ \E i \in 1..k - 1 : inbox'[i].id = r
    <3>1. CASE k \in 1..n
      <4>1. PICK i \in 1..k - 1 : inbox[i].id = r
        BY <1>3, <2>2, <2>3, <3>1
      <4>2. i \in 1..n
        BY <1>1, <3>1, <4>1
      <4> QED
        BY <1>3, <2>2, <2>3, <3>1, <4>1, <4>2
    <3>2. CASE k = n + 1 /\ q.id = s /\ inbox'[k].op = q.op
      <4>1. q.op = "tag_proxy" /\ read[r].cancelled
        BY <1>1, <2>1, <2>2, <3>2, NothingBehind DEF q
      <4>2. PICK i \in 1..n : inbox[i].id = r
        BY <2>1, <4>1, AbortedWaits DEF n
      <4>3. i \in 1..k - 1
        BY <1>1, <3>2
      <4> QED
        BY <1>3, <3>2, <4>1, <4>2, <4>3
    <3> QED
      BY <1>1, <1>3, <2>3, <3>1, <3>2
  <2> QED
    BY <1>1, <1>4, <2>2, <2>3 DEF BehindRun
<1>6. BehindRelease(r, s)'
  <2> SUFFICES ASSUME NEW i \in 1..Len(reqs'), reqs'[i].id = r, reqs'[i].op = "release"
               PROVE  /\ Early(s)'
                      /\ \A k \in 1..Len(reqs') :
                           reqs'[k].id = s /\ reqs'[k].op = "acquire" => k > i
                      /\ \A k \in 1..Len(inbox') :
                           inbox'[k].id = s /\ inbox'[k].op = "acquire" => read'[s].cancelled
    BY DEF BehindRelease
  <2>1. i + 1 \in 1..Len(reqs) /\ reqs[i + 1].id = r /\ reqs[i + 1].op = "release"
    BY <1>1
  <2>2. /\ Early(s)
        /\ \A k \in 1..Len(reqs) : reqs[k].id = s /\ reqs[k].op = "acquire" => k > i + 1
        /\ \A k \in 1..n :
             inbox[k].id = s /\ inbox[k].op = "acquire" => read[s].cancelled
    BY <2>1 DEF Behind, BehindRelease, n
  <2>3. ~(q.id = s /\ q.op = "acquire")
    <3>1. ~(1 > i + 1)
      OBVIOUS
    <3> QED
      BY <1>1, <2>2, <3>1 DEF q
  <2>4. ASSUME NEW k \in 1..Len(reqs'), reqs'[k].id = s, reqs'[k].op = "acquire"
        PROVE  k > i
    <3>1. k + 1 > i + 1
      BY <1>1, <2>2, <2>4
    <3> QED
      BY <3>1
  <2>5. ASSUME NEW k \in 1..Len(inbox'), inbox'[k].id = s, inbox'[k].op = "acquire"
        PROVE  read'[s].cancelled
    BY <1>0, <1>1, <1>3, <2>2, <2>3, <2>5
  <2> QED
    BY <1>4, <2>2, <2>4, <2>5
<1>7. BehindAnswer(r, s)'
  <2> SUFFICES ASSUME NEW i \in 1..Len(inbox'), inbox'[i].id = r, inbox'[i].op = "release"
               PROVE  /\ Early(s)'
                      /\ \A k \in 1..Len(inbox') :
                           inbox'[k].id = s /\ inbox'[k].op = "acquire"
                             => k > i \/ read'[s].cancelled
    BY DEF BehindAnswer
  <2>1. CASE i \in 1..n
    <3>1. /\ Early(s)
          /\ \A k \in 1..n : inbox[k].id = s /\ inbox[k].op = "acquire"
               => k > i \/ read[s].cancelled
      BY <1>3, <2>1 DEF Behind, BehindAnswer, n
    <3>2. ASSUME NEW k \in 1..Len(inbox'), inbox'[k].id = s, inbox'[k].op = "acquire"
          PROVE  k > i \/ read'[s].cancelled
      BY <1>0, <1>3, <2>1, <3>1, <3>2
    <3> QED
      BY <1>4, <3>1, <3>2
  <2>2. CASE i = n + 1 /\ q.id = r /\ q.op = "release"
    <3>1. /\ Early(s)
          /\ \A k \in 1..n : inbox[k].id = s /\ inbox[k].op = "acquire" => read[s].cancelled
      BY <1>1, <2>2 DEF Behind, BehindRelease, n, q
    <3>2. ASSUME NEW k \in 1..Len(inbox'), inbox'[k].id = s, inbox'[k].op = "acquire"
          PROVE  read'[s].cancelled
      BY <1>0, <1>1, <1>3, <2>2, <3>1, <3>2
    <3> QED
      BY <1>4, <3>1, <3>2
  <2> QED
    BY <1>1, <1>3, <2>1, <2>2
<1>8. BehindDeactivate(r, s)'
  <2> SUFFICES ASSUME NEW i \in 1..Len(reqs'), reqs'[i].id = r, reqs'[i].op = "deactivate",
                      NEW k \in 1..Len(reqs'), reqs'[k].id = s, reqs'[k].op \notin EarlyOps
               PROVE  k > i
    BY DEF BehindDeactivate
  <2>1. /\ i + 1 \in 1..Len(reqs) /\ reqs[i + 1].id = r /\ reqs[i + 1].op = "deactivate"
        /\ k + 1 \in 1..Len(reqs) /\ reqs[k + 1].id = s /\ reqs[k + 1].op \notin EarlyOps
    BY <1>1
  <2>2. k + 1 > i + 1
    BY <2>1 DEF Behind, BehindDeactivate
  <2> QED
    BY <2>2
<1> QED
  BY <1>5, <1>6, <1>7, <1>8 DEF Behind

LEMMA OrderRelease ==
  ASSUME TypeOK, TypeOK', ChainInv, NEW r \in Reads, NEW s \in Reads, r < s, Behind(r, s),
         ReleaseShape
  PROVE  Behind(r, s)'
<1> DEFINE t == inbox[1].id
           n == Len(reqs)
<1>1. /\ Dropped(inbox', inbox) /\ inbox[1].op = "release" /\ read' = read
      /\ Added(reqs', reqs, Call(t, "deactivate", inbox[1].path, 0))
  BY DEF ReleaseShape
<1>2. /\ n \in Nat /\ r # s /\ r \in Nat /\ s \in Nat /\ "release" \notin EarlyOps
      /\ "release" # "tag_proxy" /\ "deactivate" # "release"
  BY ItemTypes DEF EarlyOps
<1>3. /\ 1 \in 1..Len(inbox) /\ Len(inbox') \in Nat
      /\ \A k \in 1..Len(inbox') : k + 1 \in 1..Len(inbox) /\ k + 1 # 1 /\ inbox'[k] = inbox[k + 1]
      /\ \A k \in 1..Len(inbox) : k # 1 => k - 1 \in 1..Len(inbox') /\ inbox'[k - 1] = inbox[k]
  BY <1>1, DroppedFacts
<1>4. /\ Len(reqs') = n + 1
      /\ \A k \in 1..Len(reqs') : \/ k \in 1..n /\ reqs'[k] = reqs[k]
                                  \/ /\ k = n + 1 /\ reqs'[k].id = t
                                     /\ reqs'[k].op = "deactivate"
      /\ \A k \in 1..n : k \in 1..Len(reqs') /\ reqs'[k] = reqs[k] /\ n + 1 > k
  <2> DEFINE e == Call(t, "deactivate", inbox[1].path, 0)
  <2>1. e.id = t /\ e.op = "deactivate"
    BY DEF Call
  <2> HIDE DEF e
  <2>2. /\ Len(reqs') = n + 1
        /\ \A k \in 1..Len(reqs') : \/ k \in 1..n /\ reqs'[k] = reqs[k]
                                    \/ k = n + 1 /\ reqs'[k] = e
        /\ \A k \in 1..n : k \in 1..Len(reqs') /\ reqs'[k] = reqs[k] /\ n + 1 > k
    BY <1>1, <1>2, AddedFacts DEF e
  <2> QED
    BY <2>1, <2>2
<1> HIDE DEF n
<1>5. CASE t # r /\ t # s
  <2>1. /\ \A k \in 1..Len(reqs') : reqs'[k].id \in {r, s} =>
             k + 0 \in 1..Len(reqs) /\ reqs'[k] = reqs[k + 0]
    BY <1>2, <1>4, <1>5 DEF n
  <2>2. /\ \A k \in 1..Len(inbox) : inbox[k].id = r =>
             k - 1 \in 1..Len(inbox') /\ inbox'[k - 1] = inbox[k]
    BY <1>3, <1>5
  <2>3. Live(r)' => Live(r)
    BY <1>1 DEF Live
  <2> QED
    BY <1>1, <1>3, <2>1, <2>2, <2>3, Undisturbed
<1>6. CASE t = s
  <2>1. ~Early(s)
    BY <1>1, <1>2, <1>3, <1>6 DEF Early
  <2>2. BehindRun(r, s)'
    BY <1>1, <2>1 DEF Behind, BehindRun, Live
  <2>3. BehindRelease(r, s)'
    <3>1. \A k \in 1..n : ~(reqs[k].id = r /\ reqs[k].op = "release")
      BY <2>1 DEF Behind, BehindRelease, n
    <3>2. \A k \in 1..Len(reqs') : ~(reqs'[k].id = r /\ reqs'[k].op = "release")
      BY <1>2, <1>4, <3>1
    <3> QED
      BY <3>2 DEF BehindRelease
  <2>4. BehindAnswer(r, s)'
    <3>1. \A k \in 1..Len(inbox) : ~(inbox[k].id = r /\ inbox[k].op = "release")
      BY <2>1 DEF Behind, BehindAnswer
    <3> QED
      BY <1>3, <3>1 DEF BehindAnswer
  <2>5. BehindDeactivate(r, s)'
    <3> SUFFICES ASSUME NEW i \in 1..Len(reqs'), reqs'[i].id = r, reqs'[i].op = "deactivate",
                        NEW k \in 1..Len(reqs'), reqs'[k].id = s, reqs'[k].op \notin EarlyOps
                 PROVE  k > i
      BY DEF BehindDeactivate
    <3>1. i \in 1..n /\ reqs'[i] = reqs[i]
      BY <1>2, <1>4, <1>6
    <3>2. CASE k \in 1..n
      BY <1>4, <3>1, <3>2 DEF Behind, BehindDeactivate, n
    <3>3. CASE k = n + 1
      BY <1>4, <3>1, <3>3
    <3> QED
      BY <1>4, <3>2, <3>3
  <2> QED
    BY <2>2, <2>3, <2>4, <2>5 DEF Behind
<1>7. CASE t = r
  <2>1. /\ Early(s) /\ Early(s)'
    <3>1. Early(s)
      BY <1>1, <1>3, <1>7 DEF Behind, BehindAnswer
    <3>2. \A k \in 1..Len(reqs') : reqs'[k].id = s => reqs'[k].op \in EarlyOps
      BY <1>2, <1>4, <1>7, <3>1 DEF Early, n
    <3>3. \A k \in 1..Len(inbox') : inbox'[k].id = s => inbox'[k].op \in EarlyOps
      BY <1>3, <3>1 DEF Early
    <3> QED
      BY <1>1, <3>1, <3>2, <3>3 DEF Early
  <2>2. BehindRun(r, s)'
    <3>1. r # 0
      BY ItemTypes
    <3>2. read[r].stage = "done"
      BY <1>1, <1>3, <1>7, <3>1, OpFacts DEF ChainInv, MessageOK
    <3> QED
      BY <1>1, <3>2 DEF BehindRun, Live
  <2>3. BehindRelease(r, s)'
    <3> SUFFICES ASSUME NEW i \in 1..Len(reqs'), reqs'[i].id = r, reqs'[i].op = "release"
                 PROVE  /\ Early(s)'
                        /\ \A k \in 1..Len(reqs') :
                             reqs'[k].id = s /\ reqs'[k].op = "acquire" => k > i
                        /\ \A k \in 1..Len(inbox') :
                             inbox'[k].id = s /\ inbox'[k].op = "acquire" => read'[s].cancelled
      BY DEF BehindRelease
    <3>1. i \in 1..n /\ reqs[i].id = r /\ reqs[i].op = "release"
      BY <1>2, <1>4
    <3>2. /\ \A k \in 1..n : reqs[k].id = s /\ reqs[k].op = "acquire" => k > i
          /\ \A k \in 1..Len(inbox) :
               inbox[k].id = s /\ inbox[k].op = "acquire" => read[s].cancelled
      BY <3>1 DEF Behind, BehindRelease, n
    <3>3. \A k \in 1..Len(reqs') : reqs'[k].id = s /\ reqs'[k].op = "acquire" => k > i
      BY <1>2, <1>4, <1>7, <3>2
    <3>4. \A k \in 1..Len(inbox') :
            inbox'[k].id = s /\ inbox'[k].op = "acquire" => read'[s].cancelled
      BY <1>1, <1>3, <3>2
    <3> QED
      BY <2>1, <3>3, <3>4
  <2>4. BehindAnswer(r, s)'
    <3> SUFFICES ASSUME NEW i \in 1..Len(inbox'), inbox'[i].id = r, inbox'[i].op = "release",
                        NEW k \in 1..Len(inbox'), inbox'[k].id = s, inbox'[k].op = "acquire"
                 PROVE  k > i \/ read'[s].cancelled
      BY <2>1 DEF BehindAnswer
    <3>1. k + 1 > i + 1 \/ read[s].cancelled
      BY <1>3 DEF Behind, BehindAnswer
    <3> QED
      BY <1>1, <3>1
  <2>5. BehindDeactivate(r, s)'
    BY <2>1, <1>2, <1>4, <1>7 DEF BehindDeactivate, Early
  <2> QED
    BY <2>2, <2>3, <2>4, <2>5 DEF Behind
<1> QED
  BY <1>5, <1>6, <1>7

LEMMA OrderStart ==
  ASSUME TypeOK, TypeOK', ChainInv, CurrentInv,
         NEW r \in Reads, NEW s \in Reads, r < s, Behind(r, s),
         NEW t \in Reads, NEW d, NEW q \in Calls, StartShape(t, d, q)
  PROVE  Behind(r, s)'
<1> DEFINE n == Len(reqs)
<1>1. /\ t = nreads + 1 /\ RecordOK(d) /\ d.stage = "tag_proxy"
      /\ read' = [read EXCEPT ![t] = d] /\ inbox' = inbox
      /\ Added(reqs', reqs, q) /\ q.id = t /\ q.op = "tag_proxy"
  BY DEF StartShape, Call
<1>2. /\ n \in Nat /\ r # s /\ r \in Nat /\ s \in Nat /\ nreads \in Nat
      /\ Len(inbox) \in Nat /\ "tag_proxy" \in EarlyOps
  <2>1. nreads \in Nat
    BY PassportAssumption DEF TypeOK
  <2> QED
    BY <2>1, ItemTypes DEF EarlyOps
<1>3. /\ Len(reqs') = n + 1
      /\ \A k \in 1..Len(reqs') : \/ k \in 1..n /\ reqs'[k] = reqs[k]
                                  \/ k = n + 1 /\ reqs'[k] = q
      /\ \A k \in 1..n : k \in 1..Len(reqs') /\ reqs'[k] = reqs[k] /\ n + 1 > k
  BY <1>1, <1>2, AddedFacts
<1>4. /\ read'[t] = d /\ ~d.acquired /\ \A u \in Reads \ {t} : read'[u] = read[u]
  BY <1>1, OpFacts DEF TypeOK, RecordOK, EarlyOps
<1>5. /\ \A u \in Reads : Live(u) => u <= nreads
      /\ \A k \in 1..n : reqs[k].id <= nreads
      /\ \A k \in 1..Len(inbox) : inbox[k].id <= nreads
  BY StartedFacts
<1> HIDE DEF n
<1>6. CASE t # r /\ t # s
  <2>1. /\ \A k \in 1..Len(reqs') : reqs'[k].id \in {r, s} =>
             k + 0 \in 1..Len(reqs) /\ reqs'[k] = reqs[k + 0]
    BY <1>1, <1>2, <1>3, <1>6 DEF n
  <2>2. /\ \A k \in 1..Len(inbox') : inbox'[k].id \in {r, s} =>
             k + 0 \in 1..Len(inbox) /\ inbox'[k] = inbox[k + 0]
        /\ \A k \in 1..Len(inbox) : inbox[k].id = r =>
             k - 0 \in 1..Len(inbox') /\ inbox'[k - 0] = inbox[k]
    BY <1>1, <1>2
  <2>3. Live(r)' => Live(r)
    BY <1>4, <1>6 DEF Live
  <2> QED
    BY <1>4, <1>6, <2>1, <2>2, <2>3, Undisturbed
<1>7. CASE t = s \/ t = r
  <2>1. /\ \A k \in 1..Len(inbox') : inbox'[k].id # s
        /\ \A k \in 1..Len(reqs') : reqs'[k].id = s => reqs'[k].op = "tag_proxy"
        /\ s > nreads
    <3>1. s > nreads
      BY <1>1, <1>2, <1>7
    <3>2. \A k \in 1..Len(inbox) : inbox[k].id # s
      BY <1>2, <1>5, <3>1
    <3>3. \A k \in 1..n : reqs[k].id # s
      BY <1>2, <1>5, <3>1
    <3> QED
      BY <1>1, <1>3, <3>1, <3>2, <3>3
  <2>2. ~read'[s].acquired
    <3>1. CASE t # s
      <4>1. ~Live(s)
        BY <1>2, <1>5, <2>1
      <4>2. ~read[s].acquired
        BY <4>1, OpFacts DEF Live, ChainInv, RecordOK
      <4> QED
        BY <1>4, <3>1, <4>2
    <3> QED
      BY <1>4, <3>1
  <2>3. Early(s)'
    BY <1>2, <2>1, <2>2 DEF Early
  <2> QED
    BY <1>2, <2>1, <2>3 DEF Behind, BehindRun, BehindRelease, BehindAnswer, BehindDeactivate
<1> QED
  BY <1>6, <1>7

LEMMA OrderRefuse ==
  ASSUME TypeOK, TypeOK', ChainInv,
         NEW r \in Reads, NEW s \in Reads, r < s, Behind(r, s),
         NEW t \in Reads, NEW d, RefuseShape(t, d)
  PROVE  Behind(r, s)'
<1>1. /\ t = nreads + 1 /\ RecordOK(d) /\ d.stage = "done"
      /\ read' = [read EXCEPT ![t] = d] /\ inbox' = inbox /\ reqs' = reqs
  BY DEF RefuseShape, Over
<1>2. /\ read'[t] = d /\ ~d.acquired /\ \A u \in Reads \ {t} : read'[u] = read[u]
  BY <1>1, OpFacts DEF TypeOK, RecordOK
<1>3. /\ ~Live(t)' /\ ~read[t].cancelled
  <2>1. read[t].stage = "idle"
    BY <1>1, IdleAlone
  <2>2. read[t] = NoRead
    BY <2>1 DEF ChainInv, RecordOK
  <2> QED
    BY <1>1, <1>2, <2>2, NoReadFacts DEF Live
<1>4. Len(reqs) \in Nat /\ Len(inbox) \in Nat
  BY ItemTypes
<1>5. /\ \A k \in 1..Len(reqs') : k + 0 = k /\ k \in 1..Len(reqs)
      /\ \A k \in 1..Len(inbox') : k + 0 = k /\ k - 0 = k /\ k \in 1..Len(inbox)
  BY <1>1, <1>4
<1>6. /\ Live(r)' => Live(r)
      /\ read'[s].acquired => read[s].acquired
      /\ read[s].cancelled => read'[s].cancelled
  BY <1>2, <1>3 DEF Live
<1> QED
  BY <1>1, <1>5, <1>6, Undisturbed

LEMMA OrderGo ==
  ASSUME TypeOK, TypeOK', ChainInv, CurrentInv,
         NEW r \in Reads, NEW s \in Reads, r < s, Behind(r, s),
         NEW t \in Reads, NEW d, NEW q \in Calls, GoShape(t, d, q)
  PROVE  Behind(r, s)'
<1> DEFINE n == Len(reqs)
<1>1. /\ Answered(t) /\ ~read[t].cancelled /\ RecordOK(d) /\ GoesOn(d, read[t], q)
      /\ read' = [read EXCEPT ![t] = d] /\ q.id = t /\ Added(reqs', reqs, q)
      /\ Dropped(inbox', inbox) /\ inbox[1].id = t
  BY DEF GoShape, Answered
<1>2. /\ n \in Nat /\ r # s /\ r \in Nat /\ s \in Nat
  BY ItemTypes
<1>3. /\ Len(reqs') = n + 1
      /\ \A k \in 1..Len(reqs') : \/ k \in 1..n /\ reqs'[k] = reqs[k]
                                  \/ k = n + 1 /\ reqs'[k] = q
      /\ \A k \in 1..n : k \in 1..Len(reqs') /\ reqs'[k] = reqs[k] /\ n + 1 > k
  BY <1>1, <1>2, AddedFacts
<1>4. /\ 1 \in 1..Len(inbox) /\ Len(inbox') \in Nat
      /\ \A k \in 1..Len(inbox') : k + 1 \in 1..Len(inbox) /\ k + 1 # 1 /\ inbox'[k] = inbox[k + 1]
      /\ \A k \in 1..Len(inbox) : k # 1 => k - 1 \in 1..Len(inbox') /\ inbox'[k - 1] = inbox[k]
  BY <1>1, DroppedFacts
<1>5. read'[t] = d /\ \A u \in Reads \ {t} : read'[u] = read[u]
  BY <1>1 DEF TypeOK
<1>6. /\ Live(t) /\ read[t].stage = inbox[1].op /\ inbox[1].op \in ChainOps
      /\ \A k \in 1..Len(inbox') : inbox'[k].id # t
      /\ \A k \in 1..n : reqs[k].id # t
  <2>1. /\ Live(t) /\ read[t].stage = inbox[1].op /\ inbox[1].op \in ChainOps
        /\ \A k \in 2..Len(inbox) : inbox[k].id # t
        /\ \A k \in 1..Len(reqs) : reqs[k].id = t => read[t].cancelled
    BY <1>1, AnsweredAlone
  <2>2. \A k \in 1..Len(inbox') : k + 1 \in 2..Len(inbox)
    BY <1>4
  <2> QED
    BY <1>1, <1>4, <2>1, <2>2
<1> HIDE DEF n
<1>7. CASE t # r /\ t # s
  <2>1. /\ \A k \in 1..Len(reqs') : reqs'[k].id \in {r, s} =>
             k + 0 \in 1..Len(reqs) /\ reqs'[k] = reqs[k + 0]
    BY <1>1, <1>2, <1>3, <1>7 DEF n
  <2>2. /\ \A k \in 1..Len(inbox) : inbox[k].id = r =>
             k - 1 \in 1..Len(inbox') /\ inbox'[k - 1] = inbox[k]
    BY <1>1, <1>4, <1>7
  <2>3. Live(r)' => Live(r)
    BY <1>5, <1>7 DEF Live
  <2> QED
    BY <1>4, <1>5, <1>7, <2>1, <2>2, <2>3, Undisturbed, SMTT(20)
<1>8. CASE t = r
  <2>1. /\ ~read[s].acquired
        /\ \A k \in 1..n : reqs[k].id # s
        /\ \A k \in 1..Len(inbox) : inbox[k].id # s
    BY <1>1, <1>6, <1>8, NothingBehind DEF n
  <2>2. /\ ~read'[s].acquired
        /\ \A k \in 1..Len(reqs') : reqs'[k].id # s
        /\ \A k \in 1..Len(inbox') : inbox'[k].id # s
    <3>1. ~read'[s].acquired
      BY <1>2, <1>5, <1>8, <2>1
    <3>2. \A k \in 1..Len(reqs') : reqs'[k].id # s
      BY <1>1, <1>2, <1>3, <1>8, <2>1
    <3>3. \A k \in 1..Len(inbox') : inbox'[k].id # s
      BY <1>4, <2>1
    <3> QED
      BY <3>1, <3>2, <3>3
  <2>3. Early(s)'
    BY <2>2 DEF Early
  <2> QED
    BY <2>2, <2>3 DEF Behind, BehindRun, BehindRelease, BehindAnswer, BehindDeactivate
<1>9. CASE t = s
  \* r is over, and if its Release() is not then s has only now its proxy.
  <2>1. ~Live(r) /\ ~Live(r)'
    <3>1. ~Live(r)
      <4>1. ~\E i \in 1..1 - 1 : inbox[i].id = r
        OBVIOUS
      <4> QED
        BY <1>1, <1>4, <1>9, <4>1 DEF Behind, BehindRun
    <3> QED
      BY <1>2, <1>5, <1>9, <3>1 DEF Live
  <2>2. ASSUME Early(s), ~(inbox[1].op = "acquire")
        PROVE  Early(s)' /\ q.op = "acquire"
    <3>1. inbox[1].op = "tag_proxy"
      BY <1>1, <1>4, <1>9, <2>2 DEF Early, EarlyOps
    <3>2. d.stage = "acquire" /\ q.op = "acquire"
      BY <1>1, <1>6, <1>9, <3>1 DEF GoesOn
    <3>3. ~d.acquired /\ "acquire" \in EarlyOps
      BY <1>1, <3>2, OpFacts DEF RecordOK, EarlyOps
    <3>4. \A k \in 1..Len(reqs') : reqs'[k].id = s => reqs'[k].op \in EarlyOps
      BY <1>3, <1>6, <1>9, <3>2, <3>3
    <3> QED
      BY <1>5, <1>6, <1>9, <3>2, <3>3, <3>4 DEF Early
  <2>3. BehindRun(r, s)'
    BY <2>1 DEF BehindRun
  <2>4. BehindRelease(r, s)'
    <3> SUFFICES ASSUME NEW i \in 1..Len(reqs'), reqs'[i].id = r, reqs'[i].op = "release"
                 PROVE  /\ Early(s)'
                        /\ \A k \in 1..Len(reqs') :
                             reqs'[k].id = s /\ reqs'[k].op = "acquire" => k > i
      BY <1>6, <1>9 DEF BehindRelease
    <3>1. i \in 1..n /\ reqs[i].id = r /\ reqs[i].op = "release"
      BY <1>1, <1>2, <1>3, <1>9
    <3>2. Early(s) /\ inbox[1].op # "acquire"
      BY <1>1, <1>4, <1>9, <3>1 DEF Behind, BehindRelease, n
    <3> QED
      BY <1>3, <1>6, <1>9, <2>2, <3>1, <3>2
  <2>5. BehindAnswer(r, s)'
    <3> SUFFICES ASSUME NEW i \in 1..Len(inbox'), inbox'[i].id = r, inbox'[i].op = "release"
                 PROVE  Early(s)'
      BY <1>6, <1>9 DEF BehindAnswer
    <3>1. i + 1 \in 1..Len(inbox) /\ inbox[i + 1].id = r /\ inbox[i + 1].op = "release"
      BY <1>4
    <3>2. ~(1 > i + 1)
      OBVIOUS
    <3>3. Early(s) /\ inbox[1].op # "acquire"
      BY <1>1, <1>4, <1>9, <3>1, <3>2 DEF Behind, BehindAnswer
    <3> QED
      BY <2>2, <3>3
  <2>6. BehindDeactivate(r, s)'
    <3> SUFFICES ASSUME NEW i \in 1..Len(reqs'), reqs'[i].id = r, reqs'[i].op = "deactivate",
                        NEW k \in 1..Len(reqs'), reqs'[k].id = s
                 PROVE  k > i
      BY DEF BehindDeactivate
    <3>1. k = n + 1 /\ i \in 1..n
      BY <1>1, <1>2, <1>3, <1>6, <1>9
    <3> QED
      BY <1>3, <3>1
  <2> QED
    BY <2>3, <2>4, <2>5, <2>6 DEF Behind
<1> QED
  BY <1>7, <1>8, <1>9

LEMMA OrderEnd ==
  ASSUME TypeOK, TypeOK', ChainInv, CurrentInv,
         NEW r \in Reads, NEW s \in Reads, r < s, Behind(r, s),
         NEW t \in Reads, NEW d, EndShape(t, d)
  PROVE  Behind(r, s)'
<1> DEFINE n == Len(reqs)
<1>1. /\ Answered(t) /\ RecordOK(d) /\ d.stage = "done"
      /\ read' = [read EXCEPT ![t] = d]
      /\ Dropped(inbox', inbox) /\ inbox[1].id = t
  BY DEF EndShape, Answered, Over
<1>2. /\ n \in Nat /\ r # s /\ r \in Nat /\ s \in Nat
  BY ItemTypes
<1>3. /\ Len(reqs') \in Nat
      /\ \A k \in 1..Len(reqs') : \/ k \in 1..n /\ reqs'[k] = reqs[k]
                                  \/ /\ k = n + 1 /\ read[t].acquired
                                     /\ reqs'[k].id = t /\ reqs'[k].op = "release"
      /\ \A k \in 1..n : k \in 1..Len(reqs') /\ reqs'[k] = reqs[k] /\ n + 1 > k
  <2> DEFINE e == Call(t, "release", read[t].path, 0)
  <2>1. e.id = t /\ e.op = "release"
    BY DEF Call
  <2> HIDE DEF e
  <2>2. CASE read[t].acquired
    <3>1. /\ Len(reqs') = n + 1
          /\ \A k \in 1..Len(reqs') : \/ k \in 1..n /\ reqs'[k] = reqs[k]
                                      \/ k = n + 1 /\ reqs'[k] = e
          /\ \A k \in 1..n : k \in 1..Len(reqs') /\ reqs'[k] = reqs[k] /\ n + 1 > k
      BY <1>2, <2>2, AddedFacts DEF e, EndShape
    <3> QED
      BY <1>2, <2>1, <2>2, <3>1
  <2>3. CASE ~read[t].acquired
    BY <1>2, <2>3 DEF EndShape
  <2> QED
    BY <2>2, <2>3
<1>4. /\ 1 \in 1..Len(inbox) /\ Len(inbox') \in Nat
      /\ \A k \in 1..Len(inbox') : k + 1 \in 1..Len(inbox) /\ k + 1 # 1 /\ inbox'[k] = inbox[k + 1]
      /\ \A k \in 1..Len(inbox) : k # 1 => k - 1 \in 1..Len(inbox') /\ inbox'[k - 1] = inbox[k]
  BY <1>1, DroppedFacts
<1>5. /\ read'[t] = d /\ ~d.acquired /\ ~Live(t)'
      /\ \A u \in Reads \ {t} : read'[u] = read[u]
  BY <1>1, OpFacts DEF TypeOK, RecordOK, Live
<1>6. /\ Live(t)
      /\ \A k \in 1..Len(inbox') : inbox'[k].id # t
      /\ \A k \in 1..n : reqs[k].id = t => reqs[k].op \notin {"release", "deactivate"}
  <2>1. /\ Live(t)
        /\ \A k \in 2..Len(inbox) : inbox[k].id # t
        /\ \A k \in 1..Len(reqs) : reqs[k].id = t => reqs[k].op \in ChainOps
    BY <1>1, AnsweredAlone
  <2>2. \A k \in 1..Len(inbox') : k + 1 \in 2..Len(inbox)
    BY <1>4
  <2> QED
    BY <1>1, <1>4, <2>1, <2>2, OpFacts
<1> HIDE DEF n
<1>7. CASE t # r /\ t # s
  <2>1. /\ \A k \in 1..Len(reqs') : reqs'[k].id \in {r, s} =>
             k + 0 \in 1..Len(reqs) /\ reqs'[k] = reqs[k + 0]
    BY <1>1, <1>2, <1>3, <1>7 DEF n
  <2>2. /\ \A k \in 1..Len(inbox) : inbox[k].id = r =>
             k - 1 \in 1..Len(inbox') /\ inbox'[k - 1] = inbox[k]
    BY <1>1, <1>4, <1>7
  <2>3. Live(r)' => Live(r)
    BY <1>5, <1>7 DEF Live
  <2> QED
    BY <1>4, <1>5, <1>7, <2>1, <2>2, <2>3, Undisturbed, SMTT(20)
<1>8. CASE t = r
  <2>1. /\ Early(s)
        /\ \A k \in 1..n : reqs[k].id = s => reqs[k].op = "tag_proxy"
        /\ \A k \in 1..Len(inbox) : inbox[k].id = s => inbox[k].op = "tag_proxy"
    BY <1>6, <1>8 DEF Behind, BehindRun, n
  <2>2. /\ \A k \in 1..Len(reqs') : reqs'[k].id = s => reqs'[k].op = "tag_proxy"
        /\ \A k \in 1..Len(inbox') : inbox'[k].id = s => inbox'[k].op = "tag_proxy"
        /\ ~read'[s].acquired
    <3>1. ~read'[s].acquired
      BY <1>2, <1>5, <1>8, <2>1 DEF Early
    <3>2. \A k \in 1..Len(reqs') : reqs'[k].id = s => reqs'[k].op = "tag_proxy"
      BY <1>2, <1>3, <1>8, <2>1
    <3>3. \A k \in 1..Len(inbox') : inbox'[k].id = s => inbox'[k].op = "tag_proxy"
      BY <1>4, <2>1
    <3> QED
      BY <3>1, <3>2, <3>3
  <2>3. Early(s)'
    BY <2>2 DEF Early, EarlyOps
  <2>4. \A k \in 1..Len(reqs') : reqs'[k].id = r => reqs'[k].op # "deactivate"
    BY <1>3, <1>6, <1>8
  <2> QED
    BY <1>5, <1>6, <1>8, <2>2, <2>3, <2>4
       DEF Behind, BehindRun, BehindRelease, BehindAnswer, BehindDeactivate
<1>9. CASE t = s
  <2>1. ~Live(r) /\ ~Live(r)'
    <3>1. ~Live(r)
      <4>1. ~\E i \in 1..1 - 1 : inbox[i].id = r
        OBVIOUS
      <4> QED
        BY <1>1, <1>4, <1>9, <4>1 DEF Behind, BehindRun
    <3> QED
      BY <1>2, <1>5, <1>9, <3>1 DEF Live
  <2>2. ASSUME Early(s)
        PROVE  /\ Early(s)'
               /\ \A k \in 1..Len(reqs') : k \in 1..n /\ reqs'[k] = reqs[k]
    <3>1. \A k \in 1..Len(reqs') : k \in 1..n /\ reqs'[k] = reqs[k]
      BY <1>3, <1>9, <2>2 DEF Early
    <3>2. \A k \in 1..Len(reqs') : reqs'[k].id = s => reqs'[k].op \in EarlyOps
      BY <2>2, <3>1 DEF Early, n
    <3> QED
      BY <1>5, <1>6, <1>9, <3>1, <3>2 DEF Early
  <2>3. BehindRun(r, s)'
    BY <2>1 DEF BehindRun
  <2>4. BehindRelease(r, s)'
    <3> SUFFICES ASSUME NEW i \in 1..Len(reqs'), reqs'[i].id = r, reqs'[i].op = "release"
                 PROVE  /\ Early(s)'
                        /\ \A k \in 1..Len(reqs') :
                             reqs'[k].id = s /\ reqs'[k].op = "acquire" => k > i
      BY <1>6, <1>9 DEF BehindRelease
    <3>1. i \in 1..n /\ reqs[i].id = r /\ reqs[i].op = "release"
      BY <1>2, <1>3, <1>9
    <3>2. /\ Early(s)
          /\ \A k \in 1..n : reqs[k].id = s /\ reqs[k].op = "acquire" => k > i
      BY <3>1 DEF Behind, BehindRelease, n
    <3> QED
      BY <2>2, <3>2
  <2>5. BehindAnswer(r, s)'
    <3> SUFFICES ASSUME NEW i \in 1..Len(inbox'), inbox'[i].id = r, inbox'[i].op = "release"
                 PROVE  Early(s)'
      BY <1>6, <1>9 DEF BehindAnswer
    <3>1. i + 1 \in 1..Len(inbox) /\ inbox[i + 1].id = r /\ inbox[i + 1].op = "release"
      BY <1>4
    <3>2. Early(s)
      BY <3>1 DEF Behind, BehindAnswer
    <3> QED
      BY <2>2, <3>2
  <2>6. BehindDeactivate(r, s)'
    <3> SUFFICES ASSUME NEW i \in 1..Len(reqs'), reqs'[i].id = r, reqs'[i].op = "deactivate",
                        NEW k \in 1..Len(reqs'), reqs'[k].id = s, reqs'[k].op \notin EarlyOps
                 PROVE  k > i
      BY DEF BehindDeactivate
    <3>1. i \in 1..n /\ reqs'[i] = reqs[i]
      BY <1>2, <1>3, <1>9
    <3>2. CASE k \in 1..n
      BY <1>3, <3>1, <3>2 DEF Behind, BehindDeactivate, n
    <3>3. CASE k = n + 1
      BY <1>3, <3>1, <3>3
    <3> QED
      BY <1>3, <3>2, <3>3
  <2> QED
    BY <2>3, <2>4, <2>5, <2>6 DEF Behind
<1> QED
  BY <1>7, <1>8, <1>9

\* What passport_read_abort() leaves of the record.
LEMMA AbortedFacts ==
  ASSUME TypeOK, NEW r \in Reads, NEW d, Aborted(r, d)
  PROVE  /\ d.cancelled /\ ~d.client /\ d.stage = read[r].stage
         /\ d.acquired = read[r].acquired /\ d.path = read[r].path
<1>1. read[r] \in Records
  BY ItemTypes
<1>2. PICK d1 \in Records : d1 = [read[r] EXCEPT !.client = FALSE]
  BY <1>1 DEF Records
<1>3. d = [d1 EXCEPT !.cancelled = TRUE]
  BY <1>2, Zenon DEF Aborted
<1>4. /\ d.cancelled = TRUE /\ d.client = FALSE /\ d.stage = read[r].stage
      /\ d.acquired = read[r].acquired /\ d.path = read[r].path
  BY <1>1, <1>2, <1>3 DEF Records
<1> QED
  BY <1>4

\* The inbox after an abort: the message about the tag is gone, and an error for
\* the call of r that was out may be new.
AbortQueue(r) ==
  LET n == Len(inbox)
      m == inbox'[n]
  IN  /\ n \in Nat \ {0} /\ Len(inbox') \in {n - 1, n} /\ Len(inbox') \in Nat
      /\ inbox[1].op = "tags" /\ inbox[1].id = 0 /\ 1 \in 1..n
      /\ \A k \in 1..n : k # 1 => /\ k - 1 \in 1..Len(inbox') /\ k - 1 < n
                                  /\ inbox'[k - 1] = inbox[k]
      /\ \A k \in 1..Len(inbox') : k # n =>
           k + 1 \in 1..n /\ k + 1 # 1 /\ inbox'[k] = inbox[k + 1]
      /\ n \in 1..Len(inbox') =>
           /\ m.id = r /\ m.op = read[r].stage /\ m.path = read[r].path /\ m.res = "fail"
           /\ \E i \in 1..Len(reqs) : reqs[i].id = r /\ reqs[i].op = read[r].stage

LEMMA AbortQueueFacts ==
  ASSUME TypeOK, ChainInv, NEW r \in Reads, NEW d, AbortShape(r, d)
  PROVE  AbortQueue(r)
<1> DEFINE n == Len(inbox)
           e == Answer(Call(r, read[r].stage, read[r].path, 0), "fail", 0)
<1>1. n \in Nat \ {0} /\ inbox[1].op = "tags" /\ 1 \in 1..n
  <2>1. inbox # <<>> /\ inbox[1].op = "tags"
    BY DEF AbortShape
  <2>2. n \in Nat \ {0}
    BY <2>1, QueueFacts DEF TypeOK, Dropped
  <2> QED
    BY <2>1, <2>2
<1>2. inbox[1].id = 0
  BY <1>1 DEF ChainInv, MessageOK
<1>3. e.id = r /\ e.op = read[r].stage /\ e.path = read[r].path /\ e.res = "fail"
  BY DEF Answer, Call
<1> HIDE DEF e
<1>4. CASE /\ \E i \in 1..Len(reqs) : reqs[i].id = r /\ reqs[i].op = read[r].stage
           /\ Len(inbox') = n
           /\ \A k \in 1..n - 1 : inbox'[k] = inbox[k + 1]
           /\ inbox'[n] = e
  <2>1. \A k \in 1..n : k # 1 => /\ k - 1 \in 1..Len(inbox') /\ k - 1 < n
                                  /\ inbox'[k - 1] = inbox[k]
    BY <1>1, <1>4
  <2>2. \A k \in 1..Len(inbox') : k # n =>
          k + 1 \in 1..n /\ k + 1 # 1 /\ inbox'[k] = inbox[k + 1]
    BY <1>1, <1>4
  <2> QED
    BY <1>1, <1>2, <1>3, <1>4, <2>1, <2>2 DEF AbortQueue
<1>5. CASE Dropped(inbox', inbox)
  BY <1>1, <1>2, <1>5 DEF AbortQueue, Dropped
<1> QED
  BY <1>4, <1>5 DEF AbortShape, e

LEMMA OrderAbort ==
  ASSUME TypeOK, TypeOK', ChainInv, CurrentInv,
         NEW r \in Reads, NEW s \in Reads, r < s, Behind(r, s),
         NEW t \in Reads, NEW d, AbortShape(t, d)
  PROVE  Behind(r, s)'
<1> DEFINE n == Len(inbox)
<1>1. /\ t = passport_reading /\ t # NULL /\ Aborted(t, d) /\ reqs' = reqs
      /\ read' = [read EXCEPT ![t] = d]
  BY DEF AbortShape
<1>2. r # s /\ r \in Nat /\ s \in Nat /\ r # 0 /\ s # 0 /\ Len(reqs) \in Nat
  BY ItemTypes
<1>3. /\ read'[t] = d /\ \A u \in Reads \ {t} : read'[u] = read[u]
      /\ d.cancelled /\ d.stage = read[t].stage /\ d.acquired = read[t].acquired
  BY <1>1, AbortedFacts DEF TypeOK
<1>4. /\ n \in Nat \ {0} /\ Len(inbox') \in Nat
      /\ inbox[1].op = "tags" /\ inbox[1].id = 0 /\ 1 \in 1..n
      /\ \A k \in 1..n : k # 1 => /\ k - 1 \in 1..Len(inbox') /\ k - 1 < n
                                  /\ inbox'[k - 1] = inbox[k]
      /\ \A k \in 1..Len(inbox') : k # n =>
           k + 1 \in 1..n /\ k + 1 # 1 /\ inbox'[k] = inbox[k + 1]
      /\ n \in 1..Len(inbox') =>
           /\ inbox'[n].id = t /\ inbox'[n].op = read[t].stage
           /\ \E i \in 1..Len(reqs) : reqs[i].id = t /\ reqs[i].op = read[t].stage
  BY AbortQueueFacts DEF AbortQueue
<1>5. Live(t) /\ ~read[t].cancelled
  BY <1>1, OneReadParts DEF CurrentInv
<1> HIDE DEF n
<1>6. CASE t # r /\ t # s
  <2>1. \A k \in 1..Len(inbox') : inbox'[k].id \in {r, s} =>
          k + 1 \in 1..Len(inbox) /\ inbox'[k] = inbox[k + 1]
    BY <1>4, <1>6 DEF n
  <2>2. /\ \A k \in 1..Len(inbox) : inbox[k].id = r =>
             k - 1 \in 1..Len(inbox') /\ inbox'[k - 1] = inbox[k]
    BY <1>2, <1>4 DEF n
  <2>3. Live(r)' => Live(r)
    BY <1>3, <1>6 DEF Live
  <2>4. \A k \in 1..Len(reqs') : k + 0 = k
    BY <1>1, <1>2
  <2> QED
    BY <1>1, <1>3, <1>6, <2>1, <2>2, <2>3, <2>4, Undisturbed
<1>7. CASE t = r
  <2>1. /\ ~read[s].acquired
        /\ \A k \in 1..Len(reqs) : reqs[k].id # s
        /\ \A k \in 1..n : inbox[k].id # s
    BY <1>5, <1>7, NothingBehind DEF n
  <2>2. \A k \in 1..Len(inbox') : inbox'[k].id # s
    BY <1>2, <1>4, <1>7, <2>1
  <2>3. ~read'[s].acquired
    BY <1>2, <1>3, <1>7, <2>1
  <2>4. Early(s)'
    BY <1>1, <2>1, <2>2, <2>3 DEF Early
  <2> QED
    BY <1>1, <2>1, <2>2, <2>4 DEF Behind, BehindRun, BehindRelease, BehindAnswer, BehindDeactivate
<1>8. CASE t = s
  <2>1. Live(r)' => Live(r)
    BY <1>2, <1>3, <1>8 DEF Live
  <2>2. Early(s) => Early(s)'
    <3> SUFFICES ASSUME Early(s) PROVE Early(s)'
      OBVIOUS
    <3>1. \A k \in 1..Len(inbox') : inbox'[k].id = s => inbox'[k].op \in EarlyOps
      BY <1>4, <1>8 DEF Early, n
    <3> QED
      BY <1>1, <1>3, <1>8, <3>1 DEF Early
  <2>3. BehindRun(r, s)'
    <3> SUFFICES ASSUME Live(r)' PROVE BehindRun(r, s)'
      BY DEF BehindRun
    <3>1. /\ Early(s)
          /\ \A k \in 1..Len(reqs) : reqs[k].id = s => reqs[k].op = "tag_proxy"
          /\ \A k \in 1..n : inbox[k].id = s =>
               inbox[k].op = "tag_proxy" /\ \E i \in 1..k - 1 : inbox[i].id = r
      BY <2>1 DEF Behind, BehindRun, n
    <3>2. PICK j \in 1..n : inbox[j].id = r
      <4>1. Live(r) /\ r # t
        BY <1>2, <1>8, <2>1
      <4>2. read[r].cancelled
        BY <1>1, <4>1, OneReadParts DEF CurrentInv
      <4> QED
        BY <4>1, <4>2, AbortedWaits DEF n
    <3>3. ASSUME NEW k \in 1..Len(inbox'), inbox'[k].id = s
          PROVE  inbox'[k].op = "tag_proxy" /\ \E i \in 1..k - 1 : inbox'[i].id = r
      <4>1. CASE k = n
        <5>1. inbox'[k].op = "tag_proxy"
          BY <1>4, <1>8, <3>1, <4>1
        <5>2. j # 1 /\ j - 1 \in 1..k - 1 /\ inbox'[j - 1].id = r
          <6>1. j # 1
            BY <1>2, <1>4, <3>2
          <6>2. j - 1 < n /\ inbox'[j - 1] = inbox[j] /\ j - 1 \in 1..Len(inbox')
            BY <1>4, <6>1
          <6> QED
            BY <1>4, <3>2, <4>1, <6>1, <6>2
        <5> QED
          BY <5>1, <5>2
      <4>2. CASE k # n
        <5>1. k + 1 \in 1..n /\ inbox'[k] = inbox[k + 1]
          BY <1>4, <4>2
        <5>2. PICK i \in 1..(k + 1) - 1 : inbox[i].id = r
          BY <3>1, <3>3, <5>1
        <5>3. i \in 1..n /\ i # 1
          BY <1>2, <1>4, <5>1, <5>2
        <5>4. i - 1 \in 1..k - 1 /\ inbox'[i - 1] = inbox[i]
          BY <1>4, <5>2, <5>3
        <5> QED
          BY <3>1, <3>3, <5>1, <5>2, <5>4
      <4> QED
        BY <4>1, <4>2
    <3> QED
      BY <1>1, <2>2, <3>1, <3>3 DEF BehindRun
  <2>4. BehindRelease(r, s)'
    <3> SUFFICES ASSUME NEW i \in 1..Len(reqs'), reqs'[i].id = r, reqs'[i].op = "release"
                 PROVE  /\ Early(s)'
                        /\ \A k \in 1..Len(reqs') :
                             reqs'[k].id = s /\ reqs'[k].op = "acquire" => k > i
      BY <1>3, <1>8 DEF BehindRelease
    <3>1. /\ Early(s)
          /\ \A k \in 1..Len(reqs) : reqs[k].id = s /\ reqs[k].op = "acquire" => k > i
      BY <1>1 DEF Behind, BehindRelease
    <3> QED
      BY <1>1, <2>2, <3>1
  <2>5. BehindAnswer(r, s)'
    <3> SUFFICES ASSUME NEW i \in 1..Len(inbox'), inbox'[i].id = r, inbox'[i].op = "release"
                 PROVE  Early(s)'
      BY <1>3, <1>8 DEF BehindAnswer
    <3>1. i # n /\ i + 1 \in 1..n /\ inbox[i + 1].id = r /\ inbox[i + 1].op = "release"
      BY <1>2, <1>4, <1>8
    <3>2. Early(s)
      BY <3>1 DEF Behind, BehindAnswer, n
    <3> QED
      BY <2>2, <3>2
  <2>6. BehindDeactivate(r, s)'
    BY <1>1 DEF Behind, BehindDeactivate
  <2> QED
    BY <2>3, <2>4, <2>5, <2>6 DEF Behind
<1> QED
  BY <1>6, <1>7, <1>8

LEMMA BehindStep ==
  ASSUME TypeOK, TypeOK', ChainInv, CurrentInv, Shapes,
         NEW r \in Reads, NEW s \in Reads, r < s, Behind(r, s)
  PROVE  Behind(r, s)'
BY OrderNfcd, OrderServe, OrderRelease, OrderEnd, OrderRefuse, OrderAbort, OrderGo,
   OrderStart, OrderTag DEF Shapes, ClientShapes

\* The calls that are out stay out, and their reads hold the tags they held.
LEMMA CommandsKept ==
  ASSUME TypeOK, TypeOK', \A k \in 1..Len(reqs) : CommandOK(k), ApduOrder,
         \A k \in 1..Len(reqs) : k \in 1..Len(reqs') /\ reqs'[k] = reqs[k],
         \A k \in 1..Len(reqs') : k \in 1..Len(reqs) \/ reqs'[k].op \notin ApduOps,
         \A k \in 1..Len(reqs) : read[reqs[k].id].acquired =>
           /\ read'[reqs[k].id].acquired
           /\ read'[reqs[k].id].path = read[reqs[k].id].path
  PROVE  (\A k \in 1..Len(reqs) : CommandOK(k))' /\ ApduOrder'
<1>0. Len(reqs) \in Nat /\ Len(reqs') \in Nat
  BY QueueFacts DEF TypeOK
<1>1. ASSUME NEW k \in 1..Len(reqs') PROVE CommandOK(k)'
  <2> SUFFICES ASSUME reqs'[k].op \in ApduOps PROVE CommandOK(k)'
    BY DEF CommandOK
  <2>1. k \in 1..Len(reqs) /\ reqs'[k] = reqs[k] /\ CommandOK(k)
    OBVIOUS
  <2>2. CASE read[reqs[k].id].acquired /\ read[reqs[k].id].path = reqs[k].path
    BY <2>1, <2>2 DEF CommandOK
  <2>3. ASSUME NEW l \in k + 1..Len(reqs), reqs[l].op = "release",
               reqs[l].id = reqs[k].id, reqs[l].path = reqs[k].path
        PROVE  CommandOK(k)'
    <3>1. l \in 1..Len(reqs) /\ l \in k + 1..Len(reqs')
      BY <1>0
    <3> QED
      BY <2>1, <2>3, <3>1 DEF CommandOK
  <2> QED
    BY <2>1, <2>2, <2>3 DEF CommandOK
<1>2. ApduOrder'
  BY DEF ApduOrder
<1> QED
  BY <1>1, <1>2

LEMMA CommandsEnd ==
  ASSUME TypeOK, TypeOK', ChainInv, \A k \in 1..Len(reqs) : CommandOK(k), ApduOrder,
         NEW t \in Reads, NEW d, EndShape(t, d)
  PROVE  (\A k \in 1..Len(reqs) : CommandOK(k))' /\ ApduOrder'
<1> DEFINE n == Len(reqs)
           e == Call(t, "release", read[t].path, 0)
<1>0. n \in Nat /\ Len(reqs') \in Nat
  BY QueueFacts DEF TypeOK
<1>1. e.id = t /\ e.op = "release" /\ e.path = read[t].path /\ e.op \notin ApduOps
  BY OpFacts DEF Call
<1>2. \A u \in Reads \ {t} : read'[u] = read[u]
  BY DEF EndShape, TypeOK
<1> HIDE DEF e
<1>3. CASE ~read[t].acquired
  <2>1. reqs' = reqs
    BY <1>3 DEF EndShape
  <2>2. ASSUME NEW k \in 1..n, read[reqs[k].id].acquired
        PROVE  /\ read'[reqs[k].id].acquired
               /\ read'[reqs[k].id].path = read[reqs[k].id].path
    <3>1. reqs[k].id \in Reads \ {t}
      BY <1>3, <2>2, ItemTypes
    <3> QED
      BY <1>2, <2>2, <3>1
  <2> QED
    BY <2>1, <2>2, CommandsKept
<1>4. CASE read[t].acquired
  <2>1. /\ Len(reqs') = n + 1 /\ n + 1 \in 1..Len(reqs') /\ reqs'[n + 1] = e
        /\ \A k \in 1..Len(reqs') : \/ k \in 1..n /\ reqs'[k] = reqs[k]
                                    \/ k = n + 1 /\ reqs'[k] = e
        /\ \A k \in 1..n : k \in 1..Len(reqs') /\ reqs'[k] = reqs[k] /\ n + 1 > k
    BY <1>0, <1>4, AddedFacts DEF EndShape, e
  <2>2. ApduOrder'
    <3> SUFFICES ASSUME NEW k \in 1..Len(reqs'), NEW l \in 1..Len(reqs'), k < l,
                        reqs'[k].op \in ApduOps, reqs'[l].op \in ApduOps
                 PROVE  reqs'[k].id <= reqs'[l].id
      BY DEF ApduOrder
    <3>1. k \in 1..n /\ l \in 1..n /\ reqs'[k] = reqs[k] /\ reqs'[l] = reqs[l]
      BY <1>1, <2>1
    <3> QED
      BY <3>1 DEF ApduOrder
  <2>3. ASSUME NEW k \in 1..Len(reqs'), reqs'[k].op \in ApduOps PROVE CommandOK(k)'
    <3>1. k \in 1..n /\ reqs'[k] = reqs[k] /\ CommandOK(k)
      BY <1>1, <2>1, <2>3
    <3>2. CASE read[reqs[k].id].acquired /\ read[reqs[k].id].path = reqs[k].path
      <4>1. CASE reqs[k].id = t
        <5>1. n + 1 \in k + 1..Len(reqs')
          BY <1>0, <2>1, <3>1
        <5> QED
          BY <1>1, <2>1, <3>1, <3>2, <4>1, <5>1 DEF CommandOK
      <4>2. CASE reqs[k].id # t
        <5>1. reqs[k].id \in Reads
          BY <3>1, ItemTypes
        <5> QED
          BY <1>2, <3>1, <3>2, <4>2, <5>1 DEF CommandOK
      <4> QED
        BY <4>1, <4>2
    <3>3. ASSUME NEW l \in k + 1..n, reqs[l].op = "release",
                 reqs[l].id = reqs[k].id, reqs[l].path = reqs[k].path
          PROVE  CommandOK(k)'
      <4>1. l \in 1..n /\ l \in k + 1..Len(reqs')
        BY <1>0, <2>1, <3>1
      <4> QED
        BY <2>1, <3>1, <3>3, <4>1 DEF CommandOK
    <3> QED
      BY <2>3, <3>1, <3>2, <3>3 DEF CommandOK
  <2> QED
    BY <2>2, <2>3 DEF CommandOK
<1> QED
  BY <1>3, <1>4

LEMMA CommandsGo ==
  ASSUME TypeOK, TypeOK', ChainInv, CurrentInv,
         \A k \in 1..Len(reqs) : CommandOK(k), ApduOrder,
         NEW t \in Reads, NEW d, NEW q \in Calls, GoShape(t, d, q)
  PROVE  (\A k \in 1..Len(reqs) : CommandOK(k))' /\ ApduOrder'
<1> DEFINE n == Len(reqs)
<1>1. /\ Answered(t) /\ ~read[t].cancelled /\ RecordOK(d) /\ GoesOn(d, read[t], q)
      /\ read' = [read EXCEPT ![t] = d] /\ q.id = t /\ Added(reqs', reqs, q)
  BY DEF GoShape
<1>2. n \in Nat /\ t # 0 /\ t \in Nat
  BY ItemTypes
<1>3. /\ Len(reqs') = n + 1
      /\ \A k \in 1..Len(reqs') : \/ k \in 1..n /\ reqs'[k] = reqs[k]
                                  \/ k = n + 1 /\ reqs'[k] = q
      /\ \A k \in 1..n : k \in 1..Len(reqs') /\ reqs'[k] = reqs[k] /\ n + 1 > k
  BY <1>1, <1>2, AddedFacts
<1>4. /\ t = passport_reading /\ \A k \in 1..n : reqs[k].id <= t /\ reqs[k].id # t
      /\ \A k \in 1..n : reqs[k].id \in Reads
  <2>1. Live(t) /\ \A k \in 1..n : reqs[k].id # t
    BY <1>1, AnsweredAlone
  <2>2. t = passport_reading
    BY <1>1, <2>1, OneReadParts DEF CurrentInv
  <2> QED
    BY <1>2, <2>1, <2>2, ItemTypes DEF CurrentInv, NULL
<1>5. read'[t] = d /\ \A u \in Reads \ {t} : read'[u] = read[u]
  BY <1>1 DEF TypeOK
<1>6. ASSUME NEW k \in 1..Len(reqs'), reqs'[k].op \in ApduOps PROVE CommandOK(k)'
  <2>1. CASE k \in 1..n
    <3>1. reqs'[k] = reqs[k] /\ read'[reqs[k].id] = read[reqs[k].id] /\ CommandOK(k)
      BY <1>3, <1>4, <1>5, <2>1
    <3>2. ASSUME NEW l \in k + 1..n PROVE l \in k + 1..Len(reqs') /\ reqs'[l] = reqs[l]
      BY <1>2, <1>3, <2>1
    <3> QED
      BY <1>6, <3>1, <3>2 DEF CommandOK
  <2>2. CASE reqs'[k] = q
    <3>1. d.acquired /\ q.path = d.path
      BY <1>1, <1>6, <2>2 DEF RecordOK, GoesOn
    <3> QED
      BY <1>1, <1>5, <2>2, <3>1 DEF CommandOK
  <2> QED
    BY <1>3, <2>1, <2>2
<1>7. ApduOrder'
  <2> SUFFICES ASSUME NEW k \in 1..Len(reqs'), NEW l \in 1..Len(reqs'), k < l,
                      reqs'[k].op \in ApduOps, reqs'[l].op \in ApduOps
               PROVE  reqs'[k].id <= reqs'[l].id
    BY DEF ApduOrder
  <2>1. k \in 1..n /\ reqs'[k] = reqs[k]
    BY <1>2, <1>3
  <2>2. CASE l \in 1..n
    BY <1>3, <2>1, <2>2 DEF ApduOrder
  <2>3. CASE reqs'[l] = q
    BY <1>1, <1>4, <2>1, <2>3
  <2> QED
    BY <1>3, <2>2, <2>3
<1> QED
  BY <1>6, <1>7 DEF CommandOK

LEMMA CommandsServe ==
  ASSUME TypeOK, TypeOK', \A k \in 1..Len(reqs) : CommandOK(k), ApduOrder, ServeShape
  PROVE  (\A k \in 1..Len(reqs) : CommandOK(k))' /\ ApduOrder'
<1>1. /\ read' = read /\ 1 \in 1..Len(reqs)
      /\ Len(reqs) \in Nat /\ Len(reqs') \in Nat
      /\ \A k \in 1..Len(reqs') : k + 1 \in 1..Len(reqs) /\ reqs'[k] = reqs[k + 1]
      /\ \A k \in 1..Len(reqs) : k # 1 => k - 1 \in 1..Len(reqs') /\ reqs'[k - 1] = reqs[k]
  BY DroppedFacts DEF ServeShape
<1>2. ASSUME NEW k \in 1..Len(reqs') PROVE CommandOK(k)'
  <2>1. CommandOK(k + 1) /\ reqs'[k] = reqs[k + 1]
    BY <1>1
  <2>2. ASSUME NEW l \in (k + 1) + 1..Len(reqs)
        PROVE  l - 1 \in k + 1..Len(reqs') /\ reqs'[l - 1] = reqs[l]
    <3>1. l \in 1..Len(reqs) /\ l # 1 /\ l - 1 >= k + 1
      BY <1>1
    <3>2. l - 1 \in 1..Len(reqs') /\ reqs'[l - 1] = reqs[l]
      BY <1>1, <3>1
    <3> QED
      BY <1>1, <3>1, <3>2
  <2> QED
    <3> SUFFICES ASSUME reqs'[k].op \in ApduOps PROVE CommandOK(k)'
      BY DEF CommandOK
    <3>1. CASE read[reqs[k + 1].id].acquired /\ read[reqs[k + 1].id].path = reqs[k + 1].path
      BY <1>1, <2>1, <3>1 DEF CommandOK
    <3>2. ASSUME NEW l \in (k + 1) + 1..Len(reqs), reqs[l].op = "release",
                 reqs[l].id = reqs[k + 1].id, reqs[l].path = reqs[k + 1].path
          PROVE  CommandOK(k)'
      BY <2>1, <2>2, <3>2, SMTT(20) DEF CommandOK
    <3> QED
      BY <2>1, <3>1, <3>2 DEF CommandOK
<1>3. ApduOrder'
  <2> SUFFICES ASSUME NEW k \in 1..Len(reqs'), NEW l \in 1..Len(reqs'), k < l,
                      reqs'[k].op \in ApduOps, reqs'[l].op \in ApduOps
               PROVE  reqs'[k].id <= reqs'[l].id
    BY DEF ApduOrder
  <2>1. k + 1 < l + 1
    OBVIOUS
  <2> QED
    BY <1>1, <2>1 DEF ApduOrder
<1> QED
  BY <1>2, <1>3

LEMMA CommandsOther ==
  ASSUME TypeOK, TypeOK', ChainInv, CurrentInv,
         \A k \in 1..Len(reqs) : CommandOK(k), ApduOrder,
         \/ NfcdShape \/ ReleaseShape
         \/ \E c \in BOOLEAN : TagShape(c)
         \/ \E r \in Reads : \E d : \/ RefuseShape(r, d) \/ AbortShape(r, d)
                                    \/ \E q \in Calls : StartShape(r, d, q)
  PROVE  (\A k \in 1..Len(reqs) : CommandOK(k))' /\ ApduOrder'
<1>0. Len(reqs) \in Nat
  BY ItemTypes
<1>1. CASE NfcdShape \/ \E c \in BOOLEAN : TagShape(c)
  <2>1. UNCHANGED <<reqs, read>>
    BY <1>1 DEF NfcdShape, TagShape
  <2> QED
    BY <2>1, CommandsKept
<1>2. CASE ReleaseShape
  <2> DEFINE e == Call(inbox[1].id, "deactivate", inbox[1].path, 0)
  <2>1. e.op \notin ApduOps
    BY OpFacts DEF Call
  <2> HIDE DEF e
  <2>2. read' = read /\ Added(reqs', reqs, e)
    BY <1>2 DEF ReleaseShape, e
  <2>3. /\ \A k \in 1..Len(reqs') : k \in 1..Len(reqs) \/ reqs'[k].op \notin ApduOps
        /\ \A k \in 1..Len(reqs) : k \in 1..Len(reqs') /\ reqs'[k] = reqs[k]
    BY <1>0, <2>1, <2>2, AddedFacts
  <2> QED
    BY <2>2, <2>3, CommandsKept
<1>3. ASSUME NEW t \in Reads, NEW d, RefuseShape(t, d)
      PROVE  (\A k \in 1..Len(reqs) : CommandOK(k))' /\ ApduOrder'
  <2>1. /\ reqs' = reqs /\ \A u \in Reads \ {t} : read'[u] = read[u]
        /\ \A k \in 1..Len(reqs) : reqs[k].id \in Reads \ {t}
    BY <1>3, IdleAlone, ItemTypes DEF RefuseShape, TypeOK
  <2> QED
    BY <2>1, CommandsKept
<1>4. ASSUME NEW t \in Reads, NEW d, AbortShape(t, d)
      PROVE  (\A k \in 1..Len(reqs) : CommandOK(k))' /\ ApduOrder'
  <2>1. /\ reqs' = reqs /\ \A u \in Reads \ {t} : read'[u] = read[u]
        /\ read'[t] = d /\ d.acquired = read[t].acquired /\ d.path = read[t].path
        /\ \A k \in 1..Len(reqs) : reqs[k].id \in Reads
    BY <1>4, ItemTypes, AbortedFacts DEF AbortShape, TypeOK
  <2> QED
    BY <2>1, CommandsKept
<1>5. ASSUME NEW t \in Reads, NEW d, NEW q \in Calls, StartShape(t, d, q)
      PROVE  (\A k \in 1..Len(reqs) : CommandOK(k))' /\ ApduOrder'
  <2>1. /\ q.op = "tag_proxy" /\ \A u \in Reads \ {t} : read'[u] = read[u]
        /\ Added(reqs', reqs, q)
    BY <1>5 DEF StartShape, Call, TypeOK
  <2>2. q.op \notin ApduOps
    BY <2>1, OpFacts DEF EarlyOps
  <2>3. /\ \A k \in 1..Len(reqs') : k \in 1..Len(reqs) \/ reqs'[k].op \notin ApduOps
        /\ \A k \in 1..Len(reqs) : k \in 1..Len(reqs') /\ reqs'[k] = reqs[k]
    BY <1>0, <2>1, <2>2, AddedFacts
  <2>4. \A k \in 1..Len(reqs) : reqs[k].id \in Reads \ {t}
    BY <1>5, IdleAlone, ItemTypes DEF StartShape
  <2> QED
    BY <2>1, <2>3, <2>4, CommandsKept
<1> QED
  BY <1>1, <1>2, <1>3, <1>4, <1>5

LEMMA OrderStep ==
  ASSUME TypeOK, TypeOK', ChainInv, CurrentInv, OrderInv, Shapes
  PROVE  OrderInv'
<1>1. \A r, s \in Reads : r < s => Behind(r, s)'
  BY BehindStep DEF OrderInv
<1>2. (\A k \in 1..Len(reqs) : CommandOK(k)) /\ ApduOrder
  BY DEF OrderInv
<1>3. (\A k \in 1..Len(reqs) : CommandOK(k))' /\ ApduOrder'
  BY <1>2, CommandsOther, CommandsServe, CommandsEnd, CommandsGo DEF Shapes, ClientShapes
<1> QED
  BY <1>1, <1>3 DEF OrderInv

-----------------------------------------------------------------------------
(* The session.                                                            *)

\* What a step of the client takes from the bus, and from a read.
LEMMA ClientKeeps ==
  ASSUME TypeOK, TypeOK', ChainInv, ClientShapes
  PROVE  /\ UNCHANGED nfcdVars /\ npath' = npath
         /\ \A k \in 1..Len(reqs) : k \in 1..Len(reqs') /\ reqs'[k] = reqs[k]
         /\ \A k \in 1..Len(inbox) :
              \/ \E l \in 1..Len(inbox') : inbox'[l] = inbox[k]
              \/ k = 1 /\ (ReleaseShape \/ inbox[1].op = "tags")
              \/ k = 1 /\ \E r \in Reads : \E d : EndShape(r, d)
              \/ k = 1 /\ \E r \in Reads : \E d : \E q \in Calls : GoShape(r, d, q)
         /\ \A r \in Reads : read[r].acquired =>
              \/ read'[r].acquired /\ read'[r].path = read[r].path
              \/ \E d : EndShape(r, d)
<1>0. Len(reqs) \in Nat /\ Len(inbox) \in Nat
  BY ItemTypes
<1>1. UNCHANGED nfcdVars
  BY DEF ClientShapes, ReleaseShape, EndShape, RefuseShape, AbortShape, GoShape, StartShape,
     TagShape
<1>2. npath' = npath
  BY <1>1 DEF nfcdVars, npath
<1>3. \A k \in 1..Len(reqs) : k \in 1..Len(reqs') /\ reqs'[k] = reqs[k]
  <2>1. reqs' = reqs \/ \E e : Added(reqs', reqs, e)
    BY DEF ClientShapes, ReleaseShape, EndShape, RefuseShape, AbortShape, GoShape, StartShape,
       TagShape
  <2> QED
    BY <1>0, <2>1, AddedFacts
<1>4. ASSUME NEW k \in 1..Len(inbox)
      PROVE  \/ \E l \in 1..Len(inbox') : inbox'[l] = inbox[k]
             \/ k = 1 /\ (ReleaseShape \/ inbox[1].op = "tags")
             \/ k = 1 /\ \E r \in Reads : \E d : EndShape(r, d)
             \/ k = 1 /\ \E r \in Reads : \E d : \E q \in Calls : GoShape(r, d, q)
  <2>1. CASE inbox' = inbox
    BY <2>1
  <2>2. CASE Dropped(inbox', inbox)
    <3>1. CASE k # 1
      BY <2>2, <3>1, DroppedFacts
    <3>2. \/ inbox' = inbox \/ ReleaseShape \/ inbox[1].op = "tags"
          \/ \E r \in Reads : \E d : EndShape(r, d)
          \/ \E r \in Reads : \E d : \E q \in Calls : GoShape(r, d, q)
      BY DEF ClientShapes, RefuseShape, AbortShape, StartShape, TagShape
    <3> QED
      BY <3>1, <3>2
  <2>3. ASSUME NEW r \in Reads, NEW d, AbortShape(r, d)
        PROVE  (\E l \in 1..Len(inbox') : inbox'[l] = inbox[k]) \/ (k = 1 /\ inbox[1].op = "tags")
    BY <2>3, AbortQueueFacts DEF AbortQueue
  <2> QED
    BY <2>1, <2>2, <2>3 DEF ClientShapes, ReleaseShape, EndShape, RefuseShape, GoShape,
       StartShape, TagShape, Answered
<1>5. ASSUME NEW r \in Reads, read[r].acquired
      PROVE  \/ read'[r].acquired /\ read'[r].path = read[r].path
             \/ \E d : EndShape(r, d)
  <2>0. read'[r] = read[r] =>
          read'[r].acquired /\ read'[r].path = read[r].path
    BY <1>5
  <2>1. CASE ReleaseShape \/ \E c \in BOOLEAN : TagShape(c)
    BY <2>0, <2>1 DEF ReleaseShape, TagShape
  <2>2. ASSUME NEW t \in Reads, NEW d, read' = [read EXCEPT ![t] = d]
        PROVE  (t # r => read'[r] = read[r]) /\ (t = r => read'[r] = d)
    BY <2>2 DEF TypeOK
  <2>3. ASSUME NEW t \in Reads, t = nreads + 1 PROVE t # r
    <3>1. read[t].stage = "idle"
      BY <2>3, IdleAlone
    <3> QED
      BY <1>5, <3>1, NoReadFacts DEF ChainInv, RecordOK
  <2>4. ASSUME NEW t \in Reads, NEW d, AbortShape(t, d)
        PROVE  read'[r].acquired /\ read'[r].path = read[r].path
    BY <1>5, <2>2, <2>4, AbortedFacts DEF AbortShape
  <2>5. ASSUME NEW t \in Reads, NEW d, NEW q \in Calls, GoShape(t, d, q)
        PROVE  read'[r].acquired /\ read'[r].path = read[r].path
    <3>1. read' = [read EXCEPT ![t] = d] /\ RecordOK(d) /\ GoesOn(d, read[t], q)
      BY <2>5 DEF GoShape
    <3>2. CASE t = r
      <4>1. read[r].stage \in ApduOps
        BY <1>5 DEF ChainInv, RecordOK
      <4>2. read[r].stage # "tag_proxy"
        BY <4>1, OpFacts DEF EarlyOps
      <4>3. d.stage \in ApduOps /\ d.path = read[r].path
        BY <3>1, <3>2, <4>2 DEF GoesOn
      <4> QED
        BY <2>2, <3>1, <3>2, <4>3 DEF RecordOK
    <3> QED
      BY <1>5, <2>2, <3>1, <3>2
  <2>6. ASSUME NEW t \in Reads, NEW d, EndShape(t, d)
        PROVE  read'[r] = read[r] \/ EndShape(r, d)
    BY <2>2, <2>6 DEF EndShape
  <2>7. ASSUME NEW t \in Reads, NEW d, RefuseShape(t, d) \/ \E q \in Calls : StartShape(t, d, q)
        PROVE  read'[r] = read[r]
    BY <2>2, <2>3, <2>7 DEF RefuseShape, StartShape
  <2> QED
    BY <2>0, <2>1, <2>4, <2>5, <2>6, <2>7 DEF ClientShapes
<1> QED
  BY <1>1, <1>2, <1>3, <1>4, <1>5

\* passport_read_finish() and passport_release_ready() pass the tag on.
LEMMA EndReleases ==
  ASSUME TypeOK, NEW r \in Reads, NEW d, EndShape(r, d), read[r].acquired
  PROVE  \E k \in 1..Len(reqs') : /\ reqs'[k].id = r /\ reqs'[k].path = read[r].path
                                  /\ reqs'[k].op = "release"
<1> DEFINE e == Call(r, "release", read[r].path, 0)
<1>1. e.id = r /\ e.op = "release" /\ e.path = read[r].path
  BY DEF Call
<1> HIDE DEF e
<1>2. Added(reqs', reqs, e) /\ Len(reqs) \in Nat
  BY ItemTypes DEF EndShape, e
<1> QED
  BY <1>1, <1>2, AddedFacts

LEMMA ReleaseDeactivates ==
  ASSUME TypeOK, ReleaseShape
  PROVE  \E k \in 1..Len(reqs') : /\ reqs'[k].id = inbox[1].id /\ reqs'[k].path = inbox[1].path
                                  /\ reqs'[k].op = "deactivate"
<1> DEFINE e == Call(inbox[1].id, "deactivate", inbox[1].path, 0)
<1>1. e.id = inbox[1].id /\ e.op = "deactivate" /\ e.path = inbox[1].path
  BY DEF Call
<1> HIDE DEF e
<1>2. Added(reqs', reqs, e) /\ Len(reqs) \in Nat
  BY ItemTypes DEF ReleaseShape, e
<1> QED
  BY <1>1, <1>2, AddedFacts

LEMMA LeavingClient ==
  ASSUME TypeOK, TypeOK', ChainInv, NEW r \in Reads, Leaving(r), ClientShapes
  PROVE  Leaving(r)'
<1>1. CASE read[r].acquired /\ read[r].path = npath
  <2>1. CASE \E d : EndShape(r, d)
    BY <1>1, <2>1, ClientKeeps, EndReleases DEF Leaving
  <2>2. CASE read'[r].acquired /\ read'[r].path = read[r].path
    BY <1>1, <2>2, ClientKeeps DEF Leaving
  <2> QED
    BY <1>1, <2>1, <2>2, ClientKeeps
<1>2. ASSUME NEW k \in 1..Len(reqs), reqs[k].id = r, reqs[k].path = npath,
             reqs[k].op \in {"release", "deactivate"}
      PROVE  Leaving(r)'
  <2>1. k \in 1..Len(reqs') /\ reqs'[k] = reqs[k] /\ npath' = npath
    BY ClientKeeps
  <2> QED
    BY <1>2, <2>1 DEF Leaving
<1>3. ASSUME NEW k \in 1..Len(inbox), inbox[k].id = r, inbox[k].path = npath,
             inbox[k].op = "release"
      PROVE  Leaving(r)'
  <2>1. npath' = npath
    BY ClientKeeps
  <2>2. CASE \E l \in 1..Len(inbox') : inbox'[l] = inbox[k]
    BY <1>3, <2>1, <2>2 DEF Leaving
  <2>3. CASE k = 1 /\ ReleaseShape
    BY <1>3, <2>1, <2>3, ReleaseDeactivates DEF Leaving
  <2>4. inbox[k].op \notin ChainOps /\ inbox[k].op # "tags"
    BY <1>3, OpFacts
  <2>5. \A t \in Reads : \A d : EndShape(t, d) => inbox[1].op \in ChainOps
    BY DEF EndShape, Answered
  <2>6. \A t \in Reads : \A d : \A q \in Calls : GoShape(t, d, q) => inbox[1].op \in ChainOps
    BY DEF GoShape, Answered
  <2>7. \/ \E l \in 1..Len(inbox') : inbox'[l] = inbox[k]
        \/ k = 1 /\ (ReleaseShape \/ inbox[1].op = "tags")
        \/ k = 1 /\ \E t \in Reads : \E d : EndShape(t, d)
        \/ k = 1 /\ \E t \in Reads : \E d : \E q \in Calls : GoShape(t, d, q)
    BY ClientKeeps
  <2> QED
    BY <2>2, <2>3, <2>4, <2>5, <2>6, <2>7
<1> QED
  BY <1>1, <1>2, <1>3 DEF Leaving

LEMMA SessionClient ==
  ASSUME TypeOK, TypeOK', ChainInv, CurrentInv, SessionInv, ClientShapes
  PROVE  SessionInv'
<1>0. UNCHANGED <<up, ntag, last_path, session>> /\ Len(reqs) \in Nat
  BY ClientKeeps, ItemTypes DEF nfcdVars
<1> SUFFICES ASSUME session # NULL
             PROVE  /\ Leaving(session)'
                    /\ \A k \in 1..Len(reqs') : reqs'[k].op \in ApduOps => session <= reqs'[k].id
  BY <1>0 DEF SessionInv
<1>1. session \in Reads
  BY PassportAssumption DEF TypeOK, Reads, NULL
<1>2. Leaving(session) /\ \A k \in 1..Len(reqs) : reqs[k].op \in ApduOps => session <= reqs[k].id
  BY DEF SessionInv
<1>3. Leaving(session)'
  <2>1. ASSUME NEW r \in Reads, r = session PROVE Leaving(r)'
    BY <1>2, <2>1, LeavingClient
  <2> QED
    BY <1>0, <1>1, <2>1
<1>4. ASSUME NEW k \in 1..Len(reqs'), reqs'[k].op \in ApduOps PROVE session <= reqs'[k].id
  <2>1. CASE k \in 1..Len(reqs)
    BY <1>2, <1>4, <2>1, ClientKeeps
  <2>2. CASE \E e : Added(reqs', reqs, e) /\ e.op \notin ApduOps
    BY <1>0, <1>4, <2>1, <2>2, AddedFacts
  <2>3. ASSUME NEW r \in Reads, NEW d, NEW q \in Calls, GoShape(r, d, q)
        PROVE  session <= reqs'[k].id
    <3>1. /\ Answered(r) /\ ~read[r].cancelled /\ q.id = r /\ Added(reqs', reqs, q)
      BY <2>3 DEF GoShape
    <3>2. Live(r) /\ r = passport_reading /\ passport_reading # NULL
      BY <3>1, AnsweredAlone, OneReadParts, ItemTypes DEF CurrentInv, NULL
    <3>3. session <= r
      <4>1. read[session].acquired => Live(session)
        BY <1>1, OpFacts DEF ChainInv, RecordOK, Live
      <4> QED
        BY <1>1, <1>2, <3>2, <4>1 DEF Leaving, CurrentInv
    <3> QED
      BY <1>0, <2>1, <3>1, <3>3, AddedFacts
  <2>4. \/ reqs' = reqs
        \/ \E e : Added(reqs', reqs, e) /\ e.op \notin ApduOps
        \/ \E r \in Reads : \E d : \E q \in Calls : GoShape(r, d, q)
    <3>1. \A r, p : Call(r, "release", p, 0).op \notin ApduOps
                    /\ Call(r, "deactivate", p, 0).op \notin ApduOps
                    /\ Call(r, "tag_proxy", p, 0).op \notin ApduOps
      BY OpFacts DEF Call, EarlyOps
    <3> QED
      BY <3>1 DEF ClientShapes, ReleaseShape, EndShape, RefuseShape, AbortShape, StartShape,
         TagShape
  <2> QED
    BY <2>1, <2>2, <2>3, <2>4
<1> QED
  BY <1>3, <1>4

\* What an answer of nfcd takes from the bus.
LEMMA ServeKeeps ==
  ASSUME TypeOK, ChainInv, Serve
  PROVE  /\ reqs # <<>> /\ Head(reqs) = reqs[1] /\ 1 \in 1..Len(reqs)
         /\ Len(reqs) \in Nat /\ Len(reqs') \in Nat
         /\ \A k \in 1..Len(reqs) : k # 1 => k - 1 \in 1..Len(reqs') /\ reqs'[k - 1] = reqs[k]
         /\ \A k \in 1..Len(reqs') : k + 1 \in 1..Len(reqs) /\ reqs'[k] = reqs[k + 1]
         /\ \A k \in 1..Len(inbox) : k \in 1..Len(inbox') /\ inbox'[k] = inbox[k]
         /\ UNCHANGED <<up, crashes, attached, last_path, tag_path, read>>
<1>1. ServeShape
  BY ServeIsShape
<1>2. Dropped(reqs', reqs) /\ (inbox' = inbox \/ \E m : Added(inbox', inbox, m))
  BY <1>1 DEF ServeShape
<1>3. reqs # <<>> /\ UNCHANGED <<up, crashes, attached, last_path, tag_path, read>>
  BY DEF Serve, clientVars
<1>4. Head(reqs) = reqs[1] /\ Len(inbox) \in Nat /\ Len(reqs) \in Nat
  BY <1>3, QueueFacts DEF TypeOK
<1>5. \A k \in 1..Len(inbox) : k \in 1..Len(inbox') /\ inbox'[k] = inbox[k]
  BY <1>2, <1>4, AddedFacts
<1> QED
  BY <1>2, <1>3, <1>4, <1>5, DroppedFacts

\* A call that reaches no tag and is neither a Release() nor a Deactivate() of
\* the tag in the field leaves a read on its way out where it is.
LEMMA LeavingServe ==
  ASSUME TypeOK, ChainInv, Serve, npath' = npath, NEW r \in Reads, Leaving(r),
         reqs[1].id = r /\ reqs[1].path = npath => reqs[1].op \notin {"release", "deactivate"}
  PROVE  Leaving(r)'
<1>1. CASE read[r].acquired /\ read[r].path = npath
  BY <1>1, ServeKeeps DEF Leaving
<1>2. ASSUME NEW k \in 1..Len(reqs), reqs[k].id = r, reqs[k].path = npath,
             reqs[k].op \in {"release", "deactivate"}
      PROVE  Leaving(r)'
  <2>1. k # 1
    BY <1>2
  <2>2. k - 1 \in 1..Len(reqs') /\ reqs'[k - 1] = reqs[k]
    BY <2>1, ServeKeeps
  <2> QED
    BY <1>2, <2>2 DEF Leaving
<1>3. ASSUME NEW k \in 1..Len(inbox), inbox[k].id = r, inbox[k].path = npath,
             inbox[k].op = "release"
      PROVE  Leaving(r)'
  <2>1. k \in 1..Len(inbox') /\ inbox'[k] = inbox[k]
    BY ServeKeeps
  <2> QED
    BY <1>3, <2>1 DEF Leaving
<1> QED
  BY <1>1, <1>2, <1>3 DEF Leaving

\* A command that reaches the chip while another read has the session would
\* come from a read behind that one, or before it.
LEMMA NoOtherSession ==
  ASSUME TypeOK, ChainInv, OrderInv, SessionInv, session # NULL,
         1 \in 1..Len(reqs), reqs[1].op \in ApduOps
  PROVE  reqs[1].id = session
<1>1. session \in Reads /\ session \in Nat /\ reqs[1].id \in Reads /\ reqs[1].id \in Nat
  <2>1. session \in Reads
    BY PassportAssumption DEF TypeOK, Reads, NULL
  <2> QED
    BY <2>1, ItemTypes
<1>2. session <= reqs[1].id /\ Leaving(session)
  BY DEF SessionInv
<1>3. ASSUME NEW r \in Reads, NEW s \in Reads, r < s, s = reqs[1].id, Leaving(r) PROVE FALSE
  <2>1. Behind(r, s)
    BY <1>3 DEF OrderInv
  <2>2. reqs[1].op \notin EarlyOps
    BY OpFacts
  <2>3. ~Early(s)
    BY <1>3, <2>2 DEF Early
  <2>4. ~read[r].acquired
    <3>1. ~Live(r)
      BY <2>1, <2>3 DEF Behind, BehindRun
    <3> QED
      BY <3>1, OpFacts DEF ChainInv, RecordOK, Live
  <2>5. \A k \in 1..Len(inbox) : ~(inbox[k].id = r /\ inbox[k].op = "release")
    BY <2>1, <2>3 DEF Behind, BehindAnswer
  <2>6. \A k \in 1..Len(reqs) : ~(reqs[k].id = r /\ reqs[k].op = "release")
    BY <2>1, <2>3 DEF Behind, BehindRelease
  <2>7. ASSUME NEW k \in 1..Len(reqs), reqs[k].id = r, reqs[k].op = "deactivate" PROVE FALSE
    <3>1. 1 > k
      BY <1>3, <2>1, <2>2, <2>7 DEF Behind, BehindDeactivate
    <3> QED
      BY <3>1
  <2> QED
    BY <1>3, <2>4, <2>5, <2>6, <2>7 DEF Leaving
<1> QED
  BY <1>1, <1>2, <1>3

LEMMA SessionServe ==
  ASSUME TypeOK, TypeOK', ChainInv, OrderInv, SessionInv, Serve
  PROVE  SessionInv'
<1> DEFINE q == reqs[1]
<1>0. /\ 1 \in 1..Len(reqs) /\ Len(reqs) \in Nat /\ Len(reqs') \in Nat
      /\ UNCHANGED <<up, crashes, attached, last_path, tag_path, read>>
      /\ \A k \in 1..Len(reqs') : k + 1 \in 1..Len(reqs) /\ reqs'[k] = reqs[k + 1]
      /\ \A k \in 1..Len(reqs) : k # 1 => k - 1 \in 1..Len(reqs') /\ reqs'[k - 1] = reqs[k]
  BY ServeKeeps
<1>1. \/ ServeProxy(q) \/ ServeAcquire(q) \/ ServeApdu(q)
      \/ ServeRelease(q) \/ ServeDeactivate(q)
  BY ServeKeeps DEF Serve
<1> HIDE DEF q
<1>2. session # NULL => session \in Reads /\ Leaving(session) /\ ntag # NULL /\ npath # NULL
                        /\ up /\ \A k \in 1..Len(reqs) : reqs[k].op \in ApduOps => session <= reqs[k].id
  <2>1. session # NULL => session \in Reads
    BY PassportAssumption DEF TypeOK, Reads, NULL
  <2> QED
    BY <2>1 DEF SessionInv, npath, NULL
\* Nothing happens to the tag.
<1>3. ASSUME UNCHANGED <<ntag, session>>,
             session # NULL => Leaving(session)'
      PROVE  SessionInv'
  <2>1. \A k \in 1..Len(reqs') : reqs'[k].op \in ApduOps /\ session # NULL => session <= reqs'[k].id
    BY <1>0, <1>2
  <2> QED
    BY <1>0, <1>3, <2>1 DEF SessionInv
<1>4. ASSUME UNCHANGED <<ntag, session>>, session # NULL,
             q.id = session /\ q.path = npath => q.op \notin {"release", "deactivate"}
      PROVE  Leaving(session)'
  <2>1. npath' = npath
    BY <1>0, <1>4 DEF npath
  <2>2. ASSUME NEW r \in Reads, r = session PROVE Leaving(r)'
    BY <1>2, <1>4, <2>1, <2>2, LeavingServe DEF q
  <2> QED
    BY <1>2, <1>4, <2>2
<1>5. CASE ServeProxy(q) \/ ServeAcquire(q)
  <2>1. UNCHANGED <<ntag, session>> /\ q.op \notin {"release", "deactivate"}
    BY <1>5 DEF ServeProxy, ServeAcquire
  <2> QED
    BY <1>3, <1>4, <2>1
<1>6. CASE ServeApdu(q)
  <2>1. /\ q.op \in ApduOps /\ ntag' = ntag /\ q.op \notin {"release", "deactivate"}
        /\ session' = IF Reaches(q) THEN q.id ELSE session
    BY <1>6, OpFacts DEF ServeApdu
  <2>2. CASE ~Reaches(q)
    BY <1>3, <1>4, <2>1, <2>2
  <2>3. CASE Reaches(q)
    <3>1. session' = q.id /\ npath # NULL /\ q.path = npath /\ npath' = npath /\ ntag # NULL
      BY <1>0, <2>1, <2>3 DEF Reaches, npath
    <3>2. q.id \in Reads /\ q.id # NULL
      BY <1>0, ItemTypes DEF q, NULL
    <3>3. ASSUME NEW r \in Reads, r = q.id PROVE Leaving(r)'
      <4>1. CASE read[r].acquired /\ read[r].path = q.path
        BY <1>0, <3>1, <4>1 DEF Leaving
      <4>2. ASSUME NEW l \in 1 + 1..Len(reqs), reqs[l].op = "release", reqs[l].id = r,
                   reqs[l].path = q.path
            PROVE  Leaving(r)'
        <5>1. l \in 1..Len(reqs) /\ l # 1
          BY <1>0
        <5>2. l - 1 \in 1..Len(reqs') /\ reqs'[l - 1] = reqs[l]
          BY <1>0, <5>1
        <5> QED
          BY <3>1, <4>2, <5>2 DEF Leaving
      <4>3. CommandOK(1)
        BY <1>0 DEF OrderInv
      <4> QED
        BY <2>1, <3>3, <4>1, <4>2, <4>3 DEF CommandOK, q
    <3>4. ASSUME NEW k \in 1..Len(reqs'), reqs'[k].op \in ApduOps PROVE q.id <= reqs'[k].id
      <4>1. k + 1 \in 1..Len(reqs) /\ 1 < k + 1 /\ reqs'[k] = reqs[k + 1]
        BY <1>0
      <4> QED
        BY <1>0, <2>1, <3>4, <4>1 DEF OrderInv, ApduOrder, q
    <3> QED
      BY <1>0, <2>1, <3>1, <3>2, <3>3, <3>4 DEF SessionInv
  <2> QED
    BY <2>2, <2>3
<1>7. CASE ServeRelease(q)
  <2>1. /\ UNCHANGED <<ntag, session>> /\ q.op = "release"
        /\ inbox' = Append(inbox, Answer(q, "ok", 0))
    BY <1>7 DEF ServeRelease
  <2>2. ASSUME session # NULL, q.id = session, q.path = npath PROVE Leaving(session)'
    <3> DEFINE m == Answer(q, "ok", 0)
    <3>1. m.id = q.id /\ m.op = "release" /\ m.path = q.path
      BY <2>1 DEF Answer
    <3>2. m \in Messages
      BY <2>1, <1>0, ItemTypes, RefuseFacts DEF Awaited, RestOps, q
    <3> HIDE DEF m
    <3>3. Added(inbox', inbox, m) /\ Len(inbox) \in Nat
      BY <2>1, <3>2, QueueFacts DEF TypeOK, m
    <3>4. Len(inbox) + 1 \in 1..Len(inbox') /\ inbox'[Len(inbox) + 1] = m
      BY <3>3, AddedFacts
    <3>5. npath' = npath
      BY <1>0, <2>1 DEF npath
    <3> QED
      BY <2>1, <2>2, <3>1, <3>4, <3>5 DEF Leaving
  <2> QED
    BY <1>3, <1>4, <2>1, <2>2
<1>8. CASE ServeDeactivate(q)
  <2>1. CASE Reaches(q)
    BY <1>8, <2>1 DEF ServeDeactivate, SessionInv
  <2>2. CASE ~Reaches(q)
    <3>1. UNCHANGED <<ntag, session>>
      BY <1>8, <2>2 DEF ServeDeactivate
    <3>2. session # NULL => q.path # npath
      BY <1>2, <2>2 DEF Reaches
    <3> QED
      BY <1>3, <1>4, <3>1, <3>2
  <2> QED
    BY <2>1, <2>2
<1> QED
  BY <1>1, <1>5, <1>6, <1>7, <1>8

LEMMA SessionNfcd ==
  ASSUME TypeOK, TypeOK', SessionInv, Nfcd \/ TagReadDone
  PROVE  SessionInv'
<1>0. Len(inbox) \in Nat
  BY ItemTypes
<1>1. CASE PlaceTag
  <2>0. last_path \in Nat
    BY PassportAssumption DEF TypeOK
  <2>1. last_path + 1 # 0
    BY <2>0
  <2> QED
    BY <1>1, <2>1 DEF PlaceTag, SessionInv
<1>2. CASE RemoveTag \/ Crash
  BY <1>2 DEF RemoveTag, Crash, SessionInv
<1>3. CASE Restart
  <2>1. ntag = NULL /\ session = NULL /\ UNCHANGED <<ntag, session>>
    BY <1>3 DEF Restart, SessionInv
  <2> QED
    BY <2>1 DEF SessionInv
<1>4. CASE Attach \/ TagReadDone
  <2>1. UNCHANGED <<up, ntag, last_path, session, reqs, read>>
    BY <1>4 DEF Attach, TagReadDone, nfcdVars
  <2>2. \A k \in 1..Len(inbox) : k \in 1..Len(inbox') /\ inbox'[k] = inbox[k]
    <3>1. CASE inbox' = inbox
      BY <3>1
    <3>2. CASE Attach
      <4>1. npath \in 0..MaxTags
        BY PassportAssumption DEF TypeOK, npath, NULL
      <4>2. TagsMsg(npath) \in Messages
        BY <4>1, PassportAssumption DEF TagsMsg, Messages
      <4>3. Added(inbox', inbox, TagsMsg(npath))
        BY <3>2, <4>2, QueueFacts DEF Attach, TypeOK
      <4> QED
        BY <1>0, <4>3, AddedFacts
    <3> QED
      BY <1>4, <3>1, <3>2 DEF TagReadDone
  <2>3. npath' = npath
    BY <2>1 DEF npath
  <2>4. ASSUME session # NULL PROVE Leaving(session)'
    BY <2>1, <2>2, <2>3, <2>4 DEF Leaving, SessionInv
  <2> QED
    BY <2>1, <2>4 DEF SessionInv
<1> QED
  BY <1>1, <1>2, <1>3, <1>4 DEF Nfcd

-----------------------------------------------------------------------------
(* The locks.                                                              *)

\* Where the paths in the new state come from.
PathsKept ==
  /\ tag_path' = tag_path \/ (1 \in 1..Len(inbox) /\ tag_path' = inbox[1].path)
  /\ \A r \in Reads : read'[r].path \in {read[r].path, NULL, tag_path}
  /\ \A k \in 1..Len(reqs') :
       \/ k \in 1..Len(reqs) /\ reqs'[k] = reqs[k]
       \/ \E r \in Reads : reqs'[k].path = read[r].path
       \/ 1 \in 1..Len(inbox) /\ reqs'[k].path = inbox[1].path
       \/ reqs'[k].path = tag_path
  /\ \A k \in 1..Len(inbox') :
       \/ \E l \in 1..Len(inbox) : inbox'[k] = inbox[l]
       \/ \E r \in Reads : inbox'[k].path = read[r].path

LEMMA ClientPaths ==
  ASSUME TypeOK, TypeOK', ChainInv, ClientShapes
  PROVE  PathsKept
<1>0. Len(reqs) \in Nat /\ Len(inbox) \in Nat
  BY ItemTypes
<1>1. ASSUME NEW t \in Reads, NEW d, read' = [read EXCEPT ![t] = d],
             d.path \in {read[t].path, NULL, tag_path}
      PROVE  \A r \in Reads : read'[r].path \in {read[r].path, NULL, tag_path}
  BY <1>1 DEF TypeOK
<1>2. ASSUME NEW e, Added(reqs', reqs, e)
      PROVE  \A k \in 1..Len(reqs') : (k \in 1..Len(reqs) /\ reqs'[k] = reqs[k]) \/ reqs'[k] = e
  BY <1>0, <1>2, AddedFacts
<1>3. ASSUME Dropped(inbox', inbox)
      PROVE  /\ 1 \in 1..Len(inbox)
             /\ \A k \in 1..Len(inbox') : \E l \in 1..Len(inbox) : inbox'[k] = inbox[l]
  BY <1>3, DroppedFacts
<1>4. CASE ReleaseShape
  <2>1. /\ Dropped(inbox', inbox) /\ read' = read /\ tag_path' = tag_path
        /\ \E e : Added(reqs', reqs, e) /\ e.path = inbox[1].path
    BY <1>4 DEF ReleaseShape, Call
  <2> QED
    BY <1>2, <1>3, <2>1 DEF PathsKept
<1>5. ASSUME NEW c \in BOOLEAN, TagShape(c) PROVE PathsKept
  BY <1>3, <1>5 DEF TagShape, PathsKept
<1>6. ASSUME NEW t \in Reads, NEW d, EndShape(t, d) PROVE PathsKept
  <2>1. /\ Dropped(inbox', inbox) /\ read' = [read EXCEPT ![t] = d] /\ d.path = NULL
        /\ tag_path' = tag_path
        /\ reqs' = reqs \/ \E e : Added(reqs', reqs, e) /\ e.path = read[t].path
    BY <1>6 DEF EndShape, Answered, Over, Call
  <2> QED
    BY <1>1, <1>2, <1>3, <2>1 DEF PathsKept
<1>7. ASSUME NEW t \in Reads, NEW d, NEW q \in Calls, GoShape(t, d, q) PROVE PathsKept
  <2>1. /\ Dropped(inbox', inbox) /\ read' = [read EXCEPT ![t] = d] /\ d.path = read[t].path
        /\ tag_path' = tag_path /\ Added(reqs', reqs, q) /\ q.path = read[t].path
    BY <1>7 DEF GoShape, Answered, GoesOn
  <2> QED
    BY <1>1, <1>2, <1>3, <2>1 DEF PathsKept
<1>8. ASSUME NEW t \in Reads, NEW d, NEW q \in Calls, StartShape(t, d, q) PROVE PathsKept
  <2>1. /\ inbox' = inbox /\ read' = [read EXCEPT ![t] = d] /\ d.path = tag_path
        /\ tag_path' = tag_path /\ Added(reqs', reqs, q) /\ q.path = tag_path
    BY <1>8 DEF StartShape, Call
  <2> QED
    BY <1>1, <1>2, <2>1 DEF PathsKept
<1>9. ASSUME NEW t \in Reads, NEW d, RefuseShape(t, d) PROVE PathsKept
  <2>1. /\ inbox' = inbox /\ read' = [read EXCEPT ![t] = d] /\ d.path = NULL
        /\ tag_path' = tag_path /\ reqs' = reqs
    BY <1>9 DEF RefuseShape, Over
  <2> QED
    BY <1>1, <2>1 DEF PathsKept
<1>10. ASSUME NEW t \in Reads, NEW d, AbortShape(t, d) PROVE PathsKept
  <2>1. /\ read' = [read EXCEPT ![t] = d] /\ d.path = read[t].path /\ reqs' = reqs
        /\ tag_path' = inbox[1].path
    BY <1>10, AbortedFacts DEF AbortShape
  <2>2. /\ 1 \in 1..Len(inbox)
        /\ \A k \in 1..Len(inbox') : \/ \E l \in 1..Len(inbox) : inbox'[k] = inbox[l]
                                     \/ inbox'[k].path = read[t].path
    BY <1>10, AbortQueueFacts DEF AbortQueue
  <2> QED
    BY <1>1, <2>1, <2>2 DEF PathsKept
<1> QED
  BY <1>4, <1>5, <1>6, <1>7, <1>8, <1>9, <1>10 DEF ClientShapes

LEMMA BoundsClient ==
  ASSUME TypeOK, TypeOK', ChainInv, PathBounds, ClientShapes
  PROVE  PathBounds'
<1>1. UNCHANGED <<up, attached, last_path>>
  BY ClientKeeps DEF nfcdVars
<1>2. PathsKept /\ NULL <= last_path
  <2>1. last_path \in 0..MaxTags /\ MaxTags \in Nat
    BY PassportAssumption DEF TypeOK
  <2> QED
    BY <2>1, ClientPaths DEF NULL
<1>3. tag_path' <= last_path
  BY <1>2 DEF PathsKept, PathBounds
<1>4. \A r \in Reads : read'[r].path <= last_path
  BY <1>2 DEF PathsKept, PathBounds
<1>5. \A k \in 1..Len(reqs') : reqs'[k].path <= last_path
  BY <1>2 DEF PathsKept, PathBounds
<1>6. \A k \in 1..Len(inbox') : inbox'[k].path <= last_path
  BY <1>2 DEF PathsKept, PathBounds
<1> QED
  BY <1>1, <1>3, <1>4, <1>5, <1>6 DEF PathBounds

\* Messages about the tag are only taken, and from the head.
TagsKept(b) ==
  /\ \A k \in 1..Len(inbox') : inbox'[k].op = "tags" =>
       k + b \in 1..Len(inbox) /\ inbox'[k] = inbox[k + b]
  /\ \/ tag_path' = tag_path
     \/ /\ b = 1 /\ 1 \in 1..Len(inbox) /\ inbox[1].op = "tags"
        /\ tag_path' = inbox[1].path

LEMMA ClientTags ==
  ASSUME TypeOK, TypeOK', ChainInv, ClientShapes
  PROVE  TagsKept(0) \/ TagsKept(1)
<1>0. Len(inbox) \in Nat
  BY ItemTypes
<1>1. CASE inbox' = inbox /\ tag_path' = tag_path
  <2>1. \A k \in 1..Len(inbox') : k + 0 \in 1..Len(inbox) /\ inbox'[k] = inbox[k + 0]
    BY <1>0, <1>1
  <2> QED
    BY <1>1, <2>1 DEF TagsKept
<1>2. CASE Dropped(inbox', inbox) /\ (tag_path' = tag_path \/ (inbox[1].op = "tags" /\ tag_path' = inbox[1].path))
  BY <1>2, DroppedFacts DEF TagsKept
<1>3. ASSUME NEW t \in Reads, NEW d, AbortShape(t, d) PROVE TagsKept(1)
  <2>1. /\ Len(inbox) \in 1..Len(inbox') => inbox'[Len(inbox)].op = read[t].stage
        /\ 1 \in 1..Len(inbox) /\ inbox[1].op = "tags"
        /\ \A k \in 1..Len(inbox') : k # Len(inbox) =>
             k + 1 \in 1..Len(inbox) /\ inbox'[k] = inbox[k + 1]
    BY <1>3, AbortQueueFacts DEF AbortQueue
  <2>2. read[t].stage # "tags"
    BY OpFacts DEF ChainInv, RecordOK
  <2>3. tag_path' = inbox[1].path
    BY <1>3 DEF AbortShape
  <2> QED
    BY <2>1, <2>2, <2>3 DEF TagsKept
<1>4. \/ inbox' = inbox /\ tag_path' = tag_path
      \/ Dropped(inbox', inbox) /\ tag_path' = tag_path
      \/ Dropped(inbox', inbox) /\ inbox[1].op = "tags" /\ tag_path' = inbox[1].path
      \/ \E t \in Reads : \E d : AbortShape(t, d)
  BY DEF ClientShapes, ReleaseShape, EndShape, RefuseShape, GoShape, StartShape, TagShape,
     Answered
<1> QED
  BY <1>1, <1>2, <1>3, <1>4

LEMMA TagsClient ==
  ASSUME TypeOK, TypeOK', ChainInv, PathTags, ClientShapes
  PROVE  PathTags'
<1>1. PICK b \in {0, 1} : TagsKept(b)
  BY ClientTags
<1>2. npath' = npath
  BY ClientKeeps
<1> SUFFICES ASSUME npath # NULL PROVE PathTags'
  BY <1>2 DEF PathTags
<1>3. /\ tag_path = npath => \A k \in 1..Len(inbox) : inbox[k].op # "tags"
      /\ \A k, l \in 1..Len(inbox) :
           inbox[k].op = "tags" /\ inbox[k].path = npath /\ k < l => inbox[l].op # "tags"
  BY DEF PathTags
<1>4. ASSUME tag_path' = npath, NEW k \in 1..Len(inbox'), inbox'[k].op = "tags" PROVE FALSE
  <2>1. k + b \in 1..Len(inbox) /\ inbox[k + b].op = "tags"
    BY <1>1, <1>4 DEF TagsKept
  <2>2. CASE tag_path' = tag_path
    BY <1>3, <1>4, <2>1, <2>2
  <2>3. CASE b = 1 /\ 1 \in 1..Len(inbox) /\ inbox[1].op = "tags" /\ tag_path' = inbox[1].path
    <3>1. 1 < k + b
      BY <2>3
    <3> QED
      BY <1>3, <1>4, <2>1, <2>3, <3>1
  <2> QED
    BY <1>1, <2>2, <2>3 DEF TagsKept
<1>5. ASSUME NEW k \in 1..Len(inbox'), NEW l \in 1..Len(inbox'), inbox'[k].op = "tags",
             inbox'[k].path = npath, k < l, inbox'[l].op = "tags"
      PROVE  FALSE
  <2>1. /\ k + b \in 1..Len(inbox) /\ inbox'[k] = inbox[k + b]
        /\ l + b \in 1..Len(inbox) /\ inbox'[l] = inbox[l + b]
    BY <1>1, <1>5 DEF TagsKept
  <2>2. k + b < l + b
    BY <1>5
  <2> QED
    BY <1>3, <1>5, <2>1, <2>2
<1> QED
  BY <1>2, <1>4, <1>5 DEF PathTags

\* Calls and reads other than t keep PathReads.
LEMMA ReadsKept ==
  ASSUME TypeOK, TypeOK', PathReads, npath' = npath, npath # NULL,
         NEW t \in Reads, \A u \in Reads \ {t} : read'[u] = read[u],
         Live(t)' /\ read'[t].cancelled => read'[t].path # npath,
         \A k \in 1..Len(reqs') :
           \/ k \in 1..Len(reqs) /\ reqs'[k] = reqs[k] /\ reqs[k].id # t
           \/ reqs'[k].op = "acquire" /\ reqs'[k].path = npath =>
                read'[reqs'[k].id].stage = "acquire" /\ ~read'[reqs'[k].id].cancelled
  PROVE  PathReads'
<1>1. ASSUME NEW r \in Reads, Live(r)', read'[r].cancelled PROVE read'[r].path # npath
  <2>1. CASE r # t
    BY <1>1, <2>1 DEF PathReads, Live
  <2> QED
    BY <1>1, <2>1
<1>2. ASSUME NEW k \in 1..Len(reqs'), reqs'[k].op = "acquire", reqs'[k].path = npath
      PROVE  read'[reqs'[k].id].stage = "acquire" /\ ~read'[reqs'[k].id].cancelled
  <2>1. CASE k \in 1..Len(reqs) /\ reqs'[k] = reqs[k] /\ reqs[k].id # t
    <3>1. reqs[k].id \in Reads \ {t}
      BY <2>1, ItemTypes
    <3> QED
      BY <1>2, <2>1, <3>1 DEF PathReads
  <2> QED
    BY <1>2, <2>1
<1> QED
  BY <1>1, <1>2 DEF PathReads

LEMMA ReadsClient ==
  ASSUME TypeOK, TypeOK', ChainInv, CurrentInv, PathTags, PathReads, ClientShapes
  PROVE  PathReads'
<1>0. npath' = npath /\ Len(reqs) \in Nat
  BY ClientKeeps, ItemTypes
<1> SUFFICES ASSUME npath # NULL PROVE PathReads'
  BY <1>0 DEF PathReads
<1>1. \A k \in 1..Len(reqs) : reqs[k].op = "acquire" /\ reqs[k].path = npath =>
        read[reqs[k].id].stage = "acquire" /\ ~read[reqs[k].id].cancelled
  BY DEF PathReads
<1>2. ASSUME NEW e, Added(reqs', reqs, e)
      PROVE  \A k \in 1..Len(reqs') : (k \in 1..Len(reqs) /\ reqs'[k] = reqs[k]) \/ reqs'[k] = e
  BY <1>0, <1>2, AddedFacts
<1>3. CASE ReleaseShape
  <2>1. read' = read /\ \E e : Added(reqs', reqs, e) /\ e.op = "deactivate"
    BY <1>3 DEF ReleaseShape, Call
  <2>2. \A k \in 1..Len(reqs') : (k \in 1..Len(reqs) /\ reqs'[k] = reqs[k])
                                 \/ reqs'[k].op = "deactivate"
    BY <1>2, <2>1
  <2> QED
    BY <1>0, <2>1, <2>2 DEF PathReads, Live
<1>4. ASSUME NEW c \in BOOLEAN, TagShape(c) PROVE PathReads'
  BY <1>0, <1>4 DEF TagShape, PathReads, Live
<1>5. ASSUME NEW t \in Reads, NEW d, EndShape(t, d) PROVE PathReads'
  <2>1. /\ read'[t] = d /\ d.stage = "done" /\ \A u \in Reads \ {t} : read'[u] = read[u]
        /\ Answered(t)
    BY <1>5 DEF EndShape, Over, TypeOK
  <2>2. ~Live(t)'
    BY <2>1 DEF Live
  <2>3. ASSUME NEW k \in 1..Len(reqs), reqs[k].id = t
        PROVE  ~(reqs[k].op = "acquire" /\ reqs[k].path = npath)
    BY <1>1, <2>1, <2>3, AnsweredAlone
  <2>4. reqs' = reqs \/ \E e : Added(reqs', reqs, e) /\ e.op = "release"
    BY <1>5 DEF EndShape, Call
  <2>5. \A k \in 1..Len(reqs') : (k \in 1..Len(reqs) /\ reqs'[k] = reqs[k])
                                 \/ reqs'[k].op = "release"
    BY <1>2, <2>4
  <2> QED
    BY <1>0, <2>1, <2>2, <2>3, <2>5, ReadsKept
<1>6. ASSUME NEW t \in Reads, NEW d, NEW q \in Calls, GoShape(t, d, q) PROVE PathReads'
  <2>1. /\ read'[t] = d /\ \A u \in Reads \ {t} : read'[u] = read[u]
        /\ Answered(t) /\ ~read[t].cancelled /\ q.id = t /\ Added(reqs', reqs, q)
        /\ q.op = d.stage /\ ~d.cancelled
    BY <1>6 DEF GoShape, GoesOn, TypeOK
  <2>2. \A k \in 1..Len(reqs) : reqs[k].id # t
    BY <2>1, AnsweredAlone
  <2>3. \A k \in 1..Len(reqs') : (k \in 1..Len(reqs) /\ reqs'[k] = reqs[k]) \/ reqs'[k] = q
    BY <1>2, <2>1
  <2> QED
    BY <1>0, <2>1, <2>2, <2>3, ReadsKept
<1>7. ASSUME NEW t \in Reads, NEW d, NEW q \in Calls, StartShape(t, d, q) PROVE PathReads'
  <2>1. /\ read'[t] = d /\ \A u \in Reads \ {t} : read'[u] = read[u]
        /\ ~d.cancelled /\ q.op = "tag_proxy" /\ Added(reqs', reqs, q)
    BY <1>7 DEF StartShape, Call, TypeOK
  <2>2. \A k \in 1..Len(reqs) : reqs[k].id # t
    BY <1>7, IdleAlone DEF StartShape
  <2>3. \A k \in 1..Len(reqs') : (k \in 1..Len(reqs) /\ reqs'[k] = reqs[k])
                                 \/ reqs'[k].op = "tag_proxy"
    BY <1>2, <2>1
  <2> QED
    BY <1>0, <2>1, <2>2, <2>3, ReadsKept
<1>8. ASSUME NEW t \in Reads, NEW d, RefuseShape(t, d) PROVE PathReads'
  <2>1. /\ read'[t] = d /\ \A u \in Reads \ {t} : read'[u] = read[u]
        /\ ~d.cancelled /\ reqs' = reqs
    BY <1>8 DEF RefuseShape, Over, TypeOK
  <2>2. \A k \in 1..Len(reqs) : reqs[k].id # t
    BY <1>8, IdleAlone DEF RefuseShape
  <2> QED
    BY <1>0, <2>1, <2>2, ReadsKept
<1>9. ASSUME NEW t \in Reads, NEW d, AbortShape(t, d) PROVE PathReads'
  <2>1. /\ read'[t] = d /\ \A u \in Reads \ {t} : read'[u] = read[u]
        /\ d.path = read[t].path /\ reqs' = reqs
        /\ t = passport_reading /\ passport_reading # NULL
    BY <1>9, AbortedFacts DEF AbortShape, TypeOK
  <2>2. read[t].path = tag_path /\ Live(t)
    BY <2>1, OneReadParts DEF CurrentInv
  <2>3. tag_path # npath
    <3>1. 1 \in 1..Len(inbox) /\ inbox[1].op = "tags"
      BY <1>9, AbortQueueFacts DEF AbortQueue
    <3> QED
      BY <3>1 DEF PathTags
  <2>4. ASSUME NEW k \in 1..Len(reqs), reqs[k].id = t, reqs[k].op = "acquire"
        PROVE  reqs[k].path # npath
    <3>1. "acquire" \in ChainOps /\ "acquire" # "done"
      BY OpFacts DEF EarlyOps
    <3>2. CallOK(reqs[k], read[t]) /\ read[t].stage # "done"
      BY <2>2, <2>4 DEF ChainInv, Live
    <3>3. reqs[k].path = read[t].path
      BY <2>4, <3>1, <3>2 DEF CallOK
    <3> QED
      BY <2>2, <2>3, <3>3
  <2> QED
    BY <1>0, <2>1, <2>2, <2>3, <2>4, ReadsKept
<1> QED
  BY <1>3, <1>4, <1>5, <1>6, <1>7, <1>8, <1>9 DEF ClientShapes

LEMMA HoldsClient ==
  ASSUME TypeOK, TypeOK', ChainInv, PathReads, npath # NULL, NEW r \in Reads, Holds(r),
         ClientShapes
  PROVE  Holds(r)'
<1>0. npath' = npath
  BY ClientKeeps
<1>1. CASE read[r].acquired /\ read[r].path = npath
  <2>1. CASE \E d : EndShape(r, d)
    BY <1>0, <1>1, <2>1, EndReleases DEF Holds
  <2>2. CASE read'[r].acquired /\ read'[r].path = read[r].path
    BY <1>0, <1>1, <2>2 DEF Holds
  <2> QED
    BY <1>1, <2>1, <2>2, ClientKeeps
<1>2. ASSUME NEW k \in 1..Len(reqs), reqs[k].id = r, reqs[k].path = npath,
             reqs[k].op = "release"
      PROVE  Holds(r)'
  <2>1. k \in 1..Len(reqs') /\ reqs'[k] = reqs[k]
    BY ClientKeeps
  <2> QED
    BY <1>0, <1>2, <2>1 DEF Holds
<1>3. ASSUME NEW k \in 1..Len(inbox), inbox[k].id = r, inbox[k].path = npath,
             inbox[k].op = "acquire", inbox[k].res = "ok"
      PROVE  Holds(r)'
  <2>1. CASE \E l \in 1..Len(inbox') : inbox'[l] = inbox[k]
    BY <1>0, <1>3, <2>1 DEF Holds
  <2>2. ASSUME k = 1, NEW t \in Reads, NEW d, EndShape(t, d) PROVE FALSE
    <3>1. t = r /\ Answered(r) /\ read[r].cancelled
      BY <1>3, <2>2 DEF EndShape, Answered
    <3>2. Live(r) /\ read[r].path = npath
      BY <1>3, <2>2, <3>1, AnsweredAlone
    <3> QED
      BY <3>1, <3>2 DEF PathReads
  <2>3. ASSUME k = 1, NEW t \in Reads, NEW d, NEW q \in Calls, GoShape(t, d, q)
        PROVE  Holds(r)'
    <3>1. /\ t = r /\ Answered(r) /\ RecordOK(d) /\ GoesOn(d, read[r], q) /\ read'[r] = d
      BY <1>3, <2>3 DEF GoShape, Answered, TypeOK
    <3>2. read[r].stage = "acquire" /\ read[r].path = npath
      BY <1>3, <2>3, <3>1, AnsweredAlone
    <3>3. d.stage \in ApduOps /\ d.path = npath
      BY <3>1, <3>2 DEF GoesOn
    <3> QED
      BY <1>0, <3>1, <3>3 DEF RecordOK, Holds
  <2>4. ~(k = 1 /\ (ReleaseShape \/ inbox[1].op = "tags"))
    BY <1>3 DEF ReleaseShape
  <2>5. \/ \E l \in 1..Len(inbox') : inbox'[l] = inbox[k]
        \/ k = 1 /\ (ReleaseShape \/ inbox[1].op = "tags")
        \/ k = 1 /\ \E t \in Reads : \E d : EndShape(t, d)
        \/ k = 1 /\ \E t \in Reads : \E d : \E q \in Calls : GoShape(t, d, q)
    BY ClientKeeps
  <2> QED
    BY <2>1, <2>2, <2>3, <2>4, <2>5
<1> QED
  BY <1>1, <1>2, <1>3 DEF Holds

LEMMA LockClient ==
  ASSUME TypeOK, TypeOK', ChainInv, CurrentInv, SessionInv, LockInv, ClientShapes
  PROVE  LockInv'
<1>1. UNCHANGED <<crashes, ntag, locks, last_path>>
  BY ClientKeeps DEF nfcdVars
<1>2. ASSUME crashes = 0 PROVE PathInv'
  BY <1>2, BoundsClient, TagsClient, ReadsClient DEF LockInv, PathInv
<1>3. ASSUME crashes = 0, locks # 0 PROVE locks = 1 /\ \E r \in Reads : Holds(r)'
  <2>1. npath # NULL /\ PathReads
    BY <1>3 DEF LockInv, SessionInv, npath, NULL, PathInv
  <2>2. locks = 1 /\ \E r \in Reads : Holds(r)
    BY <1>3 DEF LockInv
  <2> QED
    BY <2>1, <2>2, HoldsClient
<1> QED
  BY <1>1, <1>2, <1>3 DEF LockInv

\* Until nfcd crashes, the tag that comes into the field has a path that
\* nothing refers to, and the client hears of it last.
LEMMA LockPlaced ==
  ASSUME TypeOK, TypeOK', PathInv, PlaceTag
  PROVE  PathInv'
<1>0. /\ last_path \in Nat /\ placed \in Nat /\ Len(inbox) \in Nat /\ tag_path \in Nat
      /\ \A r \in Reads : read[r].path \in Nat
      /\ \A k \in 1..Len(reqs) : reqs[k].path \in Nat
      /\ \A k \in 1..Len(inbox) : inbox[k].path \in Nat
  <2>1. MaxTags \in Nat
    BY PassportAssumption
  <2>2. \A r \in Reads : read[r].path \in Nat
    BY <2>1, ItemTypes DEF Records
  <2>3. \A k \in 1..Len(reqs) : reqs[k].path \in Nat
    BY <2>1, ItemTypes DEF Calls
  <2>4. \A k \in 1..Len(inbox) : inbox[k].path \in Nat
    BY <2>1, ItemTypes DEF Messages
  <2> QED
    BY <2>1, <2>2, <2>3, <2>4, ItemTypes DEF TypeOK
<1>1. /\ last_path' = last_path + 1 /\ ntag' = placed + 1 /\ attached /\ up
      /\ UNCHANGED <<up, attached, reqs, read, tag_path>>
      /\ inbox' = Append(inbox, TagsMsg(last_path + 1))
  BY DEF PlaceTag, PathInv, PathBounds, Signal, clientVars
<1>2. npath' = last_path + 1 /\ npath' # NULL
  BY <1>0, <1>1 DEF npath, NULL
<1> DEFINE m == TagsMsg(last_path + 1)
<1>3. m.path = last_path + 1 /\ m \in Messages
  <2>1. last_path + 1 \in 0..MaxTags
    BY <1>1 DEF TypeOK
  <2> QED
    BY <2>1, PassportAssumption DEF TagsMsg, Messages
<1>4. Added(inbox', inbox, m)
  BY <1>1, <1>3, QueueFacts DEF TypeOK
<1> HIDE DEF m
<1>5. \A k \in 1..Len(inbox') : \/ k \in 1..Len(inbox) /\ inbox'[k] = inbox[k]
                                \/ k = Len(inbox) + 1 /\ inbox'[k] = m
  BY <1>0, <1>4, AddedFacts
<1>6. /\ tag_path <= last_path
      /\ \A r \in Reads : read[r].path <= last_path
      /\ \A k \in 1..Len(reqs) : reqs[k].path <= last_path
      /\ \A k \in 1..Len(inbox) : inbox[k].path <= last_path
  BY DEF PathInv, PathBounds
<1>7. PathBounds'
  <2>1. \A k \in 1..Len(inbox') : inbox'[k].path <= last_path + 1
    BY <1>0, <1>3, <1>5, <1>6
  <2> QED
    BY <1>0, <1>1, <1>6, <2>1 DEF PathBounds
<1>8. PathTags'
  <2>1. tag_path' # npath'
    BY <1>0, <1>1, <1>2, <1>6
  <2>2. \A k \in 1..Len(inbox') : inbox'[k].path = npath' => k = Len(inbox) + 1
    BY <1>0, <1>2, <1>5, <1>6
  <2>3. Len(inbox') = Len(inbox) + 1
    BY <1>4 DEF Added
  <2> QED
    BY <1>0, <2>1, <2>2, <2>3 DEF PathTags
<1>9. PathReads'
  <2>1. /\ \A r \in Reads : read'[r].path # npath'
        /\ \A k \in 1..Len(reqs') : reqs'[k].path # npath'
    BY <1>0, <1>1, <1>2, <1>6
  <2> QED
    BY <2>1 DEF PathReads
<1> QED
  BY <1>7, <1>8, <1>9 DEF PathInv

LEMMA LockNfcd ==
  ASSUME TypeOK, TypeOK', LockInv, Nfcd \/ TagReadDone
  PROVE  LockInv'
<1>0. Len(inbox) \in Nat /\ last_path \in Nat
  BY ItemTypes, PassportAssumption DEF TypeOK
<1>1. CASE PlaceTag
  <2>1. locks' = 0 /\ crashes' = crashes
    BY <1>1 DEF PlaceTag, LockInv
  <2>2. crashes = 0 => PathInv'
    BY <1>1, LockPlaced DEF LockInv
  <2> QED
    BY <2>1, <2>2 DEF LockInv
<1>2. CASE RemoveTag
  <2>1. /\ ntag' = NULL /\ locks' = 0
        /\ UNCHANGED <<crashes, up, attached, last_path, reqs, read, tag_path>>
        /\ inbox' = Signal(inbox, NULL)
    BY <1>2 DEF RemoveTag, clientVars
  <2>2. npath' = NULL
    BY <2>1 DEF npath
  <2>3. ASSUME crashes = 0 PROVE PathBounds'
    <3>1. PathBounds /\ inbox' = Append(inbox, TagsMsg(NULL))
      BY <2>1, <2>3 DEF LockInv, PathInv, PathBounds, Signal
    <3> DEFINE m == TagsMsg(NULL)
    <3>2. m \in Messages /\ m.path = 0
      BY PassportAssumption DEF TagsMsg, Messages, NULL
    <3>3. Added(inbox', inbox, m)
      BY <3>1, <3>2, QueueFacts DEF TypeOK
    <3> HIDE DEF m
    <3>4. \A k \in 1..Len(inbox') : (k \in 1..Len(inbox) /\ inbox'[k] = inbox[k]) \/ inbox'[k] = m
      BY <1>0, <3>3, AddedFacts
    <3>5. \A k \in 1..Len(inbox') : inbox'[k].path <= last_path
      BY <1>0, <3>1, <3>2, <3>4 DEF PathBounds
    <3> QED
      BY <2>1, <3>1, <3>5 DEF PathBounds
  <2>4. PathTags' /\ PathReads'
    BY <2>2 DEF PathTags, PathReads
  <2> QED
    BY <2>1, <2>3, <2>4 DEF LockInv, PathInv
<1>3. CASE Crash
  <2>1. ntag' = NULL /\ locks' = 0 /\ crashes' # 0
    <3>1. crashes + 1 # 0
      BY PassportAssumption DEF TypeOK
    <3> QED
      BY <1>3, <3>1 DEF Crash
  <2> QED
    BY <2>1 DEF LockInv
<1>4. CASE Restart \/ Attach
  <2>1. ~(up /\ attached) /\ UNCHANGED <<crashes, ntag, locks>>
    BY <1>4 DEF Restart, Attach, LockInv
  <2>2. crashes # 0
    BY <2>1, <1>4 DEF LockInv, PathInv, PathBounds, Restart, Attach
  <2> QED
    BY <2>1, <2>2 DEF LockInv
<1>5. CASE TagReadDone
  <2>1. UNCHANGED <<up, crashes, attached, ntag, last_path, locks, tag_path, reqs, inbox, read>>
    BY <1>5 DEF TagReadDone, nfcdVars
  <2> QED
    BY <2>1 DEF LockInv, PathInv, PathBounds, PathTags, PathReads, Live, Holds, npath
<1> QED
  BY <1>1, <1>2, <1>3, <1>4, <1>5 DEF Nfcd

\* A call of nfcd keeps PathInv: it refers to a path that is known already, and
\* the only one to tell of the tag takes it away.
LEMMA PathsServe ==
  ASSUME TypeOK, TypeOK', ChainInv, PathInv, Serve
  PROVE  PathInv'
<1> DEFINE q == reqs[1]
<1>0. /\ 1 \in 1..Len(reqs) /\ Len(reqs') \in Nat /\ Len(inbox) \in Nat
      /\ UNCHANGED <<up, attached, last_path, tag_path, read>>
      /\ \A k \in 1..Len(reqs') : k + 1 \in 1..Len(reqs) /\ reqs'[k] = reqs[k + 1]
      /\ 0 <= last_path
  <2>1. 0 <= last_path
    BY PassportAssumption DEF TypeOK
  <2> QED
    BY <2>1, ServeKeeps, ItemTypes
<1>1. \/ ServeProxy(q) \/ ServeAcquire(q) \/ ServeApdu(q)
      \/ ServeRelease(q) \/ ServeDeactivate(q)
  BY ServeKeeps DEF Serve
<1>2. \/ npath' = NULL
      \/ npath' = npath /\ (q.op = "deactivate" => inbox' = inbox)
  <2>1. "deactivate" \notin ApduOps
    BY OpFacts
  <2> QED
    BY <1>0, <1>1, <2>1 DEF ServeProxy, ServeAcquire, ServeApdu, ServeRelease, ServeDeactivate,
       npath, NULL
<1>3. inbox' = inbox \/ \E m \in Messages : Reply(q, m) /\ Added(inbox', inbox, m)
  BY ServeIsShape DEF ServeShape
<1> HIDE DEF q
<1>4. \A m : Reply(q, m) => /\ m.path \in {q.path, 0}
                            /\ m.op = "tags" => q.op = "deactivate"
  BY OpFacts DEF Reply, TagsMsg, NULL
<1>5. \A k \in 1..Len(inbox') :
        \/ k \in 1..Len(inbox) /\ inbox'[k] = inbox[k]
        \/ /\ inbox' # inbox /\ inbox'[k].path \in {q.path, 0}
           /\ inbox'[k].op = "tags" => q.op = "deactivate"
  <2>1. CASE inbox' = inbox
    BY <2>1
  <2>2. ASSUME NEW m \in Messages, Reply(q, m), Added(inbox', inbox, m)
        PROVE  \A k \in 1..Len(inbox') : (k \in 1..Len(inbox) /\ inbox'[k] = inbox[k]) \/ inbox'[k] = m
    BY <1>0, <2>2, AddedFacts
  <2>3. ASSUME NEW m, Added(inbox', inbox, m) PROVE inbox' # inbox
    BY <1>0, <2>3 DEF Added
  <2> QED
    BY <1>3, <1>4, <2>1, <2>2, <2>3
<1>6. PathBounds'
  <2>1. q.path <= last_path
    BY <1>0 DEF PathInv, PathBounds, q
  <2>2. \A k \in 1..Len(inbox') : inbox'[k].path <= last_path
    BY <1>0, <1>5, <2>1 DEF PathInv, PathBounds
  <2> QED
    BY <1>0, <2>2 DEF PathInv, PathBounds
<1>7. CASE npath' = NULL
  BY <1>6, <1>7 DEF PathInv, PathTags, PathReads
<1>8. CASE npath' # NULL
  <2>1. npath' = npath /\ \A k \in 1..Len(inbox') : inbox'[k].op = "tags" =>
                             k \in 1..Len(inbox) /\ inbox'[k] = inbox[k]
    BY <1>2, <1>5, <1>8
  <2>2. PathTags'
    BY <1>0, <1>8, <2>1 DEF PathInv, PathTags
  <2>3. PathReads'
    BY <1>0, <1>8, <2>1 DEF PathInv, PathReads, Live
  <2> QED
    BY <1>6, <2>2, <2>3 DEF PathInv
<1> QED
  BY <1>7, <1>8

\* When an Acquire() reaches the tag in the field, nobody has the tag: its read
\* is the current one, and those before it are done with the tag.
LEMMA NoneHolds ==
  ASSUME TypeOK, ChainInv, CurrentInv, OrderInv, PathInv, npath # NULL,
         1 \in 1..Len(reqs), reqs[1].op = "acquire", reqs[1].path = npath,
         NEW r \in Reads
  PROVE  ~Holds(r)
<1>1. PICK s \in Reads : s = reqs[1].id
  BY ItemTypes
<1>2. read[s].stage = "acquire" /\ ~read[s].cancelled
  BY <1>1 DEF PathInv, PathReads
<1>3. s = passport_reading /\ passport_reading # NULL /\ Live(s)
  BY <1>2, OneReadParts, ItemTypes DEF CurrentInv, Live, NULL
<1>4. r \in Nat /\ s \in Nat /\ "acquire" \in ChainOps /\ "acquire" \notin ApduOps
  BY ItemTypes, OpFacts DEF EarlyOps
<1>5. ASSUME r < s PROVE Behind(r, s)
  BY <1>5 DEF OrderInv
<1>6. ~read[r].acquired
  <2> SUFFICES ASSUME read[r].acquired PROVE FALSE
    OBVIOUS
  <2>1. read[r].stage \in ApduOps
    BY DEF ChainInv, RecordOK
  <2>2. Live(r) /\ r # s
    BY <1>2, <1>4, <2>1, OpFacts DEF Live
  <2>3. r < s
    BY <1>3, <1>4, <2>2 DEF CurrentInv
  <2> QED
    BY <1>1, <1>5, <2>2, <2>3 DEF Behind, BehindRun
<1>7. ASSUME NEW i \in 1..Len(reqs), reqs[i].id = r, reqs[i].op = "release" PROVE FALSE
  <2>1. read[r].stage = "done"
    <3>1. "release" \notin ChainOps
      BY OpFacts
    <3> QED
      BY <1>7, <3>1 DEF ChainInv, CallOK
  <2>2. r < s
    BY <1>2, <1>3, <1>4, <1>7, <2>1 DEF CurrentInv
  <2>3. 1 > i
    BY <1>1, <1>5, <1>7, <2>2 DEF Behind, BehindRelease
  <2> QED
    BY <2>3
<1>8. ASSUME NEW k \in 1..Len(inbox), inbox[k].id = r, inbox[k].path = npath,
             inbox[k].op = "acquire"
      PROVE  FALSE
  <2>1. r # s
    BY <1>1, <1>2, <1>4, <1>8 DEF ChainInv, Distinct
  <2>2. read[r].stage = "acquire" /\ read[r].path = npath
    <3>1. r # 0
      BY ItemTypes
    <3> QED
      BY <1>8, <3>1 DEF ChainInv, MessageOK
  <2>3. Live(r) /\ read[r].cancelled
    BY <1>3, <2>1, <2>2, OneReadParts DEF CurrentInv, Live
  <2> QED
    BY <2>2, <2>3 DEF PathInv, PathReads
<1> QED
  BY <1>6, <1>7, <1>8 DEF Holds

LEMMA HoldsServe ==
  ASSUME TypeOK, ChainInv, Serve, npath' = npath, NEW r \in Reads, Holds(r),
         reqs[1].path = npath => reqs[1].op # "release"
  PROVE  Holds(r)'
<1>1. CASE read[r].acquired /\ read[r].path = npath
  BY <1>1, ServeKeeps DEF Holds
<1>2. ASSUME NEW k \in 1..Len(reqs), reqs[k].id = r, reqs[k].path = npath,
             reqs[k].op = "release"
      PROVE  Holds(r)'
  <2>1. k # 1
    BY <1>2
  <2>2. k - 1 \in 1..Len(reqs') /\ reqs'[k - 1] = reqs[k]
    BY <2>1, ServeKeeps
  <2> QED
    BY <1>2, <2>2 DEF Holds
<1>3. ASSUME NEW k \in 1..Len(inbox), inbox[k].id = r, inbox[k].path = npath,
             inbox[k].op = "acquire", inbox[k].res = "ok"
      PROVE  Holds(r)'
  <2>1. k \in 1..Len(inbox') /\ inbox'[k] = inbox[k]
    BY ServeKeeps
  <2> QED
    BY <1>3, <2>1 DEF Holds
<1> QED
  BY <1>1, <1>2, <1>3 DEF Holds

\* An Acquire() granted while nobody has the tag is the only lock, and its read
\* waits for the answer.
LEMMA GrantServe ==
  ASSUME TypeOK, TypeOK', ChainInv, CurrentInv, OrderInv, LockInv, Serve, crashes = 0,
         ServeAcquire(reqs[1]), locks' # locks
  PROVE  locks' = 1 /\ \E r \in Reads : Holds(r)'
<1> DEFINE q == reqs[1]
           m == Answer(q, "ok", 0)
<1>1. /\ 1 \in 1..Len(reqs) /\ read' = read /\ last_path' = last_path /\ Len(inbox) \in Nat
      /\ q \in Calls /\ q.id \in Reads
  BY ServeKeeps, ItemTypes
<1>2. /\ Reaches(q) /\ locks' = locks + 1 /\ q.op = "acquire" /\ ntag' = ntag
      /\ inbox' = IF Awaited(q) THEN Append(inbox, m) ELSE inbox
  BY DEF ServeAcquire
<1>3. npath # NULL /\ q.path = npath /\ npath' = npath
  BY <1>1, <1>2 DEF Reaches, npath
<1>4. locks = 0
  BY <1>1, <1>2, <1>3, NoneHolds DEF LockInv
<1>5. Awaited(q)
  BY <1>1, <1>2, <1>3 DEF LockInv, PathInv, PathReads, Awaited
<1>6. m \in Messages /\ m.id = q.id /\ m.path = npath /\ m.op = "acquire" /\ m.res = "ok"
  <2>1. "acquire" \in ChainOps /\ "acquire" \notin RestOps
    BY OpFacts DEF EarlyOps, RestOps
  <2>2. m \in Messages
    BY <1>1, <1>2, <1>5, <2>1, RefuseFacts
  <2> QED
    BY <1>2, <1>3, <2>2 DEF Answer
<1> HIDE DEF m
<1>7. Added(inbox', inbox, m)
  BY <1>2, <1>5, <1>6, QueueFacts DEF TypeOK
<1>8. Len(inbox) + 1 \in 1..Len(inbox') /\ inbox'[Len(inbox) + 1] = m
  BY <1>1, <1>7, AddedFacts
<1> HIDE DEF q
<1>9. ASSUME NEW r \in Reads, r = q.id PROVE Holds(r)'
  BY <1>3, <1>6, <1>8, <1>9 DEF Holds
<1> QED
  BY <1>1, <1>2, <1>4, <1>9

LEMMA LockServe ==
  ASSUME TypeOK, TypeOK', ChainInv, CurrentInv, OrderInv, SessionInv, LockInv, Serve
  PROVE  LockInv'
<1> DEFINE q == reqs[1]
<1>1. /\ 1 \in 1..Len(reqs) /\ UNCHANGED <<up, crashes, attached, last_path, tag_path, read>>
  BY ServeKeeps
<1>2. \/ ServeProxy(q) \/ ServeAcquire(q) \/ ServeApdu(q)
      \/ ServeRelease(q) \/ ServeDeactivate(q)
  BY ServeKeeps DEF Serve
<1>3. crashes = 0 => PathInv'
  BY PathsServe DEF LockInv
\* The locks and the tag as they are, and no Release() of it.
<1>4. ASSUME UNCHANGED <<ntag, locks>>, crashes = 0, locks # 0,
             q.path = npath => q.op # "release"
      PROVE  locks' = 1 /\ \E r \in Reads : Holds(r)'
  <2>1. npath' = npath
    BY <1>1, <1>4 DEF npath
  <2>2. locks = 1 /\ \E r \in Reads : Holds(r)
    BY <1>4 DEF LockInv
  <2> QED
    BY <1>4, <2>1, <2>2, HoldsServe
<1> HIDE DEF q
<1>5. CASE ServeProxy(q) \/ ServeApdu(q)
  <2>1. UNCHANGED <<ntag, locks>> /\ q.op # "release"
    BY <1>5, OpFacts DEF ServeProxy, ServeApdu
  <2> QED
    BY <1>1, <1>3, <1>4, <2>1 DEF LockInv
<1>6. CASE ServeAcquire(q)
  <2>1. ntag' = ntag /\ q.op # "release"
    BY <1>6 DEF ServeAcquire
  <2>2. CASE locks' = locks
    BY <1>1, <1>3, <1>4, <2>1, <2>2 DEF LockInv
  <2>3. CASE locks' # locks
    <3>1. ntag # NULL
      BY <1>6, <2>3 DEF ServeAcquire, Reaches, npath
    <3>2. crashes = 0 => locks' = 1 /\ \E r \in Reads : Holds(r)'
      BY <1>6, <2>3, GrantServe DEF q
    <3> QED
      BY <1>1, <1>3, <2>1, <3>1, <3>2 DEF LockInv
  <2> QED
    BY <2>2, <2>3
<1>7. CASE ServeRelease(q)
  <2>1. ntag' = ntag /\ locks' = IF Reaches(q) /\ locks > 0 THEN locks - 1 ELSE locks
    BY <1>7 DEF ServeRelease
  <2>2. ntag = NULL => locks' = 0
    BY <2>1 DEF LockInv, Reaches, npath
  <2>3. ASSUME crashes = 0, locks' # 0 PROVE locks' = 1 /\ \E r \in Reads : Holds(r)'
    <3>1. locks \in Nat /\ locks # 0
      BY <2>1, <2>3 DEF TypeOK
    <3>2. locks = 1
      BY <2>3, <3>1 DEF LockInv
    <3>3. ~Reaches(q) /\ locks' = locks
      BY <2>1, <2>3, <3>2
    <3>4. ntag # NULL /\ up /\ npath # NULL
      BY <3>1 DEF LockInv, SessionInv, npath, NULL
    <3>5. q.path # npath
      BY <3>3, <3>4 DEF Reaches
    <3> QED
      BY <1>4, <2>1, <2>3, <3>1, <3>3, <3>5
  <2> QED
    BY <1>1, <1>3, <2>1, <2>2, <2>3 DEF LockInv
<1>8. CASE ServeDeactivate(q)
  <2>1. CASE Reaches(q)
    <3>1. ntag' = NULL /\ locks' = 0
      BY <1>8, <2>1 DEF ServeDeactivate
    <3> QED
      BY <1>1, <1>3, <3>1 DEF LockInv
  <2>2. CASE ~Reaches(q)
    <3>1. UNCHANGED <<ntag, locks>> /\ q.op # "release"
      BY <1>8, <2>2 DEF ServeDeactivate
    <3> QED
      BY <1>1, <1>3, <1>4, <3>1 DEF LockInv
  <2> QED
    BY <2>1, <2>2
<1> QED
  BY <1>2, <1>5, <1>6, <1>7, <1>8

-----------------------------------------------------------------------------
(* The theorems.                                                           *)

PassportInv == ReadInv /\ OrderInv /\ SessionInv /\ LockInv

LEMMA PassportInit == Init => PassportInv
<1> SUFFICES ASSUME Init PROVE PassportInv
  OBVIOUS
<1>1. /\ up /\ attached /\ ntag = NULL /\ last_path = 0 /\ locks = 0 /\ session = NULL
      /\ Len(reqs) = 0 /\ Len(inbox) = 0 /\ tag_path = 0
      /\ \A r \in Reads : read[r] = NoRead
  BY DEF Init, NULL
<1>2. \A r \in Reads : read[r].stage = "idle" /\ ~read[r].acquired /\ read[r].path = 0
  BY <1>1, NoReadFacts DEF NULL
<1>3. OrderInv
  <2>1. \A r, s \in Reads : Behind(r, s)
    BY <1>1, <1>2 DEF Behind, BehindRun, BehindRelease, BehindAnswer, BehindDeactivate, Live
  <2> QED
    BY <1>1, <2>1 DEF OrderInv, CommandOK, ApduOrder
<1>4. SessionInv
  BY <1>1 DEF SessionInv
<1>5. LockInv
  <2>1. npath = NULL
    BY <1>1 DEF npath
  <2>2. PathInv
    BY <1>1, <1>2, <2>1 DEF PathInv, PathBounds, PathTags, PathReads
  <2> QED
    BY <1>1, <2>2 DEF LockInv
<1> QED
  BY <1>3, <1>4, <1>5, ReadInit DEF PassportInv

LEMMA PassportStep ==
  ASSUME PassportInv, [Next]_vars
  PROVE  PassportInv'
<1>0. /\ ReadInv /\ OrderInv /\ SessionInv /\ LockInv
      /\ TypeInv /\ TypeOK /\ ChainInv /\ CurrentInv /\ OneReadAtATime
  BY DEF PassportInv, ReadInv, TypeInv, CurrentInv
<1>1. ReadInv' /\ TypeOK'
  BY <1>0, ReadStep DEF ReadInv, TypeInv
<1>2. CASE Next
  <2>1. Shapes /\ (Nfcd \/ TagReadDone \/ Serve \/ ClientShapes)
    BY <1>0, <1>2, StepsAreShapes
  <2>2. OrderInv'
    BY <1>0, <1>1, <2>1, OrderStep
  <2>3. CASE Nfcd \/ TagReadDone
    BY <1>0, <1>1, <2>2, <2>3, SessionNfcd, LockNfcd DEF PassportInv
  <2>4. CASE Serve
    BY <1>0, <1>1, <2>2, <2>4, SessionServe, LockServe DEF PassportInv
  <2>5. CASE ClientShapes
    BY <1>0, <1>1, <2>2, <2>5, SessionClient, LockClient DEF PassportInv
  <2> QED
    BY <2>1, <2>3, <2>4, <2>5
<1>3. CASE UNCHANGED vars
  <2>1. UNCHANGED <<up, crashes, attached, ntag, last_path, locks, session, tag_path,
                    reqs, inbox, passport_reading, nreads, read>>
    BY <1>3 DEF vars, nfcdVars, clientVars
  <2>2. OrderInv'
    BY <1>0, <2>1 DEF OrderInv, Behind, BehindRun, BehindRelease, BehindAnswer,
       BehindDeactivate, Early, Live, CommandOK, ApduOrder
  <2>3. SessionInv'
    BY <1>0, <2>1 DEF SessionInv, Leaving, npath
  <2>4. LockInv'
    BY <1>0, <2>1 DEF LockInv, PathInv, PathBounds, PathTags, PathReads, Live, Holds, npath
  <2> QED
    BY <1>1, <2>2, <2>3, <2>4 DEF PassportInv
<1> QED
  BY <1>2, <1>3

\* The invariant holds in every state.
THEOREM SessionInvariant == Spec => []PassportInv
<1>1. PassportInv /\ [Next]_vars => PassportInv'
  BY PassportStep
<1> QED
  BY PassportInit, <1>1, PTL DEF Spec

LEMMA SessionKept ==
  ASSUME PassportInv, [Next]_vars, session # NULL
  PROVE  session' \in {NULL, session}
<1>0. /\ OrderInv /\ SessionInv /\ TypeInv /\ TypeOK /\ ChainInv /\ OneReadAtATime
  BY DEF PassportInv, ReadInv, TypeInv, CurrentInv
<1>1. CASE UNCHANGED vars
  BY <1>1 DEF vars, nfcdVars
<1>2. CASE Next
  <2>1. Nfcd \/ TagReadDone \/ Serve \/ ClientShapes
    BY <1>0, <1>2, StepsAreShapes
  <2>2. CASE Nfcd \/ TagReadDone
    BY <2>2 DEF Nfcd, PlaceTag, RemoveTag, Crash, Restart, Attach, TagReadDone, nfcdVars
  <2>3. CASE ClientShapes
    BY <2>3 DEF ClientShapes, ReleaseShape, EndShape, RefuseShape, AbortShape, GoShape,
       StartShape, TagShape, nfcdVars
  <2>4. CASE Serve
    <3> DEFINE q == reqs[1]
    <3>1. 1 \in 1..Len(reqs) /\ \/ ServeProxy(q) \/ ServeAcquire(q) \/ ServeApdu(q)
                                \/ ServeRelease(q) \/ ServeDeactivate(q)
      BY <1>0, <2>4, ServeKeeps DEF Serve
    <3>2. ServeApdu(q) => q.id = session
      BY <1>0, <3>1, NoOtherSession DEF ServeApdu
    <3> QED
      BY <3>1, <3>2 DEF ServeProxy, ServeAcquire, ServeApdu, ServeRelease, ServeDeactivate
  <2> QED
    BY <2>1, <2>2, <2>3, <2>4
<1> QED
  BY <1>1, <1>2

\* "the next read starts from a genuine fresh poll/select instead of a stale,
\* already-used session" (comment in passport_release_ready()): for any number
\* of reads, documents and crashes, no command of one read reaches a chip that
\* has had the handshake of another since its activation.
THEOREM SessionsAreFresh == Spec => FreshSession
<1>1. PassportInv /\ [Next]_vars => [session # NULL => session' \in {NULL, session}]_vars
  BY SessionKept
<1> QED
  BY <1>1, SessionInvariant, PTL DEF Spec, FreshSession

\* "an already-aborted read must still release the tag it acquired" (comment in
\* passport_read_finish()): until nfcd crashes, a tag that is acquired has
\* a read that runs, a Release() on its way, or an answer that will make one.
THEOREM LocksGivenBack == Spec => []TagGivenBack
<1>1. PassportInv => TagGivenBack
  <2> SUFFICES ASSUME PassportInv, crashes = 0, reqs = <<>>, inbox = <<>>,
                      \A r \in Reads : ~Live(r), locks # 0
               PROVE  FALSE
    BY DEF TagGivenBack
  <2>1. PICK r \in Reads : Holds(r)
    BY DEF PassportInv, LockInv
  <2>2. read[r].acquired
    <3>1. Len(reqs) = 0 /\ Len(inbox) = 0
      OBVIOUS
    <3> QED
      BY <2>1, <3>1 DEF Holds
  <2>3. Live(r)
    BY <2>2, OpFacts DEF PassportInv, ReadInv, ChainInv, RecordOK, Live
  <2> QED
    BY <2>3
<1> QED
  BY <1>1, SessionInvariant, PTL
=============================================================================
