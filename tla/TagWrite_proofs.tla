--------------------------- MODULE TagWrite_proofs ---------------------------
(***************************************************************************)
(* What TagWrite checks on two requests, two tags and one crash of nfcd,   *)
(* proved for any number of each: success means written (SuccessIsWritten),*)
(* a write reaches only the tag its request has acquired until nfcd        *)
(* crashes (WritesAreExclusive), no lock outlives its request              *)
(* (LocksAreReturned), and the chains implement WriteContract              *)
(* (KeepsContract).                                                        *)
(*                                                                         *)
(* The inductive invariant WriteInv says where every chain stands on the   *)
(* bus.  The proof reduces the eleven handlers, the three functions that   *)
(* start a chain and nfcd's answers to three step shapes (HandlerStep,     *)
(* StartStep, ServeStep) and shows each part of the invariant for these,   *)
(* for a change of the tag and for a crash.                                *)
(***************************************************************************)
EXTENDS TagWrite, QueueLemmas, FiniteSetTheorems

\* The calls that change a tag.

WriteOps == {"write_data", "lock_write"}

\* Stages before which nothing of a request can have reached a tag.
Late == {"write_data", "lock_write", "release", "done"}

\* Calls that are made on the tag a request has acquired.
AfterAcquire == {"type2_proxy", "write_data", "lock_read", "lock_write"}

\* Stages in which a request may hold the tag.
Locked == AfterAcquire \union {"acquire", "release"}

\* All that request r is to write is on a tag.
Done(r) == r.hit # NULL /\ r.whole

-----------------------------------------------------------------------------
(* The invariant, in four parts.                                           *)

\* nfcd hands out one path for each tag, at most.
TypeInv == TypeOK /\ last_path <= placed

\* What struct write_req or struct lock_req says at each stage.
RequestOK(r) ==
  /\ r.stage \notin Late => r.hit = NULL
  /\ r.stage \in {"idle", "tag_proxy"} => r.acq = NULL
  /\ r.reply = "none" <=> r.stage # "done"
  /\ r.stage = "release" /\ r.ok => Done(r)
  /\ r.reply = "success" => Done(r)
  /\ r.stage \notin {"idle", "done"} => r.path # NULL

\* A call q that nfcd has not answered belongs to its request r.
CallOK(q, r) ==
  /\ q.op = r.stage /\ q.path # NULL
  /\ q.op \in WriteOps => r.hit = NULL
  /\ q.op = "acquire" => r.acq = NULL
  /\ q.op \in {"acquire", "release"} => q.path = r.path

\* So does an answer m that the main loop has not dispatched.
AnswerOK(m, r) ==
  /\ m.op = r.stage
  /\ m.op \in WriteOps /\ m.res = "ok" => Done(r)
  /\ m.op = "acquire" /\ m.res # "ok" => r.acq = NULL

\* A message of the inbox is a change of the tag (id 0) or such an answer.
MessageOK(m) ==
  /\ m.id = 0 <=> m.op = "tags"
  /\ m.id # 0 => AnswerOK(m, req[m.id])

\* No request has two messages in queue s, or one in s and one in t.
Distinct(s) ==
  \A k, l \in 1..Len(s) : s[k].id = s[l].id /\ s[k].id # 0 => k = l
Apart(s, t) == \A k \in 1..Len(s), l \in 1..Len(t) : s[k].id # t[l].id

\* Every chain has at most one call or answer on the bus, the one its stage
\* waits for.
ChainInv ==
  /\ \A i \in Ids : RequestOK(req[i])
  /\ \A k \in 1..Len(reqs) : CallOK(reqs[k], req[reqs[k].id])
  /\ \A k \in 1..Len(inbox) : MessageOK(inbox[k])
  /\ Distinct(reqs) /\ Distinct(inbox) /\ Apart(reqs, inbox)

\* client->tag_path will be p once the first n messages of the inbox have
\* been handled.
View(n, p) ==
  \/ \E j \in 1..n : /\ inbox[j].op = "tags" /\ inbox[j].path = p
                     /\ \A k \in j + 1..n : inbox[k].op # "tags"
  \/ tag_path = p /\ \A k \in 1..n : inbox[k].op # "tags"

\* When an Acquire() that was granted is dispatched, client->tag_path is the
\* path it was granted on.
PathOK(k) ==
  /\ inbox[k].op \in AfterAcquire => inbox[k].path = req[inbox[k].id].acq
  /\ inbox[k].op = "acquire" /\ inbox[k].res = "ok" =>
       /\ req[inbox[k].id].acq = inbox[k].path
       /\ View(k - 1, inbox[k].path)

\* Every later call of a chain is made on the tag it has acquired.
AcquiredPaths ==
  /\ \A k \in 1..Len(reqs) :
       reqs[k].op \in AfterAcquire => reqs[k].path = req[reqs[k].id].acq
  /\ \A k \in 1..Len(inbox) : PathOK(k)
  /\ \A i \in Ids : req[i].hit # NULL => req[i].hit = req[i].acq

\* In its first run, nfcd's paths are the turns of the tags.
FirstNfcd == up /\ attached /\ last_path = placed /\ ntag \in {NULL, placed}

FirstRunInv == crashes = 0 => FirstNfcd /\ View(Len(inbox), npath) /\ AcquiredPaths

\* Requests whose Release() nfcd has not seen, though they hold the tag.
Released(i) == \E k \in 1..Len(inbox) : inbox[k].id = i /\ inbox[k].op = "release"
Holding(i) == req[i].stage \in Locked /\ ~Released(i)
Holders == {i \in Ids : ntag # NULL /\ req[i].acq = ntag /\ Holding(i)}

\* A request that holds the tag in the field will release that tag's path.
TagsHeld ==
  /\ ntag <= placed /\ (up \/ ntag = NULL)
  /\ \A i \in Ids : /\ req[i].acq <= placed
                    /\ ntag # NULL /\ req[i].acq = ntag => req[i].path = last_path

\* Every lock nfcd counts is that of a chain that will give it back.
LockInv == TagsHeld /\ locks <= Cardinality(Holders)

WriteInv == TypeInv /\ ChainInv /\ FirstRunInv /\ LockInv

-----------------------------------------------------------------------------
(* The chains: every answer that is dispatched makes its request go on.    *)

\* Request i goes on as r, perhaps with a call.
Advance(i, r) ==
  /\ r \in Requests /\ RequestOK(r)
  /\ req' = [req EXCEPT ![i] = r]
  /\ \/ reqs' = reqs
     \/ \E q \in Calls : q.id = i /\ CallOK(q, r) /\ reqs' = Append(reqs, q)

\* The queues.
QueueType == reqs \in Seq(Calls) /\ inbox \in Seq(Messages) /\ req \in [Ids -> Requests]

\* The chains stay in order when request i, with nothing on the bus, goes on.
LEMMA AdvanceChain ==
  ASSUME QueueType, QueueType', ChainInv, NEW i \in Ids, NEW r, Advance(i, r),
         \A k \in 1..Len(reqs) : reqs[k].id # i,
         \A k \in 1..Len(inbox') : MessageOK(inbox'[k]) /\ inbox'[k].id # i,
         Distinct(inbox'), Apart(reqs, inbox')
  PROVE  ChainInv'
<1>1. /\ \A j \in Ids : req'[j] = IF j = i THEN r ELSE req[j]
      /\ RequestOK(r)
  BY DEF Advance, QueueType
<1>2. \A j \in Ids : RequestOK(req'[j])
  BY <1>1 DEF ChainInv, MessageOK
<1>3. \A k \in 1..Len(reqs) : reqs[k].id \in Ids
  <2>1. \A k \in 1..Len(reqs) : reqs[k] \in Calls
    BY ElementOfSeq DEF QueueType
  <2> QED
    BY <2>1 DEF Calls
<1>4. ASSUME NEW k \in 1..Len(inbox')
      PROVE  MessageOK(inbox[k])'
  <2>1. inbox'[k] \in Messages
    BY ElementOfSeq DEF QueueType
  <2>2. inbox'[k].id # 0 => inbox'[k].id \in Ids
    BY <2>1, WriteAssumption DEF Messages, Ids
  <2> QED
    BY <1>1, <2>2 DEF MessageOK
<1>5. ASSUME reqs' = reqs
      PROVE  ChainInv'
  BY <1>1, <1>2, <1>3, <1>4, <1>5 DEF ChainInv, MessageOK
<1>6. ASSUME NEW q \in Calls, q.id = i, CallOK(q, r), reqs' = Append(reqs, q)
      PROVE  ChainInv'
  <2>1. /\ Len(reqs) \in Nat /\ Len(reqs') = Len(reqs) + 1 /\ reqs'[Len(reqs) + 1] = q
        /\ \A k \in 1..Len(reqs) : reqs'[k] = reqs[k]
    BY <1>6, Appended DEF QueueType
  <2>2. \A k \in 1..Len(reqs') : k \in 1..Len(reqs) \/ k = Len(reqs) + 1
    BY <2>1
  <2>3. \A k \in 1..Len(reqs') : CallOK(reqs'[k], req'[reqs'[k].id])
    BY <1>1, <1>3, <1>6, <2>1, <2>2 DEF ChainInv, MessageOK
  <2>4. Distinct(reqs')
    BY <1>6, <2>1, <2>2 DEF ChainInv, MessageOK, Distinct
  <2>5. Apart(reqs', inbox')
    BY <1>6, <2>1, <2>2 DEF Apart
  <2> QED
    BY <1>2, <1>4, <2>3, <2>4, <2>5 DEF ChainInv, MessageOK
<1> QED
  BY <1>5, <1>6 DEF Advance

\* The queue without its head has what it had.
LEMMA TakenChain ==
  ASSUME QueueType, ChainInv, inbox # <<>>, inbox' = Tail(inbox)
  PROVE  /\ \A k \in 1..Len(inbox') :
              MessageOK(inbox'[k]) /\ (inbox'[k].id # 0 => inbox'[k].id # Head(inbox).id)
         /\ Distinct(inbox') /\ Apart(reqs, inbox')
<1>1. /\ Head(inbox) = inbox[1] /\ Len(inbox) \in Nat \ {0}
      /\ Len(inbox') = Len(inbox) - 1
      /\ \A k \in 1..Len(inbox) - 1 : inbox'[k] = inbox[k + 1]
  BY Taken DEF QueueType
<1>2. \A k \in 1..Len(inbox') :
        k + 1 \in 1..Len(inbox) /\ inbox'[k] = inbox[k + 1] /\ k + 1 # 1
  BY <1>1
<1>3. 1 \in 1..Len(inbox)
  BY <1>1
<1>4. Distinct(inbox')
  <2>1. ASSUME NEW k \in 1..Len(inbox'), NEW l \in 1..Len(inbox'),
               inbox'[k].id = inbox'[l].id, inbox'[k].id # 0
        PROVE  k = l
    <3>1. k + 1 = l + 1
      BY <1>2, <2>1 DEF ChainInv, MessageOK, Distinct
    <3> QED
      BY <3>1
  <2> QED
    BY <2>1 DEF Distinct
<1>5. Apart(reqs, inbox')
  BY <1>2 DEF ChainInv, MessageOK, Apart
<1>6. \A k \in 1..Len(inbox') : inbox'[k].id # 0 => inbox'[k].id # Head(inbox).id
  BY <1>1, <1>2, <1>3 DEF ChainInv, MessageOK, Distinct
<1> QED
  BY <1>2, <1>4, <1>5, <1>6 DEF ChainInv, MessageOK

\* The answer to a call of request i lets it go on as r.
HandlerStep(i, r) ==
  /\ inbox # <<>> /\ Head(inbox).id = i /\ inbox' = Tail(inbox)
  /\ UNCHANGED <<nfcdVars, clientVars>>
  /\ Advance(i, r)
  /\ r.path = req[i].path /\ r.acq = req[i].acq /\ r.hit = req[i].hit
  /\ r.whole = req[i].whole /\ r.stage # "idle"
  /\ \A q \in Calls : reqs' = Append(reqs, q) =>
       /\ q.op = "type2_proxy" =>
            Head(inbox).op = "acquire" /\ Head(inbox).res = "ok" /\ q.path = tag_path
       /\ q.op \in AfterAcquire \ {"type2_proxy"} =>
            Head(inbox).op \in AfterAcquire /\ q.path = Head(inbox).path
  /\ r.stage = "done" => Head(inbox).op = "release" \/ r.acq = NULL

\* A handler keeps the chains in order.
LEMMA HandlerChain ==
  ASSUME QueueType, QueueType', ChainInv, NEW i \in Ids, NEW r, HandlerStep(i, r)
  PROVE  ChainInv'
<1>1. /\ \A k \in 1..Len(inbox') :
           MessageOK(inbox'[k]) /\ (inbox'[k].id # 0 => inbox'[k].id # Head(inbox).id)
      /\ Distinct(inbox') /\ Apart(reqs, inbox')
  BY TakenChain DEF HandlerStep
<1>2. Head(inbox) = inbox[1] /\ 1 \in 1..Len(inbox)
  BY Taken DEF QueueType, HandlerStep
<1>3. \A k \in 1..Len(reqs) : reqs[k].id # i
  BY <1>2 DEF ChainInv, MessageOK, Apart, HandlerStep
<1>4. i # 0
  BY WriteAssumption DEF Ids
<1>5. \A k \in 1..Len(inbox') : MessageOK(inbox'[k]) /\ inbox'[k].id # i
  BY <1>1, <1>4 DEF HandlerStep
<1>6. Advance(i, r) /\ Distinct(inbox') /\ Apart(reqs, inbox')
  BY <1>1 DEF HandlerStep
<1> QED
  BY <1>3, <1>5, <1>6, AdvanceChain

\* The call at the end of the queue is the one that was put there.
LEMMA AppendedCall ==
  ASSUME QueueType, NEW q \in Calls, NEW p \in Calls, Append(reqs, q) = Append(reqs, p)
  PROVE  p = q
BY AppendInjective DEF QueueType

\* Sends with a path puts a call.
LEMMA SendAdvances ==
  ASSUME QueueType, NEW i \in Ids, NEW op \in Ops, NEW path \in 0..MaxTags,
         NEW r \in Requests, Send(i, op, path, r),
         RequestOK([r EXCEPT !.stage = op]),
         path # NULL => CallOK([id |-> i, op |-> op, path |-> path], [r EXCEPT !.stage = op])
  PROVE  /\ Advance(i, [r EXCEPT !.stage = op])
         /\ \A q \in Calls : reqs' = Append(reqs, q) => q.op = op /\ q.path = path
<1> DEFINE c == [id |-> i, op |-> op, path |-> path]
           n == [r EXCEPT !.stage = op]
<1>1. c \in Calls /\ n \in Requests /\ c.op = op /\ c.path = path /\ c.id = i
  BY DEF Calls, Requests
<1>2. req' = [req EXCEPT ![i] = n] /\ reqs' = IF path = NULL THEN reqs ELSE Append(reqs, c)
  BY DEF Send
<1> HIDE DEF c, n
<1>3. Advance(i, n)
  BY <1>1, <1>2 DEF Advance, c, n
<1>4. ASSUME NEW q \in Calls, reqs' = Append(reqs, q)
      PROVE  q = c
  <2>1. reqs' # reqs
    <3>1. Len(Append(reqs, q)) = Len(reqs) + 1 /\ Len(reqs) \in Nat
      BY Appended DEF QueueType
    <3> QED
      BY <1>4, <3>1
  <2> QED
    BY <1>1, <1>2, <1>4, <2>1, AppendedCall
<1> QED
  BY <1>1, <1>3, <1>4 DEF n

\* write_req_finish() and lock_req_finish() end the chain of request i.
LEMMA FinishAdvances ==
  ASSUME QueueType, NEW i \in Ids, NEW r \in Requests, NEW success \in BOOLEAN,
         req_finish(i, r, success), success => Done(r)
  PROVE  \E n \in Requests :
           /\ Advance(i, n)
           /\ n.path = r.path /\ n.acq = r.acq /\ n.hit = r.hit /\ n.whole = r.whole
           /\ n.stage = "done" /\ \A q \in Calls : reqs' # Append(reqs, q)
<1> DEFINE n == [r EXCEPT !.stage = "done",
                          !.reply = IF success THEN "success" ELSE "error"]
<1>1. /\ n \in Requests /\ n.path = r.path /\ n.acq = r.acq /\ n.hit = r.hit
      /\ n.whole = r.whole /\ n.stage = "done"
      /\ n.reply = IF success THEN "success" ELSE "error"
  BY DEF Requests
<1>2. req' = [req EXCEPT ![i] = n] /\ reqs' = reqs
  BY DEF req_finish
<1> HIDE DEF n
<1>3. RequestOK(n)
  BY <1>1 DEF RequestOK, Late, Done
<1>4. ASSUME NEW q \in Calls
      PROVE  Append(reqs, q) # reqs
  <2>1. Len(Append(reqs, q)) = Len(reqs) + 1 /\ Len(reqs) \in Nat
    BY Appended DEF QueueType
  <2> QED
    BY <2>1
<1> QED
  BY <1>1, <1>2, <1>3, <1>4 DEF Advance

\* The answer at hand fits the request.
LEMMA Dispatched ==
  ASSUME QueueType, ChainInv, NEW i \in Ids, NEW op \in Ops, Dispatch(i, op)
  PROVE  /\ req[i] \in Requests /\ RequestOK(req[i]) /\ req[i].stage = op
         /\ Head(inbox) \in Messages /\ AnswerOK(Head(inbox), req[i])
         /\ inbox # <<>> /\ Head(inbox).id = i /\ Head(inbox).op = op
         /\ inbox' = Tail(inbox) /\ UNCHANGED <<nfcdVars, clientVars>>
<1>1. /\ inbox # <<>> /\ Head(inbox).id = i /\ Head(inbox).op = op
      /\ inbox' = Tail(inbox) /\ UNCHANGED <<nfcdVars, clientVars>>
  BY DEF Dispatch
<1>2. Head(inbox) = inbox[1] /\ Head(inbox) \in Messages /\ 1 \in 1..Len(inbox)
  BY <1>1, Taken DEF QueueType
<1>3. i # 0
  BY WriteAssumption DEF Ids
<1>4. AnswerOK(Head(inbox), req[i])
  BY <1>1, <1>2, <1>3 DEF ChainInv, MessageOK
<1> QED
  BY <1>1, <1>2, <1>4 DEF ChainInv, MessageOK, QueueType, AnswerOK

\* The call a handler sends, after the answer it got.
Follows(i, op, path) ==
  \/ /\ Head(inbox).op = "tag_proxy"
     /\ op = "acquire" /\ path = req[i].path
  \/ /\ Head(inbox).op = "acquire" /\ Head(inbox).res = "ok"
     /\ op = "type2_proxy" /\ path = tag_path
  \/ /\ Head(inbox).op \in {"type2_proxy", "lock_read"}
     /\ op \in {"write_data", "lock_read", "lock_write"} /\ path = Head(inbox).path
  \/ /\ Head(inbox).op \in AfterAcquire
     /\ op = "release" /\ path = req[i].path

\* A handler that sends the next call.
LEMMA SendStep ==
  ASSUME QueueType, ChainInv, tag_path \in 0..MaxTags,
         NEW i \in Ids, NEW before \in Ops, NEW op \in Ops, NEW path, NEW ok \in BOOLEAN,
         Dispatch(i, before), Send(i, op, path, [req[i] EXCEPT !.ok = ok]),
         Follows(i, op, path), op = "release" /\ ok => Done(req[i])
  PROVE  \E r : HandlerStep(i, r)
<1> DEFINE o == req[i]
           e == [o EXCEPT !.ok = ok]
           n == [e EXCEPT !.stage = op]
           m == Head(inbox)
           c == [id |-> i, op |-> op, path |-> path]
<1>1. /\ o \in Requests /\ RequestOK(o) /\ o.stage = m.op
      /\ m \in Messages /\ inbox # <<>> /\ m.id = i
      /\ inbox' = Tail(inbox) /\ UNCHANGED <<nfcdVars, clientVars>>
  BY Dispatched
<1>2. e \in Requests
  BY <1>1 DEF Requests
<1>3. /\ n.stage = op /\ n.path = o.path /\ n.acq = o.acq /\ n.hit = o.hit
      /\ n.whole = o.whole /\ n.reply = o.reply /\ n.ok = ok
  BY <1>1 DEF Requests
<1>4. c.op = op /\ c.path = path /\ c.id = i
  OBVIOUS
<1>5. path \in 0..MaxTags
  <2>1. o.path \in 0..MaxTags /\ m.path \in 0..MaxTags
    BY <1>1 DEF Requests, Messages
  <2> QED
    BY <2>1 DEF Follows
<1>6. Send(i, op, path, e)
  OBVIOUS
<1> HIDE DEF e, o, c, m
<1>7. RequestOK(n)
  <2> HIDE DEF n
  <2> QED
    BY <1>1, <1>3 DEF RequestOK, Follows, Late, Done, AfterAcquire, o, m
<1>8. path # NULL => CallOK(c, n)
  <2> HIDE DEF n
  <2> QED
    BY <1>1, <1>3, <1>4 DEF RequestOK, CallOK, Follows, Late, WriteOps, o, m
<1>9. /\ Advance(i, n)
      /\ \A q \in Calls : reqs' = Append(reqs, q) => q.op = op /\ q.path = path
  BY <1>2, <1>5, <1>6, <1>7, <1>8, SendAdvances DEF c
<1> HIDE DEF n
<1>10. \A q \in Calls : reqs' = Append(reqs, q) =>
       /\ q.op = "type2_proxy" =>
            Head(inbox).op = "acquire" /\ Head(inbox).res = "ok" /\ q.path = tag_path
       /\ q.op \in AfterAcquire \ {"type2_proxy"} =>
            Head(inbox).op \in AfterAcquire /\ q.path = Head(inbox).path
  BY <1>9 DEF Follows, AfterAcquire
<1>11. n.stage # "idle" /\ n.stage # "done"
  BY <1>3 DEF Ops
<1> QED
  BY <1>1, <1>3, <1>9, <1>10, <1>11 DEF HandlerStep, o, m

\* A handler that answers the caller.
LEMMA FinishStep ==
  ASSUME QueueType, ChainInv, NEW i \in Ids, NEW before \in Ops, NEW success \in BOOLEAN,
         Dispatch(i, before), req_finish(i, req[i], success),
         \/ before = "tag_proxy" /\ ~success
         \/ before = "acquire" /\ Res # "ok" /\ ~success
         \/ before = "release" /\ success = req[i].ok
  PROVE  \E r : HandlerStep(i, r)
<1> DEFINE o == req[i]
           m == Head(inbox)
<1>1. /\ o \in Requests /\ RequestOK(o) /\ o.stage = before /\ m.op = before
      /\ AnswerOK(m, o) /\ inbox # <<>> /\ m.id = i
      /\ inbox' = Tail(inbox) /\ UNCHANGED <<nfcdVars, clientVars>>
  BY Dispatched
<1>2. success => Done(o)
  BY <1>1 DEF RequestOK
<1>3. PICK r \in Requests :
        /\ Advance(i, r)
        /\ r.path = o.path /\ r.acq = o.acq /\ r.hit = o.hit /\ r.whole = o.whole
        /\ r.stage = "done" /\ \A q \in Calls : reqs' # Append(reqs, q)
  BY <1>1, <1>2, FinishAdvances
<1>4. m.op = "release" \/ r.acq = NULL
  BY <1>1, <1>3 DEF RequestOK, AnswerOK, Res
<1> QED
  BY <1>1, <1>3, <1>4 DEF HandlerStep

\* Every handler is one of the two.
LEMMA HandlerSteps ==
  ASSUME QueueType, ChainInv, tag_path \in 0..MaxTags, NEW i \in Ids, Handler(i)
  PROVE  \E r : HandlerStep(i, r)
<1>0. /\ {"tag_proxy", "acquire", "type2_proxy", "write_data", "lock_read", "lock_write",
          "release"} \subseteq Ops
      /\ req[i] \in Requests /\ req[i].ok \in BOOLEAN
      /\ [req[i] EXCEPT !.ok = req[i].ok] = req[i]
  BY DEF Ops, QueueType, Requests
<1>1. CASE tag_proxy_ready(i)
  <2>1. CASE Res = "ok"
    <3>1. /\ Dispatch(i, "tag_proxy")
          /\ Send(i, "acquire", req[i].path, [req[i] EXCEPT !.ok = req[i].ok])
      BY <1>0, <1>1, <2>1 DEF tag_proxy_ready
    <3>2. Follows(i, "acquire", req[i].path)
      BY <3>1 DEF Dispatch, Follows
    <3> QED
      BY <1>0, <3>1, <3>2, SendStep
  <2>2. CASE Res # "ok"
    BY <1>0, <1>1, <2>2, FinishStep DEF tag_proxy_ready
  <2> QED
    BY <2>1, <2>2
<1>2. CASE acquire_ready(i)
  <2>1. CASE Res = "ok"
    <3>1. /\ Dispatch(i, "acquire")
          /\ Send(i, "type2_proxy", tag_path, [req[i] EXCEPT !.ok = req[i].ok])
      BY <1>0, <1>2, <2>1 DEF acquire_ready
    <3>2. Follows(i, "type2_proxy", tag_path)
      BY <2>1, <3>1 DEF Dispatch, Follows, Res
    <3> QED
      BY <1>0, <3>1, <3>2, SendStep
  <2>2. CASE Res # "ok"
    BY <1>0, <1>2, <2>2, FinishStep DEF acquire_ready
  <2> QED
    BY <2>1, <2>2
<1>3. CASE type2_proxy_ready(i)
  <2> DEFINE op == IF req[i].kind = "write" THEN "write_data" ELSE "lock_read"
  <2>1. CASE Res = "ok"
    <3>1. /\ Dispatch(i, "type2_proxy")
          /\ Send(i, op, Head(inbox).path, [req[i] EXCEPT !.ok = req[i].ok])
      BY <1>0, <1>3, <2>1 DEF type2_proxy_ready
    <3>2. Follows(i, op, Head(inbox).path) /\ op \in Ops /\ op # "release"
      BY <1>0, <3>1 DEF Dispatch, Follows
    <3> HIDE DEF op
    <3> QED
      BY <1>0, <3>1, <3>2, SendStep
  <2>2. CASE Res # "ok"
    <3>1. /\ Dispatch(i, "type2_proxy")
          /\ Send(i, "release", req[i].path, [req[i] EXCEPT !.ok = FALSE])
      BY <1>0, <1>3, <2>2 DEF type2_proxy_ready, release, Requests
    <3>2. Follows(i, "release", req[i].path)
      BY <3>1 DEF Dispatch, Follows, AfterAcquire
    <3> QED
      BY <1>0, <3>1, <3>2, SendStep
  <2> QED
    BY <2>1, <2>2
<1>4. CASE write_data_ready(i) \/ lock_write_ready(i)
  <2>1. PICK op \in WriteOps :
          /\ Dispatch(i, op)
          /\ Send(i, "release", req[i].path, [req[i] EXCEPT !.ok = (Res = "ok")])
    BY <1>0, <1>4 DEF write_data_ready, lock_write_ready, release, Requests, WriteOps
  <2>2. Follows(i, "release", req[i].path) /\ op \in Ops
    BY <1>0, <2>1 DEF Dispatch, Follows, AfterAcquire, WriteOps
  <2>3. Res = "ok" => Done(req[i])
    BY <2>1, <2>2, Dispatched DEF AnswerOK, Res
  <2> QED
    BY <1>0, <2>1, <2>2, <2>3, SendStep
<1>5. CASE lock_read_ready(i)
  <2>1. CASE Res = "ok"
    <3>1. /\ Dispatch(i, "lock_read")
          /\ Send(i, "lock_write", Head(inbox).path, [req[i] EXCEPT !.ok = req[i].ok])
      BY <1>0, <1>5, <2>1 DEF lock_read_ready
    <3>2. Follows(i, "lock_write", Head(inbox).path)
      BY <3>1 DEF Dispatch, Follows
    <3> QED
      BY <1>0, <3>1, <3>2, SendStep
  <2>2. CASE Res # "ok"
    <3>1. /\ Dispatch(i, "lock_read")
          /\ Send(i, "release", req[i].path, [req[i] EXCEPT !.ok = FALSE])
      BY <1>0, <1>5, <2>2 DEF lock_read_ready, release, Requests
    <3>2. Follows(i, "release", req[i].path)
      BY <3>1 DEF Dispatch, Follows, AfterAcquire
    <3> QED
      BY <1>0, <3>1, <3>2, SendStep
  <2> QED
    BY <2>1, <2>2
<1>6. CASE release_ready(i)
  BY <1>0, <1>6, FinishStep DEF release_ready
<1> QED
  BY <1>1, <1>2, <1>3, <1>4, <1>5, <1>6 DEF Handler, write_tag_proxy_ready,
     write_acquire_ready, write_type2_proxy_ready, write_release_ready,
     lock_tag_proxy_ready, lock_acquire_ready, lock_type2_proxy_ready,
     lock_release_ready

\* A request is made.
StartStep(i, r) ==
  /\ req[i].stage = "idle" /\ UNCHANGED <<nfcdVars, clientVars, inbox>>
  /\ Advance(i, r)
  /\ r.acq = NULL /\ r.hit = NULL /\ r.stage \in {"tag_proxy", "done"}
  /\ r.reply # "success"
  /\ \A q \in Calls : reqs' = Append(reqs, q) => q.op = "tag_proxy"

\* writeTag, cloneTag and lockTag start a chain or answer at once.
LEMMA StartSteps ==
  ASSUME QueueType, tag_path \in 0..MaxTags, NEW i \in Ids,
         nfcd_client_write_tag(i) \/ nfcd_client_write_raw(i) \/ nfcd_client_lock_tag(i)
  PROVE  \E r : StartStep(i, r)
<1>1. PICK kind \in {"write", "lock"}, usable \in BOOLEAN : Start(i, kind, usable)
  BY DEF nfcd_client_write_tag, nfcd_client_write_raw, nfcd_client_lock_tag
<1> DEFINE r == [NoReq EXCEPT !.kind = kind, !.path = tag_path]
<1>2. /\ r \in Requests /\ r.acq = NULL /\ r.hit = NULL /\ r.path = tag_path
      /\ r.reply = "none" /\ r.ok = TRUE /\ r.whole = FALSE
  <2>1. NULL \in 0..MaxTags
    BY WriteAssumption DEF NULL
  <2>2. /\ NoReq \in Requests /\ NoReq.acq = NULL /\ NoReq.hit = NULL
        /\ NoReq.reply = "none" /\ NoReq.ok = TRUE /\ NoReq.whole = FALSE
    BY <2>1 DEF NoReq, Requests
  <2> QED
    BY <2>2 DEF Requests
<1>3. req[i].stage = "idle" /\ UNCHANGED <<nfcdVars, clientVars, inbox>>
  BY <1>1 DEF Start
<1>4. \/ req_finish(i, r, FALSE)
      \/ tag_path # NULL /\ Send(i, "tag_proxy", tag_path, r)
  BY <1>1 DEF Start
<1> HIDE DEF r
<1>5. CASE req_finish(i, r, FALSE)
  <2> DEFINE n == [r EXCEPT !.stage = "done", !.reply = "error"]
  <2>1. /\ n \in Requests /\ n.acq = NULL /\ n.hit = NULL /\ n.stage = "done"
        /\ n.reply = "error"
    BY <1>2 DEF Requests
  <2>2. req' = [req EXCEPT ![i] = n] /\ reqs' = reqs
    BY <1>5 DEF req_finish
  <2> HIDE DEF n
  <2>3. RequestOK(n)
    BY <2>1 DEF RequestOK, Late
  <2>4. ASSUME NEW q \in Calls
        PROVE  Append(reqs, q) # reqs
    <3>1. Len(Append(reqs, q)) = Len(reqs) + 1 /\ Len(reqs) \in Nat
      BY Appended DEF QueueType
    <3> QED
      BY <3>1
  <2> QED
    BY <1>3, <2>1, <2>2, <2>3, <2>4 DEF StartStep, Advance
<1>6. CASE tag_path # NULL /\ Send(i, "tag_proxy", tag_path, r)
  <2> DEFINE n == [r EXCEPT !.stage = "tag_proxy"]
             c == [id |-> i, op |-> "tag_proxy", path |-> tag_path]
  <2>1. /\ n.acq = NULL /\ n.hit = NULL /\ n.stage = "tag_proxy" /\ n.path = tag_path
        /\ n.reply = "none" /\ n.whole = FALSE
    BY <1>2 DEF Requests
  <2>2. RequestOK(n) /\ CallOK(c, n)
    BY <1>6, <2>1 DEF RequestOK, CallOK, Late, WriteOps
  <2>3. "tag_proxy" \in Ops
    BY DEF Ops
  <2>4. /\ Advance(i, n)
        /\ \A q \in Calls : reqs' = Append(reqs, q) => q.op = "tag_proxy" /\ q.path = tag_path
    BY <1>2, <1>6, <2>2, <2>3, SendAdvances
  <2> QED
    BY <1>3, <2>1, <2>4 DEF StartStep
<1> QED
  BY <1>4, <1>5, <1>6

\* The messages on the bus are those of requests under way.
LEMMA OnTheBus ==
  ASSUME QueueType, ChainInv
  PROVE  /\ \A k \in 1..Len(reqs) : /\ reqs[k] \in Calls /\ reqs[k].id \in Ids
                                    /\ req[reqs[k].id].stage \in Ops
         /\ \A k \in 1..Len(inbox) : /\ inbox[k] \in Messages
                                     /\ inbox[k].id # 0 =>
                                          /\ inbox[k].id \in Ids
                                          /\ req[inbox[k].id].stage \in Ops
<1>1. ASSUME NEW k \in 1..Len(reqs)
      PROVE  reqs[k] \in Calls /\ reqs[k].id \in Ids /\ req[reqs[k].id].stage \in Ops
  <2>1. reqs[k] \in Calls
    BY ElementOfSeq DEF QueueType
  <2>2. reqs[k].id \in Ids /\ reqs[k].op \in Ops
    BY <2>1 DEF Calls
  <2> QED
    BY <2>1, <2>2 DEF ChainInv, MessageOK, CallOK
<1>2. ASSUME NEW k \in 1..Len(inbox)
      PROVE  /\ inbox[k] \in Messages
             /\ inbox[k].id # 0 => inbox[k].id \in Ids /\ req[inbox[k].id].stage \in Ops
  <2>1. inbox[k] \in Messages
    BY ElementOfSeq DEF QueueType
  <2>2. /\ inbox[k].id # 0 => inbox[k].id \in Ids
        /\ inbox[k].op \in Ops \union {"tags"}
    BY <2>1, WriteAssumption DEF Messages, Ids
  <2> QED
    BY <2>1, <2>2 DEF ChainInv, MessageOK, AnswerOK
<1> QED
  BY <1>1, <1>2

\* A new request keeps the chains in order: nothing of it is on the bus yet.
LEMMA StartChain ==
  ASSUME QueueType, QueueType', ChainInv, NEW i \in Ids, NEW r, StartStep(i, r)
  PROVE  ChainInv'
<1>1. /\ \A k \in 1..Len(reqs) : reqs[k].id # i
      /\ \A k \in 1..Len(inbox) : inbox[k].id # i
  <2>1. "idle" \notin Ops /\ i # 0
    BY WriteAssumption DEF Ops, Ids
  <2> QED
    BY <2>1, OnTheBus DEF StartStep
<1>2. inbox' = inbox /\ Advance(i, r)
  BY DEF StartStep
<1> QED
  BY <1>1, <1>2, AdvanceChain DEF ChainInv, MessageOK

\* The oldest call q is answered with m, which leaves its request as r.
ServeStep(q, m, r) ==
  LET o == req[q.id] IN
  /\ reqs # <<>> /\ q = Head(reqs) /\ reqs' = Tail(reqs)
  /\ q \in Calls /\ m \in Messages /\ m.id = q.id /\ m.op = q.op /\ m.path = q.path
  /\ inbox' = Append(inbox, m)
  /\ UNCHANGED <<up, crashes, attached, placed, ntag, last_path, clientVars>>
  /\ r \in Requests /\ req' = [req EXCEPT ![q.id] = r]
  /\ r.stage = o.stage /\ r.path = o.path /\ r.ok = o.ok /\ r.reply = o.reply
  /\ \/ /\ q.op = "acquire" /\ m.res = "ok" /\ npath # NULL /\ q.path = npath
        /\ r.acq = ntag /\ r.hit = o.hit /\ r.whole = o.whole /\ locks' = locks + 1
     \/ /\ q.op = "release" /\ m.res = "ok" /\ locks > 0
        /\ r = o /\ locks' = locks - 1
     \/ /\ q.op \in WriteOps /\ q.path = npath
        /\ r.acq = o.acq /\ r.hit = ntag /\ (m.res = "ok" => r.whole) /\ locks' = locks
     \/ /\ q.op \in WriteOps \union {"acquire"} => m.res # "ok"
        /\ q.op = "release" =>
             (m.res # "ok" /\ (~up \/ npath = NULL \/ q.path # npath \/ locks = 0))
        /\ r = o /\ locks' = locks

\* Whatever nfcd, or the bus for it, answers is a ServeStep.
LEMMA ServeSteps ==
  ASSUME QueueType, ntag \in 0..MaxTags, locks \in Nat, Serve
  PROVE  \E q, m, r : ServeStep(q, m, r)
<1> DEFINE q == Head(reqs)
           o == req[q.id]
<1>1. reqs # <<>> /\ reqs' = Tail(reqs) /\ q \in Calls
  BY Taken DEF Serve, QueueType
<1>2. q.id \in Ids /\ q.op \in Ops /\ q.path \in 0..MaxTags
  BY <1>1 DEF Calls
<1>3. PICK res \in ResultsOf(q) : Effect(q, res) /\ inbox' = Append(inbox, Answer(q, res))
  BY DEF Serve
<1>4. UNCHANGED <<up, crashes, attached, placed, ntag, last_path, clientVars>>
  BY DEF Serve
<1>5. o \in Requests
  BY <1>2 DEF QueueType
<1>6. res \in {"ok", "short", "error"}
  BY <1>3 DEF ResultsOf
<1> DEFINE m == Answer(q, res)
<1>7. m \in Messages /\ m.id = q.id /\ m.op = q.op /\ m.path = q.path /\ m.res = res
  BY <1>2, <1>6, WriteAssumption DEF Answer, Messages, Ids
<1>8. inbox' = Append(inbox, m)
  BY <1>3
<1> HIDE DEF q, m
<1>9. CASE q.op = "acquire" /\ res = "ok" /\ locks' = locks + 1
           /\ req' = [req EXCEPT ![q.id].acq = ntag]
  <2> DEFINE r == [o EXCEPT !.acq = ntag]
  <2>1. /\ r \in Requests /\ r.acq = ntag /\ r.hit = o.hit /\ r.whole = o.whole
        /\ r.stage = o.stage /\ r.path = o.path /\ r.ok = o.ok /\ r.reply = o.reply
    BY <1>5 DEF Requests
  <2>2. req' = [req EXCEPT ![q.id] = r]
    BY <1>9
  <2>3. npath # NULL /\ q.path = npath
    BY <1>3, <1>9 DEF ResultsOf
  <2> HIDE DEF r, o
  <2>4. ServeStep(q, m, r)
    BY <1>1, <1>4, <1>7, <1>8, <1>9, <2>1, <2>2, <2>3 DEF ServeStep, o, q
  <2> QED
    BY <2>4
<1>10. CASE q.op = "release" /\ res = "ok" /\ locks' = locks - 1 /\ req' = req
  <2>1. req' = [req EXCEPT ![q.id] = o]
    BY <1>2, <1>10 DEF QueueType
  <2>2. locks > 0
    BY <1>3, <1>10 DEF ResultsOf
  <2>3. ServeStep(q, m, o)
    BY <1>1, <1>4, <1>5, <1>7, <1>8, <1>10, <2>1, <2>2 DEF ServeStep, q
  <2> QED
    BY <2>3
<1>11. CASE /\ Reaches(q) /\ locks' = locks
            /\ req' = [req EXCEPT ![q.id].hit = ntag, ![q.id].whole = res # "short"]
  <2> DEFINE r == [o EXCEPT !.hit = ntag, !.whole = res # "short"]
  <2>1. /\ r \in Requests /\ r.acq = o.acq /\ r.hit = ntag /\ r.whole = (res # "short")
        /\ r.stage = o.stage /\ r.path = o.path /\ r.ok = o.ok /\ r.reply = o.reply
    BY <1>5 DEF Requests
  <2>2. req' = [req EXCEPT ![q.id] = r]
    BY <1>2, <1>11 DEF QueueType
  <2>3. q.path = npath /\ q.op \in WriteOps
    BY <1>11 DEF Reaches, WriteOps
  <2> HIDE DEF r, o
  <2>4. ServeStep(q, m, r)
    BY <1>1, <1>4, <1>7, <1>8, <1>11, <2>1, <2>2, <2>3 DEF ServeStep, o, q
  <2> QED
    BY <2>4
<1>12. CASE /\ req' = req /\ locks' = locks
            /\ \/ Reaches(q) /\ res = "error"
               \/ ~Reaches(q) /\ (q.op \in {"acquire", "release"} => res # "ok")
  <2>1. req' = [req EXCEPT ![q.id] = o]
    BY <1>2, <1>12 DEF QueueType
  <2>2. q.op \in WriteOps \union {"acquire"} => res # "ok"
    BY <1>3, <1>12 DEF ResultsOf, Reaches, WriteOps
  <2>3. q.op = "release" =>
             (res # "ok" /\ (~up \/ npath = NULL \/ q.path # npath \/ locks = 0))
    BY <1>3, <1>12 DEF ResultsOf, Reaches
  <2>4. ServeStep(q, m, o)
    BY <1>1, <1>4, <1>5, <1>7, <1>8, <1>12, <2>1, <2>2, <2>3 DEF ServeStep, q
  <2> QED
    BY <2>4
<1> QED
  BY <1>3, <1>9, <1>10, <1>11, <1>12 DEF Effect

\* An answer keeps the chains in order: the call becomes its answer.
LEMMA ServeChain ==
  ASSUME QueueType, QueueType', ChainInv, NEW q, NEW m, NEW r, ServeStep(q, m, r)
  PROVE  ChainInv'
<1> DEFINE o == req[q.id]
<1>1. /\ q = reqs[1] /\ Len(reqs) \in Nat \ {0} /\ Len(reqs') = Len(reqs) - 1
      /\ \A k \in 1..Len(reqs) - 1 : reqs'[k] = reqs[k + 1]
  BY Taken DEF QueueType, ServeStep
<1>2. \A k \in 1..Len(reqs') :
        k + 1 \in 1..Len(reqs) /\ reqs'[k] = reqs[k + 1] /\ k + 1 # 1
  BY <1>1
<1>3. 1 \in 1..Len(reqs)
  BY <1>1
<1>4. q \in Calls /\ q.id \in Ids /\ CallOK(q, o) /\ RequestOK(o) /\ q.id # 0 /\ q.op # "tags"
  <2>1. q \in Calls
    BY DEF ServeStep
  <2>2. q.id \in Ids /\ q.op \in Ops
    BY <2>1 DEF Calls
  <2> QED
    BY <1>1, <1>3, <2>1, <2>2, WriteAssumption DEF ChainInv, MessageOK, Ids, Ops
<1>5. \A j \in Ids : req'[j] = IF j = q.id THEN r ELSE req[j]
  BY <1>4 DEF ServeStep, QueueType
<1>6. m \in Messages /\ m.id = q.id /\ m.op = q.op /\ inbox' = Append(inbox, m)
  BY DEF ServeStep
<1>7. /\ Len(inbox) \in Nat /\ Len(inbox') = Len(inbox) + 1 /\ inbox'[Len(inbox) + 1] = m
      /\ \A k \in 1..Len(inbox) : inbox'[k] = inbox[k]
  BY <1>6, Appended DEF QueueType
<1>8. \A k \in 1..Len(inbox') : k \in 1..Len(inbox) \/ k = Len(inbox) + 1
  BY <1>7
<1>9. RequestOK(r) /\ AnswerOK(m, r)
  <2> HIDE DEF o
  <2>1. npath # NULL => ntag # NULL
    BY DEF npath
  <2> QED
    BY <1>4, <2>1 DEF ServeStep, RequestOK, AnswerOK, CallOK, Late, WriteOps, Done, o
<1>10. \A j \in Ids : RequestOK(req'[j])
  BY <1>5, <1>9 DEF ChainInv, MessageOK
<1>11. /\ \A k \in 1..Len(reqs') : reqs'[k].id \in Ids /\ reqs'[k].id # q.id
       /\ \A k \in 1..Len(inbox) : inbox[k].id # q.id /\ (inbox[k].id # 0 => inbox[k].id \in Ids)
  BY <1>1, <1>2, <1>3, <1>4, OnTheBus DEF ChainInv, MessageOK, Distinct, Apart
<1>12. \A k \in 1..Len(reqs') : CallOK(reqs'[k], req'[reqs'[k].id])
  BY <1>2, <1>5, <1>11 DEF ChainInv, MessageOK
<1>13. \A k \in 1..Len(inbox') :
         MessageOK(inbox[k])'
  BY <1>4, <1>5, <1>6, <1>7, <1>8, <1>9, <1>11 DEF ChainInv, MessageOK
<1>14. Distinct(reqs')
  <2>1. ASSUME NEW k \in 1..Len(reqs'), NEW l \in 1..Len(reqs'),
               reqs'[k].id = reqs'[l].id, reqs'[k].id # 0
        PROVE  k = l
    <3>1. /\ k + 1 \in 1..Len(reqs) /\ l + 1 \in 1..Len(reqs)
          /\ reqs[k + 1].id = reqs[l + 1].id /\ reqs[k + 1].id # 0
      BY <1>2, <2>1
    <3>2. k + 1 = l + 1
      BY <3>1 DEF ChainInv, MessageOK, Distinct
    <3> QED
      BY <3>2
  <2> QED
    BY <2>1 DEF Distinct
<1>15. Distinct(inbox')
  BY <1>6, <1>7, <1>8, <1>11 DEF ChainInv, MessageOK, Distinct
<1>16. Apart(reqs', inbox')
  BY <1>2, <1>6, <1>7, <1>8, <1>11 DEF ChainInv, MessageOK, Apart
<1> QED
  BY <1>10, <1>12, <1>13, <1>14, <1>15, <1>16 DEF ChainInv, MessageOK

\* The client is told of the tag in the field.
LEMMA TagsChain ==
  ASSUME QueueType, ChainInv, NEW path \in 0..MaxTags,
         inbox' = Append(inbox, TagsMsg(path)), UNCHANGED <<reqs, req>>
  PROVE  ChainInv'
<1> DEFINE m == TagsMsg(path)
<1>1. m \in Messages /\ m.id = 0 /\ m.op = "tags"
  BY WriteAssumption DEF TagsMsg, Messages
<1> HIDE DEF m
<1>2. /\ Len(inbox) \in Nat /\ Len(inbox') = Len(inbox) + 1 /\ inbox'[Len(inbox) + 1] = m
      /\ \A k \in 1..Len(inbox) : inbox'[k] = inbox[k]
  BY <1>1, Appended DEF QueueType, m
<1>3. \A k \in 1..Len(inbox') : k \in 1..Len(inbox) \/ k = Len(inbox) + 1
  BY <1>2
<1>4. \A k \in 1..Len(reqs) : reqs[k].id # 0
  BY OnTheBus, WriteAssumption DEF Ids
<1>5. Distinct(inbox') /\ Apart(reqs', inbox')
  BY <1>1, <1>2, <1>3, <1>4, SMTT(20) DEF ChainInv, MessageOK, Distinct, Apart
<1> QED
  BY <1>1, <1>2, <1>3, <1>5 DEF ChainInv, MessageOK

\* What Crash leaves in the inbox.
CrashInbox ==
  /\ Len(inbox) \in Nat /\ Len(reqs) \in Nat /\ inbox' \in Seq(Messages)
  /\ Len(inbox') = Len(inbox) + 1 + Len(reqs)
  /\ \A k \in 1..Len(inbox) : inbox'[k] = inbox[k]
  /\ inbox'[Len(inbox) + 1] = TagsMsg(NULL)
  /\ \A k \in 1..Len(reqs) : inbox'[Len(inbox) + 1 + k] = Answer(reqs[k], "error")
  /\ \A k \in 1..Len(inbox') :
       \/ k \in 1..Len(inbox) \/ k = Len(inbox) + 1
       \/ \E l \in 1..Len(reqs) : k = Len(inbox) + 1 + l

\* daemon_vanished() comes first, then an error for each call that was out.
LEMMA CrashMessages ==
  ASSUME QueueType, Crash
  PROVE  CrashInbox
<1> DEFINE f == [k \in DOMAIN reqs |-> Answer(reqs[k], "error")]
<1>1. Len(reqs) \in Nat /\ DOMAIN reqs = 1..Len(reqs) /\ Len(inbox) \in Nat
  BY LenProperties DEF QueueType
<1>2. TagsMsg(NULL) \in Messages
  BY WriteAssumption DEF TagsMsg, Messages, NULL
<1>3. ASSUME NEW k \in 1..Len(reqs)
      PROVE  Answer(reqs[k], "error") \in Messages
  <2>1. reqs[k] \in Calls
    BY ElementOfSeq DEF QueueType
  <2> QED
    BY <2>1, WriteAssumption DEF Calls, Messages, Answer, Ids
<1>4. f \in [1..Len(reqs) -> Messages]
  BY <1>1, <1>3
<1>5. \A k \in 1..Len(reqs) : f[k] = Answer(reqs[k], "error")
  BY <1>1
<1>6. inbox' = Append(inbox, TagsMsg(NULL)) \o f
  BY DEF Crash
<1> HIDE DEF f
<1>7. /\ inbox' \in Seq(Messages)
      /\ Len(inbox') = Len(inbox) + 1 + Len(reqs)
      /\ \A k \in 1..Len(inbox) : inbox'[k] = inbox[k]
      /\ inbox'[Len(inbox) + 1] = TagsMsg(NULL)
      /\ \A k \in 1..Len(reqs) : inbox'[Len(inbox) + 1 + k] = f[k]
  <2> DEFINE e == TagsMsg(NULL)
             c == Append(inbox, e) \o f
  <2>1. inbox \in Seq(Messages) /\ e \in Messages
    BY <1>2 DEF QueueType
  <2> HIDE DEF e
  <2>2. /\ c \in Seq(Messages)
        /\ Len(c) = Len(inbox) + 1 + Len(reqs)
        /\ \A k \in 1..Len(inbox) : c[k] = inbox[k]
        /\ c[Len(inbox) + 1] = e
        /\ \A k \in 1..Len(reqs) : c[Len(inbox) + 1 + k] = f[k]
    <3>1. f \in [1..Len(reqs) -> Messages] /\ Len(reqs) \in Nat
      BY <1>1, <1>4
    <3>2. \A k \in 1..Len(inbox) : c[k] = inbox[k]
      BY <2>1, <3>1, CrashQueue, SMTT(20)
    <3>3. \A k \in 1..Len(reqs) : c[Len(inbox) + 1 + k] = f[k]
      BY <2>1, <3>1, CrashQueue, SMTT(20)
    <3>4. c \in Seq(Messages) /\ Len(c) = Len(inbox) + 1 + Len(reqs) /\ c[Len(inbox) + 1] = e
      BY <2>1, <3>1, CrashQueue, SMTT(20)
    <3> QED
      BY <3>2, <3>3, <3>4
  <2>3. inbox' = c
    BY <1>6 DEF e
  <2> HIDE DEF c
  <2> QED
    BY <2>2, <2>3 DEF e
<1>8. ASSUME NEW k \in 1..Len(inbox')
      PROVE  \/ k \in 1..Len(inbox) \/ k = Len(inbox) + 1
             \/ \E l \in 1..Len(reqs) : k = Len(inbox) + 1 + l
  <2>1. k > Len(inbox) + 1 =>
          k - Len(inbox) - 1 \in 1..Len(reqs) /\ k = Len(inbox) + 1 + (k - Len(inbox) - 1)
    BY <1>1, <1>7
  <2>2. k <= Len(inbox) \/ k = Len(inbox) + 1 \/ k > Len(inbox) + 1
    BY <1>1
  <2>3. k <= Len(inbox) => k \in 1..Len(inbox)
    BY <1>1
  <2> QED
    BY <2>1, <2>2, <2>3
<1> QED
  BY <1>1, <1>5, <1>7, <1>8 DEF CrashInbox

\* A crash of nfcd keeps the chains in order.
LEMMA CrashChain ==
  ASSUME QueueType, ChainInv, Crash
  PROVE  ChainInv'
<1>1. CrashInbox /\ req' = req /\ reqs' = <<>>
  BY CrashMessages DEF Crash
<1>2. /\ TagsMsg(NULL).id = 0 /\ TagsMsg(NULL).op = "tags"
      /\ \A q : /\ Answer(q, "error").id = q.id /\ Answer(q, "error").op = q.op
                /\ Answer(q, "error").res = "error"
  BY DEF TagsMsg, Answer
<1>3. \A k \in 1..Len(reqs) : /\ reqs[k].id # 0 /\ reqs[k].op # "tags"
                              /\ AnswerOK(Answer(reqs[k], "error"), req[reqs[k].id])
  <2>1. \A k \in 1..Len(reqs) : reqs[k].id # 0 /\ reqs[k].op \in Ops
    BY OnTheBus, WriteAssumption DEF Ids, ChainInv, MessageOK, CallOK
  <2> QED
    BY <1>2, <2>1 DEF ChainInv, MessageOK, CallOK, AnswerOK, Ops
<1>4. ASSUME NEW k \in 1..Len(inbox')
      PROVE  MessageOK(inbox'[k])
  <2>1. CASE k \in 1..Len(inbox)
    BY <1>1, <2>1 DEF CrashInbox, ChainInv, MessageOK
  <2>2. CASE k = Len(inbox) + 1
    BY <1>1, <1>2, <2>2 DEF CrashInbox, MessageOK
  <2>3. ASSUME NEW l \in 1..Len(reqs), k = Len(inbox) + 1 + l
        PROVE  MessageOK(inbox'[k])
    <3>1. inbox'[k] = Answer(reqs[l], "error")
      BY <1>1, <2>3 DEF CrashInbox
    <3> QED
      BY <1>2, <1>3, <3>1 DEF MessageOK
  <2> QED
    BY <1>1, <2>1, <2>2, <2>3 DEF CrashInbox
<1>5. Distinct(inbox')
  <2>1. ASSUME NEW k \in 1..Len(inbox'), NEW l \in 1..Len(inbox'),
               inbox'[k].id = inbox'[l].id, inbox'[k].id # 0
        PROVE  k = l
    <3>1. k # Len(inbox) + 1 /\ l # Len(inbox) + 1
      BY <1>1, <1>2, <2>1 DEF CrashInbox
    <3>2. CASE k \in 1..Len(inbox) /\ l \in 1..Len(inbox)
      BY <1>1, <2>1, <3>2 DEF CrashInbox, ChainInv, MessageOK, Distinct
    <3>3. ASSUME NEW x \in 1..Len(inbox), NEW y \in 1..Len(reqs)
          PROVE  inbox'[x].id # inbox'[Len(inbox) + 1 + y].id
      <4>1. inbox'[x] = inbox[x] /\ inbox'[Len(inbox) + 1 + y].id = reqs[y].id
        BY <1>1, <1>2 DEF CrashInbox
      <4>2. inbox[x].id # reqs[y].id
        BY DEF ChainInv, MessageOK, Apart
      <4> QED
        BY <4>1, <4>2
    <3>4. ASSUME NEW x \in 1..Len(reqs), NEW y \in 1..Len(reqs),
                 k = Len(inbox) + 1 + x, l = Len(inbox) + 1 + y
          PROVE  x = y
      <4>1. reqs[x].id = reqs[y].id
        BY <1>1, <1>2, <2>1, <3>4 DEF CrashInbox
      <4> QED
        BY <1>3, <4>1 DEF ChainInv, MessageOK, Distinct
    <3>5. /\ k \in 1..Len(inbox) \/ \E x \in 1..Len(reqs) : k = Len(inbox) + 1 + x
          /\ l \in 1..Len(inbox) \/ \E x \in 1..Len(reqs) : l = Len(inbox) + 1 + x
      BY <1>1, <3>1 DEF CrashInbox
    <3> QED
      BY <2>1, <3>2, <3>3, <3>4, <3>5
  <2> QED
    BY <2>1 DEF Distinct
<1>6. Len(reqs') = 0
  BY <1>1, EmptySeq
<1> QED
  BY <1>1, <1>4, <1>5, <1>6 DEF ChainInv, MessageOK, Distinct, Apart

-----------------------------------------------------------------------------
(* Types and chains, step by step.                                         *)

\* What any step can be.
LEMMA Steps ==
  ASSUME TypeOK, ChainInv, Next
  PROVE  \/ set_current_tag \/ TagReadDone \/ Nfcd
         \/ \E i \in Ids : \E r : HandlerStep(i, r)
         \/ \E i \in Ids : \E r : StartStep(i, r)
         \/ \E q, m, r : ServeStep(q, m, r)
<1>1. QueueType /\ tag_path \in 0..MaxTags /\ ntag \in 0..MaxTags /\ locks \in Nat
  BY DEF TypeOK, QueueType
<1> QED
  BY <1>1, HandlerSteps, StartSteps, ServeSteps DEF Next, Client, Caller

\* A request that goes on keeps the types.
LEMMA AdvanceType ==
  ASSUME QueueType, NEW i \in Ids, NEW r, Advance(i, r)
  PROVE  reqs' \in Seq(Calls) /\ req' \in [Ids -> Requests]
BY Appended DEF QueueType, Advance

\* Every step keeps the types, and the paths nfcd hands out below its bound.
LEMMA TypeStep ==
  ASSUME TypeInv, ChainInv, [Next]_vars
  PROVE  TypeInv'
<1> USE DEF TypeInv
<1>1. QueueType
  BY DEF TypeOK, QueueType
<1>2. CASE set_current_tag
  <2>1. Head(inbox) \in Messages /\ Tail(inbox) \in Seq(Messages)
    BY <1>1, <1>2, Taken DEF QueueType, set_current_tag
  <2>2. Head(inbox).path \in 0..MaxTags
    BY <2>1 DEF Messages
  <2> QED
    BY <1>2, <2>1, <2>2 DEF TypeOK, set_current_tag, nfcdVars
<1>3. CASE TagReadDone
  BY <1>3 DEF TypeOK, TagReadDone, nfcdVars
<1>4. CASE Nfcd
  <2>0. ASSUME NEW path \in 0..MaxTags
        PROVE  Append(inbox, TagsMsg(path)) \in Seq(Messages)
    <3>1. TagsMsg(path) \in Messages
      BY WriteAssumption DEF TagsMsg, Messages
    <3> QED
      BY <1>1, <3>1, Appended DEF QueueType
  <2>n. NULL \in 0..MaxTags /\ npath \in 0..MaxTags
    BY WriteAssumption DEF NULL, npath, TypeOK
  <2>1. CASE PlaceTag
    <3>1. placed + 1 \in 0..MaxTags /\ last_path + 1 \in 0..MaxTags
          /\ last_path + 1 <= placed + 1
      BY <2>1, WriteAssumption DEF PlaceTag, TypeOK
    <3> QED
      BY <2>0, <2>1, <3>1 DEF PlaceTag, TypeOK, Signal, clientVars
  <2>2. CASE RemoveTag
    BY <2>0, <2>n, <2>2 DEF RemoveTag, TypeOK, Signal, clientVars
  <2>3. CASE Crash
    <3>1. inbox' \in Seq(Messages)
      BY <1>1, <2>3, CrashMessages DEF CrashInbox
    <3>2. crashes' \in 0..MaxCrashes
      BY <2>3, WriteAssumption DEF Crash, TypeOK
    <3>3. reqs' \in Seq(Calls)
      BY <2>3, EmptySeq DEF Crash
    <3>4. 0 \in 0..MaxTags /\ 0 <= placed
      BY WriteAssumption DEF TypeOK
    <3> QED
      BY <2>3, <3>1, <3>2, <3>3, <3>4, <2>n DEF Crash, TypeOK, clientVars
  <2>4. CASE Restart
    BY <2>4 DEF Restart, TypeOK, clientVars
  <2>5. CASE Attach
    BY <2>0, <2>n, <2>5 DEF Attach, TypeOK, clientVars
  <2> QED
    BY <1>4, <2>1, <2>2, <2>3, <2>4, <2>5 DEF Nfcd
<1>5. ASSUME NEW i \in Ids, NEW r, HandlerStep(i, r)
      PROVE  TypeInv'
  <2>1. Tail(inbox) \in Seq(Messages)
    BY <1>1, <1>5, Taken DEF QueueType, HandlerStep
  <2> QED
    BY <1>1, <1>5, <2>1, AdvanceType DEF HandlerStep, TypeOK, nfcdVars, clientVars
<1>6. ASSUME NEW i \in Ids, NEW r, StartStep(i, r)
      PROVE  TypeInv'
  BY <1>1, <1>6, AdvanceType DEF StartStep, TypeOK, nfcdVars, clientVars
<1>7. ASSUME NEW q, NEW m, NEW r, ServeStep(q, m, r)
      PROVE  TypeInv'
  <2>1. q \in Calls /\ q.id \in Ids
    BY <1>7 DEF ServeStep, Calls
  <2>2. Tail(reqs) \in Seq(Calls) /\ Append(inbox, m) \in Seq(Messages)
    BY <1>1, <1>7, Taken, Appended DEF QueueType, ServeStep
  <2>3. req' \in [Ids -> Requests]
    BY <1>1, <1>7, <2>1 DEF QueueType, ServeStep
  <2>4. locks' \in Nat
    BY <1>7 DEF ServeStep, TypeOK
  <2> QED
    BY <1>7, <2>2, <2>3, <2>4 DEF ServeStep, TypeOK, clientVars
<1>8. CASE UNCHANGED vars
  BY <1>8 DEF vars, nfcdVars, clientVars, TypeOK
<1> QED
  BY <1>2, <1>3, <1>4, <1>5, <1>6, <1>7, <1>8, Steps

\* Every step keeps the chains in order.
LEMMA ChainStep ==
  ASSUME TypeInv, TypeInv', ChainInv, [Next]_vars
  PROVE  ChainInv'
<1>1. QueueType /\ QueueType' /\ npath \in 0..MaxTags /\ last_path' \in 0..MaxTags
      /\ NULL \in 0..MaxTags
  BY WriteAssumption DEF TypeInv, TypeOK, QueueType, npath, NULL
<1>2. CASE set_current_tag
  BY <1>1, <1>2, TakenChain DEF set_current_tag, ChainInv, MessageOK
<1>3. CASE TagReadDone \/ UNCHANGED vars \/ Restart
  BY <1>3 DEF TagReadDone, Restart, vars, ChainInv, MessageOK
<1>4. CASE PlaceTag \/ RemoveTag \/ Attach
  <2>1. \/ UNCHANGED <<inbox, reqs, req>>
        \/ \E path \in 0..MaxTags :
             inbox' = Append(inbox, TagsMsg(path)) /\ UNCHANGED <<reqs, req>>
    BY <1>1, <1>4 DEF PlaceTag, RemoveTag, Attach, Signal
  <2> QED
    BY <1>1, <2>1, TagsChain DEF ChainInv, MessageOK
<1>5. CASE Crash
  BY <1>1, <1>5, CrashChain
<1> QED
  BY <1>1, <1>2, <1>3, <1>4, <1>5, Steps, HandlerChain, StartChain, ServeChain
     DEF Nfcd, TypeInv

\* Nothing is on the bus at first.
LEMMA ChainInit ==
  ASSUME Init
  PROVE  TypeInv /\ ChainInv
<1>1. /\ NoReq \in Requests /\ NoReq.acq = NULL /\ NoReq.hit = NULL /\ NoReq.whole = FALSE
      /\ NoReq.stage = "idle" /\ NoReq.reply = "none"
  <2>1. NULL \in 0..MaxTags
    BY WriteAssumption DEF NULL
  <2> QED
    BY <2>1 DEF NoReq, Requests
<1>2. reqs \in Seq(Calls) /\ inbox \in Seq(Messages) /\ Len(reqs) = 0 /\ Len(inbox) = 0
  BY EmptySeq DEF Init
<1>3. RequestOK(NoReq)
  BY <1>1 DEF RequestOK, Late, Done
<1>4. ChainInv
  BY <1>2, <1>3 DEF Init, ChainInv, MessageOK, Distinct, Apart
<1>5. req \in [Ids -> Requests]
  BY <1>1 DEF Init
<1>6. up \in BOOLEAN /\ attached \in BOOLEAN /\ tag_is_type2 \in BOOLEAN
  BY DEF Init
<1>7. /\ crashes \in 0..MaxCrashes /\ placed \in 0..MaxTags /\ ntag \in 0..MaxTags
      /\ last_path \in 0..MaxTags /\ tag_path \in 0..MaxTags /\ locks \in Nat
      /\ last_path <= placed
  BY WriteAssumption DEF Init, NULL
<1> QED
  BY <1>2, <1>4, <1>5, <1>6, <1>7 DEF TypeInv, TypeOK

-----------------------------------------------------------------------------
(* nfcd's first run.                                                       *)

\* What the client will take for the tag is the same after it has handled
\* one message more.
LEMMA ViewShift ==
  ASSUME QueueType, inbox # <<>>, inbox' = Tail(inbox),
         tag_path' = IF Head(inbox).op = "tags" THEN Head(inbox).path ELSE tag_path,
         NEW n \in 1..Len(inbox), NEW p, View(n, p)
  PROVE  View(n - 1, p)'
<1>1. /\ Head(inbox) = inbox[1] /\ Len(inbox) \in Nat \ {0}
      /\ Len(inbox') = Len(inbox) - 1
      /\ \A k \in 1..Len(inbox) - 1 : inbox'[k] = inbox[k + 1]
  BY Taken DEF QueueType
<1>2. \A k \in 1..n - 1 : k + 1 \in 1..n /\ inbox'[k] = inbox[k + 1]
  BY <1>1
<1>3. ASSUME NEW j \in 1..n, inbox[j].op = "tags", inbox[j].path = p,
             \A k \in j + 1..n : inbox[k].op # "tags"
      PROVE  View(n - 1, p)'
  <2>1. CASE j = 1
    <3>1. \A k \in 1..n - 1 : inbox'[k].op # "tags"
      BY <1>1, <1>2, <1>3, <2>1
    <3>2. tag_path' = p
      BY <1>1, <1>3, <2>1
    <3> QED
      BY <3>1, <3>2 DEF View
  <2>2. CASE j # 1
    <3>1. j - 1 \in 1..n - 1 /\ (j - 1) + 1 = j
      BY <2>2, <1>1
    <3>2. inbox'[j - 1] = inbox[j]
      BY <1>2, <3>1
    <3>3. \A k \in (j - 1) + 1..n - 1 : k \in 1..n - 1 /\ k + 1 \in j + 1..n
      BY <1>1
    <3>4. \A k \in (j - 1) + 1..n - 1 : inbox'[k].op # "tags"
      BY <1>2, <1>3, <3>3
    <3> QED
      BY <1>3, <3>1, <3>2, <3>4 DEF View
  <2> QED
    BY <2>1, <2>2
<1>4. ASSUME tag_path = p, \A k \in 1..n : inbox[k].op # "tags"
      PROVE  View(n - 1, p)'
  <2>1. 1 \in 1..n
    BY <1>1
  <2>2. tag_path' = p
    BY <1>1, <1>4, <2>1
  <2>3. \A k \in 1..n - 1 : inbox'[k].op # "tags"
    BY <1>2, <1>4
  <2> QED
    BY <2>2, <2>3 DEF View
<1> QED
  BY <1>3, <1>4 DEF View

\* A message put behind the first n does not change what they will tell.
LEMMA ViewKept ==
  ASSUME NEW n \in Nat, NEW p, \A k \in 1..n : inbox'[k] = inbox[k],
         tag_path' = tag_path, View(n, p)
  PROVE  /\ View(n, p)'
         /\ inbox'[n + 1].op # "tags" => View(n + 1, p)'
<1>1. /\ \A k \in 1..n + 1 : k \in 1..n \/ k = n + 1
      /\ \A k \in 1..n : k \in 1..n + 1
  OBVIOUS
<1>2. ASSUME NEW j \in 1..n, inbox[j].op = "tags", inbox[j].path = p,
             \A k \in j + 1..n : inbox[k].op # "tags"
      PROVE  /\ View(n, p)'
             /\ inbox'[n + 1].op # "tags" => View(n + 1, p)'
  <2>1. inbox'[j].op = "tags" /\ inbox'[j].path = p
    BY <1>2
  <2>2. \A k \in j + 1..n : inbox'[k].op # "tags"
    BY <1>2
  <2>3. \A k \in j + 1..n + 1 : k \in j + 1..n \/ k = n + 1
    OBVIOUS
  <2> QED
    BY <1>1, <2>1, <2>2, <2>3 DEF View
<1>3. CASE tag_path = p /\ \A k \in 1..n : inbox[k].op # "tags"
  BY <1>1, <1>3 DEF View
<1> QED
  BY <1>2, <1>3 DEF View

\* The last change of the tag is what counts.
LEMMA ViewNew ==
  ASSUME NEW n \in Nat, NEW p, inbox'[n + 1].op = "tags", inbox'[n + 1].path = p
  PROVE  View(n + 1, p)'
<1>1. n + 1 \in 1..n + 1 /\ \A k \in (n + 1) + 1..n + 1 : FALSE
  OBVIOUS
<1> QED
  BY <1>1 DEF View

\* A request's tag and write do not change with request i going on as r.
LEMMA SameTags ==
  ASSUME QueueType, ChainInv, NEW i \in Ids, NEW r, HandlerStep(i, r) \/ StartStep(i, r)
  PROVE  \A j \in Ids : req'[j].acq = req[j].acq /\ req'[j].hit = req[j].hit
<1>1. req' = [req EXCEPT ![i] = r]
  BY DEF HandlerStep, StartStep, Advance
<1>2. \A j \in Ids : req'[j] = IF j = i THEN r ELSE req[j]
  BY <1>1 DEF QueueType
<1>3. StartStep(i, r) => req[i].acq = NULL /\ req[i].hit = NULL
  BY DEF StartStep, ChainInv, MessageOK, RequestOK, Late
<1> QED
  BY <1>2, <1>3 DEF HandlerStep, StartStep

\* The messages left in the inbox keep their views.
LEMMA TakenPaths ==
  ASSUME QueueType, ChainInv, AcquiredPaths, inbox # <<>>, inbox' = Tail(inbox),
         tag_path' = IF Head(inbox).op = "tags" THEN Head(inbox).path ELSE tag_path,
         \A j \in Ids : req'[j].acq = req[j].acq /\ req'[j].hit = req[j].hit
  PROVE  /\ \A k \in 1..Len(inbox') :
              PathOK(k)'
         /\ \A p : View(Len(inbox), p) => View(Len(inbox), p)'
<1>1. /\ Head(inbox) = inbox[1] /\ Len(inbox) \in Nat \ {0}
      /\ Len(inbox') = Len(inbox) - 1
      /\ \A k \in 1..Len(inbox) - 1 : inbox'[k] = inbox[k + 1]
  BY Taken DEF QueueType
<1>2. ASSUME NEW k \in 1..Len(inbox')
      PROVE  PathOK(k)'
  <2>1. k + 1 \in 1..Len(inbox) /\ inbox'[k] = inbox[k + 1] /\ (k + 1) - 1 = k
    BY <1>1
  <2>2. inbox[k + 1].op # "tags" => inbox[k + 1].id \in Ids
    BY <2>1, OnTheBus DEF ChainInv, MessageOK
  <2>3. ASSUME NEW p, View(k, p)
        PROVE  View(k - 1, p)'
    <3>1. k \in 1..Len(inbox)
      BY <1>1
    <3> QED
      BY <2>3, <3>1, ViewShift
  <2>4. ASSUME inbox'[k].op \in AfterAcquire
        PROVE  inbox'[k].path = req'[inbox'[k].id].acq
    BY <2>1, <2>2, <2>4 DEF AcquiredPaths, PathOK, AfterAcquire
  <2>5. ASSUME inbox'[k].op = "acquire", inbox'[k].res = "ok"
        PROVE  /\ req'[inbox'[k].id].acq = inbox'[k].path
               /\ View(k - 1, inbox[k].path)'
    <3>1. req[inbox[k + 1].id].acq = inbox[k + 1].path /\ View(k, inbox[k + 1].path)
      BY <2>1, <2>5 DEF AcquiredPaths, PathOK
    <3>2. req'[inbox'[k].id].acq = inbox'[k].path
      BY <2>1, <2>2, <2>5, <3>1
    <3>3. View(k - 1, inbox[k].path)'
      <4> DEFINE p == inbox[k + 1].path
      <4>1. View(k, p)
        BY <3>1
      <4>2. p = inbox'[k].path
        BY <2>1
      <4> HIDE DEF p
      <4> QED
        BY <4>1, <4>2, <2>3 DEF View
    <3> QED
      BY <3>2, <3>3
  <2> QED
    BY <2>4, <2>5 DEF PathOK
<1>3. ASSUME NEW p, View(Len(inbox), p)
      PROVE  View(Len(inbox), p)'
  <2>0. Len(inbox) \in 1..Len(inbox)
    BY <1>1
  <2>1. PICK n \in 1..Len(inbox) : n = Len(inbox)
    BY <2>0
  <2>2. View(n, p) /\ Len(inbox') = n - 1
    BY <1>1, <1>3, <2>1
  <2>3. View(n - 1, p)'
    BY <2>2, ViewShift
  <2> QED
    BY <2>2, <2>3 DEF View
<1> QED
  BY <1>2, <1>3

\* The messages that were in the inbox keep their views when one more comes.
LEMMA KeptPaths ==
  ASSUME QueueType, AcquiredPaths, NEW m \in Messages, inbox' = Append(inbox, m),
         tag_path' = tag_path
  PROVE  /\ Len(inbox) \in Nat /\ Len(inbox') = Len(inbox) + 1
         /\ inbox'[Len(inbox) + 1] = m
         /\ \A k \in 1..Len(inbox') : k \in 1..Len(inbox) \/ k = Len(inbox) + 1
         /\ \A k \in 1..Len(inbox) :
              /\ inbox'[k] = inbox[k]
              /\ inbox[k].op = "acquire" /\ inbox[k].res = "ok" =>
                   View(k - 1, inbox[k].path)'
<1>1. /\ Len(inbox) \in Nat /\ Len(inbox') = Len(inbox) + 1 /\ inbox'[Len(inbox) + 1] = m
      /\ \A k \in 1..Len(inbox) : inbox'[k] = inbox[k]
  BY Appended DEF QueueType
<1>2. \A k \in 1..Len(inbox') : k \in 1..Len(inbox) \/ k = Len(inbox) + 1
  BY <1>1
<1>3. ASSUME NEW k \in 1..Len(inbox), inbox[k].op = "acquire", inbox[k].res = "ok"
      PROVE  View(k - 1, inbox[k].path)'
  <2>1. PICK v : v = inbox[k].path
    OBVIOUS
  <2>2. View(k - 1, v)
    BY <1>3, <2>1 DEF AcquiredPaths, PathOK
  <2>3. k - 1 \in Nat /\ \A l \in 1..k - 1 : l \in 1..Len(inbox)
    BY <1>1
  <2>4. View(k - 1, v)'
    BY <1>1, <2>2, <2>3, ViewKept
  <2>5. v = inbox'[k].path
    BY <1>1, <2>1
  <2> QED
    BY <2>4, <2>5 DEF View
<1> QED
  BY <1>1, <1>2, <1>3

\* Until nfcd crashes, every step keeps a chain's calls on the tag it has
\* acquired: a change of the tag that nfcd signalled before it granted the
\* lock is dispatched before the grant is.
LEMMA FirstRunStep ==
  ASSUME TypeInv, TypeInv', ChainInv, FirstRunInv, [Next]_vars
  PROVE  FirstRunInv'
<1>0. SUFFICES ASSUME crashes' = 0
               PROVE  (FirstNfcd /\ View(Len(inbox), npath) /\ AcquiredPaths)'
  BY DEF FirstRunInv
<1>q. QueueType /\ QueueType'
  BY DEF TypeInv, TypeOK, QueueType
<1>1. ASSUME crashes = 0
      PROVE  FirstNfcd /\ View(Len(inbox), npath) /\ AcquiredPaths
  BY <1>1 DEF FirstRunInv
<1>2. CASE set_current_tag
  <2>1. /\ crashes = 0 /\ inbox # <<>> /\ inbox' = Tail(inbox) /\ reqs' = reqs /\ req' = req
        /\ tag_path' = IF Head(inbox).op = "tags" THEN Head(inbox).path ELSE tag_path
        /\ UNCHANGED nfcdVars
    BY <1>0, <1>2 DEF set_current_tag, nfcdVars
  <2>2. AcquiredPaths'
    BY <1>1, <1>q, <2>1, TakenPaths DEF AcquiredPaths, PathOK
  <2>3. View(Len(inbox), npath)'
    <3>1. PICK p : p = npath
      OBVIOUS
    <3>2. View(Len(inbox), p)' /\ p = npath'
      BY <1>1, <1>q, <2>1, <3>1, TakenPaths DEF nfcdVars, npath
    <3> QED
      BY <3>2 DEF View
  <2> QED
    BY <1>1, <2>1, <2>2, <2>3 DEF FirstNfcd, nfcdVars
<1>3. CASE TagReadDone \/ UNCHANGED vars
  <2>1. UNCHANGED <<nfcdVars, reqs, inbox, req, tag_path>>
    BY <1>3 DEF TagReadDone, vars, nfcdVars, clientVars
  <2>2. FirstNfcd => FirstNfcd'
    BY <2>1 DEF FirstNfcd, nfcdVars
  <2>3. View(Len(inbox), npath) => View(Len(inbox), npath)'
    BY <2>1 DEF View, npath, nfcdVars
  <2>4. AcquiredPaths => AcquiredPaths'
    BY <2>1, SMTT(20) DEF AcquiredPaths, PathOK, View
  <2>5. crashes' = crashes
    BY <2>1 DEF nfcdVars
  <2> QED
    BY <1>0, <1>1, <2>2, <2>3, <2>4, <2>5
<1>4. CASE Crash
  BY <1>0, <1>4 DEF Crash, TypeInv, TypeOK
<1>5. CASE Restart \/ Attach
  BY <1>0, <1>1, <1>5 DEF Restart, Attach, FirstNfcd
<1>6. CASE PlaceTag \/ RemoveTag
  <2>1. /\ crashes = 0 /\ attached /\ reqs' = reqs /\ req' = req /\ tag_path' = tag_path
        /\ FirstNfcd' /\ inbox' = Append(inbox, TagsMsg(npath'))
    <3>1. crashes = 0 /\ reqs' = reqs /\ req' = req /\ tag_path' = tag_path
      BY <1>0, <1>6 DEF PlaceTag, RemoveTag, clientVars
    <3>2. FirstNfcd' /\ attached /\ inbox' = Append(inbox, TagsMsg(npath'))
      <4>1. CASE PlaceTag
        <5>1. placed + 1 # NULL
          BY DEF TypeInv, TypeOK, NULL
        <5> QED
          BY <1>1, <3>1, <4>1, <5>1 DEF PlaceTag, FirstNfcd, Signal, npath
      <4>2. CASE RemoveTag
        BY <1>1, <3>1, <4>2 DEF RemoveTag, FirstNfcd, Signal, npath
      <4> QED
        BY <1>6, <4>1, <4>2
    <3> QED
      BY <3>1, <3>2
  <2>2. PICK p : p = npath'
    OBVIOUS
  <2>3. TagsMsg(p) \in Messages /\ TagsMsg(p).op = "tags" /\ TagsMsg(p).path = p
    <3>1. p \in 0..MaxTags
      BY <2>2, WriteAssumption DEF npath, TypeInv, TypeOK, NULL
    <3> QED
      BY <3>1, WriteAssumption DEF TagsMsg, Messages
  <2>4. /\ Len(inbox) \in Nat /\ Len(inbox') = Len(inbox) + 1
        /\ inbox'[Len(inbox) + 1] = TagsMsg(p)
        /\ \A k \in 1..Len(inbox') : k \in 1..Len(inbox) \/ k = Len(inbox) + 1
        /\ \A k \in 1..Len(inbox) :
              /\ inbox'[k] = inbox[k]
              /\ inbox[k].op = "acquire" /\ inbox[k].res = "ok" =>
                   View(k - 1, inbox[k].path)'
    BY <1>1, <1>q, <2>1, <2>2, <2>3, KeptPaths
  <2>5. PICK n \in Nat : n = Len(inbox)
    BY <2>4
  <2>6. View(n + 1, p)'
    BY <2>3, <2>4, <2>5, ViewNew
  <2>7. View(Len(inbox), npath)'
    BY <2>2, <2>4, <2>5, <2>6 DEF View
  <2>9. ASSUME NEW k \in 1..Len(inbox')
        PROVE  PathOK(k)'
    <3>1. CASE k \in 1..Len(inbox)
      BY <1>1, <2>1, <2>4, <3>1 DEF AcquiredPaths, PathOK
    <3>2. CASE k = Len(inbox) + 1
      BY <2>3, <2>4, <3>2 DEF AfterAcquire, PathOK
    <3> QED
      BY <2>4, <3>1, <3>2
  <2>10. AcquiredPaths'
    BY <1>1, <2>1, <2>9 DEF AcquiredPaths, PathOK
  <2> QED
    BY <2>1, <2>7, <2>10
<1>7. ASSUME NEW i \in Ids, NEW r, HandlerStep(i, r)
      PROVE  (FirstNfcd /\ View(Len(inbox), npath) /\ AcquiredPaths)'
  <2>1. /\ crashes = 0 /\ inbox # <<>> /\ inbox' = Tail(inbox) /\ Head(inbox).id = i
        /\ tag_path' = tag_path /\ UNCHANGED nfcdVars
    BY <1>0, <1>7 DEF HandlerStep, nfcdVars, clientVars
  <2>2. Head(inbox) = inbox[1] /\ 1 \in 1..Len(inbox) /\ i # 0
    BY <1>q, <2>1, Taken, WriteAssumption DEF QueueType, Ids
  <2>3. Head(inbox).op # "tags"
    BY <2>1, <2>2 DEF ChainInv, MessageOK
  <2>4. \A j \in Ids : req'[j].acq = req[j].acq /\ req'[j].hit = req[j].hit
    BY <1>7, <1>q, SameTags
  <2>5. /\ \A k \in 1..Len(inbox') :
              PathOK(k)'
        /\ \A p : View(Len(inbox), p) => View(Len(inbox), p)'
    BY <1>1, <1>q, <2>1, <2>3, <2>4, TakenPaths
  <2>6. ASSUME NEW c \in Calls, reqs' = Append(reqs, c), c.id = i, c.op \in AfterAcquire
        PROVE  c.path = req[i].acq
    <3>1. CASE c.op = "type2_proxy"
      <4>1. Head(inbox).op = "acquire" /\ Head(inbox).res = "ok" /\ c.path = tag_path
        BY <1>7, <2>6, <3>1 DEF HandlerStep
      <4>2. req[i].acq = Head(inbox).path /\ View(0, Head(inbox).path)
        BY <1>1, <2>1, <2>2, <4>1 DEF AcquiredPaths, PathOK
      <4>3. tag_path = Head(inbox).path
        BY <4>2 DEF View
      <4> QED
        BY <4>1, <4>2, <4>3
    <3>2. CASE c.op # "type2_proxy"
      <4>1. Head(inbox).op \in AfterAcquire /\ c.path = Head(inbox).path
        BY <1>7, <2>6, <3>2 DEF HandlerStep
      <4> QED
        BY <1>1, <2>1, <2>2, <4>1 DEF AcquiredPaths, PathOK
    <3> QED
      BY <3>1, <3>2
  <2>7. \A k \in 1..Len(reqs') :
          reqs'[k].op \in AfterAcquire => reqs'[k].path = req'[reqs'[k].id].acq
    <3>0. \A k \in 1..Len(reqs) :
            reqs[k].op \in AfterAcquire => reqs[k].path = req'[reqs[k].id].acq
      BY <1>1, <1>q, <2>1, <2>4, OnTheBus DEF AcquiredPaths, PathOK
    <3>1. CASE reqs' = reqs
      BY <3>0, <3>1
    <3>2. ASSUME NEW c \in Calls, reqs' = Append(reqs, c), c.id = i
          PROVE  \A k \in 1..Len(reqs') :
                   reqs'[k].op \in AfterAcquire => reqs'[k].path = req'[reqs'[k].id].acq
      <4>1. /\ Len(reqs) \in Nat /\ Len(reqs') = Len(reqs) + 1 /\ reqs'[Len(reqs) + 1] = c
            /\ \A k \in 1..Len(reqs) : reqs'[k] = reqs[k]
        BY <1>q, <3>2, Appended DEF QueueType
      <4>2. \A k \in 1..Len(reqs') : k \in 1..Len(reqs) \/ k = Len(reqs) + 1
        BY <4>1
      <4>3. c.op \in AfterAcquire => c.path = req'[c.id].acq
        BY <2>4, <2>6, <3>2
      <4> QED
        BY <3>0, <4>1, <4>2, <4>3
    <3> QED
      BY <1>7, <3>1, <3>2 DEF HandlerStep, Advance
  <2>8. AcquiredPaths'
    BY <1>1, <2>1, <2>4, <2>5, <2>7 DEF AcquiredPaths, PathOK
  <2>9. View(Len(inbox), npath)'
    <3>1. PICK p : p = npath
      OBVIOUS
    <3>2. View(Len(inbox), p)' /\ p = npath'
      BY <1>1, <2>1, <2>5, <3>1 DEF nfcdVars, npath
    <3> QED
      BY <3>2 DEF View
  <2> QED
    BY <1>1, <2>1, <2>8, <2>9 DEF FirstNfcd, nfcdVars
<1>8. ASSUME NEW i \in Ids, NEW r, StartStep(i, r)
      PROVE  (FirstNfcd /\ View(Len(inbox), npath) /\ AcquiredPaths)'
  <2>1. /\ crashes = 0 /\ inbox' = inbox /\ tag_path' = tag_path /\ UNCHANGED nfcdVars
    BY <1>0, <1>8 DEF StartStep, nfcdVars, clientVars
  <2>2. \A j \in Ids : req'[j].acq = req[j].acq /\ req'[j].hit = req[j].hit
    BY <1>8, <1>q, SameTags
  <2>3. \A k \in 1..Len(reqs') :
          reqs'[k].op \in AfterAcquire => reqs'[k].path = req'[reqs'[k].id].acq
    <3>0. \A k \in 1..Len(reqs) :
            reqs[k].op \in AfterAcquire => reqs[k].path = req'[reqs[k].id].acq
      BY <1>1, <1>q, <2>1, <2>2, OnTheBus DEF AcquiredPaths, PathOK
    <3>1. CASE reqs' = reqs
      BY <3>0, <3>1
    <3>2. ASSUME NEW c \in Calls, reqs' = Append(reqs, c)
          PROVE  \A k \in 1..Len(reqs') :
                   reqs'[k].op \in AfterAcquire => reqs'[k].path = req'[reqs'[k].id].acq
      <4>1. /\ Len(reqs) \in Nat /\ Len(reqs') = Len(reqs) + 1 /\ reqs'[Len(reqs) + 1] = c
            /\ \A k \in 1..Len(reqs) : reqs'[k] = reqs[k]
        BY <1>q, <3>2, Appended DEF QueueType
      <4>2. \A k \in 1..Len(reqs') : k \in 1..Len(reqs) \/ k = Len(reqs) + 1
        BY <4>1
      <4>3. c.op \notin AfterAcquire
        BY <1>8, <3>2 DEF StartStep, AfterAcquire
      <4> QED
        BY <3>0, <4>1, <4>2, <4>3
    <3> QED
      BY <1>8, <3>1, <3>2 DEF StartStep, Advance
  <2>4. \A k \in 1..Len(inbox) : inbox[k].op # "tags" => inbox[k].id \in Ids
    BY <1>q, OnTheBus DEF ChainInv, MessageOK
  <2>5. \A k, p : View(k, p) => View(k, p)'
    BY <2>1 DEF View
  <2>6. AcquiredPaths'
    <3>1. ASSUME NEW k \in 1..Len(inbox')
          PROVE  PathOK(k)'
      <4>1. k \in 1..Len(inbox) /\ inbox'[k] = inbox[k]
        BY <2>1
      <4>2. View(k - 1, inbox[k].path) => View(k - 1, inbox[k].path)'
        BY <2>1 DEF View
      <4> QED
        BY <1>1, <2>1, <2>2, <2>4, <4>1, <4>2 DEF AcquiredPaths, PathOK, AfterAcquire
    <3> QED
      BY <1>1, <2>1, <2>2, <2>3, <3>1 DEF AcquiredPaths, PathOK
  <2>7. View(Len(inbox), npath)'
    BY <1>1, <2>1 DEF View, npath, nfcdVars
  <2> QED
    BY <1>1, <2>1, <2>6, <2>7 DEF FirstNfcd, nfcdVars
<1>9. ASSUME NEW q, NEW m, NEW r, ServeStep(q, m, r)
      PROVE  (FirstNfcd /\ View(Len(inbox), npath) /\ AcquiredPaths)'
  <2> DEFINE o == req[q.id]
  <2>1. /\ crashes = 0 /\ tag_path' = tag_path /\ FirstNfcd' /\ npath' = npath
        /\ inbox' = Append(inbox, m) /\ m \in Messages /\ m.id = q.id /\ m.op = q.op
        /\ m.path = q.path
    BY <1>0, <1>1, <1>9 DEF ServeStep, clientVars, FirstNfcd, npath
  <2>2. /\ q = reqs[1] /\ Len(reqs) \in Nat \ {0} /\ Len(reqs') = Len(reqs) - 1
        /\ \A k \in 1..Len(reqs) - 1 : reqs'[k] = reqs[k + 1]
    BY <1>9, <1>q, Taken DEF QueueType, ServeStep
  <2>3. 1 \in 1..Len(reqs)
    BY <2>2
  <2>4. q \in Calls /\ q.id \in Ids /\ CallOK(q, o) /\ RequestOK(o) /\ q.op # "tags"
    BY <1>q, <2>2, <2>3, OnTheBus DEF ChainInv, MessageOK, CallOK, Ops
  <2>5. \A j \in Ids : req'[j] = IF j = q.id THEN r ELSE req[j]
    BY <1>9, <1>q, <2>4 DEF ServeStep, QueueType
  <2>6. /\ Len(inbox) \in Nat /\ Len(inbox') = Len(inbox) + 1
        /\ inbox'[Len(inbox) + 1] = m
        /\ \A k \in 1..Len(inbox') : k \in 1..Len(inbox) \/ k = Len(inbox) + 1
        /\ \A k \in 1..Len(inbox) :
              /\ inbox'[k] = inbox[k]
              /\ inbox[k].op = "acquire" /\ inbox[k].res = "ok" =>
                   View(k - 1, inbox[k].path)'
    BY <1>1, <1>q, <2>1, KeptPaths
  <2>7. /\ \A k \in 1..Len(reqs') : /\ k + 1 \in 1..Len(reqs) /\ reqs'[k] = reqs[k + 1]
                                    /\ reqs'[k].id \in Ids /\ reqs'[k].id # q.id
        /\ \A k \in 1..Len(inbox) : /\ inbox[k].id # q.id
                                    /\ inbox[k].op # "tags" => inbox[k].id \in Ids
    <3>1. \A k \in 1..Len(reqs') :
            k + 1 \in 1..Len(reqs) /\ k + 1 # 1 /\ reqs'[k] = reqs[k + 1]
      BY <2>2
    <3>2. q.id # 0
      BY <2>4, WriteAssumption DEF Ids
    <3> QED
      BY <1>q, <2>2, <2>3, <3>1, <3>2, OnTheBus DEF ChainInv, MessageOK, Distinct, Apart
  <2>8. npath # NULL => ntag = npath /\ ntag # NULL
    BY <1>1, <2>1 DEF FirstNfcd, npath
  <2>9. q.op \in AfterAcquire => q.path = o.acq
    BY <1>1, <2>1, <2>2, <2>3 DEF AcquiredPaths, PathOK
  <2>10. q.path # NULL /\ (q.op \notin WriteOps => (o.hit # NULL => o.hit = o.acq))
         /\ (q.op = "acquire" => o.hit = NULL)
    BY <1>1, <2>1, <2>4 DEF CallOK, RequestOK, AcquiredPaths, PathOK, Late
  <2>11. /\ q.op # "acquire" => r.acq = o.acq
         /\ q.op = "acquire" /\ m.res = "ok" => r.acq = q.path /\ q.path = npath
         /\ r.hit # NULL => r.hit = r.acq
    <3> HIDE DEF o
    <3>1. o.hit # NULL => o.hit = o.acq
      BY <1>1, <2>1, <2>4 DEF AcquiredPaths, PathOK, o
    <3>2. WriteOps \subseteq AfterAcquire
      BY DEF WriteOps, AfterAcquire
    <3> QED
      BY <1>9, <2>1, <2>8, <2>9, <2>10, <3>1, <3>2 DEF ServeStep, o, WriteOps
  <2>12. \A k \in 1..Len(reqs') :
           reqs'[k].op \in AfterAcquire => reqs'[k].path = req'[reqs'[k].id].acq
    BY <1>1, <2>1, <2>5, <2>7, SMTT(20) DEF AcquiredPaths, PathOK
  <2>13. PICK n \in Nat : n = Len(inbox)
    BY <2>6
  <2>14. PICK p : p = npath
    OBVIOUS
  <2>15. View(n, p)' /\ View(n + 1, p)'
    BY <1>1, <2>1, <2>4, <2>6, <2>13, <2>14, ViewKept
  <2>16. View(Len(inbox), npath)'
    BY <2>1, <2>6, <2>13, <2>14, <2>15 DEF View
  <2>17. ASSUME NEW k \in 1..Len(inbox')
         PROVE  PathOK(k)'
    <3>1. CASE k \in 1..Len(inbox)
      BY <1>1, <2>1, <2>5, <2>6, <2>7, <3>1 DEF AcquiredPaths, PathOK, AfterAcquire
    <3>2. CASE k = Len(inbox) + 1
      <4>1. inbox'[k] = m /\ req'[m.id] = r
        BY <2>1, <2>4, <2>5, <2>6, <3>2
      <4>2. ASSUME m.op \in AfterAcquire
            PROVE  m.path = r.acq
        BY <2>1, <2>9, <2>11, <4>2 DEF AfterAcquire
      <4>3. ASSUME m.op = "acquire", m.res = "ok"
            PROVE  r.acq = m.path /\ View(k - 1, inbox[k].path)'
        <5>1. r.acq = m.path /\ inbox'[k].path = p /\ k - 1 = n
          BY <2>1, <2>11, <2>13, <2>14, <3>2, <4>1, <4>3
        <5> QED
          BY <2>15, <5>1 DEF View
      <4> QED
        BY <4>1, <4>2, <4>3 DEF PathOK
    <3> QED
      BY <2>6, <3>1, <3>2
  <2>18. \A j \in Ids : req'[j].hit # NULL => req'[j].hit = req'[j].acq
    BY <1>1, <2>1, <2>5, <2>11 DEF AcquiredPaths, PathOK
  <2> QED
    BY <2>1, <2>12, <2>16, <2>17, <2>18 DEF AcquiredPaths, PathOK
<1> QED
  BY <1>2, <1>3, <1>4, <1>5, <1>6, <1>7, <1>8, <1>9, Steps DEF Nfcd, TypeInv

-----------------------------------------------------------------------------
(* The locks.                                                              *)

\* There are finitely many requests to count.
LEMMA HoldersFinite ==
  ASSUME NEW S, S \subseteq Ids
  PROVE  IsFiniteSet(S) /\ Cardinality(S) \in Nat
<1>1. IsFiniteSet(Ids)
  BY FS_Interval, WriteAssumption DEF Ids
<1> QED
  BY <1>1, FS_Subset, FS_CardinalityType

\* More holders, no more locks.
LEMMA LocksKept ==
  ASSUME TypeOK, LockInv, Holders \subseteq Holders', locks' \in Nat, locks' <= locks
  PROVE  locks' <= Cardinality(Holders)'
<1>1. Holders' \subseteq Ids /\ Holders \subseteq Ids
  BY DEF Holders
<1>2. /\ IsFiniteSet(Holders') /\ Cardinality(Holders') \in Nat
      /\ Cardinality(Holders) \in Nat
  BY <1>1, HoldersFinite
<1>3. Cardinality(Holders) <= Cardinality(Holders')
  BY <1>2, FS_Subset
<1>4. locks <= Cardinality(Holders) /\ locks \in Nat
  BY DEF LockInv, TagsHeld, TypeOK
<1> QED
  BY <1>2, <1>3, <1>4

\* A handler drops no request from the holders: the chain ends with the
\* answer to its release, or with an Acquire() that was not granted.
LEMMA HandlerLocks ==
  ASSUME TypeInv, TypeInv', ChainInv, LockInv, NEW i \in Ids, NEW r, HandlerStep(i, r)
  PROVE  LockInv'
<1>q. QueueType
  BY DEF TypeInv, TypeOK, QueueType
<1>1. /\ inbox # <<>> /\ inbox' = Tail(inbox) /\ Head(inbox).id = i /\ UNCHANGED nfcdVars
      /\ r \in Requests /\ RequestOK(r) /\ req' = [req EXCEPT ![i] = r]
      /\ r.path = req[i].path /\ r.acq = req[i].acq /\ r.stage # "idle"
      /\ (r.stage = "done" => Head(inbox).op = "release" \/ r.acq = NULL)
  BY DEF HandlerStep, Advance
<1>2. \A j \in Ids : req'[j] = IF j = i THEN r ELSE req[j]
  BY <1>1, <1>q DEF QueueType
<1>3. TagsHeld'
  BY <1>1, <1>2 DEF LockInv, TagsHeld, nfcdVars
<1>4. /\ Head(inbox) = inbox[1] /\ Len(inbox) \in Nat \ {0} /\ Len(inbox') = Len(inbox) - 1
      /\ \A k \in 1..Len(inbox) - 1 : inbox'[k] = inbox[k + 1]
  BY <1>q, <1>1, Taken DEF QueueType
<1>5. ASSUME NEW j \in Ids, Released(j)'
      PROVE  Released(j)
  <2>1. PICK k \in 1..Len(inbox') : inbox'[k].id = j /\ inbox'[k].op = "release"
    BY <1>5 DEF Released
  <2>2. k + 1 \in 1..Len(inbox) /\ inbox'[k] = inbox[k + 1]
    BY <1>4
  <2> QED
    BY <2>1, <2>2 DEF Released
<1>6. ASSUME NEW j \in Holders
      PROVE  j \in Holders'
  <2>1. j \in Ids /\ ntag # NULL /\ req[j].acq = ntag /\ req[j].stage \in Locked /\ ~Released(j)
    BY <1>6 DEF Holders, Holding
  <2>2. ntag' = ntag
    BY <1>1 DEF nfcdVars
  <2>3. ~Released(j)'
    BY <1>5, <2>1
  <2>4. CASE j # i
    BY <1>2, <2>1, <2>2, <2>3, <2>4 DEF Holders, Holding
  <2>5. CASE j = i
    <3>1. Head(inbox).op # "release"
      <4>1. 1 \in 1..Len(inbox)
        BY <1>4
      <4> QED
        BY <1>1, <1>4, <2>1, <2>5, <4>1 DEF Released
    <3>2. r.acq # NULL /\ r.acq = ntag
      BY <1>1, <2>1, <2>5
    <3>3. r.stage \notin {"idle", "tag_proxy", "done"}
      BY <1>1, <3>1, <3>2 DEF RequestOK
    <3>4. r.stage \in Ops \union {"idle", "done"}
      BY <1>1 DEF Requests
    <3>5. r.stage \in Locked
      BY <3>3, <3>4 DEF Ops, Locked, AfterAcquire
    <3> QED
      BY <1>2, <2>1, <2>2, <2>3, <2>5, <3>2, <3>5 DEF Holders, Holding
  <2> QED
    BY <2>4, <2>5
<1>7. locks' = locks /\ locks' \in Nat
  BY <1>1 DEF nfcdVars, TypeInv, TypeOK
<1>8. locks' <= Cardinality(Holders)'
  BY <1>6, <1>7, LocksKept, SMTT(20) DEF TypeInv, TypeOK
<1> QED
  BY <1>3, <1>8 DEF TagsHeld, LockInv

\* A new request holds nothing yet.
LEMMA StartLocks ==
  ASSUME TypeInv, TypeInv', ChainInv, LockInv, NEW i \in Ids, NEW r, StartStep(i, r)
  PROVE  LockInv'
<1>q. QueueType
  BY DEF TypeInv, TypeOK, QueueType
<1>1. /\ UNCHANGED nfcdVars /\ inbox' = inbox /\ req' = [req EXCEPT ![i] = r]
      /\ r.acq = NULL /\ req[i].stage = "idle"
  BY DEF StartStep, Advance
<1>2. \A j \in Ids : req'[j] = IF j = i THEN r ELSE req[j]
  BY <1>1, <1>q DEF QueueType
<1>3. TagsHeld'
  BY <1>1, <1>2 DEF LockInv, TagsHeld, nfcdVars, TypeInv, TypeOK, NULL
<1>4. Holders \subseteq Holders'
  BY <1>1, <1>2 DEF Holders, Holding, Released, Locked, AfterAcquire, nfcdVars
<1>5. locks' = locks /\ locks' \in Nat
  BY <1>1 DEF nfcdVars, TypeInv, TypeOK
<1>6. locks' <= Cardinality(Holders)'
  BY <1>4, <1>5, LocksKept, SMTT(20) DEF TypeInv, TypeOK
<1> QED
  BY <1>3, <1>6 DEF TagsHeld, LockInv

\* nfcd counts a lock for each grant, and one less for each release it takes.
\* It refuses a release only when the tag has gone.
LEMMA ServeLocks ==
  ASSUME TypeInv, TypeInv', ChainInv, LockInv, NEW q, NEW m, NEW r, ServeStep(q, m, r)
  PROVE  LockInv'
<1> DEFINE o == req[q.id]
<1>q. QueueType /\ QueueType'
  BY DEF TypeInv, TypeOK, QueueType
<1>1. q = reqs[1] /\ 1 \in 1..Len(reqs)
  BY <1>q, Taken DEF QueueType, ServeStep
<1>2. q \in Calls /\ q.id \in Ids /\ CallOK(q, o) /\ RequestOK(o) /\ q.id # 0
  BY <1>q, <1>1, OnTheBus, WriteAssumption DEF ChainInv, MessageOK, Ids
<1>3. \A j \in Ids : req'[j] = IF j = q.id THEN r ELSE req[j]
  BY <1>q, <1>2 DEF ServeStep, QueueType
<1>4. /\ Len(inbox) \in Nat /\ Len(inbox') = Len(inbox) + 1
      /\ inbox'[Len(inbox) + 1] = m /\ m.id = q.id /\ m.op = q.op
      /\ \A k \in 1..Len(inbox) : inbox'[k] = inbox[k]
      /\ \A k \in 1..Len(inbox') : k \in 1..Len(inbox) \/ k = Len(inbox) + 1
  <2>1. m \in Messages /\ inbox' = Append(inbox, m) /\ m.id = q.id /\ m.op = q.op
    BY DEF ServeStep
  <2>2. /\ Len(inbox) \in Nat /\ Len(inbox') = Len(inbox) + 1
        /\ inbox'[Len(inbox) + 1] = m
        /\ \A k \in 1..Len(inbox) : inbox'[k] = inbox[k]
    BY <1>q, <2>1, Appended DEF QueueType
  <2> QED
    BY <2>1, <2>2
<1>5. \A k \in 1..Len(inbox) : inbox[k].id # q.id
  BY <1>1 DEF ChainInv, MessageOK, Apart
<1>6. /\ r.stage = o.stage /\ r.path = o.path /\ ntag' = ntag /\ placed' = placed
      /\ last_path' = last_path /\ up' = up
  BY DEF ServeStep
<1>7. \/ q.op = "acquire" /\ m.res = "ok" /\ q.path = npath /\ npath # NULL /\ r.acq = ntag
      \/ r.acq = o.acq
  BY DEF ServeStep
<1>8. TagsHeld'
  <2>1. /\ r.acq <= placed
        /\ ntag # NULL /\ r.acq = ntag => r.path = last_path
    <3>1. CASE q.op = "acquire" /\ q.path = npath /\ npath # NULL /\ r.acq = ntag
      BY <1>2, <1>6, <3>1 DEF CallOK, npath, LockInv, TagsHeld
    <3>2. CASE r.acq = o.acq
      BY <1>2, <1>6, <3>2 DEF LockInv, TagsHeld
    <3> QED
      BY <1>7, <3>1, <3>2
  <2> QED
    BY <1>3, <1>6, <2>1 DEF LockInv, TagsHeld
<1>9. ASSUME NEW j \in Ids
      PROVE  Released(j)' <=> Released(j) \/ (j = q.id /\ q.op = "release")
  <2>1. Len(inbox) + 1 \in 1..Len(inbox') /\ \A k \in 1..Len(inbox) : k \in 1..Len(inbox')
    BY <1>4
  <2> QED
    BY <1>4, <2>1 DEF Released
<1>10. ~Released(q.id)
  BY <1>5 DEF Released
<1>11. ASSUME NEW j \in Ids, j # q.id
       PROVE  j \in Holders <=> j \in Holders'
  BY <1>3, <1>6, <1>9, <1>11 DEF Holders, Holding
<1>12. Holders \subseteq Ids /\ Holders' \subseteq Ids
  BY DEF Holders
<1>13. /\ IsFiniteSet(Holders) /\ Cardinality(Holders) \in Nat
       /\ IsFiniteSet(Holders') /\ Cardinality(Holders') \in Nat
  BY <1>12, HoldersFinite
<1>14. locks \in Nat /\ locks' \in Nat /\ locks <= Cardinality(Holders)
  BY DEF TypeInv, TypeOK, LockInv, TagsHeld
<1>15. CASE q.op = "acquire" /\ m.res = "ok" /\ npath # NULL /\ r.acq = ntag
            /\ locks' = locks + 1
  <2>1. ntag # NULL
    BY <1>15 DEF npath
  <2>2. q.id \notin Holders
    BY <1>2, <1>15, <2>1 DEF CallOK, Holders
  <2>3. q.id \in Holders'
    <3>1. ~Released(q.id)'
      BY <1>2, <1>9, <1>10, <1>15
    <3>2. r.stage \in Locked
      BY <1>2, <1>6, <1>15 DEF CallOK, Locked, AfterAcquire
    <3> QED
      BY <1>2, <1>3, <1>6, <1>15, <2>1, <3>1, <3>2 DEF Holders, Holding
  <2>4. Holders' = Holders \union {q.id}
    BY <1>2, <1>11, <1>12, <2>3
  <2>5. Cardinality(Holders') = Cardinality(Holders) + 1
    BY <1>13, <2>2, <2>4, FS_AddElement
  <2> QED
    BY <1>8, <1>13, <1>14, <1>15, <2>5 DEF TagsHeld, LockInv
<1>16. CASE q.op = "release" /\ m.res = "ok" /\ locks > 0 /\ locks' = locks - 1
  <2>1. Holders \ {q.id} \subseteq Holders'
    BY <1>11, <1>12
  <2>2. /\ IsFiniteSet(Holders \ {q.id}) /\ Cardinality(Holders \ {q.id}) \in Nat
        /\ Cardinality(Holders \ {q.id}) >= Cardinality(Holders) - 1
    <3>1. Holders \ {q.id} \subseteq Ids
      BY <1>12
    <3>2. IsFiniteSet(Holders \ {q.id}) /\ Cardinality(Holders \ {q.id}) \in Nat
      BY <3>1, HoldersFinite
    <3>3. CASE q.id \in Holders
      BY <1>13, <3>2, <3>3, FS_RemoveElement
    <3>4. CASE q.id \notin Holders
      <4>1. Holders \ {q.id} = Holders
        BY <3>4
      <4> QED
        BY <1>13, <3>2, <4>1
    <3> QED
      BY <3>2, <3>3, <3>4
  <2>3. Cardinality(Holders \ {q.id}) <= Cardinality(Holders')
    BY <1>13, <2>1, FS_Subset
  <2>4. locks' <= Cardinality(Holders')
    BY <1>13, <1>14, <1>16, <2>2, <2>3
  <2> QED
    BY <1>8, <2>4 DEF TagsHeld, LockInv
<1>17. CASE /\ locks' = locks /\ r.acq = o.acq
            /\ q.op = "release" =>
                 (~up \/ npath = NULL \/ q.path # npath \/ locks = 0)
  <2>1. CASE locks = 0
    <3>1. locks' <= Cardinality(Holders')
      BY <1>13, <1>17, <2>1
    <3> QED
      BY <1>8, <3>1 DEF TagsHeld, LockInv
  <2>2. CASE locks # 0
    <3>1. ASSUME q.id \in Holders
          PROVE  q.id \in Holders'
      <4>1. ntag # NULL /\ o.acq = ntag /\ o.stage \in Locked
        BY <3>1 DEF Holders, Holding
      <4>2. up /\ o.path = last_path /\ npath = last_path
        BY <1>2, <4>1 DEF LockInv, TagsHeld, npath
      <4>3. q.op # "release"
        <5>1. ASSUME q.op = "release"
              PROVE  FALSE
          <6>1. q.path = o.path /\ q.path # NULL
            BY <1>2, <5>1 DEF CallOK
          <6> QED
            BY <1>17, <2>2, <4>2, <5>1, <6>1
        <5> QED
          BY <5>1
      <4>4. ~Released(q.id)'
        BY <1>2, <1>9, <1>10, <4>3
      <4> QED
        BY <1>2, <1>3, <1>6, <1>17, <4>1, <4>4 DEF Holders, Holding
    <3>2. Holders \subseteq Holders'
      BY <1>11, <1>12, <3>1
    <3>3. locks' <= Cardinality(Holders)'
      BY <1>14, <1>17, <3>2, LocksKept DEF TypeInv
    <3> QED
      BY <1>8, <3>3 DEF TagsHeld, LockInv
  <2> QED
    BY <2>1, <2>2
<1> QED
  BY <1>15, <1>16, <1>17 DEF ServeStep, WriteOps

\* No step leaves a lock that no chain will give back.
LEMMA LockStep ==
  ASSUME TypeInv, TypeInv', ChainInv, LockInv, [Next]_vars
  PROVE  LockInv'
<1>q. QueueType /\ QueueType' /\ locks \in Nat /\ locks' \in Nat
  BY DEF TypeInv, TypeOK, QueueType
<1>1. CASE TagReadDone \/ UNCHANGED vars
  BY <1>1 DEF TagReadDone, vars, nfcdVars, LockInv, TagsHeld, Holders, Holding, Released
<1>2. ASSUME TagsHeld', \A i \in Ids : Released(i)' => Released(i),
             UNCHANGED <<req, ntag, locks>>
      PROVE  LockInv'
  <2>1. Holders \subseteq Holders'
    BY <1>2 DEF Holders, Holding
  <2>2. locks' <= Cardinality(Holders)'
    BY <1>q, <1>2, <2>1, LocksKept DEF TypeInv
  <2> QED
    BY <1>2, <2>2 DEF TagsHeld, LockInv
<1>3. CASE set_current_tag
  <2>1. inbox # <<>> /\ inbox' = Tail(inbox) /\ UNCHANGED <<nfcdVars, req>>
    BY <1>3 DEF set_current_tag
  <2>2. /\ Len(inbox) \in Nat \ {0} /\ Len(inbox') = Len(inbox) - 1
        /\ \A k \in 1..Len(inbox) - 1 : inbox'[k] = inbox[k + 1]
    BY <1>q, <2>1, Taken DEF QueueType
  <2>3. \A k \in 1..Len(inbox') : k + 1 \in 1..Len(inbox) /\ inbox'[k] = inbox[k + 1]
    BY <2>2
  <2>4. \A i \in Ids : Released(i)' => Released(i)
    BY <2>3 DEF Released
  <2>5. TagsHeld'
    BY <2>1 DEF LockInv, TagsHeld, nfcdVars
  <2> QED
    BY <1>2, <2>1, <2>4, <2>5 DEF nfcdVars
<1>4. CASE Restart
  BY <1>4 DEF Restart, LockInv, TagsHeld, Holders, Holding, Released
<1>5. CASE Attach
  <2>1. npath \in 0..MaxTags
    BY WriteAssumption DEF TypeInv, TypeOK, npath, NULL
  <2>2. TagsMsg(npath) \in Messages /\ TagsMsg(npath).op = "tags"
    BY <2>1, WriteAssumption DEF TagsMsg, Messages
  <2>3. /\ Len(inbox) \in Nat /\ Len(inbox') = Len(inbox) + 1
        /\ inbox'[Len(inbox) + 1] = TagsMsg(npath)
        /\ \A k \in 1..Len(inbox) : inbox'[k] = inbox[k]
    BY <1>q, <1>5, <2>2, Appended DEF QueueType, Attach
  <2>4. \A k \in 1..Len(inbox') : k \in 1..Len(inbox) \/ k = Len(inbox) + 1
    BY <2>3
  <2>5. \A i \in Ids : Released(i)' => Released(i)
    BY <2>2, <2>3, <2>4 DEF Released
  <2>6. TagsHeld' /\ UNCHANGED <<req, ntag, locks>>
    BY <1>5 DEF Attach, LockInv, TagsHeld
  <2> QED
    BY <1>2, <2>5, <2>6
<1>6. CASE PlaceTag \/ RemoveTag \/ Crash
  <2>1. TagsHeld'
    <3>1. \A i \in Ids : req[i].acq \in Nat
      BY DEF TypeInv, TypeOK, Requests
    <3>2. placed \in Nat /\ NULL = 0 /\ req' = req
      BY <1>6 DEF TypeInv, TypeOK, NULL, PlaceTag, RemoveTag, Crash
    <3>3. CASE PlaceTag
      BY <3>1, <3>2, <3>3 DEF PlaceTag, LockInv, TagsHeld
    <3>4. CASE RemoveTag \/ Crash
      BY <3>1, <3>2, <3>4 DEF RemoveTag, Crash, LockInv, TagsHeld
    <3> QED
      BY <1>6, <3>3, <3>4
  <2>2. locks' = 0
    <3>1. CASE PlaceTag
      <4>1. Holders = {} /\ locks' = locks
        BY <3>1 DEF PlaceTag, Holders
      <4>2. Cardinality(Holders) = 0
        BY <4>1, FS_EmptySet
      <4> QED
        BY <1>q, <4>1, <4>2 DEF LockInv, TagsHeld
    <3> QED
      BY <1>6, <3>1 DEF RemoveTag, Crash
  <2>3. Cardinality(Holders') \in Nat
    BY HoldersFinite DEF Holders
  <2>4. locks' <= Cardinality(Holders')
    BY <2>2, <2>3
  <2> QED
    BY <2>1, <2>4 DEF TagsHeld, LockInv
<1> QED
  BY <1>1, <1>3, <1>4, <1>5, <1>6, Steps, HandlerLocks, StartLocks, ServeLocks
     DEF Nfcd, TypeInv

-----------------------------------------------------------------------------
(* The theorems.                                                           *)

\* The invariant holds at first.
LEMMA WriteInvInit ==
  ASSUME Init
  PROVE  WriteInv
<1>1. TypeInv /\ ChainInv
  BY ChainInit
<1>2. Len(reqs) = 0 /\ Len(inbox) = 0
  BY EmptySeq DEF Init
<1>3. \A i \in Ids : req[i].acq = NULL /\ req[i].hit = NULL
  BY DEF Init, NoReq
<1>4. View(Len(inbox), npath)
  BY <1>2 DEF Init, View, npath
<1>5. FirstRunInv
  BY <1>2, <1>3, <1>4 DEF FirstRunInv, FirstNfcd, AcquiredPaths, PathOK, Init
<1>6. Cardinality(Holders) \in Nat
  BY HoldersFinite DEF Holders
<1>7. LockInv
  BY <1>3, <1>6 DEF LockInv, TagsHeld, Init, NULL
<1> QED
  BY <1>1, <1>5, <1>7 DEF WriteInv

\* The invariant holds: at any time, with any number of requests, tags and
\* crashes, every chain waits for the one call or answer it has on the bus.
THEOREM WriteInvariant == Spec => []WriteInv
<1>1. Init => WriteInv
  BY WriteInvInit
<1>2. WriteInv /\ [Next]_vars => WriteInv'
  <2> SUFFICES ASSUME WriteInv, [Next]_vars
               PROVE  WriteInv'
    OBVIOUS
  <2>1. TypeInv'
    BY TypeStep DEF WriteInv
  <2> QED
    BY <2>1, ChainStep, FirstRunStep, LockStep DEF WriteInv
<1> QED
  BY <1>1, <1>2, PTL DEF Spec

\* The state of the client, of nfcd and of the bus stays well typed.
THEOREM TypeCorrect == Spec => []TypeOK
<1>1. WriteInv => TypeOK
  BY DEF WriteInv, TypeInv
<1> QED
  BY <1>1, WriteInvariant, PTL

\* A caller of writeTag, cloneTag or lockTag that is told "success" has its
\* data, or the lock bits, on a tag in full.
THEOREM SuccessIsWritten == Spec => []SuccessMeansWritten
<1>1. WriteInv => SuccessMeansWritten
  BY DEF WriteInv, ChainInv, MessageOK, RequestOK, Done, SuccessMeansWritten
<1> QED
  BY <1>1, WriteInvariant, PTL

\* Until nfcd crashes, a write reaches only the tag its request has acquired,
\* although acquire_ready() makes the Type 2 proxy for client->tag_path as it
\* is by then.
THEOREM WritesAreExclusive == Spec => []ExclusiveAccess
<1>1. WriteInv => ExclusiveAccess
  BY DEF WriteInv, FirstRunInv, AcquiredPaths, PathOK, ExclusiveAccess
<1> QED
  BY <1>1, WriteInvariant, PTL

\* When every request has been answered, nfcd counts no lock of the client.
THEOREM LocksAreReturned == Spec => []NoLockLeft
<1>1. WriteInv => NoLockLeft
  <2> SUFFICES ASSUME WriteInv, \A i \in Ids : req[i].stage \in {"idle", "done"}
               PROVE  locks = 0
    BY DEF NoLockLeft
  <2>1. Holders = {}
    BY DEF Holders, Holding, Locked, AfterAcquire
  <2>2. Cardinality(Holders) = 0
    BY <2>1, FS_EmptySet
  <2>3. locks \in Nat /\ locks <= Cardinality(Holders)
    BY DEF WriteInv, TypeInv, TypeOK, LockInv, TagsHeld
  <2> QED
    BY <2>2, <2>3
<1> QED
  BY <1>1, WriteInvariant, PTL

\* The refinement mapping for one request: what its caller was told, and how
\* much of what it writes is on a tag.
Told(r) == IF r.reply = "success" THEN "ok"
           ELSE IF r.reply = "error" THEN "failed"
           ELSE IF r.stage = "idle" THEN "idle" ELSE "pending"

OnTag(r) == IF r.hit = NULL THEN "none" ELSE IF r.whole THEN "whole" ELSE "part"

\* What a step does to the phase and the effect of one request.
ContractStep(a, b) ==
  \/ /\ Told(a) = "idle" /\ Told(b) \in {"pending", "failed"} /\ OnTag(b) = OnTag(a)
  \/ /\ Told(a) = "pending" /\ OnTag(b) = OnTag(a)
     /\ Told(b) = "failed" \/ (Told(b) = "ok" /\ OnTag(a) = "whole")
  \/ /\ Told(a) = "pending" /\ Told(b) = Told(a)
     /\ OnTag(a) = "none" /\ OnTag(b) \in {"part", "whole"}
  \/ Told(b) = Told(a) /\ OnTag(b) = OnTag(a)

\* Every step changes one request at most, as the contract lets it.
LEMMA ContractSteps ==
  ASSUME WriteInv, Next
  PROVE  \/ req' = req
         \/ \E i \in Ids : \E r : req' = [req EXCEPT ![i] = r] /\ ContractStep(req[i], r)
<1>q. QueueType /\ TypeOK /\ ChainInv
  BY DEF WriteInv, TypeInv, TypeOK, QueueType
<1>1. CASE set_current_tag \/ TagReadDone \/ Nfcd
  BY <1>1 DEF set_current_tag, TagReadDone, Nfcd, PlaceTag, RemoveTag, Crash, Restart, Attach
<1>2. ASSUME NEW i \in Ids, NEW r, HandlerStep(i, r)
      PROVE  req' = [req EXCEPT ![i] = r] /\ ContractStep(req[i], r)
  <2>1. /\ req' = [req EXCEPT ![i] = r] /\ r \in Requests /\ RequestOK(r)
        /\ r.hit = req[i].hit /\ r.whole = req[i].whole /\ r.stage # "idle"
        /\ inbox # <<>> /\ Head(inbox).id = i
    BY <1>2 DEF HandlerStep, Advance
  <2>2. Head(inbox) = inbox[1] /\ 1 \in 1..Len(inbox) /\ i # 0
    BY <1>q, <2>1, Taken, WriteAssumption DEF QueueType, Ids
  <2>3. req[i].stage \in Ops /\ RequestOK(req[i])
    BY <1>q, <2>1, <2>2, OnTheBus DEF ChainInv, MessageOK
  <2>4. req[i].reply = "none" /\ req[i].stage # "idle"
    BY <2>3 DEF RequestOK, Ops
  <2>5. r.reply \in {"none", "success", "error"} /\ (r.reply = "success" => Done(r))
    BY <2>1 DEF Requests, RequestOK
  <2> QED
    BY <2>1, <2>4, <2>5 DEF ContractStep, Told, OnTag, Done
<1>3. ASSUME NEW i \in Ids, NEW r, StartStep(i, r)
      PROVE  req' = [req EXCEPT ![i] = r] /\ ContractStep(req[i], r)
  <2>1. /\ req' = [req EXCEPT ![i] = r] /\ r \in Requests /\ RequestOK(r)
        /\ req[i].stage = "idle" /\ r.hit = NULL /\ r.stage \in {"tag_proxy", "done"}
        /\ r.reply # "success"
    BY <1>3 DEF StartStep, Advance
  <2>2. req[i].reply = "none" /\ req[i].hit = NULL
    BY <1>q, <2>1 DEF ChainInv, MessageOK, RequestOK, Late
  <2>3. r.reply \in {"none", "error"} /\ (r.reply = "none" <=> r.stage # "done")
    BY <2>1 DEF Requests, RequestOK
  <2> QED
    BY <2>1, <2>2, <2>3 DEF ContractStep, Told, OnTag
<1>4. ASSUME NEW q, NEW m, NEW r, ServeStep(q, m, r)
      PROVE  q.id \in Ids /\ req' = [req EXCEPT ![q.id] = r] /\ ContractStep(req[q.id], r)
  <2> DEFINE o == req[q.id]
  <2>1. q = reqs[1] /\ 1 \in 1..Len(reqs)
    BY <1>q, <1>4, Taken DEF QueueType, ServeStep
  <2>2. q.id \in Ids /\ CallOK(q, o) /\ RequestOK(o) /\ o.stage \in Ops
    BY <1>q, <2>1, OnTheBus DEF ChainInv, MessageOK
  <2>3. Told(o) = "pending"
    BY <2>2 DEF Told, RequestOK, Ops
  <2>4. req' = [req EXCEPT ![q.id] = r] /\ r.stage = o.stage /\ r.reply = o.reply
    BY <1>4 DEF ServeStep
  <2>5. Told(r) = Told(o)
    BY <2>4 DEF Told
  <2>6. \/ OnTag(r) = OnTag(o)
        \/ OnTag(o) = "none" /\ OnTag(r) \in {"part", "whole"}
    <3> HIDE DEF o
    <3>1. npath # NULL => ntag # NULL
      BY DEF npath
    <3>2. \/ r.hit = o.hit /\ r.whole = o.whole
          \/ q.op \in WriteOps /\ q.path = npath /\ r.hit = ntag
      BY <1>4 DEF ServeStep, o
    <3>3. q.path # NULL /\ (q.op \in WriteOps => o.hit = NULL)
      BY <2>2 DEF CallOK
    <3> QED
      BY <3>1, <3>2, <3>3 DEF OnTag
  <2> QED
    BY <2>2, <2>3, <2>4, <2>5, <2>6 DEF ContractStep
<1> QED
  BY <1>1, <1>2, <1>3, <1>4, <1>q, Steps

\* So every step is a step of WriteContract, or none.
LEMMA ContractSim ==
  ASSUME WriteInv, [Next]_vars
  PROVE  [Write!Next]_<<[i \in Ids |-> Told(req[i])], [i \in Ids |-> OnTag(req[i])]>>
<1> DEFINE told == [i \in Ids |-> Told(req[i])]
           tag == [i \in Ids |-> OnTag(req[i])]
<1>1. CASE req' = req
  BY <1>1
<1>2. ASSUME NEW i \in Ids, NEW r, req' = [req EXCEPT ![i] = r], ContractStep(req[i], r)
      PROVE  [Write!Next]_<<told, tag>>
  <2>1. /\ told' = [told EXCEPT ![i] = Told(r)]
        /\ tag' = [tag EXCEPT ![i] = OnTag(r)]
        /\ told[i] = Told(req[i]) /\ tag[i] = OnTag(req[i])
    BY <1>2 DEF WriteInv, TypeInv, TypeOK
  <2>2. Told(r) = Told(req[i]) => told' = told
    BY <2>1
  <2>3. OnTag(r) = OnTag(req[i]) => tag' = tag
    BY <2>1
  <2>4. CASE Told(r) = Told(req[i]) /\ OnTag(r) = OnTag(req[i])
    BY <2>2, <2>3, <2>4
  <2>5. CASE /\ Told(req[i]) = "idle" /\ Told(r) \in {"pending", "failed"}
             /\ OnTag(r) = OnTag(req[i])
    <3>1. Write!Call(i)
      BY <2>1, <2>3, <2>5 DEF Write!Call, Write!Contract!Ask, Write!Contract!AnswerAtOnce,
         Told, OnTag
    <3> QED
      BY <3>1 DEF Write!Next
  <2>6. CASE /\ Told(req[i]) = "pending" /\ OnTag(r) = OnTag(req[i])
             /\ Told(r) = "failed" \/ (Told(r) = "ok" /\ OnTag(req[i]) = "whole")
    <3>1. Write!Return(i)
      BY <2>1, <2>3, <2>6 DEF Write!Return, Write!Contract!Answer, Told, OnTag
    <3> QED
      BY <3>1 DEF Write!Next
  <2>7. CASE /\ Told(req[i]) = "pending" /\ Told(r) = Told(req[i])
             /\ OnTag(req[i]) = "none" /\ OnTag(r) \in {"part", "whole"}
    <3>1. Write!TakeEffect(i)
      BY <2>1, <2>2, <2>7 DEF Write!TakeEffect, Told, OnTag
    <3> QED
      BY <3>1 DEF Write!Next
  <2> QED
    BY <1>2, <2>4, <2>5, <2>6, <2>7 DEF ContractStep
<1> QED
  BY <1>1, <1>2, ContractSteps DEF vars

\* writeTag, cloneTag and lockTag keep their contract: a request changes the
\* tag at most once, between its call and its answer, which is "ok" only when
\* all of the change is there.
THEOREM KeepsContract == Spec => WritesLikeContract
<1>1. Init => Write!Init
  BY DEF Init, NoReq, Write!Init, Write!Contract!Init, Told, OnTag
<1>2. WriteInv /\ [Next]_vars =>
        [Write!Next]_<<[i \in Ids |-> Told(req[i])], [i \in Ids |-> OnTag(req[i])]>>
  BY ContractSim
<1> QED
  BY <1>1, <1>2, WriteInvariant, PTL DEF Spec, WritesLikeContract, Write!Spec, Told, OnTag
=============================================================================
