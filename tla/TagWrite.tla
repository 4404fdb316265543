------------------------------ MODULE TagWrite ------------------------------
(***************************************************************************)
(* writeTag, cloneTag and lockTag: the chains of D-Bus calls behind struct *)
(* write_req and struct lock_req (acquire the tag, write it or rewrite its *)
(* lock block, release it, answer), several of them at a time, while tags  *)
(* come and go and nfcd may crash and come back.                           *)
(*                                                                         *)
(* nfcd numbers the tags of one run 1, 2, ... and starts again at 1 after  *)
(* a restart; a path here is that number.  The bus is FIFO both ways, and  *)
(* calls go to the well-known name, so whichever nfcd is up when a call is *)
(* made answers it, even one the client has not heard of yet because its   *)
(* main loop lags behind the bus.  The attach chain (module NfcdLink) is   *)
(* the one step Attach, the tag read that finds a Type 2 tag (module       *)
(* TagRead) the step TagReadDone.                                          *)
(***************************************************************************)
EXTENDS Integers, Sequences

CONSTANTS
  MaxReqs,      \* bound: requests made by luna clients
  MaxTags,      \* bound: tags put in the field
  MaxCrashes    \* bound: crashes of nfcd

ASSUME WriteAssumption ==
  MaxReqs \in Nat /\ MaxTags \in Nat /\ MaxCrashes \in Nat

Ids == 1..MaxReqs   \* requests, numbered as they are made

NULL == 0       \* no tag, no path

VARIABLES
  \* nfcd (external)
  up, crashes,
  attached,     \* the client has its signals connected to this nfcd
  placed,       \* tags put in the field so far; each tag is known by its turn
  ntag,         \* the tag in the field
  last_path,    \* last path this nfcd handed out
  locks,        \* Acquire() calls of the client that nfcd counts on that tag
  \* the bus
  reqs, inbox,
  \* struct nfcd_client
  tag_path, tag_is_type2,
  \* struct write_req / struct lock_req, and ghosts
  req

nfcdVars == <<up, crashes, attached, placed, ntag, last_path, locks>>
clientVars == <<tag_path, tag_is_type2>>
vars == <<nfcdVars, clientVars, reqs, inbox, req>>

Ops == {"tag_proxy", "acquire", "type2_proxy", "write_data", "lock_read",
        "lock_write", "release"}

\* kind: which public function; path: of req->tag; stage: the outstanding
\* call; ok: no error so far; reply: what the callback was told.  Ghosts:
\* acq, the tag Acquire() was granted on, hit, the tag a write reached,
\* whole, that all of it arrived.
NoReq == [kind |-> "none", path |-> NULL, stage |-> "idle", ok |-> TRUE,
          reply |-> "none", acq |-> NULL, hit |-> NULL, whole |-> FALSE]

\* The path of the tag in the field.
npath == IF ntag = NULL THEN NULL ELSE last_path

TagsMsg(path) == [id |-> 0, op |-> "tags", path |-> path, res |-> "ok"]
Answer(q, res) == [id |-> q.id, op |-> q.op, path |-> q.path, res |-> res]

-----------------------------------------------------------------------------
(* nfcd and the bus (external).                                            *)

\* A change of the tag list is signalled to an attached client.
Signal(path) == inbox' = IF attached THEN Append(inbox, TagsMsg(path)) ELSE inbox

PlaceTag ==
  /\ up /\ ntag = NULL /\ placed < MaxTags
  /\ placed' = placed + 1
  /\ ntag' = placed + 1
  /\ last_path' = last_path + 1
  /\ Signal(last_path + 1)
  /\ UNCHANGED <<up, crashes, attached, locks, clientVars, reqs, req>>

RemoveTag ==
  /\ up /\ ntag # NULL
  /\ ntag' = NULL
  /\ locks' = 0
  /\ Signal(NULL)
  /\ UNCHANGED <<up, crashes, attached, placed, last_path, clientVars, reqs, req>>

\* The client learns of the crash from the bus: daemon_vanished() ends in
\* set_current_tag(NULL).  The calls nfcd had not answered fail after that.
Crash ==
  /\ up /\ crashes < MaxCrashes
  /\ crashes' = crashes + 1
  /\ up' = FALSE /\ attached' = FALSE
  /\ ntag' = NULL /\ locks' = 0 /\ last_path' = 0
  /\ inbox' = Append(inbox, TagsMsg(NULL))
              \o [k \in DOMAIN reqs |-> Answer(reqs[k], "error")]
  /\ reqs' = <<>>
  /\ UNCHANGED <<placed, clientVars, req>>

\* The bus has refused what was called while nfcd was down.
Restart ==
  /\ ~up /\ reqs = <<>>
  /\ up' = TRUE
  /\ UNCHANGED <<crashes, attached, placed, ntag, last_path, locks, clientVars,
                 reqs, inbox, req>>

Attach ==
  /\ up /\ ~attached
  /\ attached' = TRUE
  /\ inbox' = Append(inbox, TagsMsg(npath))
  /\ UNCHANGED <<up, crashes, placed, ntag, last_path, locks, clientVars, reqs, req>>

\* How nfcd, or the bus for it, can answer q.  A call on a path that is not
\* in the field fails; "short" is fewer bytes than asked for.
ResultsOf(q) ==
  IF q.op \in {"tag_proxy", "type2_proxy"} THEN {"ok", "error"}
  ELSE IF ~up \/ npath = NULL \/ q.path # npath THEN {"error"}
  ELSE IF q.op \in {"write_data", "lock_read", "lock_write"}
         THEN {"ok", "short", "error"}
  ELSE IF q.op = "acquire" THEN {"ok", "error"}
  ELSE IF locks > 0 THEN {"ok"} ELSE {"error"}

\* A write that nfcd passes on to the tag.
Reaches(q) == q.op \in {"write_data", "lock_write"} /\ up /\ q.path = npath

\* What serving q with result res does to the tag.  A write may have reached
\* the tag although the answer is an error.
Effect(q, res) ==
  \/ /\ q.op = "acquire" /\ res = "ok"
     /\ locks' = locks + 1
     /\ req' = [req EXCEPT ![q.id].acq = ntag]
  \/ /\ q.op = "release" /\ res = "ok"
     /\ locks' = locks - 1
     /\ UNCHANGED req
  \/ /\ Reaches(q)
     /\ \E reached \in (IF res = "error" THEN BOOLEAN ELSE {TRUE}) :
          req' = IF reached
                   THEN [req EXCEPT ![q.id].hit = ntag,
                                    ![q.id].whole = res # "short"]
                   ELSE req
     /\ UNCHANGED locks
  \/ /\ ~Reaches(q)
     /\ q.op \in {"acquire", "release"} => res # "ok"
     /\ UNCHANGED <<locks, req>>

Serve ==
  /\ reqs # <<>>
  /\ LET q == Head(reqs) IN
       \E res \in ResultsOf(q) :
         /\ Effect(q, res)
         /\ inbox' = Append(inbox, Answer(q, res))
  /\ reqs' = Tail(reqs)
  /\ UNCHANGED <<up, crashes, attached, placed, ntag, last_path, clientVars>>

-----------------------------------------------------------------------------
(* The client's view of the tag.                                           *)

set_current_tag ==
  /\ inbox # <<>>
  /\ Head(inbox).op = "tags"
  /\ inbox' = Tail(inbox)
  /\ tag_path' = Head(inbox).path
  /\ tag_is_type2' = IF tag_path' = tag_path THEN tag_is_type2 ELSE FALSE
  /\ UNCHANGED <<nfcdVars, reqs, req>>

TagReadDone ==
  /\ tag_path # NULL /\ ~tag_is_type2
  /\ tag_is_type2' = TRUE
  /\ UNCHANGED <<nfcdVars, tag_path, reqs, inbox, req>>

-----------------------------------------------------------------------------
(* The request chains.                                                     *)

\* Sends the next call of request i.  GDBus refuses a NULL object path when
\* it loads the properties of a new proxy, and then never completes.
Send(i, op, path, r) ==
  /\ req' = [req EXCEPT ![i] = [r EXCEPT !.stage = op]]
  /\ reqs' = IF path = NULL THEN reqs
             ELSE Append(reqs, [id |-> i, op |-> op, path |-> path])

\* write_req_finish() and lock_req_finish(): the caller gets its answer.
req_finish(i, r, success) ==
  /\ req' = [req EXCEPT ![i] =
               [r EXCEPT !.stage = "done",
                         !.reply = IF success THEN "success" ELSE "error"]]
  /\ UNCHANGED reqs

\* usable: the caller gave something that can be written.
Start(i, kind, usable) ==
  /\ req[i].stage = "idle"
  /\ \A j \in 1..i - 1 : req[j].stage # "idle"
  /\ LET r == [NoReq EXCEPT !.kind = kind, !.path = tag_path] IN
       IF tag_path = NULL \/ ~tag_is_type2 \/ ~usable
         THEN req_finish(i, r, FALSE)
         ELSE Send(i, "tag_proxy", tag_path, r)
  /\ UNCHANGED <<nfcdVars, clientVars, inbox>>

\* The message may not fit a TLV; a clone may have nothing to copy.
nfcd_client_write_tag(i) == \E encoded \in BOOLEAN : Start(i, "write", encoded)
nfcd_client_write_raw(i) == \E nonempty \in BOOLEAN : Start(i, "write", nonempty)
nfcd_client_lock_tag(i) == Start(i, "lock", TRUE)

\* The answer to the call op of request i is the next event of the main loop.
Dispatch(i, op) ==
  /\ inbox # <<>>
  /\ Head(inbox).id = i /\ Head(inbox).op = op
  /\ inbox' = Tail(inbox)
  /\ UNCHANGED <<nfcdVars, clientVars>>

Res == Head(inbox).res

\* Mutant: the tag is written without acquiring it.
tag_proxy_ready_no_acquire(i) ==
  /\ Dispatch(i, "tag_proxy")
  /\ IF Res = "ok" THEN Send(i, "type2_proxy", req[i].path, req[i])
                   ELSE req_finish(i, req[i], FALSE)

tag_proxy_ready(i) ==
  /\ Dispatch(i, "tag_proxy")
  /\ IF Res = "ok" THEN Send(i, "acquire", req[i].path, req[i])
                   ELSE req_finish(i, req[i], FALSE)

\* The Type 2 proxy is made for client->tag_path as it is by now.
acquire_ready(i) ==
  /\ Dispatch(i, "acquire")
  /\ IF Res = "ok" THEN Send(i, "type2_proxy", tag_path, req[i])
                   ELSE req_finish(i, req[i], FALSE)

release(i, r) == Send(i, "release", r.path, r)

\* Mutant: the caller is told of a failure as soon as the write is on its way.
type2_proxy_ready_impatient(i) ==
  /\ Dispatch(i, "type2_proxy")
  /\ IF Res = "ok"
       THEN /\ Send(i, IF req[i].kind = "write" THEN "write_data" ELSE "lock_read",
                    Head(inbox).path, [req[i] EXCEPT !.reply = "error"])
       ELSE release(i, [req[i] EXCEPT !.ok = FALSE])

\* The type2 proxy has the path it was created for, kept in the answer.
type2_proxy_ready(i) ==
  /\ Dispatch(i, "type2_proxy")
  /\ IF Res = "ok"
       THEN Send(i, IF req[i].kind = "write" THEN "write_data" ELSE "lock_read",
                 Head(inbox).path, req[i])
       ELSE release(i, [req[i] EXCEPT !.ok = FALSE])

\* Mutant: a short write counts as a write.
write_data_ready_short(i) ==
  /\ Dispatch(i, "write_data")
  /\ release(i, [req[i] EXCEPT !.ok = Res # "error"])

\* Mutant: a failed write is answered without releasing the tag.
write_data_ready_keeps_lock(i) ==
  /\ Dispatch(i, "write_data")
  /\ IF Res = "error" THEN req_finish(i, req[i], FALSE)
                      ELSE release(i, [req[i] EXCEPT !.ok = Res = "ok"])

write_data_ready(i) ==
  /\ Dispatch(i, "write_data")
  /\ release(i, [req[i] EXCEPT !.ok = Res = "ok"])

\* Mutant: a block of the wrong size ends the chain in silence.
lock_read_ready_silent(i) ==
  /\ Dispatch(i, "lock_read")
  /\ CASE Res = "ok" -> Send(i, "lock_write", Head(inbox).path, req[i])
       [] Res = "error" -> release(i, [req[i] EXCEPT !.ok = FALSE])
       [] Res = "short" -> UNCHANGED <<req, reqs>>

\* Bytes 0-1 of the block are kept, the lock bytes set to ff.
lock_read_ready(i) ==
  /\ Dispatch(i, "lock_read")
  /\ IF Res = "ok" THEN Send(i, "lock_write", Head(inbox).path, req[i])
                   ELSE release(i, [req[i] EXCEPT !.ok = FALSE])

lock_write_ready(i) ==
  /\ Dispatch(i, "lock_write")
  /\ release(i, [req[i] EXCEPT !.ok = Res = "ok"])

\* A failed release is only logged.
release_ready(i) ==
  /\ Dispatch(i, "release")
  /\ req_finish(i, req[i], req[i].ok)

-----------------------------------------------------------------------------
(* The handlers of the two chains.  They share their steps up to the Type  *)
(* 2 proxy, and the release.                                               *)

Writing(i) == req[i].kind = "write"
Locking(i) == req[i].kind = "lock"

write_tag_proxy_ready(i) == Writing(i) /\ tag_proxy_ready(i)
write_acquire_ready(i) == Writing(i) /\ acquire_ready(i)
write_type2_proxy_ready(i) == Writing(i) /\ type2_proxy_ready(i)
write_release_ready(i) == Writing(i) /\ release_ready(i)

lock_tag_proxy_ready(i) == Locking(i) /\ tag_proxy_ready(i)
lock_acquire_ready(i) == Locking(i) /\ acquire_ready(i)
lock_type2_proxy_ready(i) == Locking(i) /\ type2_proxy_ready(i)
lock_release_ready(i) == Locking(i) /\ release_ready(i)

Handler(i) ==
  \/ write_tag_proxy_ready(i) \/ write_acquire_ready(i)
  \/ write_type2_proxy_ready(i) \/ write_data_ready(i)
  \/ write_release_ready(i)
  \/ lock_tag_proxy_ready(i) \/ lock_acquire_ready(i)
  \/ lock_type2_proxy_ready(i) \/ lock_read_ready(i) \/ lock_write_ready(i)
  \/ lock_release_ready(i)

Client == set_current_tag \/ \E i \in Ids : Handler(i)

Caller == \E i \in Ids : nfcd_client_write_tag(i) \/ nfcd_client_write_raw(i)
                          \/ nfcd_client_lock_tag(i)

Nfcd == PlaceTag \/ RemoveTag \/ Crash \/ Restart \/ Attach

Init ==
  /\ up = TRUE /\ crashes = 0 /\ attached = TRUE
  /\ placed = 0 /\ ntag = NULL /\ last_path = 0 /\ locks = 0
  /\ reqs = <<>> /\ inbox = <<>>
  /\ tag_path = NULL /\ tag_is_type2 = FALSE
  /\ req = [i \in Ids |-> NoReq]

Next == Client \/ TagReadDone \/ Caller \/ Serve \/ Nfcd

\* The main loop runs and every call is answered (GDBus times out the rest).
Fairness == WF_vars(Client) /\ WF_vars(Serve)

Spec == Init /\ [][Next]_vars /\ Fairness

-----------------------------------------------------------------------------
(* Properties.                                                             *)

Calls == [id : Ids, op : Ops, path : 0..MaxTags]

Messages == [id : 0..MaxReqs, op : Ops \union {"tags"}, path : 0..MaxTags,
             res : {"ok", "short", "error"}]

Requests == [kind : {"none", "write", "lock"}, path : 0..MaxTags,
             stage : Ops \union {"idle", "done"}, ok : BOOLEAN,
             reply : {"none", "success", "error"},
             acq : 0..MaxTags, hit : 0..MaxTags, whole : BOOLEAN]

TypeOK ==
  /\ up \in BOOLEAN /\ attached \in BOOLEAN /\ tag_is_type2 \in BOOLEAN
  /\ crashes \in 0..MaxCrashes /\ placed \in 0..MaxTags
  /\ ntag \in 0..MaxTags /\ last_path \in 0..MaxTags
  /\ tag_path \in 0..MaxTags /\ locks \in Nat
  /\ reqs \in Seq(Calls) /\ inbox \in Seq(Messages)
  /\ req \in [Ids -> Requests]

(***************************************************************************)
(* A caller told "success" has its data, or the lock bits, on a tag in     *)
(* full, although the answer comes two calls later and the tag may have    *)
(* left the field, or nfcd died, in between.                               *)
(***************************************************************************)
SuccessMeansWritten ==
  \A i \in Ids : req[i].reply = "success" => req[i].hit # NULL /\ req[i].whole

(***************************************************************************)
(* No request that has been answered leaves the tag acquired: whatever     *)
(* step failed, "the lock is handed back afterwards" (comment on writing). *)
(***************************************************************************)
NoLockLeft ==
  /\ reqs = <<>>
  /\ \A i \in Ids : req[i].stage \in {"idle", "done"}
  => locks = 0

(***************************************************************************)
(* docs/API.md of writeTag: "The tag is acquired for exclusive access for  *)
(* the duration of the write and released afterwards."  A write reaches    *)
(* only the tag its request has acquired, until nfcd crashes: the code     *)
(* knows a tag by its path only, and the next nfcd may reuse it.           *)
(***************************************************************************)
ExclusiveAccess ==
  crashes = 0 =>
    \A i \in Ids : req[i].hit # NULL => req[i].hit = req[i].acq

Write ==
  INSTANCE WriteContract
    WITH Requests <- Ids,
         phase <- [i \in Ids |->
                     IF req[i].reply = "success" THEN "ok"
                     ELSE IF req[i].reply = "error" THEN "failed"
                     ELSE IF req[i].stage = "idle" THEN "idle" ELSE "pending"],
         effect <- [i \in Ids |->
                      IF req[i].hit = NULL THEN "none"
                      ELSE IF req[i].whole THEN "whole" ELSE "part"]

(***************************************************************************)
(* A request changes the tag at most once and only between its call and    *)
(* its answer: after an error reply nothing of it reaches a tag any more,  *)
(* although the write, the release and the answer are separate calls and   *)
(* each may fail (module WriteContract).                                   *)
(***************************************************************************)
WritesLikeContract == Write!Spec

(***************************************************************************)
(* docs/API.md: operations "reply once the underlying nfcd operation       *)
(* finishes": whatever tags come and go and whatever fails, every request  *)
(* is answered, unless nfcd has crashed.  Then client->tag_path may be     *)
(* NULL when Acquire() is answered, and the chain stops at a proxy for no  *)
(* path.                                                                   *)
(***************************************************************************)
AnsweredUnlessCrashed ==
  \A i \in Ids : (req[i].stage # "idle")
                    ~> (req[i].reply # "none" \/ crashes > 0)
=============================================================================
