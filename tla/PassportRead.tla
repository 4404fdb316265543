---------------------------- MODULE PassportRead ----------------------------
(***************************************************************************)
(* readPassport and readPassportPACE: the exchange behind a struct         *)
(* passport_read, from the precheck over the BAC or PACE handshake to the  *)
(* data groups, its abort when the tag changes, and the Release and        *)
(* Deactivate that follow the answer, while the document comes and goes,   *)
(* callers call again and nfcd may crash.                                  *)
(*                                                                         *)
(* The environment is that of TagWrite: nfcd numbers the tags of one run   *)
(* 1, 2, ..., the bus is FIFO both ways, a call goes to whichever nfcd is  *)
(* up.  Here every activation of a document is one tag, and session is the *)
(* read whose handshake that activation has seen ("a one-session-per-      *)
(* activation protocol", comment in passport_release_ready()).  An answer  *)
(* is "ok" when the response passes every check of its callback and the    *)
(* next command can be built, "fail" otherwise.  Of the files only lengths *)
(* are kept: what the header of each announces, and what the chip holds,   *)
(* which may be more (padding) or less.                                    *)
(***************************************************************************)
EXTENDS Integers, Sequences

CONSTANTS
  MaxReads,      \* bound: readPassport calls
  MaxTags,       \* bound: activations
  MaxCrashes,    \* bound: crashes of nfcd
  FileLens,      \* lengths that the TLV header of a file may announce
  ChipLen,       \* bytes that the chip holds of a file
  FirstLe,       \* 4 in the code: length of the first READ BINARY
  Chunk,         \* 255 in the code: length of the others
  PhotoAt,       \* where in EF.DG2 the picture starts
  Gsize          \* 2^64 in the code: the range of gsize

ASSUME PassportAssumption ==
  /\ MaxReads \in Nat /\ MaxTags \in Nat /\ MaxCrashes \in Nat
  /\ {ChipLen, FirstLe, Chunk, Gsize} \subseteq Nat \ {0} /\ PhotoAt \in Nat
  /\ FileLens \subseteq Nat \ {0}
  /\ \A n \in FileLens : n < Gsize

Reads == 1..MaxReads
NULL == 0

VARIABLES
  \* nfcd (external)
  up, crashes, attached, placed, ntag, last_path,
  locks,            \* Acquire() calls it counts on the tag in the field
  session,          \* the read whose handshake that activation has seen
  \* the bus
  reqs, inbox,
  \* struct nfcd_client
  tag_path, isodep, passport_reading,
  \* struct passport_read, one per call
  nreads, read

nfcdVars == <<up, crashes, attached, placed, ntag, last_path, locks, session>>
clientVars == <<tag_path, isodep>>
vars == <<nfcdVars, clientVars, reqs, inbox, passport_reading, nreads, read>>

Files == {"card_access", "dg1", "dg2"}
BacOps == {"select_aid", "get_challenge", "mutual_auth"}
PaceOps == {"select_ef_cardaccess", "ef_cardaccess_rest", "mse_set_at",
            "get_nonce", "map_nonce", "key_agreement", "pace_mutual_auth",
            "pace_select_aid"}
DgOps == {"select_dg1", "dg1_rest", "select_dg2", "dg2_rest"}
ApduOps == BacOps \union PaceOps \union DgOps
Ops == ApduOps \union {"tag_proxy", "acquire", "release", "deactivate"}

\* stage: the callback awaited; client: read->client # NULL; len and total:
\* of each file; answers and reply: what cb was told; photo: how much of one.
NoRead == [stage |-> "idle", path |-> NULL, client |-> FALSE,
           cancelled |-> FALSE, acquired |-> FALSE, use_pace |-> FALSE,
           read_photo |-> FALSE, len |-> [f \in Files |-> 0],
           total |-> [f \in Files |-> 0], answers |-> 0, reply |-> "none",
           photo |-> "none"]

npath == IF ntag = NULL THEN NULL ELSE last_path

TagsMsg(path) == [id |-> 0, op |-> "tags", path |-> path, res |-> "ok", n |-> 0]
Answer(q, res, n) ==
  [id |-> q.id, op |-> q.op, path |-> q.path, res |-> res, n |-> n]
Call(r, op, path, le) == [id |-> r, op |-> op, path |-> path, le |-> le]

-----------------------------------------------------------------------------
(* nfcd, the bus and the document (external).                              *)

Signal(m, path) == IF attached THEN Append(m, TagsMsg(path)) ELSE m

PlaceTag ==
  /\ up /\ ntag = NULL /\ placed < MaxTags
  /\ placed' = placed + 1
  /\ ntag' = placed + 1
  /\ last_path' = last_path + 1
  /\ session' = NULL
  /\ inbox' = Signal(inbox, last_path + 1)
  /\ UNCHANGED <<up, crashes, attached, locks, clientVars, reqs,
                 passport_reading, nreads, read>>

RemoveTag ==
  /\ up /\ ntag # NULL
  /\ ntag' = NULL /\ locks' = 0 /\ session' = NULL
  /\ inbox' = Signal(inbox, NULL)
  /\ UNCHANGED <<up, crashes, attached, placed, last_path, clientVars, reqs,
                 passport_reading, nreads, read>>

\* Nobody waits for the answer to a call that was cancelled, nor for that of
\* a Deactivate() more than to log it.
Awaited(q) ==
  q.op = "release" \/ (read[q.id].stage = q.op /\ ~read[q.id].cancelled)

\* The calls it had not answered fail like those made while it is down, before
\* it is up again: the bus refuses them one by one (Serve).
Crash ==
  /\ up /\ crashes < MaxCrashes
  /\ crashes' = crashes + 1
  /\ up' = FALSE /\ attached' = FALSE
  /\ ntag' = NULL /\ locks' = 0 /\ last_path' = 0 /\ session' = NULL
  /\ inbox' = Append(inbox, TagsMsg(NULL))
  /\ UNCHANGED <<placed, clientVars, reqs, passport_reading, nreads, read>>

Restart ==
  /\ ~up /\ reqs = <<>>
  /\ up' = TRUE
  /\ UNCHANGED <<crashes, attached, placed, ntag, last_path, locks, session,
                 clientVars, reqs, inbox, passport_reading, nreads, read>>

Attach ==
  /\ up /\ ~attached
  /\ attached' = TRUE
  /\ inbox' = Append(inbox, TagsMsg(npath))
  /\ UNCHANGED <<up, crashes, placed, ntag, last_path, locks, session,
                 clientVars, reqs, passport_reading, nreads, read>>

Reaches(q) == up /\ npath # NULL /\ q.path = npath

\* A chip that has seen another handshake takes no new one; a READ BINARY
\* returns at most what the chip has left of the file, and fails when there is
\* nothing left.
FileOf(op) == IF op = "dg1_rest" THEN "dg1"
              ELSE IF op = "dg2_rest" THEN "dg2" ELSE "card_access"
Lengths(q) ==
  IF q.op \in {"dg1_rest", "dg2_rest", "ef_cardaccess_rest"}
    THEN LET left == ChipLen - read[q.id].len[FileOf(q.op)]
         IN  1..(IF q.le < left THEN q.le ELSE left)
    ELSE {0}

Refuse(q) ==
  inbox' = IF Awaited(q) THEN Append(inbox, Answer(q, "fail", 0)) ELSE inbox
Take(q) ==
  \/ Refuse(q)
  \/ /\ Awaited(q)
     /\ \E n \in Lengths(q) : inbox' = Append(inbox, Answer(q, "ok", n))

ServeProxy(q) == q.op = "tag_proxy" /\ Take(q) /\ UNCHANGED <<ntag, locks, session>>

ServeAcquire(q) ==
  /\ q.op = "acquire"
  /\ \/ /\ Reaches(q)
        /\ locks' = locks + 1
        /\ inbox' = IF Awaited(q) THEN Append(inbox, Answer(q, "ok", 0)) ELSE inbox
     \/ Refuse(q) /\ UNCHANGED locks
  /\ UNCHANGED <<ntag, session>>

ServeApdu(q) ==
  /\ q.op \in ApduOps
  /\ session' = IF Reaches(q) THEN q.id ELSE session
  /\ IF Reaches(q) /\ session \in {NULL, q.id} THEN Take(q) ELSE Refuse(q)
  /\ UNCHANGED <<ntag, locks>>

ServeRelease(q) ==
  /\ q.op = "release"
  /\ locks' = IF Reaches(q) /\ locks > 0 THEN locks - 1 ELSE locks
  /\ inbox' = Append(inbox, Answer(q, "ok", 0))
  /\ UNCHANGED <<ntag, session>>

\* The RF field drops: the tag is gone until it is polled again.
ServeDeactivate(q) ==
  /\ q.op = "deactivate"
  /\ IF Reaches(q)
       THEN /\ ntag' = NULL /\ locks' = 0 /\ session' = NULL
            /\ inbox' = Signal(inbox, NULL)
       ELSE UNCHANGED <<ntag, locks, session, inbox>>

Serve ==
  /\ reqs # <<>>
  /\ LET q == Head(reqs) IN
       \/ ServeProxy(q) \/ ServeAcquire(q) \/ ServeApdu(q)
       \/ ServeRelease(q) \/ ServeDeactivate(q)
  /\ reqs' = Tail(reqs)
  /\ UNCHANGED <<up, crashes, attached, placed, last_path, clientVars,
                 passport_reading, nreads, read>>

-----------------------------------------------------------------------------
(* The end of a read.                                                      *)

\* What is left of a read once its struct is freed: what cb was told.
Ended(d, reply, photo) ==
  [NoRead EXCEPT !.stage = "done", !.reply = reply, !.photo = photo,
                 !.answers = d.answers + 1]

\* Mutant: an abandoned read ends in silence.
passport_read_finish_silent(r, d, reply, photo) ==
  /\ read' = [read EXCEPT ![r] =
                IF d.client THEN Ended(d, reply, photo)
                            ELSE [Ended(d, reply, photo) EXCEPT !.answers = 0]]
  /\ passport_reading' = IF d.client /\ passport_reading = r THEN NULL
                         ELSE passport_reading
  /\ reqs' = IF d.acquired THEN Append(reqs, Call(r, "release", d.path, 0))
             ELSE reqs

\* Mutant: an abandoned read does not release its tag.
passport_read_finish_keeps_lock(r, d, reply, photo) ==
  /\ read' = [read EXCEPT ![r] = Ended(d, reply, photo)]
  /\ passport_reading' = IF d.client /\ passport_reading = r THEN NULL
                         ELSE passport_reading
  /\ reqs' = IF d.acquired /\ reply = "success"
               THEN Append(reqs, Call(r, "release", d.path, 0)) ELSE reqs

\* Mutant: the pointer of whichever read is current is cleared.
passport_read_finish_clears(r, d, reply, photo) ==
  /\ read' = [read EXCEPT ![r] = Ended(d, reply, photo)]
  /\ passport_reading' = NULL
  /\ reqs' = IF d.acquired THEN Append(reqs, Call(r, "release", d.path, 0))
             ELSE reqs

\* Every exit ends here.  The tag is handed back without waiting for it, and
\* the caller is answered at once.
passport_read_finish(r, d, reply, photo) ==
  /\ read' = [read EXCEPT ![r] = Ended(d, reply, photo)]
  /\ passport_reading' = IF d.client /\ passport_reading = r THEN NULL
                         ELSE passport_reading
  /\ reqs' = IF d.acquired THEN Append(reqs, Call(r, "release", d.path, 0))
             ELSE reqs

Fail(r) == passport_read_finish(r, read[r], "error", "none")

\* The picture is what follows its signature in the bytes of EF.DG2 so far;
\* an EF.DG2 that ends before PhotoAt has none.
bac_extract_dg2_photo(d) ==
  IF d.len["dg2"] <= PhotoAt \/ d.total["dg2"] <= PhotoAt THEN "none"
  ELSE IF d.len["dg2"] >= d.total["dg2"] THEN "whole" ELSE "part"

passport_build_result_and_finish(r, d) ==
  passport_read_finish(r, d, "success", bac_extract_dg2_photo(d))

\* The next event of the main loop is the answer to call op of read r.  A
\* GTask whose cancellable is cancelled reports that, whatever it returned.
Dispatch(r, op) ==
  /\ inbox # <<>>
  /\ Head(inbox).id = r /\ Head(inbox).op = op
  /\ inbox' = Tail(inbox)
  /\ UNCHANGED <<nfcdVars, clientVars, nreads>>

Ok(r) == Head(inbox).res = "ok" /\ ~read[r].cancelled

passport_deactivate(path, r) ==
  reqs' = Append(reqs, Call(r, "deactivate", path, 0))

\* Mutant: the field stays on after a read.
passport_release_ready_active(r) ==
  /\ Dispatch(r, "release")
  /\ UNCHANGED <<passport_reading, read, reqs>>

\* Whether or not the release worked.
passport_release_ready(r) ==
  /\ Dispatch(r, "release")
  /\ passport_deactivate(Head(inbox).path, r)
  /\ UNCHANGED <<passport_reading, read>>

-----------------------------------------------------------------------------
(* The chain of calls.                                                     *)

Send(r, d, op, le) ==
  /\ read' = [read EXCEPT ![r] = [d EXCEPT !.stage = op]]
  /\ reqs' = Append(reqs, Call(r, op, d.path, le))
  /\ UNCHANGED passport_reading

passport_transceive(r, d, op) == Send(r, d, op, 0)

\* A step of the chain that only goes on to the next command, or fails.
Step(r, op, next) ==
  /\ Dispatch(r, op)
  /\ IF Ok(r) THEN passport_transceive(r, read[r], next) ELSE Fail(r)

passport_tag_proxy_ready(r) ==
  /\ Dispatch(r, "tag_proxy")
  /\ IF Ok(r) THEN Send(r, read[r], "acquire", 0) ELSE Fail(r)

passport_acquire_ready(r) ==
  /\ Dispatch(r, "acquire")
  /\ IF Ok(r)
       THEN passport_transceive(r, [read[r] EXCEPT !.acquired = TRUE],
              IF read[r].use_pace THEN "select_ef_cardaccess" ELSE "select_aid")
       ELSE Fail(r)

\* BAC
passport_select_aid_ready(r) == Step(r, "select_aid", "get_challenge")
passport_get_challenge_ready(r) == Step(r, "get_challenge", "mutual_auth")
passport_mutual_auth_ready(r) == Step(r, "mutual_auth", "select_dg1")

\* PACE
pace_mse_set_at_ready(r) == Step(r, "mse_set_at", "get_nonce")
pace_get_nonce_ready(r) == Step(r, "get_nonce", "map_nonce")
pace_map_nonce_ready(r) == Step(r, "map_nonce", "key_agreement")
pace_key_agreement_ready(r) == Step(r, "key_agreement", "pace_mutual_auth")
pace_mutual_auth_ready(r) == Step(r, "pace_mutual_auth", "pace_select_aid")
pace_select_aid_ready(r) == Step(r, "pace_select_aid", "select_dg1")

\* Mutant: the last chunk is not cut to what remains.
ReadMore_whole_chunks(r, d, f, op) == Send(r, d, op, Chunk)

\* READ BINARY of the rest of file f, at most Chunk bytes.
Remaining(d, f) == (d.total[f] - d.len[f]) % Gsize
ReadMore(r, d, f, op) ==
  Send(r, d, op, IF Remaining(d, f) < Chunk THEN Remaining(d, f) ELSE Chunk)

\* The bytes of the answer are kept; the header in the first ones announces
\* the length t, which stays.
Announced(r, f) == IF read[r].total[f] = 0 THEN FileLens ELSE {read[r].total[f]}
Grown(r, f, t) ==
  [read[r] EXCEPT !.len[f] = @ + Head(inbox).n, !.total[f] = t]

\* Le = 0 asks for up to Chunk + 1 bytes.
passport_select_ef_cardaccess_ready(r) ==
  /\ Dispatch(r, "select_ef_cardaccess")
  /\ IF Ok(r) THEN Send(r, read[r], "ef_cardaccess_rest", Chunk + 1) ELSE Fail(r)

\* usable: passport_pick_pace_entry() finds parameters this build can run.
passport_ef_cardaccess_rest_ready(r) ==
  /\ Dispatch(r, "ef_cardaccess_rest")
  /\ \/ ~Ok(r) /\ Fail(r)
     \/ /\ Ok(r)
        /\ \E t \in Announced(r, "card_access"), usable \in BOOLEAN :
             LET d == Grown(r, "card_access", t) IN
               IF d.len["card_access"] < t
                 THEN ReadMore(r, d, "card_access", "ef_cardaccess_rest")
               ELSE IF usable THEN passport_transceive(r, d, "mse_set_at")
               ELSE Fail(r)

passport_select_dg1_ready(r) ==
  /\ Dispatch(r, "select_dg1")
  /\ IF Ok(r) THEN Send(r, read[r], "dg1_rest", FirstLe) ELSE Fail(r)

\* When the command cannot be built the result goes without a photo.
passport_select_dg2_start(r, d) ==
  \/ passport_transceive(r, d, "select_dg2")
  \/ passport_build_result_and_finish(r, d)

passport_dg1_read_more(r, d) ==
  IF Remaining(d, "dg1") # 0 THEN ReadMore(r, d, "dg1", "dg1_rest")
  ELSE \E parsed \in BOOLEAN :
         IF ~parsed THEN Fail(r)
         ELSE IF d.read_photo THEN passport_select_dg2_start(r, d)
         ELSE passport_build_result_and_finish(r, d)

passport_dg1_rest_ready(r) ==
  /\ Dispatch(r, "dg1_rest")
  /\ IF Ok(r) THEN \E t \in Announced(r, "dg1") :
                     passport_dg1_read_more(r, Grown(r, "dg1", t))
              ELSE Fail(r)

\* From here on a failure, an abort included, still ends in success.
passport_select_dg2_ready(r) ==
  /\ Dispatch(r, "select_dg2")
  /\ IF Ok(r) THEN Send(r, read[r], "dg2_rest", FirstLe)
              ELSE passport_build_result_and_finish(r, read[r])

passport_dg2_read_more(r, d) ==
  IF Remaining(d, "dg2") # 0 THEN ReadMore(r, d, "dg2", "dg2_rest")
  ELSE passport_build_result_and_finish(r, d)

passport_dg2_rest_ready(r) ==
  /\ Dispatch(r, "dg2_rest")
  /\ IF Ok(r) THEN \E t \in Announced(r, "dg2") :
                     passport_dg2_read_more(r, Grown(r, "dg2", t))
              ELSE passport_build_result_and_finish(r, read[r])

Callback(r) ==
  \/ passport_tag_proxy_ready(r) \/ passport_acquire_ready(r)
  \/ passport_select_aid_ready(r) \/ passport_get_challenge_ready(r)
  \/ passport_mutual_auth_ready(r)
  \/ passport_select_ef_cardaccess_ready(r)
  \/ passport_ef_cardaccess_rest_ready(r) \/ pace_mse_set_at_ready(r)
  \/ pace_get_nonce_ready(r) \/ pace_map_nonce_ready(r)
  \/ pace_key_agreement_ready(r) \/ pace_mutual_auth_ready(r)
  \/ pace_select_aid_ready(r)
  \/ passport_select_dg1_ready(r) \/ passport_dg1_rest_ready(r)
  \/ passport_select_dg2_ready(r) \/ passport_dg2_rest_ready(r)
  \/ passport_release_ready(r)

-----------------------------------------------------------------------------
(* Calls, and the tag.                                                     *)

passport_read_precheck == passport_reading = NULL /\ tag_path # NULL /\ isodep

passport_read_dispatch(r, d) ==
  /\ read' = [read EXCEPT ![r] = [d EXCEPT !.stage = "tag_proxy",
                                            !.client = TRUE, !.path = tag_path]]
  /\ reqs' = Append(reqs, Call(r, "tag_proxy", tag_path, 0))
  /\ passport_reading' = r

\* keys: the caller's data give keys.
Start(r, pace, photo, keys) ==
  /\ r = nreads + 1
  /\ nreads' = r
  /\ LET d == [NoRead EXCEPT !.use_pace = pace, !.read_photo = photo] IN
       IF passport_read_precheck /\ keys
         THEN passport_read_dispatch(r, d)
         ELSE /\ read' = [read EXCEPT ![r] = Ended(d, "error", "none")]
              /\ UNCHANGED <<reqs, passport_reading>>
  /\ UNCHANGED <<nfcdVars, clientVars, inbox>>

nfcd_client_read_passport(r, photo, keys) == Start(r, FALSE, photo, keys)
nfcd_client_read_passport_pace(r, photo, keys) == Start(r, TRUE, photo, keys)

\* Mutant: the caller is told of the abort on the spot.
passport_read_abort_answers(r, m) ==
  /\ read' = [read EXCEPT ![r].client = FALSE, ![r].cancelled = TRUE,
                          ![r].answers = @ + 1]
  /\ inbox' = IF \E i \in DOMAIN reqs : reqs[i].id = r /\ reqs[i].op = read[r].stage
                THEN Append(m, Answer(Call(r, read[r].stage, read[r].path, 0),
                                      "fail", 0))
                ELSE m

\* The call that is out fails as cancelled unless its answer is in m already;
\* its callback then finishes the read.
passport_read_abort(r, m) ==
  /\ read' = [read EXCEPT ![r].client = FALSE, ![r].cancelled = TRUE]
  /\ inbox' = IF \E i \in DOMAIN reqs : reqs[i].id = r /\ reqs[i].op = read[r].stage
                THEN Append(m, Answer(Call(r, read[r].stage, read[r].path, 0),
                                      "fail", 0))
                ELSE m

set_current_tag ==
  /\ inbox # <<>>
  /\ Head(inbox).op = "tags"
  /\ IF Head(inbox).path = tag_path
       THEN /\ inbox' = Tail(inbox)
            /\ UNCHANGED <<clientVars, passport_reading, read>>
       ELSE /\ tag_path' = Head(inbox).path
            /\ isodep' = FALSE
            /\ passport_reading' = NULL
            /\ IF passport_reading # NULL
                 THEN passport_read_abort(passport_reading, Tail(inbox))
                 ELSE inbox' = Tail(inbox) /\ UNCHANGED read
  /\ UNCHANGED <<nfcdVars, reqs, nreads>>

\* The tag read (module TagRead) has found a T4A or T4B tag.
TagReadDone ==
  /\ tag_path # NULL /\ ~isodep
  /\ isodep' = TRUE
  /\ UNCHANGED <<nfcdVars, tag_path, reqs, inbox, passport_reading, nreads, read>>

Client == set_current_tag \/ \E r \in Reads : Callback(r)

Caller ==
  \E r \in Reads, photo, keys \in BOOLEAN :
    \/ nfcd_client_read_passport(r, photo, keys)
    \/ nfcd_client_read_passport_pace(r, photo, keys)

Nfcd == PlaceTag \/ RemoveTag \/ Crash \/ Restart \/ Attach

Init ==
  /\ up = TRUE /\ crashes = 0 /\ attached = TRUE
  /\ placed = 0 /\ ntag = NULL /\ last_path = 0 /\ locks = 0
  /\ session = NULL
  /\ reqs = <<>> /\ inbox = <<>>
  /\ tag_path = NULL /\ isodep = FALSE /\ passport_reading = NULL
  /\ nreads = 0
  /\ read = [r \in Reads |-> NoRead]

Next == Client \/ TagReadDone \/ Caller \/ Serve \/ Nfcd

\* The main loop runs and every call is answered.
Fairness == WF_vars(Client) /\ WF_vars(Serve)

Spec == Init /\ [][Next]_vars /\ Fairness

-----------------------------------------------------------------------------
(* Properties.                                                             *)

Calls == [id : Reads, op : Ops, path : 1..MaxTags, le : Nat]

Messages == [id : 0..MaxReads, op : Ops \union {"tags"}, path : 0..MaxTags,
             res : {"ok", "fail"}, n : 0..ChipLen]

Records == [stage : Ops \union {"idle", "done"}, path : 0..MaxTags,
            client : BOOLEAN, cancelled : BOOLEAN, acquired : BOOLEAN,
            use_pace : BOOLEAN, read_photo : BOOLEAN,
            len : [Files -> 0..ChipLen], total : [Files -> {0} \union FileLens],
            answers : Nat, reply : {"none", "error", "success"},
            photo : {"none", "part", "whole"}]

TypeOK ==
  /\ up \in BOOLEAN /\ attached \in BOOLEAN /\ isodep \in BOOLEAN
  /\ crashes \in 0..MaxCrashes /\ placed \in 0..MaxTags
  /\ ntag \in 0..MaxTags /\ last_path \in 0..MaxTags /\ tag_path \in 0..MaxTags
  /\ locks \in Nat /\ session \in 0..MaxReads
  /\ passport_reading \in 0..MaxReads /\ nreads \in 0..MaxReads
  /\ reqs \in Seq(Calls) /\ inbox \in Seq(Messages)
  /\ read \in [Reads -> Records]

Live(r) == read[r].stage \notin {"idle", "done"}

(***************************************************************************)
(* client->passport_reading points at a read that still runs and belongs   *)
(* to the client, and every other running read has been aborted: "one at a *)
(* time" (comment on passport_read_precheck()).                            *)
(***************************************************************************)
OneReadAtATime ==
  /\ passport_reading # NULL =>
       Live(passport_reading) /\ read[passport_reading].client
  /\ \A r \in Reads : Live(r) =>
       (read[r].client <=> r = passport_reading)
       /\ (read[r].client <=> ~read[r].cancelled)

(***************************************************************************)
(* The length arithmetic of the READ BINARY loops (gsize remaining) does   *)
(* not wrap, on a chip with any padding, while the file announced is not   *)
(* shorter than the first READ BINARY: it never has more bytes than that.  *)
(* The code checks only that the file is not too long                      *)
(* (PASSPORT_DG1_MAX_LEN, PASSPORT_DG2_MAX_LEN): with a shorter file and   *)
(* padding, remaining does wrap, and the loop goes on until the chip       *)
(* refuses.                                                                *)
(***************************************************************************)
FilesInBounds ==
  \A r \in Reads, f \in Files \ {"card_access"} :
    read[r].total[f] >= FirstLe => read[r].len[f] <= read[r].total[f]

(***************************************************************************)
(* When no call is out and no read runs, no tag is left acquired: "an      *)
(* already-aborted read must still release the tag it acquired" (comment   *)
(* in passport_read_finish()).  This holds until nfcd crashes: an Acquire  *)
(* nobody waits for any more may be granted by the next nfcd, which reuses *)
(* the path.                                                               *)
(***************************************************************************)
TagGivenBack ==
  /\ crashes = 0 /\ reqs = <<>> /\ inbox = <<>>
  /\ \A r \in Reads : ~Live(r)
  => locks = 0

(***************************************************************************)
(* "Deactivate forces a real RF_DEACTIVATE, so the next read starts from a *)
(* genuine fresh poll/select instead of a stale, already-used session"     *)
(* (comment in passport_release_ready()): no handshake reaches a chip that *)
(* has seen another one since its activation, although a caller may start  *)
(* the next read before the Release and Deactivate of the last are done.   *)
(***************************************************************************)
FreshSession == [][session # NULL => session' \in {NULL, session}]_vars

Contract ==
  INSTANCE Request
    WITH Requests <- Reads,
         phase <- [r \in Reads |->
                     IF read[r].answers > 1 THEN "answered twice"
                     ELSE IF read[r].answers = 0
                       THEN IF read[r].stage = "idle" THEN "idle" ELSE "pending"
                     ELSE IF read[r].reply = "success" THEN "ok" ELSE "failed"]

(***************************************************************************)
(* "every exit path below calls back rather than silently orphaning"       *)
(* (comment above the passport read) and "every step below ends here       *)
(* exactly once, success or failure" (comment on passport_read_finish()):  *)
(* however aborts, crashes and late answers meet, every call is answered   *)
(* in the end and none twice.  The read keeps the contract of Request.     *)
(***************************************************************************)
EveryReadAnswered == Contract!Spec

(***************************************************************************)
(* The comment above passport_select_dg2_start(): "any failure here just   *)
(* falls back to the MRZ-only result": a result has the whole photo or     *)
(* none.                                                                   *)
(***************************************************************************)
PhotoIsWhole == \A r \in Reads : read[r].photo # "part"
=============================================================================
