------------------------------ MODULE TagRead ------------------------------
(***************************************************************************)
(* How nfcd_client.c follows the tag in the field: set_current_tag(), the  *)
(* chain of asynchronous D-Bus calls behind every struct tag_read, the     *)
(* MIFARE Classic sector sweep with its key cache, and the pushes to the   *)
(* getTagInfo subscribers.                                                 *)
(*                                                                         *)
(* The adapter is single threaded.  Interleaving comes from its main loop: *)
(* a callback of any outstanding call, or a change of the tag list, may be *)
(* the next event.  A read that set_current_tag() abandons is orphaned,    *)
(* not freed: its one outstanding callback frees it later.                 *)
(***************************************************************************)
EXTENDS Integers, Sequences

CONSTANTS
  Paths,                    \* object paths nfcd gives tags
  NoPath,                   \* a NULL tag_path
  Uids,                     \* NFCID1 values of MIFARE cards
  NoUid,                    \* a card whose poll parameters have no NFCID1
  Cards,                    \* the tags that may be put in the field
  MaxReads,                 \* bound: tag_read_start() calls in a behaviour
  MIFARE_NUM_SECTORS,       \* 40 in the code
  MIFARE_NUM_DEFAULT_KEYS,  \* 4 in the code
  SmallSectors,             \* 32 in the code: sectors of SmallBlocks blocks
  SmallBlocks,              \* 4 in the code
  LargeBlocks               \* 16 in the code

Reads == 1..MaxReads
NULL == 0
Sectors == 0..(MIFARE_NUM_SECTORS - 1)
Keys == 0..(MIFARE_NUM_DEFAULT_KEYS - 1)
NoKey == -1

(***************************************************************************)
(* What a physical tag is to this code: its kind, the UID that indexes the *)
(* key cache, for every sector the default key that opens it (NoKey when   *)
(* none does), and its number of NDEF records.                             *)
(***************************************************************************)
Card == [kind : {"mifare", "type2", "other"}, uid : Uids \union {NoUid},
         keys : [Sectors -> Keys \union {NoKey}], nrec : Nat]

ASSUME ConstantsAssumption ==
  /\ NoPath \notin Paths
  /\ NoUid \notin Uids
  /\ MaxReads \in Nat
  /\ MIFARE_NUM_SECTORS \in Nat \ {0}
  /\ MIFARE_NUM_DEFAULT_KEYS \in Nat \ {0}
  /\ SmallSectors \in Nat
  /\ SmallBlocks \in Nat \ {0}
  /\ LargeBlocks \in Nat \ {0}
  /\ Cards # {}

ASSUME CardsAssumption == Cards \subseteq Card

VARIABLES
  \* struct nfcd_client
  tag_path, tag_json, tag_is_type2, tag_protocol, reading, mifare_key_cache,
  \* struct tag_read, one per tag_read_start()
  nreads,      \* reads allocated so far
  mem,         \* is the memory of the read unallocated, live or freed
  owned,       \* read->client # NULL
  cancelled,   \* read->cancellable
  call,        \* the callback its outstanding call ends in, or "none"
  rd,          \* the other fields, and two ghosts: card and glitch
  \* the body of the last getTagInfo push
  pushed

clientVars == <<tag_path, tag_json, tag_is_type2, pushed>>
steadyVars == <<tag_protocol, mifare_key_cache>>
readVars == <<nreads, mem, owned, cancelled, call, rd>>
vars == <<clientVars, steadyVars, readVars, reading>>

CallNames == {"tag_proxy", "get_all", "ndef_proxy", "ndef_get_all",
              "raw_data_proxy", "raw_data", "mifare_auth", "mifare_block"}

NoJson == [read |-> NULL, path |-> NoPath, scanning |-> FALSE,
           records |-> <<>>, raw |-> FALSE, sectors |-> <<>>]

SectorEntry == [sector : Sectors, key : Keys, blocks : Nat]

TagJson == [read : 0..MaxReads, path : Paths \union {NoPath},
            scanning : BOOLEAN, records : Seq(Nat), raw : BOOLEAN,
            sectors : Seq(SectorEntry)]

-----------------------------------------------------------------------------
(* Building blocks shared by the callbacks.                                *)

\* g_new0(struct tag_read, 1) for a tag c that sits at path.  glitch records
\* that nfcd failed a call the tag itself would have answered.
FreshRead(path, c) ==
  [path |-> path, card |-> c, glitch |-> FALSE, is_type2 |-> FALSE,
   records |-> <<>>, record_index |-> 0, raw |-> FALSE,
   sector |-> 0, key_index |-> 0, cached_attempt |-> FALSE, key |-> NoKey,
   block_offset |-> 0, block |-> 0, sectors |-> <<>>]

ReadFields ==
  [path : Paths \union {NoPath}, card : Cards, glitch : BOOLEAN,
   is_type2 : BOOLEAN, records : Seq(Nat), record_index : Nat, raw : BOOLEAN,
   sector : 0..MIFARE_NUM_SECTORS, key_index : 0..MIFARE_NUM_DEFAULT_KEYS,
   cached_attempt : BOOLEAN, key : Keys \union {NoKey}, block_offset : Nat,
   block : Nat, sectors : Seq(SectorEntry)]

\* Starts the asynchronous call that ends in callback c, with d in the read.
Send(r, d, c) ==
  /\ rd' = [rd EXCEPT ![r] = d]
  /\ call' = [call EXCEPT ![r] = c]
  /\ UNCHANGED <<nreads, mem, owned, cancelled>>

tag_read_free(r) ==
  /\ mem' = [mem EXCEPT ![r] = "freed"]
  /\ call' = [call EXCEPT ![r] = "none"]
  /\ UNCHANGED <<nreads, owned, cancelled>>

\* Mutant: subscribers are told before the new state is in place.
notify_tag_too_early == pushed' = tag_json

\* tag_changed_cb(): every getTagInfo subscriber is sent the current tag.
notify_tag == pushed' = tag_json'

\* How an outstanding call of r can end.  A cancelled GTask always reports
\* the cancellation; any other D-Bus call ends with a reply or an error, at
\* the latest when GDBus times it out.
Results(r) == IF cancelled[r] THEN {"cancelled"} ELSE {"ok", "error"}

\* d after a call that the tag could have answered ended with res.
Noting(d, res) == [d EXCEPT !.glitch = @ \/ res # "ok"]

\* The contents of memory no read uses.
Blank == FreshRead(NoPath, CHOOSE c \in Cards : TRUE)

\* The callback of an orphaned read releases it and touches nothing else.
Orphan(r) ==
  /\ tag_read_free(r)
  /\ rd' = [rd EXCEPT ![r] = Blank]
  /\ UNCHANGED <<clientVars, steadyVars, reading>>

tag_read_finish(r, d) ==
  /\ tag_json' = [read |-> r, path |-> d.path, scanning |-> FALSE,
                  records |-> d.records, raw |-> d.raw, sectors |-> d.sectors]
  /\ tag_is_type2' = d.is_type2
  /\ reading' = NULL
  /\ rd' = [rd EXCEPT ![r] = d]
  /\ tag_read_free(r)
  /\ notify_tag
  /\ UNCHANGED tag_path

-----------------------------------------------------------------------------
(* The MIFARE Classic sweep.                                               *)

mifare_sector_first_block(sector) ==
  IF sector < SmallSectors
    THEN sector * SmallBlocks
    ELSE SmallSectors * SmallBlocks + (sector - SmallSectors) * LargeBlocks

\* Mutant: the larger sectors' size for every sector.
mifare_sector_block_count_large(sector) == LargeBlocks

mifare_sector_block_count(sector) ==
  IF sector < SmallSectors THEN SmallBlocks ELSE LargeBlocks

mifare_cache_lookup(cache, uid, sector) ==
  IF uid = NoUid THEN NoKey ELSE cache[uid][sector]

\* Mutant: a key once cached is never replaced.
mifare_cache_store_first(uid, sector, key) ==
  mifare_key_cache' =
    IF uid = NoUid \/ mifare_key_cache[uid][sector] # NoKey
      THEN mifare_key_cache
      ELSE [mifare_key_cache EXCEPT ![uid][sector] = key]

mifare_cache_store(uid, sector, key) ==
  mifare_key_cache' =
    IF uid = NoUid THEN mifare_key_cache
    ELSE [mifare_key_cache EXCEPT ![uid][sector] = key]

mifare_publish_progress(r, d) ==
  /\ tag_json' = [read |-> r, path |-> d.path, scanning |-> TRUE,
                  records |-> <<>>, raw |-> FALSE, sectors |-> d.sectors]
  /\ notify_tag
  /\ UNCHANGED <<tag_path, tag_is_type2>>

mifare_send_auth(r, d, key) ==
  Send(r, [d EXCEPT !.key = key,
                    !.block = mifare_sector_first_block(d.sector)],
       "mifare_auth")

\* The caller has seen that the read is still owned.  There is a default key,
\* so the first tag_read_mifare_try_key() of a sector always sends one.
tag_read_mifare_next_sector(r, d, cache) ==
  IF d.sector >= MIFARE_NUM_SECTORS
    THEN tag_read_finish(r, d)
    ELSE LET k == mifare_cache_lookup(cache, d.card.uid, d.sector)
             e == [d EXCEPT !.key_index = 0, !.cached_attempt = k # NoKey]
         IN  /\ mifare_publish_progress(r, d)
             /\ mifare_send_auth(r, e, IF k # NoKey THEN k ELSE 0)
             /\ UNCHANGED reading

\* Mutant: one key too many.
tag_read_mifare_try_key_past(r, d) ==
  IF d.key_index > MIFARE_NUM_DEFAULT_KEYS
    THEN tag_read_mifare_next_sector(r, [d EXCEPT !.sector = @ + 1],
                                     mifare_key_cache)
    ELSE /\ mifare_send_auth(r, d, d.key_index)
         /\ UNCHANGED <<clientVars, reading>>

\* Mutant: the sector without a known key is not skipped.
tag_read_mifare_try_key_stays(r, d) ==
  IF d.key_index >= MIFARE_NUM_DEFAULT_KEYS
    THEN tag_read_mifare_next_sector(r, d, mifare_key_cache)
    ELSE /\ mifare_send_auth(r, d, d.key_index)
         /\ UNCHANGED <<clientVars, reading>>

tag_read_mifare_try_key(r, d) ==
  IF d.key_index >= MIFARE_NUM_DEFAULT_KEYS
    THEN tag_read_mifare_next_sector(r, [d EXCEPT !.sector = @ + 1],
                                     mifare_key_cache)
    ELSE /\ mifare_send_auth(r, d, d.key_index)
         /\ UNCHANGED <<clientVars, reading>>

\* Mutant: the failed cached key counts as the first default key.
mifare_next_key_skips(r, d) ==
  /\ tag_read_mifare_try_key(r, [d EXCEPT !.cached_attempt = FALSE,
                                         !.key_index = @ + 1])
  /\ UNCHANGED steadyVars

\* Mutant: cached_attempt is not cleared.
mifare_next_key_sticky(r, d) ==
  /\ tag_read_mifare_try_key(r,
       IF d.cached_attempt THEN d ELSE [d EXCEPT !.key_index = @ + 1])
  /\ UNCHANGED steadyVars

\* The key just tried failed: a cached one gives way to the default keys from
\* the start, a default one to the next.
mifare_next_key(r, d) ==
  /\ tag_read_mifare_try_key(r,
       IF d.cached_attempt THEN [d EXCEPT !.cached_attempt = FALSE]
                           ELSE [d EXCEPT !.key_index = @ + 1])
  /\ UNCHANGED steadyVars

mifare_sector_done(r, d) ==
  LET entry == [sector |-> d.sector, key |-> d.key, blocks |-> d.block_offset]
      e == [d EXCEPT !.sectors = Append(@, entry), !.sector = @ + 1]
  IN  /\ mifare_cache_store(d.card.uid, d.sector, d.key)
      /\ tag_read_mifare_next_sector(r, e, mifare_key_cache)
      /\ UNCHANGED tag_protocol

mifare_read_block(r, d) ==
  /\ Send(r, [d EXCEPT !.block = mifare_sector_first_block(d.sector)
                                 + d.block_offset], "mifare_block")
  /\ UNCHANGED <<clientVars, steadyVars, reading>>

\* The key in use is the one that opens the sector.
KeyFits(d) == d.card.keys[d.sector] = d.key

\* Wrong keys may still get a clean round trip: the HAL can report a failed
\* authentication as an ordinary short response.
mifare_auth_ready(r) ==
  /\ call[r] = "mifare_auth"
  /\ \E res \in Results(r) :
       LET d == IF KeyFits(rd[r]) THEN Noting(rd[r], res) ELSE rd[r]
       IN  IF ~owned[r] \/ res = "cancelled" THEN Orphan(r)
           ELSE IF res = "error" THEN mifare_next_key(r, d)
           ELSE mifare_read_block(r, [d EXCEPT !.block_offset = 0])

\* "short" is a reply of any length but 16: only a right key gets the block.
BlockResults(r) ==
  IF cancelled[r] THEN {"cancelled"}
  ELSE {"error", "short"} \union (IF KeyFits(rd[r]) THEN {"ok"} ELSE {})

mifare_block_read_ready(r) ==
  /\ call[r] = "mifare_block"
  /\ \E res \in BlockResults(r) :
       LET d == IF KeyFits(rd[r]) THEN Noting(rd[r], res) ELSE rd[r]
           e == [d EXCEPT !.block_offset = @ + 1]
       IN  IF ~owned[r] THEN Orphan(r)
           ELSE IF res = "ok"
             THEN IF e.block_offset >= mifare_sector_block_count(e.sector)
                    THEN mifare_sector_done(r, e)
                    ELSE mifare_read_block(r, e)
             ELSE IF d.block_offset = 0
                    THEN mifare_next_key(r, d)
                    ELSE mifare_sector_done(r, d)

-----------------------------------------------------------------------------
(* NDEF records and the raw data area of a Type 2 tag.                     *)

tag_read_raw_data(r, d) ==
  IF d.is_type2
    THEN /\ Send(r, d, "raw_data_proxy")
         /\ UNCHANGED <<clientVars, reading>>
    ELSE tag_read_finish(r, d)

tag_read_next_record(r, d) ==
  IF d.record_index < d.card.nrec
    THEN /\ Send(r, d, "ndef_proxy")
         /\ UNCHANGED <<clientVars, reading>>
    ELSE tag_read_raw_data(r, d)

ndef_get_all_ready(r) ==
  /\ call[r] = "ndef_get_all"
  /\ \E res \in Results(r) :
       LET d == Noting(rd[r], res)
           e == IF res = "ok"
                  THEN [d EXCEPT !.records = Append(@, d.record_index)] ELSE d
       IN  IF ~owned[r] THEN Orphan(r)
           ELSE /\ tag_read_next_record(r, [e EXCEPT !.record_index = @ + 1])
                /\ UNCHANGED steadyVars

ndef_proxy_ready(r) ==
  /\ call[r] = "ndef_proxy"
  /\ \E res \in Results(r) :
       LET d == Noting(rd[r], res)
       IN  IF ~owned[r] THEN Orphan(r)
           ELSE /\ IF res = "ok"
                     THEN /\ Send(r, d, "ndef_get_all")
                          /\ UNCHANGED <<clientVars, reading>>
                     ELSE tag_read_next_record(r,
                            [d EXCEPT !.record_index = @ + 1])
                /\ UNCHANGED steadyVars

raw_data_ready(r) ==
  /\ call[r] = "raw_data"
  /\ \E res \in Results(r) :
       IF ~owned[r] THEN Orphan(r)
       ELSE /\ tag_read_finish(r, [Noting(rd[r], res) EXCEPT !.raw = res = "ok"])
            /\ UNCHANGED steadyVars

raw_data_proxy_ready(r) ==
  /\ call[r] = "raw_data_proxy"
  /\ \E res \in Results(r) :
       LET d == Noting(rd[r], res)
       IN  IF ~owned[r] THEN Orphan(r)
           ELSE /\ IF res = "ok"
                     THEN /\ Send(r, d, "raw_data")
                          /\ UNCHANGED <<clientVars, reading>>
                     ELSE tag_read_finish(r, d)
                /\ UNCHANGED steadyVars

-----------------------------------------------------------------------------
(* The start of a read.                                                    *)

\* A read that cannot even identify its tag is dropped without a word.
GiveUp(r) ==
  /\ reading' = IF owned[r] THEN NULL ELSE reading
  /\ tag_read_free(r)
  /\ rd' = [rd EXCEPT ![r] = Blank]
  /\ UNCHANGED <<clientVars, steadyVars>>

tag_get_all_ready(r) ==
  /\ call[r] = "get_all"
  /\ \E res \in Results(r) :
       LET c == rd[r].card
           d == [rd[r] EXCEPT !.is_type2 = c.kind = "type2"]
       IN  IF res # "ok" THEN GiveUp(r)
           ELSE IF ~owned[r] THEN Orphan(r)
           ELSE /\ tag_protocol' = c.kind
                /\ IF c.kind = "mifare"
                     THEN tag_read_mifare_next_sector(r, d, mifare_key_cache)
                     ELSE tag_read_next_record(r, d)
                /\ UNCHANGED mifare_key_cache

tag_proxy_ready(r) ==
  /\ call[r] = "tag_proxy"
  /\ \E res \in Results(r) :
       IF res # "ok" THEN GiveUp(r)
       ELSE IF ~owned[r] THEN Orphan(r)
       ELSE /\ Send(r, rd[r], "get_all")
            /\ UNCHANGED <<clientVars, steadyVars, reading>>

\* The next outstanding callback of read r, whichever it is.
Callback(r) ==
  \/ tag_proxy_ready(r)
  \/ tag_get_all_ready(r)
  \/ ndef_proxy_ready(r)
  \/ ndef_get_all_ready(r)
  \/ raw_data_proxy_ready(r)
  \/ raw_data_ready(r)
  \/ mifare_auth_ready(r)
  \/ mifare_block_read_ready(r)

-----------------------------------------------------------------------------
(* The current tag.                                                        *)

\* Mutant: the read is cancelled but keeps its client pointer.
tag_read_abort_attached(r) ==
  /\ cancelled' = [cancelled EXCEPT ![r] = TRUE]
  /\ UNCHANGED owned

\* Orphans the read in progress: its callback sees the missing client.
tag_read_abort(r) ==
  /\ owned' = [owned EXCEPT ![r] = FALSE]
  /\ cancelled' = [cancelled EXCEPT ![r] = TRUE]

\* Allocates read nreads + 1 for the tag c at path and sends its first call.
tag_read_start(path, c) ==
  LET r == nreads + 1
  IN  /\ nreads' = r
      /\ mem' = [mem EXCEPT ![r] = "live"]
      /\ call' = [call EXCEPT ![r] = "tag_proxy"]
      /\ rd' = [rd EXCEPT ![r] = FreshRead(path, c)]
      /\ reading' = r

\* Mutant: tag_is_type2 outlives its tag.
set_current_tag_keeps_type2(path, c) ==
  IF tag_path = path
    THEN UNCHANGED vars
    ELSE /\ IF reading # NULL THEN tag_read_abort(reading)
                              ELSE UNCHANGED <<owned, cancelled>>
         /\ tag_path' = path
         /\ tag_protocol' = "none"
         /\ tag_json' = NoJson
         /\ notify_tag
         /\ IF path = NoPath
              THEN /\ reading' = NULL
                   /\ UNCHANGED <<nreads, mem, call, rd>>
              ELSE tag_read_start(path, c)
         /\ UNCHANGED <<tag_is_type2, mifare_key_cache>>

\* path is NoPath when the tag list is empty; c is then irrelevant.  A read
\* that has not been started is owned and not cancelled, as g_new0() and
\* tag_read_start() leave it.
set_current_tag(path, c) ==
  IF tag_path = path
    THEN UNCHANGED vars
    ELSE /\ IF reading # NULL THEN tag_read_abort(reading)
                              ELSE UNCHANGED <<owned, cancelled>>
         /\ tag_path' = path
         /\ tag_is_type2' = FALSE
         /\ tag_protocol' = "none"
         /\ tag_json' = NoJson
         /\ notify_tag
         /\ IF path = NoPath
              THEN /\ reading' = NULL
                   /\ UNCHANGED <<nreads, mem, call, rd>>
              ELSE tag_read_start(path, c)
         /\ UNCHANGED mifare_key_cache

\* The tag list changed; only its first entry matters.
update_tags ==
  \/ set_current_tag(NoPath, CHOOSE c \in Cards : TRUE)
  \/ /\ nreads < MaxReads
     /\ \E path \in Paths, c \in Cards : set_current_tag(path, c)

-----------------------------------------------------------------------------
Init ==
  /\ tag_path = NoPath
  /\ tag_json = NoJson
  /\ tag_is_type2 = FALSE
  /\ tag_protocol = "none"
  /\ reading = NULL
  /\ mifare_key_cache = [u \in Uids |-> [s \in Sectors |-> NoKey]]
  /\ nreads = 0
  /\ mem = [r \in Reads |-> "unallocated"]
  /\ owned = [r \in Reads |-> TRUE]
  /\ cancelled = [r \in Reads |-> FALSE]
  /\ call = [r \in Reads |-> "none"]
  /\ rd = [r \in Reads |-> Blank]
  /\ pushed = NoJson

Next == update_tags \/ \E r \in Reads : Callback(r)

\* Every D-Bus call ends in its callback: GDBus times out calls nobody answers.
CallbackFairness == \A r \in Reads : WF_vars(Callback(r))

Spec == Init /\ [][Next]_vars /\ CallbackFairness

-----------------------------------------------------------------------------
(* Properties.                                                             *)

ClientTypeOK ==
  /\ tag_path \in Paths \union {NoPath}
  /\ tag_json \in TagJson
  /\ pushed \in TagJson
  /\ tag_is_type2 \in BOOLEAN
  /\ reading \in 0..MaxReads

SteadyTypeOK ==
  /\ tag_protocol \in {"none", "mifare", "type2", "other"}
  /\ mifare_key_cache \in [Uids -> [Sectors -> Keys \union {NoKey}]]

ReadTypeOK ==
  /\ nreads \in 0..MaxReads
  /\ mem \in [Reads -> {"unallocated", "live", "freed"}]
  /\ owned \in [Reads -> BOOLEAN]
  /\ cancelled \in [Reads -> BOOLEAN]
  /\ call \in [Reads -> CallNames \union {"none"}]
  /\ rd \in [Reads -> ReadFields]

TypeOK == ClientTypeOK /\ SteadyTypeOK /\ ReadTypeOK

\* client->reading never points at freed or abandoned memory.
ReadingIsLive ==
  reading # NULL => mem[reading] = "live" /\ owned[reading]

\* At most one read still reports to the client, and it is client->reading:
\* no earlier read can write tag_json any more.
OwnedIsReading ==
  \A r \in Reads : mem[r] = "live" /\ owned[r] => r = reading

\* A live read has its one outstanding call, whose callback will free it (no
\* read leaks), and a freed read has none (no callback runs on freed memory).
CallIffLive ==
  \A r \in Reads : mem[r] = "live" <=> call[r] # "none"

(***************************************************************************)
(* Whatever order tags come, go and answer in, the pointers between the    *)
(* client and its reads stay sound: "the callback can safely free the read *)
(* once it has been abandoned" (comment above tag_read_free()).            *)
(***************************************************************************)
NoDanglingRead == ReadingIsLive /\ OwnedIsReading /\ CallIffLive

(***************************************************************************)
(* What getTagInfo shows, and what the write and passport methods check    *)
(* (tag_is_type2, tag_protocol), is about the tag now in the field, as the *)
(* read started for it found it: never about an earlier tag, even one that *)
(* had the same object path, and nothing is left once the tag is gone.     *)
(***************************************************************************)
InfoIsCurrent ==
  /\ tag_path = NoPath => tag_json = NoJson /\ reading = NULL
  /\ reading # NULL => reading = nreads /\ rd[reading].path = tag_path
  /\ tag_json # NoJson => /\ tag_json.read = nreads
                          /\ tag_json.path = tag_path
                          /\ tag_json.scanning <=> reading # NULL
  /\ tag_is_type2 => tag_json # NoJson /\ rd[nreads].card.kind = "type2"
  /\ tag_protocol # "none" => /\ tag_path # NoPath
                              /\ tag_protocol = rd[nreads].card.kind

(***************************************************************************)
(* No change of the tag escapes the getTagInfo subscribers: the last push  *)
(* always carries what a fresh getTagInfo call would return.               *)
(***************************************************************************)
SubscribersUpToDate == pushed = tag_json

\* The entry of sector s of card c when all of the sector has been read.
FullEntry(c, s) ==
  [sector |-> s, key |-> c.keys[s], blocks |-> mifare_sector_block_count(s)]

\* The entries of a sweep of card c in which no call goes wrong.
AllEntries(c) == {FullEntry(c, s) : s \in {t \in Sectors : c.keys[t] # NoKey}}

(***************************************************************************)
(* When every call the tag could answer was answered, a finished read has  *)
(* found all there was: every record, the raw data of a Type 2 tag, and    *)
(* every MIFARE sector a default key opens with all its blocks - whatever  *)
(* keys an earlier tap of the same UID left in the cache, a re-keyed card  *)
(* included, and whichever wrong keys got a clean authentication reply.    *)
(* SweepIsSound has the order of the sectors.                              *)
(***************************************************************************)
CompleteRead ==
  LET d == rd[tag_json.read] IN
  tag_json # NoJson /\ ~tag_json.scanning /\ ~d.glitch =>
    IF d.card.kind = "mifare"
      THEN {tag_json.sectors[i] : i \in DOMAIN tag_json.sectors}
             = AllEntries(d.card)
      ELSE /\ tag_json.records = [i \in 1..d.card.nrec |-> i - 1]
           /\ tag_json.raw = (d.card.kind = "type2")

(***************************************************************************)
(* Even when calls fail, what a sweep publishes is true of the card: its   *)
(* sectors ascend, each with the key that opens it, at least one block and *)
(* no more than it has, and that key is what the cache offers at the next  *)
(* tap of the card.                                                        *)
(***************************************************************************)
SweepIsSound ==
  tag_json # NoJson =>
    LET c == rd[tag_json.read].card
        s == tag_json.sectors
    IN  /\ \A i, j \in DOMAIN s : i < j => s[i].sector < s[j].sector
        /\ \A i \in DOMAIN s :
             /\ s[i].key = c.keys[s[i].sector]
             /\ s[i].blocks \in 1..mifare_sector_block_count(s[i].sector)
             /\ c.uid # NoUid =>
                  mifare_key_cache[c.uid][s[i].sector] = s[i].key

\* The sector a block address belongs to on the card: SmallSectors sectors of
\* SmallBlocks blocks, then sectors of LargeBlocks blocks.
SectorOf(block) ==
  IF block < SmallSectors * SmallBlocks
    THEN block \div SmallBlocks
    ELSE SmallSectors + (block - SmallSectors * SmallBlocks) \div LargeBlocks

(***************************************************************************)
(* A READ command only addresses a block of the sector authenticated just  *)
(* before it (mifare_read_block(): "Only valid once a sector has been      *)
(* successfully authenticated").                                           *)
(***************************************************************************)
ReadsOwnSector ==
  \A r \in Reads : call[r] = "mifare_block" =>
    SectorOf(rd[r].block) = rd[r].sector

\* Where a sweep stands: sector, key (the cached one first), block.
SweepRank(d, c) ==
  <<d.sector, IF d.cached_attempt THEN 0 ELSE d.key_index + 1,
    IF c = "mifare_auth" THEN 0 ELSE d.block_offset + 1>>

LexLess(a, b) ==
  \/ a[1] < b[1]
  \/ a[1] = b[1] /\ a[2] < b[2]
  \/ a[1] = b[1] /\ a[2] = b[2] /\ a[3] < b[3]

(***************************************************************************)
(* The sweep never goes back: no callback, good or bad, repeats a key of a *)
(* sector or returns to a sector or block already dealt with, so the sweep *)
(* takes a bounded number of round trips.                                  *)
(***************************************************************************)
SweepAdvances ==
  [][\A r \in Reads :
       LET mifare == {"mifare_auth", "mifare_block"}
       IN  /\ call[r] \in mifare
           /\ call'[r] \in mifare
           /\ <<call[r], rd[r]>> # <<call'[r], rd'[r]>>
           => LexLess(SweepRank(rd[r], call[r]),
                      SweepRank(rd'[r], call'[r]))]_vars

(***************************************************************************)
(* Every read that is started ends and releases its memory, whether it     *)
(* completes, fails or is abandoned on the way.                            *)
(***************************************************************************)
ReadsEnd == \A r \in Reads : (mem[r] = "live") ~> (mem[r] = "freed")

=============================================================================
