# webos-nfc-adapter: TLA+ models, checks and proofs

`webos-nfc-adapter` exposes the NFC daemon `nfcd` (system D-Bus) to webOS
applications as the luna service `com.webos.service.nfc`. It runs in one thread,
on a GLib main loop. What makes it hard is that every operation is a chain of
asynchronous D-Bus calls: between any two steps of a chain the tag may leave
the field, another caller may call, and nfcd may crash and come back. The data
have edges of their own: lengths, counters, check digits and paddings.

## Inventory

| Part | State it keeps | Operations | Hard behaviour |
|---|---|---|---|
| Tag reading (`nfcd_client.c` 139-1094, 2282-2322) | `tag_path`, `tag_json`, `tag_is_type2`, `tag_protocol`, `reading`; a `struct tag_read` per read | `update_tags`, `set_current_tag`, `tag_read_start/abort/finish`, one callback per call | reads that outlive their tag; pushes to subscribers |
| MIFARE sweep (445-783) | `mifare_key_cache`; sector, key index, block of the read | authenticate, read block, next key, next sector | order of keys, stale cache, sector geometry, termination |
| Daemon and adapter link (2328-2605) | `daemon`, `adapter`, `adapter_path`, `available`, `present`, mode, `mode_request_id` | name watch, proxies, `GetAll`, signals | answers of an nfcd that is gone; restarts |
| Settings link (2611-2692, 3250-3284) | `settings`, `settings_valid`, `settings_enabled` | name watch, `GetAll`, changed signal, `SetEnabled` | late answers; a service that dies with calls out |
| Write, clone, lock (3286-3692) | one `write_req` / `lock_req` per request | proxy, `Acquire`, Type 2 proxy, write, `Release` | partial failure, locks, tag swapped underneath |
| Card emulation (2780-3190) | `hce_profiles`, `hce_mode_request_id`, last event | add, remove, clear; `Process`, `ResponseStatus` called by nfcd | calls overtaking answers; ids of a dead nfcd |
| Passport reading (1110-2280) | `passport_reading`; a `struct passport_read` per call | BAC, PACE, DG1, DG2 chains; abort | exactly-once answer, lock, one session per activation; counters in step with the chip |
| Luna service (`nfc_service.c`) | one `nfc_request` per asynchronous call | twelve LS2 methods, three subscriptions | answered exactly once; subscribers up to date |
| NDEF (`ndef.c`) | none | builders, decoder, TLV, hexadecimal | length forms and limits, truncated input |
| BAC, PACE (`bac.c`, `pace.c`) | session keys, send sequence counter | MRZ, key derivation, handshakes, secure messaging | carries, paddings, IVs, parameters offered |
| `photo_convert.c`, `luna_service_utils.c`, `main.c` | `main.c`: the loop | conversion, JSON replies, start and stop | |

The parts interact through `struct nfcd_client`: the adapter link calls
`update_tags()`/`set_current_tag()`, which starts and aborts tag reads and
aborts passport reads; writes and passport reads use `tag_path` and what the
tag read found (`tag_is_type2`, `tag_protocol`); card emulation shares
`client->daemon` with the link. Every change is pushed to luna subscribers by
three callbacks (`state_cb`, `tag_cb`, `hce_cb`), and every asynchronous
operation ends in the callback its luna handler gave it.

What makes each part correct is in the properties below; `PROJECT.json`
lists, under `hazards`, the lines where each can go wrong.

## Modules

| Module | Models | Composition |
|---|---|---|
| `TagRead` | tag reading and the MIFARE sweep | |
| `NfcdLink` | daemon and adapter link | tag reading is reduced to `tag_path` |
| `TagWrite` | write, clone and lock chains | the link is reduced to the tags signal, the tag read to `TagReadDone`; implements `WriteContract` |
| `CardEmulation` | profiles, mode request, exchanges | the link is reduced to `client->daemon` and the reader/writer request; implements `Request` |
| `PassportRead` | BAC and PACE reads: calls, aborts, crashes, locks, answers | as `TagWrite`; implements `Request` |
| `Request` | abstract: a call of `nfcd_client.h` is called back exactly once | |
| `WriteContract` | abstract: what a write, clone or lock promises | instantiates `Request` |
| `NfcService` | luna handlers, subscriptions, settings link, end of the main loop | the client's operations are `Request`; towards luna it keeps `Request` in turn |
| `Ndef` | `ndef.c` as operators | |
| `NdefTag` | a tag written, read and cloned with `Ndef` | extends `Ndef`; the write and the read succeed |
| `Emrtd` | files of a travel document as `bac.c` and `pace.c` parse them | |
| `SecureMessaging` | handshakes and secure messaging of `bac.c` and `pace.c` | extends `Emrtd` |
| `DocumentRead` | one passport read APDU by APDU, against a chip | extends `SecureMessaging`; the chain of `PassportRead` with its data, without its aborts |
| `MC*` | small instances for TLC | extend the module they check |
| `QueueLemmas` | facts about queues under `Append`, `Tail` and `\o`, and about which kinds of messages are still to come | extends `SequenceTheorems`, `TLAPS` |
| `TagRead_proofs` | all safety of `TagRead`: types, pointers and pushes; what a read reports is true, and nothing is missed | extends `TagRead` |
| `NfcdLink_proofs` | all safety of `NfcdLink` | extends `NfcdLink`, `QueueLemmas` |
| `TagWrite_proofs` | all safety of `TagWrite`, with its refinement | extends `TagWrite`, `QueueLemmas` |
| `CardEmulation_proofs` | all safety of `CardEmulation` | extends `CardEmulation`, `QueueLemmas` |
| `NfcService_proofs` | all safety of `NfcService` | extends `NfcService`, `QueueLemmas` |
| `PassportRead_proofs` | all safety of `PassportRead` | extends `PassportRead`, `QueueLemmas` |
| `DocumentRead_proofs` | all safety of `DocumentRead` | extends `DocumentRead`, `TLAPS` |

Correspondence. A module's variables are the fields of `struct nfcd_client`
and of the request structs, under their own names, plus nfcd's state and the
two directions of the bus. An action is one callback or one public function,
under its C name, with everything it calls; it takes one event off `inbox` (or
one completed call of a read, in `TagRead`) and may append calls to `reqs`.
Helpers that an action shares with others keep their C names too. Definitions
whose name is a C name plus a suffix, headed `Mutant:`, are faulty variants used
to show that a property can fail; no specification uses them.

Environment. nfcd is external: it answers calls in the order they arrive,
numbers tags and mode requests afresh after a restart, fails calls on paths
that are not in the field, and forgets everything when it crashes. The settings
service is external too; it keeps the setting across restarts. The bus is
FIFO in each direction, and it refuses calls while the service is down. A
cancelled GTask reports the cancellation whatever its result was. A store
through a freed profile (`hce_register_ready()`) is a nondeterministic choice
among the profiles that may have been given that memory, and none. The chip of
a document keeps to ICAO 9303; it does its own arithmetic on counters (as
numbers, not as bytes with carry), so that it is a reference for the code's.

Data. In the modules about chains of calls a tag or an AID is a model value or
a number; JSON objects are reduced to which parts they have; files of a
passport to their length; a MIFARE key to its index; a response to whether it
passes all checks of its callback. `Ndef` and `Emrtd` work on bytes: a text is a
sequence of numbers with its real length (in `Ndef`, of words that differ from
each other; in `Emrtd`, of ASCII codes). Cryptography is symbolic: a
ciphertext or MAC is the record of its key and what went into it. Points of the
curve are the integers modulo a prime, so the algebra of PACE (mapping, key
agreement, a point and its negative with the same x coordinate) is kept.

## Runs

`tlc -config X.cfg MC...` for each cfg; names are those of `PROJECT.json`.

| Run | Question | Result |
|---|---|---|
| `tag_read` | two reads, tags change at any step: no dangling read (`NoDanglingRead`), published data belong to the current tag (`InfoIsCurrent`), subscribers have the last value (`SubscribersUpToDate`), a read without failures is complete (`CompleteRead`), the sectors published were read with their key and in order (`SweepIsSound`), READs stay in the authenticated sector (`ReadsOwnSector`), the sweep never goes back (`SweepAdvances`), every read ends and is freed (`ReadsEnd`) | holds |
| `nfcd_link` | when nothing is outstanding the client's view is nfcd's (`SettledIsAccurate`), the last status was pushed (`StatusIsPushed`), reader/writer mode is held (`ModeIsHeld`); the view becomes accurate once nfcd is quiet (`EventuallyAccurate`) | holds |
| `tag_write` | with a crash of nfcd: success only for bytes that are on a tag (`SuccessMeansWritten`), no lock left (`NoLockLeft`), `TagWrite` implements `WriteContract` (`WritesLikeContract`); until the crash: writes only on the acquired tag (`ExclusiveAccess`), every request answered (`AnsweredUnlessCrashed`) | holds |
| `card_emulation_orderly` | nfcd up, callers wait for each answer: success of an add means registered, removed means unregistered, the flag nfcd has is current, response ids are usable across the wrap | holds |
| `card_emulation_overlap` | overlapping calls, rejections and a crash: until the crash an AID being served has its mode held (`ModeWhileActive`), `CardEmulation` implements `Request` (`CallsAnswered`) | holds |
| `passport_read` | with a crash of nfcd: `PassportRead` implements `Request` (`EveryReadAnswered`), one read at a time (`OneReadAtATime`), no data group at least as long as the first READ BINARY is read beyond its announced length (`FilesInBounds`), one handshake per activation (`FreshSession`); until the crash the tag is handed back (`TagGivenBack`) | holds |
| `ndef` | getTagInfo shows what writeTag, cloneTag and other devices wrote (`ReadsBack`), a cut message is malformed (`CutIsMalformed`), what does not fit a record is refused and nothing else (`RefusesWhatDoesNotFit`) | holds |
| `service` | subscribers have the current state (`SubscribersUpToDate`), `enabled` is the setting once all is handled (`EnabledIsCurrent`), a message is referenced exactly while its operation runs (`MessagesHeld`), each gets at most one reply, and gets it unless nfcd crashes under its write or lock or the service is stopped (`EveryMessageAnswered`, with the safety of `Request`) | holds |
| `document` | terminal and chip keep the same keys and counter (`InStep`), secure messaging needs the right password (`PasswordProved`), a result is what the issuer wrote, with the fields of a TD1 or TD3 document and none of another (`ReportsTheDocument`), an error names its cause, for documents that refuse BAC, PACE or a step of a handshake too, and a readable document is read (`ErrorTellsWhy`) | holds |
| `card_emulation_readd` | success of an add means registered, with a crash | violated: a failed add makes the next one a no-op |
| `card_emulation_remove` | removed means unregistered, with overlapping calls | violated: a remove before the registration is confirmed |
| `passport_photo` | a result has the whole photo or none | violated: a partly read DG2 gives a truncated photo |

Each violated run is described, with the sentence it contradicts, under
`findings` in `PROJECT.json`. Runs that hold are restricted where a finding
would otherwise hide everything else: `card_emulation_orderly` has no crash and
no overlap, `ReportsTheDocument` asks for the whole picture only while the link
has not failed, and some properties speak only of the time before a crash of
nfcd. After one:

- a write may stay unanswered: `client->tag_path` is NULL when the proxy is
  asked for (`nfcd_client.c` 3378, 3627), and such a proxy never completes. The
  luna message then stays unanswered too, which `EveryMessageAnswered` excuses
  (`Orphaned`), for writes and locks that were running at the crash and no other
  operation;
- a write may reach a tag that was not acquired for it, because the code knows a
  tag by its path and the next nfcd may reuse the path;
- an `Acquire` that is cancelled when nfcd vanishes can be granted by its
  successor on a reused path, so the tag is not handed back;
- removing the last profile releases the mode request id of the old nfcd, which
  the new one may have given to the reader/writer request, or to a card-emulation
  request whose answer, and the end of the old nfcd, are still in the queue: then
  a profile is served without its mode. It takes four overlapping calls and a
  crash, one call more than `card_emulation_overlap` has; it came up when the
  invariant for every number of calls was written down.

The modules' `TypeOK` holds in their runs; only `TagRead`'s is listed as a
property. It is proved for `TagRead`, `NfcdLink`, `TagWrite`, `CardEmulation`,
`NfcService` and `PassportRead`; `Shape` of `DocumentRead_proofs` is the part of
`DocumentRead`'s that its proofs need.

Deadlock is checked in `tag_read`, where nfcd can always signal its tags anew.
In the other runs the environment's events are bounded: once they are used up
and everything is answered, the system rests.

### Bounds

Bounds are constants named in each module and used only in guards of the
environment.

- `TagRead`: two reads (the current one and an abandoned one whose call is
  still out), three sectors of which the last two are large, two default keys;
  five cards: a MIFARE card, the same UID re-keyed, which makes the cache stale,
  a MIFARE card without a UID, a Type 2 tag with two records, and another tag
  with one.
- `NfcdLink`: six events of nfcd, two adapters: enough for crash, restart and
  another adapter while answers of the first nfcd are queued.
- `TagWrite`: two requests, two tags, one crash: a request can meet the other
  request's lock, a swapped tag, and a reused path.
- `CardEmulation`: two AIDs and four calls in order, one AID and three calls
  (add, remove, add again) where calls overlap or nfcd crashes, one crash, a
  response counter that wraps after two exchanges.
- `PassportRead`: two calls, two activations, one crash; files whose header
  announces one byte or three, read two at a time, on a chip that pads them to
  four. With three, a loop makes two rounds and its last chunk is shorter, and the
  padding is what a wrong length would read. With one, the first READ BINARY is
  longer than the file and `remaining` wraps (`Gsize` is 16).
- `NfcService`: one message, one subscriber, three events of the settings
  service (crash, restart and a change while answers are queued), one change of
  the client's other state, or one crash of nfcd; about 1.3 million states. Requests share nothing
  but the bus, so a second message would only lengthen its queue.
- `NdefTag`: for every builder, strings on both sides of each limit: a message
  of 254 and 255 bytes (TLV length), a payload of 255 and 256 (short record), a
  language code of 63 and 64, a device name of 252 and 253; URIs with every
  abbreviation. Messages of other devices have short and long records, ids,
  nested records and UTF-16 text.
- `DocumentRead`: four complete documents (TD3 and TD1 specimens of ICAO 9303
  with the check digits printed there, a TD1 card with a short number and a name
  that fills its line, a TD2 document) and six cards that refuse something:
  without BAC, without PACE (and without EF.CardAccess), without the eMRTD
  application, and cards that refuse a challenge and the nonce, the PACE
  parameters, or the mapping. Each of the six is read with the right password by
  BAC and by PACE, so that only the refusal can be the reason. The counter's bytes have base 4 and
  challenges start it next to a carry and next to its overflow; chunks of 40
  bytes, so files take several; the curve has order 7, small enough that
  a wrong CAN meets every coincidence. `Q` must be a prime.

Symmetry is used over the AIDs in `card_emulation_orderly`, whose only temporal
property is an action property.

### Fairness

The main loop dispatches what is in its queue, and GDBus answers every call:
with a reply, an error of the bus when the service goes, or a time-out. This is
weak fairness of the client's callbacks and of serving calls (in `TagRead`, of
each callback). `NfcService` adds weak fairness of the end of a loop that has
been told to quit, and of the operations behind its requests, except for writes
and locks that an nfcd crash has orphaned (`OperationDone(i) /\ ~Orphaned(i)`):
`CardEmulation` and `PassportRead` are shown to call back in the end, crashes
included, and `TagWrite` until nfcd crashes (`AnsweredUnlessCrashed`), no longer.
An orphaned operation may be called back or not. Nothing is assumed of
callers, tags, subscribers or crashes and restarts. `DocumentRead` states no
fairness: that a read ends is `PassportRead`'s.

### Refinement

`Request` says what `nfc_service.c` relies on: its result callbacks reply to a
message and free the request, so a second call would use freed memory and a
missing one leave the caller waiting. `CardEmulation` and `PassportRead` map
their calls to its `phase` and implement all of it, liveness included, crashes
included. A second answer to a call is a value that is no phase of `Request`, so
none of its steps allows one, even one that repeats the first. `TagWrite` implements `WriteContract`, which adds how much of a
request is on a tag: at most one write, between call and answer, and whole if
the answer is success. `NfcService` uses `Request`'s actions as the operations of
its handlers and is shown to keep the safety of `Request` for luna messages; of
its liveness it keeps what `EveryMessageAnswered` says.

## Proofs

`tlapm X_proofs.tla` checks the theorems of a module; they hold for every value
of the constants that satisfies the module's named `ASSUME`, which asks no more
than that bounds and sizes are natural numbers (some of them positive), that
model values differ, that the cards are cards, that the AIDs are finitely many,
that the response counter has at least two values other than 0, that the
lengths that files announce are positive and fit a `gsize`, that the order of the curve is a prime larger than any CAN, that READ BINARY asks
for at most 255 bytes, and that a document may refuse any command of a handshake
but not the SELECT of a data group. The run of the module
evaluates the same assumption. No theorem restricts crashes, tags, requests or
the order of events beyond what the property itself says. Every invariant named below was checked by TLC before it was proved.

### `TagRead`

- `TypeCorrect`: `Spec => [](TypeOK /\ SweepInRange)`. The types alone are not
  inductive: `mifare_default_keys[key_index]` is a key, and
  `mifare_sector_first_block(sector)` a block, only because a read with a sweep
  call out has its sector and key index in range. `SweepInRange` says so, and
  one lemma per helper shows what it does to both; `NextType` has one case per
  callback.
- `ReadsAreSound`: `Spec => []NoDanglingRead`. The inductive invariant is
  `PointerInv`: besides `NoDanglingRead`, a read is cancelled exactly when it has
  been abandoned (`OrphanedIffCancelled`), and a read that was never started is
  not taken for an abandoned one (`FreshIsOwned`). `CallbackShape` shows that
  every callback either sends the next call of its own read or ends that read;
  the pointers need no more than that.
- `TagInfoIsPushed`: `Spec => []SubscribersUpToDate`, from the same lemma: every
  callback leaves the tag as it is or pushes it.
- `InfoFollowsTag` (`InfoIsCurrent`), `SweepTellsTruth` (`SweepIsSound`),
  `BlocksOfOwnSector` (`ReadsOwnSector`) and `SweepNeverReturns`
  (`SweepAdvances`) rest on `ReportInv`. `Local` is about one read: its entries
  are true of its card and behind the sector at hand, the block it asks for is
  in its sector. `Current` ties `tag_json`, `tag_protocol` and `tag_is_type2` to
  the last read, `Cached` the key cache to the sectors that read has reported;
  only the last read writes them, which `PointerInv` shows. The geometry of the
  card is used through what the constants say of it, so small and large sectors
  may be split anywhere.
- `NothingIsMissed` (`CompleteRead`) adds `CompleteInv`, which follows a read
  along its calls: the sectors behind have been dealt with, and the key that
  opens the sector at hand is still to come (`KeyAhead`). A cached key that no
  longer fits is harmless because the default keys are then tried from the
  first. `CompleteRead` compares the reported sectors with the card's as sets;
  that they are in order is `SweepIsSound`.

### `NfcdLink`

`ViewIsAccurate` (`SettledIsAccurate`), `PushIsComplete` (`StatusIsPushed`),
`PollsWhileConnected` (`ModeIsHeld`) and `TypeCorrect` rest on `LinkInv`, for
any number of events of nfcd and queues of any length. All three properties are
about a moment when nothing is on its way, so the invariant has to say what the
queues still bring. It does so by kinds of messages (`Free`: none of a kind is to
come; `LastIn`: the last of a kind to come is of another), which `Popped` and
`Pushed` of `QueueLemmas` carry through `Tail` and `Append`.

- `DetachInv`: while nfcd is down, and before each "appeared" in the inbox, the
  messages to be handled leave the client detached. So a new instance always
  starts from a detached client, although replies of earlier ones are queued.
- `ModeInv`, `DaemonInv`: once the client has heard of the instance that is up,
  the daemon proxy and the mode request are there or on their way.
- `ProxyInv`: the last adapter proxy on its way is that of `adapter_path`.
- `SyncInv`: when the last `GetAll` of the daemon has been served, the last word
  on the adapter to come is nfcd's adapter; and if no other word is to come, the
  adapter is asked for, or followed: what it said last of its tag and presence
  is what nfcd has, and the version was or will be pushed.
- `AheadInv` is the subtle part. `adapters_changed` may attach to an
  adapter before the daemon's `GetAll` is answered, and the `attach_adapter()`
  of that answer then does nothing. The version it has stored is pushed only
  because the adapter's own `GetAll` is behind the daemon's in the queue.

### `TagWrite`

`WriteInv` says where every chain stands on the bus: what a request holds at
each stage (`RequestOK`), that a call that is out and an answer that is in
belong to the stage of their request, that a request has one of the two and only
one (`ChainInv`), what holds until the first crash (`FirstRunInv`: paths are not
used twice), and how many locks nfcd counts (`LockInv`). The handlers, the
functions that start a chain and nfcd's answers are reduced to three step shapes.
From it: `TypeCorrect`, `SuccessIsWritten` (`SuccessMeansWritten`),
`WritesAreExclusive` (`ExclusiveAccess`), `LocksAreReturned` (`NoLockLeft`) and
`KeepsContract`, which is `Spec => WritesLikeContract`: the initial states map
to initial states of `WriteContract` and every step to a step or a stutter.

### `CardEmulation`

All theorems but the one about response ids rest on `HceInv`, for any finite set
of AIDs, any number of calls and crashes, and queues of any length.

- `LinkInv`: until a crash nothing changes between the client and nfcd.
- `CallInv`: the registration of a luna call, or nfcd's answer to it, is on its
  way at most once, and only while the caller waits. With `OpInv` (the profile of
  an AID is there after an add that has not failed, and gone after a remove or
  clear) it gives `AnsweredOnce`, the safety half of `CallsAnswered`, crashes and
  stores through freed profiles included.
- `ModeInv`: while there is a profile, the last mode call on its way is a
  request, or none is on its way and nfcd holds one besides reader/writer.
  `hce_do_register()` sends its `RequestMode` before the registration, and the
  only release is that of the last profile, so the profiles and the requests
  cannot come apart although ids are overwritten: `ModeIsHeld`
  (`ModeWhileActive`).
- `AddInv`: the last word to nfcd about an AID with a profile is a registration:
  `AddRegisters` (`AddMeansRegistered`), for overlapping calls too. It asks for
  no crash and no rejection, which is what `card_emulation_readd` turns on.
- `WaitInv`: callers that wait have one registration under way, for the profile
  that is in the table; without it the answer of an earlier profile could mark a
  later one as registered. `RouteInv`: each AID is registered under its flag and
  the client knows or is about to be told, or it is on its way out. From both:
  `RemoveUnregisters` (`RemoveMeansUnregistered`) and `FlagFollows`
  (`FlagIsCurrent`), rejected registrations included. They ask for callers that
  wait, because of what `card_emulation_remove` shows, and for no crash.
- `UsableIds` (`ResponseIdsUsable`) follows each profile's counter for a `guint`
  of any width.

`clear` unregisters the profiles in the order of a hash table, which may be any:
the proofs follow a sequence of any order through the queue (`Joined`,
`JoinedKinds` of `QueueLemmas`).

### `NfcService`

Three invariants, one for each concern. `RequestInv`: a message is referenced
while its operation runs and has no reply until then (`RepliesAreHeld`, and
`RepliesOnce` for the safety of `Request` towards luna). `SubscriptionInv`:
every change of what a subscription shows is pushed in the same step
(`SubscribersAreTold`). `SettingInv` for `EnabledIsCurrent` (`SettingIsShown`):
what is on its way to the client, or what the client has, is the setting; its
difficulty is that signals and answers of a settings service that died are still
queued when the next one is up.

### `PassportRead`

`PassportRead_proofs` reduces the eighteen callbacks, the two calls, the tags
signal and nfcd's answers to nine shapes of step (`StepsAreShapes`), then proves
`ReadInv` shape by shape: `ChainInv` relates a read, its call on the bus and its
answer in the inbox (a read has one of each at most, both only once it was
cancelled), `CurrentInv` says that `passport_reading` is the latest read with
anything on the bus. From it: `PassportTypes`, `OneRead` (`OneReadAtATime`),
`NeverWraps` (`FilesInBounds`) for every set of announced lengths, every chunk
size and every number of bytes on the chip, shorter files included in the model
but not in what `FilesInBounds` claims (see Observations), and `AnsweredOnce`, the safety half of `EveryReadAnswered`.

The second half of the module is about two reads that overlap: the caller of the
first is answered before its `Release` is on the bus, and may call again at
once. `OrderInv` says how far a later read can be for each place where an
earlier one may be on its way out; it is what makes `Release` before `Acquire`
and `Deactivate` before the next handshake more than a habit. `SessionInv` then
gives `SessionsAreFresh` (`FreshSession`), for any number of crashes, and
`LockInv` gives `LocksGivenBack` (`TagGivenBack`). `LockInv` needs `PathInv`
(until nfcd crashes a path is used once, so no read of the tag in the field was
aborted): without it an `Acquire` that nobody waits for could be granted, which
is what happens after a crash.

### `DocumentRead`

For counters of any base, a curve of any prime order, any documents, calls and
challenges. Two invariants, the second on top of the first.

`DocumentInv` asks nothing of the document.

- The counter: `Increment` shows that the bytes with carry of `ssc_increment()`
  are the number plus one modulo `Base * Base`, `TwoSteps` that this survives
  being taken apart in between. So `InStep` is inductive once the handshake has
  given both sides the same session.
- BAC (`BacInv`): the chip answers only a cryptogram made with its own keys and
  challenge, so both sides derive the session from the same four numbers.
- PACE (`PaceInv`): the nonces, and hence the generators `s G + H`, differ by the
  difference of the CANs (`CanOf`, `MappedBy`). The tokens fit only if the
  x coordinates of the two shared points are equal, and modulo a prime that means
  equal CANs or a generator that is the negative of the other (`Agreement`); this
  is where `Coincidence` comes from, and the reason why `PasswordProved` has it.

From it `CountersInStep` (`InStep`) and `PasswordIsProved` (`PasswordProved`).

`ReadInv` is about a document whose files are as issuers make them (`Issued`) and
a call that is labelled as it is (`Entered`).

- `MessageInv`: what is protected is the command of the stage, and what comes back
  is the answer to it. `CommandRead` and `ReplyRead` show that each side unwraps
  what the other wrapped: padding (`Padding`), IV, MAC and counter.
- `FileInv`, `AccessInv`: what has been read of a file is a prefix of it, and
  the next READ BINARY asks for the bytes behind it (`OffsetKept`: P1 and P2 give
  the offset back; `SliceJoined`: the pieces fit together; `PieceFacts`: neither
  more bytes than the header announced nor none).
- `HandshakeInv`: a command of a handshake is refused only because the password is
  another one or because the document does not take the command (`refuses`), and
  then the message is the one of the callback that awaited it.
- `ResultInv`: the two properties.

From it `ResultIsTheDocument` and `FailureIsExplained`, which are
`Spec => [](Issued(doc) /\ Entered(doc, ask) => P)` for `ReportsTheDocument` and
`ErrorTellsWhy`. The two conditions are hypotheses and no `ASSUME`, so that what
is proved without them stays free of them. `Issued` says of a file that it is as
long as its header says or longer, and that the parsers find in it what the
issuer wrote; it also bounds EF.DG2 by the reach of READ BINARY (see
Observations). `DocumentsAreIssued` in `MCDocumentRead` states both for the
documents and calls of the run `document`; TLC evaluates it to TRUE (as an ASSUME
of a module that extends `MCDocumentRead`). What is proved is everything
between the file on the chip and the parser: handshakes, messages, chunks, order,
failures of the link.

### Only model-checked

- Liveness (`ReadsEnd`, `EventuallyAccurate`, `AnsweredUnlessCrashed`,
  `EveryReadAnswered`'s and `CallsAnswered`'s liveness half,
  `EveryMessageAnswered`): fairness and ENABLED are beyond the prover.
- `Ndef` and `NdefTag`: what they compute is defined by recursion over bytes,
  with recursive operators, about which this prover cannot reason.
- That the parsers of `Emrtd` find in a file what the layout of MCDocumentRead
  put there (`Issued`), and that a typed number gives the key of its document
  (`Entered`): induction over bytes, as above. TLC evaluates both for the
  documents of the run; the theorems about `DocumentRead` have them as hypotheses.

## Observations

Disagreements between comments and code met while modelling, beside the
findings:

- `bac.h` 112 says that `bac_sm_unprotect()` always advances the counter; it
  returns before that on a response it cannot walk. The read ends there, so
  nothing follows from it.
- The unwrapping walks the trailing status word as if it were a data object,
  which only a second byte of zero lets through (`TrailerParses`): a protected
  6A82 is reported as a failed integrity check, and "The document rejected a
  secure messaging command" (`nfcd_client.c` 1929) is hardly reachable.
- `bac.h` 135 gives "P<" as a document type; the field is trimmed to "P", also in
  what `ReportsTheDocument` expects.
- `pace.h` 96 speaks of parameter ids 8-18; 12, 13 and 14 are accepted.
- `nfcd_client.h` 55-58 says that the fields of a result "are always populated on
  a successful result (parse failure would itself be reported as a failure)". An
  MRZ of another length than 88 or 90 characters (TD2) gives a success with none
  of them (`nfcd_client.c` 1238, 1260). `docs/API.md` 460 says the same as the
  code, "present only when the MRZ parses as a recognized TD1 (ID card) or TD3
  (passport) layout", and that is what `ReportsTheDocument` states; the comment
  in the header is wrong. `nfcd_client.h` 65 does not name the format "bmp".
- A failed nonce is told as "the CAN is probably wrong" (`nfcd_client.c` 1719). A
  wrong CAN never is the reason: decrypting with it gives another number, and no
  error. In `ErrorTellsWhy` this message, too, is given only for a document that
  refuses the command; a wrong CAN is told by the key agreement or the token.
- A data group that announces less than the four bytes of the first READ BINARY,
  on a chip that pads its answers, makes `remaining = total - len` wrap
  (`nfcd_client.c` 2027, 2172; only the maximum length is checked). The read then
  asks for 255 bytes at a time until the chip has no more: EF.DG1 is reported
  as a failure, EF.DG2 as a success with what was read. Only the lengths are in
  `PassportRead`; `DocumentRead` leaves such documents out (`Issued`).
- A write or lock whose nfcd has crashed may never be answered (see Runs).
- `present` is kept when the adapter is gone (`nfcd_client.c` 2447).
- An offset of 32768 and more does not fit P1 P2 of READ BINARY, although
  EF.DG2 may have 65536 bytes. The chip of `DocumentRead` has no such commands,
  and `Issued` leaves such documents out.
- A Bluetooth device name of more than 252 bytes is left out without an error
  (`ndef.c` 666).

## Not modelled

`photo_convert.c` is arithmetic over pixels around OpenJPEG; `DocumentRead` has
its two outcomes. Ciphers, digests and curves are OpenSSL's and symbolic here.
The byte layout of APDUs and of the 7C objects of PACE is left out, JSON texts,
the command line and logging too. `pace_derive_k_mrz()` is not called.
Time is not modelled: a time-out of GDBus is a failed call, but not one that is
granted later. `nfcd_client_free()` cancels everything and no callback runs
after it, because the main loop has ended.

## Plan

1. `TagRead`, `NfcdLink`, `TagWrite`, `CardEmulation`, `PassportRead` and the
   first theorems (done).
2. The settings link and the luna service, the contracts and refinements, NDEF,
   BAC and PACE (done).
3. Theorems about `TagRead`, `NfcdLink`, `TagWrite`, `NfcService` and
   `PassportRead` (done).
4. Theorems about `CardEmulation` (done).
5. Theorems about `DocumentRead` (done).
