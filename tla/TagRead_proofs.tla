--------------------------- MODULE TagRead_proofs ---------------------------
(***************************************************************************)
(* Proofs about TagRead, for any number of paths, cards, reads, sectors    *)
(* and keys: first type correctness and the pointers between the client    *)
(* and its reads, then what a read reports.                                *)
(***************************************************************************)
EXTENDS TagRead, SequenceTheorems, TLAPS

-----------------------------------------------------------------------------
(* Type correctness.                                                       *)

\* Where the fields of a read must be while a MIFARE call is outstanding: the
\* strengthening that makes TypeOK inductive.
InSweep(d) ==
  /\ d.sector \in Sectors
  /\ d.key_index \in Keys
  /\ d.key \in Keys

SweepInRange ==
  \A r \in Reads : call[r] \in {"mifare_auth", "mifare_block"} => InSweep(rd[r])

TypeInv == TypeOK /\ SweepInRange

\* A read can be started for every card, at every path.
LEMMA FreshReadType ==
  ASSUME NEW path \in Paths \union {NoPath}, NEW c \in Cards
  PROVE  FreshRead(path, c) \in ReadFields
BY ConstantsAssumption DEF FreshRead, ReadFields, Keys, NoKey

\* The memory of a read that does not exist yet has the type of one.
LEMMA BlankType == Blank \in ReadFields
<1>1. (CHOOSE c \in Cards : TRUE) \in Cards
  BY ConstantsAssumption
<1> QED
  BY <1>1, FreshReadType DEF Blank

\* Send() keeps every read well typed.
LEMMA SendType ==
  ASSUME ReadTypeOK, SweepInRange, NEW r \in Reads, NEW d \in ReadFields,
         NEW c \in CallNames,
         c \in {"mifare_auth", "mifare_block"} => InSweep(d),
         Send(r, d, c)
  PROVE  ReadTypeOK' /\ SweepInRange'
BY DEF ReadTypeOK, SweepInRange, Send, InSweep

\* tag_read_finish() publishes a well-typed tag.
LEMMA FinishType ==
  ASSUME ClientTypeOK, ReadTypeOK, SweepInRange, NEW r \in Reads,
         NEW d \in ReadFields, tag_read_finish(r, d)
  PROVE  ClientTypeOK' /\ ReadTypeOK' /\ SweepInRange'
<1>1. tag_json' \in TagJson
  BY DEF tag_read_finish, TagJson, ReadFields, Reads
<1>2. ClientTypeOK'
  BY <1>1, ConstantsAssumption
  DEF tag_read_finish, ClientTypeOK, notify_tag, ReadFields, NULL
<1>3. ReadTypeOK' /\ SweepInRange'
  BY DEF tag_read_finish, tag_read_free, ReadTypeOK, SweepInRange, InSweep,
         CallNames
<1> QED
  BY <1>2, <1>3

\* Every sector starts at a block number.
LEMMA FirstBlockType ==
  ASSUME NEW sector \in Sectors
  PROVE  mifare_sector_first_block(sector) \in Nat
BY ConstantsAssumption DEF mifare_sector_first_block, Sectors

\* mifare_send_auth() keeps the reads well typed and the sweep on the card.
LEMMA SendAuthType ==
  ASSUME ReadTypeOK, SweepInRange, NEW r \in Reads, NEW d \in ReadFields,
         d.sector \in Sectors, d.key_index \in Keys, NEW k \in Keys,
         mifare_send_auth(r, d, k)
  PROVE  ReadTypeOK' /\ SweepInRange'
<1> DEFINE e == [d EXCEPT !.key = k,
                          !.block = mifare_sector_first_block(d.sector)]
<1>1. mifare_sector_first_block(d.sector) \in Nat
  BY FirstBlockType
<1>2. e \in ReadFields
  BY <1>1 DEF ReadFields
<1>3. InSweep(e)
  BY DEF InSweep, ReadFields
<1>4. Send(r, e, "mifare_auth")
  BY DEF mifare_send_auth
<1> HIDE DEF e
<1> QED
  BY <1>2, <1>3, <1>4, SendType DEF CallNames

\* What every step of the sweep establishes about the client and its reads.
CoreType == ClientTypeOK /\ ReadTypeOK /\ SweepInRange

\* tag_read_mifare_next_sector() stays on the card or finishes the read.
LEMMA NextSectorType ==
  ASSUME CoreType, NEW cache \in [Uids -> [Sectors -> Keys \union {NoKey}]],
         NEW r \in Reads, NEW d \in ReadFields,
         tag_read_mifare_next_sector(r, d, cache)
  PROVE  CoreType'
<1>1. CASE d.sector >= MIFARE_NUM_SECTORS
  BY <1>1, FinishType DEF tag_read_mifare_next_sector, CoreType
<1>2. CASE ~(d.sector >= MIFARE_NUM_SECTORS)
  <2> DEFINE k == mifare_cache_lookup(cache, d.card.uid, d.sector)
             e == [d EXCEPT !.key_index = 0, !.cached_attempt = k # NoKey]
             k0 == IF k # NoKey THEN k ELSE 0
  <2>1. /\ mifare_publish_progress(r, d)
        /\ mifare_send_auth(r, e, k0)
        /\ UNCHANGED reading
    BY <1>2 DEF tag_read_mifare_next_sector
  <2>2. d.sector \in Sectors
    BY <1>2, ConstantsAssumption DEF ReadFields, Sectors
  <2>3. d.card.uid \in Uids \union {NoUid}
    BY CardsAssumption DEF ReadFields, Card
  <2>4. k \in Keys \union {NoKey}
    BY <2>2, <2>3 DEF mifare_cache_lookup
  <2>5. k0 \in Keys /\ 0 \in Keys
    BY <2>4, ConstantsAssumption DEF Keys, NoKey
  <2>6. e \in ReadFields /\ e.sector \in Sectors /\ e.key_index \in Keys
    <3>1. 0 \in 0..MIFARE_NUM_DEFAULT_KEYS
      BY ConstantsAssumption
    <3> HIDE DEF k
    <3> QED
      BY <2>2, <2>5, <3>1 DEF ReadFields
  <2>7. ReadTypeOK' /\ SweepInRange'
    <3> HIDE DEF e, k0
    <3> QED
      BY <2>1, <2>5, <2>6, SendAuthType DEF CoreType
  <2>8. tag_json' \in TagJson
    BY <2>1 DEF mifare_publish_progress, TagJson, ReadFields, Reads
  <2>9. ClientTypeOK'
    BY <2>1, <2>8 DEF mifare_publish_progress, notify_tag, CoreType, ClientTypeOK
  <2> QED
    BY <2>7, <2>9 DEF CoreType
<1> QED
  BY <1>1, <1>2

\* Neither the fallback from a cached key nor the next default key runs past
\* mifare_default_keys.
LEMMA NextKeyType ==
  ASSUME CoreType, SteadyTypeOK, NEW r \in Reads, NEW d \in ReadFields,
         InSweep(d), mifare_next_key(r, d)
  PROVE  CoreType' /\ SteadyTypeOK'
<1> DEFINE e == IF d.cached_attempt THEN [d EXCEPT !.cached_attempt = FALSE]
                                    ELSE [d EXCEPT !.key_index = @ + 1]
           f == [e EXCEPT !.sector = @ + 1]
<1>1. tag_read_mifare_try_key(r, e) /\ UNCHANGED steadyVars
  BY DEF mifare_next_key
<1>2. e \in ReadFields /\ e.sector \in Sectors
  <2>1. d.key_index + 1 \in 0..MIFARE_NUM_DEFAULT_KEYS
    BY ConstantsAssumption DEF InSweep, Keys
  <2>2. CASE d.cached_attempt
    BY <2>2 DEF InSweep, ReadFields
  <2>3. CASE ~d.cached_attempt
    BY <2>1, <2>3 DEF InSweep, ReadFields
  <2> QED
    BY <2>2, <2>3
<1>3. f \in ReadFields
  <2> HIDE DEF e
  <2>1. e.sector + 1 \in 0..MIFARE_NUM_SECTORS
    BY <1>2, ConstantsAssumption DEF Sectors
  <2> QED
    BY <1>2, <2>1 DEF ReadFields
<1>4. SteadyTypeOK'
  BY <1>1 DEF SteadyTypeOK, steadyVars
<1>5. CASE e.key_index >= MIFARE_NUM_DEFAULT_KEYS
  <2>1. tag_read_mifare_next_sector(r, f, mifare_key_cache)
    BY <1>1, <1>5 DEF tag_read_mifare_try_key
  <2> HIDE DEF e, f
  <2> QED
    BY <2>1, <1>3, <1>4, NextSectorType DEF SteadyTypeOK
<1>6. CASE ~(e.key_index >= MIFARE_NUM_DEFAULT_KEYS)
  <2>1. /\ mifare_send_auth(r, e, e.key_index)
        /\ UNCHANGED <<clientVars, reading>>
    BY <1>1, <1>6 DEF tag_read_mifare_try_key
  <2> HIDE DEF e
  <2>2. e.key_index \in Keys
    BY <1>2, <1>6, ConstantsAssumption, SMTT(20) DEF ReadFields, Keys
  <2>3. ReadTypeOK' /\ SweepInRange'
    BY <1>2, <2>1, <2>2, SendAuthType DEF CoreType
  <2>4. ClientTypeOK'
    BY <2>1 DEF clientVars, ClientTypeOK, CoreType
  <2> QED
    BY <2>3, <2>4, <1>4 DEF CoreType
<1> QED
  BY <1>5, <1>6

\* mifare_sector_done() moves to the next sector, or ends the sweep.
LEMMA SectorDoneType ==
  ASSUME CoreType, SteadyTypeOK, NEW r \in Reads, NEW d \in ReadFields,
         InSweep(d), mifare_sector_done(r, d)
  PROVE  CoreType' /\ SteadyTypeOK'
<1> DEFINE entry == [sector |-> d.sector, key |-> d.key,
                     blocks |-> d.block_offset]
           e == [d EXCEPT !.sectors = Append(@, entry), !.sector = @ + 1]
<1>1. /\ mifare_cache_store(d.card.uid, d.sector, d.key)
      /\ tag_read_mifare_next_sector(r, e, mifare_key_cache)
      /\ UNCHANGED tag_protocol
  BY DEF mifare_sector_done
<1>2. entry \in SectorEntry
  BY DEF InSweep, ReadFields, SectorEntry
<1>3. e \in ReadFields
  <2> HIDE DEF entry
  <2>1. Append(d.sectors, entry) \in Seq(SectorEntry)
    BY <1>2 DEF ReadFields
  <2>2. d.sector + 1 \in 0..MIFARE_NUM_SECTORS
    BY ConstantsAssumption DEF InSweep, Sectors
  <2> QED
    BY <2>1, <2>2 DEF ReadFields
<1>4. SteadyTypeOK'
  <2>1. d.card.uid \in Uids \union {NoUid}
    BY CardsAssumption DEF ReadFields, Card
  <2> QED
    BY <1>1, <2>1 DEF SteadyTypeOK, mifare_cache_store, InSweep
<1> HIDE DEF e
<1> QED
  BY <1>1, <1>3, <1>4, NextSectorType DEF SteadyTypeOK

\* mifare_read_block() reads a block of the sector at hand.
LEMMA ReadBlockType ==
  ASSUME CoreType, SteadyTypeOK, NEW r \in Reads, NEW d \in ReadFields,
         InSweep(d), mifare_read_block(r, d)
  PROVE  CoreType' /\ SteadyTypeOK'
<1> DEFINE b == mifare_sector_first_block(d.sector) + d.block_offset
           e == [d EXCEPT !.block = b]
<1>1. b \in Nat
  <2>1. mifare_sector_first_block(d.sector) \in Nat
    BY FirstBlockType DEF InSweep
  <2>2. d.block_offset \in Nat
    BY DEF ReadFields
  <2> QED
    BY <2>1, <2>2
<1>2. e \in ReadFields /\ InSweep(e)
  <2> HIDE DEF b
  <2>1. e \in ReadFields
    BY <1>1 DEF ReadFields
  <2>2. e.sector = d.sector /\ e.key_index = d.key_index /\ e.key = d.key
    BY DEF ReadFields
  <2> QED
    BY <2>1, <2>2 DEF InSweep
<1>3. Send(r, e, "mifare_block") /\ UNCHANGED <<clientVars, steadyVars, reading>>
  BY DEF mifare_read_block
<1> HIDE DEF e
<1>4. ReadTypeOK' /\ SweepInRange'
  BY <1>2, <1>3, SendType DEF CoreType, CallNames
<1> QED
  BY <1>3, <1>4 DEF CoreType, ClientTypeOK, SteadyTypeOK, clientVars, steadyVars

\* The callback of an abandoned read.
LEMMA OrphanType ==
  ASSUME TypeInv, NEW r \in Reads, Orphan(r)
  PROVE  TypeInv'
<1>1. ReadTypeOK' /\ SweepInRange'
  BY BlankType DEF Orphan, tag_read_free, TypeInv, TypeOK, ReadTypeOK,
     SweepInRange, InSweep, CallNames
<1> QED
  BY <1>1 DEF Orphan, TypeInv, TypeOK, ClientTypeOK, SteadyTypeOK, clientVars,
     steadyVars

\* Dropping a read whose tag could not be identified.
LEMMA GiveUpType ==
  ASSUME TypeInv, NEW r \in Reads, GiveUp(r)
  PROVE  TypeInv'
<1>1. ReadTypeOK' /\ SweepInRange'
  BY BlankType DEF GiveUp, tag_read_free, TypeInv, TypeOK, ReadTypeOK,
     SweepInRange, InSweep, CallNames
<1>2. reading' \in 0..MaxReads
  BY ConstantsAssumption DEF GiveUp, TypeInv, TypeOK, ClientTypeOK, NULL
<1> QED
  BY <1>1, <1>2 DEF GiveUp, TypeInv, TypeOK, ClientTypeOK, SteadyTypeOK,
     clientVars, steadyVars

\* Noting a failure changes no field but the ghost.
LEMMA NotingType ==
  ASSUME NEW d \in ReadFields, NEW res
  PROVE  Noting(d, res) \in ReadFields /\ (InSweep(d) => InSweep(Noting(d, res)))
<1>1. Noting(d, res) \in ReadFields
  BY DEF Noting, ReadFields
<1>2. /\ Noting(d, res).sector = d.sector
      /\ Noting(d, res).key_index = d.key_index
      /\ Noting(d, res).key = d.key
  BY DEF Noting, ReadFields
<1> QED
  BY <1>1, <1>2 DEF InSweep

\* The answer to an authentication, mifare_auth_ready().
LEMMA AuthReadyType ==
  ASSUME TypeInv, NEW r \in Reads, mifare_auth_ready(r)
  PROVE  TypeInv'
<1> DEFINE D(res) == IF KeyFits(rd[r]) THEN Noting(rd[r], res) ELSE rd[r]
<1>1. rd[r] \in ReadFields /\ InSweep(rd[r])
  BY DEF mifare_auth_ready, TypeInv, TypeOK, ReadTypeOK, SweepInRange
<1>2. PICK res \in Results(r) :
        IF ~owned[r] \/ res = "cancelled" THEN Orphan(r)
        ELSE IF res = "error" THEN mifare_next_key(r, D(res))
        ELSE mifare_read_block(r, [D(res) EXCEPT !.block_offset = 0])
  BY DEF mifare_auth_ready
<1> DEFINE d == D(res)
           e == [d EXCEPT !.block_offset = 0]
<1>3. d \in ReadFields /\ InSweep(d)
  BY <1>1, NotingType
<1> HIDE DEF D, d
<1>4. e \in ReadFields /\ InSweep(e)
  <2>1. e \in ReadFields
    BY <1>3 DEF ReadFields
  <2>2. e.sector = d.sector /\ e.key_index = d.key_index /\ e.key = d.key
    BY <1>3 DEF ReadFields
  <2> QED
    BY <1>3, <2>1, <2>2 DEF InSweep
<1>5. CASE Orphan(r)
  BY <1>5, OrphanType
<1>6. CASE mifare_next_key(r, d)
  BY <1>3, <1>6, NextKeyType DEF TypeInv, TypeOK, CoreType
<1>7. CASE mifare_read_block(r, e)
  <2> HIDE DEF e
  <2> QED
    BY <1>4, <1>7, ReadBlockType DEF TypeInv, TypeOK, CoreType
<1> QED
  BY <1>2, <1>5, <1>6, <1>7 DEF d

\* The answer to a block read, mifare_block_read_ready().
LEMMA BlockReadyType ==
  ASSUME TypeInv, NEW r \in Reads, mifare_block_read_ready(r)
  PROVE  TypeInv'
<1> DEFINE D(res) == IF KeyFits(rd[r]) THEN Noting(rd[r], res) ELSE rd[r]
           E(res) == [D(res) EXCEPT !.block_offset = @ + 1]
<1>1. rd[r] \in ReadFields /\ InSweep(rd[r])
  BY DEF mifare_block_read_ready, TypeInv, TypeOK, ReadTypeOK, SweepInRange
<1>2. PICK res \in BlockResults(r) :
        IF ~owned[r] THEN Orphan(r)
        ELSE IF res = "ok"
          THEN IF E(res).block_offset >= mifare_sector_block_count(E(res).sector)
                 THEN mifare_sector_done(r, E(res))
                 ELSE mifare_read_block(r, E(res))
          ELSE IF D(res).block_offset = 0
                 THEN mifare_next_key(r, D(res))
                 ELSE mifare_sector_done(r, D(res))
  BY DEF mifare_block_read_ready
<1> DEFINE d == D(res)
           e == [d EXCEPT !.block_offset = @ + 1]
<1>3. d \in ReadFields /\ InSweep(d)
  BY <1>1, NotingType
<1>4. e = E(res)
  OBVIOUS
<1> HIDE DEF D, E, d
<1>5. e \in ReadFields /\ InSweep(e)
  <2>0. d.block_offset + 1 \in Nat
    BY <1>3 DEF ReadFields
  <2>1. e \in ReadFields
    BY <1>3, <2>0 DEF ReadFields
  <2>2. e.sector = d.sector /\ e.key_index = d.key_index /\ e.key = d.key
    BY <1>3 DEF ReadFields
  <2> QED
    BY <1>3, <2>1, <2>2 DEF InSweep
<1> HIDE DEF e
<1>6. CASE Orphan(r)
  BY <1>6, OrphanType
<1>7. CASE mifare_next_key(r, d)
  BY <1>3, <1>7, NextKeyType DEF TypeInv, TypeOK, CoreType
<1>8. CASE mifare_sector_done(r, d)
  BY <1>3, <1>8, SectorDoneType DEF TypeInv, TypeOK, CoreType
<1>9. CASE mifare_sector_done(r, e)
  BY <1>5, <1>9, SectorDoneType DEF TypeInv, TypeOK, CoreType
<1>10. CASE mifare_read_block(r, e)
  BY <1>5, <1>10, ReadBlockType DEF TypeInv, TypeOK, CoreType
<1> QED
  BY <1>2, <1>4, <1>6, <1>7, <1>8, <1>9, <1>10 DEF d

\* The steps of a read outside the sweep.
LEMMA PlainSendType ==
  ASSUME CoreType, NEW r \in Reads, NEW d \in ReadFields,
         NEW c \in CallNames \ {"mifare_auth", "mifare_block"},
         Send(r, d, c), UNCHANGED <<clientVars, reading>>
  PROVE  CoreType'
<1>1. ReadTypeOK' /\ SweepInRange'
  BY SendType DEF CoreType
<1> QED
  BY <1>1 DEF CoreType, ClientTypeOK, clientVars

\* tag_read_next_record() asks for a record, for the raw data, or finishes.
LEMMA NextRecordType ==
  ASSUME CoreType, NEW r \in Reads, NEW d \in ReadFields,
         tag_read_next_record(r, d)
  PROVE  CoreType'
<1>1. CASE Send(r, d, "ndef_proxy") /\ UNCHANGED <<clientVars, reading>>
  BY <1>1, PlainSendType DEF CallNames
<1>2. CASE Send(r, d, "raw_data_proxy") /\ UNCHANGED <<clientVars, reading>>
  BY <1>2, PlainSendType DEF CallNames
<1>3. CASE tag_read_finish(r, d)
  BY <1>3, FinishType DEF CoreType
<1> QED
  BY <1>1, <1>2, <1>3 DEF tag_read_next_record, tag_read_raw_data

\* ndef_get_all_ready() keeps the record and goes on.
LEMMA NdefGetAllReadyType ==
  ASSUME TypeInv, NEW r \in Reads, ndef_get_all_ready(r)
  PROVE  TypeInv'
<1> DEFINE D(res) == Noting(rd[r], res)
           E(res) == IF res = "ok"
                       THEN [D(res) EXCEPT
                               !.records = Append(@, D(res).record_index)]
                       ELSE D(res)
           F(res) == [E(res) EXCEPT !.record_index = @ + 1]
<1>1. PICK res \in Results(r) :
        IF ~owned[r] THEN Orphan(r)
        ELSE tag_read_next_record(r, F(res)) /\ UNCHANGED steadyVars
  BY DEF ndef_get_all_ready
<1>2. D(res) \in ReadFields
  BY NotingType DEF TypeInv, TypeOK, ReadTypeOK
<1>3. E(res) \in ReadFields
  <2> HIDE DEF D
  <2>1. Append(D(res).records, D(res).record_index) \in Seq(Nat)
    BY <1>2 DEF ReadFields
  <2> QED
    BY <1>2, <2>1 DEF ReadFields
<1>4. F(res) \in ReadFields
  <2> HIDE DEF E
  <2>1. E(res).record_index + 1 \in Nat
    BY <1>3 DEF ReadFields
  <2> QED
    BY <1>3, <2>1 DEF ReadFields
<1> HIDE DEF F
<1>5. CASE Orphan(r)
  BY <1>5, OrphanType
<1>6. CASE tag_read_next_record(r, F(res)) /\ UNCHANGED steadyVars
  <2>1. CoreType'
    BY <1>4, <1>6, NextRecordType DEF CoreType, TypeInv, TypeOK
  <2> QED
    BY <1>6, <2>1 DEF CoreType, TypeInv, TypeOK, SteadyTypeOK, steadyVars
<1> QED
  BY <1>1, <1>5, <1>6

\* ndef_proxy_ready() asks for the record or skips it.
LEMMA NdefProxyReadyType ==
  ASSUME TypeInv, NEW r \in Reads, ndef_proxy_ready(r)
  PROVE  TypeInv'
<1> DEFINE D(res) == Noting(rd[r], res)
           F(res) == [D(res) EXCEPT !.record_index = @ + 1]
<1>1. PICK res \in Results(r) :
        IF ~owned[r] THEN Orphan(r)
        ELSE /\ IF res = "ok"
                  THEN /\ Send(r, D(res), "ndef_get_all")
                       /\ UNCHANGED <<clientVars, reading>>
                  ELSE tag_read_next_record(r, F(res))
             /\ UNCHANGED steadyVars
  BY DEF ndef_proxy_ready
<1>2. D(res) \in ReadFields
  BY NotingType DEF TypeInv, TypeOK, ReadTypeOK
<1>3. F(res) \in ReadFields
  <2> HIDE DEF D
  <2>1. D(res).record_index + 1 \in Nat
    BY <1>2 DEF ReadFields
  <2> QED
    BY <1>2, <2>1 DEF ReadFields
<1> HIDE DEF D, F
<1>4. CASE Orphan(r)
  BY <1>4, OrphanType
<1>5. CASE /\ Send(r, D(res), "ndef_get_all")
           /\ UNCHANGED <<clientVars, reading>>
           /\ UNCHANGED steadyVars
  <2>1. CoreType'
    BY <1>2, <1>5, PlainSendType DEF CoreType, TypeInv, TypeOK, CallNames
  <2> QED
    BY <1>5, <2>1 DEF CoreType, TypeInv, TypeOK, SteadyTypeOK, steadyVars
<1>6. CASE tag_read_next_record(r, F(res)) /\ UNCHANGED steadyVars
  <2>1. CoreType'
    BY <1>3, <1>6, NextRecordType DEF CoreType, TypeInv, TypeOK
  <2> QED
    BY <1>6, <2>1 DEF CoreType, TypeInv, TypeOK, SteadyTypeOK, steadyVars
<1> QED
  BY <1>1, <1>4, <1>5, <1>6

\* The two callbacks of the raw data.
LEMMA RawDataReadyType ==
  ASSUME TypeInv, NEW r \in Reads,
         raw_data_proxy_ready(r) \/ raw_data_ready(r)
  PROVE  TypeInv'
<1>1. \A res : Noting(rd[r], res) \in ReadFields
  BY NotingType DEF TypeInv, TypeOK, ReadTypeOK
<1>2. \A res : [Noting(rd[r], res) EXCEPT !.raw = res = "ok"] \in ReadFields
  BY <1>1 DEF ReadFields
<1>3. CASE Orphan(r)
  BY <1>3, OrphanType
<1>4. ASSUME NEW d \in ReadFields, tag_read_finish(r, d), UNCHANGED steadyVars
      PROVE  TypeInv'
  <2>1. CoreType'
    BY <1>4, FinishType DEF CoreType, TypeInv, TypeOK
  <2> QED
    BY <1>4, <2>1 DEF CoreType, TypeInv, TypeOK, SteadyTypeOK, steadyVars
<1>5. ASSUME NEW d \in ReadFields, Send(r, d, "raw_data"),
             UNCHANGED <<clientVars, reading>>, UNCHANGED steadyVars
      PROVE  TypeInv'
  <2>1. CoreType'
    BY <1>5, PlainSendType DEF CoreType, TypeInv, TypeOK, CallNames
  <2> QED
    BY <1>5, <2>1 DEF CoreType, TypeInv, TypeOK, SteadyTypeOK, steadyVars
<1> QED
  BY <1>1, <1>2, <1>3, <1>4, <1>5 DEF raw_data_proxy_ready, raw_data_ready

\* The two callbacks that identify the tag.
LEMMA TagReadyType ==
  ASSUME TypeInv, NEW r \in Reads,
         tag_proxy_ready(r) \/ tag_get_all_ready(r)
  PROVE  TypeInv'
<1> DEFINE c == rd[r].card
           d == [rd[r] EXCEPT !.is_type2 = c.kind = "type2"]
<1>1. rd[r] \in ReadFields
  BY DEF TypeInv, TypeOK, ReadTypeOK
<1>2. d \in ReadFields /\ c.kind \in {"mifare", "type2", "other"}
  BY <1>1, CardsAssumption DEF ReadFields, Card
<1>3. CASE GiveUp(r)
  BY <1>3, GiveUpType
<1>4. CASE Orphan(r)
  BY <1>4, OrphanType
<1>5. CASE /\ Send(r, rd[r], "get_all")
           /\ UNCHANGED <<clientVars, steadyVars, reading>>
  <2>1. CoreType'
    BY <1>1, <1>5, PlainSendType DEF CoreType, TypeInv, TypeOK, CallNames
  <2> QED
    BY <1>5, <2>1 DEF CoreType, TypeInv, TypeOK, SteadyTypeOK, steadyVars
<1>6. CASE /\ tag_protocol' = c.kind
           /\ \/ tag_read_mifare_next_sector(r, d, mifare_key_cache)
              \/ tag_read_next_record(r, d)
           /\ UNCHANGED mifare_key_cache
  <2>1. SteadyTypeOK'
    BY <1>2, <1>6 DEF TypeInv, TypeOK, SteadyTypeOK
  <2> HIDE DEF d
  <2>2. CoreType'
    BY <1>2, <1>6, NextSectorType, NextRecordType
    DEF CoreType, TypeInv, TypeOK, SteadyTypeOK
  <2> QED
    BY <2>1, <2>2 DEF CoreType, TypeInv, TypeOK
<1> QED
  BY <1>3, <1>4, <1>5, <1>6 DEF tag_proxy_ready, tag_get_all_ready

\* update_tags(): the old read is abandoned and a new one may start.
LEMMA UpdateTagsType ==
  ASSUME TypeInv, update_tags
  PROVE  TypeInv'
<1>1. PICK path \in Paths \union {NoPath}, c \in Cards :
        /\ set_current_tag(path, c)
        /\ path # NoPath => nreads < MaxReads
  BY ConstantsAssumption DEF update_tags
<1>2. CASE tag_path = path
  BY <1>1, <1>2
  DEF set_current_tag, vars, clientVars, steadyVars, readVars, TypeInv, TypeOK,
      ClientTypeOK, SteadyTypeOK, ReadTypeOK, SweepInRange
<1>3. CASE tag_path # path
  <2>1. SteadyTypeOK'
    BY <1>1, <1>3 DEF set_current_tag, TypeInv, TypeOK, SteadyTypeOK
  <2>2. NoJson \in TagJson
    BY ConstantsAssumption DEF NoJson, TagJson, NULL
  <2>3. reading' \in 0..MaxReads
    BY <1>1, <1>3, ConstantsAssumption
    DEF set_current_tag, tag_read_start, TypeInv, TypeOK, ReadTypeOK, NULL
  <2>4. ClientTypeOK'
    BY <1>1, <1>3, <2>2, <2>3 DEF set_current_tag, notify_tag, ClientTypeOK
  <2>5. owned' \in [Reads -> BOOLEAN] /\ cancelled' \in [Reads -> BOOLEAN]
    BY <1>1, <1>3 DEF set_current_tag, tag_read_abort, TypeInv, TypeOK,
       ReadTypeOK
  <2>6. CASE path = NoPath
    BY <1>1, <1>3, <2>1, <2>4, <2>5, <2>6
    DEF set_current_tag, TypeInv, TypeOK, ReadTypeOK, SweepInRange
  <2>7. CASE path # NoPath
    <3>1. nreads + 1 \in Reads
      BY <1>1, <2>7, ConstantsAssumption DEF TypeInv, TypeOK, ReadTypeOK, Reads
    <3>2. tag_read_start(path, c)
      BY <1>1, <1>3, <2>7 DEF set_current_tag
    <3>3. ReadTypeOK'
      BY <2>5, <3>1, <3>2, FreshReadType
      DEF tag_read_start, TypeInv, TypeOK, ReadTypeOK, CallNames, Reads
    <3>4. SweepInRange'
      BY <3>1, <3>2 DEF tag_read_start, TypeInv, TypeOK, ReadTypeOK, SweepInRange
    <3> QED
      BY <2>1, <2>4, <3>3, <3>4 DEF TypeInv, TypeOK
  <2> QED
    BY <2>6, <2>7
<1> QED
  BY <1>2, <1>3

\* nfcd_client_create() starts well typed.
LEMMA InitType ==
  ASSUME Init PROVE TypeInv
<1>1. NoJson \in TagJson
  BY ConstantsAssumption DEF NoJson, TagJson, NULL
<1>2. ClientTypeOK /\ SteadyTypeOK
  <2>1. ClientTypeOK
    <3>1. reading \in 0..MaxReads
      BY ConstantsAssumption DEF Init, NULL
    <3>2. tag_path \in Paths \union {NoPath} /\ tag_is_type2 \in BOOLEAN
      BY DEF Init
    <3>3. tag_json \in TagJson /\ pushed \in TagJson
      BY <1>1 DEF Init
    <3> QED
      BY <3>1, <3>2, <3>3 DEF ClientTypeOK
  <2>2. mifare_key_cache \in [Uids -> [Sectors -> Keys \union {NoKey}]]
    BY DEF Init
  <2> QED
    BY <2>1, <2>2 DEF Init, SteadyTypeOK
<1>3. ReadTypeOK /\ SweepInRange
  BY BlankType, ConstantsAssumption DEF Init, ReadTypeOK, SweepInRange
<1> QED
  BY <1>2, <1>3 DEF TypeInv, TypeOK

\* Every step keeps TypeInv, one case per callback.
LEMMA NextType ==
  ASSUME TypeInv, [Next]_vars PROVE TypeInv'
<1>1. CASE update_tags
  BY <1>1, UpdateTagsType
<1>2. ASSUME NEW r \in Reads, Callback(r) PROVE TypeInv'
  BY <1>2, TagReadyType, RawDataReadyType, NdefProxyReadyType,
     NdefGetAllReadyType, AuthReadyType, BlockReadyType DEF Callback
<1>3. CASE UNCHANGED vars
  BY <1>3
  DEF vars, clientVars, steadyVars, readVars, TypeInv, TypeOK, ClientTypeOK,
      SteadyTypeOK, ReadTypeOK, SweepInRange
<1> QED
  BY <1>1, <1>2, <1>3 DEF Next

(***************************************************************************)
(* Every field of the client and of every read keeps its type, for all     *)
(* values of the constants: in particular no sweep indexes the key table   *)
(* or the sectors out of range (mifare_default_keys[read->mifare_key_index]*)
(* in tag_read_mifare_try_key()).                                          *)
(***************************************************************************)
THEOREM TypeCorrect == Spec => [](TypeOK /\ SweepInRange)
<1>1. Init => TypeInv
  BY InitType
<1>2. TypeInv /\ [Next]_vars => TypeInv'
  BY NextType
<1>3. TypeInv => TypeOK /\ SweepInRange
  BY DEF TypeInv
<1> QED
  BY <1>1, <1>2, <1>3, PTL DEF Spec

-----------------------------------------------------------------------------
(* Pointers.  Every callback of a read does one of two things to the memory *)
(* of the reads, whatever it does to the data: it sends the next call, or   *)
(* it frees its read, and then client->reading is cleared exactly when the  *)
(* read still belongs to the client.                                        *)

Continues(r) ==
  /\ \E c \in CallNames : call' = [call EXCEPT ![r] = c]
  /\ UNCHANGED <<nreads, mem, owned, cancelled, reading>>

Ends(r) ==
  /\ mem' = [mem EXCEPT ![r] = "freed"]
  /\ call' = [call EXCEPT ![r] = "none"]
  /\ UNCHANGED <<nreads, owned, cancelled>>
  /\ reading' = IF owned[r] THEN NULL ELSE reading

\* No step changes what getTagInfo shows without pushing it.
Publishes == pushed' = tag_json' \/ UNCHANGED <<pushed, tag_json>>

Shape(r) == (Continues(r) \/ Ends(r)) /\ Publishes

\* A read that sends a call goes on.
LEMMA SendShape ==
  ASSUME NEW r, NEW d, NEW c \in CallNames, Send(r, d, c), UNCHANGED reading
  PROVE  Continues(r)
BY DEF Send, Continues

\* tag_read_finish() ends the read and tells the subscribers.
LEMMA FinishShape ==
  ASSUME NEW r, NEW d, owned[r], tag_read_finish(r, d)
  PROVE  Shape(r)
BY DEF Shape, tag_read_finish, tag_read_free, notify_tag, Ends, Publishes

\* An abandoned read ends without a word to the client.
LEMMA OrphanShape ==
  ASSUME NEW r, ~owned[r], Orphan(r)
  PROVE  Shape(r)
BY DEF Shape, Orphan, tag_read_free, Ends, Publishes, clientVars

\* A read that failed early ends and gives up client->reading.
LEMMA GiveUpShape ==
  ASSUME NEW r, GiveUp(r)
  PROVE  Shape(r)
BY DEF Shape, GiveUp, tag_read_free, Ends, Publishes, clientVars

\* The next sector is asked for, or the read ends.
LEMMA NextSectorShape ==
  ASSUME NEW r, NEW d, NEW cache, owned[r],
         tag_read_mifare_next_sector(r, d, cache)
  PROVE  Shape(r)
<1>1. CASE tag_read_finish(r, d)
  BY <1>1, FinishShape
<1>2. ASSUME NEW e, NEW k, mifare_publish_progress(r, d),
             mifare_send_auth(r, e, k), UNCHANGED reading
      PROVE  Shape(r)
  BY <1>2, SendShape
  DEF mifare_publish_progress, mifare_send_auth, notify_tag, Shape, Publishes,
      CallNames
<1> QED
  BY <1>1, <1>2 DEF tag_read_mifare_next_sector

\* The next key is tried, or the next sector is.
LEMMA NextKeyShape ==
  ASSUME NEW r, NEW d, owned[r], mifare_next_key(r, d)
  PROVE  Shape(r)
<1>1. ASSUME NEW e, mifare_send_auth(r, e, e.key_index),
             UNCHANGED <<clientVars, reading>>
      PROVE  Shape(r)
  BY <1>1, SendShape DEF mifare_send_auth, CallNames, Shape, Publishes, clientVars
<1>2. ASSUME NEW e, tag_read_mifare_try_key(r, e)
      PROVE  Shape(r)
  BY <1>1, <1>2, NextSectorShape DEF tag_read_mifare_try_key
<1> QED
  BY <1>2 DEF mifare_next_key

\* The next record is asked for, or the read ends.
LEMMA NextRecordShape ==
  ASSUME NEW r, NEW d, owned[r], tag_read_next_record(r, d)
  PROVE  Shape(r)
<1>1. CASE tag_read_finish(r, d)
  BY <1>1, FinishShape
<1>2. ASSUME NEW c \in CallNames, Send(r, d, c), UNCHANGED <<clientVars, reading>>
      PROVE  Shape(r)
  BY <1>2, SendShape DEF Shape, Publishes, clientVars
<1> QED
  BY <1>1, <1>2 DEF tag_read_next_record, tag_read_raw_data, CallNames

\* tag_read_abort() is the only writer of read->client and of the
\* cancellable, and sets both.
OrphanedIffCancelled == \A r \in Reads : cancelled[r] <=> ~owned[r]

\* Every callback either sends the one next call of its read or ends it, and
\* publishes whatever it changed.
LEMMA CallbackShape ==
  ASSUME NEW r \in Reads, OrphanedIffCancelled, Callback(r)
  PROVE  Shape(r)
<1>1. CASE ~owned[r] /\ Orphan(r)
  BY <1>1, OrphanShape
<1>2. CASE GiveUp(r)
  BY <1>2, GiveUpShape
<1>3. ASSUME NEW d, NEW c \in CallNames, Send(r, d, c),
             UNCHANGED <<clientVars, reading>>
      PROVE  Shape(r)
  BY <1>3, SendShape DEF Shape, Publishes, clientVars
<1>4. ASSUME NEW d, owned[r], \/ tag_read_finish(r, d)
                              \/ tag_read_next_record(r, d)
                              \/ mifare_next_key(r, d)
                              \/ mifare_sector_done(r, d)
                              \/ mifare_read_block(r, d)
                              \/ tag_read_mifare_next_sector(r, d, mifare_key_cache)
      PROVE  Shape(r)
  <2>1. CASE mifare_read_block(r, d)
    BY <1>3, <2>1 DEF mifare_read_block, CallNames, clientVars
  <2>2. CASE mifare_sector_done(r, d)
    BY <1>4, <2>2, NextSectorShape DEF mifare_sector_done
  <2> QED
    BY <1>4, <2>1, <2>2, FinishShape, NextRecordShape, NextKeyShape,
       NextSectorShape
<1>5. CASE tag_proxy_ready(r)
  BY <1>1, <1>2, <1>3, <1>5
  DEF tag_proxy_ready, CallNames, clientVars, steadyVars
<1>6. CASE tag_get_all_ready(r)
  BY <1>1, <1>2, <1>4, <1>6 DEF tag_get_all_ready
<1>7. CASE ndef_proxy_ready(r)
  BY <1>1, <1>3, <1>4, <1>7 DEF ndef_proxy_ready, CallNames
<1>8. CASE ndef_get_all_ready(r)
  BY <1>1, <1>4, <1>8 DEF ndef_get_all_ready
<1>9. CASE raw_data_proxy_ready(r)
  BY <1>1, <1>3, <1>4, <1>9 DEF raw_data_proxy_ready, CallNames
<1>10. CASE raw_data_ready(r)
  BY <1>1, <1>4, <1>10 DEF raw_data_ready
<1>11. CASE mifare_auth_ready(r)
  <2>1. \A res \in Results(r) : res = "cancelled" => ~owned[r]
    BY DEF Results, OrphanedIffCancelled
  <2> QED
    BY <1>1, <1>4, <1>11, <2>1 DEF mifare_auth_ready
<1>12. CASE mifare_block_read_ready(r)
  BY <1>1, <1>4, <1>12 DEF mifare_block_read_ready
<1> QED
  BY <1>5, <1>6, <1>7, <1>8, <1>9, <1>10, <1>11, <1>12 DEF Callback

\* Memory that no read has used yet is as g_new0() will leave it.
FreshIsOwned ==
  \A r \in Reads : r > nreads => owned[r] /\ mem[r] = "unallocated"

\* NoDanglingRead, strengthened so that it is inductive.
PointerInv == NoDanglingRead /\ OrphanedIffCancelled /\ FreshIsOwned

\* No callback breaks the pointers between the client and its reads.
LEMMA CallbackPointers ==
  ASSUME TypeOK, PointerInv, NEW r \in Reads, Callback(r)
  PROVE  PointerInv'
<1> USE DEF TypeOK, ClientTypeOK, ReadTypeOK
<1>1. Shape(r)
  BY CallbackShape DEF PointerInv
<1>2. call[r] # "none" /\ mem[r] = "live"
  BY DEF Callback, tag_proxy_ready, tag_get_all_ready, ndef_proxy_ready,
     ndef_get_all_ready, raw_data_proxy_ready, raw_data_ready,
     mifare_auth_ready, mifare_block_read_ready, PointerInv, NoDanglingRead,
     CallIffLive
<1>3. CASE Continues(r)
  <2>1. CallIffLive'
    BY <1>2, <1>3 DEF Continues, PointerInv, NoDanglingRead, CallIffLive, CallNames
  <2>2. ReadingIsLive' /\ OwnedIsReading'
    BY <1>3 DEF Continues, PointerInv, NoDanglingRead, ReadingIsLive,
       OwnedIsReading
  <2>3. OrphanedIffCancelled' /\ FreshIsOwned'
    BY <1>3 DEF Continues, PointerInv, OrphanedIffCancelled, FreshIsOwned
  <2> QED
    BY <2>1, <2>2, <2>3 DEF PointerInv, NoDanglingRead
<1>4. CASE Ends(r)
  <2>1. CallIffLive'
    BY <1>4 DEF Ends, PointerInv, NoDanglingRead, CallIffLive
  <2>2. ReadingIsLive'
    <3>1. CASE owned[r]
      BY <1>4, <3>1 DEF Ends, ReadingIsLive
    <3>2. CASE ~owned[r]
      <4>1. reading # NULL => reading # r /\ reading \in Reads
        BY <3>2 DEF PointerInv, NoDanglingRead, ReadingIsLive, NULL, Reads
      <4> QED
        BY <1>4, <3>2, <4>1 DEF Ends, PointerInv, NoDanglingRead, ReadingIsLive
    <3> QED
      BY <3>1, <3>2
  <2>3. OwnedIsReading'
    BY <1>2, <1>4 DEF Ends, PointerInv, NoDanglingRead, OwnedIsReading
  <2>4. OrphanedIffCancelled' /\ FreshIsOwned'
    BY <1>2, <1>4 DEF Ends, PointerInv, OrphanedIffCancelled, FreshIsOwned
  <2> QED
    BY <2>1, <2>2, <2>3, <2>4 DEF PointerInv, NoDanglingRead
<1> QED
  BY <1>1, <1>3, <1>4 DEF Shape

\* update_tags() abandons the read it replaces and owns the new one.
LEMMA UpdateTagsPointers ==
  ASSUME TypeOK, PointerInv, update_tags
  PROVE  PointerInv'
<1> USE DEF TypeOK, ClientTypeOK, ReadTypeOK
<1>1. PICK path \in Paths \union {NoPath}, c \in Cards :
        /\ set_current_tag(path, c)
        /\ path # NoPath => nreads < MaxReads
  BY ConstantsAssumption DEF update_tags
<1>2. CASE tag_path = path
  BY <1>1, <1>2
  DEF set_current_tag, vars, clientVars, steadyVars, readVars, PointerInv,
      NoDanglingRead, ReadingIsLive, OwnedIsReading, CallIffLive,
      OrphanedIffCancelled, FreshIsOwned
<1>3. CASE tag_path # path
  \* After the abort no live read is owned.
  <2>1. \A r \in Reads : mem[r] = "live" => ~owned'[r]
    <3>1. CASE reading = NULL
      <4>1. UNCHANGED owned
        BY <1>1, <1>3, <3>1 DEF set_current_tag
      <4> QED
        BY <3>1, <4>1 DEF PointerInv, NoDanglingRead, OwnedIsReading, NULL, Reads
    <3>2. CASE reading # NULL
      <4>1. owned' = [owned EXCEPT ![reading] = FALSE]
        BY <1>1, <1>3, <3>2 DEF set_current_tag, tag_read_abort
      <4> QED
        BY <4>1 DEF PointerInv, NoDanglingRead, OwnedIsReading
    <3> QED
      BY <3>1, <3>2
  <2>2. OrphanedIffCancelled'
    BY <1>1, <1>3 DEF set_current_tag, tag_read_abort, PointerInv,
       OrphanedIffCancelled
  <2>3. \A r \in Reads : r > nreads => owned'[r] /\ mem[r] = "unallocated"
    BY <1>1, <1>3 DEF set_current_tag, tag_read_abort, PointerInv,
       NoDanglingRead, ReadingIsLive, FreshIsOwned, NULL, Reads
  <2>4. CASE path = NoPath
    <3>1. reading' = NULL /\ UNCHANGED <<nreads, mem, call>>
      BY <1>1, <1>3, <2>4 DEF set_current_tag
    <3> QED
      BY <2>1, <2>2, <2>3, <3>1
      DEF PointerInv, NoDanglingRead, ReadingIsLive, OwnedIsReading, CallIffLive,
          FreshIsOwned
  <2>5. CASE path # NoPath
    <3> DEFINE n == nreads + 1
    <3>1. n \in Reads /\ n > nreads
      BY <1>1, <2>5, ConstantsAssumption DEF Reads
    <3>2. /\ nreads' = n /\ reading' = n
          /\ mem' = [mem EXCEPT ![n] = "live"]
          /\ call' = [call EXCEPT ![n] = "tag_proxy"]
      BY <1>1, <1>3, <2>5 DEF set_current_tag, tag_read_start
    <3>3. \A r \in Reads : r > n => r > nreads
      BY DEF Reads
    <3> HIDE DEF n
    <3>4. ReadingIsLive'
      BY <2>3, <3>1, <3>2 DEF ReadingIsLive
    <3>5. OwnedIsReading'
      BY <2>1, <3>1, <3>2 DEF OwnedIsReading
    <3>6. CallIffLive'
      BY <3>1, <3>2 DEF PointerInv, NoDanglingRead, CallIffLive
    <3>7. FreshIsOwned'
      BY <2>3, <3>1, <3>2, <3>3 DEF FreshIsOwned, Reads
    <3> QED
      BY <2>2, <3>4, <3>5, <3>6, <3>7 DEF PointerInv, NoDanglingRead
  <2> QED
    BY <2>4, <2>5
<1> QED
  BY <1>2, <1>3

\* At first there is no read.
LEMMA InitPointers ==
  ASSUME Init PROVE PointerInv
BY DEF Init, PointerInv, NoDanglingRead, ReadingIsLive, OwnedIsReading,
   CallIffLive, OrphanedIffCancelled, FreshIsOwned

\* PointerInv is inductive, given the types.
LEMMA NextPointers ==
  ASSUME TypeOK, PointerInv, [Next]_vars PROVE PointerInv'
<1>1. CASE UNCHANGED vars
  BY <1>1
  DEF vars, clientVars, steadyVars, readVars, PointerInv, NoDanglingRead,
      ReadingIsLive, OwnedIsReading, CallIffLive, OrphanedIffCancelled,
      FreshIsOwned
<1> QED
  BY <1>1, UpdateTagsPointers, CallbackPointers DEF Next

(***************************************************************************)
(* Whatever order tags come, go and answer in, and however many reads are  *)
(* in flight: client->reading points at a live read that has not been      *)
(* abandoned, no other read can report to the client, every live read has  *)
(* the one outstanding call that will free it and a freed one has none.    *)
(***************************************************************************)
THEOREM ReadsAreSound == Spec => []NoDanglingRead
<1>1. Init => PointerInv
  BY InitPointers
<1>2. TypeOK /\ PointerInv /\ [Next]_vars => PointerInv'
  BY NextPointers
<1>3. PointerInv => NoDanglingRead
  BY DEF PointerInv
<1> QED
  BY <1>1, <1>2, <1>3, TypeCorrect, PTL DEF Spec

(***************************************************************************)
(* No change of the tag escapes the getTagInfo subscribers.                *)
(***************************************************************************)
THEOREM TagInfoIsPushed == Spec => []SubscribersUpToDate
<1>1. Init => SubscribersUpToDate
  BY DEF Init, SubscribersUpToDate
<1>2. PointerInv /\ SubscribersUpToDate /\ [Next]_vars => SubscribersUpToDate'
  <2> SUFFICES ASSUME PointerInv, SubscribersUpToDate, [Next]_vars
               PROVE  SubscribersUpToDate'
    OBVIOUS
  <2>1. CASE update_tags
    BY <2>1 DEF update_tags, set_current_tag, notify_tag, SubscribersUpToDate,
       vars, clientVars
  <2>2. ASSUME NEW r \in Reads, Callback(r) PROVE SubscribersUpToDate'
    BY <2>2, CallbackShape DEF PointerInv, Shape, Publishes, SubscribersUpToDate
  <2>3. CASE UNCHANGED vars
    BY <2>3 DEF vars, clientVars, SubscribersUpToDate
  <2> QED
    BY <2>1, <2>2, <2>3 DEF Next
<1>3. Init => PointerInv
  BY InitPointers
<1>4. TypeOK /\ PointerInv /\ [Next]_vars => PointerInv'
  BY NextPointers
<1> QED
  BY <1>1, <1>2, <1>3, <1>4, TypeCorrect, PTL DEF Spec

-----------------------------------------------------------------------------
(***************************************************************************)
(* What a read reports: that getTagInfo shows the tag now in the field,    *)
(* that a MIFARE sweep reports what is true of its card, reads only the    *)
(* sector it has authenticated, and never goes back, and that a read that  *)
(* nothing went wrong with misses nothing.                                 *)
(*                                                                         *)
(* This rests on one invariant, ReportInv.  Local is about one read alone  *)
(* and holds of every read, abandoned or not.  Current ties the client to  *)
(* its last read, and Cached the key cache to the sectors that read has    *)
(* reported: only the last read can write either, which PointerInv shows.  *)
(***************************************************************************)

SweepCalls == {"mifare_auth", "mifare_block"}

\* The entries of d are true of its card and lie behind the sector at hand.
Entries(d) ==
  /\ \A i \in 1..Len(d.sectors) :
       /\ d.sectors[i].sector < d.sector
       /\ d.sectors[i].key = d.card.keys[d.sectors[i].sector]
       /\ d.sectors[i].blocks \in
            1..mifare_sector_block_count(d.sectors[i].sector)
  /\ \A i, j \in 1..Len(d.sectors) :
       i < j => d.sectors[i].sector < d.sectors[j].sector

\* The block d asks for is one of its sector; a block that is not the first
\* is only asked for after the key has opened the sector.
AtBlock(d) ==
  /\ d.block = mifare_sector_first_block(d.sector) + d.block_offset
  /\ d.block_offset < mifare_sector_block_count(d.sector)
  /\ d.block_offset # 0 => KeyFits(d)

\* What holds of a read with fields d whose outstanding call is c.
Local(d, c) ==
  /\ d.is_type2 => d.card.kind = "type2"
  /\ Entries(d)
  /\ c = "mifare_block" => AtBlock(d)

LocalInv == \A r \in Reads : Local(rd[r], call[r])

\* Without a tag nothing is left of one; with one, the last read is its own.
TagIsRead ==
  /\ tag_path = NoPath => /\ tag_json = NoJson /\ reading = NULL
                          /\ tag_protocol = "none" /\ ~tag_is_type2
  /\ tag_path # NoPath => nreads \in Reads /\ owned[nreads]

\* Until the tag has answered nothing is known about it.
Unidentified ==
  \A r \in Reads : owned[r] /\ call[r] \in {"tag_proxy", "get_all"} =>
    tag_json = NoJson /\ tag_protocol = "none" /\ ~tag_is_type2

\* What is shown of the sectors is what the last read has found.
ShowsSectors == tag_json # NoJson => tag_json.sectors = rd[nreads].sectors

Current == InfoIsCurrent /\ TagIsRead /\ Unidentified /\ ShowsSectors

\* The cache offers the keys of d's entries at the next tap of its card.
Cached ==
  tag_path # NoPath =>
    LET d == rd[nreads] IN
    d.card.uid # NoUid =>
      \A i \in 1..Len(d.sectors) :
        mifare_key_cache[d.card.uid][d.sectors[i].sector] = d.sectors[i].key

ReportInv == LocalInv /\ Current /\ Cached

-----------------------------------------------------------------------------
(* What the helpers of the callbacks do.  Each ends in one of two ways: the *)
(* read goes on with fields e and its next call c, or it finishes with e.   *)

Goes(r, e, c) ==
  /\ rd' = [rd EXCEPT ![r] = e]
  /\ call' = [call EXCEPT ![r] = c]
  /\ UNCHANGED <<nreads, owned, reading, tag_path, tag_is_type2>>

\* The progress of the sweep is published.
Shows(r, e) ==
  tag_json' = [read |-> r, path |-> e.path, scanning |-> TRUE,
               records |-> <<>>, raw |-> FALSE, sectors |-> e.sectors]

\* e is the same read as d, with the same sectors found.
Same(d, e) ==
  /\ e.card = d.card /\ e.path = d.path
  /\ e.is_type2 = d.is_type2 /\ e.sectors = d.sectors

\* The place of a key among the keys tried on a sector.
KeyRank(d) == IF d.cached_attempt THEN 0 ELSE d.key_index + 1

\* e is at a later sector than d, or at a later key of the same sector.
Later(d, e) ==
  \/ e.sector > d.sector
  \/ e.sector = d.sector /\ KeyRank(e) > KeyRank(d)

\* mifare_send_auth() keeps the read and its place.
LEMMA SendAuthOutcome ==
  ASSUME NEW r \in Reads, NEW d \in ReadFields, d.sector \in Sectors,
         NEW k \in Keys, mifare_send_auth(r, d, k),
         UNCHANGED <<reading, tag_path, tag_is_type2>>
  PROVE  \E e \in ReadFields :
           /\ Same(d, e)
           /\ e.sector = d.sector /\ KeyRank(e) = KeyRank(d)
           /\ Goes(r, e, "mifare_auth")
<1> DEFINE b == mifare_sector_first_block(d.sector)
           e == [d EXCEPT !.key = k, !.block = b]
<1>1. b \in Nat
  BY FirstBlockType
<1>2. e \in ReadFields
  <2> HIDE DEF b
  <2> QED
    BY <1>1 DEF ReadFields
<1>3. /\ Same(d, e)
      /\ e.sector = d.sector
      /\ e.cached_attempt = d.cached_attempt /\ e.key_index = d.key_index
  BY DEF ReadFields, Same
<1>4. Goes(r, e, "mifare_auth")
  BY DEF mifare_send_auth, Send, Goes
<1> HIDE DEF e
<1>5. KeyRank(e) = KeyRank(d)
  BY <1>3 DEF KeyRank
<1> QED
  BY <1>2, <1>3, <1>4, <1>5

\* tag_read_mifare_next_sector() shows what was found and starts the sector,
\* or finishes the read.
LEMMA NextSectorOutcome ==
  ASSUME NEW cache \in [Uids -> [Sectors -> Keys \union {NoKey}]],
         NEW r \in Reads, NEW d \in ReadFields,
         tag_read_mifare_next_sector(r, d, cache)
  PROVE  \E e \in ReadFields :
           /\ Same(d, e) /\ e.sector = d.sector
           /\ \/ Goes(r, e, "mifare_auth") /\ Shows(r, e)
              \/ tag_read_finish(r, e)
<1>1. CASE d.sector >= MIFARE_NUM_SECTORS
  BY <1>1 DEF tag_read_mifare_next_sector, Same
<1>2. CASE ~(d.sector >= MIFARE_NUM_SECTORS)
  <2> DEFINE k == mifare_cache_lookup(cache, d.card.uid, d.sector)
             f == [d EXCEPT !.key_index = 0, !.cached_attempt = k # NoKey]
             k0 == IF k # NoKey THEN k ELSE 0
  <2>1. /\ mifare_publish_progress(r, d)
        /\ mifare_send_auth(r, f, k0)
        /\ UNCHANGED reading
    BY <1>2 DEF tag_read_mifare_next_sector
  <2>2. d.sector \in Sectors
    BY <1>2, ConstantsAssumption DEF ReadFields, Sectors
  <2>3. d.card.uid \in Uids \union {NoUid}
    BY CardsAssumption DEF ReadFields, Card
  <2>4. k \in Keys \union {NoKey}
    BY <2>2, <2>3 DEF mifare_cache_lookup
  <2>5. k0 \in Keys
    BY <2>4, ConstantsAssumption DEF Keys, NoKey
  <2>6. f \in ReadFields /\ f.sector = d.sector /\ Same(d, f)
    <3>1. 0 \in 0..MIFARE_NUM_DEFAULT_KEYS
      BY ConstantsAssumption
    <3> HIDE DEF k
    <3> QED
      BY <3>1 DEF ReadFields, Same
  <2> HIDE DEF f, k0, k
  <2>7. UNCHANGED <<reading, tag_path, tag_is_type2>>
    BY <2>1 DEF mifare_publish_progress
  <2>8. PICK e \in ReadFields : /\ Same(f, e) /\ e.sector = f.sector
                                /\ Goes(r, e, "mifare_auth")
    BY <2>1, <2>2, <2>5, <2>6, <2>7, SendAuthOutcome
  <2>9. Same(d, e) /\ e.sector = d.sector
    BY <2>6, <2>8 DEF Same
  <2>10. Shows(r, e)
    BY <2>1, <2>9 DEF mifare_publish_progress, Shows, Same
  <2> QED
    BY <2>8, <2>9, <2>10
<1> QED
  BY <1>1, <1>2

\* mifare_next_key() moves on to another key or to the next sector.
LEMMA NextKeyOutcome ==
  ASSUME NEW r \in Reads, NEW d \in ReadFields, InSweep(d), SteadyTypeOK,
         mifare_next_key(r, d)
  PROVE  \E e \in ReadFields :
           /\ Same(d, e) /\ e.sector \in d.sector..(d.sector + 1) /\ Later(d, e)
           /\ \/ /\ Goes(r, e, "mifare_auth")
                 /\ Shows(r, e) \/ UNCHANGED tag_json
              \/ tag_read_finish(r, e)
<1> DEFINE e == IF d.cached_attempt THEN [d EXCEPT !.cached_attempt = FALSE]
                                    ELSE [d EXCEPT !.key_index = @ + 1]
           f == [e EXCEPT !.sector = @ + 1]
<1>1. tag_read_mifare_try_key(r, e)
  BY DEF mifare_next_key
<1>2. e \in ReadFields /\ e.sector = d.sector /\ Same(d, e) /\ KeyRank(e) > KeyRank(d)
  <2>1. d.key_index + 1 \in 0..MIFARE_NUM_DEFAULT_KEYS /\ d.key_index \in Nat
    BY ConstantsAssumption DEF InSweep, Keys
  <2>2. CASE d.cached_attempt
    <3>1. e \in ReadFields /\ e.sector = d.sector /\ Same(d, e)
      BY <2>2 DEF ReadFields, Same
    <3>2. e.cached_attempt = FALSE /\ e.key_index = d.key_index
      BY <2>2 DEF ReadFields
    <3> HIDE DEF e
    <3> QED
      BY <2>1, <2>2, <3>1, <3>2 DEF KeyRank
  <2>3. CASE ~d.cached_attempt
    <3>1. e \in ReadFields /\ e.sector = d.sector /\ Same(d, e)
      BY <2>1, <2>3 DEF ReadFields, Same
    <3>2. e.cached_attempt = d.cached_attempt /\ e.key_index = d.key_index + 1
      BY <2>3 DEF ReadFields
    <3> HIDE DEF e
    <3> QED
      BY <2>1, <2>3, <3>1, <3>2 DEF KeyRank
  <2> QED
    BY <2>2, <2>3
<1>3. d.sector \in Nat
  BY ConstantsAssumption DEF InSweep, Sectors
<1>4. f \in ReadFields /\ f.sector = d.sector + 1 /\ Same(d, f)
  <2> HIDE DEF e
  <2>1. e.sector + 1 \in 0..MIFARE_NUM_SECTORS
    BY <1>2, ConstantsAssumption DEF InSweep, Sectors
  <2>2. f \in ReadFields /\ f.sector = e.sector + 1 /\ Same(e, f)
    BY <1>2, <2>1 DEF ReadFields, Same
  <2> QED
    BY <1>2, <2>2 DEF Same
<1>5. CASE e.key_index >= MIFARE_NUM_DEFAULT_KEYS
  <2>1. tag_read_mifare_next_sector(r, f, mifare_key_cache)
    BY <1>1, <1>5 DEF tag_read_mifare_try_key
  <2> HIDE DEF e, f
  <2>2. PICK g \in ReadFields :
          /\ Same(f, g) /\ g.sector = f.sector
          /\ \/ Goes(r, g, "mifare_auth") /\ Shows(r, g)
             \/ tag_read_finish(r, g)
    BY <1>4, <2>1, NextSectorOutcome DEF SteadyTypeOK
  <2>3. Same(d, g) /\ g.sector \in d.sector..(d.sector + 1) /\ Later(d, g)
    BY <1>3, <1>4, <2>2 DEF Same, Later
  <2> QED
    BY <2>2, <2>3
<1>6. CASE ~(e.key_index >= MIFARE_NUM_DEFAULT_KEYS)
  <2>1. mifare_send_auth(r, e, e.key_index) /\ UNCHANGED <<clientVars, reading>>
    BY <1>1, <1>6 DEF tag_read_mifare_try_key
  <2> HIDE DEF e
  <2>a. e.key_index \in Nat /\ e.sector \in Sectors
    BY <1>2 DEF ReadFields, InSweep
  <2>2. e.key_index \in Keys /\ e.sector \in Sectors
    BY <1>6, <2>a, ConstantsAssumption DEF Keys
  <2>3. PICK g \in ReadFields : /\ Same(e, g)
                                /\ g.sector = e.sector /\ KeyRank(g) = KeyRank(e)
                                /\ Goes(r, g, "mifare_auth")
    BY <1>2, <2>1, <2>2, SendAuthOutcome DEF clientVars
  <2>4. Same(d, g) /\ g.sector \in d.sector..(d.sector + 1) /\ Later(d, g)
    BY <1>2, <1>3, <2>3 DEF Same, Later
  <2> QED
    BY <2>1, <2>3, <2>4 DEF clientVars
<1> QED
  BY <1>5, <1>6

\* The entries of a read are about sectors of the card.
LEMMA EntryType ==
  ASSUME NEW s \in Seq(SectorEntry), NEW i \in 1..Len(s)
  PROVE  s[i].sector \in Sectors /\ s[i].sector \in Int
<1>1. s[i] \in SectorEntry
  OBVIOUS
<1>2. s[i].sector \in Sectors
  BY <1>1 DEF SectorEntry
<1> QED
  BY <1>2 DEF Sectors

\* Moving on to a later key or sector keeps the entries true.
LEMMA EntriesKept ==
  ASSUME NEW d \in ReadFields, NEW e \in ReadFields, Entries(d), Same(d, e),
         e.sector >= d.sector
  PROVE  Entries(e)
<1>1. d.sector \in Int /\ e.sector \in Int /\ d.sectors \in Seq(SectorEntry)
  BY DEF ReadFields
<1>2. \A i \in 1..Len(d.sectors) : d.sectors[i].sector \in Int
  BY <1>1, EntryType
<1> QED
  BY <1>1, <1>2 DEF Entries, Same

\* The entry mifare_sector_done() adds.
Entry(d) == [sector |-> d.sector, key |-> d.key, blocks |-> d.block_offset]

\* The entry of a sector the key has opened is true of the card.
LEMMA EntriesGrow ==
  ASSUME NEW d \in ReadFields, NEW e \in ReadFields, Entries(d), InSweep(d),
         KeyFits(d), d.block_offset \in 1..mifare_sector_block_count(d.sector),
         e.card = d.card, e.sector = d.sector + 1,
         e.sectors = Append(d.sectors, Entry(d))
  PROVE  Entries(e)
<1> DEFINE n == Len(d.sectors)
<1>1. /\ d.sector \in Int /\ e.sector \in Int
      /\ d.sectors \in Seq(SectorEntry) /\ Entry(d) \in SectorEntry
  BY DEF ReadFields, InSweep, Entry, SectorEntry
<1>2. \A i \in 1..n : d.sectors[i].sector \in Int
  BY <1>1, EntryType
<1>3. /\ n \in Nat /\ Len(e.sectors) = n + 1
      /\ \A i \in 1..n : e.sectors[i] = d.sectors[i]
      /\ e.sectors[n + 1] = Entry(d)
  BY <1>1
<1>4. /\ Entry(d).sector = d.sector /\ Entry(d).key = d.key
      /\ Entry(d).blocks = d.block_offset
  BY DEF Entry
<1> HIDE DEF n
<1>5. ASSUME NEW i \in 1..(n + 1)
      PROVE  /\ e.sectors[i].sector < e.sector
             /\ e.sectors[i].key = e.card.keys[e.sectors[i].sector]
             /\ e.sectors[i].blocks \in
                  1..mifare_sector_block_count(e.sectors[i].sector)
  <2>1. CASE i \in 1..n
    BY <1>1, <1>2, <1>3, <2>1 DEF Entries, n
  <2>2. CASE i = n + 1
    BY <1>1, <1>3, <1>4, <2>2 DEF KeyFits
  <2> QED
    BY <1>3, <2>1, <2>2
<1>6. ASSUME NEW i \in 1..(n + 1), NEW j \in 1..(n + 1), i < j
      PROVE  e.sectors[i].sector < e.sectors[j].sector
  <2>1. i \in 1..n
    BY <1>3, <1>6
  <2>2. CASE j \in 1..n
    BY <1>3, <1>6, <2>1, <2>2 DEF Entries, n
  <2>3. CASE j = n + 1
    BY <1>3, <1>4, <2>1, <2>3 DEF Entries, n
  <2> QED
    BY <1>3, <2>2, <2>3
<1> QED
  BY <1>3, <1>5, <1>6 DEF Entries

\* The fields of d, with the entry of its sector added.
Grown(d, e) ==
  /\ e.card = d.card /\ e.path = d.path /\ e.is_type2 = d.is_type2
  /\ e.sectors = Append(d.sectors, Entry(d))
  /\ e.sector = d.sector + 1

\* mifare_sector_done() adds its entry, stores the key and moves on.
LEMMA SectorDoneOutcome ==
  ASSUME NEW r \in Reads, NEW d \in ReadFields, InSweep(d), SteadyTypeOK,
         mifare_sector_done(r, d)
  PROVE  /\ mifare_cache_store(d.card.uid, d.sector, d.key)
         /\ UNCHANGED tag_protocol
         /\ \E e \in ReadFields :
              /\ Grown(d, e)
              /\ \/ Goes(r, e, "mifare_auth") /\ Shows(r, e)
                 \/ tag_read_finish(r, e)
<1> DEFINE f == [d EXCEPT !.sectors = Append(@, Entry(d)), !.sector = @ + 1]
<1>1. /\ mifare_cache_store(d.card.uid, d.sector, d.key)
      /\ tag_read_mifare_next_sector(r, f, mifare_key_cache)
      /\ UNCHANGED tag_protocol
  BY DEF mifare_sector_done, Entry
<1>2. Entry(d) \in SectorEntry
  BY DEF InSweep, ReadFields, SectorEntry, Entry
<1>3. f \in ReadFields /\ Grown(d, f)
  <2>1. Append(d.sectors, Entry(d)) \in Seq(SectorEntry)
    BY <1>2 DEF ReadFields
  <2>2. d.sector + 1 \in 0..MIFARE_NUM_SECTORS
    BY ConstantsAssumption DEF InSweep, Sectors
  <2> QED
    BY <2>1, <2>2 DEF ReadFields, Grown
<1> HIDE DEF f
<1>4. PICK e \in ReadFields :
        /\ Same(f, e) /\ e.sector = f.sector
        /\ \/ Goes(r, e, "mifare_auth") /\ Shows(r, e)
           \/ tag_read_finish(r, e)
  BY <1>1, <1>3, NextSectorOutcome DEF SteadyTypeOK
<1>5. Grown(d, e)
  BY <1>3, <1>4 DEF Same, Grown
<1> QED
  BY <1>1, <1>4, <1>5

\* mifare_read_block() asks for the block at block_offset of the sector.
LEMMA ReadBlockOutcome ==
  ASSUME NEW r \in Reads, NEW d \in ReadFields, InSweep(d),
         mifare_read_block(r, d)
  PROVE  \E e \in ReadFields :
           /\ Same(d, e) /\ e.sector = d.sector /\ KeyRank(e) = KeyRank(d)
           /\ e.key = d.key /\ e.block_offset = d.block_offset
           /\ e.block = mifare_sector_first_block(e.sector) + e.block_offset
           /\ Goes(r, e, "mifare_block")
           /\ UNCHANGED <<tag_json, steadyVars>>
<1> DEFINE b == mifare_sector_first_block(d.sector) + d.block_offset
           e == [d EXCEPT !.block = b]
<1>1. b \in Nat
  <2>1. mifare_sector_first_block(d.sector) \in Nat
    BY FirstBlockType DEF InSweep
  <2>2. d.block_offset \in Nat
    BY DEF ReadFields
  <2> QED
    BY <2>1, <2>2
<1>2. /\ e \in ReadFields /\ Same(d, e) /\ e.sector = d.sector
      /\ e.key = d.key /\ e.block_offset = d.block_offset /\ e.block = b
      /\ e.cached_attempt = d.cached_attempt /\ e.key_index = d.key_index
  <2> HIDE DEF b
  <2> QED
    BY <1>1 DEF ReadFields, Same
<1>3. Goes(r, e, "mifare_block") /\ UNCHANGED <<tag_json, steadyVars>>
  BY DEF mifare_read_block, Send, Goes, clientVars
<1> HIDE DEF e
<1>4. KeyRank(e) = KeyRank(d)
  BY <1>2 DEF KeyRank
<1> QED
  BY <1>2, <1>3, <1>4

\* Noting a failure changes nothing but the ghost.
LEMMA NotingOutcome ==
  ASSUME NEW d \in ReadFields, NEW res
  PROVE  /\ Noting(d, res) \in ReadFields
         /\ \A d2 : d2 = Noting(d, res) =>
              /\ Same(d, d2) /\ d2.sector = d.sector /\ d2.key = d.key
              /\ d2.key_index = d.key_index
              /\ d2.cached_attempt = d.cached_attempt
              /\ d2.block_offset = d.block_offset /\ d2.block = d.block
BY DEF Noting, ReadFields, Same

-----------------------------------------------------------------------------
(* What the callbacks do.  A callback of a read that is still owned moves   *)
(* it on; any other drops its read and leaves the client alone.             *)

\* The sweep is further on with fields e and call c than with d and b.
Advances(d, b, e, c) ==
  b \in SweepCalls /\ c \in SweepCalls => LexLess(SweepRank(d, b), SweepRank(e, c))

\* The read goes on with e and c.
MovesTo(r, e, c) ==
  /\ Goes(r, e, c) /\ Local(e, c)
  /\ c # "tag_proxy"
  /\ c = "get_all" => call[r] = "tag_proxy" /\ UNCHANGED <<tag_json, tag_protocol>>
  /\ Shows(r, e) \/ (UNCHANGED tag_json /\ e.sectors = rd[r].sectors)
  /\ Advances(rd[r], call[r], e, c)

\* The cache follows the sectors: both stay, or both gain the sector at hand.
CacheFollows(d, e) ==
  \/ e.sectors = d.sectors /\ UNCHANGED mifare_key_cache
  \/ /\ \E x \in SectorEntry : /\ x.sector = d.sector /\ x.key = d.key
                               /\ e.sectors = Append(d.sectors, x)
     /\ mifare_cache_store(d.card.uid, d.sector, d.key)

Moves(r) ==
  \E e \in ReadFields :
    /\ e.card = rd[r].card /\ e.path = rd[r].path
    /\ \/ \E c \in CallNames : MovesTo(r, e, c)
       \/ tag_read_finish(r, e) /\ Local(e, "none")
    /\ CacheFollows(rd[r], e)
    /\ tag_protocol' \in {tag_protocol, e.card.kind}

Drops(r) ==
  /\ rd' = [rd EXCEPT ![r] = Blank]
  /\ call' = [call EXCEPT ![r] = "none"]
  /\ reading' = IF owned[r] THEN NULL ELSE reading
  /\ owned[r] => call[r] \in {"tag_proxy", "get_all"}
  /\ UNCHANGED <<clientVars, steadyVars, nreads, owned>>

\* The rank of a sweep, spelled out.
LEMMA AdvancesBy ==
  ASSUME NEW d \in ReadFields, NEW e \in ReadFields, NEW b, NEW c,
         \/ Later(d, e)
         \/ /\ e.sector = d.sector /\ KeyRank(e) = KeyRank(d)
            /\ c = "mifare_block"
            /\ \/ b = "mifare_auth"
               \/ e.block_offset > d.block_offset /\ b = "mifare_block"
  PROVE  Advances(d, b, e, c)
<1>1. e.block_offset \in Nat /\ d.block_offset \in Nat
  BY DEF ReadFields
<1> QED
  BY <1>1 DEF Advances, Later, KeyRank, LexLess, SweepRank, SweepCalls

\* A failed key is followed by another key, the next sector or the end.
LEMMA NextKeyMoves ==
  ASSUME NEW r \in Reads, rd[r] \in ReadFields, InSweep(rd[r]), SteadyTypeOK,
         Local(rd[r], call[r]),
         NEW d \in ReadFields, InSweep(d), Same(rd[r], d),
         d.sector = rd[r].sector, KeyRank(d) = KeyRank(rd[r]),
         mifare_next_key(r, d)
  PROVE  Moves(r)
<1>1. PICK e \in ReadFields :
           /\ Same(d, e) /\ e.sector \in d.sector..(d.sector + 1) /\ Later(d, e)
           /\ \/ /\ Goes(r, e, "mifare_auth")
                 /\ Shows(r, e) \/ UNCHANGED tag_json
              \/ tag_read_finish(r, e)
  BY NextKeyOutcome
<1>2. Same(rd[r], e) /\ e.sector >= rd[r].sector /\ Later(rd[r], e)
  BY <1>1 DEF Same, Later, InSweep, Sectors
<1>3. Entries(e)
  BY <1>2, EntriesKept DEF Local
<1>4. Local(e, "mifare_auth") /\ Local(e, "none")
  BY <1>2, <1>3 DEF Local, Same
<1>5. Advances(rd[r], call[r], e, "mifare_auth")
  BY <1>2, AdvancesBy
<1>6. UNCHANGED <<mifare_key_cache, tag_protocol>>
  BY DEF mifare_next_key, steadyVars
<1>7. CacheFollows(rd[r], e)
  BY <1>2, <1>6 DEF CacheFollows, Same
<1>8. CASE tag_read_finish(r, e)
  BY <1>2, <1>4, <1>6, <1>7, <1>8 DEF Moves, Same
<1>9. CASE /\ Goes(r, e, "mifare_auth")
           /\ Shows(r, e) \/ UNCHANGED tag_json
  <2>1. MovesTo(r, e, "mifare_auth")
    BY <1>2, <1>4, <1>5, <1>9 DEF MovesTo, Same
  <2> QED
    BY <1>2, <1>6, <1>7, <2>1 DEF Moves, Same, CallNames
<1> QED
  BY <1>1, <1>8, <1>9

\* A sector whose key fits is reported, and its key cached.
LEMMA SectorDoneMoves ==
  ASSUME NEW r \in Reads, rd[r] \in ReadFields, InSweep(rd[r]), SteadyTypeOK,
         Local(rd[r], call[r]),
         NEW d \in ReadFields, InSweep(d), Same(rd[r], d),
         d.sector = rd[r].sector, d.key = rd[r].key, KeyFits(d),
         d.block_offset \in 1..mifare_sector_block_count(d.sector),
         mifare_sector_done(r, d)
  PROVE  Moves(r)
<1>1. PICK e \in ReadFields :
              /\ Grown(d, e)
              /\ \/ Goes(r, e, "mifare_auth") /\ Shows(r, e)
                 \/ tag_read_finish(r, e)
  BY SectorDoneOutcome
<1>2. /\ mifare_cache_store(d.card.uid, d.sector, d.key)
      /\ UNCHANGED tag_protocol
  BY SectorDoneOutcome
<1>3. Entries(d)
  BY EntriesKept DEF Local, InSweep, Sectors
<1>4. Entries(e)
  BY <1>1, <1>3, EntriesGrow DEF Grown
<1>5. /\ e.card = rd[r].card /\ e.path = rd[r].path
      /\ e.is_type2 = rd[r].is_type2 /\ e.sector > rd[r].sector
  BY <1>1 DEF Grown, Same, InSweep, Sectors
<1>6. Local(e, "mifare_auth") /\ Local(e, "none")
  BY <1>4, <1>5 DEF Local
<1>7. Advances(rd[r], call[r], e, "mifare_auth")
  BY <1>5, AdvancesBy DEF Later
<1>8. CacheFollows(rd[r], e)
  <2>1. Entry(d) \in SectorEntry /\ Entry(d).sector = d.sector /\ Entry(d).key = d.key
    BY DEF Entry, SectorEntry, InSweep, ReadFields
  <2> QED
    BY <1>1, <1>2, <2>1 DEF CacheFollows, Grown, Same
<1>9. CASE tag_read_finish(r, e)
  BY <1>2, <1>5, <1>6, <1>8, <1>9 DEF Moves
<1>10. CASE Goes(r, e, "mifare_auth") /\ Shows(r, e)
  <2>1. MovesTo(r, e, "mifare_auth")
    BY <1>6, <1>7, <1>10 DEF MovesTo
  <2> QED
    BY <1>2, <1>5, <1>8, <2>1 DEF Moves, CallNames
<1> QED
  BY <1>1, <1>9, <1>10

\* A block is asked for: the first after the authentication, or the next.
LEMMA ReadBlockMoves ==
  ASSUME NEW r \in Reads, rd[r] \in ReadFields, InSweep(rd[r]),
         Local(rd[r], call[r]),
         NEW d \in ReadFields, InSweep(d), Same(rd[r], d),
         d.sector = rd[r].sector, KeyRank(d) = KeyRank(rd[r]),
         d.block_offset < mifare_sector_block_count(d.sector),
         d.block_offset # 0 => KeyFits(d),
         \/ call[r] = "mifare_auth"
         \/ call[r] = "mifare_block" /\ d.block_offset > rd[r].block_offset,
         mifare_read_block(r, d)
  PROVE  Moves(r)
<1>1. PICK e \in ReadFields :
           /\ Same(d, e) /\ e.sector = d.sector /\ KeyRank(e) = KeyRank(d)
           /\ e.key = d.key /\ e.block_offset = d.block_offset
           /\ e.block = mifare_sector_first_block(e.sector) + e.block_offset
           /\ Goes(r, e, "mifare_block")
           /\ UNCHANGED <<tag_json, steadyVars>>
  BY ReadBlockOutcome
<1>2. Same(rd[r], e) /\ e.sector = rd[r].sector /\ KeyRank(e) = KeyRank(rd[r])
  BY <1>1 DEF Same
<1>3. Entries(e)
  BY <1>2, EntriesKept DEF Local, InSweep, Sectors
<1>4. AtBlock(e)
  BY <1>1 DEF AtBlock, KeyFits, Same
<1>5. Local(e, "mifare_block")
  BY <1>2, <1>3, <1>4 DEF Local, Same
<1>6. Advances(rd[r], call[r], e, "mifare_block")
  BY <1>1, <1>2, AdvancesBy
<1>7. MovesTo(r, e, "mifare_block")
  BY <1>1, <1>2, <1>5, <1>6 DEF MovesTo, Same
<1> QED
  BY <1>1, <1>2, <1>7 DEF Moves, CacheFollows, Same, CallNames, steadyVars

\* The state every callback starts from.
Before(r) == TypeInv /\ OrphanedIffCancelled /\ LocalInv /\ r \in Reads

\* Abandoned and given-up reads leave the client alone.
LEMMA OrphanDrops ==
  ASSUME NEW r \in Reads, ~owned[r], Orphan(r)
  PROVE  Drops(r)
BY DEF Orphan, tag_read_free, Drops

\* Only a read whose tag has not been identified is given up.
LEMMA GiveUpDrops ==
  ASSUME NEW r \in Reads, call[r] \in {"tag_proxy", "get_all"}, GiveUp(r)
  PROVE  Drops(r)
BY DEF GiveUp, tag_read_free, Drops

\* Noting keeps the place in the sweep.
LEMMA NotingInSweep ==
  ASSUME NEW d \in ReadFields, InSweep(d), NEW res, NEW f,
         f = IF KeyFits(d) THEN Noting(d, res) ELSE d
  PROVE  /\ f \in ReadFields /\ InSweep(f) /\ Same(d, f)
         /\ f.sector = d.sector /\ f.key = d.key /\ KeyRank(f) = KeyRank(d)
         /\ f.block_offset = d.block_offset /\ (KeyFits(f) <=> KeyFits(d))
<1>1. /\ f \in ReadFields /\ Same(d, f) /\ f.sector = d.sector
      /\ f.key = d.key /\ f.key_index = d.key_index
      /\ f.cached_attempt = d.cached_attempt /\ f.block_offset = d.block_offset
  BY NotingOutcome DEF Same
<1>2. InSweep(f) /\ KeyRank(f) = KeyRank(d)
  BY <1>1 DEF InSweep, KeyRank
<1>3. KeyFits(f) <=> KeyFits(d)
  BY <1>1 DEF KeyFits, Same
<1> QED
  BY <1>1, <1>2, <1>3

\* block_offset is the only field these assignments touch.
LEMMA OffsetInSweep ==
  ASSUME NEW d \in ReadFields, InSweep(d), NEW n \in Nat, NEW f,
         f = [d EXCEPT !.block_offset = n]
  PROVE  /\ f \in ReadFields /\ InSweep(f) /\ Same(d, f)
         /\ f.sector = d.sector /\ f.key = d.key /\ KeyRank(f) = KeyRank(d)
         /\ f.block_offset = n /\ (KeyFits(f) <=> KeyFits(d))
<1>1. /\ f \in ReadFields /\ Same(d, f) /\ f.sector = d.sector
      /\ f.key = d.key /\ f.key_index = d.key_index
      /\ f.cached_attempt = d.cached_attempt /\ f.block_offset = n
  BY DEF ReadFields, Same
<1>2. InSweep(f) /\ KeyRank(f) = KeyRank(d)
  BY <1>1 DEF InSweep, KeyRank
<1>3. KeyFits(f) <=> KeyFits(d)
  BY <1>1 DEF KeyFits, Same
<1> QED
  BY <1>1, <1>2, <1>3

\* Every sector has a block.
LEMMA BlockCountType ==
  ASSUME NEW s
  PROVE  mifare_sector_block_count(s) \in Nat \ {0}
BY ConstantsAssumption DEF mifare_sector_block_count

\* mifare_auth_ready()
LEMMA AuthReadyMoves ==
  ASSUME NEW r, Before(r), mifare_auth_ready(r)
  PROVE  (owned[r] /\ Moves(r)) \/ Drops(r)
<1> DEFINE D(res) == IF KeyFits(rd[r]) THEN Noting(rd[r], res) ELSE rd[r]
<1>1. /\ rd[r] \in ReadFields /\ InSweep(rd[r]) /\ SteadyTypeOK /\ r \in Reads
      /\ Local(rd[r], call[r]) /\ call[r] = "mifare_auth"
  BY DEF mifare_auth_ready, Before, TypeInv, TypeOK, ReadTypeOK, SweepInRange,
     LocalInv
<1>2. PICK res \in Results(r) :
        IF ~owned[r] \/ res = "cancelled" THEN Orphan(r)
        ELSE IF res = "error" THEN mifare_next_key(r, D(res))
        ELSE mifare_read_block(r, [D(res) EXCEPT !.block_offset = 0])
  BY DEF mifare_auth_ready
<1>3. res = "cancelled" => ~owned[r]
  BY <1>1 DEF Results, OrphanedIffCancelled, Before
<1> DEFINE d == D(res)
           e == [d EXCEPT !.block_offset = 0]
<1>4. /\ d \in ReadFields /\ InSweep(d) /\ Same(rd[r], d)
      /\ d.sector = rd[r].sector /\ KeyRank(d) = KeyRank(rd[r])
  BY <1>1, NotingInSweep
<1> HIDE DEF D, d
<1>5. /\ e \in ReadFields /\ InSweep(e) /\ Same(d, e)
      /\ e.sector = d.sector /\ KeyRank(e) = KeyRank(d) /\ e.block_offset = 0
  BY <1>4, OffsetInSweep
<1>6. CASE ~owned[r] /\ Orphan(r)
  BY <1>1, <1>6, OrphanDrops
<1>7. CASE owned[r] /\ mifare_next_key(r, d)
  BY <1>1, <1>4, <1>7, NextKeyMoves
<1>8. CASE owned[r] /\ mifare_read_block(r, e)
  <2> HIDE DEF e
  <2>1. Same(rd[r], e) /\ e.sector = rd[r].sector /\ KeyRank(e) = KeyRank(rd[r])
    BY <1>4, <1>5 DEF Same
  <2>2. e.block_offset < mifare_sector_block_count(e.sector)
    BY <1>5, BlockCountType
  <2> QED
    BY <1>1, <1>5, <1>8, <2>1, <2>2, ReadBlockMoves
<1> QED
  BY <1>2, <1>3, <1>6, <1>7, <1>8 DEF d

\* mifare_block_read_ready()
LEMMA BlockReadyMoves ==
  ASSUME NEW r, Before(r), mifare_block_read_ready(r)
  PROVE  (owned[r] /\ Moves(r)) \/ Drops(r)
<1> DEFINE D(res) == IF KeyFits(rd[r]) THEN Noting(rd[r], res) ELSE rd[r]
           E(res) == [D(res) EXCEPT !.block_offset = @ + 1]
<1>1. /\ rd[r] \in ReadFields /\ InSweep(rd[r]) /\ SteadyTypeOK /\ r \in Reads
      /\ Local(rd[r], call[r]) /\ call[r] = "mifare_block" /\ AtBlock(rd[r])
  BY DEF mifare_block_read_ready, Before, TypeInv, TypeOK, ReadTypeOK,
     SweepInRange, LocalInv, Local
<1>2. PICK res \in BlockResults(r) :
        IF ~owned[r] THEN Orphan(r)
        ELSE IF res = "ok"
          THEN IF E(res).block_offset >= mifare_sector_block_count(E(res).sector)
                 THEN mifare_sector_done(r, E(res))
                 ELSE mifare_read_block(r, E(res))
          ELSE IF D(res).block_offset = 0
                 THEN mifare_next_key(r, D(res))
                 ELSE mifare_sector_done(r, D(res))
  BY DEF mifare_block_read_ready
<1> DEFINE d == D(res)
           e == [d EXCEPT !.block_offset = @ + 1]
<1>3. /\ d \in ReadFields /\ InSweep(d) /\ Same(rd[r], d)
      /\ d.sector = rd[r].sector /\ d.key = rd[r].key
      /\ KeyRank(d) = KeyRank(rd[r]) /\ d.block_offset = rd[r].block_offset
      /\ KeyFits(d) <=> KeyFits(rd[r])
  BY <1>1, NotingInSweep
<1>4. e = E(res)
  OBVIOUS
<1> HIDE DEF D, E, d
<1>5. d.block_offset \in Nat /\ d.block_offset + 1 \in Nat
  BY <1>3 DEF ReadFields
<1>6. /\ e \in ReadFields /\ InSweep(e) /\ Same(d, e)
      /\ e.sector = d.sector /\ e.key = d.key /\ KeyRank(e) = KeyRank(d)
      /\ e.block_offset = d.block_offset + 1 /\ (KeyFits(e) <=> KeyFits(d))
  BY <1>3, <1>5, OffsetInSweep
<1>7. res = "ok" => KeyFits(rd[r])
  BY DEF BlockResults
<1>8. mifare_sector_block_count(d.sector) \in Nat
  BY BlockCountType
<1>9. /\ d.block_offset < mifare_sector_block_count(d.sector)
      /\ d.block_offset # 0 => KeyFits(d)
  BY <1>1, <1>3 DEF AtBlock
<1> HIDE DEF e
<1>10. Same(rd[r], e)
  BY <1>3, <1>6 DEF Same
<1>11. CASE ~owned[r] /\ Orphan(r)
  BY <1>1, <1>11, OrphanDrops
<1>12. CASE owned[r] /\ mifare_next_key(r, d)
  BY <1>1, <1>3, <1>12, NextKeyMoves
<1>13. CASE owned[r] /\ d.block_offset # 0 /\ mifare_sector_done(r, d)
  <2>1. KeyFits(d) /\ d.block_offset \in 1..mifare_sector_block_count(d.sector)
    BY <1>5, <1>8, <1>9, <1>13
  <2> QED
    BY <1>1, <1>3, <1>13, <2>1, SectorDoneMoves
<1>14. CASE owned[r] /\ res = "ok" /\ mifare_sector_done(r, e)
  <2>1. KeyFits(e) /\ e.block_offset \in 1..mifare_sector_block_count(e.sector)
    BY <1>3, <1>5, <1>6, <1>7, <1>8, <1>9, <1>14
  <2> QED
    BY <1>1, <1>3, <1>6, <1>10, <1>14, <2>1, SectorDoneMoves
<1>15. CASE /\ owned[r] /\ res = "ok" /\ mifare_read_block(r, e)
            /\ ~(e.block_offset >= mifare_sector_block_count(e.sector))
  <2>1. /\ KeyFits(e) /\ e.block_offset < mifare_sector_block_count(e.sector)
        /\ e.block_offset > rd[r].block_offset
    BY <1>3, <1>5, <1>6, <1>7, <1>8, <1>15
  <2> QED
    BY <1>1, <1>3, <1>6, <1>10, <1>15, <2>1, ReadBlockMoves
<1> QED
  BY <1>2, <1>4, <1>11, <1>12, <1>13, <1>14, <1>15 DEF d

\* d has the card, the path and the sectors of the read, and is true of them.
Keeps(r, d) ==
  /\ d \in ReadFields
  /\ d.card = rd[r].card /\ d.path = rd[r].path /\ d.sectors = rd[r].sectors
  /\ Local(d, "none")

\* What the callbacks outside the sweep leave to the others.
NoSweep(r) ==
  /\ UNCHANGED mifare_key_cache
  /\ tag_protocol' \in {tag_protocol, rd[r].card.kind}
  /\ call[r] \notin SweepCalls

\* A call outside the sweep is sent.
LEMMA SendMoves ==
  ASSUME NEW r \in Reads, NEW d, Keeps(r, d), NoSweep(r),
         NEW c \in CallNames \ (SweepCalls \union {"tag_proxy"}),
         c = "get_all" => call[r] = "tag_proxy" /\ UNCHANGED tag_protocol,
         Send(r, d, c), UNCHANGED <<clientVars, reading>>
  PROVE  Moves(r)
<1>1. Goes(r, d, c) /\ UNCHANGED tag_json
  BY DEF Send, Goes, clientVars
<1>2. Local(d, c)
  BY DEF Keeps, Local, SweepCalls
<1>3. MovesTo(r, d, c)
  BY <1>1, <1>2 DEF MovesTo, Advances, NoSweep, Keeps
<1> QED
  BY <1>3 DEF Moves, CacheFollows, NoSweep, Keeps

\* The read finishes.
LEMMA FinishMoves ==
  ASSUME NEW r \in Reads, NEW d, Keeps(r, d), NoSweep(r), tag_read_finish(r, d)
  PROVE  Moves(r)
BY DEF Moves, CacheFollows, NoSweep, Keeps

\* tag_read_next_record() sends a call or finishes.
LEMMA NextRecordMoves ==
  ASSUME NEW r \in Reads, NEW d, Keeps(r, d), NoSweep(r),
         tag_read_next_record(r, d)
  PROVE  Moves(r)
<1>1. CASE Send(r, d, "ndef_proxy") /\ UNCHANGED <<clientVars, reading>>
  BY <1>1, SendMoves DEF CallNames, SweepCalls
<1>2. CASE Send(r, d, "raw_data_proxy") /\ UNCHANGED <<clientVars, reading>>
  BY <1>2, SendMoves DEF CallNames, SweepCalls
<1>3. CASE tag_read_finish(r, d)
  BY <1>3, FinishMoves
<1> QED
  BY <1>1, <1>2, <1>3 DEF tag_read_next_record, tag_read_raw_data

\* The sweep of an identified tag begins.
LEMMA FirstSectorMoves ==
  ASSUME NEW r \in Reads, NEW d, Keeps(r, d), NoSweep(r), SteadyTypeOK,
         tag_read_mifare_next_sector(r, d, mifare_key_cache)
  PROVE  Moves(r)
<1>1. PICK e \in ReadFields :
           /\ Same(d, e) /\ e.sector = d.sector
           /\ \/ Goes(r, e, "mifare_auth") /\ Shows(r, e)
              \/ tag_read_finish(r, e)
  BY NextSectorOutcome DEF SteadyTypeOK, Keeps
<1>2. Entries(e)
  <2>1. d.sector \in Int
    BY DEF Keeps, ReadFields
  <2> QED
    BY <1>1, <2>1, EntriesKept DEF Keeps, Local
<1>3. Local(e, "mifare_auth") /\ Local(e, "none")
  BY <1>1, <1>2 DEF Local, Keeps, Same
<1>4. e.card = rd[r].card /\ e.path = rd[r].path /\ e.sectors = rd[r].sectors
  BY <1>1 DEF Same, Keeps
<1>5. CASE tag_read_finish(r, e)
  BY <1>3, <1>4, <1>5 DEF Moves, CacheFollows, NoSweep
<1>6. CASE Goes(r, e, "mifare_auth") /\ Shows(r, e)
  <2>1. MovesTo(r, e, "mifare_auth")
    BY <1>3, <1>6 DEF MovesTo, Advances, NoSweep
  <2> QED
    BY <1>4, <2>1 DEF Moves, CacheFollows, NoSweep, CallNames
<1> QED
  BY <1>1, <1>5, <1>6

\* Nothing these callbacks store is about the sectors or the kind of the tag.
LEMMA KeepsNoting ==
  ASSUME NEW r, Before(r), NEW res
  PROVE  Keeps(r, rd[r]) /\ Keeps(r, Noting(rd[r], res))
<1>1. rd[r] \in ReadFields /\ Local(rd[r], call[r])
  BY DEF Before, TypeInv, TypeOK, ReadTypeOK, LocalInv
<1>2. Keeps(r, rd[r])
  BY <1>1 DEF Keeps, Local
<1> DEFINE d == Noting(rd[r], res)
<1>3. d \in ReadFields /\ Same(rd[r], d) /\ d.sector = rd[r].sector
  BY <1>1, NotingOutcome
<1> HIDE DEF d
<1>4. Entries(d)
  <2>1. d.sector \in Int
    BY <1>3 DEF ReadFields
  <2> QED
    BY <1>1, <1>3, <2>1, EntriesKept DEF Local
<1>5. Keeps(r, d)
  BY <1>1, <1>3, <1>4 DEF Keeps, Local, Same
<1> QED
  BY <1>2, <1>5 DEF d

\* Fields outside the sweep may change.
LEMMA KeepsOthers ==
  ASSUME NEW r, NEW d, Keeps(r, d), NEW e \in ReadFields, Same(d, e),
         e.sector = d.sector
  PROVE  Keeps(r, e)
<1>1. d.sector \in Int
  BY DEF Keeps, ReadFields
<1>2. Entries(e)
  BY <1>1, EntriesKept DEF Keeps, Local
<1> QED
  BY <1>2 DEF Keeps, Local, Same

\* tag_proxy_ready()
LEMMA TagProxyMoves ==
  ASSUME NEW r, Before(r), tag_proxy_ready(r)
  PROVE  (owned[r] /\ Moves(r)) \/ Drops(r)
<1>1. r \in Reads /\ call[r] = "tag_proxy"
  BY DEF tag_proxy_ready, Before
<1>2. CASE GiveUp(r)
  BY <1>1, <1>2, GiveUpDrops
<1>3. CASE ~owned[r] /\ Orphan(r)
  BY <1>1, <1>3, OrphanDrops
<1>4. CASE /\ owned[r] /\ Send(r, rd[r], "get_all")
           /\ UNCHANGED <<clientVars, steadyVars, reading>>
  <2>1. NoSweep(r)
    BY <1>1, <1>4 DEF NoSweep, SweepCalls, steadyVars
  <2> QED
    BY <1>1, <1>4, <2>1, KeepsNoting, SendMoves DEF CallNames, SweepCalls, steadyVars
<1> QED
  BY <1>2, <1>3, <1>4 DEF tag_proxy_ready

\* tag_get_all_ready()
LEMMA TagGetAllMoves ==
  ASSUME NEW r, Before(r), tag_get_all_ready(r)
  PROVE  (owned[r] /\ Moves(r)) \/ Drops(r)
<1>1. r \in Reads /\ call[r] = "get_all" /\ SteadyTypeOK
  BY DEF tag_get_all_ready, Before, TypeInv, TypeOK
<1> DEFINE d == [rd[r] EXCEPT !.is_type2 = (rd[r].card.kind = "type2")]
<1>2. Keeps(r, d)
  <2>1. rd[r] \in ReadFields /\ Entries(rd[r])
    BY DEF Before, TypeInv, TypeOK, ReadTypeOK, LocalInv, Local
  <2>2. /\ d \in ReadFields /\ d.card = rd[r].card /\ d.path = rd[r].path
        /\ d.sectors = rd[r].sectors /\ d.sector = rd[r].sector
        /\ d.is_type2 => rd[r].card.kind = "type2"
    BY <2>1 DEF ReadFields
  <2> HIDE DEF d
  <2>3. Entries(d)
    BY <2>1, <2>2 DEF Entries
  <2> QED
    BY <2>2, <2>3 DEF Keeps, Local
<1> HIDE DEF d
<1>3. CASE GiveUp(r)
  BY <1>1, <1>3, GiveUpDrops
<1>4. CASE ~owned[r] /\ Orphan(r)
  BY <1>1, <1>4, OrphanDrops
<1>5. CASE /\ owned[r] /\ tag_protocol' = rd[r].card.kind
           /\ \/ tag_read_mifare_next_sector(r, d, mifare_key_cache)
              \/ tag_read_next_record(r, d)
           /\ UNCHANGED mifare_key_cache
  <2>1. NoSweep(r)
    BY <1>1, <1>5 DEF NoSweep, SweepCalls
  <2> QED
    BY <1>1, <1>2, <1>5, <2>1, NextRecordMoves, FirstSectorMoves
<1> QED
  BY <1>3, <1>4, <1>5 DEF tag_get_all_ready, d

\* ndef_proxy_ready()
LEMMA NdefProxyMoves ==
  ASSUME NEW r, Before(r), ndef_proxy_ready(r)
  PROVE  (owned[r] /\ Moves(r)) \/ Drops(r)
<1>1. r \in Reads /\ call[r] = "ndef_proxy"
  BY DEF ndef_proxy_ready, Before
<1>2. PICK res \in Results(r) :
        IF ~owned[r] THEN Orphan(r)
        ELSE /\ IF res = "ok"
                  THEN /\ Send(r, Noting(rd[r], res), "ndef_get_all")
                       /\ UNCHANGED <<clientVars, reading>>
                  ELSE tag_read_next_record(r,
                         [Noting(rd[r], res) EXCEPT !.record_index = @ + 1])
             /\ UNCHANGED steadyVars
  BY DEF ndef_proxy_ready
<1> DEFINE d == Noting(rd[r], res)
           e == [d EXCEPT !.record_index = @ + 1]
<1>3. Keeps(r, d)
  BY KeepsNoting
<1> HIDE DEF d
<1>4. Keeps(r, e)
  <2>0. d.record_index + 1 \in Nat /\ d \in ReadFields
    BY <1>3 DEF Keeps, ReadFields
  <2>1. e \in ReadFields /\ Same(d, e) /\ e.sector = d.sector
    BY <2>0 DEF ReadFields, Same
  <2> HIDE DEF e
  <2> QED
    BY <1>3, <2>1, KeepsOthers
<1>5. CASE ~owned[r]
  BY <1>1, <1>2, <1>5, OrphanDrops
<1>6. CASE owned[r]
  <2>1. NoSweep(r)
    BY <1>1, <1>2, <1>6 DEF NoSweep, SweepCalls, steadyVars
  <2>2. CASE res = "ok"
    BY <1>1, <1>2, <1>3, <1>6, <2>1, <2>2, SendMoves DEF CallNames, SweepCalls, d
  <2>3. CASE res # "ok"
    <3>1. tag_read_next_record(r, e)
      BY <1>2, <1>6, <2>3 DEF d
    <3> HIDE DEF e
    <3> QED
      BY <1>1, <1>4, <1>6, <2>1, <3>1, NextRecordMoves
  <2> QED
    BY <2>2, <2>3
<1> QED
  BY <1>5, <1>6

\* ndef_get_all_ready()
LEMMA NdefGetAllMoves ==
  ASSUME NEW r, Before(r), ndef_get_all_ready(r)
  PROVE  (owned[r] /\ Moves(r)) \/ Drops(r)
<1> DEFINE D(res) == Noting(rd[r], res)
           E(res) == IF res = "ok"
                       THEN [D(res) EXCEPT
                               !.records = Append(@, D(res).record_index)]
                       ELSE D(res)
<1>1. r \in Reads /\ call[r] = "ndef_get_all"
  BY DEF ndef_get_all_ready, Before
<1>2. PICK res \in Results(r) :
        IF ~owned[r] THEN Orphan(r)
        ELSE /\ tag_read_next_record(r, [E(res) EXCEPT !.record_index = @ + 1])
             /\ UNCHANGED steadyVars
  BY DEF ndef_get_all_ready
<1> DEFINE d == D(res)
           e == IF res = "ok"
                  THEN [d EXCEPT !.records = Append(@, d.record_index)] ELSE d
           f == [e EXCEPT !.record_index = @ + 1]
<1>3. Keeps(r, d)
  BY KeepsNoting
<1>4. f = [E(res) EXCEPT !.record_index = @ + 1]
  OBVIOUS
<1> HIDE DEF D, E, d
<1>5. e \in ReadFields /\ Same(d, e) /\ e.sector = d.sector
  <2>1. d \in ReadFields /\ Append(d.records, d.record_index) \in Seq(Nat)
    BY <1>3 DEF Keeps, ReadFields
  <2> QED
    BY <2>1 DEF ReadFields, Same
<1> HIDE DEF e
<1>6. f \in ReadFields /\ Same(e, f) /\ f.sector = e.sector
  <2>1. e.record_index + 1 \in Nat
    BY <1>5 DEF ReadFields
  <2> QED
    BY <1>5, <2>1 DEF ReadFields, Same
<1> HIDE DEF f
<1>7. Keeps(r, f)
  BY <1>3, <1>5, <1>6, KeepsOthers DEF Same
<1>8. CASE ~owned[r]
  BY <1>1, <1>2, <1>8, OrphanDrops
<1>9. CASE owned[r]
  <2>1. NoSweep(r)
    BY <1>1, <1>2, <1>9 DEF NoSweep, SweepCalls, steadyVars
  <2> QED
    BY <1>1, <1>2, <1>4, <1>7, <1>9, <2>1, NextRecordMoves
<1> QED
  BY <1>8, <1>9

\* raw_data_proxy_ready()
LEMMA RawDataProxyMoves ==
  ASSUME NEW r, Before(r), raw_data_proxy_ready(r)
  PROVE  (owned[r] /\ Moves(r)) \/ Drops(r)
<1>1. r \in Reads /\ call[r] = "raw_data_proxy"
  BY DEF raw_data_proxy_ready, Before
<1>2. PICK res \in Results(r) :
        IF ~owned[r] THEN Orphan(r)
        ELSE /\ IF res = "ok"
                  THEN /\ Send(r, Noting(rd[r], res), "raw_data")
                       /\ UNCHANGED <<clientVars, reading>>
                  ELSE tag_read_finish(r, Noting(rd[r], res))
             /\ UNCHANGED steadyVars
  BY DEF raw_data_proxy_ready
<1>3. Keeps(r, Noting(rd[r], res))
  BY KeepsNoting
<1>4. CASE ~owned[r]
  BY <1>1, <1>2, <1>4, OrphanDrops
<1>5. CASE owned[r]
  <2>1. NoSweep(r)
    BY <1>1, <1>2, <1>5 DEF NoSweep, SweepCalls, steadyVars
  <2> QED
    BY <1>1, <1>2, <1>3, <1>5, <2>1, SendMoves, FinishMoves DEF CallNames, SweepCalls
<1> QED
  BY <1>4, <1>5

\* raw_data_ready()
LEMMA RawDataMoves ==
  ASSUME NEW r, Before(r), raw_data_ready(r)
  PROVE  (owned[r] /\ Moves(r)) \/ Drops(r)
<1>1. r \in Reads /\ call[r] = "raw_data"
  BY DEF raw_data_ready, Before
<1>2. PICK res \in Results(r) :
        IF ~owned[r] THEN Orphan(r)
        ELSE /\ tag_read_finish(r, [Noting(rd[r], res) EXCEPT !.raw = res = "ok"])
             /\ UNCHANGED steadyVars
  BY DEF raw_data_ready
<1> DEFINE d == Noting(rd[r], res)
           e == [d EXCEPT !.raw = (res = "ok")]
<1>3. Keeps(r, d)
  BY KeepsNoting
<1>4. owned[r] => tag_read_finish(r, e) /\ UNCHANGED steadyVars
  BY <1>2
<1> HIDE DEF d
<1>5. e \in ReadFields /\ Same(d, e) /\ e.sector = d.sector
  BY <1>3 DEF Keeps, ReadFields, Same
<1> HIDE DEF e
<1>6. Keeps(r, e)
  BY <1>3, <1>5, KeepsOthers
<1>7. CASE ~owned[r]
  BY <1>1, <1>2, <1>7, OrphanDrops
<1>8. CASE owned[r]
  <2>1. NoSweep(r)
    BY <1>1, <1>4, <1>8 DEF NoSweep, SweepCalls, steadyVars
  <2> QED
    BY <1>1, <1>4, <1>6, <1>8, <2>1, FinishMoves
<1> QED
  BY <1>7, <1>8

\* Every callback moves an owned read on or drops its read.
LEMMA CallbackOutcome ==
  ASSUME NEW r, Before(r), Callback(r)
  PROVE  (owned[r] /\ Moves(r)) \/ Drops(r)
BY TagProxyMoves, TagGetAllMoves, NdefProxyMoves, NdefGetAllMoves,
   RawDataProxyMoves, RawDataMoves, AuthReadyMoves, BlockReadyMoves
DEF Callback

-----------------------------------------------------------------------------
(* The invariant.                                                          *)

\* Memory no read uses is true of any card.
LEMMA BlankIsLocal ==
  /\ Local(Blank, "none") /\ Local(Blank, "tag_proxy") /\ Blank.sectors = <<>>
  /\ \A path, c : LET d == FreshRead(path, c) IN
       /\ Local(d, "tag_proxy") /\ d.sectors = <<>>
       /\ d.path = path /\ d.card = c
<1>1. ASSUME NEW path, NEW c, NEW d, d = FreshRead(path, c)
      PROVE  /\ Local(d, "none") /\ Local(d, "tag_proxy") /\ d.sectors = <<>>
             /\ d.path = path /\ d.card = c
  <2>1. /\ d.sectors = <<>> /\ d.is_type2 = FALSE /\ d.path = path /\ d.card = c
    BY <1>1 DEF FreshRead
  <2>2. Len(d.sectors) = 0
    BY <2>1
  <2> QED
    BY <2>1, <2>2 DEF Local, Entries
<1> QED
  BY <1>1 DEF Blank

\* Every read stays true of its own card.
LEMMA CallbackLocal ==
  ASSUME TypeInv, LocalInv, NEW r \in Reads, Moves(r) \/ Drops(r)
  PROVE  LocalInv'
<1>1. /\ rd \in [Reads -> ReadFields]
      /\ call \in [Reads -> CallNames \union {"none"}]
  BY DEF TypeInv, TypeOK, ReadTypeOK
<1>2. ASSUME NEW e, NEW c, Local(e, c), rd' = [rd EXCEPT ![r] = e],
             call' = [call EXCEPT ![r] = c]
      PROVE  LocalInv'
  <2>1. ASSUME NEW q \in Reads PROVE Local(rd'[q], call'[q])
    BY <1>1, <1>2 DEF LocalInv
  <2> QED
    BY <2>1 DEF LocalInv, Local, Entries, AtBlock, KeyFits
<1>3. CASE Drops(r)
  BY <1>2, <1>3, BlankIsLocal DEF Drops
<1>4. CASE Moves(r)
  <2>1. PICK e \in ReadFields :
          \/ \E c \in CallNames : MovesTo(r, e, c)
          \/ tag_read_finish(r, e) /\ Local(e, "none")
    BY <1>4 DEF Moves
  <2> QED
    BY <1>2, <2>1 DEF MovesTo, Goes, tag_read_finish, tag_read_free
<1> QED
  BY <1>3, <1>4

\* A callback runs on a live read; an owned one is the last, and the tag's.
LEMMA OwnedIsLast ==
  ASSUME TypeInv, PointerInv, Current, NEW r \in Reads, Callback(r)
  PROVE  /\ call[r] # "none"
         /\ owned[r] => /\ r = reading /\ r = nreads /\ reading # NULL
                        /\ tag_path # NoPath /\ rd[r].path = tag_path
<1>1. call[r] # "none"
  BY DEF Callback, tag_proxy_ready, tag_get_all_ready, ndef_proxy_ready,
     ndef_get_all_ready, raw_data_proxy_ready, raw_data_ready,
     mifare_auth_ready, mifare_block_read_ready
<1>2. owned[r] => r = reading
  BY <1>1 DEF PointerInv, NoDanglingRead, CallIffLive, OwnedIsReading
<1>3. r # NULL
  BY DEF Reads, NULL
<1> QED
  BY <1>1, <1>2, <1>3 DEF Current, InfoIsCurrent

\* Only the read of the tag in the field changes what is shown of it.
LEMMA CallbackCurrent ==
  ASSUME TypeInv, PointerInv, Current, NEW r \in Reads, Callback(r),
         (owned[r] /\ Moves(r)) \/ Drops(r)
  PROVE  Current'
<1>1. /\ rd \in [Reads -> ReadFields]
      /\ call \in [Reads -> CallNames \union {"none"}]
      /\ owned \in [Reads -> BOOLEAN]
  BY DEF TypeInv, TypeOK, ReadTypeOK
<1>2. CASE owned[r] /\ Drops(r)
  <2>1. tag_json = NoJson /\ tag_protocol = "none" /\ ~tag_is_type2
    BY <1>2 DEF Drops, Current, Unidentified
  <2>2. /\ reading' = NULL
        /\ UNCHANGED <<tag_path, tag_json, tag_protocol, tag_is_type2, nreads, owned>>
    BY <1>2 DEF Drops, clientVars, steadyVars
  <2> QED
    BY <2>1, <2>2 DEF Current, InfoIsCurrent, TagIsRead, Unidentified, ShowsSectors
<1>3. CASE ~owned[r] /\ Drops(r)
  <2>1. UNCHANGED <<tag_path, tag_json, tag_protocol, tag_is_type2, nreads, owned,
                    reading>>
    BY <1>3 DEF Drops, clientVars, steadyVars
  <2>2. /\ rd' = [rd EXCEPT ![r] = Blank]
        /\ call' = [call EXCEPT ![r] = "none"]
    BY <1>3 DEF Drops
  <2>3. Unidentified'
    BY <1>1, <2>1, <2>2 DEF Current, Unidentified
  <2>4. TagIsRead'
    BY <2>1 DEF Current, TagIsRead
  <2>5. CASE tag_path = NoPath
    BY <2>1, <2>3, <2>4, <2>5 DEF Current, InfoIsCurrent, TagIsRead, ShowsSectors
  <2>6. CASE tag_path # NoPath
    <3>1. nreads \in Reads /\ nreads # r
      BY <1>3, <2>6 DEF Current, TagIsRead
    <3>2. rd'[nreads] = rd[nreads]
      BY <1>1, <2>2, <3>1
    <3>3. reading # NULL => rd'[reading] = rd[reading]
      BY <3>2 DEF Current, InfoIsCurrent
    <3> QED
      BY <2>1, <2>3, <2>4, <3>2, <3>3 DEF Current, InfoIsCurrent, ShowsSectors
  <2> QED
    BY <2>5, <2>6
<1>4. CASE owned[r] /\ Moves(r)
  <2>1. /\ r = reading /\ r = nreads /\ reading # NULL
        /\ tag_path # NoPath /\ rd[r].path = tag_path
    BY <1>4, OwnedIsLast
  <2>2. PICK e \in ReadFields :
          /\ e.card = rd[r].card /\ e.path = rd[r].path
          /\ \/ \E c \in CallNames : MovesTo(r, e, c)
             \/ tag_read_finish(r, e) /\ Local(e, "none")
          /\ CacheFollows(rd[r], e)
          /\ tag_protocol' \in {tag_protocol, e.card.kind}
    BY <1>4 DEF Moves
  <2>3. rd' = [rd EXCEPT ![r] = e] /\ UNCHANGED <<tag_path, nreads, owned>>
    BY <2>2 DEF MovesTo, Goes, tag_read_finish, tag_read_free
  <2>4. rd'[r] = e
    BY <1>1, <2>3
  <2>5. TagIsRead'
    BY <2>1, <2>3 DEF Current, TagIsRead
  <2>6. tag_protocol' # "none" => tag_protocol' = e.card.kind
    BY <2>1, <2>2 DEF Current, InfoIsCurrent
  <2>7. CASE tag_read_finish(r, e) /\ Local(e, "none")
    <3>1. /\ tag_json' = [read |-> r, path |-> e.path, scanning |-> FALSE,
                          records |-> e.records, raw |-> e.raw,
                          sectors |-> e.sectors]
          /\ tag_is_type2' = e.is_type2 /\ reading' = NULL
          /\ call' = [call EXCEPT ![r] = "none"]
      BY <2>7 DEF tag_read_finish, tag_read_free
    <3>2. /\ tag_json'.read = r /\ tag_json'.path = e.path
          /\ tag_json'.scanning = FALSE /\ tag_json'.sectors = e.sectors
      BY <3>1
    <3>3. tag_json' # NoJson
      BY <2>1, <3>2 DEF NoJson
    <3>4. Unidentified'
      <4> SUFFICES ASSUME NEW q \in Reads, owned[q],
                          call'[q] \in {"tag_proxy", "get_all"}
                   PROVE  FALSE
        BY <2>3 DEF Unidentified
      <4>1. q # r
        BY <1>1, <3>1
      <4>2. call[q] # "none"
        BY <1>1, <3>1, <4>1
      <4> QED
        BY <2>1, <4>1, <4>2
        DEF PointerInv, NoDanglingRead, CallIffLive, OwnedIsReading
    <3>5. tag_is_type2' => e.card.kind = "type2"
      BY <2>7, <3>1 DEF Local
    <3> QED
      BY <2>1, <2>2, <2>3, <2>4, <2>5, <2>6, <3>1, <3>2, <3>3, <3>4, <3>5
      DEF Current, InfoIsCurrent, ShowsSectors
  <2>8. ASSUME NEW c \in CallNames, MovesTo(r, e, c) PROVE Current'
    <3>1. /\ UNCHANGED <<reading, tag_is_type2>>
          /\ call' = [call EXCEPT ![r] = c]
      BY <2>8 DEF MovesTo, Goes
    <3>2. Unidentified'
      <4> SUFFICES ASSUME NEW q \in Reads, owned[q],
                          call'[q] \in {"tag_proxy", "get_all"}
                   PROVE  tag_json' = NoJson /\ tag_protocol' = "none" /\ ~tag_is_type2'
        BY <2>3 DEF Unidentified
      <4>1. q = r
        BY <1>1, <2>1, <3>1
        DEF PointerInv, NoDanglingRead, CallIffLive, OwnedIsReading
      <4>2. c = "get_all" /\ call[r] = "tag_proxy"
        BY <1>1, <2>8, <3>1, <4>1 DEF MovesTo
      <4> QED
        BY <2>8, <3>1, <4>1, <4>2 DEF MovesTo, Current, Unidentified
    <3>3. CASE Shows(r, e)
      <4>1. /\ tag_json'.read = r /\ tag_json'.path = e.path
            /\ tag_json'.scanning = TRUE /\ tag_json'.sectors = e.sectors
        BY <3>3 DEF Shows
      <4>2. tag_json' # NoJson
        BY <2>1, <4>1 DEF NoJson
      <4>3. tag_is_type2' => e.card.kind = "type2"
        BY <2>1, <2>2, <3>1 DEF Current, InfoIsCurrent
      <4> QED
        BY <2>1, <2>2, <2>3, <2>4, <2>5, <2>6, <3>1, <3>2, <4>1, <4>2, <4>3
        DEF Current, InfoIsCurrent, ShowsSectors
    <3>4. CASE UNCHANGED tag_json /\ e.sectors = rd[r].sectors
      BY <2>1, <2>2, <2>3, <2>4, <2>5, <2>6, <3>1, <3>2, <3>4
      DEF Current, InfoIsCurrent, ShowsSectors
    <3> QED
      BY <2>8, <3>3, <3>4 DEF MovesTo
  <2> QED
    BY <2>2, <2>7, <2>8
<1> QED
  BY <1>2, <1>3, <1>4

\* Storing the key of a later sector leaves the earlier ones in the cache.
LEMMA CallbackCached ==
  ASSUME TypeInv, PointerInv, LocalInv, Current, Cached, NEW r \in Reads,
         Callback(r), (owned[r] /\ Moves(r)) \/ Drops(r)
  PROVE  Cached'
<1>1. /\ rd \in [Reads -> ReadFields]
      /\ mifare_key_cache \in [Uids -> [Sectors -> Keys \union {NoKey}]]
  BY DEF TypeInv, TypeOK, ReadTypeOK, SteadyTypeOK
<1>2. CASE Drops(r)
  <2>1. /\ UNCHANGED <<tag_path, nreads, mifare_key_cache>>
        /\ rd' = [rd EXCEPT ![r] = Blank]
    BY <1>2 DEF Drops, clientVars, steadyVars
  <2> SUFFICES ASSUME tag_path # NoPath PROVE Cached'
    BY <2>1 DEF Cached
  <2>2. nreads \in Reads
    BY DEF Current, TagIsRead
  <2>3. CASE r = nreads
    <3>1. rd'[nreads'] = Blank
      BY <1>1, <2>1, <2>3
    <3>2. Len(rd'[nreads'].sectors) = 0
      BY <3>1, BlankIsLocal
    <3> QED
      BY <3>2 DEF Cached
  <2>4. CASE r # nreads
    <3>1. rd'[nreads'] = rd[nreads]
      BY <1>1, <2>1, <2>2, <2>4
    <3> QED
      BY <2>1, <3>1 DEF Cached
  <2> QED
    BY <2>3, <2>4
<1>3. CASE owned[r] /\ Moves(r)
  <2>1. r = nreads /\ tag_path # NoPath
    BY <1>3, OwnedIsLast
  <2>2. PICK e \in ReadFields :
          /\ e.card = rd[r].card
          /\ \/ \E c \in CallNames : MovesTo(r, e, c)
             \/ tag_read_finish(r, e)
          /\ CacheFollows(rd[r], e)
    BY <1>3 DEF Moves
  <2>3. rd' = [rd EXCEPT ![r] = e] /\ UNCHANGED <<tag_path, nreads>>
    BY <2>2 DEF MovesTo, Goes, tag_read_finish, tag_read_free
  <2>4. rd'[nreads'] = e
    BY <1>1, <2>1, <2>3
  <2> DEFINE d == rd[r]
             s == d.sectors
             u == d.card.uid
  <2> SUFFICES ASSUME u # NoUid, NEW i \in 1..Len(e.sectors)
               PROVE  mifare_key_cache'[u][e.sectors[i].sector] = e.sectors[i].key
    BY <2>2, <2>4 DEF Cached
  <2>5. /\ d \in ReadFields /\ s \in Seq(SectorEntry) /\ u \in Uids
        /\ Entries(d) /\ d.sector \in Int
    <3>1. d \in ReadFields /\ Entries(d)
      BY <1>1 DEF LocalInv, Local
    <3>2. s \in Seq(SectorEntry) /\ d.card \in Cards /\ d.sector \in Int
      BY <3>1, SMTT(20) DEF ReadFields
    <3>3. u \in Uids
      BY <3>2, CardsAssumption DEF Card
    <3> QED
      BY <3>1, <3>2, <3>3
  <2>6. \A j \in 1..Len(s) :
          /\ mifare_key_cache[u][s[j].sector] = s[j].key
          /\ s[j].sector \in Sectors /\ s[j].sector # d.sector
    <3> SUFFICES ASSUME NEW j \in 1..Len(s)
                 PROVE  /\ mifare_key_cache[u][s[j].sector] = s[j].key
                        /\ s[j].sector \in Sectors /\ s[j].sector # d.sector
      OBVIOUS
    <3>1. mifare_key_cache[u][s[j].sector] = s[j].key
      BY <2>1 DEF Cached
    <3>2. s[j].sector \in Sectors /\ s[j].sector \in Int
      BY <2>5, EntryType
    <3>3. s[j].sector < d.sector
      BY <2>5 DEF Entries
    <3> QED
      BY <2>5, <3>1, <3>2, <3>3
  <2> HIDE DEF s, u, d
  <2>7. CASE e.sectors = s /\ UNCHANGED mifare_key_cache
    BY <2>6, <2>7
  <2>8. CASE /\ \E x \in SectorEntry : /\ x.sector = d.sector /\ x.key = d.key
                                       /\ e.sectors = Append(s, x)
             /\ mifare_cache_store(u, d.sector, d.key)
    <3>1. PICK x \in SectorEntry : /\ x.sector = d.sector /\ x.key = d.key
                                   /\ e.sectors = Append(s, x)
      BY <2>8
    <3>2. mifare_key_cache' = [mifare_key_cache EXCEPT ![u][d.sector] = d.key]
      BY <2>8 DEF mifare_cache_store
    <3>3. d.sector \in Sectors
      BY <3>1 DEF SectorEntry
    <3>4. /\ mifare_key_cache'[u][d.sector] = d.key
          /\ \A t \in Sectors : t # d.sector =>
               mifare_key_cache'[u][t] = mifare_key_cache[u][t]
      BY <1>1, <2>5, <3>2, <3>3
    <3>5. /\ Len(s) \in Nat /\ Len(e.sectors) = Len(s) + 1
          /\ \A j \in 1..Len(s) : e.sectors[j] = s[j]
          /\ e.sectors[Len(s) + 1] = x
      BY <2>5, <3>1
    <3>6. CASE i \in 1..Len(s)
      <4>1. /\ e.sectors[i] = s[i] /\ s[i].sector \in Sectors
            /\ s[i].sector # d.sector /\ mifare_key_cache[u][s[i].sector] = s[i].key
        BY <2>6, <3>5, <3>6
      <4> QED
        BY <3>4, <4>1
    <3>7. CASE i = Len(s) + 1
      BY <3>1, <3>4, <3>5, <3>7
    <3> QED
      BY <3>5, <3>6, <3>7
  <2> QED
    BY <2>2, <2>7, <2>8 DEF CacheFollows, d, s, u
<1> QED
  BY <1>2, <1>3

\* update_tags() starts over with the new tag, or with none.
LEMMA UpdateTagsReport ==
  ASSUME TypeInv, PointerInv, ReportInv, update_tags
  PROVE  ReportInv'
<1>1. PICK path \in Paths \union {NoPath}, c \in Cards :
        /\ set_current_tag(path, c)
        /\ path # NoPath => nreads < MaxReads
  BY ConstantsAssumption DEF update_tags
<1>2. CASE tag_path = path
  <2>1. UNCHANGED vars
    BY <1>1, <1>2 DEF set_current_tag
  <2> QED
    BY <2>1 DEF vars, clientVars, steadyVars, readVars, ReportInv, LocalInv,
       Current, InfoIsCurrent, TagIsRead, Unidentified, ShowsSectors, Cached
<1>3. CASE tag_path # path
  <2>1. /\ tag_path' = path /\ tag_is_type2' = FALSE /\ tag_protocol' = "none"
        /\ tag_json' = NoJson
    BY <1>1, <1>3 DEF set_current_tag
  <2>2. Unidentified' /\ ShowsSectors'
    BY <2>1 DEF Unidentified, ShowsSectors
  <2>3. CASE path = NoPath
    <3>1. reading' = NULL /\ UNCHANGED <<nreads, mem, call, rd>>
      BY <1>1, <1>3, <2>3 DEF set_current_tag
    <3>2. LocalInv'
      BY <3>1 DEF ReportInv, LocalInv
    <3>3. InfoIsCurrent' /\ TagIsRead' /\ Cached'
      BY <2>1, <2>3, <3>1 DEF InfoIsCurrent, TagIsRead, Cached
    <3> QED
      BY <2>2, <3>2, <3>3 DEF ReportInv, Current
  <2>4. CASE path # NoPath
    <3> DEFINE n == nreads + 1
               f == FreshRead(path, c)
    <3>0. /\ rd \in [Reads -> ReadFields]
          /\ call \in [Reads -> CallNames \union {"none"}]
          /\ owned \in [Reads -> BOOLEAN] /\ nreads \in 0..MaxReads
      BY DEF TypeInv, TypeOK, ReadTypeOK
    <3>1. n \in Reads /\ n > nreads /\ n # NULL
      BY <1>1, <2>4, <3>0, ConstantsAssumption DEF Reads, NULL
    <3>2. /\ nreads' = n /\ reading' = n
          /\ call' = [call EXCEPT ![n] = "tag_proxy"]
          /\ rd' = [rd EXCEPT ![n] = f]
      BY <1>1, <1>3, <2>4 DEF set_current_tag, tag_read_start
    <3>3. owned[n] /\ reading # n
      <4>1. owned[n] /\ mem[n] = "unallocated"
        BY <3>1 DEF PointerInv, FreshIsOwned
      <4> QED
        BY <3>1, <4>1 DEF PointerInv, NoDanglingRead, ReadingIsLive
    <3>4. owned'[n]
      BY <1>1, <1>3, <3>0, <3>1, <3>3 DEF set_current_tag, tag_read_abort
    <3> HIDE DEF n, f
    <3>5. /\ Local(f, "tag_proxy") /\ f.sectors = <<>> /\ f.path = path
      BY BlankIsLocal DEF f
    <3>6. rd'[n] = f
      BY <3>0, <3>1, <3>2
    <3>7. LocalInv'
      <4>1. ASSUME NEW q \in Reads PROVE Local(rd'[q], call'[q])
        BY <3>0, <3>2, <3>5 DEF ReportInv, LocalInv
      <4> QED
        BY <4>1 DEF LocalInv, Local, Entries, AtBlock, KeyFits
    <3>8. Cached'
      <4>1. Len(rd'[nreads'].sectors) = 0
        BY <3>2, <3>5, <3>6
      <4> QED
        BY <4>1 DEF Cached
    <3>9. InfoIsCurrent' /\ TagIsRead'
      BY <2>1, <2>4, <3>1, <3>2, <3>4, <3>5, <3>6 DEF InfoIsCurrent, TagIsRead
    <3> QED
      BY <2>2, <3>7, <3>8, <3>9 DEF ReportInv, Current
  <2> QED
    BY <2>3, <2>4
<1> QED
  BY <1>2, <1>3

\* nfcd_client_create(): no tag, no read, an empty cache.
LEMMA InitReport ==
  ASSUME Init PROVE ReportInv
<1>1. LocalInv
  BY BlankIsLocal DEF Init, LocalInv
<1>2. Current
  BY DEF Init, Current, InfoIsCurrent, TagIsRead, Unidentified, ShowsSectors
<1>3. Cached
  BY DEF Init, Cached
<1> QED
  BY <1>1, <1>2, <1>3 DEF ReportInv

\* ReportInv is inductive, given the types and the pointers.
LEMMA NextReport ==
  ASSUME TypeInv, PointerInv, ReportInv, [Next]_vars PROVE ReportInv'
<1>1. CASE UNCHANGED vars
  BY <1>1 DEF vars, clientVars, steadyVars, readVars, ReportInv, LocalInv,
     Current, InfoIsCurrent, TagIsRead, Unidentified, ShowsSectors, Cached
<1>2. ASSUME NEW r \in Reads, Callback(r) PROVE ReportInv'
  <2>1. (owned[r] /\ Moves(r)) \/ Drops(r)
    BY <1>2, CallbackOutcome DEF Before, PointerInv, ReportInv
  <2> QED
    BY <1>2, <2>1, CallbackLocal, CallbackCurrent, CallbackCached DEF ReportInv
<1> QED
  BY <1>1, <1>2, UpdateTagsReport DEF Next

\* The three invariants together, as the theorems below use them.
ReadInv == TypeInv /\ PointerInv /\ ReportInv

\* Every reachable state satisfies all three.
LEMMA ReadInvariant == Spec => []ReadInv
<1>1. Init => ReadInv
  BY InitType, InitPointers, InitReport DEF ReadInv
<1>2. ReadInv /\ [Next]_vars => ReadInv'
  BY NextType, NextPointers, NextReport DEF ReadInv, TypeInv
<1> QED
  BY <1>1, <1>2, PTL DEF Spec

-----------------------------------------------------------------------------
(* The theorems.                                                           *)

(***************************************************************************)
(* However tags come and go while reads are in flight, tag_json, tag_path, *)
(* tag_is_type2 and tag_protocol are about the tag now in the field, and   *)
(* nothing is left of one that has gone (set_current_tag(),                *)
(* tag_read_finish(), tag_get_all_ready()).                                *)
(***************************************************************************)
THEOREM InfoFollowsTag == Spec => []InfoIsCurrent
<1>1. ReadInv => InfoIsCurrent
  BY DEF ReadInv, ReportInv, Current
<1> QED
  BY <1>1, ReadInvariant, PTL

(***************************************************************************)
(* What a sweep publishes is true of the card, for any number of sectors   *)
(* and default keys, whichever calls fail and whatever an earlier tap left *)
(* in the key cache (mifare_sector_done(), mifare_publish_progress()).     *)
(***************************************************************************)
THEOREM SweepTellsTruth == Spec => []SweepIsSound
<1>1. ReadInv => SweepIsSound
  <2> SUFFICES ASSUME ReadInv, tag_json # NoJson PROVE SweepIsSound
    BY DEF SweepIsSound
  <2>1. /\ tag_path # NoPath /\ tag_json.read = nreads /\ nreads \in Reads
        /\ tag_json.sectors = rd[nreads].sectors
    BY DEF ReadInv, ReportInv, Current, InfoIsCurrent, TagIsRead, ShowsSectors
  <2>2. Entries(rd[nreads])
    BY <2>1 DEF ReadInv, ReportInv, LocalInv, Local
  <2>3. rd[nreads].sectors \in Seq(SectorEntry)
    BY <2>1 DEF ReadInv, TypeInv, TypeOK, ReadTypeOK, ReadFields
  <2>4. DOMAIN tag_json.sectors = 1..Len(rd[nreads].sectors)
    BY <2>1, <2>3
  <2> QED
    BY <2>1, <2>2, <2>4 DEF SweepIsSound, Entries, ReadInv, ReportInv, Cached
<1> QED
  BY <1>1, ReadInvariant, PTL

\* Block o of the q-th sector of size k belongs to that sector.
LEMMA DivideBlock ==
  ASSUME NEW k \in Nat \ {0}, NEW q \in Nat, NEW o \in Nat, o < k
  PROVE  (q * k + o) \div k = q
BY SMT

\* A block of a sector lies in it: SectorOf inverts
\* mifare_sector_first_block() and mifare_sector_block_count().
LEMMA BlockInSector ==
  ASSUME NEW s \in Nat, NEW o \in Nat, o < mifare_sector_block_count(s)
  PROVE  SectorOf(mifare_sector_first_block(s) + o) = s
<1>0. /\ SmallBlocks \in Nat \ {0} /\ LargeBlocks \in Nat \ {0}
      /\ SmallSectors \in Nat
  BY ConstantsAssumption
<1>1. CASE s < SmallSectors
  <2>1. /\ mifare_sector_first_block(s) = s * SmallBlocks /\ o < SmallBlocks
    BY <1>1 DEF mifare_sector_first_block, mifare_sector_block_count
  <2>2. (s * SmallBlocks + o) \div SmallBlocks = s
    BY <1>0, <2>1, DivideBlock
  <2>3. s * SmallBlocks + o < SmallSectors * SmallBlocks
    <3>1. s * SmallBlocks + o < (s + 1) * SmallBlocks
      BY <1>0, <2>1
    <3>2. (s + 1) * SmallBlocks <= SmallSectors * SmallBlocks
      BY <1>0, <1>1
    <3> QED
      BY <1>0, <3>1, <3>2
  <2> QED
    BY <2>1, <2>2, <2>3 DEF SectorOf
<1>2. CASE ~(s < SmallSectors)
  <2> DEFINE q == s - SmallSectors
             base == SmallSectors * SmallBlocks
  <2>1. /\ mifare_sector_first_block(s) = base + q * LargeBlocks
        /\ o < LargeBlocks
    BY <1>2 DEF mifare_sector_first_block, mifare_sector_block_count
  <2>2. q \in Nat /\ base \in Nat /\ q * LargeBlocks \in Nat
    BY <1>0, <1>2
  <2>3. (q * LargeBlocks + o) \div LargeBlocks = q
    BY <1>0, <2>1, <2>2, DivideBlock
  <2> DEFINE t == q * LargeBlocks
  <2>4. base + t + o >= base /\ (base + t + o) - base = t + o
    <3> HIDE DEF t, base
    <3> QED
      BY <2>2 DEF t, base
  <2>5. SmallSectors + q = s
    BY <1>0
  <2>6. SectorOf(base + t + o) = SmallSectors + (t + o) \div LargeBlocks
    <3>1. ASSUME NEW b \in Nat, b >= SmallSectors * SmallBlocks
          PROVE  SectorOf(b) = SmallSectors
                               + (b - SmallSectors * SmallBlocks) \div LargeBlocks
      <4>1. ~(b < SmallSectors * SmallBlocks)
        BY <1>0, <2>2, <3>1
      <4> QED
        BY <4>1, Zenon DEF SectorOf
    <3>2. base + t + o \in Nat
      <4> HIDE DEF t, base
      <4> QED
        BY <2>2 DEF t, base
    <3> QED
      BY <2>4, <3>1, <3>2, Zenon
  <2> QED
    BY <2>1, <2>3, <2>5, <2>6
<1> QED
  BY <1>1, <1>2

(***************************************************************************)
(* Every READ addresses a block of the sector just authenticated, for any  *)
(* geometry of the card (mifare_sector_first_block(),                      *)
(* mifare_sector_block_count(), mifare_read_block()).                      *)
(***************************************************************************)
THEOREM BlocksOfOwnSector == Spec => []ReadsOwnSector
<1>1. ReadInv => ReadsOwnSector
  <2> SUFFICES ASSUME ReadInv, NEW r \in Reads, call[r] = "mifare_block"
               PROVE  SectorOf(rd[r].block) = rd[r].sector
    BY DEF ReadsOwnSector
  <2>1. AtBlock(rd[r])
    BY DEF ReadInv, ReportInv, LocalInv, Local
  <2>2. rd[r].block_offset \in Nat /\ rd[r].sector \in Nat
    BY DEF ReadInv, TypeInv, TypeOK, ReadTypeOK, ReadFields
  <2> QED
    BY <2>1, <2>2, BlockInSector DEF AtBlock
<1> QED
  BY <1>1, ReadInvariant, PTL

(***************************************************************************)
(* The sweep never goes back, whatever nfcd answers: every step of it is   *)
(* at a later sector, at a later key of the sector, or at a later block    *)
(* (mifare_auth_ready(), mifare_block_read_ready()).                       *)
(***************************************************************************)
THEOREM SweepNeverReturns == Spec => SweepAdvances
<1> DEFINE A == \A r \in Reads :
                  LET mifare == {"mifare_auth", "mifare_block"}
                  IN  /\ call[r] \in mifare
                      /\ call'[r] \in mifare
                      /\ <<call[r], rd[r]>> # <<call'[r], rd'[r]>>
                      => LexLess(SweepRank(rd[r], call[r]),
                                 SweepRank(rd'[r], call'[r]))
<1>1. ReadInv /\ [Next]_vars => [A]_vars
  <2> SUFFICES ASSUME ReadInv, Next, NEW q \in Reads,
                      call[q] \in SweepCalls, call'[q] \in SweepCalls,
                      <<call[q], rd[q]>> # <<call'[q], rd'[q]>>
               PROVE  LexLess(SweepRank(rd[q], call[q]),
                              SweepRank(rd'[q], call'[q]))
    BY DEF SweepCalls
  <2>0. /\ rd \in [Reads -> ReadFields]
        /\ call \in [Reads -> CallNames \union {"none"}]
        /\ nreads \in 0..MaxReads
    BY DEF ReadInv, TypeInv, TypeOK, ReadTypeOK
  <2>1. CASE update_tags
    <3>1. PICK path \in Paths \union {NoPath}, c \in Cards :
            set_current_tag(path, c)
      BY <2>1, ConstantsAssumption DEF update_tags
    <3>2. \/ UNCHANGED <<call, rd>>
          \/ /\ call' = [call EXCEPT ![nreads + 1] = "tag_proxy"]
             /\ rd' = [rd EXCEPT ![nreads + 1] = FreshRead(path, c)]
      BY <3>1 DEF set_current_tag, tag_read_start, vars, readVars
    <3> QED
      BY <2>0, <3>2 DEF SweepCalls
  <2>2. ASSUME NEW r \in Reads, Callback(r)
        PROVE  LexLess(SweepRank(rd[q], call[q]), SweepRank(rd'[q], call'[q]))
    <3>1. Moves(r) \/ Drops(r)
      BY <2>2, CallbackOutcome DEF Before, ReadInv, PointerInv, ReportInv
    <3>2. CASE Drops(r)
      BY <2>0, <3>2 DEF Drops, SweepCalls
    <3>3. CASE Moves(r)
      <4>1. PICK e \in ReadFields :
              \/ \E c \in CallNames : MovesTo(r, e, c)
              \/ tag_read_finish(r, e)
        BY <3>3 DEF Moves
      <4>2. CASE tag_read_finish(r, e)
        BY <2>0, <4>2 DEF tag_read_finish, tag_read_free, SweepCalls
      <4>3. ASSUME NEW c \in CallNames, MovesTo(r, e, c)
            PROVE  LexLess(SweepRank(rd[q], call[q]), SweepRank(rd'[q], call'[q]))
        <5>1. /\ call' = [call EXCEPT ![r] = c] /\ rd' = [rd EXCEPT ![r] = e]
              /\ Advances(rd[r], call[r], e, c)
          BY <4>3 DEF MovesTo, Goes
        <5>2. q = r
          BY <2>0, <5>1
        <5>3. call'[r] = c /\ rd'[r] = e
          BY <2>0, <5>1
        <5> QED
          BY <5>1, <5>2, <5>3 DEF Advances
      <4> QED
        BY <4>1, <4>2, <4>3
    <3> QED
      BY <3>1, <3>2, <3>3
  <2> QED
    BY <2>1, <2>2 DEF Next
<1> QED
  BY <1>1, ReadInvariant, PTL DEF Spec, SweepAdvances

-----------------------------------------------------------------------------
(***************************************************************************)
(* A read misses nothing: when every call the tag could answer was         *)
(* answered, a finished read has every record, the raw data of a Type 2    *)
(* tag and all of every MIFARE sector a default key opens, whatever keys   *)
(* earlier taps left in the cache.                                         *)
(*                                                                         *)
(* The invariant follows a read along its calls.  In the sweep it says     *)
(* that the sectors behind have been dealt with and that the key that      *)
(* opens the sector at hand, if there is one, is still to come: a cached   *)
(* key that no longer fits costs nothing, because the default keys are     *)
(* then tried from the first.                                              *)
(***************************************************************************)

\* The sectors before d.sector that a key opens are reported in full.
Found(d) ==
  /\ \A s \in Sectors : s < d.sector /\ d.card.keys[s] # NoKey =>
       \E i \in 1..Len(d.sectors) : d.sectors[i] = FullEntry(d.card, s)
  /\ \A i \in 1..Len(d.sectors) :
       d.sectors[i].blocks = mifare_sector_block_count(d.sectors[i].sector)

\* The key that opens the sector at hand has not been passed over.
KeyAhead(d) ==
  /\ d.cached_attempt => d.key_index = 0
  /\ ~d.cached_attempt => d.key = d.key_index
  /\ d.card.keys[d.sector] # NoKey => d.key_index <= d.card.keys[d.sector]

\* The records before record_index have been read.
RecordsRead(d) ==
  /\ d.card.kind # "mifare"
  /\ d.is_type2 = (d.card.kind = "type2")
  /\ d.records = [i \in 1..d.record_index |-> i - 1]
  /\ d.record_index <= d.card.nrec
  /\ ~d.raw

\* What has been found when the outstanding call is c and none went wrong.
SoFar(d, c) ==
  /\ c \in {"tag_proxy", "get_all"} =>
       /\ d.records = <<>> /\ d.record_index = 0 /\ ~d.raw
       /\ d.sectors = <<>> /\ d.sector = 0
  /\ c \in {"ndef_proxy", "ndef_get_all"} =>
       RecordsRead(d) /\ d.record_index < d.card.nrec
  /\ c \in {"raw_data_proxy", "raw_data"} =>
       RecordsRead(d) /\ d.record_index = d.card.nrec /\ d.is_type2
  /\ c \in SweepCalls => d.card.kind = "mifare" /\ Found(d) /\ KeyAhead(d)

\* All there is has been found.
Everything(d) ==
  IF d.card.kind = "mifare"
    THEN {d.sectors[i] : i \in DOMAIN d.sectors} = AllEntries(d.card)
    ELSE /\ d.records = [i \in 1..d.card.nrec |-> i - 1]
         /\ d.raw = (d.card.kind = "type2")

SoFarInv == \A r \in Reads : ~rd[r].glitch => SoFar(rd[r], call[r])

\* A tag shown as read carries what its read found, and that is everything.
ShownInFull ==
  tag_json # NoJson /\ ~tag_json.scanning =>
    /\ tag_json.records = rd[nreads].records /\ tag_json.raw = rd[nreads].raw
    /\ ~rd[nreads].glitch => Everything(rd[nreads])

CompleteInv == SoFarInv /\ ShownInFull

-----------------------------------------------------------------------------
(* What the helpers of the callbacks do.                                   *)

\* The read goes on with e and c, or finishes with e, and misses nothing.
GoesOn(r, e, c) ==
  /\ rd' = [rd EXCEPT ![r] = e]
  /\ call' = [call EXCEPT ![r] = c]
  /\ ~e.glitch => SoFar(e, c)
  /\ UNCHANGED tag_json \/ tag_json'.scanning

Proceeds(r) ==
  \E e \in ReadFields :
    \/ \E c \in CallNames : GoesOn(r, e, c)
    \/ tag_read_finish(r, e) /\ (~e.glitch => Everything(e))

\* The keys of a card are default keys, or NoKey.
LEMMA CardKeys ==
  ASSUME NEW d \in ReadFields, NEW s \in Sectors
  PROVE  d.card.keys[s] \in Keys \union {NoKey}
<1>1. d.card \in Card
  BY CardsAssumption DEF ReadFields
<1> QED
  BY <1>1 DEF Card

\* A key is sent.
LEMMA SendAuthProceeds ==
  ASSUME NEW r \in Reads, NEW d \in ReadFields, d.sector \in Sectors,
         NEW k \in Keys, mifare_send_auth(r, d, k),
         ~d.glitch => /\ d.card.kind = "mifare" /\ Found(d)
                      /\ d.cached_attempt => d.key_index = 0
                      /\ ~d.cached_attempt => k = d.key_index
                      /\ d.card.keys[d.sector] # NoKey =>
                           d.key_index <= d.card.keys[d.sector],
         UNCHANGED tag_json \/ tag_json'.scanning
  PROVE  Proceeds(r)
<1> DEFINE b == mifare_sector_first_block(d.sector)
           e == [d EXCEPT !.key = k, !.block = b]
<1>1. b \in Nat
  BY FirstBlockType
<1>2. /\ e \in ReadFields /\ e.card = d.card /\ e.sector = d.sector
      /\ e.sectors = d.sectors /\ e.glitch = d.glitch /\ e.key = k
      /\ e.cached_attempt = d.cached_attempt /\ e.key_index = d.key_index
  <2> HIDE DEF b
  <2> QED
    BY <1>1 DEF ReadFields
<1>3. /\ rd' = [rd EXCEPT ![r] = e]
      /\ call' = [call EXCEPT ![r] = "mifare_auth"]
  BY DEF mifare_send_auth, Send
<1> HIDE DEF e
<1>4. ~e.glitch => Found(e) /\ KeyAhead(e) /\ e.card.kind = "mifare"
  BY <1>2 DEF Found, KeyAhead
<1>5. ~e.glitch => SoFar(e, "mifare_auth")
  BY <1>4 DEF SoFar, SweepCalls
<1> QED
  BY <1>2, <1>3, <1>5 DEF Proceeds, GoesOn, CallNames

\* When the last sector is behind, everything has been found.
LEMMA FoundAll ==
  ASSUME NEW d \in ReadFields, d.card.kind = "mifare", Entries(d), Found(d),
         d.sector >= MIFARE_NUM_SECTORS
  PROVE  Everything(d)
<1> DEFINE n == Len(d.sectors)
           S == {d.sectors[i] : i \in DOMAIN d.sectors}
<1>1. /\ d.sectors \in Seq(SectorEntry) /\ DOMAIN d.sectors = 1..n
      /\ d.sector \in Int
  BY DEF ReadFields
<1>2. ASSUME NEW i \in 1..n PROVE d.sectors[i] \in AllEntries(d.card)
  <2> DEFINE x == d.sectors[i]
  <2>1. x \in SectorEntry
    BY <1>1
  <2>2. /\ x.sector \in Sectors /\ x.key \in Keys
        /\ x = [sector |-> x.sector, key |-> x.key, blocks |-> x.blocks]
    BY <2>1 DEF SectorEntry
  <2>3. /\ x.key = d.card.keys[x.sector]
        /\ x.blocks = mifare_sector_block_count(x.sector)
    BY DEF Entries, Found
  <2> HIDE DEF x
  <2>4. x.key # NoKey
    BY <2>2 DEF Keys, NoKey
  <2>5. x = FullEntry(d.card, x.sector)
    BY <2>2, <2>3 DEF FullEntry
  <2> QED
    BY <2>2, <2>3, <2>4, <2>5 DEF AllEntries, x
<1>3. ASSUME NEW x \in AllEntries(d.card) PROVE x \in S
  <2>1. PICK s \in Sectors : d.card.keys[s] # NoKey /\ x = FullEntry(d.card, s)
    BY <1>3 DEF AllEntries
  <2>2. s < d.sector
    BY <1>1, ConstantsAssumption DEF Sectors
  <2>3. PICK i \in 1..n : d.sectors[i] = FullEntry(d.card, s)
    BY <2>1, <2>2 DEF Found
  <2> QED
    BY <1>1, <2>1, <2>3
<1>4. S = AllEntries(d.card)
  BY <1>1, <1>2, <1>3
<1> QED
  BY <1>4 DEF Everything

\* The next sector starts with all its keys ahead.
LEMMA NextSectorProceeds ==
  ASSUME NEW cache \in [Uids -> [Sectors -> Keys \union {NoKey}]],
         NEW r \in Reads, NEW d \in ReadFields, Entries(d),
         ~d.glitch => d.card.kind = "mifare" /\ Found(d),
         tag_read_mifare_next_sector(r, d, cache)
  PROVE  Proceeds(r)
<1>1. CASE d.sector >= MIFARE_NUM_SECTORS
  <2>1. tag_read_finish(r, d)
    BY <1>1 DEF tag_read_mifare_next_sector
  <2> QED
    BY <1>1, <2>1, FoundAll DEF Proceeds
<1>2. CASE ~(d.sector >= MIFARE_NUM_SECTORS)
  <2> DEFINE k == mifare_cache_lookup(cache, d.card.uid, d.sector)
             f == [d EXCEPT !.key_index = 0, !.cached_attempt = k # NoKey]
             k0 == IF k # NoKey THEN k ELSE 0
  <2>1. mifare_publish_progress(r, d) /\ mifare_send_auth(r, f, k0)
    BY <1>2 DEF tag_read_mifare_next_sector
  <2>2. d.sector \in Sectors
    BY <1>2, ConstantsAssumption DEF ReadFields, Sectors
  <2>3. d.card.uid \in Uids \union {NoUid}
    BY CardsAssumption DEF ReadFields, Card
  <2>4. k \in Keys \union {NoKey}
    BY <2>2, <2>3 DEF mifare_cache_lookup
  <2>5. k0 \in Keys
    BY <2>4, ConstantsAssumption DEF Keys, NoKey
  <2>6. /\ f \in ReadFields /\ f.sector = d.sector /\ f.sectors = d.sectors
        /\ f.card = d.card /\ f.glitch = d.glitch /\ f.key_index = 0
        /\ f.cached_attempt = (k # NoKey)
    <3>1. 0 \in 0..MIFARE_NUM_DEFAULT_KEYS
      BY ConstantsAssumption
    <3> HIDE DEF k
    <3> QED
      BY <3>1 DEF ReadFields
  <2>7. ~f.cached_attempt => k0 = 0
    BY <2>6
  <2>8. tag_json'.scanning
    BY <2>1 DEF mifare_publish_progress
  <2>9. d.card.keys[d.sector] # NoKey => 0 <= d.card.keys[d.sector]
    BY <2>2, CardKeys DEF Keys
  <2> HIDE DEF f, k0, k
  <2>10. ~f.glitch => Found(f) /\ f.card.kind = "mifare"
    BY <2>6 DEF Found
  <2> QED
    BY <2>1, <2>2, <2>5, <2>6, <2>7, <2>8, <2>9, <2>10, SendAuthProceeds
<1> QED
  BY <1>1, <1>2

\* A key that does not fit is passed over, and no other.
LEMMA NextKeyProceeds ==
  ASSUME NEW r \in Reads, NEW d \in ReadFields, InSweep(d), SteadyTypeOK,
         Entries(d),
         ~d.glitch => /\ d.card.kind = "mifare" /\ Found(d) /\ KeyAhead(d)
                      /\ ~KeyFits(d),
         mifare_next_key(r, d)
  PROVE  Proceeds(r)
<1> DEFINE e == IF d.cached_attempt THEN [d EXCEPT !.cached_attempt = FALSE]
                                    ELSE [d EXCEPT !.key_index = @ + 1]
           f == [e EXCEPT !.sector = @ + 1]
<1>1. tag_read_mifare_try_key(r, e)
  BY DEF mifare_next_key
<1>2. d.key_index \in Nat /\ d.key_index + 1 \in 0..MIFARE_NUM_DEFAULT_KEYS
  BY ConstantsAssumption DEF InSweep, Keys
<1>3. /\ e \in ReadFields /\ e.sector = d.sector /\ e.sectors = d.sectors
      /\ e.card = d.card /\ e.glitch = d.glitch /\ e.cached_attempt = FALSE
      /\ e.key_index = IF d.cached_attempt THEN d.key_index ELSE d.key_index + 1
  <2>1. CASE d.cached_attempt
    BY <2>1 DEF ReadFields
  <2>2. CASE ~d.cached_attempt
    BY <1>2, <2>2 DEF ReadFields
  <2> QED
    BY <2>1, <2>2
<1> HIDE DEF e
<1>4. d.card.keys[d.sector] \in Keys \union {NoKey} /\ d.sector \in Sectors
  BY CardKeys DEF InSweep
<1>5. ~d.glitch /\ d.card.keys[d.sector] # NoKey =>
        e.key_index <= d.card.keys[d.sector]
  BY <1>2, <1>3, <1>4 DEF KeyAhead, KeyFits, Keys
<1>6. CASE e.key_index >= MIFARE_NUM_DEFAULT_KEYS
  <2>1. tag_read_mifare_next_sector(r, f, mifare_key_cache)
    BY <1>1, <1>6 DEF tag_read_mifare_try_key
  <2>2. /\ f \in ReadFields /\ f.sector = d.sector + 1 /\ f.sectors = d.sectors
        /\ f.card = d.card /\ f.glitch = d.glitch
    <3>1. e.sector + 1 \in 0..MIFARE_NUM_SECTORS
      BY <1>3, <1>4, ConstantsAssumption DEF Sectors
    <3> QED
      BY <1>3, <3>1 DEF ReadFields
  <2> HIDE DEF f
  <2>3. ~d.glitch => d.card.keys[d.sector] = NoKey
    BY <1>2, <1>3, <1>4, <1>5, <1>6, ConstantsAssumption DEF Keys
  <2>4. \A s \in Sectors : s < d.sector + 1 => s < d.sector \/ s = d.sector
    BY <1>4 DEF Sectors
  <2>5. ~f.glitch => Found(f)
    BY <2>2, <2>3, <2>4 DEF Found
  <2>6. Entries(f)
    <3>1. d.sector \in Int
      BY <1>4 DEF Sectors
    <3>2. \A i \in 1..Len(d.sectors) : d.sectors[i].sector \in Int
      BY EntryType DEF ReadFields
    <3> QED
      BY <2>2, <3>1, <3>2 DEF Entries
  <2> QED
    BY <2>1, <2>2, <2>5, <2>6, NextSectorProceeds DEF SteadyTypeOK
<1>7. CASE ~(e.key_index >= MIFARE_NUM_DEFAULT_KEYS)
  <2>1. mifare_send_auth(r, e, e.key_index) /\ UNCHANGED tag_json
    BY <1>1, <1>7 DEF tag_read_mifare_try_key, clientVars
  <2>2. e.key_index \in Keys
    BY <1>3, <1>7, ConstantsAssumption DEF ReadFields, Keys
  <2>3. ~e.glitch => Found(e) /\ e.card.kind = "mifare"
    BY <1>3 DEF Found
  <2> QED
    BY <1>3, <1>4, <1>5, <2>1, <2>2, <2>3, SendAuthProceeds
<1> QED
  BY <1>6, <1>7

\* A sector read to its last block adds its full entry.
LEMMA SectorDoneProceeds ==
  ASSUME NEW r \in Reads, NEW d \in ReadFields, InSweep(d), SteadyTypeOK,
         Entries(d), KeyFits(d),
         d.block_offset \in 1..mifare_sector_block_count(d.sector),
         ~d.glitch => /\ d.card.kind = "mifare" /\ Found(d)
                      /\ d.block_offset = mifare_sector_block_count(d.sector),
         mifare_sector_done(r, d)
  PROVE  Proceeds(r)
<1> DEFINE f == [d EXCEPT !.sectors = Append(@, Entry(d)), !.sector = @ + 1]
<1>1. tag_read_mifare_next_sector(r, f, mifare_key_cache)
  BY DEF mifare_sector_done, Entry
<1>2. Entry(d) \in SectorEntry /\ d.sectors \in Seq(SectorEntry)
  BY DEF InSweep, ReadFields, SectorEntry, Entry
<1>3. /\ f \in ReadFields /\ f.card = d.card /\ f.glitch = d.glitch
      /\ f.sectors = Append(d.sectors, Entry(d)) /\ f.sector = d.sector + 1
  <2>1. Append(d.sectors, Entry(d)) \in Seq(SectorEntry)
    BY <1>2
  <2>2. d.sector + 1 \in 0..MIFARE_NUM_SECTORS
    BY ConstantsAssumption DEF InSweep, Sectors
  <2> QED
    BY <2>1, <2>2 DEF ReadFields
<1> HIDE DEF f
<1>4. Entries(f)
  BY <1>3, EntriesGrow
<1>5. ~f.glitch => Found(f)
  <2> SUFFICES ASSUME ~d.glitch PROVE Found(f)
    BY <1>3
  <2> DEFINE n == Len(d.sectors)
  <2>1. Entry(d) = FullEntry(d.card, d.sector)
    BY DEF Entry, FullEntry, KeyFits
  <2>2. /\ n \in Nat /\ Len(f.sectors) = n + 1
        /\ \A i \in 1..n : f.sectors[i] = d.sectors[i]
        /\ f.sectors[n + 1] = Entry(d)
    BY <1>2, <1>3
  <2>3. Found(d) /\ d.sector \in Sectors
    BY DEF InSweep
  <2> HIDE DEF n
  <2>4. ASSUME NEW s \in Sectors, s < f.sector, f.card.keys[s] # NoKey
        PROVE  \E i \in 1..Len(f.sectors) : f.sectors[i] = FullEntry(f.card, s)
    <3>1. s < d.sector \/ s = d.sector
      BY <1>3, <2>3, <2>4 DEF Sectors
    <3>2. CASE s < d.sector
      <4>1. PICK i \in 1..n : d.sectors[i] = FullEntry(d.card, s)
        BY <1>3, <2>3, <2>4, <3>2 DEF Found, n
      <4> QED
        BY <1>3, <2>2, <4>1
    <3>3. CASE s = d.sector
      BY <1>3, <2>1, <2>2, <3>3
    <3> QED
      BY <3>1, <3>2, <3>3
  <2>5. ASSUME NEW i \in 1..Len(f.sectors)
        PROVE  f.sectors[i].blocks = mifare_sector_block_count(f.sectors[i].sector)
    <3>1. CASE i \in 1..n
      BY <2>2, <2>3, <3>1 DEF Found, n
    <3>2. CASE i = n + 1
      BY <2>1, <2>2, <3>2 DEF FullEntry
    <3> QED
      BY <2>2, <3>1, <3>2
  <2> QED
    BY <2>4, <2>5 DEF Found
<1> QED
  BY <1>1, <1>3, <1>4, <1>5, NextSectorProceeds DEF SteadyTypeOK

\* Reading a block passes over no key.
LEMMA ReadBlockProceeds ==
  ASSUME NEW r \in Reads, NEW d \in ReadFields, InSweep(d),
         ~d.glitch => d.card.kind = "mifare" /\ Found(d) /\ KeyAhead(d),
         mifare_read_block(r, d)
  PROVE  Proceeds(r)
<1> DEFINE b == mifare_sector_first_block(d.sector) + d.block_offset
           e == [d EXCEPT !.block = b]
<1>1. b \in Nat
  <2>1. mifare_sector_first_block(d.sector) \in Nat
    BY FirstBlockType DEF InSweep
  <2>2. d.block_offset \in Nat
    BY DEF ReadFields
  <2> QED
    BY <2>1, <2>2
<1>2. /\ e \in ReadFields /\ e.card = d.card /\ e.sector = d.sector
      /\ e.sectors = d.sectors /\ e.glitch = d.glitch /\ e.key = d.key
      /\ e.cached_attempt = d.cached_attempt /\ e.key_index = d.key_index
  <2> HIDE DEF b
  <2> QED
    BY <1>1 DEF ReadFields
<1>3. /\ rd' = [rd EXCEPT ![r] = e]
      /\ call' = [call EXCEPT ![r] = "mifare_block"]
      /\ UNCHANGED tag_json
  BY DEF mifare_read_block, Send, clientVars
<1> HIDE DEF e
<1>4. ~e.glitch => Found(e) /\ KeyAhead(e) /\ e.card.kind = "mifare"
  BY <1>2 DEF Found, KeyAhead
<1>5. ~e.glitch => SoFar(e, "mifare_block")
  BY <1>4 DEF SoFar, SweepCalls
<1> QED
  BY <1>2, <1>3, <1>5 DEF Proceeds, GoesOn, CallNames

\* Noting a failure clears the read of every promise.
LEMMA NotingGlitch ==
  ASSUME NEW d \in ReadFields, NEW res, NEW f, f = Noting(d, res)
  PROVE  /\ f \in ReadFields
         /\ ~f.glitch => res = "ok" /\ ~d.glitch
         /\ f.card = d.card /\ f.sector = d.sector /\ f.sectors = d.sectors
         /\ f.key = d.key /\ f.cached_attempt = d.cached_attempt
         /\ f.key_index = d.key_index /\ f.block_offset = d.block_offset
         /\ f.records = d.records /\ f.record_index = d.record_index
         /\ f.raw = d.raw /\ f.is_type2 = d.is_type2
BY DEF Noting, ReadFields

\* In the sweep a failure is only noted when the key at hand fits.
LEMMA SweepGlitch ==
  ASSUME NEW d \in ReadFields, InSweep(d), Entries(d), NEW res, NEW f,
         ~d.glitch => d.card.kind = "mifare" /\ Found(d) /\ KeyAhead(d),
         f = IF KeyFits(d) THEN Noting(d, res) ELSE d
  PROVE  /\ f \in ReadFields /\ InSweep(f) /\ Entries(f)
         /\ KeyFits(f) <=> KeyFits(d)
         /\ f.sector = d.sector /\ f.block_offset = d.block_offset
         /\ ~f.glitch => /\ f.card.kind = "mifare" /\ Found(f) /\ KeyAhead(f)
                         /\ KeyFits(f) => res = "ok"
<1>1. /\ f \in ReadFields
      /\ ~f.glitch => ~d.glitch /\ (KeyFits(d) => res = "ok")
      /\ f.card = d.card /\ f.sector = d.sector /\ f.sectors = d.sectors
      /\ f.key = d.key /\ f.cached_attempt = d.cached_attempt
      /\ f.key_index = d.key_index /\ f.block_offset = d.block_offset
  <2>1. CASE KeyFits(d)
    BY <2>1, NotingGlitch
  <2>2. CASE ~KeyFits(d)
    BY <2>2
  <2> QED
    BY <2>1, <2>2
<1>2. InSweep(f) /\ Entries(f) /\ (KeyFits(f) <=> KeyFits(d))
  BY <1>1 DEF InSweep, Entries, KeyFits
<1>3. ~f.glitch => Found(f) /\ KeyAhead(f)
  BY <1>1 DEF Found, KeyAhead
<1> QED
  BY <1>1, <1>2, <1>3

\* Neither does a new block_offset change what has been found.
LEMMA OffsetFound ==
  ASSUME NEW d \in ReadFields, InSweep(d), NEW n \in Nat, NEW f,
         ~d.glitch => d.card.kind = "mifare" /\ Found(d) /\ KeyAhead(d),
         f = [d EXCEPT !.block_offset = n]
  PROVE  /\ f.glitch = d.glitch /\ f.sector = d.sector
         /\ ~f.glitch => f.card.kind = "mifare" /\ Found(f) /\ KeyAhead(f)
<1>1. /\ f.glitch = d.glitch
      /\ f.card = d.card /\ f.sector = d.sector /\ f.sectors = d.sectors
      /\ f.key = d.key /\ f.cached_attempt = d.cached_attempt
      /\ f.key_index = d.key_index
  BY DEF ReadFields
<1> QED
  BY <1>1 DEF Found, KeyAhead

-----------------------------------------------------------------------------
(* The callbacks of an owned read.                                         *)

Ready(r) ==
  /\ TypeInv /\ OrphanedIffCancelled /\ LocalInv /\ SoFarInv
  /\ r \in Reads /\ owned[r]

\* mifare_auth_ready()
LEMMA AuthReadyProceeds ==
  ASSUME NEW r, Ready(r), mifare_auth_ready(r)
  PROVE  Proceeds(r)
<1> DEFINE D(res) == IF KeyFits(rd[r]) THEN Noting(rd[r], res) ELSE rd[r]
<1>1. /\ rd[r] \in ReadFields /\ InSweep(rd[r]) /\ SteadyTypeOK /\ r \in Reads
      /\ Entries(rd[r]) /\ call[r] = "mifare_auth" /\ owned[r]
  BY DEF mifare_auth_ready, Ready, TypeInv, TypeOK, ReadTypeOK, SweepInRange,
     LocalInv, Local
<1>2. ~rd[r].glitch =>
        rd[r].card.kind = "mifare" /\ Found(rd[r]) /\ KeyAhead(rd[r])
  BY <1>1 DEF Ready, SoFarInv, SoFar, SweepCalls
<1>3. PICK res \in Results(r) :
        IF ~owned[r] \/ res = "cancelled" THEN Orphan(r)
        ELSE IF res = "error" THEN mifare_next_key(r, D(res))
        ELSE mifare_read_block(r, [D(res) EXCEPT !.block_offset = 0])
  BY DEF mifare_auth_ready
<1>4. res # "cancelled"
  BY <1>1 DEF Results, OrphanedIffCancelled, Ready
<1> DEFINE d == D(res)
           e == [d EXCEPT !.block_offset = 0]
<1>5. /\ d \in ReadFields /\ InSweep(d) /\ Entries(d)
      /\ ~d.glitch => /\ d.card.kind = "mifare" /\ Found(d) /\ KeyAhead(d)
                      /\ KeyFits(d) => res = "ok"
  BY <1>1, <1>2, SweepGlitch
<1> HIDE DEF D, d
<1>6. e \in ReadFields /\ InSweep(e)
  BY <1>5, OffsetInSweep
<1>7. ~e.glitch => e.card.kind = "mifare" /\ Found(e) /\ KeyAhead(e)
  BY <1>5, OffsetFound
<1>8. CASE res = "error"
  <2>1. mifare_next_key(r, d)
    BY <1>1, <1>3, <1>4, <1>8 DEF d
  <2> QED
    BY <1>1, <1>5, <1>8, <2>1, NextKeyProceeds
<1>9. CASE res # "error"
  <2>1. mifare_read_block(r, e)
    BY <1>1, <1>3, <1>4, <1>9 DEF d
  <2> HIDE DEF e
  <2> QED
    BY <1>1, <1>6, <1>7, <2>1, ReadBlockProceeds
<1> QED
  BY <1>8, <1>9

\* mifare_block_read_ready()
LEMMA BlockReadyProceeds ==
  ASSUME NEW r, Ready(r), mifare_block_read_ready(r)
  PROVE  Proceeds(r)
<1> DEFINE D(res) == IF KeyFits(rd[r]) THEN Noting(rd[r], res) ELSE rd[r]
           E(res) == [D(res) EXCEPT !.block_offset = @ + 1]
<1>1. /\ rd[r] \in ReadFields /\ InSweep(rd[r]) /\ SteadyTypeOK /\ r \in Reads
      /\ Entries(rd[r]) /\ call[r] = "mifare_block" /\ owned[r]
      /\ AtBlock(rd[r])
  BY DEF mifare_block_read_ready, Ready, TypeInv, TypeOK, ReadTypeOK,
     SweepInRange, LocalInv, Local
<1>2. ~rd[r].glitch =>
        rd[r].card.kind = "mifare" /\ Found(rd[r]) /\ KeyAhead(rd[r])
  BY <1>1 DEF Ready, SoFarInv, SoFar, SweepCalls
<1>3. PICK res \in BlockResults(r) :
        IF ~owned[r] THEN Orphan(r)
        ELSE IF res = "ok"
          THEN IF E(res).block_offset >= mifare_sector_block_count(E(res).sector)
                 THEN mifare_sector_done(r, E(res))
                 ELSE mifare_read_block(r, E(res))
          ELSE IF D(res).block_offset = 0
                 THEN mifare_next_key(r, D(res))
                 ELSE mifare_sector_done(r, D(res))
  BY DEF mifare_block_read_ready
<1>4. res = "ok" => KeyFits(rd[r])
  BY DEF BlockResults
<1> DEFINE d == D(res)
           e == [d EXCEPT !.block_offset = @ + 1]
<1>5. /\ d \in ReadFields /\ InSweep(d) /\ Entries(d)
      /\ KeyFits(d) <=> KeyFits(rd[r])
      /\ d.sector = rd[r].sector /\ d.block_offset = rd[r].block_offset
      /\ ~d.glitch => /\ d.card.kind = "mifare" /\ Found(d) /\ KeyAhead(d)
                      /\ KeyFits(d) => res = "ok"
  BY <1>1, <1>2, SweepGlitch
<1>6. e = E(res)
  OBVIOUS
<1> HIDE DEF D, E, d
<1>7. d.block_offset \in Nat /\ d.block_offset + 1 \in Nat
  BY <1>5 DEF ReadFields
<1>8. /\ e \in ReadFields /\ InSweep(e) /\ Same(d, e) /\ e.sector = d.sector
      /\ e.block_offset = d.block_offset + 1 /\ (KeyFits(e) <=> KeyFits(d))
  BY <1>5, <1>7, OffsetInSweep
<1>9. ~e.glitch => e.card.kind = "mifare" /\ Found(e) /\ KeyAhead(e)
  BY <1>5, <1>7, OffsetFound
<1>10. Entries(e)
  BY <1>5, <1>8 DEF Entries, Same
<1>11. mifare_sector_block_count(d.sector) \in Nat
  BY BlockCountType
<1>12. /\ d.block_offset < mifare_sector_block_count(d.sector)
       /\ d.block_offset # 0 => KeyFits(d)
  BY <1>1, <1>5 DEF AtBlock
<1> HIDE DEF e
<1>13. CASE res = "ok" /\ e.block_offset >= mifare_sector_block_count(e.sector)
  <2>1. mifare_sector_done(r, e)
    BY <1>1, <1>3, <1>6, <1>13
  <2>2. /\ KeyFits(e) /\ e.block_offset = mifare_sector_block_count(e.sector)
        /\ e.block_offset \in 1..mifare_sector_block_count(e.sector)
    BY <1>4, <1>5, <1>7, <1>8, <1>11, <1>12, <1>13
  <2> QED
    BY <1>1, <1>8, <1>9, <1>10, <2>1, <2>2, SectorDoneProceeds
<1>14. CASE res = "ok" /\ ~(e.block_offset >= mifare_sector_block_count(e.sector))
  <2>1. mifare_read_block(r, e)
    BY <1>1, <1>3, <1>6, <1>14
  <2> QED
    BY <1>1, <1>8, <1>9, <2>1, ReadBlockProceeds
<1>15. CASE res # "ok" /\ d.block_offset = 0
  <2>1. mifare_next_key(r, d)
    BY <1>1, <1>3, <1>15 DEF d
  <2> QED
    BY <1>1, <1>5, <1>15, <2>1, NextKeyProceeds
<1>16. CASE res # "ok" /\ d.block_offset # 0
  <2>1. mifare_sector_done(r, d)
    BY <1>1, <1>3, <1>16 DEF d
  <2>2. d.glitch /\ KeyFits(d)
    BY <1>5, <1>12, <1>16
  <2>3. d.block_offset \in 1..mifare_sector_block_count(d.sector)
    BY <1>7, <1>11, <1>12, <1>16
  <2> QED
    BY <1>1, <1>5, <2>1, <2>2, <2>3, SectorDoneProceeds
<1> QED
  BY <1>13, <1>14, <1>15, <1>16

\* Reading record n next keeps the records in order.
LEMMA NextRecordNumber ==
  ASSUME NEW n \in Nat
  PROVE  Append([i \in 1..n |-> i - 1], n) = [i \in 1..(n + 1) |-> i - 1]
<1> DEFINE s == [i \in 1..n |-> i - 1]
           t == [i \in 1..(n + 1) |-> i - 1]
<1>1. s \in Seq(Nat) /\ Len(s) = n
  <2>1. \A i \in 1..n : i - 1 \in Nat
    OBVIOUS
  <2> QED
    BY <2>1, IsASeq
<1>2. t \in Seq(Nat) /\ Len(t) = n + 1
  <2>1. \A i \in 1..(n + 1) : i - 1 \in Nat
    OBVIOUS
  <2>2. n + 1 \in Nat
    OBVIOUS
  <2> QED
    BY <2>1, <2>2, IsASeq
<1>3. Append(s, n) \in Seq(Nat) /\ Len(Append(s, n)) = n + 1
  <2> HIDE DEF s
  <2> QED
    BY <1>1
<1>4. \A i \in 1..(n + 1) : Append(s, n)[i] = t[i]
  <2> SUFFICES ASSUME NEW i \in 1..(n + 1) PROVE Append(s, n)[i] = t[i]
    OBVIOUS
  <2>1. t[i] = i - 1
    OBVIOUS
  <2>2. i \in 1..n => s[i] = i - 1
    OBVIOUS
  <2> HIDE DEF s, t
  <2> QED
    BY <1>1, <2>1, <2>2
<1> HIDE DEF s, t
<1>5. Append(s, n) = t
  BY <1>2, <1>3, <1>4, SeqEqual
<1> QED
  BY <1>5 DEF s, t

\* The next record is asked for, then the raw data; then all has been read.
LEMMA NextRecordProceeds ==
  ASSUME NEW r \in Reads, NEW d \in ReadFields, ~d.glitch => RecordsRead(d),
         tag_read_next_record(r, d)
  PROVE  Proceeds(r)
<1>1. d.record_index \in Nat /\ d.card.nrec \in Nat /\ d.is_type2 \in BOOLEAN
  BY CardsAssumption DEF ReadFields, Card
<1>2. CASE d.record_index < d.card.nrec
  <2>1. Send(r, d, "ndef_proxy") /\ UNCHANGED tag_json
    BY <1>2 DEF tag_read_next_record, clientVars
  <2>2. ~d.glitch => SoFar(d, "ndef_proxy")
    BY <1>2 DEF SoFar, SweepCalls
  <2> QED
    BY <2>1, <2>2 DEF Proceeds, GoesOn, Send, CallNames
<1>3. CASE ~(d.record_index < d.card.nrec)
  <2>1. ~d.glitch => d.record_index = d.card.nrec
    BY <1>1, <1>3 DEF RecordsRead
  <2>2. CASE d.is_type2
    <3>1. Send(r, d, "raw_data_proxy") /\ UNCHANGED tag_json
      BY <1>3, <2>2 DEF tag_read_next_record, tag_read_raw_data, clientVars
    <3>2. ~d.glitch => SoFar(d, "raw_data_proxy")
      BY <2>1, <2>2 DEF SoFar, SweepCalls
    <3> QED
      BY <3>1, <3>2 DEF Proceeds, GoesOn, Send, CallNames
  <2>3. CASE ~d.is_type2
    <3>1. tag_read_finish(r, d)
      BY <1>3, <2>3 DEF tag_read_next_record, tag_read_raw_data
    <3>2. d.raw \in BOOLEAN
      BY DEF ReadFields
    <3>3. ~d.glitch => Everything(d)
      BY <2>1, <2>3, <3>2 DEF Everything, RecordsRead
    <3> QED
      BY <3>1, <3>3 DEF Proceeds
  <2> QED
    BY <2>2, <2>3
<1> QED
  BY <1>2, <1>3

\* tag_proxy_ready() of an owned read
LEMMA TagProxyProceeds ==
  ASSUME NEW r, Ready(r), tag_proxy_ready(r)
  PROVE  Proceeds(r) \/ GiveUp(r)
<1>1. r \in Reads /\ rd[r] \in ReadFields /\ call[r] = "tag_proxy" /\ owned[r]
  BY DEF tag_proxy_ready, Ready, TypeInv, TypeOK, ReadTypeOK
<1>2. ~rd[r].glitch => SoFar(rd[r], "get_all")
  BY <1>1 DEF Ready, SoFarInv, SoFar, SweepCalls
<1>3. CASE Send(r, rd[r], "get_all") /\ UNCHANGED clientVars
  BY <1>1, <1>2, <1>3 DEF Proceeds, GoesOn, Send, CallNames, clientVars
<1> QED
  BY <1>1, <1>3 DEF tag_proxy_ready, clientVars

\* tag_get_all_ready() of an owned read
LEMMA TagGetAllProceeds ==
  ASSUME NEW r, Ready(r), tag_get_all_ready(r)
  PROVE  Proceeds(r) \/ GiveUp(r)
<1> DEFINE k == rd[r].card.kind
           d == [rd[r] EXCEPT !.is_type2 = (k = "type2")]
<1>1. /\ r \in Reads /\ rd[r] \in ReadFields /\ call[r] = "get_all" /\ owned[r]
      /\ SteadyTypeOK
  BY DEF tag_get_all_ready, Ready, TypeInv, TypeOK, ReadTypeOK
<1>2. ~rd[r].glitch => SoFar(rd[r], "get_all")
  BY <1>1 DEF Ready, SoFarInv
<1>3. /\ d \in ReadFields /\ d.card = rd[r].card /\ d.glitch = rd[r].glitch
      /\ d.records = rd[r].records /\ d.record_index = rd[r].record_index
      /\ d.raw = rd[r].raw /\ d.sectors = rd[r].sectors
      /\ d.sector = rd[r].sector /\ d.is_type2 = (k = "type2")
  BY <1>1 DEF ReadFields
<1>4. \/ GiveUp(r)
      \/ k = "mifare" /\ tag_read_mifare_next_sector(r, d, mifare_key_cache)
      \/ k # "mifare" /\ tag_read_next_record(r, d)
  BY <1>1 DEF tag_get_all_ready
<1>5. Entries(d)
  BY <1>1, <1>3 DEF Ready, LocalInv, Local, Entries
<1> HIDE DEF d
<1>6. ~d.glitch => /\ d.records = <<>> /\ d.record_index = 0 /\ ~d.raw
                   /\ d.sectors = <<>> /\ d.sector = 0
  BY <1>2, <1>3 DEF SoFar
<1>7. CASE k = "mifare" /\ tag_read_mifare_next_sector(r, d, mifare_key_cache)
  <2>1. ~d.glitch => Found(d)
    <3>1. \A s \in Sectors : ~(s < 0)
      BY DEF Sectors
    <3>2. Len(<<>>) = 0
      OBVIOUS
    <3> QED
      BY <1>6, <3>1, <3>2 DEF Found
  <2> QED
    BY <1>1, <1>3, <1>5, <1>7, <2>1, NextSectorProceeds DEF SteadyTypeOK
<1>8. CASE k # "mifare" /\ tag_read_next_record(r, d)
  <2>1. d.card.nrec \in Nat
    BY <1>3, CardsAssumption DEF ReadFields, Card
  <2>2. <<>> = [i \in 1..0 |-> i - 1]
    OBVIOUS
  <2>3. ~d.glitch => RecordsRead(d)
    BY <1>3, <1>6, <1>8, <2>1, <2>2 DEF RecordsRead
  <2> QED
    BY <1>1, <1>3, <1>8, <2>3, NextRecordProceeds
<1> QED
  BY <1>4, <1>7, <1>8

\* ndef_proxy_ready() of an owned read
LEMMA NdefProxyProceeds ==
  ASSUME NEW r, Ready(r), ndef_proxy_ready(r)
  PROVE  Proceeds(r)
<1>1. r \in Reads /\ rd[r] \in ReadFields /\ call[r] = "ndef_proxy" /\ owned[r]
  BY DEF ndef_proxy_ready, Ready, TypeInv, TypeOK, ReadTypeOK
<1>2. ~rd[r].glitch => RecordsRead(rd[r]) /\ rd[r].record_index < rd[r].card.nrec
  BY <1>1 DEF Ready, SoFarInv, SoFar
<1>3. PICK res \in Results(r) :
        IF res = "ok"
          THEN Send(r, Noting(rd[r], res), "ndef_get_all") /\ UNCHANGED clientVars
          ELSE tag_read_next_record(r,
                 [Noting(rd[r], res) EXCEPT !.record_index = @ + 1])
  BY <1>1 DEF ndef_proxy_ready, clientVars
<1> DEFINE d == Noting(rd[r], res)
           e == [d EXCEPT !.record_index = @ + 1]
<1>4. /\ d \in ReadFields
      /\ ~d.glitch => res = "ok" /\ ~rd[r].glitch
      /\ d.card = rd[r].card /\ d.records = rd[r].records
      /\ d.record_index = rd[r].record_index /\ d.raw = rd[r].raw
      /\ d.is_type2 = rd[r].is_type2
  BY <1>1, NotingGlitch
<1> HIDE DEF d
<1>5. CASE res = "ok"
  <2>1. ~d.glitch => SoFar(d, "ndef_get_all")
    BY <1>2, <1>4 DEF SoFar, RecordsRead, SweepCalls
  <2> QED
    BY <1>3, <1>4, <1>5, <2>1 DEF Proceeds, GoesOn, Send, CallNames, clientVars, d
<1>6. CASE res # "ok"
  <2>1. d.record_index + 1 \in Nat
    BY <1>4 DEF ReadFields
  <2>2. e \in ReadFields /\ e.glitch
    BY <1>4, <1>6, <2>1 DEF ReadFields
  <2>3. tag_read_next_record(r, e)
    BY <1>3, <1>6 DEF d
  <2> HIDE DEF e
  <2> QED
    BY <1>1, <2>2, <2>3, NextRecordProceeds
<1> QED
  BY <1>5, <1>6

\* ndef_get_all_ready() of an owned read
LEMMA NdefGetAllProceeds ==
  ASSUME NEW r, Ready(r), ndef_get_all_ready(r)
  PROVE  Proceeds(r)
<1> DEFINE D(res) == Noting(rd[r], res)
           E(res) == IF res = "ok"
                       THEN [D(res) EXCEPT
                               !.records = Append(@, D(res).record_index)]
                       ELSE D(res)
<1>1. r \in Reads /\ rd[r] \in ReadFields /\ call[r] = "ndef_get_all" /\ owned[r]
  BY DEF ndef_get_all_ready, Ready, TypeInv, TypeOK, ReadTypeOK
<1>2. ~rd[r].glitch => RecordsRead(rd[r]) /\ rd[r].record_index < rd[r].card.nrec
  BY <1>1 DEF Ready, SoFarInv, SoFar
<1>3. PICK res \in Results(r) :
        tag_read_next_record(r, [E(res) EXCEPT !.record_index = @ + 1])
  BY <1>1 DEF ndef_get_all_ready
<1> DEFINE d == D(res)
           e == IF res = "ok"
                  THEN [d EXCEPT !.records = Append(@, d.record_index)] ELSE d
           f == [e EXCEPT !.record_index = @ + 1]
<1>4. /\ d \in ReadFields
      /\ ~d.glitch => res = "ok" /\ ~rd[r].glitch
      /\ d.card = rd[r].card /\ d.records = rd[r].records
      /\ d.record_index = rd[r].record_index /\ d.raw = rd[r].raw
      /\ d.is_type2 = rd[r].is_type2
  BY <1>1, NotingGlitch
<1>5. tag_read_next_record(r, f)
  BY <1>3
<1> HIDE DEF D, E, d
<1>6. /\ e \in ReadFields /\ e.glitch = d.glitch /\ e.card = d.card
      /\ e.record_index = d.record_index /\ e.raw = d.raw
      /\ e.is_type2 = d.is_type2
      /\ res = "ok" => e.records = Append(d.records, d.record_index)
  <2>1. Append(d.records, d.record_index) \in Seq(Nat)
    BY <1>4 DEF ReadFields
  <2> QED
    BY <1>4, <2>1 DEF ReadFields
<1> HIDE DEF e
<1>7. /\ f \in ReadFields /\ f.glitch = e.glitch /\ f.card = e.card
      /\ f.record_index = e.record_index + 1 /\ f.raw = e.raw
      /\ f.is_type2 = e.is_type2 /\ f.records = e.records
  <2>1. e.record_index + 1 \in Nat
    BY <1>6 DEF ReadFields
  <2> QED
    BY <1>6, <2>1 DEF ReadFields
<1> HIDE DEF f
<1>8. ~f.glitch => RecordsRead(f)
  <2> SUFFICES ASSUME ~f.glitch PROVE RecordsRead(f)
    OBVIOUS
  <2> DEFINE n == rd[r].record_index
  <2>1. /\ res = "ok" /\ RecordsRead(rd[r]) /\ n < rd[r].card.nrec
    BY <1>2, <1>4, <1>6, <1>7
  <2>2. n \in Nat /\ rd[r].card.nrec \in Nat
    BY <1>1, CardsAssumption DEF ReadFields, Card
  <2>3. f.records = Append([i \in 1..n |-> i - 1], n)
    BY <1>4, <1>6, <1>7, <2>1 DEF RecordsRead
  <2>4. f.records = [i \in 1..(n + 1) |-> i - 1]
    BY <2>2, <2>3, NextRecordNumber
  <2>5. f.record_index = n + 1 /\ n + 1 <= rd[r].card.nrec
    BY <1>4, <1>6, <1>7, <2>1, <2>2
  <2> QED
    BY <1>4, <1>6, <1>7, <2>1, <2>4, <2>5 DEF RecordsRead
<1> QED
  BY <1>1, <1>5, <1>7, <1>8, NextRecordProceeds

\* raw_data_proxy_ready() of an owned read
LEMMA RawDataProxyProceeds ==
  ASSUME NEW r, Ready(r), raw_data_proxy_ready(r)
  PROVE  Proceeds(r)
<1>1. r \in Reads /\ rd[r] \in ReadFields /\ call[r] = "raw_data_proxy" /\ owned[r]
  BY DEF raw_data_proxy_ready, Ready, TypeInv, TypeOK, ReadTypeOK
<1>2. ~rd[r].glitch => /\ RecordsRead(rd[r]) /\ rd[r].is_type2
                       /\ rd[r].record_index = rd[r].card.nrec
  BY <1>1 DEF Ready, SoFarInv, SoFar
<1>3. PICK res \in Results(r) :
        IF res = "ok"
          THEN Send(r, Noting(rd[r], res), "raw_data") /\ UNCHANGED clientVars
          ELSE tag_read_finish(r, Noting(rd[r], res))
  BY <1>1 DEF raw_data_proxy_ready, clientVars
<1> DEFINE d == Noting(rd[r], res)
<1>4. /\ d \in ReadFields
      /\ ~d.glitch => res = "ok" /\ ~rd[r].glitch
      /\ d.card = rd[r].card /\ d.records = rd[r].records
      /\ d.record_index = rd[r].record_index /\ d.raw = rd[r].raw
      /\ d.is_type2 = rd[r].is_type2
  BY <1>1, NotingGlitch
<1> HIDE DEF d
<1>5. CASE res = "ok"
  <2>1. ~d.glitch => SoFar(d, "raw_data")
    BY <1>2, <1>4 DEF SoFar, RecordsRead, SweepCalls
  <2> QED
    BY <1>3, <1>4, <1>5, <2>1 DEF Proceeds, GoesOn, Send, CallNames, clientVars, d
<1>6. CASE res # "ok"
  BY <1>3, <1>4, <1>6 DEF Proceeds, d
<1> QED
  BY <1>5, <1>6

\* raw_data_ready() of an owned read
LEMMA RawDataProceeds ==
  ASSUME NEW r, Ready(r), raw_data_ready(r)
  PROVE  Proceeds(r)
<1>1. r \in Reads /\ rd[r] \in ReadFields /\ call[r] = "raw_data" /\ owned[r]
  BY DEF raw_data_ready, Ready, TypeInv, TypeOK, ReadTypeOK
<1>2. ~rd[r].glitch => /\ RecordsRead(rd[r]) /\ rd[r].is_type2
                       /\ rd[r].record_index = rd[r].card.nrec
  BY <1>1 DEF Ready, SoFarInv, SoFar
<1>3. PICK res \in Results(r) :
        tag_read_finish(r, [Noting(rd[r], res) EXCEPT !.raw = res = "ok"])
  BY <1>1 DEF raw_data_ready
<1> DEFINE d == Noting(rd[r], res)
           e == [d EXCEPT !.raw = (res = "ok")]
<1>4. /\ d \in ReadFields
      /\ ~d.glitch => res = "ok" /\ ~rd[r].glitch
      /\ d.card = rd[r].card /\ d.records = rd[r].records
  BY <1>1, NotingGlitch
<1>5. tag_read_finish(r, e)
  BY <1>3
<1> HIDE DEF d
<1>6. /\ e \in ReadFields /\ e.glitch = d.glitch /\ e.card = d.card
      /\ e.records = d.records /\ e.raw = (res = "ok")
  BY <1>4 DEF ReadFields
<1> HIDE DEF e
<1>7. ~e.glitch => Everything(e)
  <2> SUFFICES ASSUME ~e.glitch PROVE Everything(e)
    OBVIOUS
  <2>1. /\ res = "ok" /\ RecordsRead(rd[r]) /\ rd[r].is_type2
        /\ rd[r].record_index = rd[r].card.nrec
    BY <1>2, <1>4, <1>6
  <2>2. e.card.kind = "type2"
    BY <1>4, <1>6, <2>1 DEF RecordsRead
  <2>3. e.records = [i \in 1..e.card.nrec |-> i - 1]
    BY <1>4, <1>6, <2>1 DEF RecordsRead
  <2>4. e.raw = TRUE
    BY <1>6, <2>1
  <2> QED
    BY <2>2, <2>3, <2>4 DEF Everything
<1> QED
  BY <1>5, <1>6, <1>7 DEF Proceeds

\* Every callback of an owned read proceeds, or gives the read up.
LEMMA CallbackProceeds ==
  ASSUME NEW r, Ready(r), Callback(r)
  PROVE  Proceeds(r) \/ GiveUp(r)
BY TagProxyProceeds, TagGetAllProceeds, NdefProxyProceeds, NdefGetAllProceeds,
   RawDataProxyProceeds, RawDataProceeds, AuthReadyProceeds, BlockReadyProceeds
DEF Callback

-----------------------------------------------------------------------------
(* The invariant and the theorem.                                          *)

\* Nothing has been promised of a read that has no call outstanding.
LEMMA NothingPromised ==
  ASSUME NEW d PROVE SoFar(d, "none")
BY DEF SoFar, SweepCalls

\* A read that has just been started has everything ahead of it.
LEMMA FreshSoFar ==
  ASSUME NEW path, NEW c PROVE SoFar(FreshRead(path, c), "tag_proxy")
BY DEF FreshRead, SoFar, SweepCalls

\* A step of one read keeps the promises of all.
LEMMA SoFarKept ==
  ASSUME TypeInv, SoFarInv, NEW r \in Reads, NEW e, NEW c,
         rd' = [rd EXCEPT ![r] = e], call' = [call EXCEPT ![r] = c],
         ~e.glitch => SoFar(e, c)
  PROVE  SoFarInv'
<1>1. /\ rd \in [Reads -> ReadFields]
      /\ call \in [Reads -> CallNames \union {"none"}]
  BY DEF TypeInv, TypeOK, ReadTypeOK
<1>2. ASSUME NEW q \in Reads, ~rd'[q].glitch PROVE SoFar(rd'[q], call'[q])
  BY <1>1, <1>2 DEF SoFarInv
<1> QED
  BY <1>2 DEF SoFarInv, SoFar, RecordsRead, Found, KeyAhead

\* No callback passes over anything.
LEMMA CallbackComplete ==
  ASSUME ReadInv, CompleteInv, NEW r \in Reads, Callback(r)
  PROVE  CompleteInv'
<1>1. (owned[r] /\ Moves(r)) \/ Drops(r)
  BY CallbackOutcome DEF Before, ReadInv, PointerInv, ReportInv
<1>2. /\ rd \in [Reads -> ReadFields]
      /\ call \in [Reads -> CallNames \union {"none"}]
  BY DEF ReadInv, TypeInv, TypeOK, ReadTypeOK
<1>3. CASE Drops(r)
  <2>1. /\ rd' = [rd EXCEPT ![r] = Blank]
        /\ call' = [call EXCEPT ![r] = "none"]
        /\ UNCHANGED <<tag_json, tag_path, nreads>>
    BY <1>3 DEF Drops, clientVars
  <2>2. SoFarInv'
    BY <2>1, NothingPromised, SoFarKept DEF ReadInv, CompleteInv
  <2>3. ShownInFull'
    <3> SUFFICES ASSUME tag_json # NoJson PROVE ShownInFull'
      BY <2>1 DEF ShownInFull
    <3>1. nreads \in Reads /\ owned[nreads]
      BY DEF ReadInv, ReportInv, Current, TagIsRead
    <3>2. ~owned[r]
      BY <1>3 DEF Drops, ReadInv, ReportInv, Current, Unidentified
    <3>3. rd'[nreads'] = rd[nreads]
      BY <1>2, <2>1, <3>1, <3>2
    <3> QED
      BY <2>1, <3>3 DEF ShownInFull, CompleteInv, Everything
  <2> QED
    BY <2>2, <2>3 DEF CompleteInv
<1>4. CASE owned[r] /\ Moves(r)
  <2>1. Ready(r)
    BY <1>4 DEF Ready, ReadInv, PointerInv, ReportInv, CompleteInv
  <2>2. r = nreads /\ reading # NULL /\ reading = r
    BY <1>4, OwnedIsLast DEF ReadInv, ReportInv
  <2>3. UNCHANGED nreads
    BY <1>4 DEF Moves, MovesTo, Goes, tag_read_finish, tag_read_free
  <2>4. CASE GiveUp(r)
    <3>1. /\ rd' = [rd EXCEPT ![r] = Blank]
          /\ call' = [call EXCEPT ![r] = "none"] /\ UNCHANGED tag_json
      BY <2>4 DEF GiveUp, tag_read_free, clientVars
    <3>2. SoFarInv'
      BY <3>1, NothingPromised, SoFarKept DEF ReadInv, CompleteInv
    <3>3. ShownInFull'
      BY <2>2, <3>1 DEF ShownInFull, ReadInv, ReportInv, Current, InfoIsCurrent
    <3> QED
      BY <3>2, <3>3 DEF CompleteInv
  <2>5. CASE Proceeds(r)
    <3>1. PICK e \in ReadFields :
            \/ \E c \in CallNames : GoesOn(r, e, c)
            \/ tag_read_finish(r, e) /\ (~e.glitch => Everything(e))
      BY <2>5 DEF Proceeds
    <3>2. ASSUME NEW c \in CallNames, GoesOn(r, e, c) PROVE CompleteInv'
      <4>1. SoFarInv'
        BY <3>2, SoFarKept DEF GoesOn, ReadInv, CompleteInv
      <4>2. ShownInFull'
        BY <2>2, <3>2
        DEF GoesOn, ShownInFull, ReadInv, ReportInv, Current, InfoIsCurrent
      <4> QED
        BY <4>1, <4>2 DEF CompleteInv
    <3>3. CASE tag_read_finish(r, e) /\ (~e.glitch => Everything(e))
      <4>1. /\ rd' = [rd EXCEPT ![r] = e]
            /\ call' = [call EXCEPT ![r] = "none"]
            /\ tag_json'.records = e.records /\ tag_json'.raw = e.raw
        BY <3>3 DEF tag_read_finish, tag_read_free
      <4>2. SoFarInv'
        BY <4>1, NothingPromised, SoFarKept DEF ReadInv, CompleteInv
      <4>3. rd'[nreads'] = e
        BY <1>2, <2>2, <2>3, <4>1
      <4>4. ShownInFull'
        BY <3>3, <4>1, <4>3 DEF ShownInFull, Everything
      <4> QED
        BY <4>2, <4>4 DEF CompleteInv
    <3> QED
      BY <3>1, <3>2, <3>3
  <2> QED
    BY <2>1, <2>4, <2>5, CallbackProceeds
<1> QED
  BY <1>1, <1>3, <1>4

\* A change of the tag starts over.
LEMMA UpdateTagsComplete ==
  ASSUME ReadInv, CompleteInv, update_tags
  PROVE  CompleteInv'
<1>1. PICK path \in Paths \union {NoPath}, c \in Cards :
        /\ set_current_tag(path, c)
        /\ path # NoPath => nreads < MaxReads
  BY ConstantsAssumption DEF update_tags
<1>2. CASE tag_path = path
  <2>1. UNCHANGED <<rd, call, tag_json, nreads>>
    BY <1>1, <1>2 DEF set_current_tag, vars, readVars, clientVars
  <2> QED
    BY <2>1 DEF CompleteInv, SoFarInv, ShownInFull
<1>3. CASE tag_path # path
  <2>1. tag_json' = NoJson
    BY <1>1, <1>3 DEF set_current_tag
  <2>2. ShownInFull'
    BY <2>1 DEF ShownInFull
  <2>3. CASE path = NoPath
    <3>1. UNCHANGED <<call, rd>>
      BY <1>1, <1>3, <2>3 DEF set_current_tag
    <3> QED
      BY <2>2, <3>1 DEF CompleteInv, SoFarInv
  <2>4. CASE path # NoPath
    <3>1. nreads + 1 \in Reads
      BY <1>1, <2>4, ConstantsAssumption
      DEF ReadInv, TypeInv, TypeOK, ReadTypeOK, Reads
    <3>2. /\ call' = [call EXCEPT ![nreads + 1] = "tag_proxy"]
          /\ rd' = [rd EXCEPT ![nreads + 1] = FreshRead(path, c)]
      BY <1>1, <1>3, <2>4 DEF set_current_tag, tag_read_start
    <3>3. SoFarInv'
      BY <3>1, <3>2, FreshSoFar, SoFarKept DEF ReadInv, CompleteInv
    <3> QED
      BY <2>2, <3>3 DEF CompleteInv
  <2> QED
    BY <2>3, <2>4
<1> QED
  BY <1>2, <1>3

(***************************************************************************)
(* When every call the tag could answer was answered, a finished read has  *)
(* found all there was, for any number of records, sectors and default     *)
(* keys and whatever the key cache holds (tag_read_mifare_next_sector(),   *)
(* tag_read_mifare_try_key(), tag_read_next_record()).                     *)
(***************************************************************************)
THEOREM NothingIsMissed == Spec => []CompleteRead
<1>1. Init => CompleteInv
  <2> SUFFICES ASSUME Init PROVE CompleteInv
    OBVIOUS
  <2>1. SoFarInv
    BY NothingPromised DEF Init, SoFarInv
  <2> QED
    BY <2>1 DEF Init, CompleteInv, ShownInFull
<1>2. ReadInv /\ CompleteInv /\ [Next]_vars => CompleteInv'
  <2> SUFFICES ASSUME ReadInv, CompleteInv, [Next]_vars PROVE CompleteInv'
    OBVIOUS
  <2>1. CASE UNCHANGED vars
    BY <2>1 DEF vars, clientVars, readVars, CompleteInv, SoFarInv, ShownInFull
  <2> QED
    BY <2>1, CallbackComplete, UpdateTagsComplete DEF Next
<1>3. ReadInv /\ CompleteInv => CompleteRead
  <2> SUFFICES ASSUME ReadInv, CompleteInv, tag_json # NoJson, ~tag_json.scanning,
                      ~rd[nreads].glitch
               PROVE  CompleteRead
    BY DEF CompleteRead, ReadInv, ReportInv, Current, InfoIsCurrent
  <2>1. /\ tag_json.read = nreads /\ tag_json.sectors = rd[nreads].sectors
        /\ tag_json.records = rd[nreads].records
        /\ tag_json.raw = rd[nreads].raw /\ Everything(rd[nreads])
    BY DEF CompleteInv, ShownInFull, ReadInv, ReportInv, Current, InfoIsCurrent,
       ShowsSectors
  <2> QED
    BY <2>1 DEF CompleteRead, Everything
<1> QED
  BY <1>1, <1>2, <1>3, ReadInvariant, PTL DEF Spec
=============================================================================
