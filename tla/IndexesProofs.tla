--------------------------- MODULE IndexesProofs ---------------------------
(***************************************************************************)
(* What clients know is right, for any number of clients that share the    *)
(* cache, any values, any number of saves, any size of batch and however   *)
(* many blocks are replaced, and whenever: an entry is only ever wrong if  *)
(* the very save that it speaks of was given up.  It takes that there is   *)
(* one contract (TwoContracts.cfg shows what happens otherwise).           *)
(*                                                                         *)
(* The invariant relates every entry, in the cache, in a client or in a    *)
(* payload, to the slot that its index stands for in the last block, or    *)
(* to the saves that were given up.  A mined block keeps what was          *)
(* allotted; and what a replaced one takes away was a save.                *)
(***************************************************************************)
EXTENDS IndexesTypeProofs

OneContract == \A d1, d2 \in Contracts : d1 = d2

----------------------------------------------------------------------------
(* The invariant *)

(* The slot of the index holds the word, or the save was given up. *)
RightAt(kind, v, i, st, gone) == st[SlotOf(kind, i)] = v \/ <<kind, i, v>> \in gone

(* Every entry of the map is right. *)
Right(map, kind, st, gone) == \A v \in DOMAIN map : RightAt(kind, v, map[v], st, gone)

AllRight(indexes, st, gone) == \A kind \in Kinds : Right(indexes[kind], kind, st, gone)

(* What a client knows is right, and what its payload refers to is right,  *)
(* and in use.                                                             *)
RunningRight(me, st, gone) == AllRight(me.indexes, st, gone) /\ AllRight(me.found, st, gone)

DoneRight(me, st, gone) ==
    /\ me.value # Zero
    /\ me.index \in Asked(me.kind)
    /\ RightAt(me.kind, me.value, me.index, st, gone)

ClientRight(me, st, gone) ==
    /\ me.pc \in Loading \cup {"ready"} => RunningRight(me, st[me.contract], gone[me.contract])
    /\ me.pc = "sent" => DoneRight(me, st[me.contract], gone[me.contract])

RightInv ==
    /\ \A contract \in Contracts : AllRight(cache.indexes, storage[contract], undone[contract])
    /\ \A c \in Clients : ClientRight(client[c], storage, undone)

(* The saves that a contract holds are what its slots hold. *)
LEMMA SavesOfSlots ==
    ASSUME NEW kind \in Kinds, NEW i \in Asked(kind), NEW v \in Values, v # Zero,
           NEW st, InBounds(st)
    PROVE  <<kind, i, v>> \in Saves(st) <=> st[SlotOf(kind, i)] = v
  <1>1. ReadIndex(kind, st, i) = st[SlotOf(kind, i)]
    BY SlotOfIndex
  <1>2. ASSUME st[SlotOf(kind, i)] = v
        PROVE  i \in 1 .. MaxSaves /\ i < Total(kind, st)
    <2>1. i \in 1 .. Count(kind, st)
      BY <1>2, InUseIsAllotted
    <2>2. /\ Count(kind, st) \in Nat /\ Count(kind, st) <= MaxSaves /\ MaxSaves \in Nat
          /\ Total(kind, st) = Count(kind, st) + 1
      BY AllottedIsAsked, TotalOfCount, IndexesAssumption
    <2>3. QED
      BY <2>1, <2>2
  <1>3. QED
    BY <1>1, <1>2 DEF Saves, Values

(* Nothing is wrong of nothing. *)
LEMMA NothingIsRight == \A st, gone : AllRight(NoIndexes, st, gone)
  BY NothingKnown DEF AllRight, Right

----------------------------------------------------------------------------
(* The steps *)

(* An entry that is right stays so, whatever happens to the chain: what it *)
(* speaks of was allotted, and is lost only when it is given up.           *)
LEMMA EntrySurvives ==
    ASSUME TypeInv, ChainStep, NEW contract \in Contracts, NEW kind \in Kinds,
           NEW i \in Asked(kind), NEW v \in Values, v # Zero,
           RightAt(kind, v, i, storage[contract], undone[contract])
    PROVE  RightAt(kind, v, i, storage'[contract], undone'[contract])
  <1> DEFINE st == storage[contract]
             new == storage'[contract]
  <1>1. ChainInv
    BY DEF TypeInv
  <1>2. ChainInv'
    BY <1>1, ChainGrows
  <1>3. InBounds(st) /\ InBounds(new)
    BY <1>1, <1>2 DEF ChainInv, Chains
  <1>4. CASE ChainExtends(storage, storage') /\ undone' = undone
    <2>1. CASE st[SlotOf(kind, i)] = v
      <3>1. i \in 1 .. Count(kind, st) /\ Extends(st, new)
        BY <1>3, <1>4, <2>1, InUseIsAllotted DEF ChainExtends
      <3>2. QED
        BY <2>1, <3>1 DEF Extends, RightAt
    <2>2. CASE <<kind, i, v>> \in undone[contract]
      BY <1>4, <2>2 DEF RightAt
    <2>3. QED
      BY <2>1, <2>2 DEF RightAt
  <1>5. CASE GivesUp(contract)
    <2>1. <<kind, i, v>> \in Saves(st) \/ <<kind, i, v>> \in undone[contract]
      BY <1>3, SavesOfSlots DEF RightAt
    <2>2. <<kind, i, v>> \in Saves(new) \/ <<kind, i, v>> \in undone'[contract]
      BY <1>5, <2>1 DEF GivesUp
    <2>3. QED
      BY <1>3, <2>2, SavesOfSlots DEF RightAt
  <1>6. QED
    BY <1>1, <1>4, <1>5, ChainGrows

(* And so does all that is known. *)
LEMMA RightSurvives ==
    ASSUME TypeInv, ChainStep, NEW contract \in Contracts, NEW indexes \in Indexing,
           AllRight(indexes, storage[contract], undone[contract])
    PROVE  AllRight(indexes, storage'[contract], undone'[contract])
  <1> SUFFICES ASSUME NEW kind \in Kinds, NEW v \in DOMAIN indexes[kind]
               PROVE  RightAt(kind, v, indexes[kind][v], storage'[contract], undone'[contract])
    BY DEF AllRight, Right
  <1>1. indexes[kind] \in Maps(kind)
    BY DEF Indexing
  <1>2. indexes[kind][v] \in Asked(kind) /\ v \in Values /\ v # Zero
    BY <1>1, MapOfKind
  <1>3. RightAt(kind, v, indexes[kind][v], storage[contract], undone[contract])
    BY DEF AllRight, Right
  <1>4. QED
    BY <1>2, <1>3, EntrySurvives

(* A block is mined, or blocks are given up. *)
LEMMA ChainRight ==
    ASSUME TypeInv, RightInv, ChainStep
    PROVE  RightInv'
  <1>1. cache.indexes \in Indexing /\ cache' = cache /\ client' = client
    BY ChainGrows DEF TypeInv, Files
  <1>2. \A contract \in Contracts :
           AllRight(cache.indexes, storage'[contract], undone'[contract])
    BY <1>1, RightSurvives DEF RightInv
  <1>3. ASSUME NEW c \in Clients
        PROVE  ClientRight(client[c], storage', undone')
    <2> DEFINE me == client[c]
               st == storage[me.contract]
               gone == undone[me.contract]
    <2>1. ClientInv(me) /\ ClientRight(me, storage, undone)
      BY DEF TypeInv, RightInv
    <2>2. CASE me.pc \in Loading \cup {"ready"}
      <3>1. me.contract \in Contracts /\ me.indexes \in Indexing /\ me.found \in Indexing
        BY <2>1, <2>2, PlaceTells DEF RunningInv, Running
      <3>2. AllRight(me.indexes, st, gone) /\ AllRight(me.found, st, gone)
        BY <2>1, <2>2 DEF ClientRight, RunningRight
      <3>3. RunningRight(me, storage'[me.contract], undone'[me.contract])
        BY <3>1, <3>2, RightSurvives DEF RunningRight
      <3>4. me.pc # "sent"
        BY <2>2 DEF Loading
      <3>5. QED
        BY <3>3, <3>4 DEF ClientRight
    <2>3. CASE me.pc = "sent"
      <3>1. me.contract \in Contracts /\ me.kind \in Kinds /\ me.value \in Values
        BY <2>1, <2>3, PlaceTells DEF Done
      <3>2. DoneRight(me, st, gone)
        BY <2>1, <2>3 DEF ClientRight
      <3>3. RightAt(me.kind, me.value, me.index, storage'[me.contract], undone'[me.contract])
        BY <3>1, <3>2, EntrySurvives DEF DoneRight
      <3>4. DoneRight(me, storage'[me.contract], undone'[me.contract])
        BY <3>2, <3>3 DEF DoneRight
      <3>5. me.pc \notin Loading \cup {"ready"}
        BY <2>3 DEF Loading
      <3>6. QED
        BY <3>4, <3>5 DEF ClientRight
    <2>4. QED
      BY <2>2, <2>3 DEF ClientRight
  <1>4. QED
    BY <1>1, <1>2, <1>3 DEF RightInv

(* A client goes on, and has perhaps written the cache. *)
LEMMA BecomeRight ==
    ASSUME RightInv, NEW c \in Clients, NEW next, Goes(c, next),
           ClientRight(next, storage, undone), UNCHANGED chainVars,
           \A contract \in Contracts : AllRight(cache'.indexes, storage[contract], undone[contract])
    PROVE  RightInv'
  <1>1. storage' = storage /\ undone' = undone
    BY DEF chainVars
  <1>2. QED
    BY <1>1 DEF RightInv, Goes

(* A client that runs knows what is right. *)
LEMMA RunningIsRight ==
    ASSUME TypeInv, RightInv, NEW c \in Clients, RunningInv(client[c])
    PROVE  LET me == client[c]
               st == storage[me.contract]
             gone == undone[me.contract]
           IN  /\ me \in Running /\ me.pc \in Loading \cup {"ready"}
               /\ me.contract \in Contracts /\ me.kind \in Kinds
               /\ me.indexes \in Indexing /\ me.found \in Indexing
               /\ InBounds(st)
               /\ AllRight(me.indexes, st, gone) /\ AllRight(me.found, st, gone)
  <1>1. client[c] \in Running
    BY DEF RunningInv
  <1>2. ClientRight(client[c], storage, undone)
    BY DEF RightInv
  <1>3. QED
    BY <1>1, <1>2, MinedInBounds DEF ClientRight, RunningRight, Running

(* A client starts, and believes what is in the cache. *)
LEMMA StartRight ==
    ASSUME TypeInv, RightInv, NEW c \in Clients, NEW contract \in Contracts, Start(c, contract)
    PROVE  RightInv'
  <1> DEFINE next == NewClient(contract)
  <1>1. /\ next.pc = "started" /\ next.contract = contract /\ next.found = NoIndexes
        /\ next.indexes = cache.indexes
    BY DEF NewClient
  <1>2. ClientRight(next, storage, undone)
    BY <1>1, NothingIsRight DEF ClientRight, RunningRight, RightInv
  <1>3. Goes(c, next) /\ UNCHANGED <<chainVars, cache>>
    BY StartTyped
  <1>4. QED
    BY <1>2, <1>3, BecomeRight DEF RightInv

(* A client is told a total. *)
LEMMA TotalsRight ==
    ASSUME TypeInv, RightInv, NEW c \in Clients, NEW kind \in Kinds,
           client[c].pc \in Loading, GetTotals(c, kind)
    PROVE  RightInv'
  <1> DEFINE me == client[c]
             next == [me EXCEPT !.pc = "slots", !.kind = kind,
                                !.next = FirstAsked(kind, me.indexes[kind]),
                                !.total[kind] = Count(kind, Skipped[me.contract]) + 1]
  <1>1. RunningInv(me) /\ Goes(c, next) /\ UNCHANGED <<chainVars, cache>>
    BY TotalsTyped
  <1>2. /\ next.pc = "slots" /\ next.contract = me.contract
        /\ next.indexes = me.indexes /\ next.found = me.found
    BY <1>1 DEF RunningInv, Running
  <1>3. ClientRight(next, storage, undone)
    BY <1>1, <1>2, RunningIsRight DEF ClientRight, RunningRight
  <1>4. QED
    BY <1>1, <1>3, BecomeRight DEF RightInv

(* A client reads some slots of the last block. *)
LEMMA ReadRight ==
    ASSUME TypeInv, RightInv, NEW c \in Clients, ReadSlots(c)
    PROVE  RightInv'
  <1> DEFINE me == client[c]
             kind == me.kind
             st == storage[me.contract]
             gone == undone[me.contract]
             batch == GenBatch(me.next, me.total[kind])
             answer == ParseBatch(kind, st, batch)
             merged == Merge(me.found[kind], answer)
             next == [me EXCEPT !.next = @ + BatchSize, !.found[kind] = merged]
  <1>1. /\ RunningInv(me) /\ batch \subseteq Asked(kind) /\ answer \in Maps(kind)
        /\ Goes(c, next) /\ UNCHANGED <<chainVars, cache>> /\ me.pc = "slots"
    BY ReadTyped DEF ReadSlots
  <1>2. /\ me \in Running /\ kind \in Kinds /\ InBounds(st) /\ me.found \in Indexing
        /\ AllRight(me.indexes, st, gone) /\ AllRight(me.found, st, gone)
    BY <1>1, RunningIsRight
  <1>3. Right(answer, kind, st, gone)
    <2> SUFFICES ASSUME NEW v \in DOMAIN answer
                 PROVE  RightAt(kind, v, answer[v], st, gone)
      BY DEF Right
    <2>1. QED
      BY <1>1, <1>2, AnswerEntry DEF RightAt
  <1>4. Right(merged, kind, st, gone)
    <2> SUFFICES ASSUME NEW v \in DOMAIN merged
                 PROVE  RightAt(kind, v, merged[v], st, gone)
      BY DEF Right
    <2>1. \/ v \in DOMAIN answer /\ merged[v] = answer[v]
          \/ v \in DOMAIN me.found[kind] /\ merged[v] = me.found[kind][v]
      BY MergedEntry
    <2>2. QED
      BY <1>2, <1>3, <2>1 DEF AllRight, Right
  <1>5. /\ next.pc = "slots" /\ next.contract = me.contract /\ next.indexes = me.indexes
        /\ \A other \in Kinds :
              next.found[other] = IF other = kind THEN merged ELSE me.found[other]
    BY <1>1, <1>2 DEF Running, Indexing
  <1>6. AllRight(next.found, st, gone)
    BY <1>2, <1>4, <1>5 DEF AllRight
  <1>7. ClientRight(next, storage, undone)
    BY <1>2, <1>5, <1>6 DEF ClientRight, RunningRight
  <1>8. QED
    BY <1>1, <1>7, BecomeRight DEF RightInv

(* What was found completes what was known, and the cache is emptied. *)
LEMMA OpenRight ==
    ASSUME TypeInv, RightInv, NEW c \in Clients, OpenCache(c)
    PROVE  RightInv'
  <1> DEFINE me == client[c]
             st == storage[me.contract]
             gone == undone[me.contract]
             all == [kind \in Kinds |-> Merge(me.indexes[kind], me.found[kind])]
             next == [me EXCEPT !.pc = "writing", !.found = NoIndexes, !.indexes = all]
  <1>1. RunningInv(me) /\ Goes(c, next) /\ cache' = Garbled /\ UNCHANGED chainVars
    BY OpenTyped
  <1>2. me \in Running /\ AllRight(me.indexes, st, gone) /\ AllRight(me.found, st, gone)
    BY <1>1, RunningIsRight
  <1>3. AllRight(all, st, gone)
    <2> SUFFICES ASSUME NEW kind \in Kinds, NEW v \in DOMAIN all[kind]
                 PROVE  RightAt(kind, v, all[kind][v], st, gone)
      BY DEF AllRight, Right
    <2>1. all[kind] = Merge(me.indexes[kind], me.found[kind])
      OBVIOUS
    <2>2. \/ v \in DOMAIN me.found[kind] /\ all[kind][v] = me.found[kind][v]
          \/ v \in DOMAIN me.indexes[kind] /\ all[kind][v] = me.indexes[kind][v]
      BY <2>1, MergedEntry
    <2>3. QED
      BY <1>2, <2>2 DEF AllRight, Right
  <1>4. /\ next.pc = "writing" /\ next.contract = me.contract /\ next.found = NoIndexes
        /\ next.indexes = all
    BY <1>2 DEF Running
  <1>5. ClientRight(next, storage, undone)
    BY <1>3, <1>4, NothingIsRight DEF ClientRight, RunningRight
  <1>6. \A contract \in Contracts : AllRight(cache'.indexes, storage[contract], undone[contract])
    BY <1>1, NothingIsRight DEF Garbled
  <1>7. QED
    BY <1>1, <1>5, <1>6, BecomeRight

(* The cache is written, for whatever contract is asked next. *)
LEMMA WriteRight ==
    ASSUME OneContract, TypeInv, RightInv, NEW c \in Clients, WriteCache(c)
    PROVE  RightInv'
  <1> DEFINE me == client[c]
             next == [me EXCEPT !.pc = "ready"]
  <1>1. /\ RunningInv(me) /\ Goes(c, next) /\ cache' \in {Garbled, File(me.indexes)}
        /\ UNCHANGED chainVars
    BY WriteTyped
  <1>2. /\ me \in Running /\ me.contract \in Contracts
        /\ AllRight(me.indexes, storage[me.contract], undone[me.contract])
        /\ AllRight(me.found, storage[me.contract], undone[me.contract])
    BY <1>1, RunningIsRight
  <1>3. /\ next.pc = "ready" /\ next.contract = me.contract
        /\ next.indexes = me.indexes /\ next.found = me.found
    BY <1>2 DEF Running
  <1>4. ClientRight(next, storage, undone)
    BY <1>2, <1>3 DEF ClientRight, RunningRight
  <1>5. ASSUME NEW contract \in Contracts
        PROVE  AllRight(cache'.indexes, storage[contract], undone[contract])
    <2>1. contract = me.contract
      BY <1>2 DEF OneContract
    <2>2. CASE cache' = File(me.indexes)
      BY <1>2, <2>1, <2>2 DEF File
    <2>3. CASE cache' = Garbled
      BY <2>3, NothingIsRight DEF Garbled
    <2>4. QED
      BY <1>1, <2>2, <2>3
  <1>6. QED
    BY <1>1, <1>4, <1>5, BecomeRight

(* A payload is made of an index that is right. *)
LEMMA CompressRight ==
    ASSUME TypeInv, RightInv, NEW c \in Clients, NEW kind \in Kinds, NEW v, Compress(c, kind, v)
    PROVE  RightInv'
  <1> DEFINE me == client[c]
             next == [pc |-> "sent", contract |-> me.contract, kind |-> kind,
                      value |-> v, index |-> me.indexes[kind][v], since |-> me.since]
  <1>1. /\ RunningInv(me) /\ v \in DOMAIN me.indexes[kind] /\ Goes(c, next)
        /\ UNCHANGED <<chainVars, cache>>
    BY CompressTyped
  <1>2. me.indexes \in Indexing /\ AllRight(me.indexes, storage[me.contract], undone[me.contract])
    BY <1>1, RunningIsRight
  <1>3. /\ v # Zero /\ me.indexes[kind][v] \in Asked(kind)
        /\ RightAt(kind, v, me.indexes[kind][v], storage[me.contract], undone[me.contract])
    BY <1>1, <1>2, MapOfKind DEF Indexing, AllRight, Right
  <1>4. DoneRight(next, storage[me.contract], undone[me.contract])
    BY <1>3 DEF DoneRight
  <1>5. ClientRight(next, storage, undone)
    BY <1>4 DEF ClientRight, Loading
  <1>6. QED
    BY <1>1, <1>5, BecomeRight DEF RightInv

(* The invariant, after any step. *)
LEMMA StepRight ==
    ASSUME OneContract, TypeInv, RightInv, [Next]_vars
    PROVE  RightInv'
  <1>1. CASE ChainStep
    BY <1>1, ChainRight
  <1>2. CASE \E c \in Clients, contract \in Contracts : Start(c, contract)
    BY <1>2, StartRight
  <1>3. CASE \E c \in Clients : GetTotalAddresses(c) \/ GetTotalBytes32(c)
    <2> PICK c \in Clients : GetTotalAddresses(c) \/ GetTotalBytes32(c)
      BY <1>3
    <2>1. PICK kind \in Kinds : client[c].pc \in Loading /\ GetTotals(c, kind)
      BY DEF GetTotalAddresses, GetTotalBytes32, SlotsRead, Loading, Kinds
    <2>2. QED
      BY <2>1, TotalsRight
  <1>4. CASE \E c \in Clients : ReadSlots(c)
    BY <1>4, ReadRight
  <1>5. CASE \E c \in Clients : OpenCache(c)
    BY <1>5, OpenRight
  <1>6. CASE \E c \in Clients : WriteCache(c)
    BY <1>6, WriteRight
  <1>7. CASE \E c \in Clients, kind \in Kinds :
                \E v \in AddressValues \cup Bytes32Values : Compress(c, kind, v)
    BY <1>7, CompressRight
  <1>8. ASSUME NEW c \in Clients, End(c)
        PROVE  RightInv'
    <2>1. Goes(c, Idle) /\ UNCHANGED <<chainVars, cache>>
      BY <1>8, EndTyped
    <2>2. ClientRight(Idle, storage, undone)
      BY DEF ClientRight, Loading, Idle
    <2>3. QED
      BY <2>1, <2>2, BecomeRight DEF RightInv
  <1>9. CASE RemoveCache
    BY <1>9, NothingIsRight DEF RemoveCache, RightInv, Missing, chainVars
  <1>10. CASE UNCHANGED vars
    BY <1>10 DEF vars, chainVars, RightInv
  <1>11. QED
    BY <1>1, <1>2, <1>3, <1>4, <1>5, <1>6, <1>7, <1>8, <1>9, <1>10 DEF Next, ChainStep

----------------------------------------------------------------------------
(* The theorems *)

(* The invariant says what is promised. *)
LEMMA RightImplies ==
    ASSUME TypeInv, RightInv
    PROVE  IndexesSound /\ PayloadsDecode
  <1>1. ASSUME NEW contract \in Contracts, NEW indexes \in Indexing,
               AllRight(indexes, storage[contract], undone[contract])
        PROVE  SoundFor(indexes, contract)
    <2> SUFFICES ASSUME NEW kind \in Kinds, NEW v \in DOMAIN indexes[kind]
                 PROVE  \/ ReadIndex(kind, storage[contract], indexes[kind][v]) = v
                        \/ GivenUp(contract, kind, v, indexes[kind][v])
      BY DEF SoundFor
    <2>1. /\ indexes[kind][v] \in Asked(kind)
          /\ RightAt(kind, v, indexes[kind][v], storage[contract], undone[contract])
      BY <1>1, MapOfKind DEF Indexing, AllRight, Right
    <2>2. QED
      BY <2>1, SlotOfIndex DEF RightAt, GivenUp
  <1>2. ASSUME NEW c \in Clients, client[c].pc \in Loading \cup {"ready"}
        PROVE  /\ SoundFor(client[c].indexes, client[c].contract)
               /\ SoundFor(client[c].found, client[c].contract)
    <2>1. RunningInv(client[c])
      BY <1>2, PlaceTells DEF TypeInv
    <2>2. QED
      BY <1>1, <2>1, RunningIsRight
  <1>3. ASSUME NEW c \in Clients, client[c].pc = "sent"
        PROVE  \/ ReadIndex(client[c].kind, storage[client[c].contract], client[c].index)
                       = client[c].value
               \/ GivenUp(client[c].contract, client[c].kind, client[c].value, client[c].index)
    <2>1. client[c] \in Done /\ ClientRight(client[c], storage, undone)
      BY <1>3, PlaceTells DEF TypeInv, RightInv
    <2>2. QED
      BY <1>3, <2>1, SlotOfIndex DEF Done, ClientRight, DoneRight, RightAt, GivenUp
  <1>4. QED
    BY <1>2, <1>3 DEF IndexesSound, PayloadsDecode

(* The invariant, whatever clients do to the cache they share. *)
LEMMA RightInvariance ==
    ASSUME OneContract
    PROVE  Spec => []TypeInv /\ []RightInv
  <1>1. Init => RightInv
    BY NothingIsRight DEF Init, RightInv, Missing, ClientRight, Idle, Loading
  <1>2. TypeInv /\ RightInv /\ [Next]_vars => RightInv'
    BY StepRight
  <1>3. Spec => []TypeInv
    BY TypeInvariance
  <1>4. QED
    BY <1>1, <1>2, <1>3, PTL DEF Spec

(* No client ever believes in an index that means another word: not while  *)
(* it loads the storage that grows, nor after it has taken the indexes     *)
(* from a cache that others write at the same time; except for the entries *)
(* of the very saves that were given up with their blocks, whatever blocks *)
(* are replaced, and between whichever reads (LoadState, UseIndexes).      *)
THEOREM ClientsAreRight ==
    ASSUME OneContract
    PROVE  Spec => []IndexesSound
  BY RightInvariance, RightImplies, PTL

(* A payload decodes to the word it was made from, however long ago its    *)
(* index was read, whatever was saved since and whichever blocks were      *)
(* replaced, unless the save that it refers to was itself given up         *)
(* (EncodeWordOptimized, and READ_ADDRESS and READ_BYTES32 of the          *)
(* contract).                                                              *)
THEOREM PayloadsStayGood ==
    ASSUME OneContract
    PROVE  Spec => []PayloadsDecode
  BY RightInvariance, RightImplies, PTL

=============================================================================
