------------------------- MODULE CompletenessProofs -------------------------
(***************************************************************************)
(* What clients know is complete: a client that is done loading misses     *)
(* nothing below the totals it was told, although it asks only for the     *)
(* slots from the highest index of a cache that any client may have        *)
(* written.                                                                *)
(*                                                                         *)
(* The reason is that what is known of a kind never has gaps, and stays    *)
(* so while the storage grows, since the highest index of a right map was  *)
(* allotted, and with it every index below.  Once a block is replaced      *)
(* there may be gaps, because the highest index may be of a save that was  *)
(* given up; so these theorems are about chains where none is.             *)
(***************************************************************************)
EXTENDS IndexesProofs

NoReorganisation == MaxReorgs = 0

----------------------------------------------------------------------------
(* The invariant *)

(* What the slot of an index holds, if anything, is known. *)
Held(kind, st, i, known) ==
    st[SlotOf(kind, i)] # Zero => st[SlotOf(kind, i)] \in known

(* Everything at or below an index of the map is known. *)
NoGaps(map, known, kind, st) ==
    \A v \in DOMAIN map : \A i \in 1 .. map[v] : Held(kind, st, i, known)

Known(me, kind) == DOMAIN me.indexes[kind] \cup DOMAIN me.found[kind]

(* The slots below this index have been read, or need not be. *)
Reached(me, kind) == IF me.pc = "slots" /\ me.kind = kind THEN me.next ELSE me.total[kind]

KindComplete(me, kind, st) ==
    /\ NoGaps(me.indexes[kind], Known(me, kind), kind, st)
    /\ NoGaps(me.found[kind], Known(me, kind), kind, st)
    /\ me.total[kind] <= Count(kind, st) + 1
    /\ \A i \in 1 .. me.total[kind] - 1 :
          i < Reached(me, kind) => Held(kind, st, i, Known(me, kind))

(* A total is 0 before it is told, and what was found is merged at last. *)
Progress(me) ==
    /\ me.pc = "started" => \A kind \in Kinds : me.total[kind] = 0
    /\ me.pc = "slots" /\ me.kind = "address" => me.total["bytes32"] = 0
    /\ me.pc \in {"writing", "ready"} => me.found = NoIndexes

ClientComplete(me, st) ==
    me.pc \in Loading \cup {"ready"} =>
        /\ \A kind \in Kinds : KindComplete(me, kind, st[me.contract])
        /\ Progress(me)

CompleteInv ==
    /\ \A contract \in Contracts : undone[contract] = {}
    /\ \A contract \in Contracts, kind \in Kinds :
          NoGaps(cache.indexes[kind], DOMAIN cache.indexes[kind], kind, storage[contract])
    /\ \A c \in Clients : ClientComplete(client[c], storage)

(* The indexes of a right map were allotted. *)
LEMMA RightIsAllotted ==
    ASSUME NEW kind \in Kinds, NEW map \in Maps(kind), NEW st, InBounds(st),
           Right(map, kind, st, {}), NEW v \in DOMAIN map
    PROVE  map[v] \in 1 .. Count(kind, st)
  <1>1. map[v] \in Asked(kind) /\ v # Zero /\ st[SlotOf(kind, map[v])] = v
    BY MapOfKind DEF Right, RightAt
  <1>2. QED
    BY <1>1, InUseIsAllotted

(* What was allotted is held by whatever extends the storage. *)
LEMMA HeldSurvives ==
    ASSUME NEW kind \in Kinds, NEW st1, NEW st2, Extends(st1, st2),
           NEW i \in 1 .. Count(kind, st1), NEW known, Held(kind, st1, i, known)
    PROVE  Held(kind, st2, i, known)
  BY DEF Held, Extends

(* A right map without gaps stays so while the storage is extended. *)
LEMMA NoGapsSurvives ==
    ASSUME NEW kind \in Kinds, NEW map \in Maps(kind), NEW st1, NEW st2,
           InBounds(st1), Extends(st1, st2), Right(map, kind, st1, {}),
           NEW known, NoGaps(map, known, kind, st1)
    PROVE  NoGaps(map, known, kind, st2)
  <1> SUFFICES ASSUME NEW v \in DOMAIN map, NEW i \in 1 .. map[v]
               PROVE  Held(kind, st2, i, known)
    BY DEF NoGaps
  <1>1. map[v] \in 1 .. Count(kind, st1) /\ Count(kind, st1) \in Nat
    BY RightIsAllotted, AllottedIsAsked
  <1>2. i \in 1 .. Count(kind, st1) /\ Held(kind, st1, i, known)
    BY <1>1 DEF NoGaps
  <1>3. QED
    BY <1>2, HeldSurvives

(* What is known may be more, and is then without gaps still. *)
LEMMA NoGapsOfMore ==
    ASSUME NEW kind, NEW map, NEW st, NEW known, NEW more, known \subseteq more,
           NoGaps(map, known, kind, st)
    PROVE  NoGaps(map, more, kind, st)
  BY DEF NoGaps, Held

(* Nothing has no gaps. *)
LEMMA NothingHasNoGaps ==
    \A kind \in Kinds : \A known, st : NoGaps(NoIndexes[kind], known, kind, st)
  BY NothingKnown DEF NoGaps

----------------------------------------------------------------------------
(* The steps *)

(* Without replacements, whatever happens to the chain extends it. *)
LEMMA StorageGrows ==
    ASSUME NoReorganisation, TypeInv, ChainStep
    PROVE  /\ UNCHANGED <<undone, cache, client>>
           /\ \A contract \in Contracts :
                 /\ InBounds(storage[contract]) /\ InBounds(storage'[contract])
                 /\ Extends(storage[contract], storage'[contract])
  <1>1. ChainInv /\ reorgs \in 0 .. MaxReorgs /\ MaxReorgs = 0
    BY DEF TypeInv, ChainInv, NoReorganisation
  <1>2. /\ ChainInv' /\ UNCHANGED <<cache, client>>
        /\ (ChainExtends(storage, storage') /\ undone' = undone) \/ reorgs < MaxReorgs
    BY <1>1, ChainGrows
  <1>3. ChainExtends(storage, storage') /\ undone' = undone
    BY <1>1, <1>2
  <1>4. QED
    BY <1>1, <1>2, <1>3 DEF ChainInv, Chains, ChainExtends

(* A block is mined. *)
LEMMA ChainComplete ==
    ASSUME NoReorganisation, TypeInv, RightInv, CompleteInv, ChainStep
    PROVE  CompleteInv'
  <1>1. cache.indexes \in Indexing /\ cache' = cache /\ client' = client
    BY StorageGrows DEF TypeInv, Files
  <1>2. ASSUME NEW contract \in Contracts, NEW kind \in Kinds
        PROVE  NoGaps(cache.indexes[kind], DOMAIN cache.indexes[kind], kind, storage'[contract])
    <2>1. /\ cache.indexes[kind] \in Maps(kind)
          /\ Right(cache.indexes[kind], kind, storage[contract], {})
      BY <1>1 DEF Indexing, RightInv, AllRight, CompleteInv
    <2>2. /\ InBounds(storage[contract])
          /\ Extends(storage[contract], storage'[contract])
      BY StorageGrows
    <2>3. NoGaps(cache.indexes[kind], DOMAIN cache.indexes[kind], kind, storage[contract])
      BY DEF CompleteInv
    <2>4. QED
      BY <2>1, <2>2, <2>3, NoGapsSurvives
  <1>3. ASSUME NEW c \in Clients, client[c].pc \in Loading \cup {"ready"}, NEW kind \in Kinds
        PROVE  KindComplete(client[c], kind, storage'[client[c].contract])
    <2> DEFINE me == client[c]
               st == storage[me.contract]
               new == storage'[me.contract]
    <2>1. RunningInv(me)
      BY <1>3, PlaceTells DEF TypeInv
    <2>2. /\ me \in Running /\ me.contract \in Contracts /\ InBounds(st)
          /\ me.indexes[kind] \in Maps(kind) /\ me.found[kind] \in Maps(kind)
          /\ Right(me.indexes[kind], kind, st, {}) /\ Right(me.found[kind], kind, st, {})
      <3>1. /\ me \in Running /\ me.contract \in Contracts /\ InBounds(st)
            /\ me.indexes \in Indexing /\ me.found \in Indexing
            /\ AllRight(me.indexes, st, undone[me.contract])
            /\ AllRight(me.found, st, undone[me.contract])
        BY <2>1, RunningIsRight
      <3>2. undone[me.contract] = {}
        BY <3>1 DEF CompleteInv
      <3>3. QED
        BY <3>1, <3>2 DEF Indexing, AllRight
    <2>3. /\ Extends(st, new) /\ Count(kind, st) \in Nat /\ Count(kind, new) \in Nat
          /\ Count(kind, st) <= Count(kind, new) /\ me.total[kind] \in Nat
      BY <2>2, StorageGrows, AllottedIsAsked, IndexesAssumption DEF Extends, Running
    <2>4. KindComplete(me, kind, st)
      BY <1>3 DEF CompleteInv, ClientComplete
    <2>5. /\ NoGaps(me.indexes[kind], Known(me, kind), kind, new)
          /\ NoGaps(me.found[kind], Known(me, kind), kind, new)
      BY <2>2, <2>3, <2>4, NoGapsSurvives DEF KindComplete
    <2>6. me.total[kind] <= Count(kind, new) + 1
      BY <2>3, <2>4 DEF KindComplete
    <2>7. ASSUME NEW i \in 1 .. me.total[kind] - 1, i < Reached(me, kind)
          PROVE  Held(kind, new, i, Known(me, kind))
      <3>1. i \in 1 .. Count(kind, st)
        BY <2>3, <2>4 DEF KindComplete
      <3>2. Held(kind, st, i, Known(me, kind))
        BY <2>4, <2>7 DEF KindComplete
      <3>3. QED
        BY <2>3, <3>1, <3>2, HeldSurvives
    <2>8. QED
      BY <2>5, <2>6, <2>7 DEF KindComplete
  <1>4. \A contract \in Contracts : undone'[contract] = {}
    BY StorageGrows DEF CompleteInv
  <1>5. QED
    BY <1>1, <1>2, <1>3, <1>4 DEF CompleteInv, ClientComplete

(* A client goes on, and has perhaps written the cache. *)
LEMMA BecomeComplete ==
    ASSUME CompleteInv, NEW c \in Clients, NEW next, Goes(c, next),
           ClientComplete(next, storage), UNCHANGED chainVars,
           \A contract \in Contracts, kind \in Kinds :
               NoGaps(cache'.indexes[kind], DOMAIN cache'.indexes[kind], kind, storage[contract])
    PROVE  CompleteInv'
  <1>1. storage' = storage /\ undone' = undone
    BY DEF chainVars
  <1>2. QED
    BY <1>1 DEF CompleteInv, Goes

(* What is known of a client that runs. *)
LEMMA RunningIsComplete ==
    ASSUME TypeInv, RightInv, CompleteInv, NEW c \in Clients, RunningInv(client[c])
    PROVE  LET me == client[c]
           IN  /\ \A kind \in Kinds : KindComplete(me, kind, storage[me.contract])
               /\ Progress(me)
  <1>1. client[c].pc \in Loading \cup {"ready"}
    BY RunningIsRight
  <1>2. QED
    BY <1>1 DEF CompleteInv, ClientComplete

(* A client starts, and knows what is in the cache. *)
LEMMA StartComplete ==
    ASSUME TypeInv, CompleteInv, NEW c \in Clients, NEW contract \in Contracts,
           Start(c, contract)
    PROVE  CompleteInv'
  <1> DEFINE next == NewClient(contract)
             st == storage[contract]
  <1>1. /\ next.pc = "started" /\ next.contract = contract /\ next.found = NoIndexes
        /\ next.indexes = cache.indexes /\ next.total = [kind \in Kinds |-> 0]
    BY DEF NewClient
  <1>2. ASSUME NEW kind \in Kinds
        PROVE  KindComplete(next, kind, st)
    <2>1. Known(next, kind) = DOMAIN cache.indexes[kind] /\ next.total[kind] = 0
      BY <1>1, NothingKnown DEF Known
    <2>2. /\ NoGaps(next.indexes[kind], Known(next, kind), kind, st)
          /\ NoGaps(next.found[kind], Known(next, kind), kind, st)
      BY <1>1, <2>1, NothingHasNoGaps DEF CompleteInv
    <2>3. Count(kind, st) \in Nat
      BY MinedInBounds, AllottedIsAsked
    <2>4. QED
      BY <2>1, <2>2, <2>3 DEF KindComplete
  <1>3. Progress(next)
    BY <1>1 DEF Progress
  <1>4. Goes(c, next) /\ UNCHANGED <<chainVars, cache>>
    BY StartTyped
  <1>5. QED
    BY <1>1, <1>2, <1>3, <1>4, BecomeComplete DEF CompleteInv, ClientComplete

(* A client is told a total, and all it knows is below what it asks first. *)
LEMMA TotalsComplete ==
    ASSUME TypeInv, RightInv, CompleteInv, NEW c \in Clients, NEW kind \in Kinds,
           \/ client[c].pc = "started" /\ kind = "address"
           \/ SlotsRead(c, "address") /\ kind = "bytes32",
           GetTotals(c, kind)
    PROVE  CompleteInv'
  <1> DEFINE me == client[c]
             st == storage[me.contract]
             map == me.indexes[kind]
             total == Count(kind, Skipped[me.contract]) + 1
             next == [me EXCEPT !.pc = "slots", !.kind = kind, !.next = FirstAsked(kind, map),
                                !.total[kind] = total]
  <1>1. me.pc \in Loading
    BY DEF Loading, SlotsRead
  <1>2. RunningInv(me) /\ Goes(c, next) /\ UNCHANGED <<chainVars, cache>>
    BY <1>1, TotalsTyped
  <1>3. /\ me \in Running /\ me.contract \in Contracts /\ InBounds(st) /\ me.indexes \in Indexing
        /\ map \in Maps(kind) /\ Kinds = {"address", "bytes32"}
        /\ \A other \in Kinds : me.total[other] \in Nat
    BY <1>2, RunningIsRight, IndexesAssumption DEF Indexing, Running, Kinds
  <1>4. (\A other \in Kinds : KindComplete(me, other, st)) /\ Progress(me)
    BY <1>2, RunningIsComplete
  <1>5. /\ next.pc = "slots" /\ next.kind = kind /\ next.contract = me.contract
        /\ next.indexes = me.indexes /\ next.found = me.found /\ next.next = FirstAsked(kind, map)
        /\ \A other \in Kinds : next.total[other] = IF other = kind THEN total ELSE me.total[other]
    BY <1>3 DEF Running
  <1>6. \A other \in Kinds : Known(next, other) = Known(me, other)
    BY <1>5 DEF Known
  <1>7. KindComplete(next, kind, st)
    <2>1. /\ NoGaps(map, Known(me, kind), kind, st)
          /\ NoGaps(me.found[kind], Known(me, kind), kind, st)
      BY <1>4 DEF KindComplete
    <2>2. total \in Nat /\ total <= Count(kind, st) + 1
      <3>1. /\ Skipped \in Chains /\ ChainExtends(Skipped, storage)
        BY SkippedIsABlock DEF TypeInv, GetTotals
      <3>2. InBounds(Skipped[me.contract]) /\ Extends(Skipped[me.contract], st)
        BY <1>3, <3>1 DEF Chains, ChainExtends
      <3>3. Count(kind, Skipped[me.contract]) \in Nat /\ Count(kind, st) \in Nat
        BY <1>3, <3>2, AllottedIsAsked
      <3>4. QED
        BY <3>2, <3>3 DEF Extends
    <2>3. ASSUME NEW i \in 1 .. total - 1, i < FirstAsked(kind, map)
          PROVE  Held(kind, st, i, Known(me, kind))
      <3>1. i < MaxIndex(map) /\ MaxIndex(map) \in Nat
        BY <1>3, <2>2, <2>3, Highest DEF FirstAsked
      <3>2. PICK v \in DOMAIN map : map[v] = MaxIndex(map)
        BY <1>3, <2>2, <3>1, Highest
      <3>3. i \in 1 .. map[v]
        BY <2>2, <3>1, <3>2
      <3>4. QED
        BY <2>1, <3>3 DEF NoGaps
    <2>4. Reached(next, kind) = FirstAsked(kind, map) /\ next.total[kind] = total
      BY <1>5 DEF Reached
    <2>5. QED
      BY <1>5, <1>6, <2>1, <2>2, <2>3, <2>4 DEF KindComplete
  <1>8. ASSUME NEW other \in Kinds, other # kind
        PROVE  KindComplete(next, other, st)
    <2>1. KindComplete(me, other, st) /\ next.total[other] = me.total[other]
      BY <1>4, <1>5, <1>8
    <2>2. ASSUME NEW i \in 1 .. me.total[other] - 1
          PROVE  i < Reached(me, other)
      <3>1. CASE me.pc = "started"
        <4>1. me.total[other] = 0
          BY <1>4, <3>1 DEF Progress
        <4>2. QED
          BY <2>2, <4>1
      <3>2. CASE SlotsRead(c, "address") /\ kind = "bytes32"
        <4>1. other = "address" /\ Reached(me, other) = me.next /\ me.next >= me.total[other]
          BY <1>3, <1>8, <3>2 DEF Reached, SlotsRead
        <4>2. me.next \in Nat /\ me.total[other] \in Nat
          BY <1>3 DEF Running
        <4>3. QED
          BY <2>2, <4>1, <4>2
      <3>3. QED
        BY <3>1, <3>2
    <2>3. QED
      BY <1>5, <1>6, <2>1, <2>2 DEF KindComplete
  <1>9. Progress(next)
    BY <1>3, <1>4, <1>5 DEF Progress
  <1>10. ClientComplete(next, storage)
    BY <1>5, <1>7, <1>8, <1>9 DEF ClientComplete
  <1>11. QED
    BY <1>2, <1>10, BecomeComplete DEF CompleteInv

(* A client reads the slots of a batch, and with them everything up to the *)
(* last of them, or to the total.                                          *)
LEMMA ReadComplete ==
    ASSUME TypeInv, RightInv, CompleteInv, NEW c \in Clients, ReadSlots(c)
    PROVE  CompleteInv'
  <1> DEFINE me == client[c]
             kind == me.kind
             st == storage[me.contract]
             batch == GenBatch(me.next, me.total[kind])
             answer == ParseBatch(kind, st, batch)
             merged == Merge(me.found[kind], answer)
             next == [me EXCEPT !.next = @ + BatchSize, !.found[kind] = merged]
             more == Known(me, kind) \cup DOMAIN answer
  <1>1. /\ RunningInv(me) /\ batch \subseteq Asked(kind) /\ answer \in Maps(kind)
        /\ Goes(c, next) /\ UNCHANGED <<chainVars, cache>>
        /\ me.pc = "slots" /\ me.next < me.total[kind]
    BY ReadTyped DEF ReadSlots
  <1>2. /\ me \in Running /\ kind \in Kinds /\ InBounds(st)
        /\ me.found \in Indexing /\ me.found[kind] \in Maps(kind)
        /\ me.next \in Nat /\ First(kind) <= me.next
        /\ me.total[kind] \in 0 .. MaxSaves + 1 /\ me.total[kind] \in Nat
    BY <1>1, RunningIsRight, IndexesAssumption DEF RunningInv, Running, Indexing
  <1>3. (\A other \in Kinds : KindComplete(me, other, st)) /\ Progress(me)
    BY <1>1, RunningIsComplete
  <1>4. /\ next.pc = "slots" /\ next.kind = kind /\ next.contract = me.contract
        /\ next.indexes = me.indexes /\ next.total = me.total
        /\ next.next = me.next + BatchSize
        /\ \A other \in Kinds :
              next.found[other] = IF other = kind THEN merged ELSE me.found[other]
    BY <1>1, <1>2 DEF Running, Indexing
  <1>5. Known(next, kind) = more
    <2>1. DOMAIN merged = DOMAIN me.found[kind] \cup DOMAIN answer
      BY MergedDomain
    <2>2. QED
      BY <1>2, <1>4, <2>1 DEF Known
  <1>6. /\ batch \subseteq Asked(kind)
        /\ \A i \in Nat : me.next <= i /\ i < me.total[kind] /\ i < me.next + BatchSize
                              => i \in batch
        /\ \A j \in batch : \A i \in Nat : me.next <= i /\ i <= j => i \in batch
    BY <1>1, <1>2, BatchInBounds
  <1>7. ASSUME NEW i \in batch
        PROVE  Held(kind, st, i, more)
    <2>1. DOMAIN answer = {st[SlotOf(kind, j)] : j \in batch} \ {Zero}
      BY <1>1, <1>2, Answer
    <2>2. QED
      BY <2>1 DEF Held
  <1>8. ASSUME NEW i \in Nat, 1 <= i, i < me.next
        PROVE  Held(kind, st, i, more)
    <2>1. i \in 1 .. me.total[kind] - 1 /\ Reached(me, kind) = me.next
      BY <1>1, <1>2, <1>8 DEF Reached
    <2>2. Held(kind, st, i, Known(me, kind))
      BY <1>2, <1>3, <1>8, <2>1 DEF KindComplete
    <2>3. QED
      BY <2>2 DEF Held
  <1>9. KindComplete(next, kind, st)
    <2>1. NoGaps(next.indexes[kind], more, kind, st)
      BY <1>2, <1>3, <1>4, NoGapsOfMore DEF KindComplete
    <2>2. NoGaps(me.found[kind], more, kind, st)
      BY <1>2, <1>3, NoGapsOfMore DEF KindComplete
    <2>3. NoGaps(merged, more, kind, st)
      <3> SUFFICES ASSUME NEW v \in DOMAIN merged, NEW i \in 1 .. merged[v]
                   PROVE  Held(kind, st, i, more)
        BY DEF NoGaps
      <3>1. \/ v \in DOMAIN answer /\ merged[v] = answer[v]
            \/ v \in DOMAIN me.found[kind] /\ merged[v] = me.found[kind][v]
        BY MergedEntry
      <3>2. CASE v \in DOMAIN me.found[kind] /\ merged[v] = me.found[kind][v]
        BY <2>2, <3>2 DEF NoGaps
      <3>3. CASE v \in DOMAIN answer /\ merged[v] = answer[v]
        <4>1. merged[v] \in batch /\ merged[v] \in Asked(kind)
          BY <1>1, <1>2, <3>3, AnswerEntry
        <4>2. merged[v] \in Nat
          BY <1>2, <4>1, SlotOfIndex
        <4>3. i \in Nat /\ 1 <= i /\ i <= merged[v]
          BY <4>2
        <4>4. CASE i < me.next
          BY <1>8, <4>3, <4>4
        <4>5. CASE me.next <= i
          BY <1>6, <1>7, <4>1, <4>3, <4>5
        <4>6. QED
          BY <1>2, <4>3, <4>4, <4>5
      <3>4. QED
        BY <3>1, <3>2, <3>3
    <2>4. ASSUME NEW i \in 1 .. me.total[kind] - 1, i < me.next + BatchSize
          PROVE  Held(kind, st, i, more)
      <3>1. i \in Nat /\ 1 <= i /\ i < me.total[kind]
        BY <1>2, <2>4
      <3>2. CASE i < me.next
        BY <1>8, <3>1, <3>2
      <3>3. CASE me.next <= i
        BY <1>6, <1>7, <2>4, <3>1, <3>3
      <3>4. QED
        BY <1>2, <3>1, <3>2, <3>3
    <2>5. Reached(next, kind) = me.next + BatchSize
      BY <1>4 DEF Reached
    <2>6. me.total[kind] <= Count(kind, st) + 1
      BY <1>2, <1>3 DEF KindComplete
    <2>7. next.found[kind] = merged
      BY <1>2, <1>4
    <2> HIDE DEF next, merged, more
    <2>8. QED
      BY <1>4, <1>5, <2>1, <2>3, <2>4, <2>5, <2>6, <2>7 DEF KindComplete
  <1>10. ASSUME NEW other \in Kinds, other # kind
         PROVE  KindComplete(next, other, st)
    <2>1. Known(next, other) = Known(me, other) /\ Reached(next, other) = Reached(me, other)
      BY <1>1, <1>4, <1>10 DEF Known, Reached
    <2>2. QED
      BY <1>3, <1>4, <1>10, <2>1 DEF KindComplete
  <1>11. Progress(next)
    BY <1>1, <1>3, <1>4 DEF Progress
  <1>12. ClientComplete(next, storage)
    BY <1>4, <1>9, <1>10, <1>11 DEF ClientComplete
  <1>13. QED
    BY <1>1, <1>12, BecomeComplete DEF CompleteInv

(* What was found is merged into what was known, and the cache is emptied. *)
LEMMA OpenComplete ==
    ASSUME TypeInv, RightInv, CompleteInv, NEW c \in Clients, OpenCache(c)
    PROVE  CompleteInv'
  <1> DEFINE me == client[c]
             st == storage[me.contract]
             all == [kind \in Kinds |-> Merge(me.indexes[kind], me.found[kind])]
             next == [me EXCEPT !.pc = "writing", !.found = NoIndexes, !.indexes = all]
  <1>1. /\ RunningInv(me) /\ Goes(c, next) /\ cache' = Garbled /\ UNCHANGED chainVars
        /\ SlotsRead(c, "bytes32")
    BY OpenTyped DEF OpenCache
  <1>2. me \in Running /\ me.indexes \in Indexing /\ me.found \in Indexing /\ me.next \in Nat
    BY <1>1, RunningIsRight DEF Running
  <1>3. \A kind \in Kinds : KindComplete(me, kind, st)
    BY <1>1, RunningIsComplete
  <1>4. /\ next.pc = "writing" /\ next.contract = me.contract /\ next.found = NoIndexes
        /\ next.indexes = all /\ next.total = me.total
    BY <1>2 DEF Running
  <1>5. ASSUME NEW kind \in Kinds
        PROVE  KindComplete(next, kind, st)
    <2>1. /\ all[kind] = Merge(me.indexes[kind], me.found[kind])
          /\ me.indexes[kind] \in Maps(kind) /\ me.found[kind] \in Maps(kind)
      BY <1>2 DEF Indexing
    <2>2. DOMAIN all[kind] = DOMAIN me.indexes[kind] \cup DOMAIN me.found[kind]
      BY <2>1, MergedDomain
    <2>3. Known(next, kind) = Known(me, kind)
      BY <1>4, <2>2, NothingKnown DEF Known
    <2>4. NoGaps(all[kind], Known(me, kind), kind, st)
      <3> SUFFICES ASSUME NEW v \in DOMAIN all[kind], NEW i \in 1 .. all[kind][v]
                   PROVE  Held(kind, st, i, Known(me, kind))
        BY DEF NoGaps
      <3>1. \/ v \in DOMAIN me.found[kind] /\ all[kind][v] = me.found[kind][v]
            \/ v \in DOMAIN me.indexes[kind] /\ all[kind][v] = me.indexes[kind][v]
        BY <2>1, MergedEntry
      <3>2. QED
        BY <1>3, <3>1 DEF KindComplete, NoGaps
    <2>5. NoGaps(next.found[kind], Known(me, kind), kind, st)
      BY <1>4, NothingHasNoGaps
    <2>6. ASSUME NEW i \in 1 .. me.total[kind] - 1
          PROVE  i < Reached(me, kind)
      <3>1. me.total[kind] \in Nat
        BY <1>2, IndexesAssumption DEF Running
      <3>2. Reached(me, kind) >= me.total[kind] /\ Reached(me, kind) \in Nat
        BY <1>1, <1>2, <3>1 DEF Reached, SlotsRead
      <3>3. QED
        BY <2>6, <3>1, <3>2
    <2>7. /\ me.total[kind] <= Count(kind, st) + 1
          /\ \A i \in 1 .. me.total[kind] - 1 : Held(kind, st, i, Known(me, kind))
      BY <1>3, <2>6 DEF KindComplete
    <2> HIDE DEF next, all
    <2>8. QED
      BY <1>4, <2>3, <2>4, <2>5, <2>7 DEF KindComplete
  <1>6. Progress(next)
    BY <1>4 DEF Progress
  <1>7. ClientComplete(next, storage)
    BY <1>4, <1>5, <1>6 DEF ClientComplete
  <1>8. \A contract \in Contracts, kind \in Kinds :
           NoGaps(cache'.indexes[kind], DOMAIN cache'.indexes[kind], kind, storage[contract])
    BY <1>1, NothingHasNoGaps DEF Garbled
  <1>9. QED
    BY <1>1, <1>7, <1>8, BecomeComplete

(* The cache is written, for whatever contract is asked next. *)
LEMMA WriteComplete ==
    ASSUME OneContract, TypeInv, RightInv, CompleteInv, NEW c \in Clients, WriteCache(c)
    PROVE  CompleteInv'
  <1> DEFINE me == client[c]
             st == storage[me.contract]
             next == [me EXCEPT !.pc = "ready"]
  <1>1. /\ RunningInv(me) /\ Goes(c, next) /\ cache' \in {Garbled, File(me.indexes)}
        /\ UNCHANGED chainVars /\ me.pc = "writing"
    BY WriteTyped DEF WriteCache
  <1>2. me \in Running /\ me.contract \in Contracts
    BY <1>1, RunningIsRight
  <1>3. (\A kind \in Kinds : KindComplete(me, kind, st)) /\ Progress(me)
    BY <1>1, RunningIsComplete
  <1>4. /\ next.pc = "ready" /\ next.contract = me.contract /\ next.total = me.total
        /\ next.indexes = me.indexes /\ next.found = me.found
    BY <1>2 DEF Running
  <1>5. \A kind \in Kinds :
           Known(next, kind) = Known(me, kind) /\ Reached(next, kind) = Reached(me, kind)
    BY <1>1, <1>4 DEF Known, Reached
  <1>6. \A kind \in Kinds : KindComplete(next, kind, st)
    BY <1>3, <1>4, <1>5 DEF KindComplete
  <1>7. Progress(next)
    BY <1>1, <1>3, <1>4 DEF Progress
  <1>8. ClientComplete(next, storage)
    BY <1>4, <1>6, <1>7 DEF ClientComplete
  <1>9. ASSUME NEW contract \in Contracts, NEW kind \in Kinds
        PROVE  NoGaps(cache'.indexes[kind], DOMAIN cache'.indexes[kind], kind, storage[contract])
    <2>1. contract = me.contract
      BY <1>2 DEF OneContract
    <2>2. Known(me, kind) = DOMAIN me.indexes[kind]
      BY <1>1, <1>3, NothingKnown DEF Known, Progress
    <2>3. NoGaps(me.indexes[kind], DOMAIN me.indexes[kind], kind, st)
      BY <1>3, <2>2 DEF KindComplete
    <2>4. CASE cache' = File(me.indexes)
      BY <2>1, <2>3, <2>4 DEF File
    <2>5. CASE cache' = Garbled
      BY <2>5, NothingHasNoGaps DEF Garbled
    <2>6. QED
      BY <1>1, <2>4, <2>5
  <1>10. QED
    BY <1>1, <1>8, <1>9, BecomeComplete

(* A client that compresses, or ends, needs to know nothing any more. *)
LEMMA LeaveComplete ==
    ASSUME TypeInv, CompleteInv, NEW c \in Clients,
           \/ \E kind \in Kinds, v \in AddressValues \cup Bytes32Values : Compress(c, kind, v)
           \/ End(c)
    PROVE  CompleteInv'
  <1>1. PICK next : /\ Goes(c, next) /\ next.pc \in {"sent", "idle"}
                    /\ UNCHANGED <<chainVars, cache>>
    <2>1. CASE End(c)
      <3>1. Goes(c, Idle) /\ UNCHANGED <<chainVars, cache>>
        BY <2>1, EndTyped
      <3>2. Idle.pc = "idle"
        BY DEF Idle
      <3>3. QED
        BY <3>1, <3>2
    <2>2. ASSUME NEW kind \in Kinds, NEW v \in AddressValues \cup Bytes32Values,
                 Compress(c, kind, v)
          PROVE  \E next : /\ Goes(c, next) /\ next.pc \in {"sent", "idle"}
                           /\ UNCHANGED <<chainVars, cache>>
      <3> DEFINE sent == [pc |-> "sent", contract |-> client[c].contract, kind |-> kind,
                          value |-> v, index |-> client[c].indexes[kind][v],
                          since |-> client[c].since]
      <3>1. Goes(c, sent) /\ UNCHANGED <<chainVars, cache>>
        BY <2>2, CompressTyped
      <3>2. sent.pc = "sent"
        OBVIOUS
      <3>3. QED
        BY <3>1, <3>2
    <2>3. QED
      BY <2>1, <2>2
  <1>2. ClientComplete(next, storage)
    BY <1>1 DEF ClientComplete, Loading
  <1>3. QED
    BY <1>1, <1>2, BecomeComplete DEF CompleteInv

(* The invariant, after any step. *)
LEMMA StepComplete ==
    ASSUME OneContract, NoReorganisation, TypeInv, RightInv, CompleteInv, [Next]_vars
    PROVE  CompleteInv'
  <1>1. CASE ChainStep
    BY <1>1, ChainComplete
  <1>2. CASE \E c \in Clients, contract \in Contracts : Start(c, contract)
    BY <1>2, StartComplete
  <1>3. CASE \E c \in Clients : GetTotalAddresses(c) \/ GetTotalBytes32(c)
    <2> PICK c \in Clients : GetTotalAddresses(c) \/ GetTotalBytes32(c)
      BY <1>3
    <2>1. CASE GetTotalAddresses(c)
      BY <2>1, TotalsComplete DEF GetTotalAddresses, Kinds
    <2>2. CASE GetTotalBytes32(c)
      BY <2>2, TotalsComplete DEF GetTotalBytes32, Kinds
    <2>3. QED
      BY <2>1, <2>2
  <1>4. CASE \E c \in Clients : ReadSlots(c)
    BY <1>4, ReadComplete
  <1>5. CASE \E c \in Clients : OpenCache(c)
    BY <1>5, OpenComplete
  <1>6. CASE \E c \in Clients : WriteCache(c)
    BY <1>6, WriteComplete
  <1>7. CASE \E c \in Clients :
                \/ \E kind \in Kinds, v \in AddressValues \cup Bytes32Values : Compress(c, kind, v)
                \/ End(c)
    BY <1>7, LeaveComplete
  <1>8. CASE RemoveCache
    BY <1>8, NothingHasNoGaps DEF RemoveCache, CompleteInv, Missing, chainVars
  <1>9. CASE UNCHANGED vars
    BY <1>9 DEF vars, chainVars, CompleteInv
  <1>10. QED
    BY <1>1, <1>2, <1>3, <1>4, <1>5, <1>6, <1>7, <1>8, <1>9 DEF Next, ChainStep

----------------------------------------------------------------------------
(* The theorems *)

(* The invariant says what is promised. *)
LEMMA CompleteImplies ==
    ASSUME TypeInv, RightInv, CompleteInv
    PROVE  LoadIsComplete /\ CacheHasNoGaps
  <1>1. ASSUME NEW c \in Clients, client[c].pc = "ready", NEW kind \in Kinds,
               NEW i \in 1 .. client[c].total[kind] - 1,
               ReadIndex(kind, storage[client[c].contract], i) # Zero
        PROVE  ReadIndex(kind, storage[client[c].contract], i) \in DOMAIN client[c].indexes[kind]
    <2> DEFINE me == client[c]
               st == storage[me.contract]
    <2>1. RunningInv(me) /\ me.total[kind] \in 0 .. MaxSaves + 1
      BY <1>1, PlaceTells DEF TypeInv, RunningInv, Running
    <2>2. i \in Asked(kind) /\ me.total[kind] \in Nat
      BY <2>1, IndexesAssumption DEF Asked, First
    <2>3. KindComplete(me, kind, st) /\ me.found = NoIndexes
      BY <1>1, <2>1, RunningIsComplete DEF Progress
    <2>4. Held(kind, st, i, Known(me, kind))
      BY <1>1, <2>2, <2>3 DEF KindComplete, Reached
    <2>5. Known(me, kind) = DOMAIN me.indexes[kind]
      BY <2>3, NothingKnown DEF Known
    <2>6. ReadIndex(kind, st, i) = st[SlotOf(kind, i)]
      BY <2>2, SlotOfIndex
    <2>7. QED
      BY <1>1, <2>4, <2>5, <2>6 DEF Held
  <1>2. ASSUME NEW contract \in Contracts, NEW kind \in Kinds,
               NEW i \in 1 .. MaxIndex(cache.indexes[kind]),
               ReadIndex(kind, storage[contract], i) # Zero
        PROVE  ReadIndex(kind, storage[contract], i) \in DOMAIN cache.indexes[kind]
    <2> DEFINE map == cache.indexes[kind]
               st == storage[contract]
    <2>1. map \in Maps(kind)
      BY DEF TypeInv, Files, Indexing
    <2>2. MaxIndex(map) \in 0 .. 2 * MaxSaves /\ 2 * MaxSaves \in Nat
      BY <2>1, Highest, IndexesAssumption
    <2>3. i \in Asked(kind) /\ MaxIndex(map) # 0
      BY <2>2 DEF Asked, First
    <2>4. PICK v \in DOMAIN map : map[v] = MaxIndex(map)
      BY <2>1, <2>3, Highest
    <2>5. Held(kind, st, i, DOMAIN map)
      BY <2>4 DEF CompleteInv, NoGaps
    <2>6. ReadIndex(kind, st, i) = st[SlotOf(kind, i)]
      BY <2>3, SlotOfIndex
    <2>7. QED
      BY <1>2, <2>5, <2>6 DEF Held
  <1>3. QED
    BY <1>1, <1>2 DEF LoadIsComplete, CacheHasNoGaps

(* The invariant, whatever the clients do to the cache they share. *)
LEMMA CompleteInvariance ==
    ASSUME OneContract, NoReorganisation
    PROVE  Spec => []TypeInv /\ []RightInv /\ []CompleteInv
  <1>1. Init => CompleteInv
    BY NothingHasNoGaps DEF Init, CompleteInv, Missing, ClientComplete, Idle, Loading
  <1>2. TypeInv /\ RightInv /\ CompleteInv /\ [Next]_vars => CompleteInv'
    BY StepComplete
  <1>3. Spec => []TypeInv /\ []RightInv
    BY RightInvariance
  <1>4. QED
    BY <1>1, <1>2, <1>3, PTL DEF Spec

(* A client that is done loading knows every word that the contract had    *)
(* when it was asked for its totals: although it skips what is below the   *)
(* highest index of the cache, its batches may be of any size, and the     *)
(* contract goes on saving meanwhile (LoadStorage, LoadState).             *)
THEOREM LoadsAreComplete ==
    ASSUME OneContract, NoReorganisation
    PROVE  Spec => []LoadIsComplete
  BY CompleteInvariance, CompleteImplies, PTL

(* The cache knows every word at or below its highest index, so that it is *)
(* safe to skip them: although a batch may find words past the total, and  *)
(* of two clients that write the file the last one wins (LoadCachedData,   *)
(* SaveCachedData).                                                        *)
THEOREM CachesAreComplete ==
    ASSUME OneContract, NoReorganisation
    PROVE  Spec => []CacheHasNoGaps
  BY CompleteInvariance, CompleteImplies, PTL

=============================================================================
