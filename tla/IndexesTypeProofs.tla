------------------------- MODULE IndexesTypeProofs -------------------------
(***************************************************************************)
(* What never fails of module Indexes, whatever clients there are, however *)
(* many contracts and however often blocks are replaced: the types, and    *)
(* that the storage of a contract only grows from block to block.          *)
(*                                                                         *)
(* Both are about the slots that a client may ask for, by kind and index;  *)
(* they are never that of the counters.                                    *)
(***************************************************************************)
EXTENDS Indexes, NumberProofs, SequenceTheorems, TLAPS

Values == AddressValues \cup Bytes32Values

----------------------------------------------------------------------------
(* The storage of one contract *)

Addresses(st) == st[CountersSlot].hi
Bytes32s(st) == st[CountersSlot].lo

Count(kind, st) == IF kind = "address" THEN Addresses(st) ELSE Bytes32s(st)

(* Index 0 is that of no bytes32: its slot is the one of the counters. *)
First(kind) == IF kind = "address" THEN 0 ELSE 1

(* The indexes of the slots that a client may ask for. *)
Asked(kind) == First(kind) .. 2 * MaxSaves

(* The counters are within bounds, the slots hold what was saved, and those*)
(* that were not allotted hold nothing.                                    *)
InBounds(st) ==
    /\ st \in Storage
    /\ \A kind \in Kinds : Count(kind, st) <= MaxSaves
    /\ \A kind \in Kinds : \A i \in Asked(kind) :
          /\ st[SlotOf(kind, i)] \in Values \cup {Zero}
          /\ i \notin 1 .. Count(kind, st) => st[SlotOf(kind, i)] = Zero

(* Everything that was allotted before is still there. *)
Extends(st1, st2) ==
    \A kind \in Kinds :
        /\ Count(kind, st1) <= Count(kind, st2)
        /\ \A i \in 1 .. Count(kind, st1) : st2[SlotOf(kind, i)] = st1[SlotOf(kind, i)]

(* Slots that the proofs name are slots, and different ones. *)
LEMMA Slots ==
    /\ CountersSlot \in Word /\ Zero \in Word /\ CountersSlot = W(0, 0)
    /\ \A h, l \in 0 .. Half - 1 : W(h, l) \in Word
    /\ \A h, l : W(h, l).hi = h /\ W(h, l).lo = l
    /\ \A h1, l1, h2, l2 : W(h1, l1) = W(h2, l2) => h1 = h2 /\ l1 = l2
  <1>1. \A h, l : W(h, l).hi = h /\ W(h, l).lo = l
    BY DEF W
  <1>2. \A h1, l1, h2, l2 : W(h1, l1) = W(h2, l2) => h1 = h2 /\ l1 = l2
    BY <1>1
  <1>3. \A h, l \in 0 .. Half - 1 : W(h, l) \in Word
    BY DEF W, Word, Limb
  <1>4. CountersSlot = W(0, 0) /\ Zero = W(0, 0)
    BY DEF CountersSlot, Zero
  <1>5. 0 \in 0 .. Half - 1
    BY HalfAssumption
  <1>6. QED
    BY <1>1, <1>2, <1>3, <1>4, <1>5

(* The counters are two numbers. *)
LEMMA Counters ==
    ASSUME NEW st \in Storage
    PROVE  /\ Addresses(st) \in 0 .. Half - 1 /\ Bytes32s(st) \in 0 .. Half - 1
           /\ st[CountersSlot] = W(Addresses(st), Bytes32s(st))
           /\ AddressesNum(st) = W(0, Addresses(st))
           /\ Bytes32Num(st) = W(0, Bytes32s(st))
  <1>1. st[CountersSlot] \in Word
    BY Slots DEF Storage
  <1>2. QED
    BY <1>1 DEF Word, Limb, W, Addresses, Bytes32s, AddressesNum, Bytes32Num, Shr128, LowHalf

(* Adding 1 to a number below 2^128 - 1 does not carry. *)
LEMMA IncWithoutCarry ==
    ASSUME NEW h, NEW n \in Nat, n + 1 < Half
    PROVE  Inc(W(h, n)) = W(h, n + 1)
  <1>1. W(h, n).lo = n /\ W(h, n).hi = h
    BY DEF W
  <1>2. QED
    BY <1>1 DEF Inc

(* Joining two halves of a word that do not overlap loses neither. *)
LEMMA OrOfHalves ==
    ASSUME NEW a \in Nat, NEW b \in Nat
    PROVE  Or(W(a, 0), W(0, b)) = W(a, b)
  <1>1. OrLimb(a, 0) = a /\ OrLimb(0, b) = b
    BY DEF OrLimb
  <1>2. /\ W(a, 0).hi = a /\ W(a, 0).lo = 0
        /\ W(0, b).hi = 0 /\ W(0, b).lo = b
    BY DEF W
  <1>3. QED
    BY <1>1, <1>2 DEF Or

(* The slots that a client may ask for are slots, not the one of the       *)
(* counters, and the contract reads them for the same index.               *)
LEMMA SlotOfIndex ==
    ASSUME NEW kind \in Kinds, NEW i \in Asked(kind)
    PROVE  /\ i \in Nat
           /\ SlotOf(kind, i) \in Word
           /\ SlotOf(kind, i) # CountersSlot
           /\ \A st : ReadIndex(kind, st, i) = st[SlotOf(kind, i)]
  <1>1. i \in Nat /\ i + 1 < Half /\ i \in 0 .. Half - 1 /\ i + 1 \in 0 .. Half - 1
    BY HalfAssumption, IndexesAssumption DEF Asked, First
  <1>2. CASE kind = "address"
    <2>1. AddressSlot(W(0, i)) = W(0, i + 1)
      BY <1>1, IncWithoutCarry DEF AddressSlot
    <2>2. SlotOf(kind, i) = W(0, i + 1)
      BY <1>2 DEF SlotOf, AddressIndex
    <2>3. W(0, i + 1) \in Word /\ W(0, i + 1) # CountersSlot
      <3>1. i + 1 # 0 /\ 0 \in 0 .. Half - 1
        BY <1>1, HalfAssumption
      <3>2. QED
        BY <1>1, <3>1, Slots
    <2>4. QED
      BY <1>1, <1>2, <2>1, <2>2, <2>3 DEF ReadIndex, ReadAddress
  <1>3. CASE kind = "bytes32"
    <2>1. Bytes32Slot(W(0, i)) = W(i, 0)
      BY Slots DEF Bytes32Slot, Shl128
    <2>2. SlotOf(kind, i) = W(i, 0)
      BY <1>3 DEF SlotOf, Bytes32Index
    <2>3. W(i, 0) \in Word /\ W(i, 0) # CountersSlot
      <3>1. i # 0 /\ 0 \in 0 .. Half - 1
        BY <1>1, <1>3, HalfAssumption DEF Asked, First
      <3>2. QED
        BY <1>1, <3>1, Slots
    <2>4. QED
      BY <1>1, <1>3, <2>1, <2>2, <2>3 DEF ReadIndex, ReadBytes32
  <1>4. QED
    BY <1>2, <1>3 DEF Kinds

(* Different indexes, and the same index of another kind, have different   *)
(* slots.                                                                  *)
LEMMA SlotsDiffer ==
    ASSUME NEW kind1 \in Kinds, NEW i1 \in Asked(kind1),
           NEW kind2 \in Kinds, NEW i2 \in Asked(kind2),
           SlotOf(kind1, i1) = SlotOf(kind2, i2)
    PROVE  kind1 = kind2 /\ i1 = i2
  <1>1. \A i \in Asked("address") : SlotOf("address", i) = W(0, i + 1)
    BY DEF SlotOf, AddressIndex
  <1>2. \A i \in Asked("bytes32") : SlotOf("bytes32", i) = W(i, 0) /\ i # 0
    BY IndexesAssumption DEF SlotOf, Bytes32Index, Asked, First
  <1>3. i1 \in Nat /\ i2 \in Nat
    BY SlotOfIndex
  <1>4. QED
    BY <1>1, <1>2, <1>3, Slots DEF Kinds

(* An index that was allotted is one that a client may ask for. *)
LEMMA AllottedIsAsked ==
    ASSUME NEW kind \in Kinds, NEW st, InBounds(st)
    PROVE  /\ Count(kind, st) \in Nat /\ Count(kind, st) <= MaxSaves
           /\ 1 .. Count(kind, st) \subseteq Asked(kind)
  <1>1. Count(kind, st) \in Nat /\ Count(kind, st) <= MaxSaves
    BY Counters, HalfAssumption DEF InBounds, Count
  <1>2. QED
    BY <1>1, IndexesAssumption DEF Asked, First

(* A slot that holds something has been allotted. *)
LEMMA InUseIsAllotted ==
    ASSUME NEW kind \in Kinds, NEW st, InBounds(st), NEW i \in Asked(kind),
           st[SlotOf(kind, i)] # Zero
    PROVE  i \in 1 .. Count(kind, st)
  BY DEF InBounds

(* What a storage extends is extended by what extends that storage. *)
LEMMA ExtendsIsAnOrder ==
    /\ \A st : Extends(st, st) <=> \A kind \in Kinds : Count(kind, st) <= Count(kind, st)
    /\ \A st1, st2, st3 :
          InBounds(st1) /\ InBounds(st2) /\ InBounds(st3)
              /\ Extends(st1, st2) /\ Extends(st2, st3) => Extends(st1, st3)
  <1>1. \A st : Extends(st, st) <=> \A kind \in Kinds : Count(kind, st) <= Count(kind, st)
    BY DEF Extends
  <1>2. ASSUME NEW st1, NEW st2, NEW st3, InBounds(st1), InBounds(st2), InBounds(st3),
               Extends(st1, st2), Extends(st2, st3)
        PROVE  Extends(st1, st3)
    <2> SUFFICES ASSUME NEW kind \in Kinds
                 PROVE  /\ Count(kind, st1) <= Count(kind, st3)
                        /\ \A i \in 1 .. Count(kind, st1) :
                              st3[SlotOf(kind, i)] = st1[SlotOf(kind, i)]
      BY DEF Extends
    <2>1. /\ Count(kind, st1) \in Nat /\ Count(kind, st2) \in Nat /\ Count(kind, st3) \in Nat
          /\ Count(kind, st1) <= Count(kind, st2) /\ Count(kind, st2) <= Count(kind, st3)
      BY <1>2, AllottedIsAsked DEF Extends
    <2>2. QED
      BY <1>2, <2>1 DEF Extends
  <1>3. QED
    BY <1>1, <1>2

(* A contract starts with nothing saved. *)
LEMMA EmptyInBounds == InBounds(EmptyStorage)
  <1>1. EmptyStorage \in Storage
    BY Slots DEF EmptyStorage, Storage
  <1>2. EmptyStorage[CountersSlot] = Zero
    BY Slots DEF EmptyStorage
  <1>3. \A kind \in Kinds : Count(kind, EmptyStorage) = 0
    BY <1>2, Slots DEF Addresses, Bytes32s, Zero, Count
  <1>4. 0 <= MaxSaves
    BY IndexesAssumption
  <1>5. \A kind \in Kinds : \A i \in Asked(kind) : EmptyStorage[SlotOf(kind, i)] = Zero
    BY SlotOfIndex DEF EmptyStorage
  <1>6. QED
    BY <1>1, <1>3, <1>4, <1>5 DEF InBounds

(* A save takes one index more, whose slot was not allotted, and changes   *)
(* nothing else.                                                           *)
Saved(kind, st, v, new) ==
    LET n == Count(kind, st)
    IN  /\ new \in Storage
        /\ \A other \in Kinds : Count(other, new) = IF other = kind THEN n + 1 ELSE Count(other, st)
        /\ new[SlotOf(kind, n + 1)] = v
        /\ \A s \in Word : s # CountersSlot /\ s # SlotOf(kind, n + 1) => new[s] = st[s]

(* What is saved extends what was there. *)
LEMMA SavedExtends ==
    ASSUME NEW kind \in Kinds, NEW st, InBounds(st), NEW v \in Values, NEW new,
           Count(kind, st) < MaxSaves, Saved(kind, st, v, new)
    PROVE  InBounds(new) /\ Extends(st, new)
  <1> DEFINE n == Count(kind, st)
  <1>1. n \in Nat /\ n < MaxSaves /\ MaxSaves \in Nat /\ n + 1 \in Asked(kind)
    BY AllottedIsAsked, IndexesAssumption DEF Asked, First
  <1>2. ASSUME NEW other \in Kinds, NEW i \in Asked(other), ~ (other = kind /\ i = n + 1)
        PROVE  new[SlotOf(other, i)] = st[SlotOf(other, i)]
    <2>1. /\ SlotOf(other, i) \in Word /\ SlotOf(other, i) # CountersSlot
          /\ SlotOf(other, i) # SlotOf(kind, n + 1)
      BY <1>1, <1>2, SlotOfIndex, SlotsDiffer
    <2>2. QED
      BY <2>1 DEF Saved
  <1>3. ASSUME NEW other \in Kinds
        PROVE  Count(other, new) <= MaxSaves /\ Count(other, st) <= Count(other, new)
    BY <1>1, <1>3, AllottedIsAsked DEF Saved
  <1>4. ASSUME NEW other \in Kinds, NEW i \in Asked(other)
        PROVE  /\ new[SlotOf(other, i)] \in Values \cup {Zero}
               /\ i \notin 1 .. Count(other, new) => new[SlotOf(other, i)] = Zero
    <2>1. CASE other = kind /\ i = n + 1
      BY <1>1, <2>1 DEF Saved
    <2>2. CASE ~ (other = kind /\ i = n + 1)
      <3>1. /\ st[SlotOf(other, i)] \in Values \cup {Zero}
            /\ i \notin 1 .. Count(other, st) => st[SlotOf(other, i)] = Zero
        BY DEF InBounds
      <3>2. i \notin 1 .. Count(other, new) => i \notin 1 .. Count(other, st)
        BY <1>1, <1>3, AllottedIsAsked DEF Saved
      <3>3. QED
        BY <1>2, <2>2, <3>1, <3>2
    <2>3. QED
      BY <2>1, <2>2
  <1>5. InBounds(new)
    BY <1>3, <1>4 DEF InBounds, Saved
  <1>6. ASSUME NEW other \in Kinds, NEW i \in 1 .. Count(other, st)
        PROVE  new[SlotOf(other, i)] = st[SlotOf(other, i)]
    <2>1. i \in Asked(other) /\ Count(other, st) \in Nat
      BY <1>6, AllottedIsAsked
    <2>2. ~ (other = kind /\ i = n + 1)
      BY <1>1, <1>6
    <2>3. QED
      BY <1>2, <2>1, <2>2
  <1>7. QED
    BY <1>3, <1>5, <1>6 DEF Extends

(* SAVE_ADDRESS writes one slot, and the counters. *)
LEMMA AddressIsSaved ==
    ASSUME NEW st, InBounds(st), NEW v \in Values, Count("address", st) < MaxSaves
    PROVE  Saved("address", st, v, SaveAddress(st, v))
  <1> DEFINE n == Addresses(st)
             m == Bytes32s(st)
             new == SaveAddress(st, v)
  <1>1. /\ st \in Storage /\ n \in Nat /\ m \in Nat
        /\ n + 2 < Half /\ m < Half /\ n < MaxSaves
    BY Counters, HalfAssumption, IndexesAssumption DEF InBounds, Count, Kinds
  <1>2. NextAddress(st) = W(0, n + 1)
    <2>1. n + 1 < Half
      BY <1>1, HalfAssumption
    <2>2. Inc(W(0, n)) = W(0, n + 1)
      BY <1>1, <2>1, IncWithoutCarry
    <2>3. QED
      BY <1>1, <2>2, Counters DEF NextAddress
  <1>3. AddressSlot(NextAddress(st)) = W(0, n + 2)
    <2>1. n + 1 \in Nat /\ n + 1 + 1 < Half /\ n + 1 + 1 = n + 2
      BY <1>1
    <2>2. QED
      BY <1>2, <2>1, IncWithoutCarry DEF AddressSlot
  <1>4. Or(Shl128(NextAddress(st)), LowHalf(st[CountersSlot])) = W(n + 1, m)
    <2>1. Shl128(W(0, n + 1)) = W(n + 1, 0) /\ LowHalf(W(n, m)) = W(0, m)
      BY Slots DEF Shl128, LowHalf
    <2>2. Or(W(n + 1, 0), W(0, m)) = W(n + 1, m)
      BY <1>1, OrOfHalves
    <2>3. QED
      BY <1>1, <1>2, <2>1, <2>2, Counters
  <1>5. new = [[st EXCEPT ![CountersSlot] = W(n + 1, m)] EXCEPT ![W(0, n + 2)] = v]
    BY <1>3, <1>4 DEF SaveAddress, PullAddress
  <1>6. /\ W(0, n + 2) \in Word /\ W(n + 1, m) \in Word /\ W(0, n + 2) # CountersSlot
        /\ v \in Word
    <2>1. 0 \in 0 .. Half - 1 /\ n + 2 \in 0 .. Half - 1 /\ n + 1 \in 0 .. Half - 1
          /\ m \in 0 .. Half - 1 /\ n + 2 # 0
      BY <1>1, HalfAssumption
    <2>2. QED
      BY <2>1, Slots, IndexesAssumption DEF Values
  <1>7. /\ new \in Storage
        /\ new[CountersSlot] = W(n + 1, m)
        /\ new[W(0, n + 2)] = v
        /\ \A s \in Word : s # CountersSlot /\ s # W(0, n + 2) => new[s] = st[s]
    BY <1>1, <1>5, <1>6, Slots DEF Storage
  <1>8. Addresses(new) = n + 1 /\ Bytes32s(new) = m
    BY <1>7, Slots DEF Addresses, Bytes32s
  <1>9. SlotOf("address", n + 1) = W(0, n + 2)
    BY <1>1 DEF SlotOf, AddressIndex
  <1>10. QED
    BY <1>7, <1>8, <1>9 DEF Saved, Count, Kinds

(* SAVE_BYTES32 writes one slot, and the counters. *)
LEMMA Bytes32IsSaved ==
    ASSUME NEW st, InBounds(st), NEW v \in Values, Count("bytes32", st) < MaxSaves
    PROVE  Saved("bytes32", st, v, SaveBytes32(st, v))
  <1> DEFINE n == Addresses(st)
             m == Bytes32s(st)
             new == SaveBytes32(st, v)
  <1>1. /\ st \in Storage /\ n \in Nat /\ m \in Nat
        /\ n < Half /\ m + 1 < Half /\ m < MaxSaves
    BY Counters, HalfAssumption, IndexesAssumption DEF InBounds, Count, Kinds
  <1>2. NextBytes32(st) = W(0, m + 1)
    BY <1>1, Counters, IncWithoutCarry DEF NextBytes32
  <1>3. Bytes32Slot(NextBytes32(st)) = W(m + 1, 0)
    BY <1>2, Slots DEF Bytes32Slot, Shl128
  <1>4. Or(HighHalf(st[CountersSlot]), NextBytes32(st)) = W(n, m + 1)
    <2>1. HighHalf(W(n, m)) = W(n, 0)
      BY Slots DEF HighHalf
    <2>2. Or(W(n, 0), W(0, m + 1)) = W(n, m + 1)
      BY <1>1, OrOfHalves
    <2>3. QED
      BY <1>1, <1>2, <2>1, <2>2, Counters
  <1>5. new = [[st EXCEPT ![CountersSlot] = W(n, m + 1)] EXCEPT ![W(m + 1, 0)] = v]
    BY <1>3, <1>4 DEF SaveBytes32, PullBytes32
  <1>6. /\ W(m + 1, 0) \in Word /\ W(n, m + 1) \in Word /\ W(m + 1, 0) # CountersSlot
        /\ v \in Word
    <2>1. 0 \in 0 .. Half - 1 /\ m + 1 \in 0 .. Half - 1 /\ n \in 0 .. Half - 1 /\ m + 1 # 0
      BY <1>1, HalfAssumption
    <2>2. QED
      BY <2>1, Slots, IndexesAssumption DEF Values
  <1>7. /\ new \in Storage
        /\ new[CountersSlot] = W(n, m + 1)
        /\ new[W(m + 1, 0)] = v
        /\ \A s \in Word : s # CountersSlot /\ s # W(m + 1, 0) => new[s] = st[s]
    BY <1>1, <1>5, <1>6, Slots DEF Storage
  <1>8. Addresses(new) = n /\ Bytes32s(new) = m + 1
    BY <1>7, Slots DEF Addresses, Bytes32s
  <1>9. SlotOf("bytes32", m + 1) = W(m + 1, 0)
    BY DEF SlotOf, Bytes32Index
  <1>10. QED
    BY <1>7, <1>8, <1>9 DEF Saved, Count, Kinds

----------------------------------------------------------------------------
(* What a client makes of the slots *)

(* The maps that a client may have for a kind. *)
Maps(kind) == UNION {[S -> Asked(kind)] : S \in SUBSET (Values \ {Zero})}

Indexing == {indexes \in [Kinds -> IndexMaps] : \A kind \in Kinds : indexes[kind] \in Maps(kind)}

(* A map of a kind, entry by entry. *)
LEMMA MapOfKind ==
    ASSUME NEW kind \in Kinds, NEW map \in Maps(kind)
    PROVE  /\ map \in IndexMaps
           /\ map \in [DOMAIN map -> Asked(kind)]
           /\ DOMAIN map \subseteq Values \ {Zero}
           /\ \A v \in DOMAIN map :
                 v \in Values /\ v # Zero /\ map[v] \in Asked(kind) /\ map[v] \in 0 .. 2 * MaxSaves
  <1>1. PICK S \in SUBSET (Values \ {Zero}) : map \in [S -> Asked(kind)]
    BY DEF Maps
  <1>2. DOMAIN map = S
    BY <1>1
  <1>3. Asked(kind) \subseteq 0 .. 2 * MaxSaves + 1 /\ Asked(kind) \subseteq 0 .. 2 * MaxSaves
    BY IndexesAssumption DEF Asked, First
  <1>4. map \in [S -> 0 .. 2 * MaxSaves + 1]
    BY <1>1, <1>3
  <1>5. map \in IndexMaps
    BY <1>4 DEF IndexMaps, Values
  <1>6. QED
    BY <1>1, <1>2, <1>3, <1>5

(* Nothing is known of nothing. *)
LEMMA NothingKnown ==
    /\ NoIndexes \in Indexing
    /\ \A kind \in Kinds : NoIndexes[kind] \in Maps(kind) /\ DOMAIN NoIndexes[kind] = {}
  <1>1. NoMap = [v \in {} |-> 0] /\ DOMAIN NoMap = {}
    BY DEF NoMap
  <1>2. ASSUME NEW kind \in Kinds
        PROVE  NoMap \in Maps(kind)
    <2>1. NoMap \in [{} -> Asked(kind)]
      BY <1>1
    <2>2. QED
      BY <2>1 DEF Maps
  <1>3. \A kind \in Kinds : NoIndexes[kind] = NoMap
    BY DEF NoIndexes
  <1>4. NoIndexes \in [Kinds -> IndexMaps]
    BY <1>2, MapOfKind DEF NoIndexes
  <1>5. QED
    BY <1>1, <1>2, <1>3, <1>4 DEF Indexing

(* An entry of the answer to a batch is a word, at an index of the batch   *)
(* where it is.                                                            *)
LEMMA AnswerEntry ==
    ASSUME NEW kind \in Kinds, NEW st, InBounds(st), NEW batch, batch \subseteq Asked(kind),
           NEW answer, answer = ParseBatch(kind, st, batch), NEW v \in DOMAIN answer
    PROVE  /\ answer[v] \in batch /\ answer[v] \in Asked(kind)
           /\ v \in Values /\ v # Zero /\ st[SlotOf(kind, answer[v])] = v
  <1> DEFINE at == {i \in batch : st[SlotOf(kind, i)] = v}
  <1>1. /\ v \in {st[SlotOf(kind, i)] : i \in batch} \ {Zero}
        /\ answer[v] = Max(at)
    BY DEF ParseBatch
  <1>2. 2 * MaxSaves \in Nat /\ at \subseteq 0 .. 2 * MaxSaves /\ at # {}
    <2>1. 2 * MaxSaves \in Nat /\ batch \subseteq 0 .. 2 * MaxSaves
      BY IndexesAssumption DEF Asked, First
    <2>2. at # {}
      BY <1>1
    <2>3. QED
      BY <2>1, <2>2
  <1>3. Max(at) \in at
    BY <1>2, MaxIsGreatest
  <1>4. v \in Values
    BY <1>1 DEF InBounds
  <1>5. QED
    BY <1>1, <1>3, <1>4

(* The answer has the words that the slots hold, and no others. *)
LEMMA Answer ==
    ASSUME NEW kind \in Kinds, NEW st, InBounds(st), NEW batch, batch \subseteq Asked(kind),
           NEW answer, answer = ParseBatch(kind, st, batch)
    PROVE  /\ answer \in Maps(kind)
           /\ DOMAIN answer = {st[SlotOf(kind, i)] : i \in batch} \ {Zero}
  <1> DEFINE found == DOMAIN answer
  <1>1. /\ found = {st[SlotOf(kind, i)] : i \in batch} \ {Zero}
        /\ answer = [v \in found |-> answer[v]]
    BY DEF ParseBatch
  <1>2. ASSUME NEW v \in DOMAIN answer
        PROVE  answer[v] \in Asked(kind) /\ v \in Values \ {Zero}
    <2>1. answer[v] \in Asked(kind) /\ v \in Values /\ v # Zero
      BY AnswerEntry
    <2>2. QED
      BY <2>1
  <1>3. answer \in [found -> Asked(kind)] /\ found \in SUBSET (Values \ {Zero})
    BY <1>1, <1>2
  <1>4. QED
    BY <1>1, <1>3 DEF Maps

(* A map completed by another knows the words of both. *)
LEMMA MergedDomain ==
    \A old, new : DOMAIN Merge(old, new) = DOMAIN old \cup DOMAIN new
  BY DEF Merge

(* An entry of it is one of either. *)
LEMMA MergedEntry ==
    ASSUME NEW old, NEW new, NEW map, map = Merge(old, new), NEW v \in DOMAIN map
    PROVE  \/ v \in DOMAIN new /\ map[v] = new[v]
           \/ v \in DOMAIN old /\ map[v] = old[v]
  BY DEF Merge

(* And it is a map of their kind. *)
LEMMA Merged ==
    ASSUME NEW kind \in Kinds, NEW old \in Maps(kind), NEW new \in Maps(kind),
           NEW map, map = Merge(old, new)
    PROVE  map \in Maps(kind)
  <1> DEFINE both == DOMAIN old \cup DOMAIN new
  <1>1. map = [v \in both |-> IF v \in DOMAIN new THEN new[v] ELSE old[v]]
    BY DEF Merge
  <1>2. both \in SUBSET (Values \ {Zero})
    BY MapOfKind
  <1>3. \A v \in both : (IF v \in DOMAIN new THEN new[v] ELSE old[v]) \in Asked(kind)
    BY MapOfKind
  <1>4. map \in [both -> Asked(kind)]
    BY <1>1, <1>3
  <1>5. QED
    BY <1>2, <1>4 DEF Maps

(* The highest index of a map is one of its, or 0. *)
LEMMA Highest ==
    ASSUME NEW kind \in Kinds, NEW map \in Maps(kind)
    PROVE  /\ MaxIndex(map) \in 0 .. 2 * MaxSaves
           /\ MaxIndex(map) # 0 => \E v \in DOMAIN map : map[v] = MaxIndex(map)
  <1> DEFINE S == Range(map) \cup {0}
  <1>1. 2 * MaxSaves \in Nat
    BY IndexesAssumption
  <1>2. S \subseteq 0 .. 2 * MaxSaves /\ S # {}
    BY <1>1, MapOfKind DEF Range
  <1>3. Max(S) \in S
    BY <1>1, <1>2, MaxIsGreatest
  <1>4. QED
    BY <1>2, <1>3 DEF MaxIndex, Range

(* The indexes of a batch, although it may go past the total. *)
LEMMA BatchInBounds ==
    ASSUME NEW kind \in Kinds, NEW from \in Nat, NEW total \in 0 .. MaxSaves + 1,
           First(kind) <= from, from < total
    PROVE  /\ GenBatch(from, total) \subseteq Asked(kind)
           /\ \A i \in Nat : from <= i /\ i < total /\ i < from + BatchSize
                                 => i \in GenBatch(from, total)
           /\ \A j \in GenBatch(from, total) : \A i \in Nat :
                 from <= i /\ i <= j => i \in GenBatch(from, total)
  <1>1. BatchSize \in Nat /\ MaxSaves \in Nat /\ First(kind) \in Nat /\ total \in Nat
    BY IndexesAssumption DEF First
  <1>2. /\ Min({total, BatchSize}) \in Nat /\ Min({total, BatchSize}) <= total
        /\ Min({total, BatchSize}) \in {total, BatchSize}
    BY <1>1, MinOfTwo
  <1>3. from + Min({total, BatchSize}) - 1 <= 2 * MaxSaves
    BY <1>1, <1>2
  <1>4. \A i \in Nat : from <= i /\ i < total /\ i < from + BatchSize
                           => i <= from + Min({total, BatchSize}) - 1
    BY <1>1, <1>2
  <1> DEFINE last == from + Min({total, BatchSize}) - 1
  <1>5. GenBatch(from, total) = from .. last /\ last \in Int /\ Asked(kind) = First(kind) .. 2 * MaxSaves
    BY <1>1, <1>2 DEF GenBatch, Asked
  <1>6. last <= 2 * MaxSaves /\ 2 * MaxSaves \in Nat
    BY <1>1, <1>3
  <1> HIDE DEF last
  <1>7. from .. last \subseteq Asked(kind)
    BY <1>1, <1>5, <1>6
  <1>8. \A j \in from .. last : \A i \in Nat : from <= i /\ i <= j => i \in from .. last
    BY <1>5
  <1>9. \A i \in Nat : from <= i /\ i < total /\ i < from + BatchSize => i \in from .. last
    <2>1. \A i \in Nat : from <= i /\ i < total /\ i < from + BatchSize => i <= last
      BY <1>4 DEF last
    <2>2. QED
      BY <1>5, <2>1
  <1>10. QED
    BY <1>5, <1>7, <1>8, <1>9

(* A total is one more than a counter. *)
LEMMA TotalOfCount ==
    ASSUME NEW kind \in Kinds, NEW st, InBounds(st)
    PROVE  Total(kind, st) = Count(kind, st) + 1 /\ Total(kind, st) \in 0 .. MaxSaves + 1
  <1>1. /\ AddressesNum(st).lo = Addresses(st) /\ Bytes32Num(st).lo = Bytes32s(st)
    BY Counters, Slots DEF InBounds
  <1>2. Total(kind, st) = Count(kind, st) + 1
    BY <1>1 DEF Total, Count
  <1>3. QED
    BY <1>2, AllottedIsAsked, IndexesAssumption

----------------------------------------------------------------------------
(* The invariant *)

Chains == {st \in [Contracts -> Storage] : \A contract \in Contracts : InBounds(st[contract])}

(* The blocks that are remembered, the last of which is the mined storage. *)
BlockOf(old, st, i) == IF i <= Len(old) THEN old[i] ELSE st
Block(i) == BlockOf(older, storage, i)

ChainExtends(st1, st2) == \A contract \in Contracts : Extends(st1[contract], st2[contract])

(* The saves that a contract may ever hold. *)
SavesEver == Kinds \X (1 .. MaxSaves) \X Values

ChainInv ==
    /\ storage \in Chains
    /\ older \in Seq(Chains)
    /\ Len(older) <= MaxReorg
    /\ reorgs \in 0 .. MaxReorgs
    /\ undone \in [Contracts -> SUBSET SavesEver]
    /\ \A i, j \in 1 .. Len(older) + 1 : i <= j =>
          ChainExtends(BlockOf(older, storage, i), BlockOf(older, storage, j))

Files == [state : {"missing", "garbled", "saved"}, indexes : Indexing]

Running ==
    [pc : Loading \cup {"ready"}, contract : Contracts, kind : Kinds,
     indexes : Indexing, found : Indexing,
     total : [Kinds -> 0 .. MaxSaves + 1], next : Nat, since : Nat]

Done ==
    [pc : {"sent"}, contract : Contracts, kind : Kinds, value : Values, index : Nat, since : Nat]

(* A client never asks for the slot of the counters. *)
RunningInv(me) == me \in Running /\ (me.pc = "slots" => First(me.kind) <= me.next)

ClientInv(me) == me = Idle \/ RunningInv(me) \/ me \in Done

TypeInv ==
    /\ ChainInv
    /\ cache \in Files
    /\ client = [c \in Clients |-> client[c]]
    /\ \A c \in Clients : ClientInv(client[c])

(* Where a client is tells what is known of it. *)
LEMMA PlaceTells ==
    ASSUME NEW me, ClientInv(me)
    PROVE  /\ me.pc \in Loading \cup {"ready"} => RunningInv(me)
           /\ me.pc = "sent" => me \in Done
           /\ me.pc \in Loading \cup {"ready", "sent"} \/ me = Idle
  <1>1. me = Idle => me.pc = "idle"
    BY DEF Idle
  <1>2. RunningInv(me) => me.pc \in Loading \cup {"ready"}
    BY DEF RunningInv, Running
  <1>3. me \in Done => me.pc = "sent"
    BY DEF Done
  <1>4. "idle" \notin Loading \cup {"ready", "sent"} /\ "sent" \notin Loading \cup {"ready"}
    BY DEF Loading
  <1>5. QED
    BY <1>1, <1>2, <1>3, <1>4 DEF ClientInv

(* The invariant says what the types are. *)
LEMMA TypeInvImplies ==
    ASSUME TypeInv
    PROVE  TypeOK
  <1>1. \A indexes \in Indexing : indexes \in [Kinds -> IndexMaps]
    BY DEF Indexing
  <1>2. /\ storage \in [Contracts -> Storage] /\ reorgs \in 0 .. MaxReorgs
        /\ undone \in [Contracts -> SUBSET (Kinds \X (1 .. MaxSaves) \X (AddressValues \cup Bytes32Values))]
    BY DEF TypeInv, ChainInv, Chains, SavesEver, Values
  <1>3. older \in Seq([Contracts -> Storage])
    <2>1. Chains \subseteq [Contracts -> Storage] /\ older \in Seq(Chains)
      BY DEF TypeInv, ChainInv, Chains
    <2>2. QED
      BY <2>1
  <1>4. cache.state \in {"missing", "garbled", "saved"} /\ cache.indexes \in [Kinds -> IndexMaps]
    BY <1>1 DEF TypeInv, Files
  <1>5. ASSUME NEW c \in Clients
        PROVE  \/ client[c] = Idle
               \/ /\ client[c].pc \in Loading \cup {"ready"}
                  /\ client[c].contract \in Contracts
                  /\ client[c].kind \in Kinds
                  /\ client[c].indexes \in [Kinds -> IndexMaps]
                  /\ client[c].found \in [Kinds -> IndexMaps]
                  /\ client[c].next \in Nat
                  /\ client[c].total \in [Kinds -> 0 .. MaxSaves + 1]
               \/ /\ client[c].pc = "sent"
                  /\ client[c].contract \in Contracts
                  /\ client[c].kind \in Kinds
                  /\ client[c].value \in AddressValues \cup Bytes32Values
                  /\ client[c].index \in Nat
    <2>1. ClientInv(client[c])
      BY DEF TypeInv
    <2>2. CASE RunningInv(client[c])
      BY <1>1, <2>2 DEF RunningInv, Running
    <2>3. CASE client[c] \in Done
      BY <2>3 DEF Done, Values
    <2>4. QED
      BY <2>1, <2>2, <2>3 DEF ClientInv
  <1>6. QED
    BY <1>2, <1>3, <1>4, <1>5 DEF TypeOK

(* A storage of every contract extends itself, and what it extends. *)
LEMMA ChainExtendsIsAnOrder ==
    ASSUME NEW st1 \in Chains
    PROVE  /\ ChainExtends(st1, st1)
           /\ \A st2, st3 \in Chains :
                 ChainExtends(st1, st2) /\ ChainExtends(st2, st3) => ChainExtends(st1, st3)
  <1>1. ASSUME NEW contract \in Contracts
        PROVE  Extends(st1[contract], st1[contract])
    <2>1. \A kind \in Kinds : Count(kind, st1[contract]) \in Nat
      BY AllottedIsAsked DEF Chains
    <2>2. QED
      BY <2>1 DEF Extends
  <1>2. ASSUME NEW st2 \in Chains, NEW st3 \in Chains, NEW contract \in Contracts,
               ChainExtends(st1, st2), ChainExtends(st2, st3)
        PROVE  Extends(st1[contract], st3[contract])
    <2>1. InBounds(st1[contract]) /\ InBounds(st2[contract]) /\ InBounds(st3[contract])
      BY DEF Chains
    <2>2. Extends(st1[contract], st2[contract]) /\ Extends(st2[contract], st3[contract])
      BY <1>2 DEF ChainExtends
    <2>3. QED
      BY <2>1, <2>2, ExtendsIsAnOrder
  <1>3. QED
    BY <1>1, <1>2 DEF ChainExtends

(* Every block is a storage of the chain. *)
LEMMA Blocks ==
    ASSUME ChainInv
    PROVE  /\ Len(older) \in Nat
           /\ \A i \in 1 .. Len(older) + 1 : Block(i) \in Chains
           /\ Block(Len(older) + 1) = storage
  <1>1. Len(older) \in Nat /\ \A i \in 1 .. Len(older) : older[i] \in Chains
    BY ElementOfSeq DEF ChainInv
  <1>2. \A i \in 1 .. Len(older) + 1 : Block(i) \in Chains
    BY <1>1 DEF Block, BlockOf, ChainInv
  <1>3. Block(Len(older) + 1) = storage
    BY <1>1 DEF Block, BlockOf
  <1>4. QED
    BY <1>1, <1>2, <1>3

(* The storage whose totals a client reads is one of the blocks. *)
LEMMA SkippedIsABlock ==
    ASSUME ChainInv, Len(older) = MaxReorg
    PROVE  Skipped \in Chains /\ ChainExtends(Skipped, storage)
  <1> DEFINE n == Len(older)
             i == n + 1 - SkipBlocks
  <1>1. n \in Nat /\ i \in 1 .. n + 1 /\ n + 1 \in 1 .. n + 1 /\ i <= n + 1
    BY Blocks, IndexesAssumption
  <1>2. <<storage>> \in Seq(Chains) /\ Len(<<storage>>) = 1 /\ <<storage>>[1] = storage
    BY DEF ChainInv
  <1>3. Skipped = IF i <= n THEN older[i] ELSE <<storage>>[i - n]
    BY <1>1, <1>2, ConcatProperties DEF Skipped, ChainInv
  <1>4. Skipped = Block(i)
    BY <1>1, <1>2, <1>3 DEF Block, BlockOf
  <1>5. Block(i) \in Chains /\ Block(n + 1) = storage
    BY <1>1, Blocks
  <1>6. ChainExtends(Block(i), Block(n + 1))
    BY <1>1 DEF ChainInv, Block
  <1>7. QED
    BY <1>4, <1>5, <1>6

----------------------------------------------------------------------------
(* The chain *)

(* The last elements of a sequence. *)
LEMMA LastOnes ==
    ASSUME NEW S, NEW s \in Seq(S), NEW n \in Nat, n = Len(s), NEW k \in 0 .. n
    PROVE  /\ SubSeq(s, n - k + 1, n) \in Seq(S)
           /\ Len(SubSeq(s, n - k + 1, n)) = k
           /\ \A i \in 1 .. k : SubSeq(s, n - k + 1, n)[i] = s[n - k + i]
  <1> DEFINE m == n - k + 1
  <1>1. m \in Int /\ n \in Int /\ m >= 1 /\ n - m + 1 = k /\ (m <= n <=> k # 0)
    OBVIOUS
  <1>2. \A i \in m .. n : s[i] \in S
    BY <1>1, ElementOfSeq
  <1>3. /\ SubSeq(s, m, n) \in Seq(S)
        /\ Len(SubSeq(s, m, n)) = IF m <= n THEN n - m + 1 ELSE 0
        /\ \A i \in 1 .. n - m + 1 : SubSeq(s, m, n)[i] = s[m + i - 1]
    BY <1>1, <1>2, SubSeqProperties
  <1>4. \A i \in 1 .. k : m + i - 1 = n - k + i
    BY <1>1
  <1>5. QED
    BY <1>1, <1>3, <1>4

(* A block is mined that extends the last one. *)
LEMMA MineExtends ==
    ASSUME ChainInv, NEW mined \in Chains, Mine(mined), ChainExtends(storage, mined)
    PROVE  ChainInv' /\ storage' = mined /\ undone' = undone
  <1> DEFINE blocks == Append(older, storage)
             n == Len(older) + 1
             least == Min({MaxReorg, n})
             shift == n - least
  <1>1. storage' = mined /\ reorgs' = reorgs /\ undone' = undone
    BY DEF Mine
  <1>2. /\ n \in Nat /\ n >= 1 /\ Len(blocks) = n
        /\ \A i \in 1 .. n : blocks[i] = Block(i) /\ Block(i) \in Chains
    <2>1. older \in Seq(Chains) /\ storage \in Chains
      BY DEF ChainInv
    <2>2. Len(older) \in Nat /\ \A i \in 1 .. n : Block(i) \in Chains
      BY Blocks
    <2>3. /\ Len(blocks) = n /\ blocks[n] = storage
          /\ \A i \in 1 .. Len(older) : blocks[i] = older[i]
      BY <2>1, AppendProperties
    <2>4. \A i \in 1 .. n : blocks[i] = Block(i)
      BY <2>2, <2>3 DEF Block, BlockOf
    <2>5. QED
      BY <2>2, <2>3, <2>4
  <1>3. /\ least \in Nat /\ least <= MaxReorg /\ least <= n /\ shift \in Nat
        /\ shift + least = n
    BY <1>2, MinOfTwo, IndexesAssumption
  <1>5. /\ older' \in Seq(Chains)
        /\ Len(older') = least
        /\ \A i \in 1 .. least : older'[i] = Block(i + shift)
    <2>1. blocks \in Seq(Chains) /\ n = Len(blocks) /\ least \in 0 .. n
      BY <1>2, <1>3, AppendProperties DEF ChainInv
    <2>2. older' = SubSeq(blocks, n - least + 1, n)
      BY <1>2 DEF Mine
    <2> HIDE DEF blocks, n, least
    <2>3. /\ older' \in Seq(Chains) /\ Len(older') = least
          /\ \A i \in 1 .. least : older'[i] = blocks[n - least + i]
      BY <1>2, <2>1, <2>2, LastOnes
    <2>4. \A i \in 1 .. least : n - least + i \in 1 .. n /\ n - least + i = i + shift
      BY <1>2, <1>3
    <2>5. QED
      BY <1>2, <2>3, <2>4
  <1> HIDE DEF blocks, n, least, shift
  <1>6. /\ \A i \in 1 .. least : BlockOf(older', storage', i) = Block(i + shift) /\ i + shift \in 1 .. n
        /\ BlockOf(older', storage', least + 1) = mined
    <2>1. \A i \in 1 .. least : i <= least /\ i + shift \in 1 .. n
      BY <1>2, <1>3
    <2>2. ~ (least + 1 <= least)
      BY <1>3
    <2>3. QED
      BY <1>1, <1>5, <2>1, <2>2 DEF BlockOf
  <1>7. ASSUME NEW j \in 1 .. n
        PROVE  ChainExtends(Block(j), mined)
    <2>1. n \in 1 .. n /\ j <= n /\ Block(n) = storage /\ storage \in Chains
      BY <1>2, Blocks DEF ChainInv, n
    <2>2. ChainExtends(Block(j), storage)
      BY <2>1 DEF ChainInv, Block, n
    <2>3. QED
      BY <1>2, <2>1, <2>2, ChainExtendsIsAnOrder
  <1>8. ASSUME NEW i \in 1 .. least + 1, NEW j \in 1 .. least + 1, i <= j
        PROVE  ChainExtends(BlockOf(older', storage', i), BlockOf(older', storage', j))
    <2>1. CASE j <= least
      <3>1. i \in 1 .. least /\ j \in 1 .. least /\ i + shift <= j + shift
        BY <1>3, <1>8, <2>1
      <3>2. ChainExtends(Block(i + shift), Block(j + shift))
        BY <1>6, <3>1 DEF ChainInv, Block, n
      <3>3. QED
        BY <1>6, <3>1, <3>2
    <2>2. CASE j = least + 1 /\ i <= least
      <3>1. i \in 1 .. least
        BY <1>3, <2>2
      <3>2. QED
        BY <1>6, <1>7, <2>2, <3>1
    <2>3. CASE j = least + 1 /\ i = least + 1
      BY <1>6, <2>3, ChainExtendsIsAnOrder
    <2>4. QED
      BY <1>3, <1>8, <2>1, <2>2, <2>3
  <1>9. ChainInv'
    BY <1>1, <1>3, <1>5, <1>8 DEF ChainInv
  <1>10. QED
    BY <1>1, <1>9

(* What was saved and is no more is remembered. *)
GivesUp(contract) ==
    undone'[contract] =
        undone[contract] \cup (Saves(storage[contract]) \ Saves(storage'[contract]))

(* Blocks are given up, and with them what was saved in them. *)
LEMMA ReorganiseGivesUp ==
    ASSUME ChainInv, NEW depth \in 1 .. MaxReorg, Reorganise(depth)
    PROVE  ChainInv' /\ \A contract \in Contracts : GivesUp(contract)
  <1> DEFINE n == Len(older)
             left == n - depth
  <1>1. n \in Nat /\ left \in Nat /\ left + 1 <= n
    BY Blocks, IndexesAssumption DEF Reorganise
  <1>2. storage' = older[left + 1] /\ older' = SubSeq(older, 1, left) /\ reorgs' = reorgs + 1
    BY DEF Reorganise
  <1>3. \A i \in 1 .. n : older[i] \in Chains
    BY ElementOfSeq DEF ChainInv
  <1>4. /\ older' \in Seq(Chains) /\ Len(older') = left
        /\ \A i \in 1 .. left : older'[i] = older[i]
    <2>1. \A i \in 1 .. left : older[i] \in Chains
      BY <1>1, <1>3
    <2>2. /\ older' \in Seq(Chains)
          /\ Len(older') = IF 1 <= left THEN left - 1 + 1 ELSE 0
          /\ \A i \in 1 .. left - 1 + 1 : older'[i] = older[1 + i - 1]
      BY <1>1, <1>2, <2>1, SubSeqProperties
    <2>3. QED
      BY <1>1, <2>2
  <1>5. \A i \in 1 .. left + 1 : BlockOf(older', storage', i) = Block(i) /\ i \in 1 .. n + 1
    BY <1>1, <1>2, <1>4 DEF Block, BlockOf
  <1>6. \A i, j \in 1 .. left + 1 : i <= j =>
            ChainExtends(BlockOf(older', storage', i), BlockOf(older', storage', j))
    BY <1>5 DEF ChainInv, Block
  <1>7. storage' \in Chains /\ left <= MaxReorg /\ reorgs' \in 0 .. MaxReorgs
    BY <1>1, <1>2, <1>3, IndexesAssumption DEF Reorganise, ChainInv
  <1>8. /\ \A contract \in Contracts : GivesUp(contract)
        /\ undone' \in [Contracts -> SUBSET SavesEver]
    <2>1. undone' = [contract \in Contracts |->
              undone[contract] \cup (Saves(storage[contract]) \ Saves(storage'[contract]))]
      BY DEF Reorganise
    <2>2. \A contract \in Contracts :
             Saves(storage[contract]) \subseteq SavesEver /\ undone[contract] \subseteq SavesEver
      BY DEF Saves, SavesEver, Values, ChainInv
    <2>3. QED
      BY <2>1, <2>2 DEF GivesUp
  <1>9. ChainInv'
    BY <1>4, <1>6, <1>7, <1>8 DEF ChainInv
  <1>10. QED
    BY <1>8, <1>9

(* The steps of the chain. *)
ChainStep ==
    \/ \E contract \in Contracts, v \in AddressValues : MineAddress(contract, v)
    \/ \E contract \in Contracts, v \in Bytes32Values : MineBytes32(contract, v)
    \/ MineNothing
    \/ \E depth \in 1 .. MaxReorg : Reorganise(depth)

(* What is allotted stays, unless blocks are replaced; what is lost then   *)
(* is known.                                                               *)
LEMMA ChainGrows ==
    ASSUME ChainInv, ChainStep
    PROVE  /\ ChainInv'
           /\ \/ ChainExtends(storage, storage') /\ undone' = undone
              \/ /\ reorgs < MaxReorgs /\ reorgs' = reorgs + 1
                 /\ \A contract \in Contracts : GivesUp(contract)
           /\ UNCHANGED <<cache, client>>
  <1>1. storage \in Chains /\ \A d \in Contracts : InBounds(storage[d])
    BY DEF ChainInv, Chains
  <1>2. ASSUME NEW contract \in Contracts, NEW new, InBounds(new),
               Extends(storage[contract], new)
        PROVE  /\ [storage EXCEPT ![contract] = new] \in Chains
               /\ ChainExtends(storage, [storage EXCEPT ![contract] = new])
    <2>1. [storage EXCEPT ![contract] = new] \in [Contracts -> Storage]
      BY <1>1, <1>2 DEF Chains, InBounds
    <2>2. \A d \in Contracts :
             [storage EXCEPT ![contract] = new][d] = IF d = contract THEN new ELSE storage[d]
      BY <1>1 DEF Chains
    <2>3. \A d \in Contracts : Extends(storage[d], storage[d])
      BY <1>1, ChainExtendsIsAnOrder DEF ChainExtends
    <2>4. QED
      BY <1>1, <1>2, <2>1, <2>2, <2>3 DEF Chains, ChainExtends
  <1>3. ASSUME NEW contract \in Contracts, NEW v \in AddressValues, MineAddress(contract, v)
        PROVE  ChainInv' /\ ChainExtends(storage, storage')
               /\ UNCHANGED <<undone, cache, client>>
    <2> DEFINE st == storage[contract]
               new == SaveAddress(st, v)
    <2>1. v \in Values /\ "address" \in Kinds /\ Count("address", st) < MaxSaves
      BY <1>1, <1>3, Counters, Slots DEF Values, Kinds, Count, MineAddress, InBounds
    <2>2. InBounds(new) /\ Extends(st, new)
      BY <1>1, <2>1, AddressIsSaved, SavedExtends
    <2>3. Mine([storage EXCEPT ![contract] = new])
      BY <1>3 DEF MineAddress
    <2>4. UNCHANGED <<cache, client>>
      BY <2>3 DEF Mine
    <2>5. QED
      BY <1>2, <2>2, <2>3, <2>4, MineExtends
  <1>4. ASSUME NEW contract \in Contracts, NEW v \in Bytes32Values, MineBytes32(contract, v)
        PROVE  ChainInv' /\ ChainExtends(storage, storage')
               /\ UNCHANGED <<undone, cache, client>>
    <2> DEFINE st == storage[contract]
               new == SaveBytes32(st, v)
    <2>1. v \in Values /\ "bytes32" \in Kinds /\ Count("bytes32", st) < MaxSaves
      BY <1>1, <1>4, Counters, Slots DEF Values, Kinds, Count, MineBytes32, InBounds
    <2>2. InBounds(new) /\ Extends(st, new)
      BY <1>1, <2>1, Bytes32IsSaved, SavedExtends
    <2>3. Mine([storage EXCEPT ![contract] = new])
      BY <1>4 DEF MineBytes32
    <2>4. UNCHANGED <<cache, client>>
      BY <2>3 DEF Mine
    <2>5. QED
      BY <1>2, <2>2, <2>3, <2>4, MineExtends
  <1>5. ASSUME MineNothing
        PROVE  ChainInv' /\ ChainExtends(storage, storage')
               /\ UNCHANGED <<undone, cache, client>>
    <2>1. Mine(storage) /\ UNCHANGED <<cache, client>>
      BY <1>5 DEF MineNothing, Mine
    <2>2. QED
      BY <1>1, <2>1, MineExtends, ChainExtendsIsAnOrder
  <1>6. ASSUME NEW depth \in 1 .. MaxReorg, Reorganise(depth)
        PROVE  ChainInv' /\ reorgs < MaxReorgs
               /\ reorgs' = reorgs + 1 /\ UNCHANGED <<cache, client>>
               /\ \A contract \in Contracts : GivesUp(contract)
    BY <1>6, ReorganiseGivesUp DEF Reorganise
  <1>7. QED
    BY <1>3, <1>4, <1>5, <1>6 DEF ChainStep

----------------------------------------------------------------------------
(* The clients *)

(* The mined storage of every contract is within bounds. *)
LEMMA MinedInBounds ==
    ASSUME TypeInv, NEW contract \in Contracts
    PROVE  InBounds(storage[contract])
  BY DEF TypeInv, ChainInv, Chains

(* One client goes on, and no other. *)
Goes(c, next) == \A d \in Clients : client'[d] = IF d = c THEN next ELSE client[d]

LEMMA OneClient ==
    ASSUME TypeInv, NEW c \in Clients, NEW next, Become(c, next)
    PROVE  client' = [d \in Clients |-> client'[d]] /\ Goes(c, next)
  BY DEF Become, TypeInv, Goes

(* The types, after a step of a client, which has perhaps written the     *)
(* cache.                                                                  *)
LEMMA BecomeTyped ==
    ASSUME TypeInv, NEW c \in Clients, NEW next, Become(c, next), ClientInv(next),
           UNCHANGED chainVars, cache' \in Files
    PROVE  TypeInv'
  <1>1. ChainInv'
    BY DEF TypeInv, ChainInv, chainVars, Block
  <1>2. \A d \in Clients : ClientInv(client'[d])
    BY OneClient DEF TypeInv, Goes
  <1>3. QED
    BY <1>1, <1>2, OneClient DEF TypeInv

(* The slot from which a client asks. *)
FirstAsked(kind, map) ==
    IF kind = "bytes32" /\ MaxIndex(map) = 0 THEN 1 ELSE MaxIndex(map)

(* A client that starts believes what is in the cache. *)
LEMMA StartTyped ==
    ASSUME TypeInv, NEW c \in Clients, NEW contract \in Contracts, Start(c, contract)
    PROVE  /\ TypeInv' /\ RunningInv(NewClient(contract))
           /\ Goes(c, NewClient(contract)) /\ UNCHANGED <<chainVars, cache>>
  <1> DEFINE next == NewClient(contract)
  <1>1. cache \in Files /\ reorgs \in Nat
    BY IndexesAssumption DEF TypeInv, ChainInv
  <1>2. [kind \in Kinds |-> 0] \in [Kinds -> 0 .. MaxSaves + 1]
    BY IndexesAssumption
  <1>3. next \in Running /\ next.pc = "started"
    BY <1>1, <1>2, NothingKnown DEF NewClient, Running, Files, Loading, Kinds
  <1>4. RunningInv(next)
    BY <1>3 DEF RunningInv
  <1>5. Become(c, next) /\ UNCHANGED <<chainVars, cache>>
    BY DEF Start
  <1>6. QED
    BY <1>1, <1>4, <1>5, BecomeTyped, OneClient DEF ClientInv

(* A client is told a total, of some block. *)
LEMMA TotalsTyped ==
    ASSUME TypeInv, NEW c \in Clients, NEW kind \in Kinds,
           client[c].pc \in Loading, GetTotals(c, kind)
    PROVE  /\ TypeInv'
           /\ RunningInv(client[c])
           /\ Goes(c, [client[c] EXCEPT
                  !.pc = "slots", !.kind = kind,
                  !.next = FirstAsked(kind, client[c].indexes[kind]),
                  !.total[kind] = Count(kind, Skipped[client[c].contract]) + 1])
           /\ FirstAsked(kind, client[c].indexes[kind]) \in Nat
           /\ UNCHANGED <<chainVars, cache>>
  <1> DEFINE me == client[c]
             map == me.indexes[kind]
             total == Total(kind, Skipped[me.contract])
             from == FirstAsked(kind, map)
             next == [me EXCEPT !.pc = "slots", !.kind = kind, !.next = from,
                                !.total[kind] = total]
  <1>1. RunningInv(me) /\ me \in Running
    BY PlaceTells DEF TypeInv, RunningInv
  <1>2. map \in Maps(kind) /\ me.contract \in Contracts
    BY <1>1 DEF Running, Indexing
  <1>3. MaxIndex(map) \in Nat
    BY <1>2, Highest
  <1>4. from \in Nat /\ First(kind) <= from
    BY <1>3 DEF First, Kinds, FirstAsked
  <1>5. InBounds(Skipped[me.contract])
    BY <1>2, SkippedIsABlock DEF TypeInv, GetTotals, Chains
  <1>6. total = Count(kind, Skipped[me.contract]) + 1 /\ total \in 0 .. MaxSaves + 1
    BY <1>5, TotalOfCount
  <1>7. next \in Running /\ next.pc = "slots" /\ next.kind = kind /\ next.next = from
    BY <1>1, <1>4, <1>6 DEF Running, Loading
  <1>8. RunningInv(next)
    BY <1>4, <1>7 DEF RunningInv
  <1>9. Become(c, next) /\ UNCHANGED <<chainVars, cache>>
    BY DEF GetTotals, FirstAsked
  <1>10. TypeInv'
    BY <1>8, <1>9, BecomeTyped DEF ClientInv, TypeInv
  <1>11. Goes(c, next)
    BY <1>9, OneClient
  <1>12. QED
    BY <1>1, <1>4, <1>6, <1>9, <1>10, <1>11

(* A client reads some slots of the last block. *)
LEMMA ReadTyped ==
    ASSUME TypeInv, NEW c \in Clients, ReadSlots(c)
    PROVE  LET me == client[c]
               batch == GenBatch(me.next, me.total[me.kind])
               answer == ParseBatch(me.kind, storage[me.contract], batch)
           IN  /\ TypeInv'
               /\ RunningInv(me)
               /\ batch \subseteq Asked(me.kind)
               /\ answer \in Maps(me.kind)
               /\ Goes(c, [me EXCEPT !.next = @ + BatchSize,
                                     !.found[me.kind] = Merge(@, answer)])
               /\ UNCHANGED <<chainVars, cache>>
  <1> DEFINE me == client[c]
             st == storage[me.contract]
             batch == GenBatch(me.next, me.total[me.kind])
             answer == ParseBatch(me.kind, st, batch)
             next == [me EXCEPT !.next = @ + BatchSize, !.found[me.kind] = Merge(@, answer)]
  <1>1. RunningInv(me) /\ me \in Running /\ me.pc = "slots"
    BY PlaceTells DEF TypeInv, ReadSlots, Loading, RunningInv
  <1>2. /\ me.kind \in Kinds /\ me.next \in Nat /\ me.total[me.kind] \in 0 .. MaxSaves + 1
        /\ First(me.kind) <= me.next /\ me.next < me.total[me.kind]
        /\ me.contract \in Contracts
    BY <1>1 DEF Running, RunningInv, ReadSlots
  <1>3. batch \subseteq Asked(me.kind)
    BY <1>2, BatchInBounds
  <1>4. InBounds(st)
    BY <1>2 DEF TypeInv, ChainInv, Chains
  <1>5. answer \in Maps(me.kind)
    BY <1>2, <1>3, <1>4, Answer
  <1>6. /\ me.found \in Indexing /\ me.found[me.kind] \in Maps(me.kind)
        /\ Merge(me.found[me.kind], answer) \in Maps(me.kind)
        /\ Merge(me.found[me.kind], answer) \in IndexMaps
    <2>1. me.found \in Indexing /\ me.found[me.kind] \in Maps(me.kind)
      BY <1>1, <1>2 DEF Running, Indexing
    <2>2. Merge(me.found[me.kind], answer) \in Maps(me.kind)
      BY <1>2, <1>5, <2>1, Merged
    <2>3. QED
      BY <1>2, <2>1, <2>2, MapOfKind
  <1>7. [me.found EXCEPT ![me.kind] = Merge(@, answer)] \in Indexing
    BY <1>2, <1>6 DEF Indexing
  <1>8. me.next + BatchSize \in Nat /\ First(me.kind) <= me.next + BatchSize
    BY <1>2, IndexesAssumption DEF First
  <1>9. next \in Running /\ next.pc = "slots" /\ next.kind = me.kind
        /\ next.next = me.next + BatchSize
    BY <1>1, <1>7, <1>8 DEF Running
  <1>10. RunningInv(next)
    BY <1>8, <1>9 DEF RunningInv
  <1>11. Become(c, next) /\ UNCHANGED <<chainVars, cache>>
    BY DEF ReadSlots
  <1>12. TypeInv'
    BY <1>10, <1>11, BecomeTyped DEF ClientInv, TypeInv
  <1>13. Goes(c, next)
    BY <1>11, OneClient
  <1>14. QED
    BY <1>1, <1>3, <1>5, <1>11, <1>12, <1>13

(* What a client found completes what it knew, and the cache is emptied. *)
LEMMA OpenTyped ==
    ASSUME TypeInv, NEW c \in Clients, OpenCache(c)
    PROVE  LET me == client[c]
               all == [kind \in Kinds |-> Merge(me.indexes[kind], me.found[kind])]
           IN  /\ TypeInv'
               /\ RunningInv(me)
               /\ all \in Indexing
               /\ Goes(c, [me EXCEPT !.pc = "writing", !.found = NoIndexes, !.indexes = all])
               /\ cache' = Garbled
               /\ UNCHANGED chainVars
  <1> DEFINE me == client[c]
             all == [kind \in Kinds |-> Merge(me.indexes[kind], me.found[kind])]
             next == [me EXCEPT !.pc = "writing", !.found = NoIndexes, !.indexes = all]
  <1>1. RunningInv(me) /\ me \in Running
    BY PlaceTells DEF TypeInv, OpenCache, SlotsRead, Loading, RunningInv
  <1>2. \A kind \in Kinds : me.indexes[kind] \in Maps(kind) /\ me.found[kind] \in Maps(kind)
    BY <1>1 DEF Running, Indexing
  <1>3. \A kind \in Kinds : all[kind] \in Maps(kind) /\ all[kind] \in IndexMaps
    <2> SUFFICES ASSUME NEW kind \in Kinds
                 PROVE  all[kind] \in Maps(kind) /\ all[kind] \in IndexMaps
      OBVIOUS
    <2>1. Merge(me.indexes[kind], me.found[kind]) \in Maps(kind)
      BY <1>2, Merged
    <2>2. QED
      BY <2>1, MapOfKind
  <1>4. all \in Indexing
    BY <1>3 DEF Indexing
  <1>5. next \in Running /\ next.pc = "writing"
    BY <1>1, <1>4, NothingKnown DEF Running, Loading
  <1>6. RunningInv(next)
    BY <1>5 DEF RunningInv
  <1>7. Garbled \in Files
    BY NothingKnown DEF Garbled, Files
  <1>8. next = [me EXCEPT !.pc = "writing", !.found = NoIndexes,
                          !.indexes = [kind \in Kinds |-> Merge(@[kind], me.found[kind])]]
    OBVIOUS
  <1>9. Become(c, next) /\ cache' = Garbled /\ UNCHANGED chainVars
    BY <1>8 DEF OpenCache
  <1>10. TypeInv'
    BY <1>6, <1>7, <1>9, BecomeTyped DEF ClientInv
  <1>11. Goes(c, next)
    BY <1>9, OneClient
  <1>12. QED
    BY <1>1, <1>4, <1>9, <1>10, <1>11

(* The cache is written. *)
LEMMA WriteTyped ==
    ASSUME TypeInv, NEW c \in Clients, WriteCache(c)
    PROVE  /\ TypeInv'
           /\ RunningInv(client[c])
           /\ Goes(c, [client[c] EXCEPT !.pc = "ready"])
           /\ cache' \in {Garbled, File(client[c].indexes)}
           /\ UNCHANGED chainVars
  <1> DEFINE me == client[c]
             next == [me EXCEPT !.pc = "ready"]
  <1>1. RunningInv(me) /\ me \in Running
    BY PlaceTells DEF TypeInv, WriteCache, Loading, RunningInv
  <1>2. next \in Running /\ next.pc = "ready"
    BY <1>1 DEF Running
  <1>3. RunningInv(next)
    BY <1>2 DEF RunningInv
  <1>4. Garbled \in Files /\ File(me.indexes) \in Files
    BY <1>1, NothingKnown DEF Garbled, File, Files, Running
  <1>5. Become(c, next) /\ UNCHANGED chainVars /\ cache' \in {Garbled, File(me.indexes)}
    BY DEF WriteCache
  <1>6. TypeInv'
    BY <1>3, <1>4, <1>5, BecomeTyped DEF ClientInv
  <1>7. Goes(c, next)
    BY <1>5, OneClient
  <1>8. QED
    BY <1>1, <1>5, <1>6, <1>7

(* A payload is made. *)
LEMMA CompressTyped ==
    ASSUME TypeInv, NEW c \in Clients, NEW kind \in Kinds, NEW v, Compress(c, kind, v)
    PROVE  /\ TypeInv'
           /\ RunningInv(client[c]) /\ v \in DOMAIN client[c].indexes[kind]
           /\ Goes(c, [pc |-> "sent", contract |-> client[c].contract, kind |-> kind,
                       value |-> v, index |-> client[c].indexes[kind][v],
                       since |-> client[c].since])
           /\ UNCHANGED <<chainVars, cache>>
  <1> DEFINE me == client[c]
             next == [pc |-> "sent", contract |-> me.contract, kind |-> kind,
                      value |-> v, index |-> me.indexes[kind][v], since |-> me.since]
  <1>1. RunningInv(me) /\ me \in Running
    BY PlaceTells DEF TypeInv, Compress, Loading, RunningInv
  <1>2. v \in DOMAIN me.indexes[kind] /\ me.indexes[kind] \in Maps(kind)
    BY <1>1 DEF Compress, Running, Indexing
  <1>3. v \in Values /\ me.indexes[kind][v] \in Nat
    BY <1>2, MapOfKind
  <1>4. next \in Done
    BY <1>1, <1>3 DEF Running, Done
  <1>5. Become(c, next) /\ UNCHANGED <<chainVars, cache>>
    BY DEF Compress
  <1>6. TypeInv'
    BY <1>4, <1>5, BecomeTyped DEF ClientInv, TypeInv
  <1>7. Goes(c, next)
    BY <1>5, OneClient
  <1>8. QED
    BY <1>1, <1>2, <1>5, <1>6, <1>7

(* A client ends. *)
LEMMA EndTyped ==
    ASSUME TypeInv, NEW c \in Clients, End(c)
    PROVE  TypeInv' /\ Goes(c, Idle) /\ UNCHANGED <<chainVars, cache>>
  <1>1. Become(c, Idle) /\ UNCHANGED <<chainVars, cache>>
    BY DEF End
  <1>2. QED
    BY <1>1, BecomeTyped, OneClient DEF TypeInv, ClientInv

----------------------------------------------------------------------------
(* The theorem *)

(* The types, at first. *)
LEMMA InitTyped ==
    ASSUME Init
    PROVE  TypeInv /\ storage \in Chains
  <1>1. storage \in Chains
    BY EmptyInBounds DEF Init, Chains, InBounds
  <1>2. /\ older \in Seq(Chains) /\ Len(older) = MaxReorg /\ MaxReorg \in Nat
        /\ \A i \in 1 .. MaxReorg : older[i] = storage
    <2>1. older = [b \in 1 .. MaxReorg |-> storage] /\ MaxReorg \in Nat
      BY IndexesAssumption DEF Init
    <2>2. older \in [1 .. MaxReorg -> Chains]
      BY <1>1, <2>1
    <2>3. older \in Seq(Chains)
      BY <2>1, <2>2, SeqDef
    <2>4. DOMAIN older = 1 .. Len(older) /\ Len(older) \in Nat
      BY <2>3, LenProperties
    <2>5. QED
      BY <2>1, <2>3, <2>4
  <1>3. \A i \in 1 .. Len(older) + 1 : BlockOf(older, storage, i) = storage
    BY <1>2 DEF BlockOf
  <1>4. ChainExtends(storage, storage)
    BY <1>1, ChainExtendsIsAnOrder
  <1>5. reorgs \in 0 .. MaxReorgs
    BY IndexesAssumption DEF Init
  <1>6. ChainInv
    <2>1. undone \in [Contracts -> SUBSET SavesEver]
      BY DEF Init
    <2>2. QED
      BY <1>1, <1>2, <1>3, <1>4, <1>5, <2>1 DEF ChainInv
  <1>7. cache \in Files
    BY NothingKnown DEF Init, Missing, Files
  <1>8. client = [c \in Clients |-> client[c]] /\ \A c \in Clients : client[c] = Idle
    BY DEF Init
  <1>9. QED
    BY <1>1, <1>6, <1>7, <1>8 DEF TypeInv, ClientInv

(* The types, after any step. *)
LEMMA StepTyped ==
    ASSUME TypeInv, [Next]_vars
    PROVE  TypeInv'
  <1>1. CASE ChainStep
    BY <1>1, ChainGrows DEF TypeInv
  <1>2. CASE \E c \in Clients, contract \in Contracts : Start(c, contract)
    BY <1>2, StartTyped
  <1>3. CASE \E c \in Clients : GetTotalAddresses(c)
    <2> PICK c \in Clients : GetTotalAddresses(c)
      BY <1>3
    <2>1. client[c].pc \in Loading /\ "address" \in Kinds /\ GetTotals(c, "address")
      BY DEF GetTotalAddresses, Loading, Kinds
    <2>2. QED
      BY <2>1, TotalsTyped
  <1>4. CASE \E c \in Clients : ReadSlots(c)
    BY <1>4, ReadTyped
  <1>5. CASE \E c \in Clients : GetTotalBytes32(c)
    <2> PICK c \in Clients : GetTotalBytes32(c)
      BY <1>5
    <2>1. client[c].pc \in Loading /\ "bytes32" \in Kinds /\ GetTotals(c, "bytes32")
      BY DEF GetTotalBytes32, SlotsRead, Loading, Kinds
    <2>2. QED
      BY <2>1, TotalsTyped
  <1>6. CASE \E c \in Clients : OpenCache(c)
    BY <1>6, OpenTyped
  <1>7. CASE \E c \in Clients : WriteCache(c)
    BY <1>7, WriteTyped
  <1>8. CASE \E c \in Clients, kind \in Kinds :
                \E v \in AddressValues \cup Bytes32Values : Compress(c, kind, v)
    BY <1>8, CompressTyped
  <1>9. CASE \E c \in Clients : End(c)
    BY <1>9, EndTyped
  <1>10. CASE RemoveCache
    <2>1. Missing \in Files
      BY NothingKnown DEF Missing, Files
    <2>2. QED
      BY <1>10, <2>1 DEF RemoveCache, TypeInv, ChainInv, chainVars
  <1>11. CASE UNCHANGED vars
    BY <1>11 DEF vars, chainVars, TypeInv, ChainInv
  <1>12. QED
    BY <1>1, <1>2, <1>3, <1>4, <1>5, <1>6, <1>7, <1>8, <1>9, <1>10, <1>11
    DEF Next, ChainStep

(* The invariant, whatever the clients do and whichever blocks are given up*)
LEMMA TypeInvariance == Spec => []TypeInv
  <1>1. Init => TypeInv
    BY InitTyped
  <1>2. TypeInv /\ [Next]_vars => TypeInv'
    BY StepTyped
  <1>3. QED
    BY <1>1, <1>2, PTL DEF Spec

(* A client only ever asks for the slots of indexes, whose number is within*)
(* bounds although a batch reads past the total, and never for that of the *)
(* counters; and what it makes of the answers, and of a cache that others  *)
(* write, is always a map from words that were saved to such indexes       *)
(* (LoadStorage, genBatch and parseBatchResult, LoadCachedData).           *)
THEOREM TypeCorrect == Spec => []TypeOK
  BY TypeInvariance, TypeInvImplies, PTL

=============================================================================
