-------------------------- MODULE RepositoryProofs --------------------------
(***************************************************************************)
(* Proofs about the repository, for every number of bits of a half word,   *)
(* every set of values and methods, every depth of calls and every size of *)
(* batch.                                                                  *)
(***************************************************************************)
EXTENDS Repository, TLAPS

----------------------------------------------------------------------------
(* The two operations that write, and the two reads, on a storage that     *)
(* holds exactly a ledger.                                                 *)

(* Slot 0, where the counters are, is a slot. *)
LEMMA ZeroIsAWord == Zero \in Word /\ CountersSlot \in Word
  BY HalfAssumption DEF CountersSlot, Zero, W, Word, Limb

(* The number of values of a ledger within its bounds fits in one half of  *)
(* the counters.                                                           *)
LEMMA LengthsAreLimbs ==
    ASSUME NEW l \in Ledger, Fits(l)
    PROVE  /\ Len(l.addresses) \in Nat /\ Len(l.addresses) + 1 < Half
           /\ Len(l.bytes32) \in Nat /\ Len(l.bytes32) < Half
  BY RepositoryAssumption, HalfAssumption DEF Ledger, Fits

(* The storage of a ledger is a storage. *)
LEMMA StorageOfType ==
    ASSUME NEW l \in Ledger, Fits(l)
    PROVE  StorageOf(l) \in Storage
  <1> SUFFICES ASSUME NEW s \in Word
               PROVE  StorageOf(l)[s] \in Word
    BY DEF StorageOf, Storage
  <1>1. W(Len(l.addresses), Len(l.bytes32)) \in Word
    BY LengthsAreLimbs, HalfAssumption DEF Word, W, Limb
  <1>2. ASSUME HoldsAddress(l, s)
        PROVE  l.addresses[s.lo - 1] \in Word
    BY <1>2 DEF Ledger, HoldsAddress
  <1>3. ASSUME HoldsBytes32(l, s)
        PROVE  l.bytes32[s.hi] \in Word
    BY <1>3 DEF Ledger, HoldsBytes32
  <1>4. QED
    BY <1>1, <1>2, <1>3, ZeroIsAWord DEF StorageOf

(* The counters, unpacked as ADDRESSES_NUM and BYTES32_NUM do, are the     *)
(* lengths of the ledger.                                                  *)
LEMMA CountersOfLedger ==
    ASSUME NEW l \in Ledger, Fits(l)
    PROVE  /\ StorageOf(l)[CountersSlot] = W(Len(l.addresses), Len(l.bytes32))
           /\ AddressesNum(StorageOf(l)) = W(0, Len(l.addresses))
           /\ Bytes32Num(StorageOf(l)) = W(0, Len(l.bytes32))
  <1>1. ~ HoldsAddress(l, CountersSlot) /\ ~ HoldsBytes32(l, CountersSlot)
    BY DEF HoldsAddress, HoldsBytes32, CountersSlot, Zero, W
  <1>2. StorageOf(l)[CountersSlot] = W(Len(l.addresses), Len(l.bytes32))
    BY <1>1, ZeroIsAWord DEF StorageOf
  <1>3. QED
    BY <1>2 DEF AddressesNum, Bytes32Num, Shr128, LowHalf, W

(* Adding 1 to a number below 2^128 - 1 does not carry. *)
LEMMA IncWithoutCarry ==
    ASSUME NEW h, NEW n \in Nat, n + 1 < Half
    PROVE  Inc(W(h, n)) = W(h, n + 1)
  <1>1. W(h, n).lo = n /\ W(h, n).hi = h
    BY DEF W
  <1>2. QED
    BY <1>1 DEF Inc

(* Joining two halves of a word that do not overlap loses neither. *)
LEMMA OrOfHalves ==
    ASSUME NEW a \in Nat, NEW b \in Nat
    PROVE  Or(W(a, 0), W(0, b)) = W(a, b)
  <1>1. OrLimb(a, 0) = a /\ OrLimb(0, b) = b
    BY DEF OrLimb
  <1>2. /\ W(a, 0).hi = a /\ W(a, 0).lo = 0
        /\ W(0, b).hi = 0 /\ W(0, b).lo = b
    BY DEF W
  <1>3. QED
    BY <1>1, <1>2 DEF Or

(* While the counters are within bounds nothing carries, and the slot of   *)
(* the next index is the one after the last of its region.                 *)
LEMMA NextIndexes ==
    ASSUME NEW l \in Ledger, Fits(l)
    PROVE  /\ Len(l.addresses) < MaxAddresses =>
                /\ NextAddress(StorageOf(l)) = W(0, Len(l.addresses) + 1)
                /\ AddressSlot(NextAddress(StorageOf(l))) = W(0, Len(l.addresses) + 2)
           /\ Len(l.bytes32) < MaxBytes32 =>
                /\ NextBytes32(StorageOf(l)) = W(0, Len(l.bytes32) + 1)
                /\ Bytes32Slot(NextBytes32(StorageOf(l))) = W(Len(l.bytes32) + 1, 0)
  <1> DEFINE n == Len(l.addresses)
             m == Len(l.bytes32)
  <1>1. n \in Nat /\ n + 1 < Half /\ m \in Nat
    BY LengthsAreLimbs
  <1>2. NextAddress(StorageOf(l)) = W(0, n + 1)
    BY <1>1, CountersOfLedger, IncWithoutCarry DEF NextAddress
  <1>3. ASSUME n < MaxAddresses
        PROVE  AddressSlot(W(0, n + 1)) = W(0, n + 2)
    <2>1. n + 1 \in Nat /\ n + 1 + 1 < Half /\ n + 1 + 1 = n + 2
      BY <1>1, <1>3, RepositoryAssumption, HalfAssumption
    <2>2. QED
      BY <2>1, IncWithoutCarry DEF AddressSlot
  <1>4. ASSUME m < MaxBytes32
        PROVE  NextBytes32(StorageOf(l)) = W(0, m + 1)
    <2>1. m + 1 < Half
      BY <1>1, <1>4, RepositoryAssumption, HalfAssumption
    <2>2. QED
      BY <1>1, <2>1, CountersOfLedger, IncWithoutCarry DEF NextBytes32
  <1>5. Bytes32Slot(W(0, m + 1)) = W(m + 1, 0)
    BY DEF Bytes32Slot, Shl128, W
  <1>6. QED
    BY <1>2, <1>3, <1>4, <1>5

(* SAVE_ADDRESS appends to the addresses of the ledger and does nothing    *)
(* else.                                                                   *)
LEMMA SaveAddressAppends ==
    ASSUME NEW l \in Ledger, Fits(l), NEW v \in Word,
           Len(l.addresses) < MaxAddresses
    PROVE  /\ WithAddress(l, v) \in Ledger
           /\ Fits(WithAddress(l, v))
           /\ SaveAddress(StorageOf(l), v) = StorageOf(WithAddress(l, v))
  <1> DEFINE n == Len(l.addresses)
             m == Len(l.bytes32)
             l2 == WithAddress(l, v)
             st == StorageOf(l)
  <1>1. /\ l2 \in Ledger
        /\ Len(l2.addresses) = n + 1
        /\ \A i \in 1 .. n : l2.addresses[i] = l.addresses[i]
        /\ l2.addresses[n + 1] = v
        /\ l2.bytes32 = l.bytes32
        /\ n \in Nat /\ m \in Nat
    BY DEF Ledger, WithAddress
  <1>2. Fits(l2)
    BY <1>1, RepositoryAssumption DEF Fits
  <1>3. /\ n + 2 < Half + 1 /\ m < Half
        /\ W(0, n + 2) \in Word
        /\ W(0, n + 2) # CountersSlot
    BY <1>1, LengthsAreLimbs, RepositoryAssumption, HalfAssumption
       DEF Word, W, Limb, CountersSlot, Zero
  <1>4. Or(Shl128(NextAddress(st)), LowHalf(st[CountersSlot])) = W(n + 1, m)
    <2>1. Shl128(W(0, n + 1)) = W(n + 1, 0) /\ LowHalf(W(n, m)) = W(0, m)
      BY DEF Shl128, LowHalf, W
    <2>2. Or(W(n + 1, 0), W(0, m)) = W(n + 1, m)
      BY <1>1, OrOfHalves
    <2>3. QED
      BY <2>1, <2>2, CountersOfLedger, NextIndexes
  <1>5. SaveAddress(st, v) =
            [[st EXCEPT ![CountersSlot] = W(n + 1, m)] EXCEPT ![W(0, n + 2)] = v]
    BY <1>4, NextIndexes DEF SaveAddress, PullAddress
  <1>6. SaveAddress(st, v) = StorageOf(l2)
    <2> SUFFICES ASSUME NEW s \in Word
                 PROVE  SaveAddress(st, v)[s] = StorageOf(l2)[s]
      BY <1>5 DEF StorageOf
    <2>1. CASE s = W(0, n + 2)
      <3>1. HoldsAddress(l2, s) /\ l2.addresses[s.lo - 1] = v
        BY <1>1, <2>1 DEF HoldsAddress, W
      <3>2. QED
        BY <1>3, <1>5, <2>1, <3>1 DEF StorageOf
    <2>2. CASE s = CountersSlot
      <3>1. SaveAddress(st, v)[s] = W(n + 1, m)
        BY <1>3, <1>5, <2>2, ZeroIsAWord DEF StorageOf
      <3>2. QED
        BY <1>1, <1>2, <2>2, <3>1, CountersOfLedger
    <2>3. CASE s # W(0, n + 2) /\ s # CountersSlot
      <3>1. SaveAddress(st, v)[s] = st[s]
        BY <1>5, <2>3 DEF StorageOf
      <3>2. HoldsAddress(l2, s) <=> HoldsAddress(l, s)
        BY <1>1, <2>3 DEF HoldsAddress, Word, Limb, W
      <3>3. ASSUME HoldsAddress(l, s)
            PROVE  l2.addresses[s.lo - 1] = l.addresses[s.lo - 1]
        <4>1. s.lo - 1 \in 1 .. n
          BY <1>1, <3>3 DEF HoldsAddress
        <4>2. QED
          BY <1>1, <4>1
      <3>4. HoldsBytes32(l2, s) <=> HoldsBytes32(l, s)
        BY <1>1 DEF HoldsBytes32
      <3>5. QED
        BY <1>1, <2>3, <3>1, <3>2, <3>3, <3>4 DEF StorageOf
    <2>4. QED
      BY <2>1, <2>2, <2>3
  <1>7. QED
    BY <1>1, <1>2, <1>6

(* SAVE_BYTES32 appends to the bytes32 of the ledger and does nothing else *)
LEMMA SaveBytes32Appends ==
    ASSUME NEW l \in Ledger, Fits(l), NEW v \in Word,
           Len(l.bytes32) < MaxBytes32
    PROVE  /\ WithBytes32(l, v) \in Ledger
           /\ Fits(WithBytes32(l, v))
           /\ SaveBytes32(StorageOf(l), v) = StorageOf(WithBytes32(l, v))
  <1> DEFINE n == Len(l.addresses)
             m == Len(l.bytes32)
             l2 == WithBytes32(l, v)
             st == StorageOf(l)
  <1>1. /\ l2 \in Ledger
        /\ Len(l2.bytes32) = m + 1
        /\ \A i \in 1 .. m : l2.bytes32[i] = l.bytes32[i]
        /\ l2.bytes32[m + 1] = v
        /\ l2.addresses = l.addresses
        /\ n \in Nat /\ m \in Nat
    BY DEF Ledger, WithBytes32
  <1>2. Fits(l2)
    BY <1>1, RepositoryAssumption DEF Fits
  <1>3. /\ m + 1 < Half /\ n < Half
        /\ W(m + 1, 0) \in Word
        /\ W(m + 1, 0) # CountersSlot
    <2>1. m + 1 < Half /\ n < Half
      BY <1>1, LengthsAreLimbs, RepositoryAssumption, HalfAssumption
    <2>2. W(m + 1, 0) \in Word
      BY <1>1, <2>1, HalfAssumption DEF Word, W, Limb
    <2>3. W(m + 1, 0) # CountersSlot
      <3>1. W(m + 1, 0).hi = m + 1 /\ CountersSlot.hi = 0
        BY DEF W, CountersSlot, Zero
      <3>2. QED
        BY <1>1, <3>1
    <2>4. QED
      BY <2>1, <2>2, <2>3
  <1>4. Or(HighHalf(st[CountersSlot]), NextBytes32(st)) = W(n, m + 1)
    <2>1. HighHalf(W(n, m)) = W(n, 0)
      BY DEF HighHalf, W
    <2>2. Or(W(n, 0), W(0, m + 1)) = W(n, m + 1)
      BY <1>1, OrOfHalves
    <2>3. QED
      BY <2>1, <2>2, CountersOfLedger, NextIndexes
  <1>5. SaveBytes32(st, v) =
            [[st EXCEPT ![CountersSlot] = W(n, m + 1)] EXCEPT ![W(m + 1, 0)] = v]
    BY <1>4, NextIndexes DEF SaveBytes32, PullBytes32
  <1>6. SaveBytes32(st, v) = StorageOf(l2)
    <2> SUFFICES ASSUME NEW s \in Word
                 PROVE  SaveBytes32(st, v)[s] = StorageOf(l2)[s]
      BY <1>5 DEF StorageOf
    <2>1. CASE s = W(m + 1, 0)
      <3>1. /\ HoldsBytes32(l2, s) /\ l2.bytes32[s.hi] = v
            /\ ~ HoldsAddress(l2, s)
        BY <1>1, <2>1 DEF HoldsBytes32, HoldsAddress, W
      <3>2. QED
        BY <1>3, <1>5, <2>1, <3>1 DEF StorageOf
    <2>2. CASE s = CountersSlot
      <3>1. SaveBytes32(st, v)[s] = W(n, m + 1)
        BY <1>3, <1>5, <2>2, ZeroIsAWord DEF StorageOf
      <3>2. QED
        BY <1>1, <1>2, <2>2, <3>1, CountersOfLedger
    <2>3. CASE s # W(m + 1, 0) /\ s # CountersSlot
      <3>1. SaveBytes32(st, v)[s] = st[s]
        BY <1>5, <2>3 DEF StorageOf
      <3>2. HoldsBytes32(l2, s) <=> HoldsBytes32(l, s)
        BY <1>1, <2>3 DEF HoldsBytes32, Word, Limb, W
      <3>3. ASSUME HoldsBytes32(l, s)
            PROVE  l2.bytes32[s.hi] = l.bytes32[s.hi]
        BY <1>1, <3>3 DEF HoldsBytes32
      <3>4. HoldsAddress(l2, s) <=> HoldsAddress(l, s)
        BY <1>1 DEF HoldsAddress
      <3>5. QED
        BY <1>1, <2>3, <3>1, <3>2, <3>3, <3>4 DEF StorageOf
    <2>4. QED
      BY <2>1, <2>2, <2>3
  <1>7. QED
    BY <1>1, <1>2, <1>6

(* The reads of an index below a counter give the value of the ledger. *)
LEMMA ReadsOfLedger ==
    ASSUME NEW l \in Ledger, Fits(l)
    PROVE  /\ \A i \in 1 .. Len(l.addresses) :
                 ReadAddress(StorageOf(l), W(0, i)) = l.addresses[i]
           /\ \A i \in 1 .. Len(l.bytes32) :
                 ReadBytes32(StorageOf(l), W(0, i)) = l.bytes32[i]
  <1>1. ASSUME NEW i \in 1 .. Len(l.addresses)
        PROVE  ReadAddress(StorageOf(l), W(0, i)) = l.addresses[i]
    <2>1. i \in Nat /\ i + 1 < Half
      BY LengthsAreLimbs, HalfAssumption
    <2>2. AddressSlot(W(0, i)) = W(0, i + 1)
      BY <2>1, IncWithoutCarry DEF AddressSlot
    <2>3. W(0, i + 1) \in Word
      BY <2>1, HalfAssumption DEF Word, W, Limb
    <2>4. HoldsAddress(l, W(0, i + 1)) /\ W(0, i + 1).lo - 1 = i
      BY <2>1, LengthsAreLimbs DEF HoldsAddress, W
    <2>5. QED
      BY <2>2, <2>3, <2>4 DEF ReadAddress, StorageOf
  <1>2. ASSUME NEW i \in 1 .. Len(l.bytes32)
        PROVE  ReadBytes32(StorageOf(l), W(0, i)) = l.bytes32[i]
    <2>1. i \in Nat /\ i < Half /\ i > 0
      BY LengthsAreLimbs, HalfAssumption
    <2>2. Bytes32Slot(W(0, i)) = W(i, 0)
      BY DEF Bytes32Slot, Shl128, W
    <2>3. W(i, 0) \in Word
      BY <2>1, HalfAssumption DEF Word, W, Limb
    <2>4. /\ HoldsBytes32(l, W(i, 0)) /\ W(i, 0).hi = i
          /\ ~ HoldsAddress(l, W(i, 0))
      BY <2>1, LengthsAreLimbs DEF HoldsBytes32, HoldsAddress, W
    <2>5. QED
      BY <2>2, <2>3, <2>4 DEF ReadBytes32, StorageOf
  <1>3. QED
    BY <1>1, <1>2

(* A ledger extends itself, and an extension of an extension is one. *)
LEMMA ExtendsIsAnOrder ==
    ASSUME NEW l1 \in Ledger, NEW l2 \in Ledger, NEW l3 \in Ledger
    PROVE  /\ LedgerExtends(l1, l1)
           /\ LedgerExtends(l1, l2) /\ LedgerExtends(l2, l3) => LedgerExtends(l1, l3)
  BY DEF LedgerExtends, Ledger

(* An index that was allotted reads the same in any later storage. *)
LEMMA ReadsSurvive ==
    ASSUME NEW l1 \in Ledger, NEW l2 \in Ledger, Fits(l1), Fits(l2),
           LedgerExtends(l1, l2)
    PROVE  SameReads(StorageOf(l1), StorageOf(l2))
  <1>1. /\ AddressesNum(StorageOf(l1)).lo = Len(l1.addresses)
        /\ Bytes32Num(StorageOf(l1)).lo = Len(l1.bytes32)
    <2>1. \A n : W(0, n).lo = n
      BY DEF W
    <2>2. QED
      BY <2>1, CountersOfLedger
  <1>2. /\ \A i \in 1 .. Len(l1.addresses) : i \in 1 .. Len(l2.addresses)
        /\ \A i \in 1 .. Len(l1.bytes32) : i \in 1 .. Len(l2.bytes32)
    BY DEF LedgerExtends, Ledger
  <1>3. QED
    BY <1>1, <1>2, ReadsOfLedger DEF SameReads, LedgerExtends

(* A slot in use keeps its value in any later storage. *)
LEMMA SlotsSurvive ==
    ASSUME NEW l1 \in Ledger, NEW l2 \in Ledger, Fits(l1), Fits(l2),
           LedgerExtends(l1, l2), NEW s \in Word, s # CountersSlot,
           StorageOf(l1)[s] # Zero
    PROVE  StorageOf(l2)[s] = StorageOf(l1)[s]
  <1>1. CASE HoldsAddress(l1, s)
    <2>1. HoldsAddress(l2, s) /\ s.lo - 1 \in 1 .. Len(l1.addresses)
      BY <1>1 DEF HoldsAddress, LedgerExtends, Ledger
    <2>2. l2.addresses[s.lo - 1] = l1.addresses[s.lo - 1]
      BY <2>1 DEF LedgerExtends
    <2>3. QED
      BY <1>1, <2>1, <2>2 DEF StorageOf
  <1>2. CASE HoldsBytes32(l1, s)
    <2>1. /\ HoldsBytes32(l2, s) /\ s.hi \in 1 .. Len(l1.bytes32)
          /\ ~ HoldsAddress(l1, s) /\ ~ HoldsAddress(l2, s)
      BY <1>2 DEF HoldsAddress, HoldsBytes32, LedgerExtends, Ledger
    <2>2. l2.bytes32[s.hi] = l1.bytes32[s.hi]
      BY <2>1 DEF LedgerExtends
    <2>3. QED
      BY <1>2, <2>1, <2>2 DEF StorageOf
  <1>3. QED
    BY <1>1, <1>2 DEF StorageOf

----------------------------------------------------------------------------
(* The stack of frames *)

(* A frame that counts one more call is a frame. *)
LEMMA CallEndedType ==
    ASSUME NEW f \in Frame
    PROVE  /\ CallEnded(f) \in Frame
           /\ CallEnded(f).entry = f.entry
           /\ CallEnded(f).entryLedger = f.entryLedger
  BY DEF CallEnded, Frame

(* A frame that ends leaves those below it with the storage they would go  *)
(* back to.                                                                *)
LEMMA PoppedFrames ==
    ASSUME frames \in Seq(Frame), frames # << >>
    PROVE  /\ Depth \in Nat \ {0}
           /\ Top \in Frame
           /\ Popped \in Seq(Frame)
           /\ Len(Popped) = Depth - 1
           /\ \A k \in 1 .. Depth - 1 :
                 /\ Popped[k].entry = frames[k].entry
                 /\ Popped[k].entryLedger = frames[k].entryLedger
  <1>1. /\ Depth \in Nat \ {0}
        /\ Top \in Frame
    BY DEF Depth, Top
  <1>2. /\ Below \in Seq(Frame)
        /\ Len(Below) = Depth - 1
        /\ \A k \in 1 .. Depth - 1 : Below[k] = frames[k] /\ Below[k] \in Frame
    BY <1>1 DEF Depth, Below
  <1>3. ASSUME Depth > 1
        PROVE  LET after == [Below EXCEPT ![Depth - 1] = CallEnded(@)]
               IN  /\ after \in Seq(Frame)
                   /\ Len(after) = Depth - 1
                   /\ \A k \in 1 .. Depth - 1 :
                         /\ after[k].entry = frames[k].entry
                         /\ after[k].entryLedger = frames[k].entryLedger
    <2>1. CallEnded(Below[Depth - 1]) \in Frame
      BY <1>1, <1>2, <1>3, CallEndedType
    <2>2. QED
      BY <1>1, <1>2, <1>3, <2>1, CallEndedType
  <1>4. QED
    BY <1>1, <1>2, <1>3 DEF Popped

----------------------------------------------------------------------------
(* The invariant *)

(* The inductive invariant. *)
Inv == TypeOK /\ LedgersNest

(* Every frame in progress is a frame. *)
LEMMA FramesType ==
    ASSUME TypeOK
    PROVE  /\ Depth \in Nat
           /\ \A k \in 1 .. Depth : frames[k] \in Frame /\ frames[k].entryLedger \in Ledger
  <1>1. Depth \in Nat /\ \A k \in 1 .. Depth : frames[k] \in Frame
    BY DEF TypeOK, Depth
  <1>2. \A f \in Frame : f.entryLedger \in Ledger
    BY DEF Frame
  <1>3. QED
    BY <1>1, <1>2

(* The empty ledger is that of the storage in which every slot is zero. *)
LEMMA EmptyLedgerStorage ==
    EmptyLedger \in Ledger /\ Fits(EmptyLedger) /\ StorageOf(EmptyLedger) = EmptyStorage
  <1>1. EmptyLedger \in Ledger /\ Fits(EmptyLedger)
    BY RepositoryAssumption DEF EmptyLedger, Ledger, Fits
  <1>2. \A s \in Word : ~ HoldsAddress(EmptyLedger, s) /\ ~ HoldsBytes32(EmptyLedger, s)
    BY DEF EmptyLedger, HoldsAddress, HoldsBytes32, Word, Limb
  <1>3. W(Len(EmptyLedger.addresses), Len(EmptyLedger.bytes32)) = Zero
    BY DEF EmptyLedger, Zero
  <1>4. QED
    BY <1>1, <1>2, <1>3 DEF StorageOf, EmptyStorage

(* The initial state satisfies the inductive invariant. *)
LEMMA InitInv == Init => Inv
  <1> SUFFICES ASSUME Init PROVE Inv
    OBVIOUS
  <1>1. Depth = 0 /\ frames \in Seq(Frame)
    BY DEF Init, Depth
  <1>2. TypeOK
    BY <1>1, EmptyLedgerStorage, StorageOfType DEF Init, TypeOK
  <1>3. LedgersNest
    BY <1>1, EmptyLedgerStorage, ExtendsIsAnOrder DEF Init, LedgersNest, StorageMatchesLedger
  <1>4. QED
    BY <1>2, <1>3 DEF Inv

(* A new frame goes back to the storage it was entered with. *)
LEMMA PushInv ==
    ASSUME Inv, NEW c \in {"external"} \cup Methods, NEW n \in Nat,
           frames' = Append(frames, NewFrame(c, n)),
           UNCHANGED <<storage, mined, ledger, minedLedger>>
    PROVE  Inv'
  <1> DEFINE f == NewFrame(c, n)
  <1>1. f \in Frame /\ f.entry = storage /\ f.entryLedger = ledger
    BY DEF Inv, TypeOK, NewFrame, Frame
  <1>2. /\ frames' \in Seq(Frame)
        /\ Depth \in Nat
        /\ Depth' = Depth + 1
        /\ \A k \in 1 .. Depth : frames'[k] = frames[k]
        /\ frames'[Depth'] = f
    BY <1>1 DEF Inv, TypeOK, Depth
  <1>3. TypeOK'
    BY <1>2 DEF Inv, TypeOK
  <1>4. LedgersNest'
    <2> SUFFICES ASSUME NEW k \in 1 .. Depth + 1
                 PROVE  /\ frames'[k].entry = StorageOf(frames'[k].entryLedger)
                        /\ Fits(frames'[k].entryLedger)
                        /\ LedgerExtends(minedLedger, frames'[k].entryLedger)
                        /\ LedgerExtends(frames'[k].entryLedger, ledger)
                        /\ \A j \in 1 .. k :
                              LedgerExtends(frames'[j].entryLedger, frames'[k].entryLedger)
      BY <1>2 DEF Inv, LedgersNest, StorageMatchesLedger
    <2>1. CASE k \in 1 .. Depth
      <3>1. \A j \in 1 .. k : j \in 1 .. Depth
        BY <1>2, <2>1
      <3>2. QED
        BY <1>2, <2>1, <3>1 DEF Inv, LedgersNest
    <2>2. CASE k = Depth + 1
      <3>1. frames'[k] = f
        BY <1>2, <2>2
      <3>2. LedgerExtends(ledger, ledger)
        BY ExtendsIsAnOrder DEF Inv, TypeOK
      <3>3. ASSUME NEW j \in 1 .. k
            PROVE  LedgerExtends(frames'[j].entryLedger, ledger)
        <4>1. CASE j = k
          BY <1>1, <3>1, <3>2, <4>1
        <4>2. CASE j # k
          <5>1. j \in 1 .. Depth
            BY FramesType, <2>2, <4>2 DEF Inv
          <5>2. frames'[j] = frames[j]
            BY <1>2, <5>1
          <5>3. QED
            BY <5>1, <5>2 DEF Inv, LedgersNest
        <4>3. QED
          BY <4>1, <4>2
      <3>4. QED
        BY <1>1, <3>1, <3>2, <3>3 DEF Inv, LedgersNest, StorageMatchesLedger
    <2>3. k \in 1 .. Depth \/ k = Depth + 1
      BY FramesType DEF Inv
    <2>4. QED
      BY <2>1, <2>2, <2>3
  <1>5. QED
    BY <1>3, <1>4 DEF Inv

(* A save extends the current ledger, hence every ledger it extends. *)
LEMMA SaveInv ==
    ASSUME Inv, NEW l \in Ledger, Fits(l), LedgerExtends(ledger, l),
           storage' = StorageOf(l), ledger' = l,
           UNCHANGED <<frames, mined, minedLedger>>
    PROVE  Inv'
  <1>1. TypeOK'
    BY StorageOfType DEF Inv, TypeOK
  <1>2. /\ Depth' = Depth /\ Depth \in Nat
        /\ \A k \in 1 .. Depth : frames[k].entryLedger \in Ledger
    BY FramesType DEF Inv, Depth
  <1>3. LedgerExtends(minedLedger, l)
    BY ExtendsIsAnOrder DEF Inv, TypeOK, LedgersNest
  <1>4. ASSUME NEW k \in 1 .. Depth
        PROVE  LedgerExtends(frames[k].entryLedger, l)
    BY <1>2, ExtendsIsAnOrder DEF Inv, TypeOK, LedgersNest
  <1>5. LedgersNest'
    BY <1>2, <1>3, <1>4 DEF Inv, LedgersNest, StorageMatchesLedger
  <1>6. QED
    BY <1>1, <1>5 DEF Inv

(* The end of the top frame, by a return or by a revert. *)
LEMMA PopInv ==
    ASSUME Inv, frames # << >>, frames' = Popped,
           UNCHANGED <<mined, minedLedger>>,
           \/ UNCHANGED <<storage, ledger>>
           \/ storage' = Top.entry /\ ledger' = Top.entryLedger
    PROVE  Inv'
  <1>1. /\ Depth \in Nat \ {0}
        /\ Top \in Frame
        /\ frames' \in Seq(Frame)
        /\ Depth' = Depth - 1
        /\ \A k \in 1 .. Depth - 1 :
              /\ frames'[k].entry = frames[k].entry
              /\ frames'[k].entryLedger = frames[k].entryLedger
    BY PoppedFrames DEF Inv, TypeOK, Depth
  <1>2. TypeOK'
    BY <1>1 DEF Inv, TypeOK, Frame
  <1>3. /\ storage' = StorageOf(ledger')
        /\ Fits(ledger')
        /\ LedgerExtends(minedLedger, ledger')
        /\ \A k \in 1 .. Depth - 1 : LedgerExtends(frames[k].entryLedger, ledger')
    <2>1. CASE UNCHANGED <<storage, ledger>>
      BY <1>1, <2>1 DEF Inv, LedgersNest, StorageMatchesLedger
    <2>2. CASE storage' = Top.entry /\ ledger' = Top.entryLedger
      <3>1. Top = frames[Depth] /\ Depth \in 1 .. Depth
        BY <1>1 DEF Top
      <3>2. \A k \in 1 .. Depth - 1 : k \in 1 .. Depth
        BY <1>1
      <3>3. QED
        BY <2>2, <3>1, <3>2 DEF Inv, LedgersNest
    <2>3. QED
      BY <2>1, <2>2
  <1>4. LedgersNest'
    <2> SUFFICES ASSUME NEW k \in 1 .. Depth - 1
                 PROVE  /\ frames'[k].entry = StorageOf(frames'[k].entryLedger)
                        /\ Fits(frames'[k].entryLedger)
                        /\ LedgerExtends(minedLedger, frames'[k].entryLedger)
                        /\ LedgerExtends(frames'[k].entryLedger, ledger')
                        /\ \A j \in 1 .. k :
                              LedgerExtends(frames'[j].entryLedger, frames'[k].entryLedger)
      BY <1>1, <1>3 DEF Inv, LedgersNest, StorageMatchesLedger
    <2>1. k \in 1 .. Depth /\ \A j \in 1 .. k : j \in 1 .. Depth - 1
      BY <1>1
    <2>2. QED
      BY <1>1, <1>3, <2>1 DEF Inv, LedgersNest
  <1>5. QED
    BY <1>2, <1>4 DEF Inv

(* The current storage replaces the mined one. *)
LEMMA CommitInv ==
    ASSUME Inv, CommitTransaction
    PROVE  Inv'
  <1>1. /\ frames' = << >> /\ frames' \in Seq(Frame) /\ Depth' = 0
        /\ mined' = storage /\ minedLedger' = ledger
        /\ UNCHANGED <<storage, ledger>>
    BY DEF CommitTransaction, Depth
  <1>2. TypeOK'
    BY <1>1 DEF Inv, TypeOK
  <1>3. LedgerExtends(ledger, ledger)
    BY ExtendsIsAnOrder DEF Inv, TypeOK
  <1>4. LedgersNest'
    BY <1>1, <1>3 DEF Inv, LedgersNest, StorageMatchesLedger
  <1>5. QED
    BY <1>2, <1>4 DEF Inv

(* Every step of a transaction preserves the inductive invariant. *)
LEMMA NextInv == Inv /\ [Next]_vars => Inv'
  <1> SUFFICES ASSUME Inv, [Next]_vars
               PROVE  Inv'
    OBVIOUS
  <1>1. CASE BeginTransaction
    <2>1. frames' = Append(frames, NewFrame("external", 0))
      BY <1>1 DEF BeginTransaction
    <2>2. QED
      BY <1>1, <2>1, PushInv DEF BeginTransaction
  <1>2. ASSUME NEW method \in Methods, NEW size \in 0 .. MaxBatch, Invoke(method, size)
        PROVE  Inv'
    <2>1. size \in Nat
      BY RepositoryAssumption
    <2>2. QED
      BY <1>2, <2>1, PushInv DEF Invoke
  <1>3. ASSUME NEW v \in AddressValues, SaveAddressFlag(v)
        PROVE  Inv'
    <2>1. v \in Word /\ ledger \in Ledger /\ Fits(ledger) /\ storage = StorageOf(ledger)
      BY RepositoryAssumption DEF Inv, TypeOK, LedgersNest, StorageMatchesLedger
    <2>2. Len(ledger.addresses) < MaxAddresses
      <3>1. W(0, Len(ledger.addresses)).lo = Len(ledger.addresses)
        BY DEF W
      <3>2. QED
        BY <1>3, <2>1, <3>1, CountersOfLedger DEF SaveAddressFlag
    <2>3. LedgerExtends(ledger, WithAddress(ledger, v))
      BY <2>1 DEF LedgerExtends, Ledger, WithAddress
    <2>4. QED
      BY <1>3, <2>1, <2>2, <2>3, SaveAddressAppends, SaveInv DEF SaveAddressFlag
  <1>4. ASSUME NEW v \in Bytes32Values, SaveBytes32Flag(v)
        PROVE  Inv'
    <2>1. v \in Word /\ ledger \in Ledger /\ Fits(ledger) /\ storage = StorageOf(ledger)
      BY RepositoryAssumption DEF Inv, TypeOK, LedgersNest, StorageMatchesLedger
    <2>2. Len(ledger.bytes32) < MaxBytes32
      <3>1. W(0, Len(ledger.bytes32)).lo = Len(ledger.bytes32)
        BY DEF W
      <3>2. QED
        BY <1>4, <2>1, <3>1, CountersOfLedger DEF SaveBytes32Flag
    <2>3. LedgerExtends(ledger, WithBytes32(ledger, v))
      BY <2>1 DEF LedgerExtends, Ledger, WithBytes32
    <2>4. QED
      BY <1>4, <2>1, <2>2, <2>3, SaveBytes32Appends, SaveInv DEF SaveBytes32Flag
  <1>5. CASE PerformCall
    BY <1>5, PushInv DEF PerformCall
  <1>6. CASE CallRunsNoCode
    <2>1. /\ frames' = [frames EXCEPT ![Depth] = CallEnded(@)]
          /\ frames # << >>
          /\ UNCHANGED <<storage, mined, ledger, minedLedger>>
      BY <1>6 DEF CallRunsNoCode, InMethod
    <2>2. /\ Depth \in Nat \ {0} /\ frames \in Seq(Frame)
          /\ CallEnded(frames[Depth]) \in Frame
      BY <2>1, CallEndedType DEF Inv, TypeOK, Depth
    <2>3. /\ frames' \in Seq(Frame) /\ Depth' = Depth
          /\ \A k \in 1 .. Depth : /\ frames'[k].entry = frames[k].entry
                                   /\ frames'[k].entryLedger = frames[k].entryLedger
      BY <2>1, <2>2, CallEndedType DEF Depth
    <2>4. TypeOK'
      BY <2>1, <2>3 DEF Inv, TypeOK
    <2>5. LedgersNest'
      <3>1. ASSUME NEW k \in 1 .. Depth
            PROVE  /\ frames'[k].entry = StorageOf(frames'[k].entryLedger)
                   /\ Fits(frames'[k].entryLedger)
                   /\ LedgerExtends(minedLedger, frames'[k].entryLedger)
                   /\ LedgerExtends(frames'[k].entryLedger, ledger)
                   /\ \A j \in 1 .. k :
                        LedgerExtends(frames'[j].entryLedger, frames'[k].entryLedger)
        <4>1. \A j \in 1 .. k : j \in 1 .. Depth
          BY <2>2
        <4>2. QED
          BY <2>3, <4>1 DEF Inv, LedgersNest
      <3>2. QED
        BY <2>1, <2>3, <3>1 DEF Inv, LedgersNest, StorageMatchesLedger
    <2>6. QED
      BY <2>4, <2>5 DEF Inv
  <1>7. CASE ReturnFromMethod
    BY <1>7, PopInv DEF ReturnFromMethod
  <1>8. CASE ReturnFromExternal
    <2>1. frames # << >>
      BY <1>8 DEF ReturnFromExternal, Depth
    <2>2. QED
      BY <1>8, <2>1, PopInv DEF ReturnFromExternal
  <1>9. CASE RevertFrame
    BY <1>9, PopInv DEF RevertFrame
  <1>10. CASE CommitTransaction
    BY <1>10, CommitInv
  <1>11. CASE UNCHANGED vars
    <2>1. Depth' = Depth /\ UNCHANGED <<storage, frames, mined, ledger, minedLedger>>
      BY <1>11 DEF vars, Depth
    <2>2. QED
      BY <2>1 DEF Inv, TypeOK, LedgersNest, StorageMatchesLedger
  <1>12. QED
    BY <1>1, <1>2, <1>3, <1>4, <1>5, <1>6, <1>7, <1>8, <1>9, <1>10, <1>11 DEF Next

----------------------------------------------------------------------------
(* The theorems *)

(* Every reachable state satisfies the type invariant and the nesting of   *)
(* ledgers: the storage, the mined storage and the storage every frame     *)
(* would revert to hold exactly what was saved and not undone.             *)
THEOREM Invariance == Spec => [](TypeOK /\ LedgersNest)
  <1>1. Inv <=> TypeOK /\ LedgersNest
    BY DEF Inv
  <1>2. Spec => []Inv
    BY InitInv, NextInv, PTL DEF Spec
  <1>3. QED
    BY <1>1, <1>2, PTL

(* Storage, frames and ledgers keep their types: no counter outgrows its   *)
(* half of slot 0, whatever frames revert, and every frame that is in      *)
(* progress is one the contract can go back to (PULL_ADDRESSES_NUM,        *)
(* PULL_BYTES32_NUM and the calls).                                        *)
THEOREM TypeCorrect == Spec => []TypeOK
  BY Invariance, PTL

(* The counters and slots of the contract hold exactly the values saved,   *)
(* each at its own index, at every point of every transaction.             *)
THEOREM StorageIsExact == Spec => []StorageMatchesLedger
  <1>1. TypeOK /\ LedgersNest => StorageMatchesLedger
    BY DEF LedgersNest
  <1>2. QED
    BY <1>1, Invariance, PTL

(* An index allotted before a transaction, or before any frame of it in    *)
(* progress, reads the same whatever has run since.                        *)
THEOREM IndexesStable == Spec => []AllottedIndexesStable
  <1>1. ASSUME TypeOK, LedgersNest
        PROVE  AllottedIndexesStable
    <2>1. /\ ledger \in Ledger /\ minedLedger \in Ledger
          /\ \A k \in 1 .. Depth : frames[k].entryLedger \in Ledger
      BY <1>1, FramesType DEF TypeOK
    <2>2. SameReads(mined, storage)
      BY <1>1, <2>1, ReadsSurvive DEF LedgersNest, StorageMatchesLedger
    <2>3. ASSUME NEW k \in 1 .. Depth
          PROVE  SameReads(frames[k].entry, storage)
      BY <1>1, <2>1, ReadsSurvive DEF LedgersNest, StorageMatchesLedger
    <2>4. QED
      BY <2>2, <2>3 DEF AllottedIndexesStable
  <1>2. QED
    BY <1>1, Invariance, PTL

(* What a step may do to the mined storage: leave it alone, or replace it  *)
(* by that of a ledger that extends its own.                               *)
LEMMA MinedStep ==
    ASSUME TypeOK, LedgersNest, [Next]_vars
    PROVE  \/ UNCHANGED <<mined, minedLedger>>
           \/ mined' = StorageOf(ledger) /\ minedLedger' = ledger
  BY DEF Next, vars, BeginTransaction, Invoke, SaveAddressFlag, SaveBytes32Flag,
         PerformCall, CallRunsNoCode, ReturnFromMethod, ReturnFromExternal,
         RevertFrame, CommitTransaction, LedgersNest, StorageMatchesLedger

(* No slot but the counters ever changes once it holds a value. *)
THEOREM StorageIsWriteOnce == Spec => WriteOnce
  <1>1. ASSUME TypeOK, LedgersNest, [Next]_vars
        PROVE  \A s \in Word \ {CountersSlot} : mined[s] # Zero => mined'[s] = mined[s]
    <2> SUFFICES ASSUME NEW s \in Word, s # CountersSlot, mined[s] # Zero
                 PROVE  mined'[s] = mined[s]
      OBVIOUS
    <2>1. CASE UNCHANGED <<mined, minedLedger>>
      BY <2>1
    <2>2. CASE mined' = StorageOf(ledger)
      BY <1>1, <2>2, SlotsSurvive DEF TypeOK, LedgersNest
    <2>3. QED
      BY <1>1, <2>1, <2>2, MinedStep
  <1>2. QED
    BY <1>1, Invariance, PTL DEF Spec, WriteOnce

(* A sequence is the function of its indexes. *)
LEMMA SequenceIsItsFunction ==
    ASSUME NEW s \in Seq(Word)
    PROVE  [i \in 1 .. Len(s) |-> s[i]] = s
  OBVIOUS

(* What the read methods give for the mined storage is the mined ledger. *)
LEMMA MinedIsLedger ==
    TypeOK /\ LedgersNest =>
        /\ MinedAddresses = minedLedger.addresses
        /\ MinedBytes32 = minedLedger.bytes32
  <1> SUFFICES ASSUME TypeOK, LedgersNest
               PROVE  /\ MinedAddresses = minedLedger.addresses
                      /\ MinedBytes32 = minedLedger.bytes32
    OBVIOUS
  <1>1. minedLedger \in Ledger /\ Fits(minedLedger) /\ mined = StorageOf(minedLedger)
    BY DEF TypeOK, LedgersNest
  <1>2. /\ AddressesNum(mined).lo = Len(minedLedger.addresses)
        /\ Bytes32Num(mined).lo = Len(minedLedger.bytes32)
    <2>1. \A n : W(0, n).lo = n
      BY DEF W
    <2>2. QED
      BY <1>1, <2>1, CountersOfLedger
  <1>3. /\ MinedAddresses =
              [i \in 1 .. Len(minedLedger.addresses) |-> minedLedger.addresses[i]]
        /\ MinedBytes32 =
              [i \in 1 .. Len(minedLedger.bytes32) |-> minedLedger.bytes32[i]]
    BY <1>1, <1>2, ReadsOfLedger DEF MinedAddresses, MinedBytes32
  <1>4. /\ minedLedger.addresses \in Seq(Word)
        /\ minedLedger.bytes32 \in Seq(Word)
    BY <1>1 DEF Ledger
  <1>5. QED
    BY <1>3, <1>4, SequenceIsItsFunction

(* The contract, read through its own read methods, is the registry that   *)
(* only ever appends.                                                      *)
THEOREM Refinement == Spec => ImplementsRegistry
  <1>1. Init => R!RegistryInit
    <2> SUFFICES ASSUME Init PROVE R!RegistryInit
      OBVIOUS
    <2>1. TypeOK /\ LedgersNest
      BY InitInv DEF Inv
    <2>2. MinedAddresses = << >> /\ MinedBytes32 = << >>
      BY <2>1, MinedIsLedger DEF Init, EmptyLedger
    <2>3. QED
      BY <2>2 DEF R!RegistryInit
  <1>2. ASSUME TypeOK, LedgersNest, TypeOK', LedgersNest', [Next]_vars
        PROVE  [R!RegistryNext]_(R!registryVars)
    <2>1. MinedAddresses = minedLedger.addresses /\ MinedBytes32 = minedLedger.bytes32
      BY <1>2, MinedIsLedger
    <2>2. /\ MinedAddresses' = minedLedger'.addresses
          /\ MinedBytes32' = minedLedger'.bytes32
      <3>1. (TypeOK /\ LedgersNest =>
                /\ MinedAddresses = minedLedger.addresses
                /\ MinedBytes32 = minedLedger.bytes32)'
        BY MinedIsLedger, PTL
      <3>2. QED
        BY <1>2, <3>1
    <2>3. CASE UNCHANGED <<mined, minedLedger>>
      BY <2>1, <2>2, <2>3 DEF R!registryVars
    <2>4. CASE minedLedger' = ledger
      <3>1. LedgerExtends(minedLedger, ledger)
        BY <1>2 DEF LedgersNest
      <3>2. QED
        BY <2>1, <2>2, <2>4, <3>1 DEF R!RegistryNext, R!ExtendedBy, LedgerExtends
    <2>5. QED
      BY <1>2, <2>3, <2>4, MinedStep
  <1>3. QED
    BY <1>1, <1>2, Invariance, PTL DEF Spec, ImplementsRegistry, R!RegistrySpec
=============================================================================
