--------------------------- MODULE StorageLayout ---------------------------
(***************************************************************************)
(* The storage of the decompressor contract: what a 256-bit slot holds,    *)
(* where an address or a bytes32 of a given index is kept, and the effect  *)
(* on the storage of the two operations that write it.                     *)
(*                                                                         *)
(* The contract keeps its two counters in slot 0, the number of addresses  *)
(* in the high 128 bits and the number of bytes32 in the low 128 bits; the *)
(* address of index i is in slot i + 1, the bytes32 of index i in slot     *)
(* i << 128.  Every operation of the code that touches them moves halves   *)
(* of words about, so a 256-bit word is a pair of limbs below Half, and    *)
(* Half stands for 2^128.  Arithmetic wraps and carries as it does there.  *)
(***************************************************************************)
EXTENDS Naturals, Sequences

CONSTANT Half  (* 2^128 in the contract, a small number when TLC checks it *)

ASSUME HalfAssumption == Half \in Nat /\ Half > 2

----------------------------------------------------------------------------
(* 256-bit words *)

Limb == 0 .. Half - 1

Word == [hi : Limb, lo : Limb]

W(h, l) == [hi |-> h, lo |-> l]

Zero == W(0, 0)

(* x << 128, x >> 128 and the two masks of 128 bits *)
Shl128(x) == W(x.lo, 0)
Shr128(x) == W(0, x.hi)
LowHalf(x) == W(0, x.lo)
HighHalf(x) == W(x.hi, 0)

(* x + 1 modulo 2^256: the carry of the low limb goes into the high one. *)
Inc(x) ==
    IF x.lo + 1 < Half THEN W(x.hi, x.lo + 1) ELSE W((x.hi + 1) % Half, 0)

(* x | y for the two shapes the code builds: the limbs do not overlap, or  *)
(* y is a carry, whose high limb is 0 or 1.                                *)
OrLimb(a, b) == IF b = 1 /\ a % 2 = 1 THEN a ELSE a + b
Or(x, y) == W(OrLimb(x.hi, y.hi), OrLimb(x.lo, y.lo))

----------------------------------------------------------------------------
(* Slots, counters and reads *)

Storage == [Word -> Word]

EmptyStorage == [s \in Word |-> Zero]

CountersSlot == Zero

(* Mutant: the slot of a bytes32 computed as that of an address. *)
Bytes32SlotAdded(index) == Inc(index)

AddressSlot(index) == Inc(index)
Bytes32Slot(index) == Shl128(index)

AddressesNum(st) == Shr128(st[CountersSlot])
Bytes32Num(st) == LowHalf(st[CountersSlot])

(* What READ_ADDRESS, READ_BYTES32 and their flags return for an index. *)
ReadAddress(st, index) == st[AddressSlot(index)]
ReadBytes32(st, index) == st[Bytes32Slot(index)]

----------------------------------------------------------------------------
(* The storage after SAVE_ADDRESS or SAVE_BYTES32 of a value: a counter is *)
(* incremented and the value written to the slot of the new index.         *)

(* Mutant: the counter is read but not incremented. *)
SameAddress(st) == AddressesNum(st)

NextAddress(st) == Inc(AddressesNum(st))
NextBytes32(st) == Inc(Bytes32Num(st))

(* Mutants: the other half of the counters is dropped. *)
PullAddressAlone(st) == [st EXCEPT ![CountersSlot] = Shl128(NextAddress(st))]
PullBytes32Alone(st) == [st EXCEPT ![CountersSlot] = NextBytes32(st)]

PullAddress(st) ==
    [st EXCEPT ![CountersSlot] =
        Or(Shl128(NextAddress(st)), LowHalf(st[CountersSlot]))]

PullBytes32(st) ==
    [st EXCEPT ![CountersSlot] =
        Or(HighHalf(st[CountersSlot]), NextBytes32(st))]

(* Mutant: the value goes to the slot of the index before. *)
SaveBytes32Late(st, v) ==
    [PullBytes32(st) EXCEPT ![Bytes32Slot(Bytes32Num(st))] = v]

SaveAddress(st, v) ==
    [PullAddress(st) EXCEPT ![AddressSlot(NextAddress(st))] = v]

SaveBytes32(st, v) ==
    [PullBytes32(st) EXCEPT ![Bytes32Slot(NextBytes32(st))] = v]
=============================================================================
