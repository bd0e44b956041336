---------------------------- MODULE FlagMachine ----------------------------
(***************************************************************************)
(* The state machine of the decompressor contract (FN_READ_FLAG), on the   *)
(* flags that are not specific to Sequence.                                *)
(*                                                                         *)
(* It reads a flag of the calldata at rindex, writes what the flag stands  *)
(* for to the memory at windex, and jumps back to whoever asked for that   *)
(* flag: the method that was called, or a flag that has other flags nested *)
(* in it.  The stack holds what those that wait will do next, the last of  *)
(* them first.                                                             *)
(*                                                                         *)
(* The memory is not clean: the jump tables of the contract were written   *)
(* to it, and every call of a batch is decompressed over the one before.   *)
(* So it is a matter of its own that every byte before windex was written. *)
(*                                                                         *)
(* The storage is the one of module Registry, which module Repository is   *)
(* shown to implement: two sequences of words.                             *)
(***************************************************************************)
EXTENDS Flags

LOCAL INSTANCE SequencesExt  (* Front, Last *)

VARIABLES
    calldata,   (* the payload *)
    rindex,     (* where it is read, from 0 *)
    memory,     (* the memory from FMS on, as far as it was written *)
    windex,     (* where it is written, from 0 *)
    stack,      (* who waits for the flag being read *)
    pc,         (* what the machine is about to do, "flag" to read a flag *)
    addresses,  (* the addresses in the storage, by index from 1 *)
    bytes32     (* the bytes32 in the storage, by index from 1 *)

storageVars == <<addresses, bytes32>>
machineVars == <<calldata, rindex, memory, windex, stack, pc, addresses, bytes32>>

----------------------------------------------------------------------------
(* Reading the calldata: there are zeros after its end. *)

At(i) == IF i < Len(calldata) THEN calldata[i + 1] ELSE 0
Read(i, n) == [k \in 1 .. n |-> At(i + k - 1)]
ReadValue(i, n) == Value(Read(i, n))

(* The flag at rindex, and its arguments.  A byte of zero is NO_OP. *)
Opcode == IF rindex < Len(calldata) THEN At(rindex) ELSE FLAG_NO_OP
Arg(n) == ReadValue(rindex + 1, n)

(* What is in the memory where nothing was written: no byte of anybody.    *)
Dirty == LITERAL_ZERO + Literals

(* Some bytes written to the memory, from a position on. *)
Put(mem, at, bytes) ==
    LET end == at + Len(bytes)
    IN  [i \in 1 .. IF Len(mem) > end THEN Len(mem) ELSE end |->
            IF i \in at + 1 .. end THEN bytes[i - at]
            ELSE IF i <= Len(mem) THEN mem[i] ELSE Dirty]

(* The word that ends at windex (BACKREAD_SINGLE_VALUE). *)
LastWord == SubSeq(memory, windex - WordBytes + 1, windex)

(* What was decompressed. *)
Output == SubSeq(memory, 1, windex)

(* What waits on the stack:                                                *)
(*   "flags"   left more flags to read one after the other                 *)
(*   "mirror"  the reading goes on at rindex                               *)
(*   "size"    the word just written is a number of bytes to copy          *)
(*   "padded"  bytes from start on are to be padded, with their size       *)
(*             in the word before them                                     *)
(*   "params"  the parameters of a call, some of them of any length        *)
Flags(left) == [wait |-> "flags", left |-> left]
Mirror(next) == [wait |-> "mirror", rindex |-> next]
Size == [wait |-> "size"]
Padded(start) == [wait |-> "padded", start |-> start]

(* Mutant: a loop that tests its counter before. *)
AsMany(n) == n

(* The loops over nested flags test their counter after the first of them. *)
AtLeastOne(n) == IF n = 0 THEN 1 ELSE n

----------------------------------------------------------------------------
MachineInit ==
    /\ calldata = << >>
    /\ rindex = 0
    /\ memory = << >>
    /\ windex = 0
    /\ stack = << >>
    /\ pc = "idle"
    /\ addresses = << >>
    /\ bytes32 = << >>

----------------------------------------------------------------------------
(* Flags that write some bytes and have no other flag nested in them: the  *)
(* flag has a number of bytes of arguments after it.                       *)

Writes(bytes, args) ==
    /\ memory' = Put(memory, windex, bytes)
    /\ windex' = windex + Len(bytes)
    /\ rindex' = rindex + 1 + args
    /\ pc' = "back"
    /\ UNCHANGED <<calldata, stack>>

WritesOnly(bytes, args) == Writes(bytes, args) /\ UNCHANGED storageVars

Reading(flag) == pc = "flag" /\ Opcode = flag

NoOp == Reading(FLAG_NO_OP) /\ WritesOnly(<< >>, 0)

Literal ==
    /\ pc = "flag"
    /\ Opcode >= LITERAL_ZERO
    /\ WritesOnly(WordOf(Opcode - LITERAL_ZERO), 0)

ReadWord ==
    \E n \in 1 .. WordBytes :
        /\ Reading(FLAG_READ_WORD(n))
        /\ WritesOnly(Pad(Read(rindex + 1, n)), n)

(* The READ_WORD flag that follows is taken as a number of bytes. *)
ReadWordInv ==
    LET n == At(rindex + 1) - FLAG_NO_OP
    IN  /\ Reading(FLAG_READ_WORD_INV)
        /\ WritesOnly(PadRight(Read(rindex + 2, n)), n + 1)

WriteZeros == Reading(FLAG_WRITE_ZEROS) /\ WritesOnly(Zeros(Arg(1)), 1)

Pow2(e) == IF 2 ^ e < WordBase THEN 2 ^ e ELSE 0

ReadPow2 == Reading(FLAG_POW_2) /\ WritesOnly(WordOf(Pow2(Arg(1))), 1)

(* 2 ^ (e + 1) - 1, where 2 ^ (e + 1) may be 2 ^ 256, that is zero. *)
ReadPow2Minus1 ==
    /\ Reading(FLAG_POW_2_MINUS_1)
    /\ WritesOnly(WordOf(WordBase + Pow2(Arg(1) + 1) - 1), 1)

ReadPow10 ==
    /\ Reading(FLAG_POW_10)
    /\ Arg(1) <= MaxPow10
    /\ WritesOnly(WordOf(Pow10(Arg(1))), 1)

(* An exponent and a mantissa, in as many bits each as they need. *)
ReadMantissa(flag, size, mantissas) ==
    LET exponent == Arg(size) \div mantissas
        mantissa == Arg(size) % mantissas
    IN  /\ Reading(flag)
        /\ exponent <= MaxPow10
        /\ WritesOnly(WordOf(mantissa * Pow10(exponent)), size)

ReadMantissaS == ReadMantissa(FLAG_POW_10_MANTISSA_S, 2, MantissaS)
ReadMantissaL == ReadMantissa(FLAG_POW_10_MANTISSA_L, 3, MantissaL)

(* Bytes copied from anywhere in the calldata. *)
CopyCalldata(flag, startSize, sizeSize) ==
    LET size == ReadValue(rindex + 1 + startSize, sizeSize)
    IN  /\ Reading(flag)
        /\ WritesOnly(Read(Arg(startSize), size), startSize + sizeSize)

CopyCalldataS == CopyCalldata(FLAG_COPY_CALLDATA_S, 2, 1)
CopyCalldataL == CopyCalldata(FLAG_COPY_CALLDATA_L, 3, 1)
CopyCalldataXL == CopyCalldata(FLAG_COPY_CALLDATA_XL, 3, 2)

----------------------------------------------------------------------------
(* Flags that use the storage *)

(* Mutant: the address is saved as its bytes are, not padded to a word. *)
SaveAddressUnpadded ==
    LET address == Read(rindex + 1, AddressBytes)
    IN  /\ Reading(FLAG_SAVE_ADDRESS)
        /\ Writes(Pad(address), AddressBytes)
        /\ addresses' = Append(addresses, address)
        /\ UNCHANGED bytes32

SaveAddress ==
    LET word == Pad(Read(rindex + 1, AddressBytes))
    IN  /\ Reading(FLAG_SAVE_ADDRESS)
        /\ Writes(word, AddressBytes)
        /\ addresses' = Append(addresses, word)
        /\ UNCHANGED bytes32

SaveBytes32 ==
    LET word == Read(rindex + 1, WordBytes)
    IN  /\ Reading(FLAG_SAVE_BYTES32)
        /\ Writes(word, WordBytes)
        /\ bytes32' = Append(bytes32, word)
        /\ UNCHANGED addresses

(* A slot that was not written reads zero. *)
Stored(words, index) ==
    IF index \in DOMAIN words THEN words[index] ELSE Zeros(WordBytes)

ReadAddress ==
    \E size \in 2 .. 4 :
        /\ Reading(FLAG_READ_ADDRESS(size))
        /\ WritesOnly(Stored(addresses, Arg(size)), size)

(* The slot of index 0 is the slot of the counters, and never asked for.   *)
ReadBytes32 ==
    \E size \in 2 .. 4 :
        /\ Reading(FLAG_READ_BYTES32(size))
        /\ Arg(size) # 0
        /\ WritesOnly(Stored(bytes32, Arg(size)), size)

(* Mutant: the pointer is one byte shorter than it is. *)
ReadStoreFlagShort(flag, size) ==
    LET at == Arg(size)
        word == IF At(at) = FLAG_SAVE_ADDRESS
                THEN Pad(Read(at + 1, AddressBytes))
                ELSE Read(at + 1, WordBytes)
    IN  Reading(flag) /\ WritesOnly(word, size - 1)

(* The word that a flag elsewhere in the calldata saves, or saved: if that *)
(* flag is not SAVE_ADDRESS, it is taken to be SAVE_BYTES32.               *)
ReadStoreFlag(flag, size) ==
    LET at == Arg(size)
        word == IF At(at) = FLAG_SAVE_ADDRESS
                THEN Pad(Read(at + 1, AddressBytes))
                ELSE Read(at + 1, WordBytes)
    IN  Reading(flag) /\ WritesOnly(word, size)

ReadStoreFlagS == ReadStoreFlag(FLAG_READ_STORE_FLAG_S, 2)
ReadStoreFlagL == ReadStoreFlag(FLAG_READ_STORE_FLAG_L, 3)

----------------------------------------------------------------------------
(* Flags with other flags nested in them: something is written, and the    *)
(* reading goes on at next, with frame waiting for it.                     *)

Nests(bytes, next, frame) ==
    /\ memory' = Put(memory, windex, bytes)
    /\ windex' = windex + Len(bytes)
    /\ rindex' = next
    /\ stack' = Append(stack, frame)
    /\ UNCHANGED <<calldata, pc, storageVars>>

MirrorFlag(flag, size) ==
    /\ Reading(flag)
    /\ Nests(<< >>, Arg(size), Mirror(rindex + 1 + size))

MirrorFlagS == MirrorFlag(FLAG_MIRROR_FLAG_S, 2)
MirrorFlagL == MirrorFlag(FLAG_MIRROR_FLAG_L, 3)

NestedFlags(flag, size) ==
    /\ Reading(flag)
    /\ Nests(<< >>, rindex + 1 + size, Flags(AtLeastOne(Arg(size)) - 1))

NestedFlagsS == NestedFlags(FLAG_NESTED_N_FLAGS_S, 1)
NestedFlagsL == NestedFlags(FLAG_NESTED_N_FLAGS_L, 2)

ReadNBytes == Reading(FLAG_READ_N_BYTES) /\ Nests(<< >>, rindex + 1, Size)

(* READ_ABI_4_BYTES: a selector is one of the table, or it follows a zero. *)
Selector == IF Arg(1) = 0 THEN Read(rindex + 2, SelectorBytes) ELSE Selectors[Arg(1)]
SelectorSize == IF Arg(1) = 0 THEN 1 + SelectorBytes ELSE 1

ReadAbi0 == Reading(FLAG_ABI(0)) /\ WritesOnly(Selector, SelectorSize)

ReadAbi ==
    \E params \in 1 .. MaxParams :
        /\ Reading(FLAG_ABI(params))
        /\ Nests(Selector, rindex + 1 + SelectorSize, Flags(params - 1))

(* READ_ABI_DYNAMIC: the selector, the number of parameters, and a bitmap  *)
(* of the parameters, among the first, that are of any length.  The next   *)
(* of their heads is to be written at head, the next of their tails, which *)
(* come after all of the heads, at tails.                                  *)
ReadDynamicAbi ==
    LET at == rindex + 1 + SelectorSize
        start == windex + SelectorBytes
    IN  /\ Reading(FLAG_READ_DYNAMIC_ABI)
        /\ memory' = Put(memory, windex, Selector)
        /\ windex' = start
        /\ rindex' = at + 2
        /\ stack' = Append(stack, [wait |-> "params", start |-> start,
                                   count |-> At(at), bitmap |-> At(at + 1), i |-> 0,
                                   head |-> start, tails |-> start + WordBytes * At(at)])
        /\ pc' = "param"
        /\ UNCHANGED <<calldata, storageVars>>

----------------------------------------------------------------------------
(* The jump back from a flag, to what waits for it *)

Waits(wait) == pc = "back" /\ stack # << >> /\ Last(stack).wait = wait

(* Another flag is read at an index of the memory, and then frame goes on. *)
ReadsOn(at, frame) ==
    /\ windex' = at
    /\ stack' = Append(Front(stack), frame)
    /\ pc' = "flag"
    /\ UNCHANGED <<calldata, rindex, storageVars>>

(* There is nothing more to do, but to jump back further. *)
Pops(at) ==
    /\ windex' = at
    /\ stack' = Front(stack)
    /\ UNCHANGED <<calldata, pc, storageVars>>

NextFlag ==
    /\ Waits("flags")
    /\ Last(stack).left > 0
    /\ ReadsOn(windex, Flags(Last(stack).left - 1))
    /\ UNCHANGED memory

NoMoreFlags ==
    /\ Waits("flags")
    /\ Last(stack).left = 0
    /\ Pops(windex)
    /\ UNCHANGED <<rindex, memory>>

MirrorEnds ==
    /\ Waits("mirror")
    /\ rindex' = Last(stack).rindex
    /\ Pops(windex)
    /\ UNCHANGED memory

(* The size is read back from the word it was written to, and the bytes    *)
(* are written over it.                                                    *)
CopyBytes ==
    LET start == windex - WordBytes
        size == Value(LastWord)
    IN  /\ Waits("size")
        /\ memory' = Put(memory, start, Read(rindex, size))
        /\ rindex' = rindex + size
        /\ Pops(start + size)

(* How many bytes some bytes lack to be a number of words. *)
Padding(size) == (WordBytes - (size % WordBytes)) % WordBytes

(* The size of the bytes is written before them, and a word of zeros after *)
(* them, of which some are the padding.                                    *)
PadBytes ==
    LET start == Last(stack).start
        size == windex - start
        sized == Put(memory, start - WordBytes, WordOf(size))
    IN  /\ Waits("padded")
        /\ memory' = Put(sized, windex, Zeros(WordBytes))
        /\ Pops(windex + Padding(size))
        /\ UNCHANGED rindex

----------------------------------------------------------------------------
(* The parameters of READ_ABI_DYNAMIC *)

IsDynamic(frame, i) == i < ByteBits /\ (frame.bitmap \div 2 ^ i) % 2 = 1

(* A parameter that is one word is read where the heads are. *)
ReadStaticParam ==
    /\ pc = "param"
    /\ ~IsDynamic(Last(stack), Last(stack).i)
    /\ ReadsOn(Last(stack).head, Last(stack))
    /\ UNCHANGED memory

(* One of any length is read where the tails are, after its size; its head *)
(* is a pointer to there.                                                  *)
ReadDynamicParam ==
    LET frame == Last(stack)
        content == frame.tails + WordBytes
    IN  /\ pc = "param"
        /\ IsDynamic(frame, frame.i)
        /\ memory' = Put(memory, frame.head, WordOf(frame.tails - frame.start))
        /\ windex' = content
        /\ stack' = Append(stack, Padded(content))
        /\ pc' = "flag"
        /\ UNCHANGED <<calldata, rindex, storageVars>>

(* The frame once a parameter was read; one of a single word is trusted to *)
(* have written a word.                                                    *)
AfterParam(frame) ==
    IF IsDynamic(frame, frame.i)
    THEN [frame EXCEPT !.i = @ + 1, !.head = @ + WordBytes, !.tails = windex]
    ELSE [frame EXCEPT !.i = @ + 1, !.head = windex]

NextParam ==
    LET frame == AfterParam(Last(stack))
    IN  /\ Waits("params")
        /\ frame.i < frame.count
        /\ stack' = Append(Front(stack), frame)
        /\ pc' = "param"
        /\ UNCHANGED <<calldata, rindex, memory, windex, storageVars>>

NoMoreParams ==
    LET frame == AfterParam(Last(stack))
    IN  /\ Waits("params")
        /\ frame.i >= frame.count
        /\ Pops(frame.tails)
        /\ UNCHANGED <<rindex, memory>>

FlagStep ==
    \/ NoOp \/ Literal \/ ReadWord \/ ReadWordInv \/ WriteZeros
    \/ ReadPow2 \/ ReadPow2Minus1 \/ ReadPow10 \/ ReadMantissaS \/ ReadMantissaL
    \/ CopyCalldataS \/ CopyCalldataL \/ CopyCalldataXL
    \/ SaveAddress \/ SaveBytes32 \/ ReadAddress \/ ReadBytes32
    \/ ReadStoreFlagS \/ ReadStoreFlagL
    \/ MirrorFlagS \/ MirrorFlagL \/ NestedFlagsS \/ NestedFlagsL
    \/ ReadNBytes \/ ReadAbi0 \/ ReadAbi \/ ReadDynamicAbi
    \/ NextFlag \/ NoMoreFlags \/ MirrorEnds \/ CopyBytes \/ PadBytes
    \/ ReadStaticParam \/ ReadDynamicParam \/ NextParam \/ NoMoreParams
=============================================================================
