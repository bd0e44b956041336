----------------------------- MODULE Repository -----------------------------
(***************************************************************************)
(* The decompressor contract as a repository of addresses and bytes32.     *)
(*                                                                         *)
(* A transaction is a stack of frames.  An external frame is code of       *)
(* another contract (or the account that sends the transaction), which may *)
(* call the decompressor any number of times; a decompressor frame is one  *)
(* call of one of its methods, which reads flags from its calldata, saves  *)
(* values as SAVE_ADDRESS and SAVE_BYTES32 flags come, and for the methods *)
(* that execute calls, makes the decompressed call.  The callee may call   *)
(* the decompressor again before it returns.  Any frame may revert, which  *)
(* undoes what it and the frames above it wrote and nothing else.          *)
(*                                                                         *)
(* Values are saved one flag at a time, each in a single step: no other    *)
(* code runs between the read of the counter and the two writes.           *)
(***************************************************************************)
EXTENDS StorageLayout

CONSTANTS
    Methods,          (* methods of the contract that read flags *)
    AddressValues,    (* addresses that are ever saved *)
    Bytes32Values,    (* bytes32 that are ever saved *)
    MaxAddresses,     (* no more addresses than this are ever saved *)
    MaxBytes32,       (* no more bytes32 than this are ever saved *)
    MaxBatch,         (* largest batch of calls *)
    MaxDepth          (* the limit on the depth of calls, 1024 in the EVM *)

DecodeMethods ==
    {"DECODE_SEQUENCE_TRANSACTION", "DECODE_SEQUENCE_TRANSACTIONS",
     "DECODE_CALL", "DECODE_CALLS", "DECODE_ANY"}

ExecuteOneMethods ==
    {"EXECUTE_SEQUENCE_TRANSACTION", "EXECUTE_CALL", "EXECUTE_CALL_RETURN"}

ExecuteManyMethods == {"EXECUTE_SEQUENCE_TRANSACTIONS", "EXECUTE_CALLS"}

(* An address of index Half - 1 would be in slot Half, the slot of the     *)
(* bytes32 of index 1, and the counter of bytes32 would carry into the     *)
(* counter of addresses: the code relies on there never being so many      *)
(* ("there will be no more than 2^64 addresses", says GetTotals).          *)
ASSUME RepositoryAssumption ==
    /\ Methods \subseteq DecodeMethods \cup ExecuteOneMethods \cup ExecuteManyMethods
    /\ AddressValues \subseteq Word
    /\ Bytes32Values \subseteq Word
    /\ MaxAddresses \in Nat /\ MaxAddresses + 1 < Half
    /\ MaxBytes32 \in Nat /\ MaxBytes32 < Half
    /\ MaxBatch \in Nat
    /\ MaxDepth \in Nat

VARIABLES
    storage,      (* the storage of the contract as the running code sees it *)
    frames,       (* the frames of the transaction in progress, outermost first *)
    mined,        (* the storage the nodes serve, that of the last transaction *)
    ledger,       (* history: what was saved, and not undone, in order *)
    minedLedger   (* history: the ledger of the last transaction *)

vars == <<storage, frames, mined, ledger, minedLedger>>

Ledger == [addresses : Seq(Word), bytes32 : Seq(Word)]

EmptyLedger == [addresses |-> << >>, bytes32 |-> << >>]

WithAddress(l, v) == [addresses |-> Append(l.addresses, v), bytes32 |-> l.bytes32]
WithBytes32(l, v) == [addresses |-> l.addresses, bytes32 |-> Append(l.bytes32, v)]

Frame ==
    [code : {"external"} \cup Methods,
     i : Nat, size : Nat,
     entry : Storage, entryLedger : Ledger]

TypeOK ==
    /\ storage \in Storage
    /\ frames \in Seq(Frame)
    /\ mined \in Storage
    /\ ledger \in Ledger
    /\ minedLedger \in Ledger

Init ==
    /\ storage = EmptyStorage
    /\ frames = << >>
    /\ mined = EmptyStorage
    /\ ledger = EmptyLedger
    /\ minedLedger = EmptyLedger

----------------------------------------------------------------------------
(* The stack of frames *)

Depth == Len(frames)
Top == frames[Depth]
Below == SubSeq(frames, 1, Depth - 1)

NewFrame(code, size) ==
    [code |-> code, i |-> 0, size |-> size,
     entry |-> storage, entryLedger |-> ledger]

(* Mutant: the loop counts the wrong way. *)
CallEndedDown(f) == [f EXCEPT !.i = @ - 1]

(* The end of one decompressed call of a payload.  The success of the call *)
(* is popped: a failed call does not end a batch.                          *)
CallEnded(f) == [f EXCEPT !.i = @ + 1]

(* The loop over the calls of a payload tests its counter after the call,  *)
(* so a payload of size zero is executed as one of size one.               *)
Executed(f) == f.i > 0 /\ f.i >= f.size

(* The frames once the top one is gone.  A decompressor frame below it was *)
(* waiting for the call it made, an external frame just goes on.           *)
Popped ==
    IF Depth > 1 /\ frames[Depth - 1].code # "external"
    THEN [Below EXCEPT ![Depth - 1] = CallEnded(@)]
    ELSE Below

InMethod(methods) ==
    /\ frames # << >>
    /\ Top.code \in methods
    /\ ~ Executed(Top)

----------------------------------------------------------------------------
(* Steps of a transaction *)

(* An account sends a transaction. *)
BeginTransaction ==
    /\ frames = << >>
    /\ MaxDepth > 0
    /\ frames' = <<NewFrame("external", 0)>>
    /\ UNCHANGED <<storage, mined, ledger, minedLedger>>

(* Another contract calls a method of the decompressor. *)
Invoke(method, size) ==
    /\ frames # << >>
    /\ Top.code = "external"
    /\ Depth < MaxDepth
    /\ method \notin ExecuteManyMethods => size = 1
    /\ frames' = Append(frames, NewFrame(method, size))
    /\ UNCHANGED <<storage, mined, ledger, minedLedger>>

(* The flag SAVE_ADDRESS, wherever it occurs in the payload of a method. *)
SaveAddressFlag(v) ==
    /\ InMethod(Methods)
    /\ AddressesNum(storage).lo < MaxAddresses
    /\ storage' = SaveAddress(storage, v)
    /\ ledger' = WithAddress(ledger, v)
    /\ UNCHANGED <<frames, mined, minedLedger>>

(* The flag SAVE_BYTES32. *)
SaveBytes32Flag(v) ==
    /\ InMethod(Methods)
    /\ Bytes32Num(storage).lo < MaxBytes32
    /\ storage' = SaveBytes32(storage, v)
    /\ ledger' = WithBytes32(ledger, v)
    /\ UNCHANGED <<frames, mined, minedLedger>>

(* A call has been decompressed and is made: PERFORM_CALL, PERFORM_EXECUTE. *)
PerformCall ==
    /\ InMethod(ExecuteOneMethods \cup ExecuteManyMethods)
    /\ Depth < MaxDepth
    /\ frames' = Append(frames, NewFrame("external", 0))
    /\ UNCHANGED <<storage, mined, ledger, minedLedger>>

(* The call ends without any code of another contract: there is none at    *)
(* the address, or no depth is left.                                       *)
CallRunsNoCode ==
    /\ InMethod(ExecuteOneMethods \cup ExecuteManyMethods)
    /\ frames' = [frames EXCEPT ![Depth] = CallEnded(@)]
    /\ UNCHANGED <<storage, mined, ledger, minedLedger>>

(* A method has decompressed, or executed, its whole payload. *)
ReturnFromMethod ==
    /\ frames # << >>
    /\ \/ Top.code \in DecodeMethods
       \/ Top.code \in Methods /\ Executed(Top)
    /\ frames' = Popped
    /\ UNCHANGED <<storage, mined, ledger, minedLedger>>

(* The callee of a decompressed call succeeds. *)
ReturnFromExternal ==
    /\ Depth > 1
    /\ Top.code = "external"
    /\ frames' = Popped
    /\ UNCHANGED <<storage, mined, ledger, minedLedger>>

(* The top frame reverts or runs out of gas, at any point of its code. *)
RevertFrame ==
    /\ frames # << >>
    /\ storage' = Top.entry
    /\ ledger' = Top.entryLedger
    /\ frames' = Popped
    /\ UNCHANGED <<mined, minedLedger>>

(* The transaction succeeds, and what it wrote is there for the nodes. *)
CommitTransaction ==
    /\ Depth = 1
    /\ frames' = << >>
    /\ mined' = storage
    /\ minedLedger' = ledger
    /\ UNCHANGED <<storage, ledger>>

Next ==
    \/ BeginTransaction
    \/ \E method \in Methods, size \in 0 .. MaxBatch : Invoke(method, size)
    \/ \E v \in AddressValues : SaveAddressFlag(v)
    \/ \E v \in Bytes32Values : SaveBytes32Flag(v)
    \/ PerformCall
    \/ CallRunsNoCode
    \/ ReturnFromMethod
    \/ ReturnFromExternal
    \/ RevertFrame
    \/ CommitTransaction

Spec == Init /\ [][Next]_vars

----------------------------------------------------------------------------
(* Properties *)

(* The storage that holds exactly a ledger: slot by slot, what a reader of *)
(* the contract's storage is told to expect, with no other slot in use.    *)
HoldsAddress(l, s) == s.hi = 0 /\ s.lo \in 2 .. Len(l.addresses) + 1
HoldsBytes32(l, s) == s.lo = 0 /\ s.hi \in 1 .. Len(l.bytes32)

StorageOf(l) ==
    [s \in Word |->
        IF HoldsAddress(l, s) THEN l.addresses[s.lo - 1]
        ELSE IF HoldsBytes32(l, s) THEN l.bytes32[s.hi]
        ELSE IF s = CountersSlot THEN W(Len(l.addresses), Len(l.bytes32))
        ELSE Zero]

(* At every point of every transaction, after nested calls, failed calls   *)
(* of a batch and reverts at any depth, the counters and the slots hold    *)
(* exactly the values saved and not undone, each at its own index: no      *)
(* index is lost, given twice or left over, and the two regions of slots   *)
(* never meet (PULL_ADDRESS, PULL_BYTES32 and the two storage pointers).   *)
StorageMatchesLedger == storage = StorageOf(ledger)

(* Every save of ledger l1 is in ledger l2, at the same index. *)
LedgerExtends(l1, l2) ==
    /\ Len(l1.addresses) <= Len(l2.addresses)
    /\ \A i \in 1 .. Len(l1.addresses) : l2.addresses[i] = l1.addresses[i]
    /\ Len(l1.bytes32) <= Len(l2.bytes32)
    /\ \A i \in 1 .. Len(l1.bytes32) : l2.bytes32[i] = l1.bytes32[i]

Fits(l) ==
    /\ Len(l.addresses) <= MaxAddresses
    /\ Len(l.bytes32) <= MaxBytes32

(* What makes the properties of this module inductive: the storage, the    *)
(* mined storage and the storage every frame would go back to each hold    *)
(* exactly a ledger, and these ledgers extend one another from the mined   *)
(* one, through the frames outermost first, to the current one.            *)
LedgersNest ==
    /\ StorageMatchesLedger
    /\ Fits(ledger)
    /\ mined = StorageOf(minedLedger)
    /\ Fits(minedLedger)
    /\ LedgerExtends(minedLedger, ledger)
    /\ \A k \in 1 .. Depth :
          /\ frames[k].entry = StorageOf(frames[k].entryLedger)
          /\ Fits(frames[k].entryLedger)
          /\ LedgerExtends(minedLedger, frames[k].entryLedger)
          /\ LedgerExtends(frames[k].entryLedger, ledger)
          /\ \A j \in 1 .. k :
                LedgerExtends(frames[j].entryLedger, frames[k].entryLedger)

(* Every index of st reads the same in the storage st2. *)
SameReads(st, st2) ==
    /\ \A i \in 1 .. AddressesNum(st).lo :
          ReadAddress(st2, W(0, i)) = ReadAddress(st, W(0, i))
    /\ \A i \in 1 .. Bytes32Num(st).lo :
          ReadBytes32(st2, W(0, i)) = ReadBytes32(st, W(0, i))

(* Whatever runs inside a transaction, an index that was allotted when it  *)
(* began, or when any frame in progress began, still reads as it did then: *)
(* a payload made against the mined storage can be executed at any depth,  *)
(* and a callee that fails takes back only what it saved itself.           *)
AllottedIndexesStable ==
    /\ SameReads(mined, storage)
    /\ \A k \in 1 .. Depth : SameReads(frames[k].entry, storage)

(* A slot that holds a value keeps it: all the storage the nodes serve is  *)
(* write-once, save for slot 0 (the comment of LoadBytes32 in contract.go).*)
WriteOnce ==
    [][\A s \in Word \ {CountersSlot} : mined[s] # Zero => mined'[s] = mined[s]]_vars

MinedAddresses ==
    [i \in 1 .. AddressesNum(mined).lo |-> ReadAddress(mined, W(0, i))]

MinedBytes32 ==
    [i \in 1 .. Bytes32Num(mined).lo |-> ReadBytes32(mined, W(0, i))]

R == INSTANCE Registry WITH addresses <- MinedAddresses, bytes32 <- MinedBytes32

(* Read through the methods that read it, the contract is the append-only  *)
(* registry: what a transaction does to it is to append to both sequences. *)
ImplementsRegistry == R!RegistrySpec
=============================================================================
