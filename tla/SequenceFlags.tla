---------------------------- MODULE SequenceFlags ----------------------------
(***************************************************************************)
(* The flags of the state machine that write what Sequence wallets take:   *)
(* the execution of transactions, encoded by the ABI, and signatures,      *)
(* which are trees of parts with the number of their bytes before them.    *)
(*                                                                         *)
(* All of it is made of other flags, and of numbers of bytes that are not  *)
(* known until those are read: the machine leaves room for a number, and   *)
(* comes back to it later.                                                 *)
(***************************************************************************)
EXTENDS FlagMachine

LOCAL INSTANCE SequencesExt  (* Front, Last *)

(* What waits on the stack, besides what waits in FlagMachine:             *)
(*   "keep"          only the last bytes of the word just written are kept *)
(*   "sized"         the room from start on is for the number of bytes     *)
(*                   written after it, and of those of a suffix to come    *)
(*   "chained"       the same, with left more parts to come                *)
(*   "dynamic"       the address of a dynamic part was read, and its       *)
(*                   signature is next                                     *)
(*   "space"         the space of a nonce was written, and the rest is     *)
(*                   next; then, "nonce", the rest was                     *)
(*   "execute"       the nonce was written, and the transactions are next  *)
(*   "signature"     the transactions were, and the signature is next; the *)
(*                   word at start is to point to it                       *)
(*   "transactions"  transaction i of count was read                       *)
(*   "fields"        some fields of a transaction are left                 *)
Keep(size) == [wait |-> "keep", size |-> size]
Sized(start, suffix) == [wait |-> "sized", start |-> start, suffix |-> suffix]
Chained(start, left) == [wait |-> "chained", start |-> start, left |-> left]
Frame(wait) == [wait |-> wait]

(* A byte OR'ed with a byte, as long as one of them is zero. *)
Or(s, t) ==
    [i \in DOMAIN s |-> IF s[i] = 0 THEN t[i] ELSE IF t[i] = 0 THEN s[i] ELSE Dirty]

(* The room for the number of bytes of a part is in a word that is cleared.*)
Cleared(mem, at) == Put(mem, at, Zeros(WordBytes))

(* The number of bytes is OR'ed to what is there. *)
PutSize(mem, start, size) ==
    Put(mem, start, Or(SubSeq(mem, start + 1, start + SizeBytes), Digits(size, SizeBytes)))

SizeFrom(start) == windex - (start + SizeBytes)

----------------------------------------------------------------------------
(* Parts of signatures *)

(* READ_SIGNATURE: a weight of 1 to 4 is told by the flag. *)
SequenceSignature ==
    \E w \in 0 .. 4 :
        LET weight == IF w = 0 THEN At(rindex + 1) ELSE w
            args == IF w = 0 THEN 1 ELSE 0
        IN  /\ Reading(FLAG_SEQUENCE_SIGNATURE(w))
            /\ WritesOnly(<<EOA_SIGNATURE, weight>> \o Read(rindex + 1 + args, SignatureBytes),
                          args + SignatureBytes)

SequenceAddress ==
    \E w \in 0 .. 4 :
        LET weight == IF w = 0 THEN At(rindex + 1) ELSE w
            args == IF w = 0 THEN 1 ELSE 0
        IN  /\ Reading(FLAG_SEQUENCE_ADDRESS(w))
            /\ Nests(<<ADDRESS, weight>>, rindex + 1 + args, Keep(AddressBytes))

SequenceNode ==
    /\ Reading(FLAG_SEQUENCE_NODE)
    /\ Nests(<<NODE>>, rindex + 1, Flags(0))

SequenceSubdigest ==
    /\ Reading(FLAG_SEQUENCE_SUBDIGEST)
    /\ Nests(<<SUBDIGEST>>, rindex + 1, Flags(0))

(* Something is written, then room is left for a number of bytes, and the  *)
(* part they are the bytes of is read at next.                             *)
NestsSized(bytes, next) ==
    LET start == windex + Len(bytes)
    IN  /\ memory' = Cleared(Put(memory, windex, bytes), start)
        /\ windex' = start + SizeBytes
        /\ rindex' = next
        /\ stack' = Append(stack, Sized(start, << >>))
        /\ UNCHANGED <<calldata, pc, storageVars>>

SequenceBranch ==
    /\ Reading(FLAG_SEQUENCE_BRANCH)
    /\ NestsSized(<<BRANCH>>, rindex + 1)

(* The threshold is one byte, of the two it has in a signature. *)
SequenceNested ==
    /\ Reading(FLAG_SEQUENCE_NESTED)
    /\ NestsSized(<<NESTED, At(rindex + 1), 0, At(rindex + 2)>>, rindex + 3)

(* READ_DYNAMIC_SIGNATURE *)
SequenceDynamicSignature ==
    /\ Reading(FLAG_SEQUENCE_DYNAMIC_SIGNATURE)
    /\ memory' = Put(memory, windex, <<DYNAMIC, At(rindex + 1)>>)
    /\ windex' = windex + 2
    /\ rindex' = rindex + 2
    /\ stack' = stack \o <<Frame("dynamic"), Keep(AddressBytes)>>
    /\ UNCHANGED <<calldata, pc, storageVars>>

----------------------------------------------------------------------------
(* Signatures *)

(* READ_SEQUENCE_SIGNATURE: the checkpoint and the tree of the signature   *)
(* come after the threshold.                                               *)
ReadSequenceSignature(flag, type, size) ==
    /\ Reading(flag)
    /\ memory' = Put(memory, windex, <<type>> \o Digits(Arg(size), 2))
    /\ windex' = windex + 3
    /\ rindex' = rindex + 1 + size
    /\ stack' = stack \o <<Flags(1), Keep(CheckpointBytes)>>
    /\ UNCHANGED <<calldata, pc, storageVars>>

SequenceSigNoChain == ReadSequenceSignature(FLAG_SEQUENCE_SIG_NO_CHAIN, NO_CHAIN, 1)
SequenceSig == ReadSequenceSignature(FLAG_SEQUENCE_SIG, CHAIN_DYNAMIC, 1)
SequenceLSigNoChain == ReadSequenceSignature(FLAG_SEQUENCE_L_SIG_NO_CHAIN, NO_CHAIN, 2)
SequenceLSig == ReadSequenceSignature(FLAG_SEQUENCE_L_SIG, CHAIN_DYNAMIC, 2)

(* READ_CHAINED: a number of signatures, each with its size before it.     *)
ReadChained(flag, size) ==
    LET start == windex + 1
    IN  /\ Reading(flag)
        /\ memory' = Cleared(Put(memory, windex, <<CHAINED>>), start)
        /\ windex' = start + SizeBytes
        /\ rindex' = rindex + 1 + size
        /\ stack' = Append(stack, Chained(start, AtLeastOne(Arg(size)) - 1))
        /\ UNCHANGED <<calldata, pc, storageVars>>

ReadChainedS == ReadChained(FLAG_SEQUENCE_READ_CHAINED_S, 1)
ReadChainedL == ReadChained(FLAG_SEQUENCE_READ_CHAINED_L, 2)

----------------------------------------------------------------------------
(* The jump back to parts and signatures *)

(* Of the last word, its last bytes are moved to where it starts. *)
KeepLastBytes ==
    LET size == Last(stack).size
        start == windex - WordBytes
    IN  /\ Waits("keep")
        /\ memory' = Put(memory, start,
                         PadRight(SubSeq(LastWord, WordBytes - size + 1, WordBytes)))
        /\ Pops(start + size)
        /\ UNCHANGED rindex

WriteSize ==
    LET frame == Last(stack)
        size == SizeFrom(frame.start) + Len(frame.suffix)
    IN  /\ Waits("sized")
        /\ memory' = Put(PutSize(memory, frame.start, size), windex, frame.suffix)
        /\ Pops(windex + Len(frame.suffix))
        /\ UNCHANGED rindex

(* The signature of a dynamic part has a 3 after it, as EIP-1271 signatures*)
(* have in a wallet.                                                       *)
ReadDynamicPart ==
    /\ Waits("dynamic")
    /\ memory' = Cleared(memory, windex)
    /\ ReadsOn(windex + SizeBytes, Sized(windex, <<3>>))

NextChained ==
    LET frame == Last(stack)
    IN  /\ Waits("chained")
        /\ frame.left > 0
        /\ memory' = Cleared(PutSize(memory, frame.start, SizeFrom(frame.start)), windex)
        /\ ReadsOn(windex + SizeBytes, Chained(windex, frame.left - 1))

NoMoreChained ==
    LET frame == Last(stack)
    IN  /\ Waits("chained")
        /\ frame.left = 0
        /\ memory' = PutSize(memory, frame.start, SizeFrom(frame.start))
        /\ Pops(windex)
        /\ UNCHANGED rindex

----------------------------------------------------------------------------
(* Transactions *)

(* READ_EXECUTE: of the three arguments, the first is where the            *)
(* transactions are, and the second is the nonce.                          *)
StartExecute ==
    /\ memory' = Put(memory, windex, ExecuteSelector \o WordOf(3 * WordBytes))
    /\ windex' = windex + SelectorBytes + WordBytes

SequenceExecute ==
    /\ Reading(FLAG_SEQUENCE_EXECUTE)
    /\ StartExecute
    /\ rindex' = rindex + 1
    /\ stack' = stack \o <<Frame("execute"), Frame("space")>>
    /\ UNCHANGED <<calldata, pc, storageVars>>

(* READ_SELF_EXECUTE *)
SequenceSelfExecute ==
    /\ Reading(FLAG_SEQUENCE_SELF_EXECUTE)
    /\ memory' = Put(memory, windex, SelfExecuteSelector \o WordOf(WordBytes))
    /\ windex' = windex + SelectorBytes + WordBytes
    /\ rindex' = rindex + 1
    /\ pc' = "transactions"
    /\ UNCHANGED <<calldata, stack, storageVars>>

(* READ_NONCE: the space and the rest of the nonce are words of their own, *)
(* written one over the other.                                             *)
ReadSpace ==
    /\ Waits("space")
    /\ ReadsOn(windex - WordBytes,
               [wait |-> "nonce", space |-> SubSeq(LastWord, WordBytes - AddressBytes + 1, WordBytes)])
    /\ UNCHANGED memory

ReadNonce ==
    /\ Waits("nonce")
    /\ memory' = Put(memory, windex - WordBytes, Or(PadRight(Last(stack).space), LastWord))
    /\ Pops(windex)
    /\ UNCHANGED rindex

(* A word is reserved for the third argument, a pointer to the signature.  *)
ReadExecuted ==
    /\ Waits("execute")
    /\ stack' = Append(Front(stack), [wait |-> "signature", start |-> windex])
    /\ windex' = windex + WordBytes
    /\ pc' = "transactions"
    /\ UNCHANGED <<calldata, rindex, memory, storageVars>>

(* READ_TRANSACTIONS: their number, and after it the table of where they   *)
(* start, to be filled while they are read.                                *)
ReadTransactions ==
    LET count == At(rindex)
    IN  /\ pc = "transactions"
        /\ memory' = Put(memory, windex, WordOf(count))
        /\ windex' = windex + WordBytes * (1 + count)
        /\ rindex' = rindex + 1
        /\ stack' = Append(stack, [wait |-> "transactions", i |-> 0, count |-> count,
                                   table |-> windex + WordBytes,
                                   start |-> windex + WordBytes * (1 + count),
                                   position |-> WordBytes * count])
        /\ pc' = "transaction"
        /\ UNCHANGED <<calldata, storageVars>>

TransactionBit(b) == (At(rindex) \div 2 ^ b) % 2

(* READ_TRANSACTION: a byte tells what the transaction has.  Its words are *)
(* two Booleans, the gas limit, the target, the value, and a pointer to    *)
(* the data; a number that is not given is zero.                           *)
ReadTransaction ==
    LET frame == Last(stack)
        Given(b) == IF TransactionBit(b) = 1 THEN "flag" ELSE "zero"
        fields == <<Given(ByteBits - 3), "flag", Given(ByteBits - 4),
                    IF TransactionBit(0) = 1 THEN "data" ELSE "no data">>
        booleans == WordOf(TransactionBit(ByteBits - 1)) \o WordOf(TransactionBit(ByteBits - 2))
    IN  /\ pc = "transaction"
        /\ memory' = Put(Put(memory, frame.table + WordBytes * frame.i, WordOf(frame.position)),
                         windex, booleans)
        /\ windex' = windex + 2 * WordBytes
        /\ rindex' = rindex + 1
        /\ stack' = Append([stack EXCEPT ![Len(stack)].start = windex],
                           [wait |-> "fields", fields |-> fields])
        /\ pc' = "back"
        /\ UNCHANGED <<calldata, storageVars>>

WaitsForField(field) ==
    Waits("fields") /\ Last(stack).fields # << >> /\ Last(stack).fields[1] = field

FieldsLeft == [Last(stack) EXCEPT !.fields = Tail(@)]

FieldIsFlag ==
    /\ WaitsForField("flag")
    /\ ReadsOn(windex, FieldsLeft)
    /\ UNCHANGED memory

FieldIsZero ==
    /\ WaitsForField("zero")
    /\ memory' = Put(memory, windex, Zeros(WordBytes))
    /\ windex' = windex + WordBytes
    /\ stack' = Append(Front(stack), FieldsLeft)
    /\ UNCHANGED <<calldata, rindex, pc, storageVars>>

(* The data starts after the 6 words of the transaction. *)
FieldIsData ==
    LET content == windex + 2 * WordBytes
    IN  /\ WaitsForField("data")
        /\ memory' = Put(memory, windex, WordOf(6 * WordBytes))
        /\ ReadsOn(content, Padded(content))

FieldIsNoData ==
    /\ WaitsForField("no data")
    /\ memory' = Put(memory, windex, WordOf(6 * WordBytes) \o Zeros(WordBytes))
    /\ Pops(windex + 2 * WordBytes)
    /\ UNCHANGED rindex

(* One transaction more was read. *)
AfterTransaction(frame) ==
    [frame EXCEPT !.i = @ + 1, !.position = @ + (windex - frame.start)]

NextTransaction ==
    LET frame == AfterTransaction(Last(stack))
    IN  /\ Waits("transactions")
        /\ frame.i # frame.count
        /\ stack' = Append(Front(stack), frame)
        /\ pc' = "transaction"
        /\ UNCHANGED <<calldata, rindex, memory, windex, storageVars>>

NoMoreTransactions ==
    LET frame == AfterTransaction(Last(stack))
    IN  /\ Waits("transactions")
        /\ frame.i = frame.count
        /\ Pops(windex)
        /\ UNCHANGED <<rindex, memory>>

(* The signature comes last, as bytes with their size and their padding.   *)
ReadExecutedSignature ==
    LET start == Last(stack).start
        content == windex + WordBytes
    IN  /\ Waits("signature")
        /\ memory' = Put(memory, start, WordOf(windex - start + 2 * WordBytes))
        /\ ReadsOn(content, Padded(content))

SequenceStep ==
    \/ SequenceSignature \/ SequenceAddress \/ SequenceNode \/ SequenceSubdigest
    \/ SequenceBranch \/ SequenceNested \/ SequenceDynamicSignature
    \/ SequenceSigNoChain \/ SequenceSig \/ SequenceLSigNoChain \/ SequenceLSig
    \/ ReadChainedS \/ ReadChainedL
    \/ KeepLastBytes \/ WriteSize \/ ReadDynamicPart \/ NextChained \/ NoMoreChained
    \/ SequenceExecute \/ SequenceSelfExecute \/ ReadSpace \/ ReadNonce \/ ReadExecuted
    \/ ReadTransactions \/ ReadTransaction
    \/ FieldIsFlag \/ FieldIsZero \/ FieldIsData \/ FieldIsNoData
    \/ NextTransaction \/ NoMoreTransactions \/ ReadExecutedSignature
=============================================================================
