------------------------------ MODULE Encoder ------------------------------
(***************************************************************************)
(* How bytes, calls, and the transactions and signatures of Sequence       *)
(* wallets are written to the buffer of module Buffer.                     *)
(*                                                                         *)
(* Any bytes may be a signature.  They are tried as one, and a signature   *)
(* is a tree of parts, which are bytes again; when they turn out not to be *)
(* one, or a longer one, everything the attempt wrote is taken back.       *)
(***************************************************************************)
EXTENDS Buffer

LOCAL INSTANCE SequencesExt  (* FoldLeft, Front, Last *)

----------------------------------------------------------------------------
(* Slices.  A slice of Go is the first bytes of what is left of an array:  *)
(* it may be indexed up to its size, but sliced again up to the end of the *)
(* array.  Positions in slices are from 0, as in the code.                 *)

Slice(array, size) == [array |-> array, size |-> size]
(* The array of what a command is given ends with it. *)
Whole(bytes) == Slice(bytes, Len(bytes))

ByteAt(slice, i) == slice.array[i + 1]
Sub(slice, from, to) == Slice(SubSeq(slice.array, from + 1, Len(slice.array)), to - from)
From(slice, from) == Sub(slice, from, slice.size)
Content(slice) == SubSeq(slice.array, 1, slice.size)

(* The number in some bytes of a slice. *)
NumberAt(slice, i, n) == Value(SubSeq(slice.array, i + 1, i + n))

----------------------------------------------------------------------------
(* Bytes that are not a signature *)

WriteNBytesRaw(buf, bytes) ==
    LET flag == End(buf, bytes, <<FLAG_READ_N_BYTES>>, "Stateless")
        size == WriteWord(flag, Digits(Len(bytes), 3), FALSE)
    IN  IF Allows(buf, FLAG_READ_N_BYTES) THEN Commit(size, bytes) ELSE Fail(buf)

Encode4Bytes(selector) ==
    LET indexes == {i \in DOMAIN Selectors : Selectors[i] = selector}
    IN  IF indexes = {} THEN <<0>> \o selector ELSE <<Max(indexes)>>

(* The bytes as a copy of bytes that are at position i of the calldata.    *)
CopyBytesFrom(i, size) ==
    IF size >= ByteBase THEN <<FLAG_COPY_CALLDATA_XL>> \o Digits(i, 3) \o Digits(size, 2)
    ELSE IF i < ByteBase ^ 2 THEN <<FLAG_COPY_CALLDATA_S>> \o Digits(i, 2) \o <<size>>
    ELSE <<FLAG_COPY_CALLDATA_L>> \o Digits(i, 3) \o <<size>>

(* The arguments there would be, if the bytes were a call. *)
AbiParams(bytes) == (Len(bytes) - SelectorBytes) \div WordBytes

IsAbi(bytes) == Len(bytes) >= SelectorBytes /\ (Len(bytes) - SelectorBytes) % WordBytes = 0

(* The number of arguments, and a bitmap of those that are dynamic, none.  *)
DynamicAbiHeader(params) == <<params % ByteBase, 0>>

(* The last resorts: as a call with words for arguments, or as they are.   *)
WriteAbiOrRaw(buf, bytes, saveWord) ==
    LET selector == Encode4Bytes(SubSeq(bytes, 1, SelectorBytes))
        params == AbiParams(bytes)
        written(flag) ==
            WriteEachWord(End(buf, bytes, flag, "Stateless"),
                          SubSeq(bytes, SelectorBytes + 1, Len(bytes)), saveWord)
    IN  IF Allows(buf, FLAG_ABI(0)) /\ IsAbi(bytes) /\ params <= MaxParams
        THEN written(<<FLAG_ABI(params)>> \o selector)
        ELSE IF Allows(buf, FLAG_READ_DYNAMIC_ABI) /\ IsAbi(bytes) /\ params <= ByteBase
        THEN written(<<FLAG_READ_DYNAMIC_ABI>> \o selector \o DynamicAbiHeader(params))
        ELSE WriteNBytesRaw(buf, bytes)

----------------------------------------------------------------------------
(* The parts of a signature.  A part that contains others has its length   *)
(* after a header; the other parts have a length of their own.             *)

SizedParts == {DYNAMIC, BRANCH, NESTED}
PartTypes == {EOA_SIGNATURE, ADDRESS, NODE, SUBDIGEST} \cup SizedParts

HeaderBytes(type) ==
    CASE type = DYNAMIC -> 2 + AddressBytes
      [] type = BRANCH -> 1
      [] type = NESTED -> 4

PartSize(tree, p) ==
    LET type == ByteAt(tree, p)
    IN  CASE type = EOA_SIGNATURE -> 2 + SignatureBytes
          [] type = ADDRESS -> 2 + AddressBytes
          [] type \in {NODE, SUBDIGEST} -> 1 + WordBytes
          [] type \in SizedParts ->
                HeaderBytes(type) + SizeBytes + NumberAt(tree, p + HeaderBytes(type), SizeBytes)

(* What is wrong with the part at p, if something is. *)
Problem(tree, p) ==
    LET type == ByteAt(tree, p)
    IN  IF type \notin PartTypes THEN "error"
        ELSE IF type \in SizedParts /\ p + HeaderBytes(type) + SizeBytes > tree.size THEN "panic"
        ELSE "none"

(* Where the parts are, and after them where they end, or go wrong. *)
RECURSIVE PartsFrom(_, _)
PartsFrom(tree, p) ==
    IF p >= tree.size \/ Problem(tree, p) # "none" THEN <<p>>
    ELSE <<p>> \o PartsFrom(tree, p + PartSize(tree, p))

(* The bytes that are told by the flag of a part: a weight of 1 to 4 is    *)
(* told by a flag of its own.                                              *)
Weighted(flag(_), weight) == IF weight \in 1 .. 4 THEN <<flag(weight)>> ELSE <<flag(0), weight>>

IsPart(buf, bytes, flag, type, size) == Allows(buf, flag) /\ Len(bytes) = size /\ bytes[1] = type

(* Mutant: what the attempt has remembered is not forgotten. *)
RestoreBytesOnly(snapshot, tried) ==
    [snapshot EXCEPT !.usedFlags = tried.usedFlags, !.usedStorageFlags = tried.usedStorageFlags]

(* Everything is as it was before the attempt. *)
Restore(snapshot, tried) == snapshot

----------------------------------------------------------------------------
(* Bytes, and signatures made of bytes *)

RECURSIVE WriteBytesOptimized(_, _, _)
RECURSIVE WriteSequenceSignature(_, _, _)
RECURSIVE WriteSequenceSignatureTree(_, _)

(* A signature is worth it as long as it is not longer than the bytes.     *)
WriteBytesAsSignature(buf, slice, saveWord) ==
    LET tried == WriteSequenceSignature(buf, slice, FALSE)
        shorter == Position(tried) < Position(buf) + slice.size + 3
    IN  IF buf.settings.useStorage /\ tried.status = "panic" THEN tried
        ELSE IF buf.settings.useStorage /\ tried.status = "ok" /\ shorter THEN tried
        ELSE WriteAbiOrRaw(Restore(buf, tried), Content(slice), saveWord)

(* The options for bytes, in the order they are tried. *)
WriteBytesOptimized(buf, slice, saveWord) ==
    LET size == slice.size
        bytes == Content(slice)
        used == Lookup(buf.usedFlags, bytes)
        copies == {i \in FirstOf(PastData(buf, bytes)) :
                      Allows(buf, FLAG_COPY_CALLDATA_S) /\ i < ByteBase ^ 3 /\ size < ByteBase ^ 2}
        Flagged(flag) == End(buf, bytes, flag, "Stateless")
    IN  IF size = 0 /\ Allows(buf, FLAG_NO_OP)
        THEN Flagged(<<FLAG_NO_OP>>)
        ELSE IF size = WordBytes
        THEN WriteWord(buf, bytes, saveWord)
        ELSE IF Allows(buf, FLAG_WRITE_ZEROS) /\ size < ByteBase /\ bytes = Zeros(size)
        THEN Flagged(<<FLAG_WRITE_ZEROS, size>>)
        ELSE IF Allows(buf, FLAG_MIRROR_FLAG_S) /\ used # 0 /\ used - 1 < ByteBase ^ 2
        THEN End(buf, << >>, <<FLAG_MIRROR_FLAG_S>> \o Digits(used - 1, 2), "Mirror")
        ELSE IF copies # {}
        THEN Commit(buf, CopyBytesFrom(Min(copies), size))
        ELSE IF IsPart(buf, bytes, FLAG_SEQUENCE_NODE, NODE, 1 + WordBytes)
        THEN WriteWord(Flagged(<<FLAG_SEQUENCE_NODE>>), Tail(bytes), saveWord)
        ELSE IF IsPart(buf, bytes, FLAG_SEQUENCE_SUBDIGEST, SUBDIGEST, 1 + WordBytes)
        THEN WriteWord(Flagged(<<FLAG_SEQUENCE_SUBDIGEST>>), Tail(bytes), saveWord)
        ELSE IF IsPart(buf, bytes, FLAG_SEQUENCE_ADDRESS(0), ADDRESS, 2 + AddressBytes)
        THEN WriteWord(Flagged(Weighted(FLAG_SEQUENCE_ADDRESS, bytes[2])),
                       SubSeq(bytes, 3, size), saveWord)
        ELSE IF IsPart(buf, bytes, FLAG_SEQUENCE_SIGNATURE(0), EOA_SIGNATURE, 2 + SignatureBytes)
        THEN Flagged(Weighted(FLAG_SEQUENCE_SIGNATURE, bytes[2]) \o SubSeq(bytes, 3, size))
        ELSE WriteBytesAsSignature(buf, slice, saveWord)

(* The unsuffixed signature of a dynamic part may be one of a wallet again.*)
WriteSequenceDynamicSignaturePart(buf, address, weight, signature) ==
    LET start == Commit(buf, <<FLAG_SEQUENCE_DYNAMIC_SIGNATURE, weight>>)
        unsuffixed == Slice(signature.array, signature.size - 1)
    IN  IF signature.size = 0 THEN Panic(buf)
        ELSE IF ByteAt(signature, signature.size - 1) # 3 THEN Fail(buf)
        ELSE WriteBytesOptimized(WriteWord(start, address, TRUE), unsuffixed, TRUE)

WriteSequenceBranchSignaturePart(buf, branch) ==
    IF branch.size = 0 THEN Fail(buf)
    ELSE WriteSequenceSignatureTree(Commit(buf, <<FLAG_SEQUENCE_BRANCH>>), branch)

WriteSequenceNestedSignaturePart(buf, weight, threshold, branch) ==
    IF threshold >= ByteBase THEN Fail(buf)
    ELSE WriteSequenceSignatureTree(Commit(buf, <<FLAG_SEQUENCE_NESTED, weight, threshold>>), branch)

(* The part at p.  Its end may be past the end of the tree, but not of the *)
(* array.                                                                  *)
WriteSignaturePart(buf, tree, p) ==
    LET type == ByteAt(tree, p)
        end == p + PartSize(tree, p)
        part == Sub(tree, p, end)
        inner == Sub(tree, p + HeaderBytes(type) + SizeBytes, end)
    IN  IF end > Len(tree.array) THEN Panic(buf)
        ELSE CASE type \in {EOA_SIGNATURE, SUBDIGEST} -> WriteBytesOptimized(buf, part, FALSE)
               [] type \in {ADDRESS, NODE} -> WriteBytesOptimized(buf, part, TRUE)
               [] type = DYNAMIC ->
                    WriteSequenceDynamicSignaturePart(
                        buf, Content(Sub(tree, p + 2, p + 2 + AddressBytes)),
                        ByteAt(tree, p + 1), inner)
               [] type = BRANCH -> WriteSequenceBranchSignaturePart(buf, inner)
               [] type = NESTED ->
                    WriteSequenceNestedSignaturePart(
                        buf, ByteAt(tree, p + 1), NumberAt(tree, p + 2, 2), inner)

(* The parts are found, and counted, before the first of them is written.  *)
WriteSequenceSignatureTree(buf, tree) ==
    LET parts == Front(PartsFrom(tree, 0))
        end == Last(PartsFrom(tree, 0))
        count == Len(parts)
        nested == IF count >= ByteBase THEN <<FLAG_NESTED_N_FLAGS_L>> \o Digits(count, 2)
                  ELSE IF count > 1 THEN <<FLAG_NESTED_N_FLAGS_S, count>>
                  ELSE << >>
    IN  IF tree.size = 0 THEN Fail(buf)
        ELSE IF end < tree.size THEN Stop(buf, Problem(tree, end))
        ELSE FoldLeft(LAMBDA b, p : WriteSignaturePart(b, tree, p), Commit(buf, nested), parts)

(* An error while the checkpoint is written is ignored, and the checkpoint *)
(* is not there.                                                           *)
WriteCheckpoint(buf, checkpoint) ==
    LET written == WriteWord(buf, checkpoint, FALSE)
    IN  IF written.status = "ok" THEN written ELSE buf

WriteSequenceSignatureBody(buf, noChain, body) ==
    LET threshold == NumberAt(body, 0, 2)
        flag == IF threshold < ByteBase
                THEN <<IF noChain THEN FLAG_SEQUENCE_SIG_NO_CHAIN ELSE FLAG_SEQUENCE_SIG, threshold>>
                ELSE <<IF noChain THEN FLAG_SEQUENCE_L_SIG_NO_CHAIN ELSE FLAG_SEQUENCE_L_SIG>>
                     \o Digits(threshold, 2)
        start == End(buf, Content(body), flag, "Stateless")
        tree == 2 + CheckpointBytes
    IN  IF body.size < 2 THEN Fail(buf)
        ELSE IF body.size < tree THEN Fail(start)
        ELSE WriteSequenceSignatureTree(WriteCheckpoint(start, Content(Sub(body, 2, tree))),
                                        From(body, tree))

(* The signatures that are chained have their lengths before them.         *)
ChainedEnd(signature, p) == p + SizeBytes + NumberAt(signature, p, SizeBytes)

(* Mutant: one that ends where the array does is taken for cut off. *)
IsCutOffAtEnd(signature, p) ==
    p + SizeBytes > signature.size \/ ChainedEnd(signature, p) >= Len(signature.array)

IsCutOff(signature, p) ==
    p + SizeBytes > signature.size \/ ChainedEnd(signature, p) > Len(signature.array)

(* Where they are, and after them where they end, or one is cut off. *)
RECURSIVE ChainedFrom(_, _)
ChainedFrom(signature, p) ==
    IF p >= signature.size \/ IsCutOff(signature, p) THEN <<p>>
    ELSE <<p>> \o ChainedFrom(signature, ChainedEnd(signature, p))

WriteSequenceChainedSignature(buf, signature) ==
    LET parts == Front(ChainedFrom(signature, 0))
        end == Last(ChainedFrom(signature, 0))
        count == Len(parts)
        flag == IF count >= ByteBase THEN <<FLAG_SEQUENCE_READ_CHAINED_L>> \o Digits(count, 2)
                ELSE <<FLAG_SEQUENCE_READ_CHAINED_S, count>>
        part(p) == Sub(signature, p + SizeBytes, ChainedEnd(signature, p))
    IN  IF end < signature.size THEN Panic(buf)
        ELSE FoldLeft(LAMBDA b, p : WriteSequenceSignature(b, part(p), FALSE),
                      Commit(buf, flag), parts)

WriteSequenceSignature(buf, signature, mayUseBytes) ==
    LET type == ByteAt(signature, 0)
        body == From(signature, 1)
    IN  IF mayUseBytes /\ (signature.size = 0 \/ ~buf.settings.useStorage)
        THEN WriteBytesOptimized(buf, signature, FALSE)
        ELSE IF signature.size = 0 THEN Panic(buf)
        ELSE CASE type = LEGACY -> WriteSequenceSignatureBody(buf, FALSE, signature)
               [] type = CHAIN_DYNAMIC -> WriteSequenceSignatureBody(buf, FALSE, body)
               [] type = NO_CHAIN -> WriteSequenceSignatureBody(buf, TRUE, body)
               [] type = CHAINED -> WriteSequenceChainedSignature(buf, body)
               [] OTHER -> Fail(buf)

----------------------------------------------------------------------------
(* Calls *)

WriteCall(buf, to, data) == WriteWord(WriteBytesOptimized(buf, Whole(data), TRUE), to, TRUE)

WriteCalls(buf, tos, datas) ==
    LET count == Len(tos)
    IN  IF count \notin 1 .. ByteBase - 1 THEN Fail(buf)
        ELSE FoldLeft(LAMBDA b, i : WriteCall(b, tos[i], datas[i]), Commit(buf, <<count>>),
                      [i \in 1 .. count |-> i])

----------------------------------------------------------------------------
(* Transactions of Sequence wallets.  An execution is                      *)
(*     [nonce, transactions, signature]                                    *)
(* and a transaction                                                       *)
(*     [delegateCall, revertOnError, gasLimit, to, value, data, execution] *)
(* where execution is empty, or has the one execution that the data stands *)
(* for.  The numbers are words.                                            *)

RECURSIVE WriteSequenceTransactions(_, _)
RECURSIVE WriteSequenceExecuteFlag(_, _)

Bit(condition, b) == IF condition THEN 2 ^ b ELSE 0

TransactionFlag(tx) ==
      Bit(tx.delegateCall, ByteBits - 1) + Bit(tx.revertOnError, ByteBits - 2)
    + Bit(tx.gasLimit # Zeros(WordBytes), ByteBits - 3)
    + Bit(tx.value # Zeros(WordBytes), ByteBits - 4)
    + Bit(tx.data # << >> \/ tx.execution # << >>, 0)

(* A number of zero is not written. *)
WriteNumber(buf, word) == IF word = Zeros(WordBytes) THEN buf ELSE WriteWord(buf, word, FALSE)

WriteSequenceTransaction(buf, tx) ==
    LET flag == Commit(buf, <<TransactionFlag(tx)>>)
        target == WriteWord(WriteNumber(flag, tx.gasLimit), tx.to, buf.settings.useStorage)
        value == WriteNumber(target, tx.value)
    IN  IF tx.execution # << >>
        THEN WriteSequenceExecuteFlag(value, tx.execution[1])
        ELSE IF tx.data = << >> THEN value
        ELSE WriteBytesOptimized(value, Whole(tx.data), buf.settings.useStorage)

WriteSequenceTransactions(buf, transactions) ==
    LET count == Len(transactions)
    IN  IF count \notin 1 .. ByteBase - 1 THEN Fail(buf)
        ELSE FoldLeft(WriteSequenceTransaction, Commit(buf, <<count>>), transactions)

(* The space of the nonce may be saved, the rest is never used again.      *)
WriteSequenceNonce(buf, nonce) ==
    WriteWord(WriteWord(buf, SubSeq(nonce, 1, AddressBytes), TRUE),
              SubSeq(nonce, AddressBytes + 1, WordBytes), FALSE)

WriteSequenceExecute(buf, execution) ==
    WriteSequenceSignature(
        WriteSequenceTransactions(WriteSequenceNonce(buf, execution.nonce),
                                  execution.transactions),
        Whole(execution.signature), TRUE)

(* The execution as data of a call. *)
WriteSequenceExecuteTo(buf, to, execution) ==
    WriteWord(WriteSequenceExecute(buf, execution), to, TRUE)

WriteSequenceExecuteFlag(buf, execution) ==
    WriteSequenceExecute(Commit(buf, <<FLAG_SEQUENCE_EXECUTE>>), execution)

WriteSequenceSelfExecuteFlag(buf, execution) ==
    WriteSequenceTransactions(Commit(buf, <<FLAG_SEQUENCE_SELF_EXECUTE>>), execution.transactions)
=============================================================================
