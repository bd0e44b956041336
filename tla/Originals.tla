----------------------------- MODULE Originals -----------------------------
(***************************************************************************)
(* What the program is asked to compress, and what its payload is to stand *)
(* for, told by the ABI and not by what the program does.                  *)
(*                                                                         *)
(* A request is a command of czip-compressor with its arguments, one of    *)
(*    encode-any          [command |-> "any", data]                        *)
(*    encode-call         [command |-> "call", method, data, to]           *)
(*    encode-calls        [command |-> "calls", method, datas, tos]        *)
(*    encode-sequence-tx  [command |-> "sequence", method, execution, to]  *)
(*    extras              [command |-> "extras", flag, ...]                *)
(* where the flag of extras is one of                                      *)
(*    "words", "branch", "chained", "signature"  and there is data         *)
(*    "dynamic"            and there are address, weight and data          *)
(*    "nested"             and there are weight, threshold and data        *)
(*    "execute", "self"    and there is an execution                       *)
(***************************************************************************)
EXTENDS Flags

LOCAL INSTANCE SequencesExt  (* FlattenSeq *)

(* The errors of some of the extras are dropped, and what was written so   *)
(* far is printed.                                                         *)
DropsErrors(request) ==
    request.command = "extras" /\ request.flag \notin {"execute", "self"}

IsPrinted(request, buf) ==
    \/ buf.status = "ok"
    \/ buf.status = "error" /\ DropsErrors(request)

----------------------------------------------------------------------------
(* What the data of an execution is: the ABI, by its definition *)

PaddedToWords(bytes) ==
    bytes \o Zeros((WordBytes - (Len(bytes) % WordBytes)) % WordBytes)

AbiBytes(bytes) == WordOf(Len(bytes)) \o PaddedToWords(bytes)

AbiBoolean(b) == WordOf(IF b THEN 1 ELSE 0)

AbiTransaction(tx) ==
    AbiBoolean(tx.delegateCall) \o AbiBoolean(tx.revertOnError) \o tx.gasLimit
    \o Pad(tx.to) \o tx.value \o WordOf(6 * WordBytes) \o AbiBytes(tx.data)

(* An array of things of any length: how many there are, where they start, *)
(* and they themselves.                                                    *)
AbiArray(elements) ==
    LET start(i) == Len(elements) * WordBytes + Len(FlattenSeq(SubSeq(elements, 1, i - 1)))
    IN  WordOf(Len(elements))
        \o FlattenSeq([i \in DOMAIN elements |-> WordOf(start(i))])
        \o FlattenSeq(elements)

AbiTransactions(transactions) ==
    AbiArray([i \in DOMAIN transactions |-> AbiTransaction(transactions[i])])

AbiExecute(execution) ==
    LET transactions == AbiTransactions(execution.transactions)
    IN  ExecuteSelector
        \o WordOf(3 * WordBytes) \o execution.nonce \o WordOf(3 * WordBytes + Len(transactions))
        \o transactions \o AbiBytes(execution.signature)

AbiSelfExecute(execution) ==
    SelfExecuteSelector \o WordOf(WordBytes) \o AbiTransactions(execution.transactions)

(* An execution as the data of a transaction. *)
Nested(execution) == [data |-> AbiExecute(execution), execution |-> <<execution>>]

----------------------------------------------------------------------------
(* What a payload stands for: calls, or data *)

CallsOf(request) ==
    CASE request.command = "call" -> <<[to |-> request.to, data |-> request.data]>>
      [] request.command = "calls" ->
            [i \in DOMAIN request.tos |-> [to |-> request.tos[i], data |-> request.datas[i]]]
      [] request.command = "sequence" ->
            <<[to |-> request.to, data |-> AbiExecute(request.execution)]>>

DataOf(request) ==
    LET sized == Digits(Len(request.data), SizeBytes) \o request.data
    IN  IF request.command = "any" THEN request.data
        ELSE CASE request.flag \in {"words", "signature"} -> request.data
               [] request.flag = "branch" -> <<BRANCH>> \o sized
               [] request.flag = "chained" -> <<CHAINED>> \o request.data
               [] request.flag = "dynamic" -> <<DYNAMIC, request.weight>> \o request.address \o sized
               [] request.flag = "nested" ->
                     <<NESTED, request.weight, 0, request.threshold>> \o sized
               [] request.flag = "execute" -> AbiExecute(request.execution)
               [] request.flag = "self" -> AbiSelfExecute(request.execution)
=============================================================================
