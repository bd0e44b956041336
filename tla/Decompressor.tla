---------------------------- MODULE Decompressor ----------------------------
(***************************************************************************)
(* The methods of the decompressor contract that read flags, around the    *)
(* state machine: those that return what was decompressed, and those that  *)
(* perform it as calls.                                                    *)
(*                                                                         *)
(* A call is data, which is either one flag or the execution of Sequence   *)
(* transactions, and one flag more for the address.  All the calls of a    *)
(* batch are decompressed to the same place in memory if they are          *)
(* performed, and one after the other if they are returned.                *)
(***************************************************************************)
EXTENDS SequenceFlags

LOCAL INSTANCE SequencesExt  (* Last *)

VARIABLE made  (* the calls performed so far, in their order *)

DecodeMethods ==
    {METHOD_DECODE_SEQUENCE_TX, METHOD_DECODE_SEQUENCE_N_TXS,
     METHOD_DECODE_CALL, METHOD_DECODE_N_CALLS}
PerformMethods ==
    {METHOD_EXECUTE_SEQUENCE_TX, METHOD_EXECUTE_SEQUENCE_N_TXS,
     METHOD_EXECUTE_CALL, METHOD_EXECUTE_CALL_RETURN, METHOD_EXECUTE_N_CALLS}
ManyMethods ==
    {METHOD_EXECUTE_SEQUENCE_N_TXS, METHOD_DECODE_SEQUENCE_N_TXS,
     METHOD_EXECUTE_N_CALLS, METHOD_DECODE_N_CALLS}
SequenceMethods ==
    {METHOD_EXECUTE_SEQUENCE_TX, METHOD_EXECUTE_SEQUENCE_N_TXS,
     METHOD_DECODE_SEQUENCE_TX, METHOD_DECODE_SEQUENCE_N_TXS}

(* The method waits below everything else, with left more calls to come.   *)
Batch(method, left) ==
    [wait |-> "batch", performs |-> method \in PerformMethods,
     sequence |-> method \in SequenceMethods, left |-> left]

(* The next call starts, at an index of the memory. *)
StartCall(at, batch) ==
    LET head == ExecuteSelector \o WordOf(3 * WordBytes)
        waiting == <<batch, Flags(1)>>
    IN  /\ pc' = "flag"
        /\ IF batch.sequence
           THEN /\ memory' = Put(memory, at, head)
                /\ windex' = at + Len(head)
                /\ stack' = waiting \o <<Frame("execute"), Frame("space")>>
           ELSE /\ windex' = at
                /\ stack' = waiting
                /\ UNCHANGED memory

(* The contract is called with the calldata: its memory is clean, but for  *)
(* the jump tables.                                                        *)
DispatchAny ==
    /\ calldata[1] = METHOD_DECODE_ANY
    /\ pc' = "flag"
    /\ rindex' = 1
    /\ windex' = 0
    /\ stack' = << >>
    /\ made' = << >>
    /\ UNCHANGED <<calldata, memory, storageVars>>

DispatchCalls ==
    LET many == calldata[1] \in ManyMethods
        count == IF many THEN AtLeastOne(At(1)) ELSE 1
    IN  /\ calldata[1] \in DecodeMethods \cup PerformMethods
        /\ rindex' = IF many THEN 2 ELSE 1
        /\ StartCall(0, Batch(calldata[1], count - 1))
        /\ made' = << >>
        /\ UNCHANGED <<calldata, storageVars>>

ReturnOutput ==
    /\ pc = "back"
    /\ stack = << >>
    /\ pc' = "done"
    /\ UNCHANGED <<calldata, rindex, memory, windex, stack, storageVars, made>>

CallIsReady(performs) == Waits("batch") /\ Last(stack).performs = performs

AfterCall(batch) == [batch EXCEPT !.left = @ - 1]

(* Of the calls that are returned, one was decompressed. *)
NextDecoded ==
    /\ CallIsReady(FALSE)
    /\ Last(stack).left > 0
    /\ StartCall(windex, AfterCall(Last(stack)))
    /\ UNCHANGED <<calldata, rindex, storageVars, made>>

NoMoreDecoded ==
    /\ CallIsReady(FALSE)
    /\ Last(stack).left = 0
    /\ pc' = "done"
    /\ stack' = << >>
    /\ UNCHANGED <<calldata, rindex, memory, windex, storageVars, made>>

(* PERFORM_CALL, PERFORM_EXECUTE: the last word is the address, and what   *)
(* comes before it is the data.                                            *)
Perform ==
    /\ CallIsReady(TRUE)
    /\ made' = Append(made, [to |-> SubSeq(LastWord, WordBytes - AddressBytes + 1, WordBytes),
                             data |-> SubSeq(memory, 1, windex - WordBytes)])
    /\ pc' = "call"
    /\ UNCHANGED <<calldata, rindex, memory, windex, stack, storageVars>>

(* Mutant: the next call is decompressed after this one. *)
NextPerformedAfter ==
    /\ pc = "call"
    /\ Last(stack).left > 0
    /\ StartCall(windex, AfterCall(Last(stack)))
    /\ UNCHANGED <<calldata, rindex, storageVars, made>>

(* Whether the call succeeded is not looked at, and what it left in the    *)
(* memory of the last one is overwritten, or not.                          *)
NextPerformed ==
    /\ pc = "call"
    /\ Last(stack).left > 0
    /\ StartCall(0, AfterCall(Last(stack)))
    /\ UNCHANGED <<calldata, rindex, storageVars, made>>

(* Nothing is returned, or what the only call returned. *)
NoMorePerformed ==
    /\ pc = "call"
    /\ Last(stack).left = 0
    /\ pc' = "done"
    /\ windex' = 0
    /\ stack' = << >>
    /\ UNCHANGED <<calldata, rindex, memory, storageVars, made>>

DecompressorStep ==
    \/ /\ FlagStep \/ SequenceStep
       /\ UNCHANGED made
    \/ ReturnOutput \/ NextDecoded \/ NoMoreDecoded
    \/ Perform \/ NextPerformed \/ NoMorePerformed
=============================================================================
