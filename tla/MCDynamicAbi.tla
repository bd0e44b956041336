---------------------------- MODULE MCDynamicAbi ----------------------------
(***************************************************************************)
(* RoundTrip for READ_DYNAMIC_ABI: as the compressor uses it, for calls of *)
(* more words than the other flags for calls have; and written by hand, as *)
(* in the tests, with arguments of any length in any place.                *)
(* The sizes are those of MCPointers: a bitmap tells 4 arguments, and the  *)
(* number of arguments is below 16.                                        *)
(***************************************************************************)
EXTENDS RoundTrip, Commands

LOCAL INSTANCE SequencesExt  (* FoldLeft, FlattenSeq, SeqOf *)

KnownSelector == <<3, 2>>
MCSelectors == << <<0, 0>>, KnownSelector >>
MCExecuteSelector == <<1, 2>>
MCSelfExecuteSelector == <<2, 1>>

Word1 == <<9, 7, 9, 5>>
Word2 == <<0, 9, 7, 5>>

CallOf(selector, n) ==
    selector \o FlattenSeq([i \in 1 .. n |-> IF i % 3 = 0 THEN Word2 ELSE Word1])

EncodeAny(datas) == [command : {"any"}, data : datas]
Two(one, two) ==
    [command |-> "calls", method |-> METHOD_DECODE_N_CALLS,
     datas |-> <<one, two>>, tos |-> <<Tail(Word2), Tail(Word2)>>]

AbiRequests ==
    EncodeAny({CallOf(selector, n) : selector \in {KnownSelector, <<3, 9>>},
                                     n \in {1, 2, 3, 4, 5, ByteBase - 1}})
    \cup {Two(CallOf(KnownSelector, 5), CallOf(KnownSelector, n)) : n \in 3 .. 5}

AbiFlags == {FLAG_ABI(params) : params \in 0 .. MaxParams}

AbiSettings ==
    {[allow |-> {}, disallow |-> parts, useStorage |-> useStorage] :
        parts \in {{}, {AbiFlags}}, useStorage \in BOOLEAN}

----------------------------------------------------------------------------
(* By hand: the arguments are words, or bytes of some length.              *)

WordArg(word) == [dynamic |-> FALSE, data |-> word, flags |-> <<FLAG_READ_WORD(WordBytes)>> \o word]
BytesArg(bytes) ==
    [dynamic |-> TRUE, data |-> bytes,
     flags |-> <<FLAG_READ_N_BYTES, LITERAL_ZERO + Len(bytes)>> \o bytes]

Bitmap(args) ==
    FoldLeft(LAMBDA bits, i : bits + (IF args[i].dynamic THEN 2 ^ (i - 1) ELSE 0),
             0, [i \in DOMAIN args |-> i])

PayloadOf(args) ==
    <<FLAG_READ_DYNAMIC_ABI, 2, Len(args), Bitmap(args)>>
    \o FlattenSeq([i \in DOMAIN args |-> args[i].flags])

(* The ABI: the heads of the arguments, and then the tails of those that   *)
(* are of any length, whose heads say where their tails are.               *)
DataOfArgs(args) ==
    LET tail(i) == IF args[i].dynamic THEN AbiBytes(args[i].data) ELSE << >>
        tails(n) == FlattenSeq([i \in 1 .. n |-> tail(i)])
        head(i) == IF args[i].dynamic
                   THEN WordOf(Len(args) * WordBytes + Len(tails(i - 1)))
                   ELSE args[i].data
    IN  KnownSelector \o FlattenSeq([i \in DOMAIN args |-> head(i)]) \o tails(Len(args))

(* A call as an argument of a call. *)
CallArg(args) == [dynamic |-> TRUE, data |-> DataOfArgs(args), flags |-> PayloadOf(args)]

Ones(n) == [i \in 1 .. n |-> 9]
Simple == {WordArg(Word1)} \cup {BytesArg(Ones(n)) : n \in {0, 3, 4, 5}}
Inner == <<BytesArg(Ones(3)), WordArg(Word2)>>

ArgLists ==
    (SeqOf(Simple, 3) \ {<< >>})
    \cup {<<WordArg(Word2), CallArg(Inner), BytesArg(Ones(5))>>,
          <<BytesArg(Ones(3)), WordArg(Word1), CallArg(Inner), BytesArg(Ones(4)), WordArg(Word2)>>}

(* Something follows the call, where its padding ends. *)
AbiHandWritten ==
    {[payload |-> <<METHOD_DECODE_ANY, FLAG_NESTED_N_FLAGS_S, 2>> \o PayloadOf(args)
                  \o <<LITERAL_ZERO + 1>>,
      output |-> DataOfArgs(args) \o WordOf(1), calls |-> << >>] : args \in ArgLists}

----------------------------------------------------------------------------
(* What does not come back as it was *)

(* A call of as many words as a byte has values. *)
ManyRequests == EncodeAny({CallOf(KnownSelector, ByteBase)})

(* A call without arguments, with --disallow-opcodes abi_0_param.  What    *)
(* follows it is taken for an argument.                                    *)
NoneRequests ==
    {[command |-> "call", method |-> METHOD_DECODE_CALL, data |-> KnownSelector,
      to |-> Tail(Word2)]}
NoAbi0 == {[allow |-> {}, disallow |-> {{FLAG_ABI(0)}}, useStorage |-> FALSE]}
=============================================================================
