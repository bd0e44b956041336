----------------------------- MODULE MCPointers -----------------------------
(***************************************************************************)
(* RoundTrip for payloads so long that a pointer of 2 bytes does not reach *)
(* all of them, for copies of more bytes than one byte can say, and for    *)
(* more words than that; others save while the payload is on its way.      *)
(* A byte has 4 bits, so this takes 256 bytes, 16 bytes and 16 words.      *)
(* And RoundTrip for calls of more words than the flags for calls have,    *)
(* which are those of MCDynamicAbi.                                        *)
(***************************************************************************)
EXTENDS MCDynamicAbi

Blob(size) == [i \in 1 .. size |-> IF i = 1 THEN 6 ELSE 1 + ((i * i) % 13)]

Address == <<7, 8, 9>>
Hash == <<9, 7, 9, 5>>
OtherHash == <<9, 5, 9, 7>>
Small == <<11, 12, 11, 13, 11>>
Call == <<6, 2>> \o Pad(Address) \o Hash

DecodeCalls(datas) ==
    [command |-> "calls", method |-> METHOD_DECODE_N_CALLS, datas |-> datas, tos |-> [i \in DOMAIN datas |-> Address]]
Words(words) == [command |-> "extras", flag |-> "words", data |-> words]

RECURSIVE Repeat(_, _)
Repeat(s, n) == IF n = 0 THEN << >> ELSE s \o Repeat(s, n - 1)

MCRequests ==
    {DecodeCalls(<<Blob(size), data, data>>) :
        size \in {244, 252, 260}, data \in {Hash, Small, Call}}
    \cup {DecodeCalls(<<Blob(20), Blob(20), Call>>),
          Words(Hash \o OtherHash \o Hash),
          Words(Repeat(Hash, 16))}
    \cup AbiRequests

NoFlagOf(parts, useStorage) == [allow |-> {}, disallow |-> parts, useStorage |-> useStorage]

MCSettings ==
    {NoFlagOf(parts, useStorage) :
        parts \in {{}, {{FLAG_MIRROR_FLAG_S}}}, useStorage \in BOOLEAN}
    \cup {NoFlagOf({{FLAG_READ_WORD(1)}}, TRUE)}
    \cup AbiSettings

(* extras FLAG_SEQUENCE_NESTED_N_WORDS --disallow-opcodes read_word_1 *)
WordRequests == {Words(Hash \o OtherHash \o Hash)}
NoWords == {NoFlagOf({{FLAG_READ_WORD(1)}}, FALSE)}

(* Flags that the compressor does not choose by itself, as tests do. *)
MCHandWritten ==
    {[payload |-> <<METHOD_DECODE_ANY, FLAG_NESTED_N_FLAGS_S, 2, FLAG_READ_WORD(4)>>
                  \o Hash \o <<FLAG_MIRROR_FLAG_L, 0, 0, 3>>,
      output |-> Hash \o Hash, calls |-> << >>],
     [payload |-> <<METHOD_DECODE_ANY, FLAG_NESTED_N_FLAGS_S, 0, FLAG_READ_WORD(4)>> \o Hash,
      output |-> Hash, calls |-> << >>]}
    \cup AbiHandWritten

MCOthersWords == {Hash}
=============================================================================
