----------------------------- MODULE MCPayloads -----------------------------
(***************************************************************************)
(* RoundTrip for calls and bytes, with and without storage, two payloads   *)
(* one after the other, and for batches of calls that the contract         *)
(* performs.  A byte has 5 bits and a word 6 bytes, so that the lengths at *)
(* which the encoder changes its mind are all different: words of 1, 2, 3  *)
(* bytes, addresses of 4 or 5, and bytes32 of 6.                           *)
(***************************************************************************)
EXTENDS RoundTrip, Commands

KnownSelector == <<6, 1, 2, 3>>
OtherSelector == <<6, 9, 9, 9>>

MCSelectors == << <<0, 0, 0, 0>>, KnownSelector >>
MCExecuteSelector == <<7, 1, 7, 1>>
MCSelfExecuteSelector == <<7, 2, 7, 2>>

(* Words that are saved as addresses, and as bytes32. *)
Address == <<0, 9, 8, 7, 6, 5>>
ShortAddress == <<0, 0, 9, 9, 9, 9>>
Hash == <<7, 1, 2, 3, 4, 5>>

Transfer == KnownSelector \o Address \o Hash
Approve == OtherSelector \o Address
Bytes == <<6, 6, 6, 6, 6, 6, 6>>

To == SubSeq(Address, 2, 6)
OtherTo == SubSeq(ShortAddress, 2, 6)

Any(datas) == [command : {"any"}, data : datas]
Calls(datas) ==
    [command : {"call"}, method : {METHOD_DECODE_CALL}, data : datas, to : {OtherTo}]
    \cup [command : {"calls"}, method : {METHOD_DECODE_N_CALLS},
          datas : (datas \ {Approve}) \X datas, tos : {<<OtherTo, To>>}]

(* Calls of different lengths, so that one is decompressed over the end of *)
(* another, with what they have in common saved, mirrored and copied from  *)
(* each other; those that are called save as well.                         *)
Long == KnownSelector \o Hash \o Address \o Hash
Performed(data) ==
    [command |-> "calls", method |-> METHOD_EXECUTE_N_CALLS,
     datas |-> <<Long, data, Transfer>>, tos |-> <<To, OtherTo, To>>]
PerformedCall(method, data) ==
    [command |-> "call", method |-> method, data |-> data, to |-> OtherTo]

(* Calls may be repeated, and their arguments and addresses are. *)
MCRequests ==
    Any({<< >>, Zeros(20), Hash, Transfer, OtherSelector})
    \cup Calls({Transfer, Approve, Bytes})
    \cup {Performed(data) : data \in {Zeros(8), << >>, Transfer}}
    \cup {PerformedCall(METHOD_EXECUTE_CALL, data) : data \in {Transfer, << >>}}
    \cup {PerformedCall(METHOD_EXECUTE_CALL_RETURN, Bytes)}

(* By hand, a call whose arguments have any length, over one that is       *)
(* longer, and a batch that is said to have no calls, but has one.         *)
Argument == <<9, 9>>
Dynamic ==
    [data |-> KnownSelector \o WordOf(WordBytes) \o AbiBytes(Argument),
     flags |-> <<FLAG_READ_DYNAMIC_ABI, 2, 1, 1, FLAG_READ_N_BYTES, LITERAL_ZERO + 2>> \o Argument]
Raw ==
    [data |-> Transfer \o Bytes \o Hash,
     flags |-> <<FLAG_READ_N_BYTES, FLAG_READ_WORD(1), 29>> \o Transfer \o Bytes \o Hash]
ToThem == <<FLAG_READ_WORD(AddressBytes)>> \o To

MCHandWritten ==
    {[payload |-> <<METHOD_EXECUTE_N_CALLS, 2>> \o Raw.flags \o ToThem \o Dynamic.flags \o ToThem,
      output |-> << >>,
      calls |-> <<[to |-> To, data |-> Raw.data], [to |-> To, data |-> Dynamic.data]>>],
     [payload |-> <<METHOD_EXECUTE_N_CALLS, 0>> \o Dynamic.flags \o ToThem,
      output |-> << >>, calls |-> <<[to |-> To, data |-> Dynamic.data]>>]}

MCOthersWords == {Address}

MCSettings ==
    {[allow |-> {}, disallow |-> {}, useStorage |-> TRUE],
     [allow |-> {}, disallow |-> {}, useStorage |-> FALSE],
     [allow |-> {}, disallow |-> {{FLAG_MIRROR_FLAG_S}, {FLAG_SAVE_ADDRESS}}, useStorage |-> TRUE]}

(* --disallow-opcodes read_address *)
NoStoredAddresses ==
    {[allow |-> {}, disallow |-> {{FLAG_READ_ADDRESS(size) : size \in 2 .. 4}},
      useStorage |-> TRUE]}
=============================================================================
