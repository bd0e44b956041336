---------------------------- MODULE MCSignatures ----------------------------
(***************************************************************************)
(* RoundTrip for signatures of Sequence wallets, and for bytes that look   *)
(* like one and are not.  The sizes are those of MCPayloads, and an EOA    *)
(* signature is as long as a call of two words, as it is in the code.      *)
(***************************************************************************)
EXTENDS RoundTrip, Commands, TLC

KnownSelector == <<6, 1, 2, 3>>
MCSelectors == << <<0, 0, 0, 0>>, KnownSelector >>
MCExecuteSelector == <<7, 1, 7, 1>>
MCSelfExecuteSelector == <<7, 2, 7, 2>>

Signer == <<9, 8, 7, 6, 5>>
Other == <<1, 9, 9, 9, 9>>
Hash == <<7, 1, 2, 3, 4, 5>>
OtherHash == <<8, 5, 4, 3, 2, 1>>
Signed == <<31, 30, 29, 28, 27, 26, 25, 24, 23, 22, 21, 20, 19, 18>>
Checkpoint == <<9, 4>>

Eoa(weight) == <<EOA_SIGNATURE, weight>> \o Signed
Address(weight, address) == <<ADDRESS, weight>> \o address
Node(hash) == <<NODE>> \o hash
Subdigest(hash) == <<SUBDIGEST>> \o hash

WithSize(part) == Digits(Len(part), 3) \o part
BranchOf(tree) == <<BRANCH>> \o WithSize(tree)
NestedOf(weight, threshold, tree) == <<NESTED, weight>> \o Digits(threshold, 2) \o WithSize(tree)
DynamicOf(weight, address, signature) ==
    <<DYNAMIC, weight>> \o address \o WithSize(signature \o <<3>>)

Signature(type, threshold, tree) == <<type>> \o Digits(threshold, 2) \o Checkpoint \o tree
ChainedOf(one, two) == <<CHAINED>> \o WithSize(one) \o WithSize(two)

Plain == Signature(CHAIN_DYNAMIC, 2, Address(1, Signer) \o Eoa(2) \o Node(Hash))
Long == Signature(NO_CHAIN, 40,
                  BranchOf(Address(5, Other) \o Node(Hash)) \o Subdigest(OtherHash) \o Eoa(7))
Deep == Signature(CHAIN_DYNAMIC, 3,
                  DynamicOf(3, Signer, Plain)
                  \o NestedOf(2, 1, Address(1, Signer) \o Address(1, Signer))
                  \o DynamicOf(0, Other, <<9, 9, 9>>))
Alone == Signature(NO_CHAIN, 1, Node(OtherHash))
LongAlone == Signature(CHAIN_DYNAMIC, 32, Subdigest(OtherHash))

(* The first part is written, and then the branch turns out to be empty,   *)
(* the threshold to take two bytes, or the dynamic part not to end with 3. *)
NotOne ==
    {Signature(CHAIN_DYNAMIC, 1, Node(Hash) \o part) :
        part \in {BranchOf(<< >>), NestedOf(1, 32, Node(Hash)),
                  <<DYNAMIC, 1>> \o Signer \o WithSize(<<3, 9>>)}}

EncodeAny(datas) == [command : {"any"}, data : datas]
Two(one, two) ==
    [command |-> "calls", method |-> METHOD_DECODE_N_CALLS,
     datas |-> <<one, two>>, tos |-> <<Signer, Signer>>]
Extras(flag, data) == [command |-> "extras", flag |-> flag, data |-> data]

SignatureRequests ==
    EncodeAny({Plain, Long, Deep, ChainedOf(Alone, LongAlone), Eoa(1), Subdigest(Hash)})
    \cup {Two(one, Node(Hash)) : one \in NotOne}
    \cup {Extras("signature", ChainedOf(Plain, Alone)),
          Extras("chained", WithSize(Plain)),
          Extras("branch", Node(Hash) \o Address(1, Other)),
          [address |-> Signer, weight |-> 2] @@ Extras("dynamic", Plain \o <<3>>),
          [weight |-> 2, threshold |-> 5] @@ Extras("nested", Node(Hash) \o Eoa(9))}

SignatureSettings ==
    {[allow |-> {}, disallow |-> parts, useStorage |-> TRUE] :
        parts \in {{}, {{FLAG_MIRROR_FLAG_S}, {FLAG_COPY_CALLDATA_S}},
                   {{FLAG_SEQUENCE_SUBDIGEST}, {FLAG_SEQUENCE_SIGNATURE(w) : w \in 0 .. 4}}}}
    \cup {[allow |-> {}, disallow |-> {}, useStorage |-> FALSE]}

(* The number of chained signatures in two bytes, which the compressor     *)
(* writes for as many as a byte has values; here there are two.            *)
FlagsOfAlone ==
    <<FLAG_SEQUENCE_SIG_NO_CHAIN, 1, FLAG_READ_WORD(2)>> \o Checkpoint
    \o <<FLAG_SEQUENCE_NODE, FLAG_READ_WORD(WordBytes)>> \o OtherHash

SignatureHandWritten ==
    {[payload |-> <<METHOD_DECODE_ANY, FLAG_SEQUENCE_READ_CHAINED_L, 0, 2>>
                  \o FlagsOfAlone \o FlagsOfAlone,
      output |-> ChainedOf(Alone, Alone), calls |-> << >>]}

----------------------------------------------------------------------------
(* What does not come back as it was, or not at all *)

WithStorage == {[allow |-> {}, disallow |-> {}, useStorage |-> TRUE]}

(* A legacy signature has its threshold in its first two bytes: the first  *)
(* byte is no type, but the code takes it for one.                         *)
LegacyRequests == EncodeAny({<<LEGACY, 1>> \o Checkpoint \o Node(Hash)})

(* The bytes of a signature without its type, after the signature. *)
BodyRequests == {Two(Alone, Tail(Alone))}

(* No signatures at all, chained. *)
EmptyChainRequests == EncodeAny({<<CHAINED>>})

(* A call whose selector starts with a byte that is the type of chained    *)
(* signatures.                                                             *)
CallRequests == EncodeAny({<<CHAINED, 9, 9, 9>> \o Hash})

(* The node is longer than the branch it is in: it takes what follows.     *)
OverrunRequests ==
    EncodeAny({Signature(CHAIN_DYNAMIC, 1,
                         BranchOf(<<NODE, 9, 9, 9>>) \o Subdigest(WordOf(1)))})

(* --disallow-opcodes read_word *)
NoWords ==
    {[allow |-> {}, disallow |-> {{FLAG_READ_WORD(n) : n \in 1 .. WordBytes} \cup {FLAG_READ_WORD_INV}},
      useStorage |-> TRUE]}
CheckpointRequests == EncodeAny({Alone})
=============================================================================
