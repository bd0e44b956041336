--------------------------- MODULE MCTransactions ---------------------------
(***************************************************************************)
(* RoundTrip for executions of Sequence transactions, that are returned    *)
(* and that are performed, with executions nested in them.  The sizes are  *)
(* those of MCPayloads.                                                    *)
(***************************************************************************)
EXTENDS MCSignatures

Wallet == <<9, 8, 7, 6, 5>>
Token == <<9, 9, 8, 8, 1>>
Amount == <<7, 1, 2, 3, 4, 5>>
Transfer == KnownSelector \o Pad(Wallet) \o Amount
Bytes == <<6, 6, 6, 6, 6, 6, 6>>

Transaction(to, data) ==
    [delegateCall |-> FALSE, revertOnError |-> FALSE, gasLimit |-> WordOf(0), to |-> to,
     value |-> WordOf(0), data |-> data, execution |-> << >>]

Full == [Transaction(Token, Transfer) EXCEPT
            !.delegateCall = TRUE, !.gasLimit = WordOf(1100), !.value = WordOf(ByteBase ^ 3)]

OnlyRevert == [Transaction(Wallet, << >>) EXCEPT !.revertOnError = TRUE, !.value = WordOf(3)]

Execution(space, nonce, transactions, signature) ==
    [nonce |-> space \o Digits(nonce, WordBytes - AddressBytes),
     transactions |-> transactions, signature |-> signature]

NoSpace == Zeros(AddressBytes)

WalletSignature ==
    <<NO_CHAIN, 0, 1, 9, 4>> \o <<ADDRESS, 1>> \o Wallet \o <<NODE>> \o Amount

Small == Execution(NoSpace, 5, <<Transaction(Token, Bytes)>>, << >>)
Large == Execution(Wallet, 17, <<Full, Transaction(Wallet, Bytes), OnlyRevert>>, WalletSignature)
Guest ==
    Execution(Wallet, 0, <<Transaction(Token, Transfer), Transaction(Token, Transfer)>>, << >>)
Outer(inner) ==
    Execution(Token, 1, <<OnlyRevert, Nested(inner) @@ Transaction(Wallet, << >>), Full>>,
              WalletSignature)

Sequence(execution) ==
    [command : {"sequence"}, method : {METHOD_DECODE_SEQUENCE_TX, METHOD_EXECUTE_SEQUENCE_TX},
     execution : {execution}, to : {Wallet}]
ExecutionExtras(flag, execution) == [command |-> "extras", flag |-> flag, execution |-> execution]

TransactionRequests ==
    Sequence(Small) \cup Sequence(Large) \cup Sequence(Guest) \cup Sequence(Outer(Large))
    \cup {ExecutionExtras("execute", Outer(Guest)),
          ExecutionExtras("self", Large), ExecutionExtras("self", Guest)}

TransactionSettings ==
    {[allow |-> {}, disallow |-> parts, useStorage |-> useStorage] :
        parts \in {{}, {{FLAG_MIRROR_FLAG_S}, {FLAG_COPY_CALLDATA_S}}},
        useStorage \in BOOLEAN}

(* Batches of executions, which no command writes: each of one transaction *)
(* with a target and nothing else.                                         *)
ByHand(target) == Execution(NoSpace, 2, <<Transaction(target, << >>)>>, << >>)

ReadWordOf(to) == <<FLAG_READ_WORD(AddressBytes)>> \o to

Written(target, to) ==
    <<LITERAL_ZERO, LITERAL_ZERO + 2, 1, 0>> \o ReadWordOf(target) \o <<FLAG_NO_OP>> \o ReadWordOf(to)

TransactionHandWritten ==
    LET two == <<2>> \o Written(Wallet, Token) \o Written(Token, Wallet)
        datas == <<AbiExecute(ByHand(Wallet)), AbiExecute(ByHand(Token))>>
    IN  {[payload |-> <<METHOD_DECODE_SEQUENCE_N_TXS>> \o two, calls |-> << >>,
          output |-> datas[1] \o Pad(Token) \o datas[2] \o Pad(Wallet)],
         [payload |-> <<METHOD_EXECUTE_SEQUENCE_N_TXS>> \o two, output |-> << >>,
          calls |-> <<[to |-> Token, data |-> datas[1]], [to |-> Wallet, data |-> datas[2]]>>]}

TransactionOthersWords == {Pad(Token), Pad(Wallet)}
=============================================================================
