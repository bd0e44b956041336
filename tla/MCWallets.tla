----------------------------- MODULE MCWallets -----------------------------
(***************************************************************************)
(* RoundTrip for Sequence wallets: what is asked for, with what settings,  *)
(* and what is written by hand, in MCSignatures and in MCTransactions.     *)
(***************************************************************************)
EXTENDS MCTransactions

MCRequests == SignatureRequests \cup TransactionRequests
MCSettings == SignatureSettings \cup TransactionSettings
MCHandWritten == SignatureHandWritten \cup TransactionHandWritten
MCOthersWords == TransactionOthersWords
=============================================================================
