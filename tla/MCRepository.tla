---------------------------- MODULE MCRepository ----------------------------
(***************************************************************************)
(* Repository with 128-bit halves scaled down to 0 .. 3, so that the       *)
(* largest number of addresses allowed is the last one that keeps clear of *)
(* the slot of the bytes32 of index 1.                                     *)
(***************************************************************************)
EXTENDS Repository

MCMethods == {"EXECUTE_CALL", "EXECUTE_CALLS", "DECODE_ANY"}

(* One value may be saved twice, and zero may be saved. *)
MCAddressValues == {W(0, 3), W(1, 2)}
MCBytes32Values == {W(2, 1), Zero}
=============================================================================
