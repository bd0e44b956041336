----------------------------- MODULE MCIndexes -----------------------------
(***************************************************************************)
(* Indexes with one client at a time: two addresses, which may be saved    *)
(* more than once, a bytes32, and the zero word.                           *)
(***************************************************************************)
EXTENDS Indexes

MCAddressValues == {W(0, 3), W(0, 4)}
MCBytes32Values == {W(5, 5), Zero}
=============================================================================
