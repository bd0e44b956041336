------------------------- MODULE MCReorganisations -------------------------
(***************************************************************************)
(* Indexes with a chain whose last two blocks may be replaced, while a     *)
(* client loads the storage, and after that: two addresses and a bytes32.  *)
(***************************************************************************)
EXTENDS Indexes

MCAddressValues == {W(0, 3), W(0, 4)}
MCBytes32Values == {W(5, 5)}
=============================================================================
