--------------------------- MODULE MCSharedCache ---------------------------
(***************************************************************************)
(* Indexes with clients that run at the same time against the same cache   *)
(* file.  Which client is which makes no difference.                       *)
(***************************************************************************)
EXTENDS Indexes, TLC

SCAddressValues == {W(0, 3), W(0, 4)}
SCBytes32Values == {W(5, 5)}
ClientSymmetry == Permutations(Clients)
=============================================================================
