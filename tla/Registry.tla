------------------------------ MODULE Registry ------------------------------
(***************************************************************************)
(* What the decompressor contract promises whoever compresses calldata     *)
(* against its storage: a registry of addresses and a registry of bytes32, *)
(* both append-only.  An index, once given to a value by a mined           *)
(* transaction, means that value forever; a transaction adds any number of *)
(* values to both registries, or none.                                     *)
(***************************************************************************)
EXTENDS Naturals, Sequences

VARIABLES
    addresses,  (* addresses[i] is the address of index i *)
    bytes32     (* bytes32[i] is the word of index i *)

registryVars == <<addresses, bytes32>>

RegistryInit ==
    /\ addresses = << >>
    /\ bytes32 = << >>

(* Sequence t is s with values appended at its end. *)
ExtendedBy(s, t) ==
    /\ Len(s) <= Len(t)
    /\ \A i \in 1 .. Len(s) : t[i] = s[i]

RegistryNext ==
    /\ ExtendedBy(addresses, addresses')
    /\ ExtendedBy(bytes32, bytes32')

RegistrySpec == RegistryInit /\ [][RegistryNext]_registryVars
=============================================================================
