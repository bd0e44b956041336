------------------------------ MODULE Courier ------------------------------
(***************************************************************************)
(* What the decompressor promises whoever gives it calls to perform: they  *)
(* are made once each, in their order, with the data and to the address    *)
(* they were compressed from, all of them, and before any other call.      *)
(*                                                                         *)
(* The calls are the ones the sender asked for, whatever bytes the payload *)
(* was made of, and whatever became of the calls before.                   *)
(***************************************************************************)
EXTENDS Naturals, Sequences

CONSTANT Batches  (* the sequences of calls somebody may ask for *)

VARIABLES
    asked,     (* the calls being performed *)
    delivered  (* those of them that were made *)

courierVars == <<asked, delivered>>

CourierInit ==
    /\ asked = << >>
    /\ delivered = << >>

(* Somebody asks for some calls, once nothing is left to do. *)
Ask ==
    /\ delivered = asked
    /\ asked' \in Batches
    /\ delivered' = << >>

(* The next call is made. *)
Deliver ==
    /\ Len(delivered) < Len(asked)
    /\ delivered' = Append(delivered, asked[Len(delivered) + 1])
    /\ UNCHANGED asked

CourierNext == Ask \/ Deliver

EventuallyDelivered == (delivered # asked) ~> (delivered = asked)

CourierSpec == CourierInit /\ [][CourierNext]_courierVars /\ EventuallyDelivered
=============================================================================
