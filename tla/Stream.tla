------------------------------- MODULE Stream -------------------------------
(***************************************************************************)
(* What an IoT device promises: the readings it has buffered form one chain *)
(* that only grows, and the gateway receives that chain from its beginning, *)
(* in order, each reading once.                                            *)
(*                                                                         *)
(* Device implements it, whatever is lost, delayed or repeated on the way   *)
(* and wherever the device's process dies.                                 *)
(***************************************************************************)
EXTENDS Naturals, Sequences

CONSTANTS Events, SequenceOf, PreviousOf, ZeroHash

VARIABLES
  produced,      \* the readings the device is committed to, in order
  delivered      \* those the gateway has

Init ==
  /\ produced = << >>
  /\ delivered = << >>

Tip == IF produced = << >> THEN ZeroHash ELSE produced[Len(produced)]

Produce(e) ==
  /\ SequenceOf[e] = Len(produced) + 1
  /\ PreviousOf[e] = Tip
  /\ produced' = Append(produced, e)
  /\ UNCHANGED delivered

Deliver ==
  /\ Len(delivered) < Len(produced)
  /\ delivered' = Append(delivered, produced[Len(delivered) + 1])
  /\ UNCHANGED produced

Next == Deliver \/ \E e \in Events : Produce(e)

Spec == Init /\ [][Next]_<<produced, delivered>>
=============================================================================
