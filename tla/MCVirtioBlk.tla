----------------------------- MODULE MCVirtioBlk -----------------------------
(***************************************************************************)
(* A small instance of VirtioBlk: a disk of three sectors, the last of     *)
(* which cannot be transferred, and requests for one or two of them.       *)
(***************************************************************************)
EXTENDS VirtioBlk

CONSTANTS h1, h2, old, new

MCSectors == 0..2
MCBad == {2}
MCRequests ==
  {[type |-> "out", sector |-> 0, data |-> <<new>>],
   [type |-> "out", sector |-> 0, data |-> <<old, new>>],
   [type |-> "out", sector |-> 1, data |-> <<old, new>>],
   [type |-> "in", sector |-> 0, data |-> <<Nothing, Nothing>>],
   [type |-> "in", sector |-> 1, data |-> <<Nothing, Nothing>>],
   [type |-> "flush", sector |-> 0, data |-> <<>>]}
=============================================================================
