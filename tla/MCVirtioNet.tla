----------------------------- MODULE MCVirtioNet -----------------------------
(***************************************************************************)
(* A small instance of VirtioNet: a short and a long packet, a receive     *)
(* chain with room for each in two descriptors, one that must cut the long *)
(* one; a frame behind a header of its own, one that is too long.          *)
(***************************************************************************)
EXTENDS VirtioNet, TLC

CONSTANTS r1, r2, t1, short, long

MCRxHeads == {r1, r2}
MCTxHeads == {t1}
MCRxChains == r1 :> <<11, 1>> @@ r2 :> <<11>>
MCPackets == {[id |-> short, len |-> 1], [id |-> long, len |-> 2]}
MCFrames == {[id |-> short, len |-> 1, lens |-> <<10, 1>>],
             [id |-> long, len |-> 3, lens |-> <<11, 2>>]}
=============================================================================
