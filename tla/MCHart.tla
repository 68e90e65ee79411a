------------------------------- MODULE MCHart -------------------------------
(***************************************************************************)
(* A small instance of Hart: the machine's timer, which stays in M-mode,   *)
(* and the supervisor's external interrupt, which software delegates.      *)
(***************************************************************************)
EXTENDS Hart

Off == [sie |-> FALSE, spie |-> FALSE, spp |-> 0,
        mie |-> FALSE, mpie |-> FALSE, mpp |-> 0, tsr |-> FALSE]

MCLineIrqs == {IRQ_S_EXT}
MCMieValues == {{IRQ_M_TIMER, IRQ_S_EXT}}
MCMidelegValues == {{IRQ_S_EXT}}
MCMipValues == {{}}
MCMedelegValues == {{8}}
MCCauses == {8}
\* M-mode's interrupts on after the return, to S-mode; those of S-mode on after
\* two returns of its own.
MCMstatusValues == {[Off EXCEPT !.mpp = 1, !.mpie = TRUE]}
=============================================================================
