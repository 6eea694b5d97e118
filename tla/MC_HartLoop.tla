---------------------------- MODULE MC_HartLoop ----------------------------
(* Model-checking instance of HartLoop: the machine timer posted by the    *)
(* IRQ thread, the machine software interrupt (an IPI) posted by another   *)
(* hart's thread, and the illegal-instruction exception.                   *)
EXTENDS HartLoop

MCExceptions == {2}
MCInterrupts == {3, 7}
MCDeviceCause == 3
MCMaxPosts == 1
\* Both atomic.h variants: the ordered one and the no-atomics fallback.
MCBuilds == {TRUE, FALSE}
MCOrderedBuild == {TRUE}
MCBoot == 64
MCTvecBase == [p \in 0 .. 3 |-> 16 * p]
MCTvecModes == {0}

(* pc, epc and cause are data no guard of HartLoop reads: cause only feeds *)
(* the PC riscv32_trap_jump computes.                                      *)
ControlView == <<priv_mode, status, ie, ip, edeleg, ideleg, tvec, ev_trap, loopVars>>
=============================================================================
