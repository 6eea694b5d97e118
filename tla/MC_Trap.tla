------------------------------ MODULE MC_Trap ------------------------------
(* Model-checking instance of Trap: one exception code that can be         *)
(* delegated (illegal instruction), the machine timer and the supervisor   *)
(* external interrupt, whose levels (M and S) differ so that priority and  *)
(* delegation both matter.                                                 *)
EXTENDS Trap

MCExceptions == {2}
MCInterrupts == {7, 9}
MCBoot == 64
MCTvecBase == [p \in Modes |-> 16 * p]
MCTvecDirect == {0}
MCTvecBoth == {0, 1}

(* No guard reads pc or epc: they are data that only flow into each other. *)
(* States that differ only in them have the same futures, so the runs that *)
(* do not state properties of the PC identify them.                        *)
ControlView == <<priv_mode, status, ie, ip, edeleg, ideleg, tvec, cause, ev_trap>>
=============================================================================
