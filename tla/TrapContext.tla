---------------------------- MODULE TrapContext ----------------------------
(***************************************************************************)
(* What the RISC-V privileged architecture promises of trap entry and     *)
(* xRET, abstracted from the mstatus encoding (spec 4.3): each of S and M *)
(* has an interrupt enable and one saved context, the mode and enable the *)
(* hart had when it last trapped into it.  A trap never lowers the mode;  *)
(* xRET from p returns to p's saved context and resets it to (U, on).     *)
(* Trap.tla is shown to implement this module.                             *)
(***************************************************************************)
EXTENDS Naturals

U == 0
S == 1
M == 3
Levels == {U, S, M}
Handlers == {S, M}

VARIABLES
  mode,     \* the current privilege mode
  enabled,  \* [Handlers -> BOOLEAN]: the global interrupt enable of each mode
  saved     \* [Handlers -> [mode, ie]]: the context the last trap into p left

ctxVars == <<mode, enabled, saved>>

Context == [mode : Levels, ie : BOOLEAN]

\* Reset: machine mode, interrupts off, both saved contexts cleared.
Init ==
  /\ mode = M
  /\ enabled = [p \in Handlers |-> FALSE]
  /\ saved = [p \in Handlers |-> [mode |-> U, ie |-> FALSE]]

(* A trap or interrupt into mode p, never below the current mode: p's      *)
(* handler context records where the hart came from, and p's interrupts    *)
(* are disabled.  A trap that stays in U has no context to save.           *)
Enter(p) ==
  /\ p >= mode
  /\ mode' = p
  /\ IF p \in Handlers
     THEN /\ saved' = [saved EXCEPT ![p] = [mode |-> mode, ie |-> enabled[p]]]
          /\ enabled' = [enabled EXCEPT ![p] = FALSE]
     ELSE UNCHANGED <<enabled, saved>>

\* xRET from p, legal in mode p or above: resume p's saved context.
Return(p) ==
  /\ mode >= p
  /\ mode' = saved[p].mode
  /\ enabled' = [enabled EXCEPT ![p] = saved[p].ie]
  /\ saved' = [saved EXCEPT ![p] = [mode |-> U, ie |-> TRUE]]

\* Software sets or clears p's enable from mode p or above.
SetEnable(p, b) ==
  /\ mode >= p
  /\ enabled' = [enabled EXCEPT ![p] = b]
  /\ UNCHANGED <<mode, saved>>

Next ==
  \/ \E p \in Levels : Enter(p)
  \/ \E p \in Handlers : Return(p)
  \/ \E p \in Handlers, b \in BOOLEAN : SetEnable(p, b)

Spec == Init /\ [][Next]_ctxVars
=============================================================================
