-------------------------------- MODULE Trap --------------------------------
(***************************************************************************)
(* The privilege and trap engine of one RVVM hart (src/src/riscv32.c):    *)
(* riscv32_trap, riscv32_perform_interrupt, riscv32_handle_ip and         *)
(* riscv32_trap_jump, with the guest operations that feed them (CSR       *)
(* writes, exceptions, xRET, WFI).  The CSR callbacks, xRET and WFI live  *)
(* in files that are not part of src/ and are modelled from spec.md       *)
(* sections 4.3 and 4.4.                                                  *)
(*                                                                         *)
(* Data abstraction: the bitmasks ie, ip, edeleg and ideleg are sets of    *)
(* cause codes; mstatus is a record of the fields the trap code reads and  *)
(* writes; addresses are small integers; tval is left out.                 *)
(***************************************************************************)
EXTENDS Integers, FiniteSets, FiniteSetsExt

CONSTANTS
  Exceptions,   \* exception cause codes guest instructions can raise
  Interrupts,   \* interrupt cause numbers a source can make pending
  Boot,         \* mem.begin: the PC a hart starts at
  TvecBase,     \* [Modes -> Nat]: the (4-aligned) handler base the guest installs per mode
  TvecModes     \* tvec modes the guest installs: 0 direct, 1 vectored

\* Privilege levels as numbered in riscv32.h (PRIVILEGE_USER .. PRIVILEGE_MACHINE).
U == 0
S == 1
H == 2
M == 3
Modes == 0 .. 3

\* Cause codes are 4-bit numbers; 0xFFFFFFFF in a delegation register is every code.
Codes == 0 .. 15

ASSUME Exceptions \subseteq Codes /\ Interrupts \subseteq 1 .. 11
ASSUME \A p \in Modes : TvecBase[p] % 4 = 0
ASSUME TvecModes \subseteq {0, 1}

VARIABLES
  priv_mode,   \* vm->priv_mode
  status,      \* vm->csr.status: xie[p] is bit p, spie bit 5, mpie bit 7, spp bit 8, mpp bits 11-12
  ie,          \* vm->csr.ie
  ip,          \* vm->csr.ip
  edeleg,      \* vm->csr.edeleg[4]
  ideleg,      \* vm->csr.ideleg[4]
  tvec,        \* vm->csr.tvec[4]
  epc,         \* vm->csr.epc[4]
  cause,       \* vm->csr.cause[4]
  pc,          \* vm->registers[REGISTER_PC]
  ev_trap      \* vm->ev_trap

trapVars == <<priv_mode, status, ie, ip, edeleg, ideleg, tvec, epc, cause, pc, ev_trap>>

\* A cause register value: the interrupt flag is INTERRUPT_MASK (bit 31).
Exc(c) == [interrupt |-> FALSE, code |-> c]
Irq(c) == [interrupt |-> TRUE, code |-> c]

Status == [xie : [Modes -> BOOLEAN], spie : BOOLEAN, mpie : BOOLEAN,
           spp : 0 .. 1, mpp : Modes]

TypeOK ==
  /\ priv_mode \in Modes
  /\ status \in Status
  /\ ie \subseteq Interrupts /\ ip \subseteq Interrupts
  /\ edeleg \in [Modes -> SUBSET Codes] /\ ideleg \in [Modes -> SUBSET Codes]
  /\ tvec \in [Modes -> Nat] /\ epc \in [Modes -> Nat] /\ pc \in Nat
  /\ cause \in [Modes -> [interrupt : BOOLEAN, code : Codes]]
  /\ ev_trap \in BOOLEAN

-----------------------------------------------------------------------------
(* riscv32_create_vm: calloc zeroes the state, then the hart starts in     *)
(* machine mode at mem.begin with the hypervisor delegation registers set  *)
(* to 0xFFFFFFFF so that no trap or interrupt ever stops in H mode.        *)
Init ==
  /\ priv_mode = M
  /\ status = [xie |-> [p \in Modes |-> FALSE], spie |-> FALSE, mpie |-> FALSE,
               spp |-> U, mpp |-> U]
  /\ ie = {} /\ ip = {}
  /\ edeleg = [p \in Modes |-> IF p = H THEN Codes ELSE {}]
  /\ ideleg = [p \in Modes |-> IF p = H THEN Codes ELSE {}]
  /\ tvec = [p \in Modes |-> 0] /\ epc = [p \in Modes |-> 0]
  /\ cause = [p \in Modes |-> Exc(0)]
  /\ pc = Boot
  /\ ev_trap = FALSE

-----------------------------------------------------------------------------
(* The delegation loop shared by riscv32_trap and riscv32_perform_interrupt:*)
(*   for (priv = MACHINE; priv > floor; --priv)                            *)
(*       if ((deleg[priv] & (1 << code)) == 0) break;                      *)
RECURSIVE DelegateFrom(_, _, _, _)
DelegateFrom(p, code, deleg, floor) ==
  IF p > floor /\ code \in deleg[p]
  THEN DelegateFrom(p - 1, code, deleg, floor) ELSE p

\* Target mode of a trap and of an interrupt (the floor is cause & 3).
TrapTargetIdeleg(c) == DelegateFrom(M, c, ideleg, priv_mode)
TrapTarget(c) == DelegateFrom(M, c, edeleg, priv_mode)
InterruptTarget(i) == DelegateFrom(M, i, ideleg, i % 4)

EnterModeClearFirst(p) ==
  /\ status' = CASE p = M -> [status EXCEPT !.mpp = priv_mode,
                                            !.mpie = FALSE,
                                            !.xie[M] = FALSE]
                 [] p = S -> [status EXCEPT !.spp = priv_mode % 2,
                                            !.spie = FALSE,
                                            !.xie[S] = FALSE]
                 [] OTHER -> status
  /\ priv_mode' = p

(* Save the current mode into xPP, xIE into xPIE, clear xIE and switch to  *)
(* the target mode.  A trap that stays in U mode saves nothing.            *)
EnterMode(p) ==
  /\ status' = CASE p = M -> [status EXCEPT !.mpp = priv_mode,
                                            !.mpie = status.xie[M],
                                            !.xie[M] = FALSE]
                 [] p = S -> [status EXCEPT !.spp = priv_mode % 2,
                                            !.spie = status.xie[S],
                                            !.xie[S] = FALSE]
                 [] OTHER -> status
  /\ priv_mode' = p

\* riscv32_trap(vm, c, tval): record the trap and raise ev_trap.
Trap(c) ==
  LET p == TrapTarget(c) IN
  /\ epc' = [epc EXCEPT ![p] = pc]
  /\ cause' = [cause EXCEPT ![p] = Exc(c)]
  /\ EnterMode(p)
  /\ ev_trap' = TRUE

\* riscv32_perform_interrupt(vm, i), entered with the PC to save in epc.
PerformInterrupt(i, savedPc) ==
  LET p == InterruptTarget(i) IN
  /\ epc' = [epc EXCEPT ![p] = savedPc]
  /\ cause' = [cause EXCEPT ![p] = Irq(i)]
  /\ EnterMode(p)

(* riscv32_handle_ip: interrupt i may be taken if it is pending, enabled,  *)
(* and its level (i & 3) is above the current mode, or equal to it with    *)
(* the global enable of that level set or while in WFI.                     *)
Fires(i, wfi) ==
  /\ i \in ip /\ i \in ie
  /\ \/ i % 4 > priv_mode
     \/ i % 4 = priv_mode /\ (status.xie[i % 4] \/ wfi)

\* The loop runs i = 11 down to 1 and takes the first interrupt that fires.
HandleIpChoice(wfi) == Max({i \in 1 .. 11 : Fires(i, wfi)})
HandleIpFires(wfi) == \E i \in 1 .. 11 : Fires(i, wfi)

\* riscv32_trap_jump: tvec & ~3, plus cause << 2 in vectored mode; the
\* shift is done on a uint32_t, so INTERRUPT_MASK is shifted out.
TrapJumpTarget(t, c) == (t - (t % 4)) + (IF t % 2 = 1 THEN 4 * c.code ELSE 0)

-----------------------------------------------------------------------------
(* Hart run loop, ev_trap branch (riscv32_run_impl): clear the flag and    *)
(* jump to the handler of the mode the trap entered.                       *)
TrapJump ==
  /\ ev_trap
  /\ ev_trap' = FALSE
  /\ pc' = TrapJumpTarget(tvec[priv_mode], cause[priv_mode])
  /\ UNCHANGED <<priv_mode, status, ie, ip, edeleg, ideleg, tvec, epc, cause>>

(* Hart run loop, ev_int branch, after the pending mask is merged:         *)
(* riscv32_handle_ip(vm, false) and, if an interrupt fired, the jump.      *)
TakeInterrupt ==
  /\ ~ev_trap
  /\ HandleIpFires(FALSE)
  /\ LET i == HandleIpChoice(FALSE) IN
     /\ PerformInterrupt(i, pc)
     /\ pc' = TrapJumpTarget(tvec[InterruptTarget(i)], Irq(i))
  /\ UNCHANGED <<ie, ip, edeleg, ideleg, tvec, ev_trap>>

(* WFI (spec 4.4): riscv32_handle_ip(vm, true) delivers an interrupt even  *)
(* with the global enable clear; the PC is first advanced past the WFI and *)
(* ev_trap is raised so that the run loop jumps to the handler.            *)
WfiInterrupted ==
  /\ ~ev_trap
  /\ HandleIpFires(TRUE)
  /\ PerformInterrupt(HandleIpChoice(TRUE), pc + 4)
  /\ pc' = pc + 4
  /\ ev_trap' = TRUE
  /\ UNCHANGED <<ie, ip, edeleg, ideleg, tvec>>

(* A guest instruction raises exception c: riscv32_illegal_insn and        *)
(* riscv32c_illegal_insn call riscv32_trap(vm, TRAP_ILL_INSTR, insn); the  *)
(* other causes (ECALL, faults) take the same call from outside src/.      *)
Exception(c) ==
  /\ ~ev_trap
  /\ Trap(c)
  /\ UNCHANGED <<ie, ip, edeleg, ideleg, tvec, pc>>

(* MRET / SRET (spec 4.3): xIE <- xPIE, mode <- xPP, xPIE <- 1, xPP <- U,   *)
(* PC <- epc[x].  Executed only in a mode at least x; otherwise the        *)
(* instruction is illegal and is an Exception.                             *)
Mret ==
  /\ ~ev_trap /\ priv_mode = M
  /\ status' = [status EXCEPT !.xie[M] = status.mpie, !.mpie = TRUE, !.mpp = U]
  /\ priv_mode' = status.mpp
  /\ pc' = epc[M]
  /\ UNCHANGED <<ie, ip, edeleg, ideleg, tvec, epc, cause, ev_trap>>

Sret ==
  /\ ~ev_trap /\ priv_mode >= S
  /\ status' = [status EXCEPT !.xie[S] = status.spie, !.spie = TRUE, !.spp = U]
  /\ priv_mode' = status.spp
  /\ pc' = epc[S]
  /\ UNCHANGED <<ie, ip, edeleg, ideleg, tvec, epc, cause, ev_trap>>

-----------------------------------------------------------------------------
(* Guest CSR writes through the CSR file (spec 4.3); a CSR of a mode above *)
(* the current one is an illegal instruction, so each needs that mode.     *)
WriteMedeleg ==
  /\ ~ev_trap /\ priv_mode = M
  /\ \E d \in SUBSET Exceptions : edeleg' = [edeleg EXCEPT ![M] = d]
  /\ UNCHANGED <<priv_mode, status, ie, ip, ideleg, tvec, epc, cause, pc, ev_trap>>

WriteMideleg ==
  /\ ~ev_trap /\ priv_mode = M
  /\ \E d \in SUBSET Interrupts : ideleg' = [ideleg EXCEPT ![M] = d]
  /\ UNCHANGED <<priv_mode, status, ie, ip, edeleg, tvec, epc, cause, pc, ev_trap>>

WriteIe ==
  /\ ~ev_trap /\ priv_mode = M
  /\ ie' \in SUBSET Interrupts
  /\ UNCHANGED <<priv_mode, status, ip, edeleg, ideleg, tvec, epc, cause, pc, ev_trap>>

\* csrs/csrc of mstatus.MIE or sstatus.SIE.
WriteXie(p, b) ==
  /\ ~ev_trap /\ priv_mode >= p
  /\ status' = [status EXCEPT !.xie[p] = b]
  /\ UNCHANGED <<priv_mode, ie, ip, edeleg, ideleg, tvec, epc, cause, pc, ev_trap>>

\* mtvec / stvec: the handler base, direct (0) or vectored (1) mode.
WriteTvec(p, mode) ==
  /\ ~ev_trap /\ priv_mode >= p
  /\ tvec' = [tvec EXCEPT ![p] = TvecBase[p] + mode]
  /\ UNCHANGED <<priv_mode, status, ie, ip, edeleg, ideleg, epc, cause, pc, ev_trap>>

\* An interrupt source asserts pending bit i (timer, IPI, PLIC).
RaisePending(i) ==
  /\ ip' = ip \cup {i}
  /\ UNCHANGED <<priv_mode, status, ie, edeleg, ideleg, tvec, epc, cause, pc, ev_trap>>

\* The guest retracts pending bit i (mip write, device acknowledge).
ClearPending(i) ==
  /\ ~ev_trap /\ priv_mode = M
  /\ ip' = ip \ {i}
  /\ UNCHANGED <<priv_mode, status, ie, edeleg, ideleg, tvec, epc, cause, pc, ev_trap>>

Next ==
  \/ TrapJump
  \/ TakeInterrupt
  \/ WfiInterrupted
  \/ \E c \in Exceptions : Exception(c)
  \/ Mret
  \/ Sret
  \/ WriteMedeleg
  \/ WriteMideleg
  \/ WriteIe
  \/ \E p \in {S, M}, b \in BOOLEAN : WriteXie(p, b)
  \/ \E p \in {S, M}, mode \in TvecModes : WriteTvec(p, mode)
  \/ \E i \in Interrupts : RaisePending(i)
  \/ \E i \in Interrupts : ClearPending(i)

Spec == Init /\ [][Next]_trapVars

-----------------------------------------------------------------------------
(* Reference for delegation (spec 4.3, section 8 item 5): the target is    *)
(* the lowest architectural mode U, S or M, not below the floor, such that *)
(* every architectural mode above it delegates the code.                  *)
RefTarget(code, deleg, floor) ==
  Min({p \in {U, S, M} : p >= floor /\ \A q \in {S, M} : q > p => code \in deleg[q]})

(* The trap context the hart's registers encode: mstatus.xIE, and the      *)
(* saved mode and enable of S (SPP, SPIE) and M (MPP, MPIE).              *)
TC == INSTANCE TrapContext WITH
        mode <- priv_mode,
        enabled <- [p \in {S, M} |-> status.xie[p]],
        saved <- [p \in {S, M} |->
                    IF p = M THEN [mode |-> status.mpp, ie |-> status.mpie]
                    ELSE [mode |-> status.spp, ie |-> status.spie]]

(* Trap entry and xRET keep the architectural trap context: every trap     *)
(* and interrupt that riscv32_trap and riscv32_perform_interrupt take      *)
(* saves the interrupted mode and the target's enable before clearing it, *)
(* so that across any interleaving of exceptions, interrupts, WFI wake-ups,*)
(* enable writes and nested traps into S then M, MRET and SRET resume the *)
(* mode and enable the hart had when it trapped.  The abstract modes are  *)
(* U, S and M, so the hart never enters, nor saves, the reserved H mode.  *)
ImplementsTrapContext == TC!Spec

(* Every exception and every interrupt enters the mode the RISC-V          *)
(* delegation rule names (riscv32_trap and riscv32_perform_interrupt      *)
(* against RefTarget): an exception is never handled below the current    *)
(* mode, an interrupt never below its own level nor the current mode.     *)
DelegationRule ==
  [][ /\ \A c \in Exceptions : Exception(c) => priv_mode' = RefTarget(c, edeleg, priv_mode)
      /\ (TakeInterrupt \/ WfiInterrupted) =>
            \E i \in Interrupts :
               /\ cause'[priv_mode'] = Irq(i)
               /\ priv_mode' = RefTarget(i, ideleg, i % 4)
               /\ priv_mode' >= priv_mode
    ]_trapVars

(* When riscv32_handle_ip takes an interrupt, no other pending interrupt   *)
(* that could be taken targets a more privileged mode ("prioritizing       *)
(* higher priv source", riscv32.c:308).                                   *)
InterruptPriority ==
  [][ TakeInterrupt =>
        \A j \in Interrupts :
          Fires(j, FALSE) => InterruptTarget(j) <= priv_mode' ]_trapVars

(* After the run loop jumps to a handler in vectored mode, the PC is the   *)
(* base for an exception and base + 4 * code for an interrupt (spec 4.3,   *)
(* trap-vector jump).                                                     *)
TrapVectorTarget ==
  [][ TrapJump =>
        pc' = (tvec[priv_mode] - (tvec[priv_mode] % 4))
              + (IF tvec[priv_mode] % 2 = 1 /\ cause[priv_mode].interrupt
                 THEN 4 * cause[priv_mode].code ELSE 0) ]_trapVars
=============================================================================
