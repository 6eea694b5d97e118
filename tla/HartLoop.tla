------------------------------ MODULE HartLoop ------------------------------
(***************************************************************************)
(* One hart thread (riscv32_run_impl) with the threads that post           *)
(* interrupts to it: the global IRQ thread (global_irq_handler), which    *)
(* posts the machine timer every tick, and another thread calling          *)
(* riscv32_interrupt (a hart writing this hart's CLINT msip, or a PLIC     *)
(* source).  They share wait_event, ev_int and ev_int_mask; only          *)
(* wait_event is atomic, so `ev_int_mask |= bit` is a separate load and    *)
(* store.  The hart's privilege state and trap engine are the Trap module. *)
(***************************************************************************)
EXTENDS Integers, FiniteSets

CONSTANTS
  Exceptions, Interrupts, Boot, TvecBase, TvecModes,
  DeviceCause,  \* the cause the other thread posts with riscv32_interrupt
  MaxPosts,     \* bound on the riscv32_interrupt calls of that thread
  Builds        \* the atomic.h variants built: TRUE ordered, FALSE fallback

VARIABLES
  priv_mode, status, ie, ip, edeleg, ideleg, tvec, epc, cause, pc, ev_trap,
  wait_event,    \* vm->wait_event (atomic_int)
  ev_int,        \* vm->ev_int (plain bool)
  ev_int_mask,   \* vm->ev_int_mask (plain uint32_t)
  hart,          \* where the hart thread is in riscv32_run_impl
  irq,           \* where the IRQ thread is in global_irq_handler
  irq_tmp,       \* the value of ev_int_mask the IRQ thread loaded
  dev,           \* where the other thread is in riscv32_interrupt
  dev_tmp,       \* the value of ev_int_mask that thread loaded
  dev_posts,     \* how many riscv32_interrupt calls that thread has begun
  timer_pending, \* rvtimer_pending(&vm->timer): mtime >= mtimecmp
  unmerged,      \* auxiliary: causes posted to ev_int_mask since the hart last merged it
  release        \* the build orders atomic_store_explicit (fixed for a behaviour)

T == INSTANCE Trap

MTIMER == 7   \* INTERRUPT_MTIMER

ASSUME MTIMER \in Interrupts /\ DeviceCause \in Interrupts \ {MTIMER}
ASSUME Builds \subseteq BOOLEAN /\ Builds # {}

trapVars == <<priv_mode, status, ie, ip, edeleg, ideleg, tvec, epc, cause, pc, ev_trap>>
loopVars == <<wait_event, ev_int, ev_int_mask, hart, irq, irq_tmp, dev, dev_tmp,
              dev_posts, timer_pending, unmerged, release>>
vars == <<trapVars, loopVars>>

HartPcs == {"top", "run", "wfi", "check", "merge", "clear"}
IrqPcs == {"sleep", "write", "flag", "wake", "late"}
DevPcs == {"idle", "write", "flag", "wake", "late"}

TypeOK ==
  /\ T!TypeOK
  /\ wait_event \in {0, 1} /\ ev_int \in BOOLEAN
  /\ ev_int_mask \subseteq Interrupts /\ irq_tmp \subseteq Interrupts
  /\ dev_tmp \subseteq Interrupts /\ unmerged \subseteq Interrupts
  /\ hart \in HartPcs /\ irq \in IrqPcs /\ dev \in DevPcs
  /\ dev_posts \in 0 .. MaxPosts /\ timer_pending \in BOOLEAN
  /\ release \in BOOLEAN

Init ==
  /\ T!Init
  /\ wait_event = 0 /\ ev_int = FALSE /\ ev_int_mask = {}
  /\ hart = "top" /\ irq = "sleep" /\ irq_tmp = {}
  /\ dev = "idle" /\ dev_tmp = {} /\ dev_posts = 0
  /\ timer_pending = FALSE /\ unmerged = {}
  /\ release \in Builds

-----------------------------------------------------------------------------
(* riscv32_run_impl                                                         *)

\* atomic_store_explicit(&vm->wait_event, 1, memory_order_release)
ArmWaitEvent ==
  /\ hart = "top"
  /\ wait_event' = 1 /\ hart' = "run"
  /\ UNCHANGED <<trapVars, ev_int, ev_int_mask, irq, irq_tmp, dev, dev_tmp, dev_posts, timer_pending, unmerged>>

(* riscv32_run_till_event executes guest instructions while wait_event is  *)
(* 1 (spec 4.4); a trap stores 0 to it, so nothing runs after the trap.    *)
Running == hart = "run" /\ wait_event = 1

GuestUnchanged == UNCHANGED <<ev_int, ev_int_mask, hart, irq, irq_tmp, dev, dev_tmp, dev_posts, timer_pending>>

GuestException(c) ==
  /\ Running /\ T!Exception(c)
  /\ wait_event' = 0
  /\ GuestUnchanged /\ UNCHANGED unmerged

GuestMret ==
  /\ Running /\ T!Mret
  /\ UNCHANGED wait_event /\ GuestUnchanged /\ UNCHANGED unmerged

GuestWriteIe ==
  /\ Running /\ T!WriteIe
  /\ UNCHANGED wait_event /\ GuestUnchanged /\ UNCHANGED unmerged

GuestWriteMie(b) ==
  /\ Running /\ T!WriteXie(T!M, b)
  /\ UNCHANGED wait_event /\ GuestUnchanged /\ UNCHANGED unmerged

(* The guest retracts a pending bit it owns (mip write, or the CLINT/PLIC  *)
(* acknowledge); the machine timer bit is instead reconciled by the loop.  *)
GuestClearPending(i) ==
  /\ Running /\ i # MTIMER /\ T!ClearPending(i)
  /\ UNCHANGED <<wait_event, unmerged>> /\ GuestUnchanged

\* The guest writes mtimecmp through the CLINT, moving the deadline ahead.
GuestRearmTimer ==
  /\ Running /\ priv_mode = T!M
  /\ timer_pending' = FALSE
  /\ UNCHANGED <<trapVars, wait_event, ev_int, ev_int_mask, hart, irq, irq_tmp, dev, dev_tmp, dev_posts, unmerged>>

\* WFI with an interrupt to take: riscv32_handle_ip(vm, true) fires.
GuestWfiInterrupted ==
  /\ Running /\ T!WfiInterrupted
  /\ wait_event' = 0
  /\ GuestUnchanged /\ UNCHANGED unmerged

\* WFI with nothing to take: the hart parks until wait_event becomes 0.
GuestWfiPark ==
  /\ Running /\ ~T!HandleIpFires(TRUE)
  /\ hart' = "wfi"
  /\ UNCHANGED <<trapVars, wait_event, ev_int, ev_int_mask, irq, irq_tmp, dev, dev_tmp, dev_posts, timer_pending, unmerged>>

\* riscv32_run_till_event returns once wait_event is observed 0.
LeaveRun ==
  /\ hart \in {"run", "wfi"} /\ wait_event = 0
  /\ hart' = "check"
  /\ UNCHANGED <<trapVars, wait_event, ev_int, ev_int_mask, irq, irq_tmp, dev, dev_tmp, dev_posts, timer_pending, unmerged>>

\* if (vm->ev_trap) { vm->ev_trap = false; riscv32_trap_jump(vm); }
CheckTrap ==
  /\ hart = "check" /\ ev_trap
  /\ T!TrapJump
  /\ hart' = "top"
  /\ UNCHANGED <<wait_event, ev_int, ev_int_mask, irq, irq_tmp, dev, dev_tmp, dev_posts, timer_pending, unmerged>>

\* else if (vm->ev_int) ...; with neither flag set the loop starts over.
CheckInt ==
  /\ hart = "check" /\ ~ev_trap
  /\ hart' = IF ev_int THEN "merge" ELSE "top"
  /\ UNCHANGED <<trapVars, wait_event, ev_int, ev_int_mask, irq, irq_tmp, dev, dev_tmp, dev_posts, timer_pending, unmerged>>

MergeMaskInverted ==
  /\ hart = "merge"
  /\ ip' = IF timer_pending THEN (ip \cup ev_int_mask) \ {MTIMER}
                           ELSE ip \cup ev_int_mask
  /\ hart' = "clear"
  /\ UNCHANGED <<priv_mode, status, ie, edeleg, ideleg, tvec, epc, cause, pc, ev_trap>>
  /\ unmerged' = unmerged \ ev_int_mask
  /\ UNCHANGED <<wait_event, ev_int, ev_int_mask, irq, irq_tmp, dev, dev_tmp, dev_posts, timer_pending>>

(* vm->csr.ip |= vm->ev_int_mask, then drop the machine timer bit if the   *)
(* timer is no longer pending.                                             *)
MergeMask ==
  /\ hart = "merge"
  /\ ip' = IF timer_pending THEN ip \cup ev_int_mask
                           ELSE (ip \cup ev_int_mask) \ {MTIMER}
  /\ hart' = "clear"
  /\ UNCHANGED <<priv_mode, status, ie, edeleg, ideleg, tvec, epc, cause, pc, ev_trap>>
  /\ unmerged' = unmerged \ ev_int_mask
  /\ UNCHANGED <<wait_event, ev_int, ev_int_mask, irq, irq_tmp, dev, dev_tmp, dev_posts, timer_pending>>

(* vm->ev_int = false; then riscv32_handle_ip(vm, false) and, if it fired, *)
(* riscv32_trap_jump; riscv32_perform_interrupt stores 0 to wait_event.    *)
ClearAndHandle ==
  /\ hart = "clear"
  /\ ev_int' = FALSE
  /\ hart' = "top"
  /\ \/ /\ T!TakeInterrupt
        /\ wait_event' = 0
     \/ /\ ~T!HandleIpFires(FALSE)
        /\ UNCHANGED <<trapVars, wait_event>>
  /\ UNCHANGED <<ev_int_mask, irq, irq_tmp, dev, dev_tmp, dev_posts, timer_pending, unmerged>>

-----------------------------------------------------------------------------
(* global_irq_handler, for the one registered hart: after sleep_ms(10),    *)
(* ev_int_mask |= 1 << INTERRUPT_MTIMER as a load and a store, then        *)
(* ev_int = true, then the release store of 0 to wait_event.               *)
IrqLoad ==
  /\ irq = "sleep"
  /\ irq_tmp' = ev_int_mask /\ irq' = "write"
  /\ UNCHANGED <<trapVars, wait_event, ev_int, ev_int_mask, hart, dev, dev_tmp, dev_posts, timer_pending, unmerged>>

IrqStore ==
  /\ irq = "write"
  /\ ev_int_mask' = irq_tmp \cup {MTIMER} /\ irq_tmp' = {}
  /\ unmerged' = unmerged \cup {MTIMER}
  /\ irq' = "flag"
  /\ UNCHANGED <<trapVars, wait_event, ev_int, hart, dev, dev_tmp, dev_posts, timer_pending>>

IrqFlag ==
  /\ irq = "flag"
  /\ ev_int' = TRUE /\ irq' = "wake"
  /\ UNCHANGED <<trapVars, wait_event, ev_int_mask, hart, irq_tmp, dev, dev_tmp, dev_posts, timer_pending, unmerged>>

IrqWake ==
  /\ irq = "wake"
  /\ wait_event' = 0 /\ irq' = "sleep"
  /\ UNCHANGED <<trapVars, ev_int, ev_int_mask, hart, irq_tmp, dev, dev_tmp, dev_posts, timer_pending, unmerged>>

(* In the fallback build (atomic.h without C11 atomics or __GNUC__),        *)
(* atomic_store_explicit is a plain store and atomic_thread_fence is empty: *)
(* compiler and CPU may make wait_event = 0 visible before ev_int = true.  *)
IrqWakeEarly ==
  /\ irq = "flag" /\ ~release
  /\ wait_event' = 0 /\ irq' = "late"
  /\ UNCHANGED <<trapVars, ev_int, ev_int_mask, hart, irq_tmp, dev, dev_tmp, dev_posts, timer_pending, unmerged>>

IrqFlagLate ==
  /\ irq = "late"
  /\ ev_int' = TRUE /\ irq' = "sleep"
  /\ UNCHANGED <<trapVars, wait_event, ev_int_mask, hart, irq_tmp, dev, dev_tmp, dev_posts, timer_pending, unmerged>>

-----------------------------------------------------------------------------
(* riscv32_interrupt(vm, DeviceCause) called from another thread: the same *)
(* load/store of ev_int_mask, ev_int = true, release store of wait_event.  *)
DevLoad ==
  /\ dev = "idle" /\ dev_posts < MaxPosts
  /\ dev_tmp' = ev_int_mask /\ dev' = "write" /\ dev_posts' = dev_posts + 1
  /\ UNCHANGED <<trapVars, wait_event, ev_int, ev_int_mask, hart, irq, irq_tmp, timer_pending, unmerged>>

DevStore ==
  /\ dev = "write"
  /\ ev_int_mask' = dev_tmp \cup {DeviceCause} /\ dev_tmp' = {}
  /\ unmerged' = unmerged \cup {DeviceCause}
  /\ dev' = "flag"
  /\ UNCHANGED <<trapVars, wait_event, ev_int, hart, irq, irq_tmp, dev_posts, timer_pending>>

DevFlag ==
  /\ dev = "flag"
  /\ ev_int' = TRUE /\ dev' = "wake"
  /\ UNCHANGED <<trapVars, wait_event, ev_int_mask, hart, irq, irq_tmp, dev_tmp, dev_posts, timer_pending, unmerged>>

DevWake ==
  /\ dev = "wake"
  /\ wait_event' = 0 /\ dev' = "idle"
  /\ UNCHANGED <<trapVars, ev_int, ev_int_mask, hart, irq, irq_tmp, dev_tmp, dev_posts, timer_pending, unmerged>>

\* The same reordering in the fallback build.
DevWakeEarly ==
  /\ dev = "flag" /\ ~release
  /\ wait_event' = 0 /\ dev' = "late"
  /\ UNCHANGED <<trapVars, ev_int, ev_int_mask, hart, irq, irq_tmp, dev_tmp, dev_posts, timer_pending, unmerged>>

DevFlagLate ==
  /\ dev = "late"
  /\ ev_int' = TRUE /\ dev' = "idle"
  /\ UNCHANGED <<trapVars, wait_event, ev_int_mask, hart, irq, irq_tmp, dev_tmp, dev_posts, timer_pending, unmerged>>

\* Time passes the deadline in mtimecmp.
TimerExpire ==
  /\ ~timer_pending
  /\ timer_pending' = TRUE
  /\ UNCHANGED <<trapVars, wait_event, ev_int, ev_int_mask, hart, irq, irq_tmp, dev, dev_tmp, dev_posts, unmerged>>

-----------------------------------------------------------------------------
Guest ==
  \/ \E c \in Exceptions : GuestException(c)
  \/ GuestMret
  \/ GuestWriteIe
  \/ \E b \in BOOLEAN : GuestWriteMie(b)
  \/ \E i \in Interrupts : GuestClearPending(i)
  \/ GuestRearmTimer
  \/ GuestWfiInterrupted
  \/ GuestWfiPark

HartThread == ArmWaitEvent \/ LeaveRun \/ CheckTrap \/ CheckInt \/ MergeMask \/ ClearAndHandle
IrqThread == IrqLoad \/ IrqStore \/ IrqFlag \/ IrqWake \/ IrqWakeEarly \/ IrqFlagLate
DevPost == DevStore \/ DevFlag \/ DevWake \/ DevWakeEarly \/ DevFlagLate

\* The build is fixed for a behaviour: no step changes release.
Next ==
  /\ Guest \/ HartThread \/ IrqThread \/ DevLoad \/ DevPost \/ TimerExpire
  /\ UNCHANGED release

(* The host scheduler runs every thread: the hart loop and the IRQ thread  *)
(* make progress, and a riscv32_interrupt call that has begun completes.   *)
(* The guest, the timer and the start of a post are not forced.            *)
Fairness == /\ WF_vars(HartThread /\ UNCHANGED release)
            /\ WF_vars(IrqThread /\ UNCHANGED release)
            /\ WF_vars(DevPost /\ UNCHANGED release)

Spec == Init /\ [][Next]_vars /\ Fairness

-----------------------------------------------------------------------------
(* A pending machine timer preempts a hart running in S or U mode with     *)
(* MTIE set: the IRQ thread's tick, the run loop's merge and timer        *)
(* reconciliation and riscv32_handle_ip bring the hart into M mode         *)
(* (spec section 8, end-to-end scenario 6).                                *)
TimerPreemptsLowerModes ==
  (timer_pending /\ MTIMER \in ie /\ priv_mode # T!M) ~> priv_mode = T!M

(* ev_int_mask is only OR-accumulated (spec 5): a cause stored in it by   *)
(* global_irq_handler or riscv32_interrupt stays there, so a lost ev_int   *)
(* or wake-up only delays the interrupt.                                   *)
MaskOnlyAccumulates == [][ev_int_mask \subseteq ev_int_mask']_vars

(* A pending bit the guest retracted comes back only with a new post: a    *)
(* merge sets csr.ip bit c only if c was posted since the previous merge   *)
(* (spec 3: ip bits are set only by external sources and cleared by the    *)
(* guest).  The machine timer is exempt: it is reconciled with the timer.  *)
NoStalePending ==
  [][\A c \in Interrupts \ {MTIMER} : (c \notin ip /\ c \in ip') => c \in unmerged]_vars
=============================================================================
