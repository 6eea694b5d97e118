------------------------------- MODULE Registry -------------------------------
(***************************************************************************)
(* The hart registry and VM lifecycle of src/src/riscv32.c:                *)
(* riscv32_create_vm, register_vm, deregister_vm, riscv32_destroy_vm and   *)
(* the broadcast loop of global_irq_handler.                               *)
(*                                                                         *)
(* A control thread creates and destroys harts one call at a time (spec    *)
(* 3: created, registered, run, destroyed after deregistration); the IRQ   *)
(* thread broadcasts the timer tick concurrently.  Every section the code  *)
(* runs under global_lock is one action.  riscv32_destroy_vm is split at   *)
(* its unlock: deregister_vm, then the unlocked teardown.                  *)
(*                                                                         *)
(* Data abstraction: a VM is the address calloc returned (a model value,   *)
(* reused once freed); the physical RAM block is one object; an MMIO       *)
(* region is its base (a CLINT by hart id, or the devices of devices_init) *)
(* and its cookie, kept in registration order.                             *)
(***************************************************************************)
EXTENDS Integers, Sequences, SequencesExt, FiniteSets

CONSTANTS
  NumSlots,  \* MAX_VMS: the size of global_vm_list
  VMs,       \* addresses calloc can return for a riscv32_vm_state_t
  NULL,      \* the null pointer
  MaxRegs    \* bound on register_vm calls (global_vm_count only grows)

ASSUME NumSlots \in Nat \ {0} /\ NULL \notin VMs /\ MaxRegs \in Nat

HartIds == 0 .. NumSlots - 1

\* The regions devices_init installs (UART, PLIC, PS/2, framebuffer), below the CLINTs.
DevRegion == [base |-> -1, cookie |-> "devices"]
\* The CLINT of hart h: CLINT_BASE_ADDR + CLINT_LEN * h, cookie vm.
Clint(h, v) == [base |-> h, cookie |-> v]
Regions == {DevRegion} \cup {Clint(h, v) : h \in HartIds, v \in VMs}

VARIABLES
  vm_list,     \* global_vm_list[MAX_VMS]
  vm_count,    \* global_vm_count
  global_init, \* static bool global_init in riscv32_create_vm
  irq_thread,  \* global_irq_thread: "none", "running" or "killed"
  alive,       \* VMs allocated and not freed
  dying,       \* VMs deregistered by riscv32_destroy_vm, not yet freed
  hartid,      \* vm->csr.hartid
  mmio,        \* vm->mmio: the region table, in registration order
  has_ram,     \* vm->mem refers to the shared RAM block
  ram,         \* the RAM block: "none", "alive" or "freed"
  last_tick,   \* the VMs the last broadcast queued the timer interrupt to
  crashed      \* the process died on a NULL dereference

vars == <<vm_list, vm_count, global_init, irq_thread, alive, dying, hartid,
          mmio, has_ram, ram, last_tick, crashed>>

TypeOK ==
  /\ vm_list \in [HartIds -> VMs \cup {NULL}]
  /\ vm_count \in 0 .. MaxRegs
  /\ global_init \in BOOLEAN /\ crashed \in BOOLEAN
  /\ irq_thread \in {"none", "running", "killed"}
  /\ alive \subseteq VMs /\ dying \subseteq alive /\ last_tick \subseteq VMs
  /\ hartid \in [VMs -> HartIds]
  /\ mmio \in [VMs -> Seq(Regions)]
  /\ has_ram \in [VMs -> BOOLEAN]
  /\ ram \in {"none", "alive", "freed"}

Init ==
  /\ vm_list = [h \in HartIds |-> NULL]
  /\ vm_count = 0 /\ global_init = FALSE /\ irq_thread = "none"
  /\ alive = {} /\ dying = {}
  /\ hartid = [v \in VMs |-> 0]
  /\ mmio = [v \in VMs |-> <<>>]
  /\ has_ram = [v \in VMs |-> FALSE]
  /\ ram = "none" /\ last_tick = {} /\ crashed = FALSE

Registered == {vm_list[h] : h \in {g \in HartIds : vm_list[g] # NULL}}

-----------------------------------------------------------------------------
(* The loop of global_irq_handler: slots i = 0 .. MAX_VMS-1, skipping      *)
(* NULL; each VM gets the tick, then the loop stops once it has served     *)
(* global_vm_count VMs.  The result is the set of VMs served.              *)
RECURSIVE DeliverBreakFirst(_, _)
DeliverBreakFirst(i, served) ==
  IF i >= NumSlots THEN {}
  ELSE IF vm_list[i] = NULL THEN DeliverBreakFirst(i + 1, served)
  ELSE IF served + 1 = vm_count THEN {}
  ELSE {vm_list[i]} \cup DeliverBreakFirst(i + 1, served + 1)

RECURSIVE Deliver(_, _)
Deliver(i, served) ==
  IF i >= NumSlots THEN {}
  ELSE IF vm_list[i] = NULL THEN Deliver(i + 1, served)
  ELSE {vm_list[i]} \cup (IF served + 1 = vm_count THEN {}
                          ELSE Deliver(i + 1, served + 1))

\* One pass of global_irq_handler under global_lock, after sleep_ms(10).
IrqBroadcast ==
  /\ irq_thread = "running" /\ ~crashed
  /\ last_tick' = Deliver(0, 0)
  /\ UNCHANGED <<vm_list, vm_count, global_init, irq_thread, alive, dying,
                 hartid, mmio, has_ram, ram, crashed>>

-----------------------------------------------------------------------------
(* thread_create: a new OS thread runs the function (a failed malloc or    *)
(* pthread_create is not modelled); thread_kill cancels it and frees the   *)
(* handle.                                                                 *)
ThreadCreate == "running"
ThreadKill == "killed"

(* register_vm(vm, hartid) under global_lock: the slot, the hart's         *)
(* csr.hartid and global_vm_count++ (no check that the slot is free).      *)
Register(v, h) ==
  /\ vm_list' = [vm_list EXCEPT ![h] = v]
  /\ hartid' = [hartid EXCEPT ![v] = h]
  /\ vm_count' = vm_count + 1

(* The caller creates hart h into a fresh allocation v, one call at a time *)
(* and only on a free slot (spec 3: deregistration precedes reuse).        *)
CanCreate(h, v) ==
  /\ ~crashed /\ dying = {}
  /\ vm_list[h] = NULL /\ v \notin alive
  /\ vm_count < MaxRegs

(* riscv32_create_vm, first call: the global_init branch runs              *)
(* devices_init (RAM and the device regions), starts the IRQ thread, then  *)
(* the hart's own CLINT, machine mode, and register_vm.                    *)
CreateFirst(h, v) ==
  /\ CanCreate(h, v) /\ ~global_init
  /\ global_init' = TRUE /\ irq_thread' = ThreadCreate
  /\ ram' = "alive" /\ has_ram' = [has_ram EXCEPT ![v] = TRUE]
  /\ mmio' = [mmio EXCEPT ![v] = <<DevRegion, Clint(h, v)>>]
  /\ alive' = alive \cup {v}
  /\ Register(v, h)
  /\ UNCHANGED <<dying, last_tick, crashed>>

(* riscv32_create_vm, later calls: under global_lock copy mem and mmio of  *)
(* the first registered VM, add the new CLINT to every registered VM; then *)
(* add it to the new VM and register_vm.                                   *)
CreateCopy(h, v) ==
  /\ CanCreate(h, v) /\ global_init /\ Registered # {}
  /\ LET parent == vm_list[CHOOSE g \in HartIds :
                            vm_list[g] # NULL /\ \A f \in 0 .. g - 1 : vm_list[f] = NULL]
     IN /\ has_ram' = [has_ram EXCEPT ![v] = has_ram[parent]]
        /\ mmio' = [w \in VMs |->
                      IF w = v THEN Append(mmio[parent], Clint(h, v))
                      ELSE IF w \in Registered THEN Append(mmio[w], Clint(h, v))
                      ELSE mmio[w]]
  /\ alive' = alive \cup {v}
  /\ Register(v, h)
  /\ UNCHANGED <<global_init, irq_thread, ram, dying, last_tick, crashed>>

(* riscv32_create_vm after every hart was deregistered: global_init is     *)
(* still set, the parent search finds no VM and parent_vm->mem             *)
(* dereferences NULL.                                                      *)
CreateNoParent(h, v) ==
  /\ CanCreate(h, v) /\ global_init /\ Registered = {}
  /\ crashed' = TRUE
  /\ UNCHANGED <<vm_list, vm_count, global_init, irq_thread, alive, dying,
                 hartid, mmio, has_ram, ram, last_tick>>

DeregisterKillAlways(v) ==
  /\ ~crashed /\ dying = {} /\ v \in Registered
  /\ vm_list' = [vm_list EXCEPT ![hartid[v]] = NULL]
  /\ irq_thread' = ThreadKill
  /\ dying' = {v}
  /\ UNCHANGED <<vm_count, global_init, alive, hartid, mmio, has_ram, ram,
                 last_tick, crashed>>

(* riscv32_destroy_vm, first part: deregister_vm under global_lock clears  *)
(* the slot and kills the IRQ thread if global_vm_count is 0.              *)
Deregister(v) ==
  /\ ~crashed /\ dying = {} /\ v \in Registered
  /\ vm_list' = [vm_list EXCEPT ![hartid[v]] = NULL]
  /\ irq_thread' = IF vm_count = 0 THEN ThreadKill ELSE irq_thread
  /\ dying' = {v}
  /\ UNCHANGED <<vm_count, global_init, alive, hartid, mmio, has_ram, ram,
                 last_tick, crashed>>

(* riscv32_destroy_vm, rest: remove the VM's own MMIO regions, destroy     *)
(* vm->mem (the RAM block every hart shares), free the VM.                 *)
Teardown(v) ==
  /\ ~crashed /\ v \in dying
  /\ mmio' = [mmio EXCEPT ![v] = <<>>]
  /\ ram' = IF has_ram[v] THEN "freed" ELSE ram
  /\ has_ram' = [has_ram EXCEPT ![v] = FALSE]
  /\ hartid' = [hartid EXCEPT ![v] = 0]
  /\ alive' = alive \ {v} /\ dying' = dying \ {v}
  /\ UNCHANGED <<vm_list, vm_count, global_init, irq_thread, last_tick, crashed>>

Next ==
  \/ \E h \in HartIds, v \in VMs :
       CreateFirst(h, v) \/ CreateCopy(h, v) \/ CreateNoParent(h, v)
  \/ \E v \in VMs : Deregister(v) \/ Teardown(v)
  \/ IrqBroadcast

(* global_irq_handler loops forever on its own OS thread (sleep_ms(10),    *)
(* then the broadcast), so while it runs it keeps taking broadcast steps.  *)
Spec == Init /\ [][Next]_vars /\ WF_vars(IrqBroadcast)

-----------------------------------------------------------------------------
(* Every pass of global_irq_handler queues the timer interrupt to exactly  *)
(* the registered harts, all of them live: the loop's early exit on        *)
(* global_vm_count never skips one, and riscv32_destroy_vm deregisters a   *)
(* hart before it frees it.                                                *)
BroadcastReachesAll ==
  [][IrqBroadcast => last_tick' = Registered /\ last_tick' \subseteq alive]_vars

(* Every registered hart eventually receives a timer tick, unless it is    *)
(* deregistered first or the process dies: deregister_vm tears the IRQ     *)
(* thread down only with the last hart (spec 3), and the broadcast loop    *)
(* reaches every registered slot.                                          *)
TickReachesRegistered ==
  \A v \in VMs :
    (v \in Registered /\ ~crashed) ~> (v \in last_tick \/ v \notin Registered \/ crashed)

(* A live hart refers only to live objects: its RAM block and the cookie of *)
(* every CLINT region in its MMIO table (spec 3: harts share one RAM image  *)
(* and one MMIO table; a hart is destroyed after MMIO teardown).           *)
NoDanglingRefs ==
  \A v \in alive :
    /\ has_ram[v] => ram = "alive"
    /\ \A r \in ToSet(mmio[v]) : r.cookie \in alive \cup {"devices"}

(* riscv32_create_vm never dereferences a NULL parent VM: a hart can be    *)
(* created again after the last one was destroyed (spec 3: the IRQ thread *)
(* is created with the first hart and torn down with the last).           *)
CreateNeverFaults == ~crashed
====
