# TLA+ models of RVVM

RVVM is a RISC-V (RV32) virtual machine. The source in this repository consists of:

| file | what it holds |
|---|---|
| `src/src/riscv32.c` | Hart lifecycle (create/destroy, registry), the global IRQ thread, the trap and interrupt engine, and the hart run loop |
| `src/src/threading.c` | Thin wrappers over pthreads / Win32 threads |
| `src/src/devices/ata.c`, `ata.h` | ATA PIO disk controller (lines 1-467), followed by a copy of `atomic.h` |
| `src/unnamed/part_001` | `riscv32.h`: privilege and cause numbers, `struct riscv32_vm_state_t` |
| `src/unnamed/part_002` | `spinlock.h` |

The decoder, the MMU/TLB, physical memory, the CSR table, MMIO dispatch, the CLINT/PLIC and the other devices are not part of `src/`. Where the modelled code depends on them, the dependency is modelled from `spec.md` and marked `spec_modelled` in `PROJECT.json`.

## Inventory

**Privilege and trap engine** (`riscv32_trap`, `riscv32_perform_interrupt`, `riscv32_handle_ip`, `riscv32_trap_jump`).
- **State:** per hart, `priv_mode` and the CSRs `status`, `ie`, `ip`, `edeleg[4]`, `ideleg[4]`, `tvec[4]`, `epc[4]` and `cause[4]`.
- **Operations:**
  - a trap walks the delegation registers from M down to the current mode;
  - an interrupt walks them down to the interrupt's own level (`cause & 3`);
  - both save the mode and interrupt-enable state into `status` and switch mode;
  - `riscv32_handle_ip` scans causes 11..1 and takes the first one that is pending, enabled and allowed;
  - the jump goes to `tvec`, or `tvec + 4*cause` in vectored mode.
- **Hard parts:**
  - whether delegation, priority and vectoring agree with the privileged architecture for every sequence of CSR writes, traps and xRETs;
  - whether H mode can ever be entered.

**Hart run loop and interrupt delivery** (`riscv32_run_impl`, `global_irq_handler`, `riscv32_interrupt`).
- **Shared state:** each hart thread runs guest code until the atomic `wait_event` is 0. Other threads post interrupts through the plain `ev_int` flag and the plain `ev_int_mask` bitmask, then store 0 to `wait_event`.
- **The run loop:**
  - stores 1 to `wait_event` at the top;
  - on a trap, jumps to the handler;
  - on `ev_int`, ORs the mask into `ip`, drops MTIP when the timer is not pending, clears `ev_int` and calls `riscv32_handle_ip`.
- **Hard parts:** the unlocked read-modify-writes of the mask race each other. The store of 1 can overwrite a wake-up. `ev_trap` takes precedence over `ev_int`, and the mask is never cleared.

**Hart registry and VM lifecycle** (`register_vm`, `deregister_vm`, `riscv32_create_vm`, `riscv32_destroy_vm`, `riscv32_get_hart_by_id`).
- **State:**
  - `global_vm_list[MAX_VMS]` and `global_vm_count`, both under `global_lock`;
  - the once-only `global_init`;
  - each VM's MMIO table, which holds the CLINT of every hart;
  - the physical memory shared between harts.
- **Hard parts:**
  - `deregister_vm` never decrements the count;
  - creation after every VM is destroyed dereferences a NULL parent;
  - destroy frees memory that other harts share and leaves its CLINT in their tables;
  - the IRQ broadcast loop relies on the count.

**ATA controller** (`ata_data_mmio_handler`, `ata_ctl_mmio_handler`, `ata_init`, and the sector transfer helpers).
- **State:** per channel, the task-file registers (sector count, LBA, device, status, error), the current drive, and per drive the image and the bytes left in the current transfer.
- **Hard parts:**
  - a DATA access with no transfer in progress;
  - a read error that leaves DRQ set;
  - the uint16 byte counter;
  - the slave image sized from the master file;
  - commands to an absent drive.

**Threading and spinlock.** These are wrappers with no protocol of their own. The spinlock is modelled as mutual exclusion where the registry takes it. `thread_create` and `thread_kill` appear in `Registry` as the IRQ thread starting (`ThreadCreate`) and being cancelled (`ThreadKill`).

## Plan

1. **`Trap`:** the trap engine of one hart, with the guest's CSR writes, exceptions, xRET and WFI. Done.
2. **`HartLoop`:** composes `Trap` (`T == INSTANCE Trap`, sharing variables) with the run loop, the IRQ thread and one other thread calling `riscv32_interrupt`. Each plain `|=` is split into a load and a store. Done.
3. **`Registry`:** the VM list, count and lock; create, destroy and the IRQ broadcast, over a few hart ids. Done.
4. **`Ata`:** the controller's register handlers driven by a guest that follows the PIO protocol, or by an unconstrained one, with runs for the misuse cases. Done.
5. **`TrapContext`:** the abstract trap-entry/xRET contract, which `Trap` refines. Done.
6. **`AtaDisk`:** an abstract sector store, which `Ata` refines under a protocol guest, with `xfer` mapped to the abstract request. Done.
7. **Liveness of the registry:** every registered hart is eventually ticked, under weak fairness of the IRQ thread. Done.
8. Later:
   - composing `Registry` with `HartLoop` so that destroy races a running hart thread;
   - LR/SC reservation and the MMU/TLB from spec 4.1-4.2, `spec_modelled`, since that code is not under `src/`;
   - a refinement of `HartLoop` against an abstract "interrupts are delivered in priority order" specification, once the priority finding is settled.

## Modules and correspondence

### `Trap.tla` (`riscv32.c` 251-332, 424-429; `riscv32.h` 66-99)

Bitmasks become sets of cause codes. `status` is a record of the fields the code touches (xIE per mode, SPIE, MPIE, SPP, MPP). A `cause` value is a record `[interrupt, code]`.

- **Delegation:**
  - the delegation loop is the recursive operator `DelegateFrom`;
  - `TrapTarget` is the loop of `riscv32_trap`;
  - `InterruptTarget` is the loop of `riscv32_perform_interrupt`;
  - `EnterMode` is the status save common to both.
- **Interrupt scan:** `Fires` is the guard inside the scan of `riscv32_handle_ip`, and `HandleIpChoice` is its first hit, the largest cause that fires.
- **Run-loop actions:**
  - `TrapJump` is the `ev_trap` branch of the run loop with `riscv32_trap_jump`;
  - `TakeInterrupt` is `riscv32_handle_ip(vm, false)` followed by the jump;
  - `WfiInterrupted` is `riscv32_handle_ip(vm, true)`.
- **Guest operations:** `Exception`, `Mret`, `Sret`, the `Write*` actions, `RaisePending` and `ClearPending`. Their code is not in `src/`, so they follow spec 4.3. Each requires the mode a real CSR access requires.

`TrapContext.tla` is the contract trap entry and xRET must keep, stated without the `mstatus` encoding. Each handler mode (S and M) has an interrupt enable and one saved context, the mode and enable the hart had when it last trapped there. Its steps:
- `Enter(p)` is a trap or interrupt into `p`, never below the current mode;
- `Return(p)` is xRET, which resumes the saved context and resets it to (U, enabled);
- `SetEnable(p, b)` is a write of the enable.

`Trap` implements it (`ImplementsTrapContext == TC!Spec`) under this mapping: `mode` is `priv_mode`, `enabled[p]` is `status.xie[p]`, `saved[M]` is (MPP, MPIE) and `saved[S]` is (SPP, SPIE). Every other step of `Trap` must leave these unchanged. The check covers the order of the three status writes in `riscv32_trap` and `riscv32_perform_interrupt`, and the one-bit SPP. It also covers nested traps: an S trap, then an M interrupt inside the S handler, then MRET and SRET.

### `HartLoop.tla` (`riscv32.c` 67-105, 431-454)

The model has three threads, each with a program counter:
- the hart (`hart`: top, run, wfi, check, merge, clear);
- the IRQ thread (`irq`);
- another hart's thread posting an IPI through `riscv32_interrupt` (`dev`).

Each `|=` is a load into `irq_tmp` or `dev_tmp` followed by a store. `timer_pending` stands for `rvtimer_pending`. The guest runs only while `wait_event = 1`, and a trap stores 0.

`unmerged` is an auxiliary variable: the causes posted since the hart last merged the mask.

`release` records which `atomic.h` variant the build uses. It is chosen in `Init` from `Builds` and never changes, so one run checks both builds:
- With C11 atomics or the `__GNUC__` builtins, `atomic_store_explicit(..., memory_order_release)` is a release store. The poster's `ev_int = true` is visible to the hart once it sees `wait_event = 0` (spec 136, 141).
- The fallback (`ata.c` 533-548, a copy of `atomic.h`) makes it a plain store and `atomic_thread_fence` empty. `IrqWakeEarly`/`IrqFlagLate` and `DevWakeEarly`/`DevFlagLate` let the wake become visible before the flag.

### `Registry.tla` (`riscv32.c` 58-249)

One control thread creates and destroys harts, one call at a time, as spec 3 requires. The IRQ thread broadcasts concurrently. Each `global_lock` section is one action:
- `IrqBroadcast` is one pass of `global_irq_handler`, and `Deliver` is its loop (a recursive operator over the slots, with the early exit on `global_vm_count`). `last_tick` records the harts the pass queued the tick to.
- `CreateFirst`, `CreateCopy` and `CreateNoParent` are the three ways `riscv32_create_vm` can go: the `global_init` branch, the copy branch with a parent, and the copy branch with no parent. `Register` is `register_vm`.
- `riscv32_destroy_vm` is split at its unlock: `Deregister` is `deregister_vm`, and `Teardown` is the rest (the region removal, `riscv32_destroy_phys_mem` and `free`).

A VM is a model value standing for the address `calloc` returned, so a freed address can be reused. The shared RAM block is a single object with a state of `"none"`, `"alive"` or `"freed"`. An MMIO region is its base (a CLINT by hart id, or the devices) and its cookie. `riscv32_mmio_remove_device` is not under `src/`, so the destroyed VM's table is emptied.

`ThreadCreate` and `ThreadKill` stand for `thread_create` and `thread_kill` (`threading.c`). A failed `malloc` or `pthread_create` is not modelled.

### `AtaBase.tla`, `AtaDisk.tla` and `Ata.tla` (`ata.c` 25-455)

`AtaBase` holds what the controller and its abstract specification share: the two drives, the opcodes, the STATUS and ERROR flags, and the byte tokens. It is the only module whose constants (`SectorSize`, `MaxSector`) the cfgs set for the ATA runs.

`AtaDisk` is what the controller promises a guest that follows the PIO protocol. Its state is:
- per drive, a store of sectors, the capacity IDENTIFY reports and the extent of the image;
- the request in progress (command, drive, LBA, count, bytes done);
- whether that request has failed;
- the bytes the last DATA read handed out.

Its steps:
- `Issue` starts a command. A READ from beyond the image fails at once.
- `ReadNext(w)` and `IdentifyNext(w)` hand out the next `w` bytes.
- `WriteNext(w)` stores a sector once all its bytes have arrived, growing the image if needed.
- `Abort` is a reset.

No register, buffer or file position appears in it.

`Ata` is the code. `ImplementsDisk` checks `AD!Spec` for `AD == INSTANCE AtaDisk WITH ...`, under this mapping:

| AtaDisk | Ata |
|---|---|
| `present` | `fp` |
| `capacity` | `size` |
| `extent` | `len` |
| `store` | `disk` |
| `req` | `xfer` |
| `failed` | `TransferFailed`: ERR is set on the drive before all the expected bytes moved |
| `out` | `got` |


`Init` is `ata_init`. Image sizes are given in bytes, and `NoFile` stands for a NULL `FILE`. `ImgSectors` is `DIV_ROUND_UP(get_img_size(fp), SECTOR_SIZE)`. `Init` follows the code on four points:
- A size of 0 drops the drive's `fp`.
- The slave's size comes from the master's file.
- `get_img_size` on a NULL `fp` faults. This happens with no master, or with an empty one.
- `len` counts only whole sectors, the ones `fread` can return. A partial last sector still counts in `size`.

Each state-changing register access is an action:
- `Command(c)` is a write to STATUS followed by `ata_handle_cmd`, with the helpers it calls.
- `DataWrite(w)` and `DataRead(w)` are the DATA branch of `ata_data_mmio_handler`, for an access of `w` bytes.
- `WriteNsect`, `WriteLba` and `WriteDevice` are the other register writes. `Shift` is their 16-bit `<<= 8; |=`.
- `SoftReset` is the device-control write with SRST.

A byte is a token naming its origin: an image byte `Img(d, k, i)`, a byte the guest wrote `Guest(j)`, IDENTIFY data, or zero. A file is a sequence of sectors, and `pos` is the `FILE` position in sectors.

`fseek`, `fread` or `fwrite` on a NULL `FILE` sets `crashed`, and nothing runs after it.

`xfer` is an auxiliary record of the command the guest last issued. `got` holds the bytes the last DATA read returned.

With `Protocol` set, the guest follows the PIO protocol:
- it issues a command or a register write only while RDY is set and DRQ is clear;
- it makes a DATA access only while DRQ is set and ERR is clear, and only up to the length it asked for.

## Runs

| run | cfg | expect | what it shows |
|---|---|---|---|
| trap_deleg | MC_Trap.cfg | pass | `DelegationRule`: every exception and interrupt enters the mode the RISC-V rule names (checked against `RefTarget`, a direct definition of the rule). `ImplementsTrapContext`: the trap engine refines `TrapContext`, so MRET and SRET always resume the mode and enable saved by the trap they return from. Its modes are U, S and M, so it also shows that H is never entered, because create sets `edeleg/ideleg[H]` to all ones. |
| trap_priority | MC_Trap_priority.cfg | violation | The scan takes SEI (9) into S while MTI (7, machine level) is pending and enabled. The comment at riscv32.c:308 and the architecture prioritise the higher-privilege source. |
| trap_vector | MC_Trap_vector.cfg | violation | Vectored `tvec` offsets exceptions too (riscv32.c:427). |
| hart_timer | MC_HartLoop.cfg | pass | `TimerPreemptsLowerModes`: with the timer pending and MTIE set, a hart in S/U mode eventually enters M. This holds despite overwritten wake-ups and the ev_trap/ev_int precedence, and also in the fallback build. There a wake seen before its flag only defers the interrupt to the next wake, because `ev_int` stays set. |
| hart_lost | MC_HartLoop_lost.cfg | violation | `MaskOnlyAccumulates`: the IRQ thread's `|=` erases the IPI bit `riscv32_interrupt` just stored. |
| hart_stale | MC_HartLoop_stale.cfg | violation | `NoStalePending`: the never-cleared mask re-asserts a bit the guest retracted, with no new post. |
| reg_broadcast | MC_Registry.cfg | pass | `BroadcastReachesAll`: every broadcast reaches exactly the registered harts, all live, whatever creates and destroys came before. `TickReachesRegistered`: a registered hart is eventually ticked unless it is deregistered first; the IRQ thread is cancelled only with the last hart. |
| reg_dangling | MC_Registry_dangling.cfg | violation | `NoDanglingRefs`: destroying one of two harts frees the shared RAM and leaves its CLINT cookie in the other's table (riscv32.c:247, 204). |
| reg_null | MC_Registry_null.cfg | violation | `CreateNeverFaults`: create, destroy, create dereferences a NULL parent: `global_init` (riscv32.c:166) is never reset, and the copy branch does not check that its parent search found a VM (187-195). |
| ata_xfer | MC_Ata.cfg | pass | `ImplementsDisk`: under a protocol guest the controller refines `AtaDisk`. Reads hand out the image bytes from the LBA on, writes land at LBA + index, end-of-image errors come where the store ends, and IDENTIFY reports the image size. This holds across sector boundaries and resets. Drive selects are covered only thinly: the protocol guest writes DEVICE only while the current drive shows RDY, so once it selects the absent slave it never returns to the master. |
| ata_count | MC_Ata_count.cfg | violation | `TransferLength`: after a soft reset, NSECT = 1 gives a 257-sector transfer, and DRQ stays set after the requested sector (ata.c:177). |
| ata_overflow | MC_Ata_overflow.cfg | violation | `BufferInBounds`: a DATA write with no transfer writes past `buf` and wraps `bytes_to_rw` (ata.c:260). |

Every property of a passing run is also checked against a plausible bug, and TLC finds each bug:

| property | mutated definition |
|---|---|
| `DelegationRule` | `TrapTarget` walking `ideleg` |
| `ImplementsTrapContext` | `EnterMode` that clears xIE before saving it into xPIE |
| `TimerPreemptsLowerModes` | `MergeMask` inverted |
| `BroadcastReachesAll` | `Deliver` that breaks before serving the last hart |
| `TickReachesRegistered` | `Deregister` that cancels the IRQ thread on every call |
| `ImplementsDisk` | `ReadBuf` that does not reset `bytes_to_rw` |

The mutants are listed in `PROJECT.json`.

## Bounds

**`MC_Trap`:**
- exception 2 (illegal instruction);
- interrupts 7 (MTI) and 9 (SEI): one M-level cause and one S-level cause, which is what delegation and priority distinguish;
- per-mode handler bases 0, 16, 32, 48;
- `tvec` modes {0} for the delegation run and {0, 1} for the vector run.

`pc` and `epc` are data that no guard reads. They are left out of the `VIEW` (`ControlView`), so the PC arithmetic does not make the state space infinite.

**`MC_HartLoop`:**
- interrupts 3 (MSI, the posted IPI) and 7 (MTI, the IRQ thread's tick);
- `MaxPosts = 1`: the other thread posts once. One post is enough for it to race every step of the IRQ thread and every step of the hart.
- `Builds = {TRUE, FALSE}` in the liveness run, which covers both `atomic.h` variants. The violation runs use the ordered build only, so their findings do not depend on the fallback.

Here the view also leaves out `cause`, which only feeds the PC.

**`MC_Registry`:**
- three slots (`MAX_VMS` = 3) and three VM addresses. Destroying the middle of three harts leaves a free slot between two live ones, which the broadcast loop must skip without stopping. A destroyed hart's address can be reused while another hart is live;
- at most four `register_vm` calls (`MaxRegs`), enough for create, create, destroy, destroy, create;
- no symmetry: the run checks a liveness property, and symmetry reduction is unsound for liveness.

`CHECK_DEADLOCK FALSE`: the process really stops at the NULL dereference of `CreateNoParent`.

**`MC_Ata`:**
- two-byte sectors and `MaxSector` = 2;
- image sizes in bytes:
  - the protocol run has a 4-byte (two-sector) master and no slave;
  - the count run adds slaves of 0 and 3 bytes. An empty slave file keeps its `fp`, because its size is taken from the master;
  - the overflow run adds a NULL, empty or 3-byte master, so `ata_init` itself faults.
- LBAs 0 and 1, and NSECT bytes 1 and 2: transfers cross a sector boundary and run past the end of the image;
- one-byte DATA accesses in the protocol run; one- and two-byte accesses for the unconstrained guest.

The protocol run keeps the slave absent. A second image multiplies the state space by the slave's own task file, and the slave runs the same code with a different index. The other runs also allow a one-sector slave.

The view drops `got`, which only the step that sets it reads. The overflow run has `CHECK_DEADLOCK FALSE`, since an unconstrained guest can crash the host.

## Fairness

`HartLoop` assumes weak fairness of the hart thread, of the IRQ thread and of a `riscv32_interrupt` call that has begun. These are OS threads that never block: the IRQ thread sleeps 10 ms and loops forever, and the hart loop spins. The guest, the timer and the start of a post get no fairness, because the guest may run forever without trapping.

`Registry` assumes weak fairness of `IrqBroadcast` alone, because the IRQ thread is an OS thread that loops forever. It needs `global_lock`, which every other action takes for one bounded step, so it is never disabled for good while it runs. The control thread gets no fairness: the program may stop creating and destroying harts at any time.

`Ata` checks safety and a refinement with no liveness part, so it assumes no fairness.

## Not modelled

- The decoder, MMU, TLB, CSR table, CLINT/PLIC and other devices: not under `src/`.
- Debug formatting and register dumps: text only.
- In `threading.c`:
  - `thread_join`, which nothing under `src/` calls;
  - a failed `pthread_create`, whose result `thread_create` ignores. This is listed as a hazard.
- `devices_init` and the framebuffer update: these are I/O. The device regions are one entry.
- Error paths of `riscv32_create_vm`:
  - allocation failure;
  - a hart id at or above `MAX_VMS`.
- Concurrent creation: `global_init` is unlocked, but nothing under `src/` creates harts from two threads, and spec 3 has one control thread create them.
- A destroy racing a running hart thread: spec 3 excludes it. It is listed as a hazard.
- In `Ata`:
  - `hob_shift`, the LBA48 form and register reads: they change no state that a command uses;
  - disk-full `fwrite` errors.
  - the bytes of a partial last sector. When `fread` fails there, the model leaves `buf` and the file position unchanged, but the real `fread` copies the partial bytes and advances. The protocol run uses a whole-sector image, so no checked property depends on this.
- The contents of the IDENTIFY block, which is a token carrying the size. This means the slave-size bug at ata.c:452 is a hazard and not a run.
