# Verification of the RISC-V 64 emulator

TLA+ models of the emulator in `src/` (Rust crate `mysim`, `src/src/*.rs`), with
TLC configurations and TLAPS proofs.  Source references are `file.rs:line`.
`PROJECT.json` maps every definition to the lines it models.

## 1. Inventory

The process has two threads.  The **CPU thread** runs `main`'s loop:
`Cpu::step` (check interrupts, fetch, execute) and, every
`TIMER_TICK_INTERVAL` steps, `update_timer_by`.  The **input thread**
(`main.rs:152`) reads one byte at a time from stdin, pushes it into the UART's
input buffer and marks IRQ 10 pending in the PLIC.  They share two mutexes: the
UART input buffer and the PLIC.  Every device other than these two objects is
touched by the CPU thread only, inside a load or store of an instruction.

| component | state | operations | interacts with | what makes it correct |
|---|---|---|---|---|
| PLIC `plic.rs` | priority, threshold, enable, pending | set/clear pending, claim, complete, register accesses | UART, virtio, hart | a claim returns the most urgent enabled IRQ, to one context only |
| UART `uart.rs` | IER, `thr_ipending`, input buffer, LCR/MCR/SCR | register accesses (RHR and ISR reads have side effects), `has_pending_interrupt` | bus (IRQ 10), input thread | no input and no transmit interrupt is lost |
| bus `bus.rs` | `mtime`, `mtimecmp`, `stimecmp`, `msip` | address decoding for 1/2/4/8-byte accesses, `update_uart_irq`, virtio notify and acknowledge | every device | timers fire at their deadline, not before |
| hart `cpu.rs`, `trap.rs` | pc, mode, CSRs, reservation | `check_interrupt`, `handle_trap`, `take_trap`, `take_s_trap`, MRET, SRET, CSR instructions, LR/SC/AMO, ALU, FP, compressed instructions | bus, CSR file, MMU | traps nest and return, M enables and delegation are out of reach of S and U code and MRET gives it no privilege, LR/SC is atomic, each encoding does what it stands for, no task loses its FP registers |
| CSR file `csr.rs` | register map | masked reads and writes, views (`sstatus`, `sie`, `sip`, ...) | hart | the views neither leak nor change M bits |
| MMU `mmu.rs` | none (page tables are in memory) | Sv39/48/57 walk, permission check, A/D update | bus, hart | the walk agrees with the tables, dirty bits are exact |
| virtio-blk `virtio.rs` | queue registers, interrupt status, disk file | register access, `process_queue` | DRAM, PLIC IRQ 2 | every request is completed once, and signalled; what it acknowledged is on the disk |
| virtio-rng `virtio_rng.rs` | queue registers, interrupt status | register access, `process_queue` | DRAM, PLIC IRQ 7 | fills exactly the buffers it may write, and says how many bytes |
| flash `flash.rs` | command state | CFI query, read id, read array | bus | a command sequence always leads back to read array |
| DRAM, MROM `dram.rs`, `mrom.rs` | bytes | bounds-checked little-endian access | bus | no access outside |

The hard behaviours: two threads that meet in the UART/PLIC pair under two
locks, with a sample that is applied later; interrupts and traps at any
instruction, nested over two levels; batches of virtio requests that are
published at their end and may fail in the middle; registers that are read and
written by halves while the clock runs; accesses that cross a page and fail
half-way; tasks preempted between LR and SC, or with floating-point registers
that a kernel saves only when the status says so; data transfers that fail in
the middle and are run again; thousands of encodings that differ in single bits.  `PROJECT.json` lists them under
`hazards`, each at its line with the properties aimed at it.

## 2. Modules

| module | models | state and actions |
|---|---|---|
| `Plic` | `plic.rs` | Register words are sets of IRQs. `ScanClaim` is the scan of `claim_interrupt` as a recursive function over the IRQs, with one decision, `Keep`, per IRQ; one action per device call and per kind of register. |
| `PlicSpec` (extends `Plic`) | the PLIC alone, with any device and guest (`PlicSystem`) | properties of claims |
| `UartIrq` (extends `Plic`) | `uart.rs`, `update_uart_irq`, the input thread, the PLIC part of `check_interrupt` | `cpu` is where the CPU thread is in `step`; each critical section is one action; the input thread owns the buffer between push and raise |
| `UartDriver` (extends `UartIrq`) | the same machine with any guest or an interrupt-driven driver (external, on what `uart.rs` says of Linux' 8250) | `drv` is where the driver is, `"free"` for any guest; liveness of input and output |
| `UartIrqProofs` | | theorems on the PLIC, the UART and its driver |
| `Csr` | `csr.rs`: status, interrupt and delegation registers | registers are sets of bit numbers; `Written` is `Csr::write` with its masks and views |
| `Hart` (extends `Csr`) | `check_interrupt`, traps, returns, CSR instructions | one action per outcome of `Cpu::step` |
| `HartTraps` (extends `Hart`) | history of what each trap interrupted, how long M interrupts waited, and which return left M-mode | properties of traps |
| `LrSc` | reservation, LR, SC, AMO, stores, `cbo.zero`, A/D updates, traps, returns | with preempted guest tasks (external) that add to counters; the specification is `LrScSpec` |
| `HartProofs` | | theorems on `HartTraps` and `LrSc` |
| `Mmu`, `MmuMC` | `mmu.rs` | `Walk` is the loop over the levels as a recursive function; the number of levels is a constant, since the three walks of the source are one loop; `LeavesOf` (the leaves at the end of the `Ways` through the tables) and `Grants` are the reference definition |
| `VmAccess` | `load_va`, `store_va`, `fetch` | bytewise DRAM and MROM behind an external translation, `PhysAddr`, with the answers of the bus (`BusStatus`); an access is one action, `Consume` the rest of its instruction; the specification is `VmSpec` |
| `VmProofs` | | theorems on `VmAccess` and `Mmu` |
| `VirtioQueue` | nothing in the source: what a virtqueue promises | abstract specification |
| `VirtioBlk` | `virtio.rs`, its bus wiring and IRQ 2 | one action per iteration of `process_queue` |
| `VirtioBlkSys` (extends `VirtioBlk`) | with its driver (external) | refines `VirtioQueue` |
| `VirtioBlkProofs` | | theorems |
| `VirtioData` | the bodies of the two `process_queue` loops | each handler is a function from memory, disk and request to a result; failing accesses leave what was done before |
| `VirtioIo`, `VirtioIoMC` (extends `VirtioData`) | both devices on guest memory and the disk image, IRQ 2 and 7, drivers (external), failures of the host | the rings are the sequences of `VirtioQueue`; one action per request executed, publication, register write and step of a driver; a shape (`ShapeOK`) says where the buffers of a request are and what is wrong with its chain |
| `VirtioIoProofs` | | theorems on `VirtioIo`, lemmas on `VirtioData` |
| `Exec` | `execute_compressed` | an instruction yields a record of terms: registers, pc, access, trap |
| `ExecBase` (extends `Exec`) | the integer, load, store and jump opcodes of `execute` | as `Exec`, over halves of the 32-bit word |
| `ExecSpec`, `ExecMC` | each encoding executed once | `Expansion` and `Meaning` are the reference definitions, from the layouts of the instruction set manual |
| `FpUnit` | OP-FP, fused operations, FP loads and stores, `fcsr`, FS and SD | a register is a low half and whether it is boxed; the arithmetic yields any result that the operands allow |
| `FpTasks` (extends `FpUnit`) | with a kernel that switches tasks (external) | one action per instruction class and step of the kernel; `own` is what each task wrote |
| `FpProofs` | | theorems |
| `Clint` | CLINT registers, `stimecmp`, the tick of the main loop | one action per instruction and tick; `And`, `Or` and `Less` are the bitwise operations of CSRRS and CSRRC |
| `ClintProofs` | | theorems |
| `NatLemmas` | nothing in the source | lemmas on natural numbers that the proofs share: least elements, definition by recursion, halves of a register |

Definitions named `X_something` after a definition `X` are mutants: `X` as a
plausible mistake would have it.  For every property of a passing run,
`PROJECT.json` names a mutant under which TLC finds the property violated.

## 3. Runs

All bounds are constants in the `.cfg` files.

| run | shows | bounds |
|---|---|---|
| `plic` | the claim scan returns the most urgent candidate in every register state, a threshold of 7 masks everything, claims take one IRQ | three IRQs over two words, two contexts, three priority levels: ties, both register words and the reserved IRQ 0 occur |
| `uart` | with both threads and any guest: no due THR-empty interrupt is missed, IRQ 10 without an active UART interrupt only while a character waits, what was reported can be claimed, a raise that was wiped out is repaired; with the driver every character typed is read, every character to send is sent, no external trap finds nothing | one IRQ, two priorities, two characters in the buffer: the raise can meet a full and an empty buffer; three typed, two sent |
| `hart` | an M interrupt waits for one S interrupt at most; returns undo their own trap under nesting; S and U code cannot change M enables and delegation, and changes M status bits by traps and MRET only; an MRET below M-mode ends in U-mode, unless M-mode was left by SRET | one interrupt of each level, two exceptions, operands that set and clear each bit |
| `lr_sc` | no addition is lost, a held reservation has survived no store, AMO, SC, trap or return | two tasks, two counters in one doubleword, a word in another |
| `mmu` | the walk agrees with the reference for all contents of the tables, D is set exactly by stores | three levels of two entries, a table in ROM, pointers that are shared, cyclic and dangling; leaves aligned at every, one and no upper level |
| `vm_access` | accesses use the physical bytes of each of their addresses, except stored bytes that have no place and are lost; a store changes its own bytes only, a faulting one leaves the other page alone | pages of four bytes, two virtual pages and four physical ones: two of DRAM, one of MROM, one of nothing; halfwords and words, the word standing for the widest access, `Wide`; the last page wraps to the first |
| `vm_tval` | **violated**: see findings | |
| `virtio_blk` | the device implements `VirtioQueue`; what is completed was executed once, also when malformed requests make `process_queue` fail half-way; no completion without a signal; requests end unless a malformed one blocks the queue | queue of two, indices modulo 4, so that they wrap; three kinds of requests |
| `virtio_io` | a disk byte holds what the last acknowledged write put there or an unacknowledged one since; reads return that, through several buffers; lengths of used entries are exact; a write is on the disk wholly or not at all unless the host fails; devices change only the buffers given to them | sectors of 2 bytes, 2 sectors, sector numbers modulo 64 so that the range check wraps, chains of at most 4 and 2 descriptors, 2 heads, 3 requests, one of them malformed or one failure of the host: enough for a request to run again over a later one |
| `exec` | a compressed instruction does what its expansion does; OP-IMM and OP-IMM-32 do what the manual says, up to the exceptions below | all 49152 compressed encodings, all 4096 immediates with each funct3 and both opcodes; no bound |
| `fp_context` | a task finds its floating-point registers and `fcsr` as it left them, up to the exceptions below | one register (operands and destination may coincide; registers do not interact), numbers and NaNs, boxed or not, one bit each of rounding mode and flags, two tasks |
| `clint` | both copies of `stimecmp` agree after all CSR instructions; setting `mtimecmp` and reading `mtime` by halves is safe while the clock runs; deadlines fire | halves of two bits, a tick of 3 every third instruction, so that carries fall between the halves; `DeadlineFires` for the deadlines 0, 5 and 11, the operands |

Fairness.  The CPU thread's loop never stops (`main.rs:184`), so its next step is
weakly fair; a character that was pushed is followed by its `set_pending`, which
needs only the PLIC lock that no one keeps.  Nobody has to type.  The drivers of
`UartDriver` and `VirtioBlkSys` go on with their handlers, and the block driver
notifies after it offered requests.  `clint` does not check deadlock: the clock
stops at its bound.  The action properties and invariants of the other runs need no
fairness.

### Findings

* `vm_tval`: `tval` is said to be the address that raised the exception
  (`cpu.rs:194`); when the second page of an access faults it is the address of
  the access, in the first page.

The following were met while modelling.  The models have them as the code does,
and the properties name them as exceptions where they touch them.

* Interrupts.  `update_uart_irq_public` promises that the PLIC reflects the UART at
  every interrupt check (`bus.rs:178`); the input thread raises IRQ 10 without
  looking at IER (`main.rs:160`), also between the synchronisation and the query.
  The run `uart` shows that this does no harm to a driver.  MIP.MTIP is said to be
  updated in `check_interrupt` (`cpu.rs:2911`), but the mask in `Csr::write` drops it
  (`csr.rs:452`); the decisions use the local copy.
* Privilege.  MRET (`cpu.rs:1485`) and SRET (`cpu.rs:1509`) do not look at the mode.
  S and U code that executes MRET sets MIE to MPIE, MPIE to 1 and MPP to U, and goes
  to the mode that was in MPP.  The run `hart` shows what limits this: MPP is U
  below M-mode once M-mode has been left by MRET (`MretGainsNothing`).  Firmware that
  leaves M-mode by SRET with MPP = M hands M-mode to the code that it starts.  An SRET
  in U-mode reaches S-mode if SPP is set.
* Stores.  `write8`, `write16` and `write32` to MROM or to an address where there is
  nothing print a warning and succeed (`bus.rs:651`, `741`, `882`); `write64` and all
  reads report an error.  So narrow stores there are lost without a fault, and so is
  the part of any store across a page boundary that falls there, since the slow path of
  `store_va` uses `write8` only (`cpu.rs:146`).
* Reservation.  `cbo.zero` (`cpu.rs:1106`) and the A/D update of the page walk write
  memory and keep the reservation, unlike every other write (`ReservationHolds` excepts
  them).
* Reset.  A reset of the block device clears its interrupt status and leaves IRQ 2
  pending in the PLIC (`virtio.rs:284`; `NoSpuriousIrq` excepts it).
* Decoding (`ExecSpec`, `Misdecoded`).  BCLRI, BINVI, BSETI, BEXTI and RORI with a
  shift amount of 32 or more execute as plain shifts, because the upper *seven* bits
  of the immediate are compared (`cpu.rs:589`, `655`); SLLI.UW likewise becomes SLLIW
  (`cpu.rs:892`).  RORIW is recognised for the immediate 0x698 only.  XORI with 0x287
  executes as ZEXT.H, whose real encoding is refused.
* Compressed instructions.  `c.jalr ra` links before it reads its target; C.JR and
  C.JALR keep bit 0 of the target; C.ADDIW with `rd` = 0, C.JR with `rs1` = 0 and C.LUI
  with an immediate of 0 are accepted although reserved.
* virtio.  The length of a failed read is that of a successful one; the block
  device does not look at the WRITE flag; an RNG chain that loops counts its
  bytes each time; a debug build panics where the range check wraps around in a
  release build.
* Floating point.  Loads and stores run with FS = Off, where arithmetic is refused
  (`cpu.rs:1790`), and a load then turns the unit on with the registers of another
  task; writes of `fcsr` do not make FS Dirty, so a kernel that goes by FS loses them;
  the exception flags are never raised and the rounding mode is not used; FSGNJ.S
  and FMV.X.W do not check the boxing of their operands.

## 4. Proofs

Each theorem holds for every value of the constants that satisfies the named
`ASSUME` of its module (`PlicAssumption`, `WriteValuesAssumption`, `UartAssumption`,
`DriverAssumption`, `CsrAssumption`, `BlkAssumption`, `DataAssumption`, `IoAssumption`, `LrScAssumption`,
`VmAssumption`, `MmuAssumption`, `ClintAssumption`); TLC evaluates each of them in the run of its
module.  `IoAssumption` says of the drivers of `VirtioIo` that each head has a region of
memory of its own and that the buffers of a request do not overlap, and of the sizes
that a request is shorter than half the range of a 64-bit offset.

Two arguments recur and are lemmas of `NatLemmas`.  A set of natural numbers that
is not empty has a least element (`LeastNat`): what a loop computes is proved from
the least iteration at which it would not hold.  A function given by its value at 0
and a step exists (`Recursion`): so a recursive definition of the model has the
values its equation says.

* `UartIrqProofs`, PLIC.  `ScanFindsBest`: after the IRQs up to n the scan holds
  the most urgent candidate among them.  With it a claim has a closed form,
  from which `ClaimTakesOne` follows.
* `UartIrqProofs`, UART.  The invariant adds to the type invariant what holds between
  the sample of the UART and the queries: a `TRUE` sample stays justified by an
  active interrupt and covers every due THR-empty interrupt (`LineInv`), since the
  guest does not run in between and the input thread only adds; the input thread
  holds the buffer lock with a character in the buffer (`LockInv`), so its raise is
  never for nothing; what was reported stays pending (`MipInv`).
* `UartIrqProofs`, driver.  Every step of the driver is a step of a guest
  (`DriverIsGuest`), so the invariant above holds.  `TrapHasWork` adds that between the
  trap and the first claim the UART has an active interrupt (`FirstClaimInv`): the
  handler has not touched the UART yet, and the input thread only adds characters.
* `HartProofs`, traps.  `MDeferredOnce` rests on: after a step that passed over an M
  interrupt the hart is in S-mode with SIE clear, so the next check reaches the
  M interrupts (`DeferInv`).  `ReturnRestores` rests on: while a frame is valid, MPP and MPIE
  (SPP and SPIE) hold its mode and enable bit; the views leave them alone.
  `MachineStateProtected` is proved per action: a step below M-mode keeps the M status
  bits (`Kept`), stacks them (`Pushed`) or, for MRET, unstacks them (`Popped`).
  `MretGainsNothing` rests on `LeftInv`: below M-mode, after an MRET left it, MPP is U.
* `HartProofs`, reservation.  `CountersExact` is not inductive; `ReservationOwned` makes it so:
  a reservation belongs to the task that runs, and what this task loaded is
  still in memory, because everything that could change either clears the
  reservation.
* `VirtioBlkProofs`, signals.  `CompletionSignalled` needs `SignalInv`: a claim clears the
  pending bit of IRQ 2 and leaves it to INTERRUPT_STATUS to tell the handler that
  there is something to collect, and interrupts are suppressed only while the
  handler collects.
* `VirtioBlkProofs`, rings.  The indices wrap, so the invariant counts from
  `last_used`: `NComp` entries are completed, `NCur` served, `NAll` offered.  `RingInv`
  says that these are in order, that each head that is not free stands in the rings
  once, and that the used entries of the running call are those of the requests it
  served; `RunsInv` how often each ran.  `ExactlyOnce` follows.  For the refinement, one
  lemma per action says what it does to the abstract queue (`QuietView`,
  `SubmitView`, `ServeView`, `PublishView`, `CollectView`, `EmptyView`), and `QueueStep` puts
  them together: every step is a step of `VirtioQueue` or leaves it unchanged.
* `VirtioIoProofs`, data.  `AddrsRange` and `AddrsOnce` say that the loops over
  descriptors and bytes visit exactly the bytes of the descriptors, each once if they
  do not overlap; `StoredIs` what they leave behind when a byte is not in DRAM.
  `RangeFits`: a request that passes the range check and the seek lies on the disk,
  though both sums wrap: where the check wraps, the offset is refused.  With these
  each handler has a description without its loops (`HandledOK`), and so has each
  iteration of `process_queue` (`Executed`, `RngExecuted`): what it changes, and when it
  says that it succeeded.
* `VirtioIoProofs`, queues.  The requests of a device have positions: first the used
  entries that were not collected, then the available heads, of which the running call
  has served the first.  `BaseInv` says that no head has two positions and that each
  request is one that its driver makes, a chain in its own region (`Sound`).  `DeviceKeepsOut` and `WritesWhole`
  follow for the request that is executed.
* `VirtioIoProofs`, disk.  `AckedWritesKept` is not inductive: a request that fails makes
  the ones before it in its batch run again, so that a write may overwrite the
  data of a later one.  `IoInv` adds that a byte of an acknowledged write at position p
  holds the data of p or of a write behind p (`AckInv`): so when the driver is told of
  p, and `may` shrinks to the data of p, the disk is still accounted for.  `ReadInv` says
  the same of what a read has put in its buffers, for the writes before it in the
  queue.  `DataInv` says that a queued write has data in its buffers and a buffer for the
  device nothing but what the device put there, since regions are disjoint, and `ServedInv` relates the length of a served request to the
  bytes of its buffers that are not blank.  One lemma per action (`IoQuiet`, `IoSubmit`,
  `IoServeBlk`, `IoServeRng`, `IoCollect`, `IoReset`); a queue that an action
  does not touch is handled by `Still`, one that moves up by `Kept`.
* `VmProofs`, accesses.  Each path of an access is proved to use the physical bytes
  of its addresses: in one page consecutive addresses stay consecutive; across pages
  each byte is translated on its own, and two bytes of one access never share a physical
  byte, even if both pages are mapped to one frame, since their offsets differ.
  A fetch splits only between its halfwords, as its address is even.  A byte that was
  stored is in memory unless its page is not memory, and then `write64` did not do
  the store.  A store that writes something and faults takes a page fault, at a byte of
  the second page, because single bytes are never refused by the bus.
* `VmProofs`, walk.  `WalkSound`: a walk that succeeds has followed one of the `Ways`,
  and the leaf is one of `LeavesOf`.  `WalkComplete`: a way through the tables that
  the walk does not find would have a first level at which the two differ.
  `DirtyTracksStores` is inductive with the type invariant, because the slot
  that is updated is the one that the walk returned.
* `FpProofs`.  `ContextKept` speaks of the running task only.  The invariant adds that
  what memory holds of a task that is not running is what it wrote, and that no such
  task is left Dirty (`OthersKept`); that FS of the running task is Dirty or its saved
  registers are current; that Off goes with a fresh context (`CurrentKept`).
* `ClintProofs`.  `ArmInv`: the low half stays at all ones while the high half is
  replaced, so that `mtimecmp` is never below the deadline of that moment.
  `ReadInv`: the low half is that of one time t since the start, and the high half
  read before is not above that of t; the second read of the high half decides
  whether it is that of t.

What the proofs changed in the model: in `FpTasks` two cases of a write to
`fcsr` overlapped when FS is Off; `Clint` has its own definition of the bitwise
operations as a recursive function, since the prover cannot use `Bitwise`; the local
function of `Mmu`'s `Walk` takes its level and frame one after the other; `Addrs` of
`VirtioData` is a recursive function in place of a fold, and the descriptors that the
RNG skips are empty in place of left out; the shapes of `VirtioIo` name the places of
their buffers, so that one assumption can speak of them.

Only model-checked:

* the liveness properties `RxRaised`, `InputDrains`, `TxDrains`, `RequestsEnd` and
  `DeadlineFires`, which the prover cannot do;
* `exec`: it is exhaustive at the real widths, so that a proof would add nothing;
* `TvalNamesFault`, which is false.

## 5. Not modelled

* The 64-bit arithmetic behind the terms of `Exec` and the floating-point
  arithmetic: they are Rust's own operations, and at the small widths TLC can
  enumerate they would say nothing of the code.  Of the R-type instructions the
  tables are modelled and no property is about them, except where a compressed
  instruction expands to one.
* `flash.rs`: one variable of three values that each command assigns; program and
  erase are ignored by the code.  Any property would restate an assignment.
* `dram.rs` and `mrom.rs`: bounds-checked byte arrays.
* The address decoding of `bus.rs`: a total function without state.  `VmAccess` has its
  answers for DRAM, MROM and unknown addresses; loads and stores that reach device
  registers are in the modules of the devices.
* The PLIC lock as held state: in `UartIrq` each critical section of the CPU thread is one
  step, so that nesting the two locks the other way round is not something the
  properties would find.  The CPU thread does not nest them (`uart.rs:242`, `bus.rs:170`).
* Start-up in `main.rs`: I/O before the threads start.
* Of the CSR file, `satp`, the counters and triggers, which are stored and returned.
* Of the virtio devices, feature negotiation, the selector registers and the
  configuration space, which `process_queue` does not read.

## 6. Plan

Done, in the order of importance: interrupt delivery from UART to hart
(`Plic`, `UartIrq`), traps and privilege (`Csr`, `Hart`), the block queue
(`VirtioBlk`, `VirtioQueue`), memory accesses (`VmAccess`, `Mmu`), timers
(`Clint`), atomics (`LrSc`), the data of virtio requests and the RNG (`VirtioData`,
`VirtioIo`), decoding and execution (`Exec`, `ExecBase`), the floating-point state
(`FpUnit`, `FpTasks`).

Every invariant and action property of the runs is proved for all values of the
constants, except those under "Only model-checked".

To come: a composition of `Hart` with the lines of `Plic` and `Clint`, where an external
interrupt is followed from the device to the trap and back.
