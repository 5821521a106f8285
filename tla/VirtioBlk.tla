----------------------------- MODULE VirtioBlk ------------------------------
(***************************************************************************)
(* The virtio block device (src/virtio.rs) with its bus wiring (src/bus.rs)*)
(* and IRQ 2 of the PLIC.                                                  *)
(*                                                                         *)
(* A store to QUEUE_NOTIFY runs process_queue to its end on the CPU thread *)
(* before the next guest instruction; here one action per iteration of its *)
(* loop.  A request is a descriptor chain, named by its head and abstracted*)
(* to how process_queue ends on it:                                        *)
(*   "ok"     served, status byte 0 (VIRTIO_BLK_S_OK);                     *)
(*   "ioerr"  out of range, I/O error or unknown type: status byte 2;      *)
(*   "bad"    a malformed chain or an address outside DRAM: Err.           *)
(***************************************************************************)
EXTENDS Naturals

CONSTANTS
    N,      \* queue size that the driver sets
    W,      \* ring indices are modulo W: 2^16 in the code
    Kinds   \* kinds of requests that the driver makes

ASSUME BlkAssumption ==
    /\ N \in Nat \ {0} /\ W \in Nat /\ W > N
    /\ W % N = 0        \* virtio requires N to be a power of 2
    /\ Kinds \subseteq {"ok", "ioerr", "bad"}

MaxRuns == 2            \* executions of a request are counted up to this

Heads == 0 .. N - 1

VARIABLES
    \* the virtqueue in guest memory
    avail_ring, avail_idx, no_interrupt, used_ring, used_idx,
    request,             \* head -> kind of its chain
    status,              \* head -> its status byte, "unset" before the device writes it
    \* the device's registers
    queue_num, queue_pfn, interrupt_status,
    \* process_queue: running, and its local used_idx
    running, cur,
    irq_pending,         \* PLIC pending bit of IRQ 2
    runs                 \* history: head -> how often its request was executed

memVars == <<avail_ring, avail_idx, no_interrupt, used_ring, used_idx, request, status>>
regVars == <<queue_num, queue_pfn, interrupt_status>>
blkVars == <<memVars, regVars, running, cur, irq_pending, runs>>

BlkTypeOK ==
    /\ avail_ring \in [Heads -> Heads] /\ used_ring \in [Heads -> Heads]
    /\ avail_idx \in 0 .. W - 1 /\ used_idx \in 0 .. W - 1 /\ cur \in 0 .. W - 1
    /\ no_interrupt \in BOOLEAN /\ queue_pfn \in BOOLEAN
    /\ running \in BOOLEAN /\ irq_pending \in BOOLEAN
    /\ request \in [Heads -> {"ok", "ioerr", "bad"}]
    /\ status \in [Heads -> {"unset", "ok", "ioerr"}]
    /\ queue_num \in {0, N} /\ interrupt_status \in {0, 1}
    /\ runs \in [Heads -> 0 .. MaxRuns]
    /\ running => queue_pfn

BlkInit ==
    /\ avail_ring = [i \in Heads |-> 0] /\ avail_idx = 0
    /\ no_interrupt = FALSE
    /\ used_ring = [i \in Heads |-> 0] /\ used_idx = 0
    /\ request = [h \in Heads |-> "ok"] /\ status = [h \in Heads |-> "unset"]
    /\ queue_num = 0 /\ queue_pfn = FALSE /\ interrupt_status = 0
    /\ running = FALSE /\ cur = 0
    /\ irq_pending = FALSE
    /\ runs = [h \in Heads |-> 0]

-----------------------------------------------------------------------------
\* Register writes.  QUEUE_NUM:
WriteQueueNum(n) ==
    /\ queue_num' = n
    /\ UNCHANGED <<queue_pfn, interrupt_status, irq_pending>>

\* QUEUE_PFN; the page number is abstracted to being nonzero.
WriteQueuePfn(set) ==
    /\ queue_pfn' = set
    /\ UNCHANGED <<queue_num, interrupt_status, irq_pending>>

\* STATUS with 0: device reset.  The PLIC keeps its pending bit.
WriteStatusReset ==
    /\ queue_num' = 0 /\ queue_pfn' = FALSE /\ interrupt_status' = 0
    /\ UNCHANGED irq_pending

\* Mutant of WriteAck: the bus does not update the PLIC.
WriteAck_plicKept(value) ==
    /\ interrupt_status' = IF value = 1 THEN 0 ELSE interrupt_status
    /\ UNCHANGED <<queue_num, queue_pfn, irq_pending>>

\* INTERRUPT_ACK: the bits of value are cleared, and the bus sets or clears
\* the PLIC's pending bit by what remains.
WriteAck(value) ==
    /\ interrupt_status' = IF value = 1 THEN 0 ELSE interrupt_status
    /\ irq_pending' = (interrupt_status' # 0)
    /\ UNCHANGED <<queue_num, queue_pfn>>

-----------------------------------------------------------------------------
\* QUEUE_NOTIFY with 0.  process_queue returns at once when no queue is set up
\* or nothing is available.
Notify ==
    /\ ~running
    /\ running' = (queue_pfn /\ avail_idx # used_idx)
    /\ cur' = used_idx
    /\ UNCHANGED <<memVars, regVars, irq_pending, runs>>

head_desc_idx == avail_ring[cur % N]

\* history: the request h is executed
RunOnce(h) == [runs EXCEPT ![h] = IF @ < MaxRuns THEN @ + 1 ELSE @]

\* Mutants of Serve: the used entry always goes to the slot where the call
\* started; the index does not wrap.
Serve_oneSlot ==
    /\ running /\ cur # avail_idx /\ request[head_desc_idx] # "bad"
    /\ status' = [status EXCEPT ![head_desc_idx] = request[head_desc_idx]]
    /\ runs' = RunOnce(head_desc_idx)
    /\ used_ring' = [used_ring EXCEPT ![used_idx % N] = head_desc_idx]
    /\ cur' = (cur + 1) % W
    /\ UNCHANGED <<avail_ring, avail_idx, no_interrupt, used_idx, request,
                   regVars, running, irq_pending>>
Serve_noWrap ==
    /\ running /\ cur # avail_idx /\ request[head_desc_idx] # "bad"
    /\ status' = [status EXCEPT ![head_desc_idx] = request[head_desc_idx]]
    /\ runs' = RunOnce(head_desc_idx)
    /\ used_ring' = [used_ring EXCEPT ![cur % N] = head_desc_idx]
    /\ cur' = cur + 1
    /\ UNCHANGED <<avail_ring, avail_idx, no_interrupt, used_idx, request,
                   regVars, running, irq_pending>>

\* One iteration: execute the request, write its status byte and its entry in
\* the used ring.  The used index in memory is not touched yet.
Serve ==
    /\ running /\ cur # avail_idx /\ request[head_desc_idx] # "bad"
    /\ status' = [status EXCEPT ![head_desc_idx] = request[head_desc_idx]]
    /\ runs' = RunOnce(head_desc_idx)
    /\ used_ring' = [used_ring EXCEPT ![cur % N] = head_desc_idx]
    /\ cur' = (cur + 1) % W
    /\ UNCHANGED <<avail_ring, avail_idx, no_interrupt, used_idx, request,
                   regVars, running, irq_pending>>

\* Mutant of ServeBad: what was executed is published although a later
\* request failed, and the failed one with it.
ServeBad_publishes ==
    /\ running /\ cur # avail_idx /\ request[head_desc_idx] = "bad"
    /\ running' = FALSE
    /\ used_idx' = (cur + 1) % W
    /\ runs' \in {runs, RunOnce(head_desc_idx)}
    /\ UNCHANGED <<avail_ring, avail_idx, no_interrupt, used_ring, request, status,
                   regVars, cur, irq_pending>>

\* One iteration on a malformed request: `?` leaves process_queue with Err
\* (StoreAMOAccessFault in the guest), before the request was executed or after
\* it, at its status byte.  Nothing of this call is published.
ServeBad ==
    /\ running /\ cur # avail_idx /\ request[head_desc_idx] = "bad"
    /\ running' = FALSE
    /\ runs' \in {runs, RunOnce(head_desc_idx)}
    /\ UNCHANGED <<memVars, regVars, cur, irq_pending>>

\* Mutant of Publish: the interrupt callback is missing.
Publish_noCallback ==
    /\ running /\ cur = avail_idx
    /\ running' = FALSE
    /\ used_idx' = cur
    /\ interrupt_status' = IF no_interrupt THEN interrupt_status ELSE 1
    /\ UNCHANGED <<avail_ring, avail_idx, no_interrupt, used_ring, request, status,
                   queue_num, queue_pfn, cur, runs, irq_pending>>

\* The end of process_queue: the used index is written once for the whole
\* call, then trigger_interrupt unless the driver suppressed it.  (avail_flags
\* was read at the start of the call; the guest does not run in between.)
Publish ==
    /\ running /\ cur = avail_idx
    /\ running' = FALSE
    /\ used_idx' = cur
    /\ interrupt_status' = IF no_interrupt THEN interrupt_status ELSE 1
    /\ irq_pending' = IF no_interrupt THEN irq_pending ELSE TRUE
    /\ UNCHANGED <<avail_ring, avail_idx, no_interrupt, used_ring, request, status,
                   queue_num, queue_pfn, cur, runs>>
=============================================================================
