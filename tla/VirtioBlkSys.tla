---------------------------- MODULE VirtioBlkSys ----------------------------
(***************************************************************************)
(* The virtio block device with its driver.                                *)
(*                                                                         *)
(* The driver is guest software and external to the repository: it uses    *)
(* the queue as the virtio specification asks, sets up the queue before it *)
(* uses it, offers requests and notifies in any state of its handler,      *)
(* suppresses interrupts while it collects completions and looks once more *)
(* after it allowed them again, and may reset the device.  The hart's trap *)
(* into the handler and the PLIC claim are one step, TakeIrq.              *)
(***************************************************************************)
EXTENDS VirtioBlk, Sequences

VARIABLES
    drv,         \* "idle" or the step of the interrupt handler to come
    free,        \* heads that the driver may use
    last_used,   \* the driver's index into the used ring
    stale        \* history: IRQ 2 was pending when the device was reset

drvVars == <<drv, free, last_used, stale>>
vars == <<blkVars, drvVars>>

SysTypeOK ==
    /\ BlkTypeOK
    /\ drv \in {"idle", "ack", "disable", "collect", "recheck"}
    /\ free \subseteq Heads
    /\ last_used \in 0 .. W - 1
    /\ stale \in BOOLEAN
    /\ queue_pfn => queue_num = N   \* process_queue divides by queue_num

Init ==
    /\ BlkInit
    /\ drv = "idle" /\ free = Heads /\ last_used = 0 /\ stale = FALSE

-----------------------------------------------------------------------------
\* Set-up: the size, then a zeroed ring and its page number.
SetNum ==
    /\ ~running /\ queue_num = 0
    /\ WriteQueueNum(N)
    /\ UNCHANGED <<memVars, running, cur, runs, drvVars>>

SetPfn ==
    /\ ~running /\ queue_num = N /\ ~queue_pfn
    /\ WriteQueuePfn(TRUE)
    /\ avail_idx' = 0 /\ used_idx' = 0 /\ last_used' = 0 /\ no_interrupt' = FALSE
    /\ UNCHANGED <<avail_ring, used_ring, request, status, running, cur, runs,
                   drv, free, stale>>

Submit(h, kind) ==
    /\ ~running /\ queue_pfn /\ h \in free
    /\ free' = free \ {h}
    /\ request' = [request EXCEPT ![h] = kind]
    /\ status' = [status EXCEPT ![h] = "unset"]
    /\ runs' = [runs EXCEPT ![h] = 0]
    /\ avail_ring' = [avail_ring EXCEPT ![avail_idx % N] = h]
    /\ avail_idx' = (avail_idx + 1) % W
    /\ UNCHANGED <<no_interrupt, used_ring, used_idx, regVars, running, cur, irq_pending,
                   drv, last_used, stale>>

\* The driver notifies whenever it likes.
Kick == Notify /\ UNCHANGED drvVars

\* process_queue, inside the store to QUEUE_NOTIFY
Device == (Serve \/ ServeBad \/ Publish) /\ UNCHANGED drvVars

\* The external interrupt is taken and the PLIC claimed: pending is cleared.
TakeIrq ==
    /\ ~running /\ drv = "idle" /\ irq_pending
    /\ irq_pending' = FALSE
    /\ drv' = "ack"
    /\ UNCHANGED <<memVars, regVars, running, cur, runs, free, last_used, stale>>

\* The handler acknowledges what INTERRUPT_STATUS says; nothing to do if 0.
Ack ==
    /\ ~running /\ drv = "ack"
    /\ WriteAck(interrupt_status)
    /\ drv' = IF interrupt_status = 0 THEN "idle" ELSE "disable"
    /\ stale' = (stale /\ interrupt_status # 0)
    /\ UNCHANGED <<memVars, running, cur, runs, free, last_used>>

Disable ==
    /\ ~running /\ drv = "disable"
    /\ no_interrupt' = TRUE
    /\ drv' = "collect"
    /\ UNCHANGED <<avail_ring, avail_idx, used_ring, used_idx, request, status, regVars,
                   running, cur, irq_pending, runs, free, last_used, stale>>

Collect ==
    /\ ~running /\ drv = "collect" /\ last_used # used_idx
    /\ free' = free \cup {used_ring[last_used % N]}
    /\ last_used' = (last_used + 1) % W
    /\ UNCHANGED <<blkVars, drv, stale>>

Enable ==
    /\ ~running /\ drv = "collect" /\ last_used = used_idx
    /\ no_interrupt' = FALSE
    /\ drv' = "recheck"
    /\ UNCHANGED <<avail_ring, avail_idx, used_ring, used_idx, request, status, regVars,
                   running, cur, irq_pending, runs, free, last_used, stale>>

Recheck ==
    /\ ~running /\ drv = "recheck"
    /\ drv' = IF last_used = used_idx THEN "idle" ELSE "disable"
    /\ UNCHANGED <<blkVars, free, last_used, stale>>

\* The driver gives up its requests and resets the device.
Reset ==
    /\ ~running /\ queue_pfn
    /\ WriteStatusReset
    /\ drv' = "idle" /\ free' = Heads
    /\ avail_idx' = 0 /\ used_idx' = 0 /\ last_used' = 0 /\ no_interrupt' = FALSE
    /\ stale' = (stale \/ irq_pending)
    /\ UNCHANGED <<avail_ring, used_ring, request, status, running, cur, runs>>

Handler == TakeIrq \/ Ack \/ Disable \/ Collect \/ Enable \/ Recheck

Next ==
    \/ SetNum \/ SetPfn \/ Kick \/ Device \/ Handler \/ Reset
    \/ \E h \in Heads, kind \in Kinds : Submit(h, kind)

Spec == Init /\ [][Next]_vars

\* The CPU thread goes on with its store; the driver sets up, notifies what it
\* offered and takes its interrupts.
FairSpec ==
    /\ Spec
    /\ WF_vars(SetNum) /\ WF_vars(SetPfn)
    /\ WF_vars(Kick /\ avail_idx # used_idx) /\ WF_vars(Device) /\ WF_vars(Handler)

-----------------------------------------------------------------------------
Behind(from, to) == (to + W - from) % W
RingPart(ring, from, to) == [i \in 1 .. Behind(from, to) |-> ring[(from + i - 1) % N]]

\* The device implements the virtqueue of VirtioQueue: what is in the rings
\* between the indices, across their wrap-around, is completed all, in order
\* and once, although used_idx is published only at the end of process_queue.
Queue == INSTANCE VirtioQueue WITH
             inflight  <- RingPart(avail_ring, used_idx, avail_idx),
             completed <- RingPart(used_ring, last_used, used_idx)

ImplementsQueue == Queue!QSpec

\* Heads whose completion the driver can see and has not collected.
Visible == {used_ring[(last_used + i) % N] : i \in 0 .. Behind(last_used, used_idx) - 1}

\* Every completion that the driver sees is of a request that process_queue
\* executed exactly once since it was offered, with the status of that request.
\* A malformed request makes process_queue fail half-way, with entries already
\* in the used ring, and run what came before it again at the next notify;
\* neither it nor what was run twice is ever completed.
ExactlyOnce ==
    \A h \in Visible : runs[h] = 1 /\ status[h] = request[h]

\* No completion is left without an interrupt: when the driver waits and has
\* completions to collect, IRQ 2 is pending, whatever interleaving of
\* suppression, acknowledgement and notification came before.
CompletionSignalled ==
    drv = "idle" /\ last_used # used_idx => irq_pending

\* An interrupt with INTERRUPT_STATUS 0 comes only from a reset, which leaves
\* the PLIC's pending bit as it was.
NoSpuriousIrq ==
    irq_pending /\ interrupt_status = 0 => stale

\* A request offered to the device is completed and collected, or cancelled by
\* a reset, unless a malformed request stands in the queue.
RequestsEnd ==
    \A h \in Heads :
        (h \notin free) ~> (h \in free \/ \E g \in Heads \ free : request[g] = "bad")
=============================================================================
