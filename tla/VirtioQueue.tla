---------------------------- MODULE VirtioQueue -----------------------------
(***************************************************************************)
(* What a virtqueue promises its driver: requests are completed in the     *)
(* order in which they were made available, in batches, each once, and the *)
(* driver gets its buffers back in that order.  Rings, indices and their   *)
(* wrap-around are not visible here.                                       *)
(***************************************************************************)
EXTENDS Naturals, Sequences

CONSTANT Heads    \* the descriptor heads that name requests

VARIABLES
    inflight,    \* made available, not completed, oldest first
    completed,   \* completed, not yet seen by the driver, oldest first
    free         \* heads that the driver may use

qvars == <<inflight, completed, free>>

QInit ==
    /\ inflight = << >>
    /\ completed = << >>
    /\ free = Heads

Offer(h) ==
    /\ h \in free
    /\ free' = free \ {h}
    /\ inflight' = Append(inflight, h)
    /\ UNCHANGED completed

\* The device completes everything that is available, in order.
CompleteAll ==
    /\ inflight # << >>
    /\ completed' = completed \o inflight
    /\ inflight' = << >>
    /\ UNCHANGED free

Collect ==
    /\ completed # << >>
    /\ free' = free \cup {Head(completed)}
    /\ completed' = Tail(completed)
    /\ UNCHANGED inflight

\* A reset cancels every request.
Cancel ==
    /\ inflight' = << >>
    /\ completed' = << >>
    /\ free' = Heads

QNext == (\E h \in Heads : Offer(h)) \/ CompleteAll \/ Collect \/ Cancel

QSpec == QInit /\ [][QNext]_qvars
=============================================================================
