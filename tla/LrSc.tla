-------------------------------- MODULE LrSc --------------------------------
(***************************************************************************)
(* The LR/SC reservation of src/cpu.rs: the instructions, traps and        *)
(* returns that set, check or clear it, and the tasks of a guest that use  *)
(* it to add to shared counters.                                           *)
(*                                                                         *)
(* One action is one call of Cpu::step.  Addresses are words; a doubleword *)
(* is WordsPerDW of them.  An instruction that fails on the way is Trap.   *)
(* The page walks of an instruction may write accessed and dirty bits of   *)
(* page table entries, by an ordinary bus write, before it takes effect.   *)
(*                                                                         *)
(* The tasks are guest software and external: each loads a word with LR    *)
(* and stores it incremented with SC, the kernel switches tasks in a trap  *)
(* at any point, and ordinary stores do not go to the words in Counters.   *)
(***************************************************************************)
EXTENDS Naturals

CONSTANTS
    Words,        \* word addresses
    Counters,     \* words that the tasks add to
    WordsPerDW,   \* 2 in the code
    Tasks,
    MaxAdds       \* bound on the additions to each counter

ASSUME LrScAssumption ==
    /\ Words \subseteq Nat /\ Counters \subseteq Words
    /\ WordsPerDW \in Nat \ {0} /\ MaxAdds \in Nat

\* The doubleword of a word: addr & !0x7
DW(addr) == addr \div WordsPerDW

\* Doublewords without a counter: data and page tables
DWords == {DW(w) : w \in Words}
Others == DWords \ {DW(w) : w \in Counters}

VARIABLES
    reservation,   \* Option of the code: {} or {d}
    mem,           \* value of each counter
    handler,       \* the hart is in a trap handler
    task,          \* the task that runs, or was interrupted
    loaded,        \* task -> {} or the word and value of the LR it has to match
    adds,          \* history: counter -> completed additions
    since          \* history: what happened to the reserved doubleword since LR

guestVars == <<task, loaded, adds>>
lrscVars == <<reservation, mem, handler, guestVars, since>>

Loads == [at : Words, value : 0 .. MaxAdds]

LrScTypeOK ==
    /\ reservation \in {{}} \cup {{d} : d \in DWords}
    /\ mem \in [Counters -> 0 .. MaxAdds] /\ adds \in [Counters -> 0 .. MaxAdds]
    /\ handler \in BOOLEAN /\ task \in Tasks
    /\ loaded \in [Tasks -> {{}} \cup {{l} : l \in Loads}]
    /\ since \subseteq {"store", "amo", "cbo", "ad", "trap", "return"}

LrScInit ==
    /\ reservation = {}
    /\ mem = [w \in Counters |-> 0] /\ adds = [w \in Counters |-> 0]
    /\ handler = FALSE /\ task \in Tasks
    /\ loaded = [t \in Tasks |-> {}]
    /\ since = {}

-----------------------------------------------------------------------------
\* Mutant of clear_reservation: forgets to.
clear_reservation_not == reservation' = reservation
clear_reservation     == reservation' = {}

set_reservation(addr)   == reservation' = {DW(addr)}
check_reservation(addr) == DW(addr) \in reservation

\* The doublewords in set are written by a write of this kind.
Wrote(kind, set) == since' = IF reservation \cap set # {} THEN since \cup {kind} ELSE since

-----------------------------------------------------------------------------
\* LR.W and LR.D
LR(w) ==
    /\ set_reservation(w)
    /\ since' = {}
    /\ loaded' = [loaded EXCEPT ![task] =
                     {[at |-> w, value |-> IF w \in Counters THEN mem[w] ELSE 0]}]
    /\ UNCHANGED <<mem, handler, task, adds>>

Added(f, w) == IF w \in Counters THEN [f EXCEPT ![w] = @ + 1] ELSE f
Room(w)     == w \in Counters => mem[w] < MaxAdds /\ adds[w] < MaxAdds

\* SC.W and SC.D of the word l.at, which the task has loaded.
SC(l) ==
    /\ l \in loaded[task] /\ Room(l.at) /\ l.value < MaxAdds
    /\ IF check_reservation(l.at)
       THEN /\ mem' = IF l.at \in Counters THEN [mem EXCEPT ![l.at] = l.value + 1] ELSE mem
            /\ adds' = Added(adds, l.at)
       ELSE UNCHANGED <<mem, adds>>
    /\ clear_reservation
    /\ loaded' = [loaded EXCEPT ![task] = {}]
    /\ UNCHANGED <<handler, task, since>>

\* Mutant of AMO: does not clear the reservation.
AMO_keeps(w) ==
    /\ Room(w)
    /\ mem' = Added(mem, w) /\ adds' = Added(adds, w)
    /\ Wrote("amo", {DW(w)})
    /\ UNCHANGED <<reservation, handler, task, loaded>>

\* AMOADD with 1; the other operations change the value in another way.
AMO(w) ==
    /\ Room(w)
    /\ mem' = Added(mem, w) /\ adds' = Added(adds, w)
    /\ Wrote("amo", {DW(w)})
    /\ clear_reservation
    /\ UNCHANGED <<handler, task, loaded>>

\* A store, integer, floating-point or compressed; it may straddle doublewords.
Store(set) ==
    /\ Wrote("store", set)
    /\ clear_reservation
    /\ UNCHANGED <<mem, handler, guestVars>>

\* cbo.zero does not touch the reservation.
CboZero(set) ==
    /\ Wrote("cbo", set)
    /\ UNCHANGED <<reservation, mem, handler, guestVars>>

\* An instruction without an effect modelled here whose page walk writes an
\* entry in doubleword d: the reservation is left as it is.  (A walk of one of the
\* other instructions is this action and then that one.)
AdUpdate(d) ==
    /\ Wrote("ad", {d})
    /\ UNCHANGED <<reservation, mem, handler, guestVars>>

\* handle_trap, from a task or from the handler
Trap ==
    /\ handler' = TRUE
    /\ since' = since \cup {"trap"}
    /\ clear_reservation
    /\ UNCHANGED <<mem, guestVars>>

\* MRET and SRET: back to the interrupted task, or to another
Return(t) ==
    /\ handler /\ handler' = FALSE /\ task' = t
    /\ since' = since \cup {"return"}
    /\ clear_reservation
    /\ UNCHANGED <<mem, loaded, adds>>

Instruction ==
    \/ ~handler /\ \E w \in Words : LR(w)
    \/ ~handler /\ \E l \in Loads : SC(l)
    \/ \E w \in Words : AMO(w)
    \/ \E set \in SUBSET Others : Store(set)
    \/ \E set \in SUBSET Others : CboZero(set)
    \/ \E d \in Others : AdUpdate(d)
    \/ \E t \in Tasks : Return(t)

LrScNext == Instruction \/ Trap

LrScSpec == LrScInit /\ [][LrScNext]_lrscVars

-----------------------------------------------------------------------------
\* While a reservation is held, so that SC would succeed, its doubleword has
\* been written by nothing but cbo.zero or the page walker since the LR, and
\* the hart has neither trapped nor returned: every store, AMO, SC, trap and
\* return clears it.
ReservationHolds == reservation # {} => since \subseteq {"cbo", "ad"}

\* No addition is lost: with tasks that are switched between their LR and SC,
\* even to one that is itself between LR and SC of a word in the same
\* doubleword, a counter has the value of the additions that succeeded.
CountersExact == mem = adds

\* The strengthening under which CountersExact is inductive: a reservation
\* belongs to the running task, whose loaded value is still the current one.
ReservationOwned ==
    reservation # {} =>
        /\ ~handler
        /\ \E l \in Loads : /\ loaded[task] = {l} /\ reservation = {DW(l.at)}
                            /\ l.at \in Counters => l.value = mem[l.at]
=============================================================================
