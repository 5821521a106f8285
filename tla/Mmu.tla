-------------------------------- MODULE Mmu ---------------------------------
(***************************************************************************)
(* Address translation of src/mmu.rs: the walk through Levels levels of    *)
(* page tables (translate_sv39, translate_sv48 and translate_sv57 are the  *)
(* same loop over three, four and five levels), the permission check and   *)
(* the update of the accessed and dirty bits.                              *)
(*                                                                         *)
(* Addresses are page numbers: the offset in the page is copied.  A page   *)
(* table is a frame with Entries entries.  There is no TLB: every access   *)
(* walks the tables, which the guest's kernel edits at any time.           *)
(***************************************************************************)
EXTENDS Naturals

CONSTANTS
    Levels,     \* 3, 4 or 5 in the code
    Entries,    \* entries of a table: 512 in the code
    Tables,     \* frames that hold page tables
    Rom,        \* those of Tables that the bus can only read
    Root,       \* the root table, from satp
    Frames,     \* physical page numbers of the instance
    Ptes,       \* entries that the kernel writes
    RomPte,     \* the entries of the tables in Rom
    Ctxs        \* privilege contexts of accesses

User == 0
Supervisor == 1
Hypervisor == 2
Machine == 3

AccessTypes == {"Instruction", "Load", "Store"}

PteRecords == [v : BOOLEAN, r : BOOLEAN, w : BOOLEAN, x : BOOLEAN, u : BOOLEAN,
               a : BOOLEAN, d : BOOLEAN, ppn : Frames]
CtxRecords == [mode : 0 .. 3, mprv : BOOLEAN, mpp : 0 .. 3, sum : BOOLEAN, mxr : BOOLEAN,
               paging : BOOLEAN]

Lvls  == 0 .. Levels - 1
Slots == Tables \X (0 .. Entries - 1)

ASSUME MmuAssumption ==
    /\ Levels \in Nat \ {0} /\ Entries \in Nat \ {0}
    /\ Frames \subseteq Nat /\ Tables \subseteq Frames
    /\ Rom \subseteq Tables /\ Root \in Tables \ Rom
    /\ Ptes \subseteq PteRecords /\ Ctxs \subseteq CtxRecords
    /\ RomPte \in [0 .. Entries - 1 -> PteRecords]

VARIABLES
    pt,       \* the page tables
    stored,   \* history: entries that a store went through since they were written
    dirtySet  \* history: entries that were written with D already set

vars == <<pt, stored, dirtySet>>

Invalid == [v |-> FALSE, r |-> FALSE, w |-> FALSE, x |-> FALSE, u |-> FALSE,
            a |-> FALSE, d |-> FALSE, ppn |-> Root]

MmuTypeOK ==
    /\ pt \in [Slots -> PteRecords]
    /\ stored \subseteq Slots /\ dirtySet \subseteq Slots

Init ==
    /\ pt = [s \in Slots |-> IF s[1] \in Rom THEN RomPte[s[2]] ELSE Invalid]
    /\ stored = {}
    /\ dirtySet = {s \in Slots : pt[s].d}

-----------------------------------------------------------------------------
\* Entries to the power n: the base pages below an entry of level n.
Span(n) == LET power[i \in 0 .. n] == IF i = 0 THEN 1 ELSE Entries * power[i - 1] IN power[n]

Vpns         == 0 .. Span(Levels) - 1
NonCanonical == Span(Levels)   \* stands for the addresses that are not canonical
Vpn(p, l)    == (p \div Span(l)) % Entries

Leaf(pte)   == pte.r \/ pte.w \/ pte.x
BadPte(pte) == ~pte.v \/ (~pte.r /\ pte.w)

\* MPRV is looked at in M-mode, and not for fetches.
EffectiveMode(c) == IF c.mode = Machine /\ c.mprv THEN c.mpp ELSE c.mode
NoTranslation(c, access) ==
    \/ c.mode = Machine /\ access = "Instruction"
    \/ EffectiveMode(c) = Machine
    \/ ~c.paging

\* Mutant of check_permissions: SUM lets S-mode fetch from user pages too.
check_permissions_sumFetch(pte, access, mode, c) ==
    /\ pte.u => mode # Supervisor \/ c.sum
    /\ ~pte.u => mode # User
    /\ CASE access = "Instruction" -> pte.x
         [] access = "Load"        -> pte.r \/ (c.mxr /\ pte.x)
         [] access = "Store"       -> pte.w

check_permissions(pte, access, mode, c) ==
    /\ pte.u => mode # Supervisor \/ c.sum
    /\ ~pte.u => mode # User
    /\ CASE access = "Instruction" -> ~(pte.u /\ mode = Supervisor) /\ pte.x
         [] access = "Load"        -> pte.r \/ (c.mxr /\ pte.x)
         [] access = "Store"       -> pte.w

\* A superpage starts at a multiple of its size.
Aligned(pte, l) == pte.ppn % Span(l) = 0

NoLeaf == [ok |-> FALSE, page |-> 0, slot |-> <<Root, 0>>]

\* The walk for page p: the physical page and the slot of the leaf, or NoLeaf.
\* Reading an entry outside the tables is a bus error.
Walk(p, access, c) ==
    LET walk[l \in Lvls] == [f \in Frames |->
          LET slot == <<f, Vpn(p, l)>>
              pte  == pt[slot]
          IN  IF f \notin Tables \/ BadPte(pte) THEN NoLeaf
              ELSE IF Leaf(pte)
              THEN IF check_permissions(pte, access, EffectiveMode(c), c) /\ Aligned(pte, l)
                   THEN [ok |-> TRUE, page |-> pte.ppn + (p % Span(l)), slot |-> slot]
                   ELSE NoLeaf
              ELSE IF l = 0 THEN NoLeaf ELSE walk[l - 1][pte.ppn]]
    IN  walk[Levels - 1][Root]

\* Mutant of Updated: D is looked at only when A is clear.
Updated_onlyFirst(pte, access) ==
    IF pte.a THEN pte ELSE [pte EXCEPT !.a = TRUE, !.d = @ \/ access = "Store"]

\* A on every access, D on a store.
Updated(pte, access) == [pte EXCEPT !.a = TRUE, !.d = @ \/ access = "Store"]

\* The entry cannot be written back although it has to be.
WriteFails(w, access) == Updated(pt[w.slot], access) # pt[w.slot] /\ w.slot[1] \in Rom

\* Mmu::translate of page p.  An address that is not canonical faults, so does
\* an access whose A/D update fails; without translation nothing is walked.
translate(p, access, c) ==
    LET t == Walk(p, access, c)
        walked == /\ ~NoTranslation(c, access) /\ p # NonCanonical
                  /\ t.ok /\ ~WriteFails(t, access)
    IN  /\ pt' = IF walked THEN [pt EXCEPT ![t.slot] = Updated(@, access)] ELSE pt
        /\ stored' = IF walked /\ access = "Store" THEN stored \cup {t.slot} ELSE stored
        /\ UNCHANGED dirtySet

\* The kernel writes an entry (external: supervisor software).
SetPte(s, pte) ==
    /\ s[1] \notin Rom /\ pt[s] # pte
    /\ pt' = [pt EXCEPT ![s] = pte]
    /\ stored' = stored \ {s}
    /\ dirtySet' = IF pte.d THEN dirtySet \cup {s} ELSE dirtySet \ {s}

Next ==
    \/ \E p \in Vpns \cup {NonCanonical}, access \in AccessTypes, c \in Ctxs :
          translate(p, access, c)
    \/ \E s \in Slots, pte \in Ptes : SetPte(s, pte)

Spec == Init /\ [][Next]_vars

-----------------------------------------------------------------------------
(* What the page tables mean, said without the loop. *)

\* The ways to a leaf of level k for page p: tables from the root down to level
\* k, each entry but the last pointing to the next table, and an aligned leaf at
\* the end.
Ways(p, k) ==
    {q \in [k .. Levels - 1 -> Tables] :
        /\ q[Levels - 1] = Root
        /\ \A l \in k + 1 .. Levels - 1 :
             LET e == pt[<<q[l], Vpn(p, l)>>]
             IN  e.v /\ ~Leaf(e) /\ e.ppn = q[l - 1]
        /\ LET e == pt[<<q[k], Vpn(p, k)>>]
           IN  e.v /\ (e.r \/ (e.x /\ ~e.w)) /\ e.ppn % Span(k) = 0}

\* The leaves that map page p, with the physical page that each gives.
LeavesOf(p) ==
    UNION {{[slot |-> <<q[k], Vpn(p, k)>>,
             page |-> pt[<<q[k], Vpn(p, k)>>].ppn + (p % Span(k))] : q \in Ways(p, k)} :
           k \in Lvls}

\* What a leaf grants: its owner's data and code, and user data to S-mode when
\* SUM is set; MXR adds loads of code.
Grants(pte, access, mode, c) ==
    /\ \/ access = "Instruction" /\ pte.x
       \/ access = "Load" /\ (pte.r \/ (pte.x /\ c.mxr))
       \/ access = "Store" /\ pte.w
    /\ IF pte.u THEN mode = User \/ (c.sum /\ access # "Instruction") ELSE mode = Supervisor

\* For every state of the tables, also ill-formed, shared and cyclic ones, the
\* walk of U-mode and S-mode accesses finds a page exactly when a chain of
\* tables leads to an aligned leaf that grants the access, and it is that page.
WalkFollowsTables ==
    \A p \in Vpns :
        LET leaves == LeavesOf(p)
        IN  \A access \in AccessTypes, c \in {d \in Ctxs : EffectiveMode(d) \in {User, Supervisor}} :
                LET w == Walk(p, access, c)
                    granted == {e \in leaves : Grants(pt[e.slot], access, EffectiveMode(c), c)}
                IN  granted = IF w.ok THEN {[slot |-> w.slot, page |-> w.page]} ELSE {}

\* The dirty bit of an entry tells whether a store went through it since the
\* kernel wrote it (or wrote it dirty): a store after loads sets it too, and
\* loads, fetches and faulting stores never do.  An entry in ROM never changes:
\* an access that would have to set its bits faults.
DirtyTracksStores ==
    /\ \A s \in Slots : pt[s].d <=> s \in stored \cup dirtySet
    /\ \A f \in Rom, i \in 0 .. Entries - 1 : pt[<<f, i>>] = RomPte[i]
=============================================================================
