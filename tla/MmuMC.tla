------------------------------- MODULE MmuMC --------------------------------
(***************************************************************************)
(* An instance of Mmu: three levels of two entries, a root table 0, a      *)
(* table 1 in memory and a table 2 in ROM; frames 4 .. 7 hold data.        *)
(***************************************************************************)
EXTENDS Mmu

Pte(flags, ppn) ==
    [v |-> "v" \in flags, r |-> "r" \in flags, w |-> "w" \in flags, x |-> "x" \in flags,
     u |-> "u" \in flags, a |-> "a" \in flags, d |-> "d" \in flags, ppn |-> ppn]

\* Pointers to each table and to a frame that is none, a write-only entry, and
\* leaves that are aligned at every level (4), up to level 1 (6) and at level 0
\* only (5).
MCPtes ==
    {Pte({}, 0), Pte({"v"}, 1), Pte({"v"}, 2), Pte({"v", "w"}, 4),
     Pte({"v", "r", "w"}, 4), Pte({"v", "r", "x", "u"}, 6), Pte({"v", "x"}, 4),
     Pte({"v", "r", "w", "u", "a", "d"}, 5), Pte({"v"}, 7)}

MCRomPte == [i \in 0 .. 1 |-> IF i = 0 THEN Pte({"v", "r", "u"}, 5)
                                       ELSE Pte({"v", "r", "w", "a", "d"}, 6)]

Ctx(mode, flags, mpp) ==
    [mode |-> mode, mprv |-> "mprv" \in flags, mpp |-> mpp,
     sum |-> "sum" \in flags, mxr |-> "mxr" \in flags, paging |-> "bare" \notin flags]

\* MPP is set and MPRV is too where it must not matter.
MCCtxs ==
    {Ctx(User, {"mprv"}, Machine), Ctx(User, {"mxr"}, User), Ctx(Supervisor, {"bare"}, User),
     Ctx(Supervisor, {}, User), Ctx(Supervisor, {"sum", "mxr"}, Machine),
     Ctx(Hypervisor, {}, User), Ctx(Machine, {}, User),
     Ctx(Machine, {"mprv"}, User), Ctx(Machine, {"mprv", "sum"}, Supervisor)}
=============================================================================
