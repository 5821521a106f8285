------------------------------ MODULE VmAccess ------------------------------
(***************************************************************************)
(* Loads, stores and instruction fetches through virtual addresses:        *)
(* load_va, store_va and fetch of src/cpu.rs.                              *)
(*                                                                         *)
(* An access inside one page is translated once and done by one bus access *)
(* (fast path); one that crosses a page boundary is translated and done    *)
(* byte by byte (slow path).  Mmu::translate is external to this module: a *)
(* table from virtual to physical pages, or NoPage for a page fault.  The  *)
(* guest's kernel changes the table between instructions.                  *)
(*                                                                         *)
(* A physical page is DRAM, MROM or nothing.  The bus answers a read of    *)
(* nothing with an error, of every width; of the writes to MROM or nothing *)
(* only write64 errs, the narrower ones are ignored and succeed.  Pages of *)
(* device registers are not in this module.                                *)
(***************************************************************************)
EXTENDS Integers, Sequences

CONSTANTS
    PageSize,   \* 0x1000 in the code
    VPages,     \* number of virtual pages; addresses wrap behind the last
    PPages,     \* number of physical pages
    Ram,        \* the physical pages that are DRAM
    Mrom,       \* those that are MROM, readable only
    Wide,       \* the size of the stores done by write64, 8 in the code
    Sizes,      \* access sizes in bytes
    Values,     \* values of a byte
    MromByte    \* the bytes of the MROM, which never change

NoPage == -1

ASSUME VmAssumption ==
    /\ PageSize \in Nat /\ PageSize % 2 = 0 /\ PageSize >= 4
    /\ VPages \in Nat \ {0} /\ PPages \in Nat \ {0}
    /\ Ram \subseteq 0 .. PPages - 1 /\ Mrom \subseteq 0 .. PPages - 1
    /\ Ram \cap Mrom = {}
    /\ Wide \in Nat /\ Wide > 1
    /\ Sizes \subseteq 1 .. PageSize
    /\ Values \subseteq 0 .. 255 /\ MromByte \in Values

VARIABLES
    table,   \* page table: virtual page -> physical page or NoPage
    mem,     \* physical memory, bytewise
    result   \* of the access under way, "none" between two of them

vmVars == <<table, mem, result>>

VAddrs == 0 .. VPages * PageSize - 1
PAddrs == {p \in 0 .. PPages * PageSize - 1 : p \div PageSize \in Ram \cup Mrom}

NoResult == [acc |-> "read", status |-> "none", va |-> 0, tval |-> 0, bytes |-> << >>]
Fault(acc, status, va, tval) ==
    [acc |-> acc, status |-> status, va |-> va, tval |-> tval, bytes |-> << >>]
Ok(acc, va, bytes) == [acc |-> acc, status |-> "ok", va |-> va, tval |-> 0, bytes |-> bytes]

VmTypeOK ==
    /\ table \in [0 .. VPages - 1 -> NoPage .. PPages - 1]
    /\ mem \in [PAddrs -> Values]
    /\ result.acc \in {"read", "write"}
    /\ result.status \in {"none", "ok", "pageFault", "accessFault", "misaligned"}
    /\ result.va \in VAddrs /\ result.tval \in VAddrs
    /\ result.status = "ok" <=> result.bytes # << >>

VmInit ==
    /\ table = [v \in 0 .. VPages - 1 |-> NoPage]
    /\ mem \in {[p \in PAddrs |-> IF p \div PageSize \in Mrom THEN MromByte ELSE x] : x \in Values}
    /\ result = NoResult

-----------------------------------------------------------------------------
Page(addr) == addr \div PageSize

\* va.wrapping_add(i)
Plus(va, i) == (va + i) % (VPages * PageSize)

\* Mmu::translate succeeds, and the physical address that it returns
Mapped(va)    == table[Page(va)] # NoPage
PhysAddr(va) == table[Page(va)] * PageSize + (va % PageSize)

\* What the bus answers in physical page f.  Reads need memory or MROM, and so,
\* of the writes, write64 needs memory; the others ignore a byte that has no
\* place and succeed.
ReadStatus(f)    == IF f \in Ram \cup Mrom THEN "ok" ELSE "accessFault"
Write64Status(f) == IF f \in Ram THEN "ok" ELSE "accessFault"
BusStatus(acc, f, width) ==
    IF acc = "read" THEN ReadStatus(f)
    ELSE IF width = Wide THEN Write64Status(f) ELSE "ok"

\* How a bus access of width bytes through the translation of va ends.
ByteStatus(acc, va, width) ==
    IF Mapped(va) THEN BusStatus(acc, table[Page(va)], width) ELSE "pageFault"

FastPath(va, size) == (va % PageSize) + size <= PageSize

\* The width of the bus accesses: on the slow path single bytes.
Width(va, size) == IF FastPath(va, size) THEN size ELSE 1

\* Where byte i of the access is.
ByteAddr(va, size, i) ==
    IF FastPath(va, size) THEN PhysAddr(va) + i ELSE PhysAddr(Plus(va, i))

\* How many bytes are read or written before the access ends: on the fast
\* path all or none, on the slow path those before the first that faults.
Reach(acc, va, size) ==
    IF FastPath(va, size)
    THEN IF ByteStatus(acc, va, size) = "ok" THEN size ELSE 0
    ELSE CHOOSE n \in 0 .. size :
             /\ \A i \in 0 .. n - 1 : ByteStatus(acc, Plus(va, i), 1) = "ok"
             /\ n < size => ByteStatus(acc, Plus(va, n), 1) # "ok"

\* The end of an access that reached n bytes: all of them done, or the fault of
\* the first that could not be, with the address of the access, va, as tval.
Ended(acc, va, size, n, bytes) ==
    IF n = size THEN Ok(acc, va, bytes)
    ELSE Fault(acc, ByteStatus(acc, Plus(va, n), Width(va, size)), va, va)

load_va(va, size) ==
    LET n == Reach("read", va, size)
    IN  /\ result' = Ended("read", va, size, n,
               [i \in 1 .. size |-> IF i <= n THEN mem[ByteAddr(va, size, i - 1)] ELSE 0])
        /\ UNCHANGED <<table, mem>>

\* Mutant of store_va: the loop goes on after a byte that faults.
store_va_goesOn(va, size, bytes) ==
    /\ mem' = [p \in PAddrs |->
          LET hit == {i \in 1 .. size : /\ ByteStatus("write", Plus(va, i - 1), Width(va, size)) = "ok"
                                        /\ PhysAddr(Plus(va, i - 1)) = p /\ Page(p) \in Ram}
          IN  IF hit = {} THEN mem[p] ELSE bytes[CHOOSE i \in hit : TRUE]]
    /\ result' = Ended("write", va, size, Reach("write", va, size), bytes)
    /\ UNCHANGED table

\* The bytes that the bus takes are written where there is memory, and are lost
\* elsewhere.
store_va(va, size, bytes) ==
    LET n      == Reach("write", va, size)
        hit(p) == {i \in 1 .. n : ByteAddr(va, size, i - 1) = p}
    IN  /\ mem' = [p \in PAddrs |-> IF Page(p) \in Ram /\ hit(p) # {}
                                    THEN bytes[CHOOSE i \in hit(p) : TRUE] ELSE mem[p]]
        /\ result' = Ended("write", va, size, n, bytes)
        /\ UNCHANGED table

-----------------------------------------------------------------------------
\* The halfword at physical address pa, little-endian.
Half(pa) == <<mem[pa], mem[pa + 1]>>

\* (lower & 0x3) != 0x3
Compressed(pc) == mem[PhysAddr(pc)] % 4 # 3

\* Mutant of UpperAddr: the upper half of an instruction is taken from the
\* physical page of the lower one.
UpperAddr_noSplit(pc) ==
    LET pa == PhysAddr(pc) + 2 IN IF pa \in PAddrs THEN pa ELSE PhysAddr(pc)

\* upper_pa of fetch; called when both pages it may use are mapped.
UpperAddr(pc) ==
    IF pc % PageSize >= PageSize - 2 THEN PhysAddr(Plus(pc, 2)) ELSE PhysAddr(pc) + 2

\* How the two read16 of fetch end.
LowerStatus(pc) == ByteStatus("read", pc, 2)
UpperStatus(pc) ==
    IF pc % PageSize >= PageSize - 2 THEN ByteStatus("read", Plus(pc, 2), 2) ELSE "ok"

\* Every fault of fetch reports pc.
fetch(pc) ==
    /\ result' =
         CASE pc % 2 # 0 -> Fault("read", "misaligned", pc, pc)
           [] pc % 2 = 0 /\ LowerStatus(pc) # "ok" -> Fault("read", LowerStatus(pc), pc, pc)
           [] pc % 2 = 0 /\ LowerStatus(pc) = "ok" /\ Compressed(pc) ->
                 Ok("read", pc, Half(PhysAddr(pc)))
           [] OTHER -> IF UpperStatus(pc) # "ok" THEN Fault("read", UpperStatus(pc), pc, pc)
                       ELSE Ok("read", pc, Half(PhysAddr(pc)) \o Half(UpperAddr(pc)))
    /\ UNCHANGED <<table, mem>>

\* The guest's kernel edits the page table (external: supervisor software).
SetPage(v, p) ==
    /\ table[v] # p
    /\ table' = [table EXCEPT ![v] = p]
    /\ UNCHANGED <<mem, result>>

\* step goes on: the instruction takes the result, or handle_trap the fault.
Consume ==
    /\ result' = NoResult
    /\ UNCHANGED <<table, mem>>

\* The stored values: neighbouring bytes differ.
Patterns(size) ==
    {[i \in 1 .. size |-> IF i % 2 = 0 THEN x ELSE y] : x, y \in Values} \ {[i \in 1 .. size |-> x] : x \in Values}

VmNext ==
    \/ /\ result.status = "none"
       /\ \/ \E va \in VAddrs :
                \/ fetch(va)
                \/ \E size \in Sizes :
                      \/ load_va(va, size)
                      \/ \E bytes \in Patterns(size) : store_va(va, size, bytes)
          \/ \E v \in 0 .. VPages - 1, p \in NoPage .. PPages - 1 : SetPage(v, p)
    \/ /\ result.status # "none"
       /\ Consume

VmSpec == VmInit /\ [][VmNext]_vmVars

-----------------------------------------------------------------------------
\* The accesses that may lose bytes: stores that write64 does not do.
MayLose(r) == r.acc = "write" /\ Width(r.va, Len(r.bytes)) # Wide

\* A load, store or fetch that succeeds has read or written, byte for byte, the
\* memory behind the translation of each of its own virtual addresses, whether
\* it took the one-translation path or crossed into the next page.  The one
\* exception is the code's: a byte stored where there is no memory is lost
\* without a fault, unless the store is a doubleword inside one page.
AccessesItsBytes ==
    result.status = "ok" =>
        \A i \in 1 .. Len(result.bytes) :
            LET a == Plus(result.va, i - 1)
            IN  /\ Mapped(a)
                /\ \/ table[Page(a)] \notin Ram /\ MayLose(result)
                   \/ PhysAddr(a) \in PAddrs /\ result.bytes[i] = mem[PhysAddr(a)]

\* What an access may change: memory is changed by stores only, and never MROM;
\* by a store that succeeds, only at its own addresses; by one that takes a page
\* fault, only in the page of its address, because store_va writes byte by byte
\* across the boundary, and not at all when that page is the one that faults;
\* by one that takes an access fault, nowhere.
StoreStep ==
    \A p \in PAddrs :
        mem'[p] # mem[p] =>
            /\ Page(p) \in Ram /\ result'.acc = "write"
            /\ \/ /\ result'.status = "ok"
                  /\ \E i \in 1 .. Len(result'.bytes) : p = PhysAddr(Plus(result'.va, i - 1))
               \/ /\ result'.status = "pageFault"
                  /\ Mapped(result'.va) /\ Page(p) = table[Page(result'.va)]

StoresStayInPlace == [][StoreStep]_vmVars

\* "For an access fault, tval is the virtual address that raised it": after a
\* page fault, the page of tval is one that is not mapped.
TvalNamesFault ==
    result.status = "pageFault" => ~Mapped(result.tval)
=============================================================================
