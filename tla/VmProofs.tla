------------------------------ MODULE VmProofs ------------------------------
(***************************************************************************)
(* Proofs about virtual memory: the accesses of VmAccess, for every page   *)
(* size, every number of pages and all access sizes up to a page, and the  *)
(* walk of Mmu, for page tables of every depth and size.                   *)
(***************************************************************************)
EXTENDS VmAccess, Mmu, NatLemmas, SequenceTheorems, TLAPS

Offset(va) == va % PageSize
NextPage(va) == IF Page(va) + 1 = VPages THEN 0 ELSE Page(va) + 1

\* The constants.
LEMMA VmConstants ==
    /\ PageSize \in Nat /\ PageSize >= 4 /\ PageSize > 0 /\ PageSize % 2 = 0
    /\ VPages \in Nat /\ VPages > 0 /\ PPages \in Nat
    /\ VPages * PageSize \in Nat /\ PPages * PageSize \in Nat
    /\ Ram \subseteq 0 .. PPages - 1 /\ Mrom \subseteq 0 .. PPages - 1
    /\ Wide \in Nat /\ Wide # 1
    /\ \A size \in Sizes : size \in Nat /\ size > 0 /\ size <= PageSize
BY VmAssumption

\* An address below n pages is in one of them.
LEMMA PageOfSmall ==
    ASSUME NEW n \in Nat, NEW a \in Nat
    PROVE  a < n * PageSize <=> Page(a) < n
<1> DEFINE q == a \div PageSize
           r == a % PageSize
<1>1. a = q * PageSize + r /\ q \in Nat /\ r \in 0 .. PageSize - 1 /\ PageSize \in Nat
  BY VmConstants, Halves
<1> HIDE DEF q, r
<1>2. CASE q < n
  <2>1. (q + 1) * PageSize <= n * PageSize
    BY <1>1, <1>2, TimesMonotone
  <2>2. (q + 1) * PageSize = q * PageSize + PageSize /\ q * PageSize \in Nat /\ n * PageSize \in Nat
    BY <1>1
  <2> QED BY <1>1, <1>2, <2>1, <2>2 DEF Page, q
<1>3. CASE ~(q < n)
  <2>1. n * PageSize <= q * PageSize
    BY <1>1, <1>3, TimesMonotone
  <2>2. q * PageSize \in Nat /\ n * PageSize \in Nat
    BY <1>1
  <2> QED BY <1>1, <1>3, <2>1, <2>2 DEF Page, q
<1> QED BY <1>2, <1>3

\* Every virtual address is an offset in a virtual page.
LEMMA VAddrIs ==
    ASSUME NEW va \in VAddrs
    PROVE  /\ va \in Nat /\ va = Page(va) * PageSize + Offset(va)
           /\ Page(va) \in 0 .. VPages - 1 /\ Page(va) \in Nat
           /\ Offset(va) \in 0 .. PageSize - 1 /\ Offset(va) \in Nat
<1>1. va \in Nat /\ va < VPages * PageSize
  BY VmConstants DEF VAddrs
<1>2. va = Page(va) * PageSize + Offset(va) /\ Page(va) \in Nat /\ Offset(va) \in 0 .. PageSize - 1
  BY <1>1, VmConstants, Halves DEF Page, Offset
<1>3. Page(va) < VPages
  BY <1>1, VmConstants, PageOfSmall
<1> QED BY <1>1, <1>2, <1>3, VmConstants

\* Where the bytes of an access are: in the page of its address, or from the
\* start of the page behind it, which may be the first one.
LEMMA PlusIs ==
    ASSUME NEW va \in VAddrs, NEW i \in 0 .. PageSize
    PROVE  /\ Plus(va, i) \in VAddrs
           /\ Offset(va) + i < PageSize =>
                Page(Plus(va, i)) = Page(va) /\ Offset(Plus(va, i)) = Offset(va) + i
           /\ Offset(va) + i >= PageSize =>
                Page(Plus(va, i)) = NextPage(va) /\ Offset(Plus(va, i)) = Offset(va) + i - PageSize
<1> DEFINE q == Page(va)
           r == Offset(va)
           T == VPages * PageSize
<1>0. /\ va = q * PageSize + r /\ q \in Nat /\ q < VPages /\ r \in 0 .. PageSize - 1 /\ va \in Nat
      /\ PageSize \in Nat /\ PageSize > 0 /\ VPages \in Nat /\ T \in Nat /\ T > 0 /\ i \in Nat
  <2>1. 1 * PageSize <= VPages * PageSize
    BY VmConstants, TimesMonotone
  <2> QED BY <2>1, VAddrIs, VmConstants
<1>a. \A x \in Nat : x < T <=> Page(x) < VPages
  BY <1>0, PageOfSmall
<1>b. \A k \in Nat, s \in 0 .. PageSize - 1 :
        Page(k * PageSize + s) = k /\ Offset(k * PageSize + s) = s
  BY <1>0, HalvesUnique DEF Page, Offset
<1>c. Plus(va, i) = (va + i) % T
  BY DEF Plus
<1> HIDE DEF q, r, T
<1>1. CASE r + i < PageSize
  <2>1. va + i = q * PageSize + (r + i) /\ r + i \in 0 .. PageSize - 1 /\ va + i \in Nat
    BY <1>0, <1>1
  <2>2. Page(va + i) = q /\ Offset(va + i) = r + i
    BY <1>0, <1>b, <2>1
  <2>3. va + i < T
    BY <1>0, <1>a, <2>1, <2>2
  <2>4. Plus(va, i) = va + i
    BY <1>0, <1>c, <2>1, <2>3, SmallMod
  <2> QED BY <1>0, <1>1, <2>1, <2>2, <2>3, <2>4 DEF VAddrs, q, r, T
<1>2. CASE r + i >= PageSize
  <2> DEFINE s == r + i - PageSize
  <2>1. va + i = (q + 1) * PageSize + s /\ s \in 0 .. PageSize - 1 /\ va + i \in Nat
    BY <1>0, <1>2
  <2>2. Page(va + i) = q + 1 /\ Offset(va + i) = s
    BY <1>0, <1>b, <2>1
  <2>3. CASE q + 1 < VPages
    <3>1. va + i < T
      BY <1>0, <1>a, <2>1, <2>2, <2>3
    <3>2. Plus(va, i) = va + i
      BY <1>0, <1>c, <2>1, <3>1, SmallMod
    <3> QED BY <1>0, <1>2, <2>1, <2>2, <2>3, <3>1, <3>2 DEF VAddrs, NextPage, q, r, T
  <2>4. CASE q + 1 = VPages
    <3>1. va + i = 1 * T + s
      BY <1>0, <2>1, <2>4 DEF T
    <3>2. s < T
      <4>1. s = 0 * PageSize + s
        BY <1>0, <2>1
      <4>2. Page(s) = 0
        BY <1>0, <1>b, <2>1, <4>1
      <4> QED BY <1>0, <1>a, <2>1, <4>2
    <3>3. Plus(va, i) = s
      BY <1>0, <1>c, <2>1, <3>1, <3>2, HalvesUnique
    <3>4. Page(s) = 0 /\ Offset(s) = s
      <4>1. s = 0 * PageSize + s
        BY <1>0, <2>1
      <4> QED BY <1>0, <1>b, <2>1, <4>1
    <3> QED BY <1>0, <1>2, <2>1, <2>4, <3>2, <3>3, <3>4 DEF VAddrs, NextPage, q, r, T
  <2> QED BY <1>0, <2>3, <2>4
<1> QED BY <1>0, <1>1, <1>2 DEF r

-----------------------------------------------------------------------------
TableOK == table \in [0 .. VPages - 1 -> NoPage .. PPages - 1]

\* A mapped address is at its own offset of the page that the table names; a
\* read that succeeds found a page with bytes in it.
LEMMA PhysIs ==
    ASSUME TableOK, NEW va \in VAddrs
    PROVE  /\ \A acc, width : ByteStatus(acc, va, width) = "ok" => Mapped(va)
           /\ \A width : ByteStatus("read", va, width) = "ok" => table[Page(va)] \in Ram \cup Mrom
           /\ Mapped(va) =>
                /\ table[Page(va)] \in Nat
                /\ PhysAddr(va) = table[Page(va)] * PageSize + Offset(va)
                /\ PhysAddr(va) \in Nat
                /\ Page(PhysAddr(va)) = table[Page(va)]
                /\ Offset(PhysAddr(va)) = Offset(va)
                /\ PhysAddr(va) \in PAddrs <=> table[Page(va)] \in Ram \cup Mrom
<1> DEFINE f == table[Page(va)]
<1>1. f \in NoPage .. PPages - 1 /\ Page(va) \in 0 .. VPages - 1
  BY VAddrIs DEF TableOK
<1>2. /\ Mapped(va) <=> f # NoPage
      /\ PhysAddr(va) = f * PageSize + Offset(va)
  BY DEF Mapped, PhysAddr, Offset
<1>0. /\ \A acc, width : ByteStatus(acc, va, width) = "ok" => Mapped(va)
      /\ \A width : ByteStatus("read", va, width) = "ok" => f \in Ram \cup Mrom
  BY DEF ByteStatus, BusStatus, ReadStatus, Write64Status
<1> HIDE DEF f
<1>3. Mapped(va) => f \in Nat /\ f < PPages
  BY <1>1, <1>2, VmConstants DEF NoPage
<1>4. ASSUME Mapped(va)
      PROVE  Page(PhysAddr(va)) = f /\ Offset(PhysAddr(va)) = Offset(va) /\ PhysAddr(va) \in Nat
  <2>1. (f * PageSize + Offset(va)) \div PageSize = f /\ (f * PageSize + Offset(va)) % PageSize = Offset(va)
    BY <1>3, <1>4, VAddrIs, VmConstants, HalvesUnique
  <2>2. f * PageSize \in Nat
    BY <1>3, <1>4, VmConstants
  <2>3. PhysAddr(va) \in Nat
    BY <1>2, <2>2, VAddrIs
  <2>4. Page(PhysAddr(va)) = f
    BY <1>2, <2>1 DEF Page
  <2>5. Offset(PhysAddr(va)) = Offset(va)
    BY <1>2, <2>1 DEF Offset
  <2> QED BY <2>3, <2>4, <2>5
<1>5. ASSUME Mapped(va) PROVE PhysAddr(va) \in PAddrs <=> f \in Ram \cup Mrom
  <2>1. PhysAddr(va) \in Nat /\ Page(PhysAddr(va)) = f /\ f < PPages
    BY <1>3, <1>4, <1>5
  <2>2. PhysAddr(va) < PPages * PageSize
    BY <2>1, VmConstants, PageOfSmall
  <2> QED BY <2>1, <2>2, VmConstants DEF PAddrs, Page
<1> QED BY <1>0, <1>2, <1>3, <1>4, <1>5 DEF f

\* How far an access gets.
LEMMA ReachIs ==
    ASSUME NEW acc, NEW va \in VAddrs, NEW size \in Sizes
    PROVE  /\ Reach(acc, va, size) \in 0 .. size
           /\ FastPath(va, size) =>
                Reach(acc, va, size) = IF ByteStatus(acc, va, size) = "ok" THEN size ELSE 0
           /\ ~FastPath(va, size) =>
                /\ \A i \in 0 .. Reach(acc, va, size) - 1 : ByteStatus(acc, Plus(va, i), 1) = "ok"
                /\ Reach(acc, va, size) < size => ByteStatus(acc, Plus(va, Reach(acc, va, size)), 1) # "ok"
<1>0. size \in Nat /\ size > 0
  BY VmConstants
<1>1. CASE FastPath(va, size)
  BY <1>0, <1>1 DEF Reach
<1>2. CASE ~FastPath(va, size)
  <2> DEFINE T == {n \in 0 .. size : n = size \/ ByteStatus(acc, Plus(va, n), 1) # "ok"}
             P(n) == /\ \A i \in 0 .. n - 1 : ByteStatus(acc, Plus(va, i), 1) = "ok"
                     /\ n < size => ByteStatus(acc, Plus(va, n), 1) # "ok"
  <2>1. T \in SUBSET Nat /\ size \in T
    BY <1>0
  <2>2. PICK n \in T : \A m \in T : n <= m
    BY <2>1, LeastNat
  <2>3. P(n) /\ n \in 0 .. size
    <3>1. ASSUME NEW i \in 0 .. n - 1 PROVE ByteStatus(acc, Plus(va, i), 1) = "ok"
      <4>1. i \in 0 .. size /\ ~(n <= i)
        BY <1>0, <2>2
      <4> QED BY <2>2, <4>1
    <3> QED BY <1>0, <2>2, <3>1
  <2>4. Reach(acc, va, size) = CHOOSE m \in 0 .. size : P(m)
    BY <1>2 DEF Reach
  <2> HIDE DEF P
  <2>5. Reach(acc, va, size) \in 0 .. size /\ P(Reach(acc, va, size))
    BY <2>3, <2>4
  <2> QED BY <1>2, <2>5 DEF P
<1> QED BY <1>1, <1>2

\* The first byte of an access is at its address.
LEMMA PlusZero ==
    ASSUME NEW va \in VAddrs
    PROVE  Plus(va, 0) = va
<1>1. va \in Nat /\ va < VPages * PageSize /\ VPages * PageSize \in Nat
  BY VmConstants DEF VAddrs
<1> QED BY <1>1, SmallMod DEF Plus

\* Inside a page physical addresses follow the virtual ones.
LEMMA InPage ==
    ASSUME TableOK, NEW va \in VAddrs, NEW i \in Nat, Mapped(va), Offset(va) + i < PageSize
    PROVE  /\ Plus(va, i) \in VAddrs /\ Page(Plus(va, i)) = Page(va)
           /\ Mapped(Plus(va, i))
           /\ PhysAddr(Plus(va, i)) = PhysAddr(va) + i
<1>1. PageSize \in Nat /\ i \in 0 .. PageSize
  BY VAddrIs, VmConstants
<1>2. Plus(va, i) \in VAddrs /\ Page(Plus(va, i)) = Page(va) /\ Offset(Plus(va, i)) = Offset(va) + i
  BY <1>1, PlusIs
<1>3. Mapped(Plus(va, i))
  BY <1>2 DEF Mapped
<1> DEFINE f == table[Page(va)]
<1>4. PhysAddr(va) = f * PageSize + Offset(va) /\ f \in Nat
  BY PhysIs
<1>5. PhysAddr(Plus(va, i)) = f * PageSize + (Offset(va) + i)
  BY <1>2, <1>3, PhysIs
<1> HIDE DEF f
<1>6. f * PageSize \in Nat /\ Offset(va) \in Nat
  BY <1>1, <1>4, VAddrIs
<1> QED BY <1>2, <1>3, <1>4, <1>5, <1>6

\* The bytes that an access reaches are those of its own virtual addresses, on
\* both paths, and the bus took them.
LEMMA BytesDone ==
    ASSUME TableOK, NEW acc, NEW va \in VAddrs, NEW size \in Sizes,
           NEW i \in 0 .. Reach(acc, va, size) - 1
    PROVE  /\ i \in 0 .. size - 1 /\ i \in 0 .. PageSize - 1
           /\ Plus(va, i) \in VAddrs
           /\ ByteStatus(acc, Plus(va, i), Width(va, size)) = "ok"
           /\ Mapped(Plus(va, i))
           /\ ByteAddr(va, size, i) = PhysAddr(Plus(va, i))
<1>1. i \in Nat /\ i < size /\ size <= PageSize /\ size \in Nat /\ PageSize \in Nat
  BY ReachIs, VmConstants
<1>2. CASE FastPath(va, size)
  <2>1. Offset(va) + i < PageSize
    BY <1>1, <1>2, VAddrIs DEF FastPath, Offset
  <2>2. ByteStatus(acc, va, size) = "ok" /\ Mapped(va)
    BY <1>1, <1>2, ReachIs, PhysIs
  <2>3. /\ Plus(va, i) \in VAddrs /\ Page(Plus(va, i)) = Page(va)
        /\ Mapped(Plus(va, i)) /\ PhysAddr(Plus(va, i)) = PhysAddr(va) + i
    BY <1>1, <2>1, <2>2, InPage
  <2>4. ByteStatus(acc, Plus(va, i), size) = "ok"
    BY <2>2, <2>3 DEF ByteStatus
  <2> QED BY <1>1, <1>2, <2>3, <2>4 DEF ByteAddr, Width
<1>3. CASE ~FastPath(va, size)
  <2>1. Plus(va, i) \in VAddrs
    BY <1>1, PlusIs
  <2>2. ByteStatus(acc, Plus(va, i), 1) = "ok"
    BY <1>3, ReachIs
  <2>3. Mapped(Plus(va, i))
    BY <2>1, <2>2, PhysIs
  <2> QED BY <1>1, <1>3, <2>1, <2>2, <2>3 DEF ByteAddr, Width
<1> QED BY <1>2, <1>3

\* Two bytes of an access are at different places, also where two virtual pages
\* share a frame.
LEMMA BytesApart ==
    ASSUME TableOK, NEW acc, NEW va \in VAddrs, NEW size \in Sizes,
           NEW i \in 0 .. Reach(acc, va, size) - 1, NEW j \in 0 .. Reach(acc, va, size) - 1,
           ByteAddr(va, size, i) = ByteAddr(va, size, j)
    PROVE  i = j
<1>1. /\ i \in 0 .. PageSize - 1 /\ Plus(va, i) \in VAddrs /\ Mapped(Plus(va, i))
      /\ ByteAddr(va, size, i) = PhysAddr(Plus(va, i))
      /\ j \in 0 .. PageSize - 1 /\ Plus(va, j) \in VAddrs /\ Mapped(Plus(va, j))
      /\ ByteAddr(va, size, j) = PhysAddr(Plus(va, j))
  BY BytesDone
<1>3. Offset(Plus(va, i)) = Offset(Plus(va, j))
  BY <1>1, PhysIs
<1>4. /\ i \in 0 .. PageSize /\ j \in 0 .. PageSize /\ PageSize \in Nat /\ Offset(va) \in Nat
      /\ Offset(va) + i \in Nat /\ Offset(va) + j \in Nat
  BY <1>1, VAddrIs, VmConstants
<1>5. ASSUME NEW k \in 0 .. PageSize
      PROVE  Offset(Plus(va, k)) = IF Offset(va) + k < PageSize THEN Offset(va) + k
                                   ELSE Offset(va) + k - PageSize
  <2>1. CASE Offset(va) + k < PageSize
    BY <2>1, PlusIs
  <2>2. CASE ~(Offset(va) + k < PageSize)
    <3>1. Offset(va) + k >= PageSize
      BY <1>4, <2>2
    <3> QED BY <2>2, <3>1, PlusIs
  <2> QED BY <2>1, <2>2
<1> DEFINE o == Offset(va)
<1>6. /\ Offset(Plus(va, i)) = IF o + i < PageSize THEN o + i ELSE o + i - PageSize
      /\ Offset(Plus(va, j)) = IF o + j < PageSize THEN o + j ELSE o + j - PageSize
  BY <1>4, <1>5
<1>7. o \in Nat
  BY <1>4
<1> HIDE DEF o
<1>8. i < PageSize /\ j < PageSize /\ i \in Nat /\ j \in Nat /\ PageSize \in Nat
  BY <1>1, <1>4
<1>9. (IF o + i < PageSize THEN o + i ELSE o + i - PageSize) =
      (IF o + j < PageSize THEN o + j ELSE o + j - PageSize)
  BY <1>3, <1>6
<1> QED BY <1>7, <1>8, <1>9

\* An access that does not reach its end stopped at a byte that faults.
LEMMA EndedIs ==
    ASSUME NEW acc, NEW va \in VAddrs, NEW size \in Sizes, NEW bytes, NEW r,
           r = Ended(acc, va, size, Reach(acc, va, size), bytes)
    PROVE  /\ r.va = va /\ r.acc = acc
           /\ r.status = "ok" => Reach(acc, va, size) = size /\ r.bytes = bytes
           /\ r.status # "ok" =>
                /\ Reach(acc, va, size) # size
                /\ r.status = ByteStatus(acc, Plus(va, Reach(acc, va, size)), Width(va, size))
<1>1. CASE Reach(acc, va, size) = size
  BY <1>1 DEF Ended, Ok
<1>2. CASE Reach(acc, va, size) # size
  <2>1. ByteStatus(acc, Plus(va, Reach(acc, va, size)), Width(va, size)) # "ok"
    <3>1. CASE FastPath(va, size)
      BY <1>2, <3>1, ReachIs, PlusZero DEF Width
    <3>2. CASE ~FastPath(va, size)
      BY <1>2, <3>2, ReachIs, VmConstants DEF Width
    <3> QED BY <3>1, <3>2
  <2> QED BY <1>2, <2>1 DEF Ended, Fault
<1> QED BY <1>1, <1>2

-----------------------------------------------------------------------------
\* What AccessesItsBytes says of a result r, in memory m.
BytesAre(r, m) ==
    \A i \in 1 .. Len(r.bytes) :
        LET a == Plus(r.va, i - 1)
        IN  /\ Mapped(a)
            /\ \/ table[Page(a)] \notin Ram /\ MayLose(r)
               \/ PhysAddr(a) \in PAddrs /\ r.bytes[i] = m[PhysAddr(a)]

\* A load that succeeds.
LEMMA LoadDone ==
    ASSUME TableOK, NEW va \in VAddrs, NEW size \in Sizes, load_va(va, size), result'.status = "ok"
    PROVE  BytesAre(result', mem')
<1> DEFINE n == Reach("read", va, size)
           bytes == [i \in 1 .. size |-> IF i <= n THEN mem[ByteAddr(va, size, i - 1)] ELSE 0]
<1>0. size \in Nat
  BY VmConstants
<1>1. result' = Ended("read", va, size, n, bytes) /\ mem' = mem
  BY DEF load_va
<1>2. Len(bytes) = size
  BY <1>0
<1>3. \A i \in 1 .. size : bytes[i] = IF i <= n THEN mem[ByteAddr(va, size, i - 1)] ELSE 0
  OBVIOUS
<1> HIDE DEF bytes
<1>4. result'.va = va /\ result'.bytes = bytes /\ n = size
  BY <1>1, EndedIs
<1>5. ASSUME NEW i \in 1 .. size
      PROVE  /\ Mapped(Plus(va, i - 1)) /\ PhysAddr(Plus(va, i - 1)) \in PAddrs
             /\ bytes[i] = mem[PhysAddr(Plus(va, i - 1))]
  <2>1. i - 1 \in 0 .. n - 1 /\ i <= n
    BY <1>0, <1>4
  <2>2. /\ ByteStatus("read", Plus(va, i - 1), Width(va, size)) = "ok"
        /\ ByteAddr(va, size, i - 1) = PhysAddr(Plus(va, i - 1))
        /\ Plus(va, i - 1) \in VAddrs
    BY <2>1, BytesDone
  <2>3. Mapped(Plus(va, i - 1)) /\ PhysAddr(Plus(va, i - 1)) \in PAddrs
    BY <2>2, PhysIs
  <2> QED BY <1>3, <2>1, <2>2, <2>3
<1> QED BY <1>1, <1>2, <1>4, <1>5 DEF BytesAre

\* What a store does to memory, and where its bytes are.
LEMMA StoreIs ==
    ASSUME TableOK, NEW va \in VAddrs, NEW size \in Sizes, NEW bytes, store_va(va, size, bytes)
    PROVE  /\ result' = Ended("write", va, size, Reach("write", va, size), bytes)
           /\ \A p \in PAddrs : mem'[p] # mem[p] =>
                /\ Page(p) \in Ram
                /\ \E i \in 1 .. Reach("write", va, size) : ByteAddr(va, size, i - 1) = p
           /\ \A i \in 1 .. Reach("write", va, size) :
                ByteAddr(va, size, i - 1) \in PAddrs /\ Page(ByteAddr(va, size, i - 1)) \in Ram =>
                    mem'[ByteAddr(va, size, i - 1)] = bytes[i]
<1> DEFINE n == Reach("write", va, size)
           hit(p) == {i \in 1 .. n : ByteAddr(va, size, i - 1) = p}
<1>1. /\ result' = Ended("write", va, size, n, bytes)
      /\ mem' = [p \in PAddrs |-> IF Page(p) \in Ram /\ hit(p) # {}
                                  THEN bytes[CHOOSE i \in hit(p) : TRUE] ELSE mem[p]]
  BY DEF store_va
<1>2. \A p \in PAddrs : mem'[p] = IF Page(p) \in Ram /\ hit(p) # {}
                                  THEN bytes[CHOOSE i \in hit(p) : TRUE] ELSE mem[p]
  BY <1>1
<1>3. ASSUME NEW p \in PAddrs, mem'[p] # mem[p]
      PROVE  Page(p) \in Ram /\ \E i \in 1 .. n : ByteAddr(va, size, i - 1) = p
  BY <1>2, <1>3
<1>4. n \in Nat
  BY ReachIs, VmConstants
<1>5. ASSUME NEW i \in 1 .. n, ByteAddr(va, size, i - 1) \in PAddrs,
             Page(ByteAddr(va, size, i - 1)) \in Ram
      PROVE  mem'[ByteAddr(va, size, i - 1)] = bytes[i]
  <2> DEFINE p == ByteAddr(va, size, i - 1)
             k == CHOOSE j \in hit(p) : TRUE
  <2>1. i \in hit(p)
    OBVIOUS
  <2>2. k \in 1 .. n /\ ByteAddr(va, size, k - 1) = p
    <3>1. k \in hit(p)
      BY <2>1
    <3> QED BY <3>1
  <2>3. mem'[p] = bytes[k]
    BY <1>2, <1>5, <2>1
  <2> HIDE DEF k
  <2>4. k - 1 \in 0 .. n - 1 /\ i - 1 \in 0 .. n - 1
    BY <1>4, <2>2
  <2>5. k - 1 = i - 1
    BY <2>2, <2>4, BytesApart
  <2>6. k = i
    BY <1>4, <2>2, <2>5
  <2> QED BY <2>3, <2>6
<1> QED BY <1>1, <1>3, <1>5

\* A store that succeeds.
LEMMA StoreDone ==
    ASSUME TableOK, NEW va \in VAddrs, NEW size \in Sizes, NEW bytes \in Patterns(size),
           store_va(va, size, bytes), result'.status = "ok"
    PROVE  BytesAre(result', mem') /\ Len(result'.bytes) = Reach("write", va, size)
<1>0. size \in Nat
  BY VmConstants
<1> DEFINE n == Reach("write", va, size)
<1>1. result' = Ended("write", va, size, n, bytes)
  BY StoreIs
<1>2. Len(bytes) = size
  <2>1. PICK x \in Values, y \in Values : bytes = [i \in 1 .. size |-> IF i % 2 = 0 THEN x ELSE y]
    BY DEF Patterns
  <2> QED BY <1>0, <2>1
<1>4. result'.va = va /\ result'.acc = "write" /\ result'.bytes = bytes /\ n = size
  BY <1>1, EndedIs
<1>5. ASSUME NEW i \in 1 .. size
      PROVE  LET a == Plus(va, i - 1)
             IN  /\ Mapped(a)
                 /\ \/ table[Page(a)] \notin Ram /\ Width(va, size) # Wide
                    \/ PhysAddr(a) \in PAddrs /\ bytes[i] = mem'[PhysAddr(a)]
  <2> DEFINE a == Plus(va, i - 1)
  <2>1. i - 1 \in 0 .. n - 1 /\ i \in 1 .. n
    BY <1>0, <1>4
  <2>2. /\ ByteStatus("write", a, Width(va, size)) = "ok" /\ Mapped(a)
        /\ ByteAddr(va, size, i - 1) = PhysAddr(a) /\ a \in VAddrs
    BY <2>1, BytesDone
  <2> HIDE DEF a, n
  <2>3. CASE table[Page(a)] \in Ram
    <3>1. PhysAddr(a) \in PAddrs /\ Page(PhysAddr(a)) \in Ram
      BY <2>2, <2>3, PhysIs
    <3>2. mem'[PhysAddr(a)] = bytes[i]
      BY <2>1, <2>2, <3>1, StoreIs DEF n
    <3> QED BY <2>2, <3>1, <3>2 DEF a
  <2>4. CASE table[Page(a)] \notin Ram
    BY <2>2, <2>4 DEF ByteStatus, BusStatus, ReadStatus, Write64Status, a
  <2> QED BY <2>3, <2>4
<1> QED BY <1>2, <1>4, <1>5 DEF BytesAre, MayLose

\* A store changes memory at its own addresses, and one that faults only in the
\* page of its address.
LEMMA StoreInPlace ==
    ASSUME TableOK, NEW va \in VAddrs, NEW size \in Sizes, NEW bytes \in Patterns(size),
           store_va(va, size, bytes)
    PROVE  StoreStep
<1> DEFINE n == Reach("write", va, size)
<1>0. result' = Ended("write", va, size, n, bytes)
  BY StoreIs
<1> SUFFICES ASSUME NEW p \in PAddrs, mem'[p] # mem[p]
             PROVE  /\ Page(p) \in Ram /\ result'.acc = "write"
                    /\ \/ /\ result'.status = "ok"
                          /\ \E i \in 1 .. Len(result'.bytes) : p = PhysAddr(Plus(result'.va, i - 1))
                       \/ /\ result'.status = "pageFault"
                          /\ Mapped(result'.va) /\ Page(p) = table[Page(result'.va)]
  BY DEF StoreStep
<1>1. result'.va = va /\ result'.acc = "write"
  BY <1>0, EndedIs
<1>2. Page(p) \in Ram
  BY StoreIs
<1>a. PICK i \in 1 .. n : ByteAddr(va, size, i - 1) = p
  BY StoreIs
<1> DEFINE k == i - 1
<1>3. /\ n \in Nat /\ n <= size /\ size <= PageSize /\ PageSize \in Nat /\ size \in Nat
      /\ k \in 0 .. n - 1 /\ k \in Nat /\ k < n /\ 0 \in 0 .. n - 1
  BY ReachIs, VmConstants
<1>4. p = PhysAddr(Plus(va, k)) /\ Mapped(Plus(va, k)) /\ Plus(va, k) \in VAddrs
  BY <1>a, <1>3, BytesDone
<1>5. CASE result'.status = "ok"
  <2>1. Len(result'.bytes) = n
    BY <1>5, StoreDone
  <2> QED BY <1>1, <1>2, <1>4, <1>5, <2>1
<1>6. CASE result'.status # "ok"
  <2>1. n # size /\ result'.status = ByteStatus("write", Plus(va, n), Width(va, size))
    BY <1>0, <1>6, EndedIs
  <2>2. ~FastPath(va, size)
    BY <1>3, <2>1, ReachIs
  <2>3. ByteStatus("write", Plus(va, n), 1) # "ok"
    BY <1>3, <2>1, <2>2, ReachIs
  <2>4. ~Mapped(Plus(va, n)) /\ result'.status = "pageFault"
    BY <2>1, <2>2, <2>3, VmConstants DEF ByteStatus, BusStatus, ReadStatus, Write64Status, Width
  <2>5. Mapped(va)
    BY <1>3, BytesDone, PlusZero
  <2> HIDE DEF n, k
  <2>6. k \in 0 .. PageSize /\ n \in 0 .. PageSize
    BY <1>3
  <2>7. Page(p) = table[Page(Plus(va, k))]
    BY <1>4, PhysIs
  <2>8. Page(Plus(va, k)) # Page(Plus(va, n))
    BY <1>4, <2>4 DEF Mapped
  <2>9. Offset(va) + k < PageSize
    <3> SUFFICES ASSUME ~(Offset(va) + k < PageSize) PROVE FALSE
      OBVIOUS
    <3>1. Offset(va) + k >= PageSize /\ Offset(va) + n >= PageSize
      BY <1>3, VAddrIs
    <3> QED BY <2>6, <2>8, <3>1, PlusIs
  <2>10. Page(Plus(va, k)) = Page(va)
    BY <2>6, <2>9, PlusIs
  <2> QED BY <1>1, <1>2, <2>4, <2>5, <2>7, <2>10
<1> QED BY <1>5, <1>6

\* Offsets of even addresses are even.
LEMMA EvenOffset ==
    ASSUME NEW pc \in VAddrs, pc % 2 = 0
    PROVE  /\ Offset(pc) <= PageSize - 2
           /\ Offset(pc) < PageSize - 2 => Offset(pc) + 3 < PageSize
<1> DEFINE q == Page(pc)
           r == Offset(pc)
<1>1. pc = q * PageSize + r /\ q \in Nat /\ r \in Nat /\ r < PageSize /\ pc \in Nat
  BY VAddrIs, VmConstants
<1>2. PICK h \in Nat : PageSize = 2 * h
  <2>1. PageSize = (PageSize \div 2) * 2 + (PageSize % 2) /\ PageSize \div 2 \in Nat
    BY VmConstants, Halves
  <2>2. PageSize = 2 * (PageSize \div 2)
    BY <2>1, VmConstants
  <2> QED BY <2>1, <2>2
<1>3. PICK a \in Nat : pc = 2 * a
  <2>1. pc = (pc \div 2) * 2 + (pc % 2) /\ pc \div 2 \in Nat
    BY <1>1, Halves
  <2> QED BY <2>1
<1> HIDE DEF q, r
<1>4. PICK m \in Nat : q * PageSize = 2 * m
  <2>1. q * h \in Nat /\ q * (2 * h) = 2 * (q * h)
    BY <1>1, <1>2
  <2> QED BY <1>2, <2>1
<1>5. 2 * a = 2 * m + r
  BY <1>1, <1>3, <1>4
<1>6. r <= PageSize - 2 /\ (r < PageSize - 2 => r + 3 < PageSize)
  BY <1>1, <1>2, <1>5
<1> QED BY <1>6 DEF r

\* Two halfwords make a word.
LEMMA FourBytes ==
    ASSUME NEW a, NEW b, NEW c, NEW d
    PROVE  /\ Len(<<a, b>> \o <<c, d>>) = 4
           /\ (<<a, b>> \o <<c, d>>)[1] = a /\ (<<a, b>> \o <<c, d>>)[2] = b
           /\ (<<a, b>> \o <<c, d>>)[3] = c /\ (<<a, b>> \o <<c, d>>)[4] = d
<1> DEFINE s1 == <<a, b>>
           s2 == <<c, d>>
           S  == {a, b, c, d}
<1>1. /\ s1 \in Seq(S) /\ s2 \in Seq(S) /\ Len(s1) = 2 /\ Len(s2) = 2
      /\ s1[1] = a /\ s1[2] = b /\ s2[1] = c /\ s2[2] = d
  OBVIOUS
<1> HIDE DEF s1, s2, S
<1>2. /\ Len(s1 \o s2) = 2 + 2
      /\ \A i \in 1 .. 2 + 2 : (s1 \o s2)[i] = IF i <= 2 THEN s1[i] ELSE s2[i - 2]
  <2>1. /\ Len(s1 \o s2) = Len(s1) + Len(s2)
        /\ \A i \in 1 .. Len(s1) + Len(s2) :
              (s1 \o s2)[i] = IF i <= Len(s1) THEN s1[i] ELSE s2[i - Len(s1)]
    BY <1>1, ConcatProperties
  <2> QED BY <1>1, <2>1
<1>3. /\ Len(s1 \o s2) = 4 /\ (s1 \o s2)[1] = a /\ (s1 \o s2)[2] = b
      /\ (s1 \o s2)[3] = c /\ (s1 \o s2)[4] = d
  BY <1>1, <1>2
<1> QED BY <1>3 DEF s1, s2

\* A fetch that succeeds.
LEMMA FetchDone ==
    ASSUME TableOK, NEW pc \in VAddrs, fetch(pc), result'.status = "ok"
    PROVE  BytesAre(result', mem')
<1> DEFINE t == PhysAddr(pc)
           lo == Half(t)
           hi == Half(UpperAddr(pc))
<1>1. /\ mem' = mem /\ pc % 2 = 0 /\ LowerStatus(pc) = "ok"
      /\ \/ result' = Ok("read", pc, lo)
         \/ UpperStatus(pc) = "ok" /\ result' = Ok("read", pc, lo \o hi)
  BY DEF fetch, Fault
<1>2. /\ PageSize \in Nat /\ PageSize >= 4 /\ Offset(pc) \in Nat /\ Offset(pc) <= PageSize - 2
      /\ Offset(pc) < PageSize - 2 => Offset(pc) + 3 < PageSize
  BY <1>1, EvenOffset, VAddrIs, VmConstants
<1>a. Mapped(pc) /\ table[Page(pc)] \in Ram \cup Mrom /\ t \in PAddrs /\ t \in Nat
  BY <1>1, PhysIs DEF LowerStatus
<1>b. ASSUME NEW i \in Nat, Offset(pc) + i < PageSize
      PROVE  Mapped(Plus(pc, i)) /\ PhysAddr(Plus(pc, i)) = t + i /\ t + i \in PAddrs
  <2>1. /\ Plus(pc, i) \in VAddrs /\ Page(Plus(pc, i)) = Page(pc)
        /\ Mapped(Plus(pc, i)) /\ PhysAddr(Plus(pc, i)) = t + i
    BY <1>a, <1>b, InPage
  <2> QED BY <1>a, <2>1, PhysIs
<1>3. /\ Mapped(Plus(pc, 0)) /\ PhysAddr(Plus(pc, 0)) = t /\ t \in PAddrs
      /\ Mapped(Plus(pc, 1)) /\ PhysAddr(Plus(pc, 1)) = t + 1 /\ t + 1 \in PAddrs
  <2>1. Mapped(Plus(pc, 1)) /\ PhysAddr(Plus(pc, 1)) = t + 1 /\ t + 1 \in PAddrs
    BY <1>2, <1>b
  <2> QED BY <1>a, <2>1, PlusZero
<1>4. CASE result' = Ok("read", pc, lo)
  <2>1. result'.va = pc /\ result'.bytes = <<mem[t], mem[t + 1]>>
    BY <1>4 DEF Ok, Half
  <2>2. \A i \in 1 .. 2 : i = 1 \/ i = 2
    OBVIOUS
  <2>3. 1 - 1 = 0 /\ 2 - 1 = 1
    OBVIOUS
  <2> HIDE DEF t
  <2>4. Len(<<mem[t], mem[t + 1]>>) = 2
    OBVIOUS
  <2> QED BY <1>1, <1>3, <2>1, <2>2, <2>3, <2>4 DEF BytesAre
<1>5. CASE UpperStatus(pc) = "ok" /\ result' = Ok("read", pc, lo \o hi)
  <2> DEFINE u == UpperAddr(pc)
  <2>1. /\ Mapped(Plus(pc, 2)) /\ PhysAddr(Plus(pc, 2)) = u /\ u \in PAddrs
        /\ Mapped(Plus(pc, 3)) /\ PhysAddr(Plus(pc, 3)) = u + 1 /\ u + 1 \in PAddrs
    <3>1. CASE Offset(pc) >= PageSize - 2
      <4> DEFINE b == Plus(pc, 2)
      <4>1. u = PhysAddr(b) /\ ByteStatus("read", b, 2) = "ok"
        BY <1>5, <3>1 DEF UpperAddr, UpperStatus, Offset
      <4>2. 2 \in 0 .. PageSize /\ 3 \in 0 .. PageSize /\ 1 \in 0 .. PageSize
            /\ Offset(pc) + 2 = PageSize /\ Offset(pc) + 3 = PageSize + 1
        BY <1>2, <3>1
      <4>3. b \in VAddrs /\ Page(b) = NextPage(pc) /\ Offset(b) = 0
        BY <1>2, <4>2, PlusIs
      <4>4. Plus(pc, 3) \in VAddrs /\ Page(Plus(pc, 3)) = NextPage(pc) /\ Offset(Plus(pc, 3)) = 1
        BY <1>2, <4>2, PlusIs
      <4> HIDE DEF b
      <4>5. Plus(b, 1) \in VAddrs /\ Page(Plus(b, 1)) = NextPage(pc) /\ Offset(Plus(b, 1)) = 1
        <5>1. Offset(b) + 1 = 1 /\ Offset(b) + 1 < PageSize
          BY <1>2, <4>3
        <5>2. Plus(b, 1) \in VAddrs /\ Page(Plus(b, 1)) = Page(b) /\ Offset(Plus(b, 1)) = Offset(b) + 1
          BY <4>2, <4>3, <5>1, PlusIs
        <5> QED BY <4>3, <5>1, <5>2
      <4>6. Plus(b, 1) = Plus(pc, 3)
        BY <4>4, <4>5, VAddrIs
      <4>7. Mapped(b) /\ table[Page(b)] \in Ram \cup Mrom /\ PhysAddr(b) \in PAddrs
        BY <4>1, <4>3, PhysIs
      <4>8. Mapped(Plus(b, 1)) /\ PhysAddr(Plus(b, 1)) = PhysAddr(b) + 1
        BY <1>2, <4>3, <4>7, InPage
      <4>9. PhysAddr(Plus(b, 1)) \in PAddrs
        BY <4>3, <4>5, <4>7, <4>8, PhysIs
      <4> QED BY <4>1, <4>6, <4>7, <4>8, <4>9 DEF b
    <3>2. CASE ~(Offset(pc) >= PageSize - 2)
      <4>1. u = t + 2
        BY <3>2 DEF UpperAddr, Offset
      <4>2. Offset(pc) + 2 < PageSize /\ Offset(pc) + 3 < PageSize
        BY <1>2, <3>2
      <4>3. /\ Mapped(Plus(pc, 2)) /\ PhysAddr(Plus(pc, 2)) = t + 2 /\ t + 2 \in PAddrs
            /\ Mapped(Plus(pc, 3)) /\ PhysAddr(Plus(pc, 3)) = t + 3 /\ t + 3 \in PAddrs
        BY <1>b, <4>2
      <4>4. t + 3 = (t + 2) + 1
        BY <1>a
      <4> QED BY <4>1, <4>3, <4>4
    <3> QED BY <3>1, <3>2
  <2> HIDE DEF t, u
  <2>2. lo = <<mem[t], mem[t + 1]>> /\ hi = <<mem[u], mem[u + 1]>>
    BY DEF Half, u
  <2>3. result'.va = pc /\ result'.bytes = <<mem[t], mem[t + 1]>> \o <<mem[u], mem[u + 1]>>
    BY <1>5, <2>2 DEF Ok
  <2>4. /\ Len(result'.bytes) = 4
        /\ result'.bytes[1] = mem[t] /\ result'.bytes[2] = mem[t + 1]
        /\ result'.bytes[3] = mem[u] /\ result'.bytes[4] = mem[u + 1]
    BY <2>3, FourBytes
  <2>5. \A i \in 1 .. 4 : i = 1 \/ i = 2 \/ i = 3 \/ i = 4
    OBVIOUS
  <2>6. 1 - 1 = 0 /\ 2 - 1 = 1 /\ 3 - 1 = 2 /\ 4 - 1 = 3
    OBVIOUS
  <2> QED BY <1>1, <1>3, <2>1, <2>3, <2>4, <2>5, <2>6 DEF BytesAre
<1> QED BY <1>1, <1>4, <1>5

-----------------------------------------------------------------------------
VmInv == TableOK /\ AccessesItsBytes

\* An access that has done its bytes leaves them so.
LEMMA DoneKept ==
    ASSUME table' = table, result'.status = "ok" => BytesAre(result', mem')
    PROVE  AccessesItsBytes'
<1>1. \A a : Mapped(a)' = Mapped(a) /\ PhysAddr(a)' = PhysAddr(a)
  BY DEF Mapped, PhysAddr
<1> QED BY <1>1 DEF AccessesItsBytes, BytesAre, Mapped, PhysAddr, Plus, MayLose, Page

\* A load, store or fetch that succeeds used, byte for byte, the memory behind
\* the translation of each of its own addresses, for every page size; the bytes
\* of a store that write64 does not do are lost where there is no memory.
THEOREM AccessesAreExact == VmSpec => []AccessesItsBytes
<1>1. VmInit => VmInv
  BY VmConstants DEF VmInit, VmInv, TableOK, AccessesItsBytes, NoResult, NoPage
<1>2. VmInv /\ [VmNext]_vmVars => VmInv'
  <2> SUFFICES ASSUME VmInv, [VmNext]_vmVars PROVE VmInv'
    OBVIOUS
  <2> USE DEF VmInv
  <2>1. ASSUME NEW va \in VAddrs, fetch(va) PROVE VmInv'
    BY <2>1, FetchDone, DoneKept DEF fetch, TableOK
  <2>2. ASSUME NEW va \in VAddrs, NEW size \in Sizes, load_va(va, size) PROVE VmInv'
    BY <2>2, LoadDone, DoneKept DEF load_va, TableOK
  <2>3. ASSUME NEW va \in VAddrs, NEW size \in Sizes, NEW bytes \in Patterns(size),
               store_va(va, size, bytes)
        PROVE  VmInv'
    BY <2>3, StoreDone, DoneKept DEF store_va, TableOK
  <2>4. ASSUME NEW v \in 0 .. VPages - 1, NEW p \in NoPage .. PPages - 1,
               result.status = "none", SetPage(v, p)
        PROVE  VmInv'
    BY <2>4 DEF SetPage, TableOK, AccessesItsBytes
  <2>5. CASE Consume
    BY <2>5 DEF Consume, NoResult, TableOK, AccessesItsBytes
  <2>6. CASE UNCHANGED vmVars
    BY <2>6 DEF vmVars, TableOK, AccessesItsBytes, Mapped, PhysAddr, Plus, Page, MayLose
  <2> QED BY <2>1, <2>2, <2>3, <2>4, <2>5, <2>6 DEF VmNext
<1> QED BY <1>1, <1>2, PTL DEF VmSpec, VmInv

\* Only stores change memory, never MROM: a store that succeeds at its own
\* addresses, one that takes a page fault in the page of its address only, one
\* that takes an access fault nowhere.
THEOREM StoresAreContained == VmSpec => StoresStayInPlace
<1>1. VmInit => TableOK
  BY VmConstants DEF VmInit, TableOK, NoPage
<1>2. TableOK /\ [VmNext]_vmVars => TableOK'
  BY DEF TableOK, VmNext, vmVars, fetch, load_va, store_va, SetPage, Consume
<1>3. TableOK /\ [VmNext]_vmVars => [StoreStep]_vmVars
  <2> SUFFICES ASSUME TableOK, VmNext PROVE StoreStep
    OBVIOUS
  <2>1. ASSUME mem' = mem PROVE StoreStep
    BY <2>1 DEF StoreStep
  <2>2. CASE \E va \in VAddrs, size \in Sizes : \E bytes \in Patterns(size) : store_va(va, size, bytes)
    BY <2>2, StoreInPlace
  <2> QED BY <2>1, <2>2 DEF VmNext, fetch, load_va, SetPage, Consume
<1> QED BY <1>1, <1>2, <1>3, PTL DEF VmSpec, StoresStayInPlace

-----------------------------------------------------------------------------
(* The walk through the page tables.                                       *)

\* The constants of the page tables.
LEMMA MmuConstants ==
    /\ Levels \in Nat /\ Levels > 0 /\ Entries \in Nat /\ Entries > 0
    /\ Lvls \subseteq Nat /\ Levels - 1 \in Lvls
    /\ Frames \subseteq Nat /\ Tables \subseteq Frames /\ Root \in Tables /\ Root \in Frames
    /\ Rom \subseteq Tables /\ Root \notin Rom
BY MmuAssumption DEF Lvls

\* The pages below an entry: Span is defined by recursion, and positive.
LEMMA SpanType ==
    ASSUME NEW n \in Nat
    PROVE  Span(n) \in Nat /\ Span(n) > 0
<1> DEFINE Is(w) == w = [i \in 0 .. n |-> IF i = 0 THEN 1 ELSE Entries * w[i - 1]]
           power == CHOOSE w : Is(w)
           X == Nat \ {0}
           G == [k \in Nat |-> [x \in X |-> Entries * x]]
<1>0. Entries \in Nat /\ Entries > 0 /\ \A x \in X : Entries * x \in X
  BY MmuConstants
<1>1. Span(n) = power[n]
  BY DEF Span
<1>2. G \in [Nat -> [X -> X]] /\ 1 \in X
  BY <1>0
<1>3. \A k \in Nat, x \in X : G[k][x] = Entries * x
  OBVIOUS
<1> HIDE DEF G, X
<1>4. PICK f \in [Nat -> X] : Iterates(f, 1, G)
  BY <1>2, Recursion
<1> DEFINE w0 == [i \in 0 .. n |-> f[i]]
<1>5. Is(w0)
  <2>1. ASSUME NEW i \in 0 .. n PROVE f[i] = IF i = 0 THEN 1 ELSE Entries * w0[i - 1]
    <3>1. CASE i = 0
      BY <1>4, <3>1 DEF Iterates
    <3>2. CASE i # 0
      <4>1. i - 1 \in Nat /\ i - 1 \in 0 .. n /\ (i - 1) + 1 = i
        BY <3>2
      <4>2. f[(i - 1) + 1] = Entries * f[i - 1]
        BY <1>3, <1>4, <4>1 DEF Iterates
      <4> QED BY <3>2, <4>1, <4>2
    <3> QED BY <3>1, <3>2
  <2> QED BY <2>1
<1> HIDE DEF w0
<1>6. Is(power)
  BY <1>5
<1> HIDE DEF power
<1>7. ASSUME power[n] \notin X PROVE FALSE
  <2> DEFINE T == {i \in 0 .. n : power[i] \notin X}
  <2>1. T \in SUBSET Nat /\ T # {}
    BY <1>7
  <2>2. PICK i \in T : \A j \in T : i <= j
    BY <2>1, LeastNat
  <2>3. i # 0
    BY <1>2, <1>6, <2>2
  <2>4. i - 1 \in 0 .. n /\ ~(i <= i - 1) /\ i \in 0 .. n
    BY <2>2, <2>3
  <2>5. power[i - 1] \in X
    BY <2>2, <2>4
  <2>6. power[i] = Entries * power[i - 1]
    BY <1>6, <2>3, <2>4
  <2> QED BY <1>0, <2>2, <2>5, <2>6
<1> QED BY <1>1, <1>7 DEF X

-----------------------------------------------------------------------------
Pte(p, l, f) == pt[<<f, Vpn(p, l)>>]

\* Where the walk ends at table f of level l, when next is the end of the walk
\* from the table below.
End(p, access, c, l, f, next) ==
    IF f \notin Tables \/ BadPte(Pte(p, l, f)) THEN NoLeaf
    ELSE IF Leaf(Pte(p, l, f))
    THEN IF check_permissions(Pte(p, l, f), access, EffectiveMode(c), c) /\ Aligned(Pte(p, l, f), l)
         THEN [ok |-> TRUE, page |-> Pte(p, l, f).ppn + (p % Span(l)), slot |-> <<f, Vpn(p, l)>>]
         ELSE NoLeaf
    ELSE IF l = 0 THEN NoLeaf ELSE next

Results == [ok : BOOLEAN, page : Nat, slot : Frames \X Nat]

\* Slots and entries that the walk looks at.
LEMMA PteTypes ==
    ASSUME MmuTypeOK, NEW p \in Nat, NEW l \in Nat
    PROVE  /\ Vpn(p, l) \in 0 .. Entries - 1 /\ Vpn(p, l) \in Nat
           /\ p % Span(l) \in Nat
           /\ \A f \in Tables : /\ <<f, Vpn(p, l)>> \in Slots
                                /\ Pte(p, l, f) \in PteRecords
                                /\ Pte(p, l, f).ppn \in Frames /\ Pte(p, l, f).ppn \in Nat
<1>1. Span(l) \in Nat /\ Span(l) > 0
  BY SpanType
<1>2. p \div Span(l) \in Nat /\ p % Span(l) \in Nat
  BY <1>1, Halves
<1>3. Vpn(p, l) \in 0 .. Entries - 1 /\ Vpn(p, l) \in Nat
  BY <1>2, MmuConstants DEF Vpn
<1>4. ASSUME NEW f \in Tables
      PROVE  <<f, Vpn(p, l)>> \in Slots /\ Pte(p, l, f) \in PteRecords
  BY <1>3, <1>4 DEF Slots, Pte, MmuTypeOK
<1>5. \A e \in PteRecords : e.ppn \in Frames /\ e.ppn \in Nat
  BY MmuConstants DEF PteRecords
<1> QED BY <1>2, <1>3, <1>4, <1>5

\* One step of the walk gives a result.
LEMMA EndType ==
    ASSUME MmuTypeOK, NEW p \in Nat, NEW access, NEW c, NEW l \in Nat, NEW f \in Frames,
           NEW next, f \in Tables => next \in Results
    PROVE  End(p, access, c, l, f, next) \in Results
<1>1. NoLeaf \in Results
  BY MmuConstants DEF NoLeaf, Results
<1>2. CASE f \notin Tables
  BY <1>1, <1>2 DEF End
<1>3. CASE f \in Tables
  <2> DEFINE found == [ok |-> TRUE, page |-> Pte(p, l, f).ppn + (p % Span(l)), slot |-> <<f, Vpn(p, l)>>]
  <2>0. Pte(p, l, f).ppn \in Nat /\ p % Span(l) \in Nat /\ Vpn(p, l) \in Nat
    BY <1>3, PteTypes
  <2>1. Pte(p, l, f).ppn + (p % Span(l)) \in Nat /\ Vpn(p, l) \in Nat
    BY <2>0
  <2>2. found \in Results
    BY <2>1 DEF Results
  <2> HIDE DEF found
  <2>3. End(p, access, c, l, f, next) \in {NoLeaf, found, next}
    BY DEF End, found
  <2> QED BY <1>1, <1>3, <2>2, <2>3
<1> QED BY <1>2, <1>3

\* w[l][f] is where the walk ends from table f of level l on.
Walks(w, p, access, c) ==
    \A l \in Lvls, f \in Frames : w[l][f] = End(p, access, c, l, f, w[l - 1][Pte(p, l, f).ppn])

\* The walk is what its loop says, level by level.
LEMMA WalkIs ==
    ASSUME MmuTypeOK, NEW p \in Nat, NEW access, NEW c
    PROVE  \E w : Walk(p, access, c) = w[Levels - 1][Root] /\ Walks(w, p, access, c)
<1> DEFINE Is(w) == w = [l \in Lvls |-> [f \in Frames |->
                           End(p, access, c, l, f, w[l - 1][Pte(p, l, f).ppn])]]
           walk == CHOOSE w : Is(w)
<1>1. Walk(p, access, c) = walk[Levels - 1][Root]
  BY DEF Walk, End, Pte
<1> DEFINE X == [Frames -> Results]
           Row(l, y) == [f \in Frames |-> End(p, access, c, l, f, y[Pte(p, l, f).ppn])]
           x0 == [f \in Frames |-> End(p, access, c, 0, f, NoLeaf)]
           G == [n \in Nat |-> [y \in X |-> Row(n + 1, y)]]
<1>2. x0 \in X
  <2>1. NoLeaf \in Results
    BY MmuConstants DEF NoLeaf, Results
  <2>2. ASSUME NEW f \in Frames PROVE End(p, access, c, 0, f, NoLeaf) \in Results
    BY <2>1, EndType
  <2> QED BY <2>2
<1>3. ASSUME NEW l \in Nat, NEW y \in X PROVE Row(l, y) \in X
  <2>1. ASSUME NEW f \in Frames PROVE End(p, access, c, l, f, y[Pte(p, l, f).ppn]) \in Results
    <3>1. f \in Tables => y[Pte(p, l, f).ppn] \in Results
      BY PteTypes
    <3> QED BY <3>1, EndType
  <2> QED BY <2>1
<1>4. \A n \in Nat, y \in X : G[n][y] = Row(n + 1, y)
  OBVIOUS
<1>5. G \in [Nat -> [X -> X]]
  <2> HIDE DEF X, Row
  <2> QED BY <1>3
<1> HIDE DEF X, Row, x0, G
<1>6. PICK F \in [Nat -> X] : Iterates(F, x0, G)
  BY <1>2, <1>5, Recursion
<1> DEFINE w0 == [l \in Lvls |-> F[l]]
<1>7. Is(w0)
  <2>1. ASSUME NEW l \in Lvls, NEW f \in Frames
        PROVE  F[l][f] = End(p, access, c, l, f, w0[l - 1][Pte(p, l, f).ppn])
    <3>1. CASE l = 0
      <4>1. F[l][f] = End(p, access, c, 0, f, NoLeaf)
        BY <1>6, <3>1 DEF Iterates, x0
      <4> QED BY <3>1, <4>1 DEF End
    <3>2. CASE l # 0
      <4>1. l - 1 \in Nat /\ l - 1 \in Lvls /\ (l - 1) + 1 = l
        BY <3>2, MmuConstants DEF Lvls
      <4>2. F[(l - 1) + 1] = Row((l - 1) + 1, F[l - 1])
        BY <1>4, <1>6, <4>1 DEF Iterates
      <4>3. F[l][f] = End(p, access, c, l, f, F[l - 1][Pte(p, l, f).ppn])
        BY <4>1, <4>2 DEF Row
      <4>4. CASE f \in Tables
        <5>1. Pte(p, l, f).ppn \in Frames
          BY <4>1, <4>4, PteTypes, MmuConstants
        <5>2. w0[l - 1][Pte(p, l, f).ppn] = F[l - 1][Pte(p, l, f).ppn]
          BY <4>1, <5>1
        <5> QED BY <4>3, <5>2
      <4>5. CASE f \notin Tables
        BY <4>3, <4>5 DEF End
      <4> QED BY <4>4, <4>5
    <3> QED BY <3>1, <3>2
  <2>2. ASSUME NEW l \in Lvls
        PROVE  F[l] = [f \in Frames |-> End(p, access, c, l, f, w0[l - 1][Pte(p, l, f).ppn])]
    <3>1. F[l] \in [Frames -> Results]
      BY MmuConstants DEF X
    <3> QED BY <2>1, <3>1
  <2> QED BY <2>2
<1> HIDE DEF w0
<1>8. Is(walk)
  BY <1>7
<1> HIDE DEF walk
<1>9. Walks(walk, p, access, c)
  BY <1>8 DEF Walks
<1> QED BY <1>1, <1>9

\* What the walk returns at an entry that maps the page.
Hit(p, k, f) == [ok |-> TRUE, page |-> Pte(p, k, f).ppn + (p % Span(k)), slot |-> <<f, Vpn(p, k)>>]

\* An entry of level k that maps the page, and one that points to table g.
Maps(p, k, f)    == ~BadPte(Pte(p, k, f)) /\ Leaf(Pte(p, k, f)) /\ Aligned(Pte(p, k, f), k)
Points(p, l, f, g) == ~BadPte(Pte(p, l, f)) /\ ~Leaf(Pte(p, l, f)) /\ Pte(p, l, f).ppn = g

\* q leads from table f of level l to an entry of level k that maps the page and
\* permits the access.
Leads(p, access, c, l, f, k, q) ==
    /\ q \in [k .. l -> Tables] /\ q[l] = f
    /\ \A i \in k + 1 .. l : Points(p, i, q[i], q[i - 1])
    /\ Maps(p, k, q[k])
    /\ check_permissions(Pte(p, k, q[k]), access, EffectiveMode(c), c)

\* A walk that finds a page followed tables to an entry that maps it.
LEMMA WalkSound ==
    ASSUME MmuTypeOK, NEW p \in Nat, NEW access, NEW c, NEW w, Walks(w, p, access, c),
           NEW l \in Lvls, NEW f \in Frames, w[l][f].ok
    PROVE  \E k \in 0 .. l : \E q : Leads(p, access, c, l, f, k, q) /\ w[l][f] = Hit(p, k, q[k])
<1> DEFINE Fine(m, g) == \E k \in 0 .. m : \E q : Leads(p, access, c, m, g, k, q) /\ w[m][g] = Hit(p, k, q[k])
           T == {m \in Lvls : \E g \in Frames : w[m][g].ok /\ ~Fine(m, g)}
<1> SUFFICES ASSUME ~Fine(l, f) PROVE FALSE
  OBVIOUS
<1>1. T \in SUBSET Nat /\ T # {}
  BY MmuConstants
<1>2. PICK m \in T : \A n \in T : m <= n
  BY <1>1, LeastNat
<1> HIDE DEF Fine
<1>3. PICK g \in Frames : w[m][g].ok /\ ~Fine(m, g)
  BY <1>2
<1>4. m \in Nat /\ m \in Lvls
  BY <1>2, MmuConstants
<1>5. w[m][g] = End(p, access, c, m, g, w[m - 1][Pte(p, m, g).ppn])
  BY <1>4 DEF Walks
<1>6. ~NoLeaf.ok
  BY DEF NoLeaf
<1>7. g \in Tables /\ ~BadPte(Pte(p, m, g))
  BY <1>3, <1>5, <1>6 DEF End
<1>8. CASE Leaf(Pte(p, m, g))
  <2>1. /\ check_permissions(Pte(p, m, g), access, EffectiveMode(c), c) /\ Aligned(Pte(p, m, g), m)
        /\ w[m][g] = Hit(p, m, g)
    BY <1>3, <1>5, <1>6, <1>7, <1>8 DEF End, Hit
  <2> DEFINE q == [i \in m .. m |-> g]
  <2>2. q \in [m .. m -> Tables] /\ q[m] = g
    BY <1>4, <1>7
  <2>3. m + 1 .. m = {}
    BY <1>4
  <2> HIDE DEF q
  <2>4. Leads(p, access, c, m, g, m, q)
    BY <1>7, <1>8, <2>1, <2>2, <2>3 DEF Leads, Maps
  <2>5. m \in 0 .. m
    BY <1>4
  <2> QED BY <1>3, <2>1, <2>2, <2>4, <2>5 DEF Fine
<1>9. CASE ~Leaf(Pte(p, m, g))
  <2> DEFINE h == Pte(p, m, g).ppn
  <2>1. m # 0 /\ w[m][g] = w[m - 1][h]
    BY <1>3, <1>5, <1>6, <1>7, <1>9 DEF End
  <2>2. m - 1 \in Lvls /\ m - 1 \in Nat /\ ~(m <= m - 1)
    BY <1>4, <2>1, MmuConstants DEF Lvls
  <2>3. h \in Frames
    BY <1>4, <1>7, PteTypes
  <2>4. Points(p, m, g, h)
    BY <1>7, <1>9 DEF Points
  <2> HIDE DEF h
  <2>5. Fine(m - 1, h)
    BY <1>2, <1>3, <2>1, <2>2, <2>3
  <2>a. PICK k \in 0 .. m - 1 :
          \E q : Leads(p, access, c, m - 1, h, k, q) /\ w[m - 1][h] = Hit(p, k, q[k])
    BY <2>5 DEF Fine
  <2>6. PICK q : Leads(p, access, c, m - 1, h, k, q) /\ w[m - 1][h] = Hit(p, k, q[k])
    BY <2>a
  <2>7. q \in [k .. m - 1 -> Tables] /\ q[m - 1] = h
    BY <2>6 DEF Leads
  <2> DEFINE r == [i \in k .. m |-> IF i = m THEN g ELSE q[i]]
  <2>8. r \in [k .. m -> Tables] /\ r[m] = g /\ \A i \in k .. m - 1 : r[i] = q[i]
    BY <1>4, <1>7, <2>2, <2>7
  <2> HIDE DEF r
  <2>9. ASSUME NEW i \in k + 1 .. m PROVE Points(p, i, r[i], r[i - 1])
    <3>1. i - 1 \in k .. m - 1
      BY <1>4
    <3>2. CASE i = m
      BY <2>4, <2>7, <2>8, <3>1, <3>2
    <3>3. CASE i # m
      <4>1. i \in k + 1 .. m - 1 /\ i \in k .. m - 1
        BY <1>4, <3>3
      <4> QED BY <2>6, <2>8, <3>1, <4>1 DEF Leads
    <3> QED BY <3>2, <3>3
  <2>10. k \in k .. m - 1 /\ k \in 0 .. m
    BY <1>4
  <2>11. Leads(p, access, c, m, g, k, r) /\ r[k] = q[k]
    BY <2>6, <2>8, <2>9, <2>10 DEF Leads
  <2> QED BY <1>3, <2>1, <2>6, <2>10, <2>11 DEF Fine
<1> QED BY <1>8, <1>9

\* A walk along tables that lead to an entry that maps the page finds it.
LEMMA WalkComplete ==
    ASSUME MmuTypeOK, NEW p \in Nat, NEW access, NEW c, NEW w, Walks(w, p, access, c),
           NEW l \in Lvls, NEW f \in Frames, NEW k \in 0 .. l, NEW q, Leads(p, access, c, l, f, k, q)
    PROVE  w[l][f] = Hit(p, k, q[k])
<1> DEFINE T == {m \in k .. l : w[m][q[m]] # Hit(p, k, q[k])}
<1> SUFFICES ASSUME T # {} PROVE FALSE
  <2>1. l \in k .. l /\ q[l] = f
    BY MmuConstants DEF Leads
  <2> QED BY <2>1
<1>1. T \in SUBSET Nat
  BY MmuConstants
<1>2. PICK m \in T : \A n \in T : m <= n
  BY <1>1, LeastNat
<1>3. /\ m \in Nat /\ k \in Nat /\ m \in k .. l /\ m \in Lvls /\ q \in [k .. l -> Tables]
      /\ q[m] \in Tables /\ q[m] \in Frames /\ w[m][q[m]] # Hit(p, k, q[k])
  <2>1. l \in Nat /\ Levels \in Nat /\ l <= Levels - 1
    BY MmuConstants DEF Lvls
  <2>2. m \in Nat /\ k \in Nat /\ m \in k .. l /\ w[m][q[m]] # Hit(p, k, q[k])
    BY <1>2, <2>1
  <2>3. m \in Lvls
    BY <2>1, <2>2 DEF Lvls
  <2>4. q \in [k .. l -> Tables]
    BY DEF Leads
  <2> QED BY <2>2, <2>3, <2>4, MmuConstants
<1>4. w[m][q[m]] = End(p, access, c, m, q[m], w[m - 1][Pte(p, m, q[m]).ppn])
  BY <1>3 DEF Walks
<1>5. CASE m = k
  <2>1. Maps(p, m, q[m]) /\ check_permissions(Pte(p, m, q[m]), access, EffectiveMode(c), c)
    BY <1>5 DEF Leads
  <2> QED BY <1>3, <1>4, <1>5, <2>1 DEF End, Hit, Maps
<1>6. CASE m # k
  <2>1. m \in k + 1 .. l /\ m - 1 \in k .. l /\ m # 0 /\ ~(m <= m - 1)
    BY <1>3, <1>6, MmuConstants
  <2>2. Points(p, m, q[m], q[m - 1])
    BY <2>1 DEF Leads
  <2>3. w[m - 1][q[m - 1]] = Hit(p, k, q[k])
    BY <1>2, <2>1
  <2>4. w[m][q[m]] = w[m - 1][q[m - 1]]
    BY <1>3, <1>4, <2>1, <2>2 DEF End, Points
  <2> QED BY <1>3, <2>3, <2>4
<1> QED BY <1>5, <1>6

\* What check_permissions lets through is what the entry grants.
LEMMA PermissionIsGrant ==
    ASSUME NEW pte \in PteRecords, NEW c, NEW access \in AccessTypes, NEW mode \in {User, Supervisor}
    PROVE  check_permissions(pte, access, mode, c) <=> Grants(pte, access, mode, c)
<1>1. User # Supervisor
  BY DEF User, Supervisor
<1>2. CASE access = "Instruction"
  BY <1>1, <1>2 DEF check_permissions, Grants
<1>3. CASE access = "Load"
  BY <1>1, <1>3 DEF check_permissions, Grants
<1>4. CASE access = "Store"
  BY <1>1, <1>4 DEF check_permissions, Grants
<1> QED BY <1>2, <1>3, <1>4 DEF AccessTypes

\* The pages of an address space are numbers.
LEMMA VpnsNat == Vpns \subseteq Nat
<1>1. Span(Levels) \in Nat
  BY MmuConstants, SpanType
<1> QED BY <1>1 DEF Vpns

\* The ways of Ways are those that lead from the root.
LEMMA WaysLead ==
    ASSUME NEW p \in Nat, NEW access, NEW c, NEW k \in Lvls, NEW q
    PROVE  Leads(p, access, c, Levels - 1, Root, k, q) <=>
             /\ q \in Ways(p, k)
             /\ check_permissions(Pte(p, k, q[k]), access, EffectiveMode(c), c)
<1>1. \A l, f : ~BadPte(Pte(p, l, f)) /\ ~Leaf(Pte(p, l, f)) <=> Pte(p, l, f).v /\ ~Leaf(Pte(p, l, f))
  BY DEF BadPte, Leaf
<1>2. ~BadPte(Pte(p, k, q[k])) /\ Leaf(Pte(p, k, q[k])) <=>
      Pte(p, k, q[k]).v /\ (Pte(p, k, q[k]).r \/ (Pte(p, k, q[k]).x /\ ~Pte(p, k, q[k]).w))
  BY DEF BadPte, Leaf
<1>3. Ways(p, k) =
        {r \in [k .. Levels - 1 -> Tables] :
            /\ r[Levels - 1] = Root
            /\ \A l \in k + 1 .. Levels - 1 :
                 Pte(p, l, r[l]).v /\ ~Leaf(Pte(p, l, r[l])) /\ Pte(p, l, r[l]).ppn = r[l - 1]
            /\ Pte(p, k, r[k]).v /\ (Pte(p, k, r[k]).r \/ (Pte(p, k, r[k]).x /\ ~Pte(p, k, r[k]).w))
            /\ Pte(p, k, r[k]).ppn % Span(k) = 0}
  BY DEF Ways, Pte
<1> QED BY <1>1, <1>2, <1>3 DEF Leads, Points, Maps, Aligned

\* In every well-typed state of the tables the walk finds what they say.
LEMMA WalkMeetsTables ==
    ASSUME MmuTypeOK
    PROVE  WalkFollowsTables
<1> SUFFICES ASSUME NEW p \in Vpns, NEW access \in AccessTypes,
                    NEW c \in Ctxs, EffectiveMode(c) \in {User, Supervisor}
             PROVE  {e \in LeavesOf(p) : Grants(pt[e.slot], access, EffectiveMode(c), c)} =
                      IF Walk(p, access, c).ok
                      THEN {[slot |-> Walk(p, access, c).slot, page |-> Walk(p, access, c).page]}
                      ELSE {}
  BY DEF WalkFollowsTables
<1> DEFINE mode == EffectiveMode(c)
           top == Levels - 1
           t == Walk(p, access, c)
           found == [slot |-> t.slot, page |-> t.page]
           leaf(k, q) == [slot |-> <<q[k], Vpn(p, k)>>, page |-> Pte(p, k, q[k]).ppn + (p % Span(k))]
<1>0. p \in Nat /\ top \in Lvls /\ Root \in Frames /\ top \in Nat /\ Lvls = 0 .. top
  BY VpnsNat, MmuConstants DEF Lvls
<1>1. PICK w : t = w[top][Root] /\ Walks(w, p, access, c)
  BY <1>0, WalkIs
<1>2. \A e : e \in LeavesOf(p) <=> \E k \in Lvls : \E q \in Ways(p, k) : e = leaf(k, q)
  BY DEF LeavesOf, Pte
<1>3. ASSUME NEW k \in Lvls, NEW q \in Ways(p, k)
      PROVE  Grants(pt[leaf(k, q).slot], access, mode, c) <=> Leads(p, access, c, top, Root, k, q)
  <2>1. q[k] \in Tables
    <3>1. k \in k .. top
      BY <1>0
    <3> QED BY <3>1 DEF Ways
  <2>2. Pte(p, k, q[k]) \in PteRecords
    BY <1>0, <2>1, k \in Nat, PteTypes
  <2>3. pt[leaf(k, q).slot] = Pte(p, k, q[k])
    BY DEF Pte
  <2> QED BY <1>0, <2>2, <2>3, PermissionIsGrant, WaysLead
<1> HIDE DEF t, top, mode
<1>4. ASSUME NEW e \in LeavesOf(p), Grants(pt[e.slot], access, mode, c)
      PROVE  t.ok /\ e = found
  <2>1. PICK k \in Lvls : \E q \in Ways(p, k) : e = leaf(k, q)
    BY <1>2
  <2>2. PICK q \in Ways(p, k) : e = leaf(k, q)
    BY <2>1
  <2>3. Leads(p, access, c, top, Root, k, q)
    BY <1>3, <1>4, <2>2
  <2>4. t = Hit(p, k, q[k])
    BY <1>0, <1>1, <2>3, WalkComplete
  <2> QED BY <2>2, <2>4 DEF Hit
<1>5. ASSUME t.ok
      PROVE  found \in LeavesOf(p) /\ Grants(pt[found.slot], access, mode, c)
  <2>1. PICK k \in 0 .. top : \E q : Leads(p, access, c, top, Root, k, q) /\ t = Hit(p, k, q[k])
    BY <1>0, <1>1, <1>5, WalkSound
  <2>2. PICK q : Leads(p, access, c, top, Root, k, q) /\ t = Hit(p, k, q[k])
    BY <2>1
  <2>3. k \in Lvls /\ q \in Ways(p, k)
    BY <1>0, <2>2, WaysLead DEF top
  <2>4. found = leaf(k, q)
    BY <2>2 DEF Hit
  <2> QED BY <1>2, <1>3, <2>2, <2>3, <2>4
<1>6. CASE t.ok
  BY <1>4, <1>5, <1>6 DEF t, mode
<1>7. CASE ~t.ok
  BY <1>4, <1>7 DEF t, mode
<1> QED BY <1>6, <1>7

\* The slot that the walk returns is one of the tables'.
LEMMA WalkSlot ==
    ASSUME MmuTypeOK, NEW p \in Vpns, NEW access, NEW c, Walk(p, access, c).ok
    PROVE  Walk(p, access, c).slot \in Slots
<1>0. p \in Nat /\ Levels - 1 \in Lvls /\ Root \in Frames /\ Levels \in Nat
  BY VpnsNat, MmuConstants
<1>1. PICK w : Walk(p, access, c) = w[Levels - 1][Root] /\ Walks(w, p, access, c)
  BY <1>0, WalkIs
<1>2. PICK k \in 0 .. Levels - 1 :
        \E q : Leads(p, access, c, Levels - 1, Root, k, q) /\ Walk(p, access, c) = Hit(p, k, q[k])
  BY <1>0, <1>1, WalkSound
<1>3. PICK q : Leads(p, access, c, Levels - 1, Root, k, q) /\ Walk(p, access, c) = Hit(p, k, q[k])
  BY <1>2
<1>4. k \in Nat /\ k \in k .. Levels - 1
  BY <1>0
<1>5. q[k] \in Tables
  BY <1>3, <1>4 DEF Leads
<1>6. <<q[k], Vpn(p, k)>> \in Slots
  BY <1>0, <1>4, <1>5, PteTypes
<1> QED BY <1>3, <1>6 DEF Hit

-----------------------------------------------------------------------------
\* The update of A and D.
LEMMA UpdatedIs ==
    ASSUME NEW pte \in PteRecords, NEW access
    PROVE  /\ Updated(pte, access) \in PteRecords
           /\ Updated(pte, access).d <=> pte.d \/ access = "Store"
<1>1. CASE access = "Store"
  <2>1. Updated(pte, access) = [pte EXCEPT !.a = TRUE, !.d = TRUE]
    BY <1>1 DEF Updated
  <2> QED BY <1>1, <2>1 DEF PteRecords
<1>2. CASE access # "Store"
  <2>1. Updated(pte, access) = [pte EXCEPT !.a = TRUE, !.d = pte.d]
    <3>1. pte.d \in BOOLEAN
      BY DEF PteRecords
    <3>2. (pte.d \/ access = "Store") = pte.d
      BY <1>2, <3>1
    <3> QED BY <3>2 DEF Updated
  <2> QED BY <1>2, <2>1 DEF PteRecords
<1> QED BY <1>1, <1>2

\* The tables and the history start in agreement.
LEMMA MmuInit == Init => MmuTypeOK /\ DirtyTracksStores
<1> SUFFICES ASSUME Init PROVE MmuTypeOK /\ DirtyTracksStores
  OBVIOUS
<1>1. Invalid \in PteRecords /\ RomPte \in [0 .. Entries - 1 -> PteRecords]
  BY MmuConstants, MmuAssumption DEF Invalid, PteRecords
<1>2. \A s \in Slots : s[1] \in Tables /\ s[2] \in 0 .. Entries - 1
  BY DEF Slots
<1>3. pt \in [Slots -> PteRecords]
  BY <1>1, <1>2 DEF Init
<1>4. \A f \in Rom, i \in 0 .. Entries - 1 : pt[<<f, i>>] = RomPte[i]
  <2> SUFFICES ASSUME NEW f \in Rom, NEW i \in 0 .. Entries - 1 PROVE pt[<<f, i>>] = RomPte[i]
    OBVIOUS
  <2>1. <<f, i>> \in Slots
    BY MmuConstants DEF Slots
  <2> QED BY <2>1 DEF Init
<1>5. \A s \in Slots : pt[s].d <=> s \in stored \cup dirtySet
  BY DEF Init
<1> QED BY <1>3, <1>4, <1>5 DEF Init, MmuTypeOK, DirtyTracksStores

\* Every access and every edit of the kernel keeps the dirty bits exact.
LEMMA MmuStep ==
    ASSUME MmuTypeOK, DirtyTracksStores, [Next]_vars
    PROVE  MmuTypeOK' /\ DirtyTracksStores'
<1>0. \A f \in Rom, i \in 0 .. Entries - 1 : <<f, i>> \in Slots /\ <<f, i>>[1] \in Rom
  BY MmuConstants DEF Slots
<1>1. ASSUME NEW p \in Vpns \cup {NonCanonical}, NEW access \in AccessTypes, NEW c \in Ctxs,
             translate(p, access, c)
      PROVE  MmuTypeOK' /\ DirtyTracksStores'
  <2> DEFINE t == Walk(p, access, c)
             walked == /\ ~NoTranslation(c, access) /\ p # NonCanonical
                       /\ t.ok /\ ~WriteFails(t, access)
  <2>1. /\ pt' = IF walked THEN [pt EXCEPT ![t.slot] = Updated(pt[t.slot], access)] ELSE pt
        /\ stored' = IF walked /\ access = "Store" THEN stored \cup {t.slot} ELSE stored
        /\ dirtySet' = dirtySet
    BY <1>1 DEF translate
  <2>2. walked => t.slot \in Slots
    BY WalkSlot
  <2>3. walked /\ t.slot[1] \in Rom => Updated(pt[t.slot], access) = pt[t.slot]
    BY DEF WriteFails
  <2> HIDE DEF t
  <2>4. CASE walked
    <3> DEFINE s == t.slot
               new == Updated(pt[s], access)
    <3>1. s \in Slots /\ pt[s] \in PteRecords
      BY <2>2, <2>4 DEF MmuTypeOK
    <3>2. new \in PteRecords /\ (new.d <=> pt[s].d \/ access = "Store")
      BY <3>1, UpdatedIs
    <3>3. s[1] \in Rom => new = pt[s]
      BY <2>3, <2>4
    <3>4. pt' = [pt EXCEPT ![s] = new] /\ dirtySet' = dirtySet
          /\ stored' = IF access = "Store" THEN stored \cup {s} ELSE stored
      BY <2>1, <2>4
    <3> HIDE DEF walked, s, new
    <3>5. MmuTypeOK'
      BY <3>1, <3>2, <3>4 DEF MmuTypeOK
    <3>6. \A r \in Slots : pt'[r] = IF r = s THEN new ELSE pt[r]
      BY <3>1, <3>4 DEF MmuTypeOK
    <3>7. \A r \in Slots : pt'[r].d <=> r \in stored' \cup dirtySet'
      <4> SUFFICES ASSUME NEW r \in Slots PROVE pt'[r].d <=> r \in stored' \cup dirtySet'
        OBVIOUS
      <4>1. pt[r].d <=> r \in stored \cup dirtySet
        BY DEF DirtyTracksStores
      <4>2. CASE r = s
        BY <3>2, <3>4, <3>6, <4>1, <4>2
      <4>3. CASE r # s
        BY <3>4, <3>6, <4>1, <4>3
      <4> QED BY <4>2, <4>3
    <3>8. \A f \in Rom, i \in 0 .. Entries - 1 : pt'[<<f, i>>] = RomPte[i]
      BY <1>0, <3>3, <3>6 DEF DirtyTracksStores
    <3> QED BY <3>5, <3>7, <3>8 DEF DirtyTracksStores
  <2>5. CASE ~walked
    BY <2>1, <2>5 DEF MmuTypeOK, DirtyTracksStores
  <2> QED BY <2>4, <2>5
<1>2. ASSUME NEW s \in Slots, NEW pte \in Ptes, SetPte(s, pte)
      PROVE  MmuTypeOK' /\ DirtyTracksStores'
  <2>1. /\ s[1] \notin Rom /\ pt' = [pt EXCEPT ![s] = pte] /\ stored' = stored \ {s}
        /\ dirtySet' = IF pte.d THEN dirtySet \cup {s} ELSE dirtySet \ {s}
    BY <1>2 DEF SetPte
  <2>2. pte \in PteRecords
    BY MmuAssumption
  <2>3. MmuTypeOK'
    BY <2>1, <2>2 DEF MmuTypeOK
  <2>4. \A r \in Slots : pt'[r] = IF r = s THEN pte ELSE pt[r]
    BY <2>1 DEF MmuTypeOK
  <2>5. \A r \in Slots : pt'[r].d <=> r \in stored' \cup dirtySet'
    <3> SUFFICES ASSUME NEW r \in Slots PROVE pt'[r].d <=> r \in stored' \cup dirtySet'
      OBVIOUS
    <3>1. pt[r].d <=> r \in stored \cup dirtySet
      BY DEF DirtyTracksStores
    <3>2. CASE r = s
      BY <2>1, <2>4, <3>2
    <3>3. CASE r # s
      BY <2>1, <2>4, <3>1, <3>3
    <3> QED BY <3>2, <3>3
  <2>6. \A f \in Rom, i \in 0 .. Entries - 1 : pt'[<<f, i>>] = RomPte[i]
    BY <1>0, <2>1, <2>4 DEF DirtyTracksStores
  <2> QED BY <2>3, <2>5, <2>6 DEF DirtyTracksStores
<1>3. CASE UNCHANGED vars
  BY <1>3 DEF vars, MmuTypeOK, DirtyTracksStores
<1> QED BY <1>1, <1>2, <1>3 DEF Next

\* The dirty bit of an entry tells whether a store went through it since the
\* kernel wrote it, and entries in ROM never change, for page tables of every
\* depth and size.
THEOREM DirtyIsExact == Spec => []DirtyTracksStores
<1>1. MmuTypeOK /\ DirtyTracksStores /\ [Next]_vars => MmuTypeOK' /\ DirtyTracksStores'
  BY MmuStep
<1> QED BY <1>1, MmuInit, PTL DEF Spec

\* The walk of a U-mode or S-mode access finds a page exactly when a chain of
\* tables leads to an aligned leaf that grants the access, and it is that page,
\* for page tables of every depth and size, ill-formed and cyclic ones too.
THEOREM WalkIsExact == Spec => []WalkFollowsTables
<1>1. MmuTypeOK /\ DirtyTracksStores /\ [Next]_vars => MmuTypeOK' /\ DirtyTracksStores'
  BY MmuStep
<1>2. MmuTypeOK => WalkFollowsTables
  BY WalkMeetsTables
<1> QED BY <1>1, <1>2, MmuInit, PTL DEF Spec
=============================================================================
