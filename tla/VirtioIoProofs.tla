--------------------------- MODULE VirtioIoProofs ---------------------------
(***************************************************************************)
(* Proofs about VirtioIo: for any number of heads, any buffers, any disk   *)
(* and every number of requests and failures.                              *)
(***************************************************************************)
EXTENDS VirtioIo, NatLemmas, FiniteSetTheorems, SequenceTheorems, TLAPS

Descs == [addr : Nat, len : Nat, write : BOOLEAN]
Span(desc) == desc.addr .. desc.addr + desc.len - 1
Shapes(d) == IF d = "blk" THEN BlkShapes ELSE RngShapes

\* The addresses that belong to a head.
Region(d, h) == Slot(d, h) .. Slot(d, h) + RegionLen - 1

StatusAddr(r) == r.chain[Len(r.chain)].addr
DataDescs(d, r) == IF d = "blk" THEN 2 .. Len(r.chain) - 1 ELSE DOMAIN r.chain
BufBytes(r)   == UNION {Span(r.chain[i]) : i \in 2 .. Len(r.chain) - 1}

\* What the device writes when it executes a request.
Fill(r) ==
    IF r.type = "IN" THEN BufBytes(r)
    ELSE IF r.type = "GET_ID" /\ Len(r.chain) > 2 THEN Span(r.chain[2]) ELSE {}
Touched(d, r) ==
    IF d = "blk" THEN Fill(r) \cup {StatusAddr(r)}
    ELSE LET w == Walk(r, RNG_MAX_CHAIN) IN UNION {Span(w[i]) : i \in {j \in DOMAIN w : w[j].write}}

\* All of its buffers are in memory.
Good(d, h, r) == \A i \in DataDescs(d, r) : Span(r.chain[i]) \subseteq Region(d, h)

-----------------------------------------------------------------------------
(* The queue of a device: the used entries that were not collected, then   *)
(* the available ones, of which process_queue has executed the first.      *)

NAll(d) == Len(used[d]) + Len(avail[d])
NServed(d) == Len(used[d]) + IF running = d THEN Len(staged) ELSE 0
HeadAt(d, p) == IF p <= Len(used[d]) THEN used[d][p].head ELSE avail[d][p - Len(used[d])]
LenAt(d, p) == IF p <= Len(used[d]) THEN used[d][p].len ELSE staged[p - Len(used[d])].len
ReqAt(d, p) == request[d][HeadAt(d, p)]
GoodAt(d, p) == Good(d, HeadAt(d, p), ReqAt(d, p))

Acked(p) == mem[StatusAddr(ReqAt("blk", p))] = S_OK
Writes(p, b) == GoodAt("blk", p) /\ b \in Covered(ReqAt("blk", p))

\* The data for byte b that a write has in memory m, and those of the writes
\* from position p on.
DataIn(m, r, b) ==
    LET a == Addrs(Buffers(r))[b - r.sector * SECTOR_SIZE + 1] IN IF a \in DRAM THEN m[a] ELSE Blank
From(b, p) == {DataIn(mem, ReqAt("blk", q), b) : q \in {k \in p .. NAll("blk") : Writes(k, b)}}

NonBlank(m, r) == {a \in Writable(r) \cap DRAM : m[a] # Blank}

Entries == [head : HeadIds, len : Int]

IoTypeOK ==
    /\ mem = [a \in DRAM |-> mem[a]] /\ disk = [b \in DiskBytes |-> disk[b]]
    /\ may = [b \in DiskBytes |-> may[b]]
    /\ request = [d \in Devices |-> [h \in HeadIds |-> request[d][h]]]
    /\ used \in [Devices -> Seq(Entries)] /\ avail \in [Devices -> Seq(HeadIds)]
    /\ staged \in Seq(Entries) /\ running \in Devices \cup {None}
    /\ made \in Nat /\ faults \in Nat

QueueInv(d) ==
    /\ \A h \in HeadIds : request[d][h] # NoRequest => \E s \in Shapes(d) : request[d][h] = Request(d, h, s)
    /\ \A p \in 1 .. NAll(d) : ReqAt(d, p) # NoRequest
    /\ \A p, q \in 1 .. NAll(d) : HeadAt(d, p) = HeadAt(d, q) => p = q
    /\ running = d => /\ Len(staged) <= Len(avail[d])
                      /\ \A i \in DOMAIN staged : staged[i].head = avail[d][i]

\* A write has its data, and nothing is in a buffer that the device did not
\* put there.
DataOk(d, h, r, m) ==
    Good(d, h, r) =>
        /\ d = "blk" /\ r.type = "OUT" => \A a \in BufBytes(r) : m[a] # Blank
        /\ NonBlank(m, r) \subseteq Touched(d, r)

\* A request that was executed has a status byte; when it succeeded, its length
\* is that of what was written.
ServedOk(d, h, r, m, len) ==
    /\ d = "blk" => Len(r.chain) > 1 /\ StatusAddr(r) \in Region(d, h)
    /\ (IF d = "blk" THEN m[StatusAddr(r)] = S_OK ELSE ~r.loops) =>
          Good(d, h, r) /\ len = Cardinality(NonBlank(m, r))

DataInv(d) == \A p \in 1 .. NAll(d) : DataOk(d, HeadAt(d, p), ReqAt(d, p), mem)
ServedInv(d) == \A p \in 1 .. NServed(d) : ServedOk(d, HeadAt(d, p), ReqAt(d, p), mem, LenAt(d, p))

DiskInv == \A b \in DiskBytes : disk[b] # Blank /\ disk[b] \in may[b] \cup From(b, 1)

AckInv ==
    \A p \in 1 .. NServed("blk") : Acked(p) =>
        \A b \in Covered(ReqAt("blk", p)) : b \in DiskBytes /\ disk[b] \in From(b, p)

ReadInv ==
    \A p \in 1 .. NServed("blk") : ReqAt("blk", p).type = "IN" /\ Acked(p) =>
        LET r == ReqAt("blk", p)
            a == Addrs(Buffers(r))
        IN  \A i \in DOMAIN a :
              LET b == r.sector * SECTOR_SIZE + i - 1
              IN  /\ b \in DiskBytes /\ mem[a[i]] \in may[b] \cup From(b, 1)
                  /\ \A q \in 1 .. p - 1 :
                        Acked(q) /\ b \in Covered(ReqAt("blk", q)) => mem[a[i]] \in From(b, q)

\* The queues and what was served.
BaseInv == IoTypeOK /\ (running = None => staged = << >>) /\ \A d \in Devices : QueueInv(d)

IoInv ==
    /\ BaseInv /\ DiskInv /\ AckInv /\ ReadInv
    /\ \A d \in Devices : DataInv(d) /\ ServedInv(d)

-----------------------------------------------------------------------------
(* Addresses of descriptors. *)

\* The bytes of a descriptor, in order.
LEMMA BytesIs ==
  ASSUME NEW x \in Descs
  PROVE  /\ Bytes(x) \in Seq(Nat) /\ Len(Bytes(x)) = x.len
         /\ \A j \in 1 .. x.len : Bytes(x)[j] = x.addr + j - 1
         /\ \A a \in Span(x) : a - x.addr + 1 \in 1 .. x.len /\ Bytes(x)[a - x.addr + 1] = a
         /\ \A j \in 1 .. x.len : Bytes(x)[j] \in Span(x)
<1>1. x.addr \in Nat /\ x.len \in Nat
  BY DEF Descs
<1>2. \A j \in 1 .. x.len : x.addr + j - 1 \in Nat
  BY <1>1
<1>3. Bytes(x) \in Seq(Nat) /\ Len(Bytes(x)) = x.len
  BY <1>1, <1>2, IsASeq DEF Bytes
<1>4. \A j \in 1 .. x.len : Bytes(x)[j] = x.addr + j - 1
  BY DEF Bytes
<1>5. \A a \in Span(x) : a - x.addr + 1 \in 1 .. x.len /\ Bytes(x)[a - x.addr + 1] = a
  BY <1>1, <1>4 DEF Span
<1>6. \A j \in 1 .. x.len : Bytes(x)[j] \in Span(x)
  BY <1>1, <1>4 DEF Span
<1> QED BY <1>3, <1>4, <1>5, <1>6

\* Where the elements of a concatenation are.
LEMMA ConcatAt ==
  ASSUME NEW s \in Seq(Nat), NEW t \in Seq(Nat)
  PROVE  /\ Len(s \o t) = Len(s) + Len(t) /\ Len(s) \in Nat /\ Len(t) \in Nat
         /\ \A i \in 1 .. Len(s) : (s \o t)[i] = s[i]
         /\ \A i \in 1 .. Len(t) : (s \o t)[Len(s) + i] = t[i]
<1>1. /\ Len(s \o t) = Len(s) + Len(t) /\ Len(s) \in Nat /\ Len(t) \in Nat
      /\ \A i \in 1 .. Len(s) + Len(t) : (s \o t)[i] = IF i <= Len(s) THEN s[i] ELSE t[i - Len(s)]
  BY ConcatProperties
<1> DEFINE u == s \o t
<1> HIDE DEF u
<1>2. ASSUME NEW i \in 1 .. Len(s) PROVE u[i] = s[i]
  BY <1>1 DEF u
<1>3. ASSUME NEW i \in 1 .. Len(t) PROVE u[Len(s) + i] = t[i]
  <2>1. Len(s) + i \in 1 .. Len(s) + Len(t) /\ ~(Len(s) + i <= Len(s)) /\ (Len(s) + i) - Len(s) = i
    BY <1>1
  <2> QED BY <1>1, <2>1 DEF u
<1> QED BY <1>1, <1>2, <1>3 DEF u

\* f[n] has the addresses of the first n descriptors.
Gathers(f, ds) ==
    /\ f \in [0 .. Len(ds) -> Seq(Nat)] /\ f[0] = << >>
    /\ \A n \in 1 .. Len(ds) : f[n] = f[n - 1] \o Bytes(ds[n])

\* Addrs is the last value of its local function.
LEMMA AddrsIs ==
  ASSUME NEW ds \in Seq(Descs)
  PROVE  \E f : Gathers(f, ds) /\ Addrs(ds) = f[Len(ds)]
<1> DEFINE L == Len(ds)
           Is(w) == w = [n \in 0 .. L |-> IF n = 0 THEN << >> ELSE w[n - 1] \o Bytes(ds[n])]
           first == CHOOSE w : Is(w)
           X == Seq(Nat)
           Row(n, x) == IF n \in 1 .. L THEN x \o Bytes(ds[n]) ELSE x
           G == [k \in Nat |-> [x \in X |-> Row(k + 1, x)]]
<1>1. Addrs(ds) = first[L]
  BY DEF Addrs
<1>2. L \in Nat /\ DOMAIN ds = 1 .. L /\ \A n \in 1 .. L : ds[n] \in Descs
  OBVIOUS
<1> HIDE DEF L
<1>3. \A k \in Nat, x \in X : Row(k + 1, x) \in X
  BY <1>2, BytesIs
<1>4. G \in [Nat -> [X -> X]] /\ << >> \in X /\ \A k \in Nat, x \in X : G[k][x] = Row(k + 1, x)
  BY <1>3
<1> HIDE DEF G, X, Row
<1>5. PICK F \in [Nat -> X] : Iterates(F, << >>, G)
  BY <1>4, Recursion
<1> DEFINE w0 == [n \in 0 .. L |-> F[n]]
<1>6. Is(w0)
  <2>1. ASSUME NEW n \in 0 .. L PROVE F[n] = IF n = 0 THEN << >> ELSE w0[n - 1] \o Bytes(ds[n])
    <3>1. CASE n = 0
      BY <1>5, <3>1 DEF Iterates
    <3>2. CASE n # 0
      <4>1. n - 1 \in Nat /\ n - 1 \in 0 .. L /\ (n - 1) + 1 = n /\ n \in 1 .. L
        BY <1>2, <3>2
      <4>2. F[(n - 1) + 1] = Row((n - 1) + 1, F[n - 1])
        BY <1>4, <1>5, <4>1 DEF Iterates
      <4> QED BY <3>2, <4>1, <4>2 DEF Row
    <3> QED BY <3>1, <3>2
  <2> QED BY <2>1
<1> HIDE DEF w0
<1>7. Is(first)
  BY <1>6
<1> HIDE DEF first
<1>8. /\ first[0] = << >> /\ DOMAIN first = 0 .. L
      /\ \A n \in 1 .. L : first[n] = first[n - 1] \o Bytes(ds[n])
  <2> DEFINE Put(x, n) == x \o Bytes(ds[n])
  <2> HIDE DEF Put
  <2>1. first = [n \in 0 .. L |-> IF n = 0 THEN << >> ELSE Put(first[n - 1], n)]
    BY <1>7 DEF Put
  <2>2. 0 \in 0 .. L /\ \A n \in 1 .. L : n \in 0 .. L /\ n # 0
    BY <1>2
  <2>3. /\ first[0] = << >> /\ DOMAIN first = 0 .. L
        /\ \A n \in 1 .. L : first[n] = Put(first[n - 1], n)
    BY <2>1, <2>2
  <2> QED BY <2>3 DEF Put
<1>9. ASSUME NEW m \in 0 .. L, first[m] \notin Seq(Nat) PROVE FALSE
  <2> DEFINE T == {i \in 0 .. L : first[i] \notin Seq(Nat)}
  <2>1. T \in SUBSET Nat /\ T # {}
    BY <1>2, <1>9
  <2>2. PICK i \in T : \A j \in T : i <= j
    BY <2>1, LeastNat
  <2>3. i # 0
    <3>1. << >> \in Seq(Nat)
      BY EmptySeq
    <3> QED BY <1>8, <2>2, <3>1
  <2>4. i - 1 \in 0 .. L /\ ~(i <= i - 1) /\ i \in 1 .. L
    BY <1>2, <2>2, <2>3
  <2>5. first[i - 1] \in Seq(Nat)
    BY <2>2, <2>4
  <2>6. first[i] = first[i - 1] \o Bytes(ds[i]) /\ Bytes(ds[i]) \in Seq(Nat)
    BY <1>2, <1>8, <2>4, BytesIs
  <2>7. first[i] \in Seq(Nat)
    BY <2>5, <2>6
  <2> QED BY <2>2, <2>7
<1>10. first \in [0 .. L -> Seq(Nat)]
  <2>1. first = [n \in 0 .. L |-> first[n]]
    BY <1>7
  <2> QED BY <1>9, <2>1
<1> QED BY <1>1, <1>8, <1>10 DEF Gathers, L

\* A position of a sequence of a + b elements is one of the first a or of the last b.
LEMMA PositionSplit ==
  ASSUME NEW a \in Nat, NEW b \in Nat
  PROVE  /\ \A i \in 1 .. a + b : i \in 1 .. a \/ (i - a \in 1 .. b /\ a + (i - a) = i)
         /\ \A i \in 1 .. a : i \in 1 .. a + b
         /\ \A i \in 1 .. b : a + i \in 1 .. a + b
OBVIOUS

\* The addresses are those of the descriptors.
LEMMA AddrsRange ==
  ASSUME NEW ds \in Seq(Descs)
  PROVE  /\ Addrs(ds) \in Seq(Nat)
         /\ \A i \in 1 .. Len(Addrs(ds)) : \E n \in 1 .. Len(ds) : Addrs(ds)[i] \in Span(ds[n])
         /\ \A n \in 1 .. Len(ds) : \A a \in Span(ds[n]) : \E i \in 1 .. Len(Addrs(ds)) : Addrs(ds)[i] = a
<1>1. PICK f : Gathers(f, ds) /\ Addrs(ds) = f[Len(ds)]
  BY AddrsIs
<1> DEFINE L == Len(ds)
           Ok(m) == /\ \A i \in 1 .. Len(f[m]) : \E n \in 1 .. m : f[m][i] \in Span(ds[n])
                    /\ \A n \in 1 .. m : \A a \in Span(ds[n]) : \E i \in 1 .. Len(f[m]) : f[m][i] = a
           T == {m \in 0 .. L : ~Ok(m)}
<1>2. L \in Nat /\ \A n \in 1 .. L : ds[n] \in Descs
  OBVIOUS
<1>3. f[L] \in Seq(Nat)
  BY <1>1, <1>2 DEF Gathers
<1>4. ASSUME ~Ok(L) PROVE FALSE
  <2>1. T \in SUBSET Nat /\ T # {}
    <3> HIDE DEF Ok
    <3> QED BY <1>2, <1>4
  <2>2. PICK m \in T : \A j \in T : m <= j
    BY <2>1, LeastNat
  <2>3. m \in 0 .. L /\ ~Ok(m)
    BY <2>2
  <2>4. m # 0
    <3> SUFFICES ASSUME m = 0 PROVE FALSE
      OBVIOUS
    <3>1. f[0] = << >> /\ Len(f[0]) = 0
      BY <1>1 DEF Gathers
    <3> QED BY <2>3, <3>1
  <2>5. m - 1 \in 0 .. L /\ ~(m <= m - 1) /\ m \in 1 .. L /\ m - 1 \in Nat
    BY <1>2, <2>3, <2>4
  <2>6. Ok(m - 1)
    <3> HIDE DEF Ok
    <3> QED BY <2>2, <2>5
  <2> DEFINE g == f[m - 1]
             y == Bytes(ds[m])
  <2>7. /\ f[m] = g \o y /\ g \in Seq(Nat) /\ y \in Seq(Nat) /\ Len(y) = ds[m].len
        /\ \A a \in Span(ds[m]) : a - ds[m].addr + 1 \in 1 .. Len(y) /\ y[a - ds[m].addr + 1] = a
        /\ \A j \in 1 .. Len(y) : y[j] \in Span(ds[m])
    BY <1>1, <1>2, <2>5, BytesIs DEF Gathers
  <2> HIDE DEF y
  <2>8. /\ Len(f[m]) = Len(g) + Len(y) /\ Len(g) \in Nat /\ Len(y) \in Nat
        /\ \A i \in 1 .. Len(g) : f[m][i] = g[i]
        /\ \A i \in 1 .. Len(y) : f[m][Len(g) + i] = y[i]
    <3>1. g \in Seq(Nat) /\ y \in Seq(Nat) /\ f[m] = g \o y
      BY <2>7
    <3> HIDE DEF g
    <3>2. /\ Len(g \o y) = Len(g) + Len(y) /\ Len(g) \in Nat /\ Len(y) \in Nat
          /\ \A i \in 1 .. Len(g) : (g \o y)[i] = g[i]
          /\ \A i \in 1 .. Len(y) : (g \o y)[Len(g) + i] = y[i]
      BY <3>1, ConcatAt
    <3> QED BY <3>1, <3>2
  <2>9. ASSUME NEW i \in 1 .. Len(f[m]) PROVE \E n \in 1 .. m : f[m][i] \in Span(ds[n])
    <3> DEFINE k == i - Len(g)
    <3>0. i \in 1 .. Len(g) \/ (k \in 1 .. Len(y) /\ Len(g) + k = i)
      <4>1. Len(g) \in Nat /\ Len(y) \in Nat /\ i \in 1 .. Len(g) + Len(y)
        BY <2>8
      <4>2. \A a, b \in Nat : \A j \in 1 .. a + b : j \in 1 .. a \/ (j - a \in 1 .. b /\ a + (j - a) = j)
        BY PositionSplit
      <4> HIDE DEF g
      <4> QED BY <4>1, <4>2
    <3> HIDE DEF k
    <3>1. CASE i \in 1 .. Len(g)
      <4>1. PICK n \in 1 .. m - 1 : g[i] \in Span(ds[n])
        BY <2>6, <3>1
      <4>2. n \in 1 .. m
        BY <2>5
      <4>3. f[m][i] = g[i]
        BY <2>8, <3>1
      <4> QED BY <4>1, <4>2, <4>3
    <3>2. CASE k \in 1 .. Len(y) /\ Len(g) + k = i
      <4>1. f[m][Len(g) + k] = y[k]
        BY <2>8, <3>2
      <4>2. f[m][i] = y[k]
        BY <3>2, <4>1
      <4>3. y[k] \in Span(ds[m])
        BY <2>7, <3>2
      <4>4. m \in 1 .. m
        BY <2>5
      <4> QED BY <4>2, <4>3, <4>4
    <3> QED BY <3>0, <3>1, <3>2
  <2>10. ASSUME NEW n \in 1 .. m, NEW a \in Span(ds[n]) PROVE \E i \in 1 .. Len(f[m]) : f[m][i] = a
    <3>1. CASE n = m
      <4> DEFINE k == a - ds[m].addr + 1
      <4>1. k \in 1 .. Len(y) /\ y[k] = a
        BY <2>7, <3>1
      <4> HIDE DEF k
      <4>2. Len(g) + k \in 1 .. Len(f[m])
        BY <2>8, <4>1, PositionSplit
      <4>3. f[m][Len(g) + k] = y[k]
        BY <2>8, <4>1
      <4> QED BY <4>1, <4>2, <4>3
    <3>2. CASE n # m
      <4>1. n \in 1 .. m - 1
        BY <2>5, <3>2
      <4>2. PICK i \in 1 .. Len(g) : g[i] = a
        BY <2>6, <4>1
      <4>3. i \in 1 .. Len(f[m])
        BY <2>8, PositionSplit
      <4> QED BY <2>8, <4>2, <4>3
    <3> QED BY <3>1, <3>2
  <2> QED BY <2>3, <2>9, <2>10
<1> QED BY <1>1, <1>3, <1>4

\* Descriptors that do not overlap have each address once.
Apart(ds) == \A i, j \in 1 .. Len(ds) : i # j => Span(ds[i]) \cap Span(ds[j]) = {}

\* No address occurs twice in the addresses of such descriptors.
LEMMA AddrsOnce ==
  ASSUME NEW ds \in Seq(Descs), Apart(ds)
  PROVE  \A i, j \in 1 .. Len(Addrs(ds)) : Addrs(ds)[i] = Addrs(ds)[j] => i = j
<1>1. PICK f : Gathers(f, ds) /\ Addrs(ds) = f[Len(ds)]
  BY AddrsIs
<1> DEFINE L == Len(ds)
           Ok(m) == /\ \A i \in 1 .. Len(f[m]) : \E n \in 1 .. m : f[m][i] \in Span(ds[n])
                    /\ \A i, j \in 1 .. Len(f[m]) : f[m][i] = f[m][j] => i = j
           T == {m \in 0 .. L : ~Ok(m)}
<1>2. L \in Nat /\ \A n \in 1 .. L : ds[n] \in Descs
  OBVIOUS
<1>4. ASSUME ~Ok(L) PROVE FALSE
  <2>1. T \in SUBSET Nat /\ T # {}
    <3> HIDE DEF Ok
    <3> QED BY <1>2, <1>4
  <2>2. PICK m \in T : \A j \in T : m <= j
    BY <2>1, LeastNat
  <2>3. m \in 0 .. L /\ ~Ok(m)
    BY <2>2
  <2>4. m # 0
    <3> SUFFICES ASSUME m = 0 PROVE FALSE
      OBVIOUS
    <3>1. f[0] = << >> /\ Len(f[0]) = 0
      BY <1>1 DEF Gathers
    <3> QED BY <2>3, <3>1
  <2>5. m - 1 \in 0 .. L /\ ~(m <= m - 1) /\ m \in 1 .. L /\ m - 1 \in Nat
    BY <1>2, <2>3, <2>4
  <2>6. Ok(m - 1)
    <3> HIDE DEF Ok
    <3> QED BY <2>2, <2>5
  <2> DEFINE g == f[m - 1]
             y == Bytes(ds[m])
  <2>7. /\ f[m] = g \o y /\ g \in Seq(Nat) /\ y \in Seq(Nat) /\ Len(y) = ds[m].len
        /\ \A j \in 1 .. Len(y) : y[j] \in Span(ds[m]) /\ y[j] = ds[m].addr + j - 1
        /\ ds[m].addr \in Nat
    BY <1>1, <1>2, <2>5, BytesIs DEF Gathers, Descs
  <2> HIDE DEF y
  <2>8. /\ Len(f[m]) = Len(g) + Len(y) /\ Len(g) \in Nat /\ Len(y) \in Nat
        /\ \A i \in 1 .. Len(g) : f[m][i] = g[i]
        /\ \A i \in 1 .. Len(y) : f[m][Len(g) + i] = y[i]
    <3>1. g \in Seq(Nat) /\ y \in Seq(Nat) /\ f[m] = g \o y
      BY <2>7
    <3> HIDE DEF g
    <3>2. /\ Len(g \o y) = Len(g) + Len(y) /\ Len(g) \in Nat /\ Len(y) \in Nat
          /\ \A i \in 1 .. Len(g) : (g \o y)[i] = g[i]
          /\ \A i \in 1 .. Len(y) : (g \o y)[Len(g) + i] = y[i]
      BY <3>1, ConcatAt
    <3> QED BY <3>1, <3>2
  <2>9. ASSUME NEW i \in 1 .. Len(f[m])
        PROVE  \/ i \in 1 .. Len(g) /\ f[m][i] = g[i] /\ \E n \in 1 .. m - 1 : f[m][i] \in Span(ds[n])
               \/ /\ i - Len(g) \in 1 .. Len(y) /\ f[m][i] = ds[m].addr + (i - Len(g)) - 1
                  /\ f[m][i] \in Span(ds[m])
    <3> DEFINE k == i - Len(g)
    <3>0. i \in 1 .. Len(g) \/ (k \in 1 .. Len(y) /\ Len(g) + k = i)
      <4>1. Len(g) \in Nat /\ Len(y) \in Nat /\ i \in 1 .. Len(g) + Len(y)
        BY <2>8
      <4>2. \A a, b \in Nat : \A j \in 1 .. a + b : j \in 1 .. a \/ (j - a \in 1 .. b /\ a + (j - a) = j)
        BY PositionSplit
      <4> HIDE DEF g
      <4> QED BY <4>1, <4>2
    <3>1. CASE i \in 1 .. Len(g)
      <4>1. \E n \in 1 .. m - 1 : g[i] \in Span(ds[n])
        BY <2>6, <3>1
      <4>2. f[m][i] = g[i]
        BY <2>8, <3>1
      <4> QED BY <3>1, <4>1, <4>2
    <3>2. CASE k \in 1 .. Len(y) /\ Len(g) + k = i
      <4> HIDE DEF k
      <4>1. f[m][Len(g) + k] = y[k]
        BY <2>8, <3>2
      <4>2. f[m][i] = y[k]
        BY <3>2, <4>1
      <4>3. y[k] \in Span(ds[m]) /\ y[k] = ds[m].addr + k - 1
        BY <2>7, <3>2
      <4>4. k \in 1 .. Len(y) /\ f[m][i] = ds[m].addr + k - 1 /\ f[m][i] \in Span(ds[m])
        BY <3>2, <4>2, <4>3
      <4> QED BY <4>4 DEF k
    <3> QED BY <3>0, <3>1, <3>2
  <2>10. \A n \in 1 .. m - 1 : Span(ds[n]) \cap Span(ds[m]) = {}
    <3>1. \A n \in 1 .. m - 1 : n \in 1 .. Len(ds) /\ m \in 1 .. Len(ds) /\ n # m
      BY <1>2, <2>5
    <3> QED BY <3>1 DEF Apart
  <2>11. ASSUME NEW i \in 1 .. Len(f[m]), NEW j \in 1 .. Len(f[m]), f[m][i] = f[m][j] PROVE i = j
    <3>1. CASE i \in 1 .. Len(g) /\ f[m][i] = g[i] /\ \E n \in 1 .. m - 1 : f[m][i] \in Span(ds[n])
      <4>1. j \in 1 .. Len(g) /\ f[m][j] = g[j]
        BY <2>9, <2>10, <2>11, <3>1
      <4> QED BY <2>6, <2>11, <3>1, <4>1
    <3>2. CASE /\ i - Len(g) \in 1 .. Len(y) /\ f[m][i] = ds[m].addr + (i - Len(g)) - 1
               /\ f[m][i] \in Span(ds[m])
      <4>1. j - Len(g) \in 1 .. Len(y) /\ f[m][j] = ds[m].addr + (j - Len(g)) - 1
        BY <2>9, <2>10, <2>11, <3>2
      <4>2. i - Len(g) \in Int /\ j - Len(g) \in Int /\ i \in Int /\ j \in Int
        BY <2>8, <3>2, <4>1
      <4>3. ds[m].addr + (i - Len(g)) - 1 = ds[m].addr + (j - Len(g)) - 1
        BY <2>11, <3>2, <4>1
      <4> DEFINE x == ds[m].addr
                 k == Len(g)
      <4>4. x \in Int /\ k \in Int
        BY <2>7, <2>8
      <4> HIDE DEF x, k
      <4>5. x + (i - k) - 1 = x + (j - k) - 1 /\ i \in Int /\ j \in Int
        BY <4>2, <4>3 DEF x, k
      <4> QED BY <4>4, <4>5
    <3> QED BY <2>9, <3>1, <3>2
  <2>12. \A i \in 1 .. Len(f[m]) : \E n \in 1 .. m : f[m][i] \in Span(ds[n])
    BY <2>5, <2>9
  <2> QED BY <2>3, <2>11, <2>12
<1> QED BY <1>1, <1>4

\* A sequence without repetition has as many elements as it is long.
LEMMA SeqCard ==
  ASSUME NEW s \in Seq(Nat), \A i, j \in 1 .. Len(s) : s[i] = s[j] => i = j
  PROVE  /\ IsFiniteSet({s[i] : i \in 1 .. Len(s)})
         /\ Cardinality({s[i] : i \in 1 .. Len(s)}) = Len(s)
<1> DEFINE S == 1 .. Len(s)
           T == {s[i] : i \in S}
           f == [i \in S |-> s[i]]
<1>1. Len(s) \in Nat /\ IsFiniteSet(S) /\ Cardinality(S) = Len(s)
  BY FS_Interval
<1>2. f \in Bijection(S, T)
  <2>1. f \in [S -> T] /\ \A t \in T : \E i \in S : f[i] = t
    OBVIOUS
  <2>2. \A i, j \in S : f[i] = f[j] => i = j
    OBVIOUS
  <2> QED BY <2>1, <2>2 DEF Bijection, Injection, Surjection, IsInjective
<1>3. ExistsBijection(S, T)
  BY <1>2 DEF ExistsBijection
<1> HIDE DEF S, T
<1>4. IsFiniteSet(T) /\ Cardinality(T) = Cardinality(S)
  BY <1>1, <1>3, FS_Bijection
<1> QED BY <1>1, <1>4 DEF S, T

\* An access goes on up to the first address outside DRAM.
LEMMA ReachedIs ==
  ASSUME NEW s \in Seq(Nat)
  PROVE  /\ Reached(s) \in 0 .. Len(s)
         /\ \A i \in 1 .. Reached(s) : s[i] \in DRAM
         /\ Reached(s) < Len(s) => s[Reached(s) + 1] \notin DRAM
<1> DEFINE Is(n) == /\ \A i \in 1 .. n : s[i] \in DRAM
                    /\ n < Len(s) => s[n + 1] \notin DRAM
           T == {n \in 0 .. Len(s) : n < Len(s) => s[n + 1] \notin DRAM}
<1>1. Len(s) \in Nat
  OBVIOUS
<1>2. T \in SUBSET Nat /\ Len(s) \in T
  BY <1>1
<1>3. PICK n \in T : \A m \in T : n <= m
  BY <1>2, LeastNat
<1>4. ASSUME NEW i \in 1 .. n PROVE s[i] \in DRAM
  <2>1. i - 1 \in 0 .. Len(s) /\ i - 1 < Len(s) /\ ~(n <= i - 1) /\ (i - 1) + 1 = i
    BY <1>1, <1>3
  <2>2. i - 1 \notin T
    BY <1>3, <2>1
  <2> QED BY <2>1, <2>2
<1>5. \E k \in 0 .. Len(s) : Is(k)
  BY <1>3, <1>4
<1> HIDE DEF Is
<1>6. Reached(s) = CHOOSE k \in 0 .. Len(s) : Is(k)
  BY DEF Reached, Is
<1>7. Reached(s) \in 0 .. Len(s) /\ Is(Reached(s))
  BY <1>5, <1>6
<1> QED BY <1>7 DEF Is

\* A write byte after byte changes the addresses that it comes to.
Puts(s, bytes, new) ==
    /\ new = [a \in DRAM |-> new[a]]
    /\ \A a \in DRAM : \/ new[a] = mem[a] /\ \A i \in 1 .. Reached(s) : s[i] # a
                       \/ \E i \in 1 .. Reached(s) : s[i] = a /\ new[a] = bytes[i]

\* write_u8 in a loop changes the bytes up to the first that fails, and no
\* other.
LEMMA StoredIs ==
  ASSUME NEW s \in Seq(Nat), NEW bytes
  PROVE  Puts(s, bytes, Stored(mem, s, bytes))
<1> DEFINE Hits(a) == {i \in 1 .. Reached(s) : s[i] = a}
           Top(a) == CHOOSE i \in Hits(a) : \A k \in Hits(a) : k <= i
           Val(a) == IF Hits(a) = {} THEN mem[a] ELSE bytes[Top(a)]
<1>1. Stored(mem, s, bytes) = [a \in DRAM |-> Val(a)]
  BY DEF Stored
<1>2. ASSUME NEW a, Hits(a) # {} PROVE Top(a) \in Hits(a)
  <2> DEFINE R == Reached(s)
             T == {R - i : i \in Hits(a)}
  <2>1. R \in Nat
    BY ReachedIs
  <2>2. T \in SUBSET Nat /\ T # {}
    BY <1>2, <2>1
  <2>3. PICK t \in T : \A u \in T : t <= u
    BY <2>2, LeastNat
  <2>4. PICK i \in Hits(a) : t = R - i
    BY <2>3
  <2>5. \A k \in Hits(a) : k <= i
    <3> TAKE k \in Hits(a)
    <3>1. R - i <= R - k
      BY <2>3, <2>4
    <3> QED BY <2>1, <3>1
  <2> HIDE DEF Hits
  <2> QED BY <2>4, <2>5
<1>3. ASSUME NEW a \in DRAM
      PROVE  \/ Val(a) = mem[a] /\ \A i \in 1 .. Reached(s) : s[i] # a
             \/ \E i \in 1 .. Reached(s) : s[i] = a /\ Val(a) = bytes[i]
  <2> HIDE DEF Top
  <2>1. CASE Hits(a) = {}
    BY <2>1
  <2>2. CASE Hits(a) # {}
    BY <1>2, <2>2
  <2> QED BY <2>1, <2>2
<1> HIDE DEF Val
<1> QED BY <1>1, <1>3 DEF Puts

\* The descriptors of one kind.
LEMMA OnlyIs ==
  ASSUME NEW ds \in Seq(Descs), NEW w \in BOOLEAN
  PROVE  /\ Only(ds, w) \in Seq(Descs) /\ Len(Only(ds, w)) = Len(ds)
         /\ \A n \in 1 .. Len(ds) : Span(Only(ds, w)[n]) = IF ds[n].write = w THEN Span(ds[n]) ELSE {}
<1>1. Len(ds) \in Nat /\ DOMAIN ds = 1 .. Len(ds) /\ \A n \in 1 .. Len(ds) : ds[n] \in Descs
  OBVIOUS
<1> DEFINE e(n) == [ds[n] EXCEPT !.len = IF ds[n].write = w THEN ds[n].len ELSE 0]
<1>2. Only(ds, w) = [n \in 1 .. Len(ds) |-> e(n)]
  BY <1>1 DEF Only
<1>3. ASSUME NEW n \in 1 .. Len(ds)
      PROVE  e(n) \in Descs /\ Span(e(n)) = IF ds[n].write = w THEN Span(ds[n]) ELSE {}
  <2>1. PICK a \in Nat, l \in Nat, x \in BOOLEAN : ds[n] = [addr |-> a, len |-> l, write |-> x]
    BY <1>1 DEF Descs
  <2>2. e(n) = [addr |-> a, len |-> IF x = w THEN l ELSE 0, write |-> x]
    BY <2>1
  <2>3. CASE x = w
    BY <2>1, <2>2, <2>3 DEF Descs, Span
  <2>4. CASE x # w
    BY <2>1, <2>2, <2>4 DEF Descs, Span
  <2> QED BY <2>3, <2>4
<1> HIDE DEF e
<1>4. Only(ds, w) \in Seq(Descs) /\ Len(Only(ds, w)) = Len(ds)
  BY <1>1, <1>2, <1>3, IsASeq
<1> QED BY <1>2, <1>3, <1>4

-----------------------------------------------------------------------------
(* Where things are in memory. *)

Index(d, h) == h + IF d = "blk" THEN 0 ELSE Cardinality(HeadIds)

\* What the assumptions say of the layout of memory.
LEMMA Constants ==
  /\ Cardinality(HeadIds) \in Nat /\ RegionLen \in Nat /\ RegionLen > 1 /\ BufLen \in Nat
  /\ RegionLen = BufLen + 2
  /\ \A h \in HeadIds : h \in Nat /\ h < Cardinality(HeadIds)
  /\ Outside \in Nat /\ Outside - 1 = (2 * Cardinality(HeadIds)) * RegionLen /\ Outside - 1 \in Nat
  /\ DRAM = 0 .. Outside - 1
<1>1. Cardinality(HeadIds) \in Nat
  BY IoAssumption, FS_CardinalityType
<1>2. BufLen \in Nat /\ RegionLen = BufLen + 2
  BY IoAssumption DEF RegionLen
<1>3. \A h \in HeadIds : h \in Nat /\ h < Cardinality(HeadIds)
  BY <1>1, IoAssumption
<1>4. (2 * Cardinality(HeadIds)) * RegionLen \in Nat
  BY <1>1, <1>2
<1> QED BY <1>1, <1>2, <1>3, <1>4, IoAssumption DEF Outside

\* The region of a head has the addresses whose quotient is its index.
LEMMA RegionIs ==
  ASSUME NEW d \in Devices, NEW h \in HeadIds
  PROVE  /\ Index(d, h) \in Nat /\ Index(d, h) < 2 * Cardinality(HeadIds)
         /\ Slot(d, h) \in Nat /\ Slot(d, h) \div RegionLen = Index(d, h)
         /\ \A a : a \in Region(d, h) <=> a \in Nat /\ a \div RegionLen = Index(d, h)
<1> DEFINE k == Index(d, h)
           R == RegionLen
<1>1. R \in Nat /\ R > 1
  BY Constants
<1>2. k \in Nat /\ k < 2 * Cardinality(HeadIds)
  BY Constants DEF Index
<1>3. Slot(d, h) = k * R
  BY DEF Slot, Index
<1> HIDE DEF k, R
<1>4. k * R \in Nat
  BY <1>1, <1>2
<1>5. (k * R + 0) \div R = k
  BY <1>1, <1>2, HalvesUnique
<1>6. ASSUME NEW a \in Region(d, h) PROVE a \in Nat /\ a \div R = k
  <2>1. a \in k * R .. k * R + R - 1
    BY <1>3 DEF Region, R
  <2>2. PICK q \in 0 .. R - 1 : a = k * R + q
    <3>1. a - k * R \in 0 .. R - 1 /\ a = k * R + (a - k * R)
      BY <1>1, <1>4, <2>1
    <3> QED BY <3>1
  <2> QED BY <1>1, <1>2, <1>4, <2>2, HalvesUnique
<1>7. ASSUME NEW a \in Nat, a \div R = k PROVE a \in Region(d, h)
  <2>1. a = k * R + (a % R) /\ a % R \in 0 .. R - 1
    BY <1>1, <1>7, Halves
  <2> QED BY <1>1, <1>3, <1>4, <2>1 DEF Region, R
<1> QED BY <1>2, <1>3, <1>4, <1>5, <1>6, <1>7 DEF k, R

\* Regions do not overlap; they are in DRAM and leave its last byte out.
LEMMA RegionsApart ==
  ASSUME NEW d \in Devices, NEW h \in HeadIds, NEW e \in Devices, NEW g \in HeadIds,
         d # e \/ h # g
  PROVE  Region(d, h) \cap Region(e, g) = {}
<1>1. Index(d, h) # Index(e, g)
  BY Constants DEF Index, Devices
<1> QED BY <1>1, RegionIs

\* A region is in DRAM and has its header, buffers and status byte in it.
LEMMA RegionInside ==
  ASSUME NEW d \in Devices, NEW h \in HeadIds
  PROVE  /\ \A a \in Region(d, h) : a \in Nat /\ a \in DRAM /\ a < Outside - 1
         /\ Slot(d, h) \in Region(d, h) /\ Slot(d, h) + 1 + BufLen \in Region(d, h)
         /\ \A a \in Slot(d, h) + 1 .. Slot(d, h) + BufLen : a \in Region(d, h)
         /\ Slot(d, h) + RegionLen <= Outside - 1
<1> DEFINE k == Index(d, h)
           R == RegionLen
           N == 2 * Cardinality(HeadIds)
<1>1. R \in Nat /\ N \in Nat /\ Outside - 1 = N * R /\ DRAM = 0 .. Outside - 1 /\ Outside \in Nat
  BY Constants
<1>2. k \in Nat /\ k < N /\ Slot(d, h) = k * R /\ Slot(d, h) \in Nat
  BY RegionIs DEF Slot, Index
<1>3. R = BufLen + 2 /\ BufLen \in Nat
  BY Constants
<1> HIDE DEF k, R, N
<1>4. (k + 1) * R <= N * R /\ (k + 1) * R = k * R + R /\ k * R \in Nat /\ N * R \in Nat
  BY <1>1, <1>2, TimesMonotone
<1>5. Region(d, h) = Slot(d, h) .. Slot(d, h) + R - 1
  BY DEF Region, R
<1>6. Slot(d, h) + R <= Outside - 1
  BY <1>1, <1>2, <1>4
<1>7. \A a \in Region(d, h) : a \in Nat /\ a < Outside - 1
  BY <1>1, <1>2, <1>5, <1>6
<1> QED BY <1>1, <1>2, <1>3, <1>5, <1>6, <1>7 DEF R

-----------------------------------------------------------------------------
(* What a request that a driver makes is like. *)

Inner(d, h) == Slot(d, h) + 1 .. Slot(d, h) + BufLen

ChainOk(d, h, r) ==
    /\ r.chain \in Seq(Descs) /\ Len(r.chain) > 0
    /\ r.loops \in BOOLEAN /\ r.sector \in 0 .. U64 - 1
    /\ \A i, j \in DataDescs(d, r) : i # j => Span(r.chain[i]) \cap Span(r.chain[j]) = {}
    /\ \A i \in DataDescs(d, r) : \A a \in Span(r.chain[i]) : a \in Inner(d, h) \/ a >= Outside - 1

BlkChainOk(h, r) ==
    /\ r.chain[1].write = FALSE /\ Span(r.chain[1]) \in {{Slot("blk", h)}, {Outside}}
    /\ Len(r.chain) > 1 =>
          LET n == Len(r.chain)
          IN  /\ r.chain[n].write = TRUE /\ Span(r.chain[n]) = {r.chain[n].addr}
              /\ r.chain[n].addr \in {Slot("blk", h) + 1 + BufLen, Outside}
              /\ \A i \in 2 .. n - 1 : r.chain[i].write = (r.type # "OUT")
    /\ ~Good("blk", h, r) =>
          /\ r.type \in {"IN", "OUT"}
          /\ \E i \in 2 .. Len(r.chain) - 1 : \E a \in Span(r.chain[i]) : a \notin DRAM

RngChainOk(h, r) ==
    ~Good("rng", h, r) =>
        /\ ~r.loops /\ Len(r.chain) <= RNG_MAX_CHAIN
        /\ \E i \in DOMAIN r.chain : r.chain[i].write /\ \E a \in Span(r.chain[i]) : a \notin DRAM

Sound(d, h, r) ==
    /\ r # NoRequest /\ ChainOk(d, h, r)
    /\ d = "blk" => BlkChainOk(h, r)
    /\ d = "rng" => RngChainOk(h, r)

\* The descriptor of the i-th buffer.
BufDesc(d, h, s, i) ==
    Desc(IF s.fault = "data" /\ i = Len(s.bufs) THEN Outside - 1 ELSE Slot(d, h) + 1 + s.bufs[i].off,
         s.bufs[i].len,
         IF d = "rng" THEN s.fault # "readonly" \/ i > 1 ELSE s.type # "OUT")
BufDescs(d, h, s) == [i \in DOMAIN s.bufs |-> BufDesc(d, h, s, i)]

\* What the assumptions say of a shape.
LEMMA ShapeIs ==
  ASSUME NEW d \in Devices, NEW s \in Shapes(d)
  PROVE  ShapeOK(s) /\ (d = "rng" => /\ s.type = "RNG" /\ s.bufs # << >>
                                     /\ s.fault = "data" => Len(s.bufs) <= RNG_MAX_CHAIN)
         /\ (d = "blk" => s.type # "RNG")
BY IoAssumption DEF Shapes, Devices

\* The buffers are apart from each other, from the header and the status byte.
LEMMA BufDescIs ==
  ASSUME NEW d \in Devices, NEW h \in HeadIds, NEW s \in Shapes(d)
  PROVE  /\ s.bufs \in Seq([off : Nat, len : Nat]) /\ Len(s.bufs) \in Nat
         /\ BufDescs(d, h, s) \in Seq(Descs) /\ Len(BufDescs(d, h, s)) = Len(s.bufs)
         /\ \A i \in 1 .. Len(s.bufs) : BufDescs(d, h, s)[i] = BufDesc(d, h, s, i)
         /\ \A i \in 1 .. Len(s.bufs) : \A a \in Span(BufDesc(d, h, s, i)) :
               IF s.fault = "data" /\ i = Len(s.bufs) THEN a >= Outside - 1 ELSE a \in Inner(d, h)
         /\ \A i, j \in 1 .. Len(s.bufs) :
               i # j => Span(BufDesc(d, h, s, i)) \cap Span(BufDesc(d, h, s, j)) = {}
         /\ s.fault = "data" => /\ Len(s.bufs) > 0
                                /\ Outside \in Span(BufDesc(d, h, s, Len(s.bufs)))
<1> DEFINE n == Len(s.bufs)
           D(i) == BufDesc(d, h, s, i)
<1>1. /\ s.bufs \in Seq([off : Nat, len : Nat]) /\ n \in Nat /\ DOMAIN s.bufs = 1 .. n
      /\ \A i \in 1 .. n : s.bufs[i].off \in Nat /\ s.bufs[i].len \in Nat
      /\ \A i \in 1 .. n : s.bufs[i].off + s.bufs[i].len <= BufLen
      /\ \A i \in 1 .. n : \A j \in 1 .. i - 1 : s.bufs[j].off + s.bufs[j].len <= s.bufs[i].off
      /\ s.fault = "data" => n > 0 /\ s.bufs[n].len > 1
  <2>1. ShapeOK(s)
    BY ShapeIs
  <2>2. s.bufs \in Seq([off : Nat, len : Nat])
    BY <2>1 DEF ShapeOK
  <2>3. n \in Nat /\ DOMAIN s.bufs = 1 .. n /\ \A i \in 1 .. n : s.bufs[i] \in [off : Nat, len : Nat]
    BY <2>2, LenProperties, ElementOfSeq
  <2>4. s.bufs # << >> => n > 0
    BY <2>2
  <2> QED BY <2>1, <2>2, <2>3, <2>4 DEF ShapeOK
<1>2. /\ Slot(d, h) \in Nat /\ Outside \in Nat /\ Outside - 1 \in Nat /\ BufLen \in Nat
      /\ Slot(d, h) + 1 + BufLen < Outside - 1
  BY Constants, RegionIs, RegionInside
<1>3. ASSUME NEW i \in 1 .. n
      PROVE  /\ D(i) \in Descs /\ D(i).len = s.bufs[i].len
             /\ D(i).addr = IF s.fault = "data" /\ i = n THEN Outside - 1
                            ELSE Slot(d, h) + 1 + s.bufs[i].off
  <2> DEFINE A == IF s.fault = "data" /\ i = n THEN Outside - 1 ELSE Slot(d, h) + 1 + s.bufs[i].off
             W == IF d = "rng" THEN s.fault # "readonly" \/ i > 1 ELSE s.type # "OUT"
  <2>1. A \in Nat /\ W \in BOOLEAN /\ s.bufs[i].len \in Nat
    <3>1. s.bufs[i].off \in Nat /\ s.bufs[i].len \in Nat
      BY <1>1
    <3>2. Outside - 1 \in Nat /\ Slot(d, h) + 1 + s.bufs[i].off \in Nat
      <4>1. Slot(d, h) \in Nat /\ Outside - 1 \in Nat
        BY <1>2
      <4>2. \A a, b \in Nat : a + 1 + b \in Nat
        OBVIOUS
      <4> QED BY <3>1, <4>1, <4>2
    <3>3. W \in BOOLEAN
      BY Zenon
    <3> QED BY <3>1, <3>2, <3>3
  <2>2. D(i) = [addr |-> A, len |-> s.bufs[i].len, write |-> W]
    BY DEF BufDesc, Desc
  <2> HIDE DEF A, W, D
  <2>3. D(i) \in Descs /\ D(i).len = s.bufs[i].len /\ D(i).addr = A
    BY <2>1, <2>2 DEF Descs
  <2> QED BY <2>3 DEF A
<1>4. BufDescs(d, h, s) = [i \in 1 .. n |-> D(i)]
  BY <1>1 DEF BufDescs
<1> HIDE DEF D
<1>5. BufDescs(d, h, s) \in Seq(Descs) /\ Len(BufDescs(d, h, s)) = n
  BY <1>1, <1>3, <1>4, IsASeq
<1>6. ASSUME NEW i \in 1 .. n, NEW a \in Span(D(i))
      PROVE  IF s.fault = "data" /\ i = n THEN a >= Outside - 1
             ELSE /\ a \in Inner(d, h)
                  /\ a >= Slot(d, h) + 1 + s.bufs[i].off
                  /\ a < Slot(d, h) + 1 + s.bufs[i].off + s.bufs[i].len
  <2>1. CASE s.fault = "data" /\ i = n
    <3>1. D(i).addr = Outside - 1 /\ D(i).len \in Nat
      BY <1>1, <1>3, <2>1
    <3>2. a >= Outside - 1
      BY <1>2, <3>1 DEF Span
    <3> QED BY <2>1, <3>2
  <2>2. CASE ~(s.fault = "data" /\ i = n)
    <3>1. D(i).addr = Slot(d, h) + 1 + s.bufs[i].off /\ D(i).len = s.bufs[i].len
      BY <1>3, <2>2
    <3>2. a \in Slot(d, h) + 1 + s.bufs[i].off .. Slot(d, h) + 1 + s.bufs[i].off + s.bufs[i].len - 1
      BY <3>1 DEF Span
    <3>3. s.bufs[i].off \in Nat /\ s.bufs[i].len \in Nat /\ s.bufs[i].off + s.bufs[i].len <= BufLen
      BY <1>1
    <3> DEFINE x == s.bufs[i].off
               y == s.bufs[i].len
    <3> HIDE DEF x, y
    <3>4. /\ a \in Slot(d, h) + 1 + x .. Slot(d, h) + 1 + x + y - 1
          /\ x \in Nat /\ y \in Nat /\ x + y <= BufLen
      BY <3>2, <3>3 DEF x, y
    <3>5. /\ a \in Slot(d, h) + 1 .. Slot(d, h) + BufLen
          /\ a >= Slot(d, h) + 1 + x /\ a < Slot(d, h) + 1 + x + y
      BY <1>2, <3>4
    <3> QED BY <2>2, <3>5 DEF Inner, x, y
  <2> QED BY <2>1, <2>2
<1>7. ASSUME NEW i \in 1 .. n, NEW j \in 1 .. n, i < j, NEW a \in Span(D(i)), a \in Span(D(j)) PROVE FALSE
  <2>1. /\ a \in Inner(d, h) /\ a < Slot(d, h) + 1 + s.bufs[i].off + s.bufs[i].len
    <3>1. n \in Nat
      BY <1>1
    <3> HIDE DEF n
    <3>2. i # n
      BY <1>7, <3>1
    <3> QED BY <1>6, <1>7, <3>2
  <2>2. i \in 1 .. j - 1 /\ s.bufs[i].off + s.bufs[i].len <= s.bufs[j].off
    <3>1. n \in Nat
      BY <1>1
    <3> HIDE DEF n
    <3>2. i \in 1 .. j - 1
      BY <1>7, <3>1
    <3>3. \A k \in 1 .. j - 1 : s.bufs[k].off + s.bufs[k].len <= s.bufs[j].off
      BY <1>1
    <3> QED BY <3>2, <3>3
  <2>3. CASE s.fault = "data" /\ j = n
    <3>1. a >= Outside - 1
      BY <1>6, <1>7, <2>3
    <3> QED BY <1>2, <2>1, <3>1 DEF Inner
  <2>4. CASE ~(s.fault = "data" /\ j = n)
    <3>1. a >= Slot(d, h) + 1 + s.bufs[j].off
      BY <1>6, <1>7, <2>4
    <3>2. a \in Int
      BY <1>2, <2>1 DEF Inner
    <3>3. s.bufs[i].off \in Nat /\ s.bufs[i].len \in Nat /\ s.bufs[j].off \in Nat
      BY <1>1
    <3> DEFINE x == s.bufs[i].off
               y == s.bufs[i].len
               z == s.bufs[j].off
               S == Slot(d, h)
    <3>4. /\ x \in Nat /\ y \in Nat /\ z \in Nat /\ S \in Nat /\ x + y <= z
          /\ a < S + 1 + x + y /\ a >= S + 1 + z
      BY <1>2, <2>1, <2>2, <3>1, <3>3
    <3> HIDE DEF x, y, z, S
    <3> QED BY <3>2, <3>4
  <2> QED BY <2>3, <2>4
<1>8. ASSUME NEW i \in 1 .. n, NEW j \in 1 .. n, i # j PROVE Span(D(i)) \cap Span(D(j)) = {}
  <2>1. i < j \/ j < i
    BY <1>1, <1>8
  <2> QED BY <1>7, <2>1
<1>9. ASSUME s.fault = "data" PROVE n > 0 /\ Outside \in Span(D(n))
  <2>1. n \in 1 .. n /\ s.bufs[n].len > 1
    BY <1>1, <1>9
  <2>2. D(n).addr = Outside - 1 /\ D(n).len = s.bufs[n].len /\ s.bufs[n].len \in Nat
    BY <1>1, <1>3, <1>9, <2>1
  <2> QED BY <1>2, <2>1, <2>2 DEF Span
<1> QED BY <1>1, <1>4, <1>5, <1>6, <1>8, <1>9 DEF D

\* A chain of three parts.
LEMMA ThreeParts ==
  ASSUME NEW x \in Descs, NEW bs \in Seq(Descs), NEW y \in Descs
  PROVE  LET c == <<x>> \o bs \o <<y>>
         IN  /\ c \in Seq(Descs) /\ Len(c) = Len(bs) + 2 /\ Len(bs) \in Nat
             /\ c[1] = x /\ c[Len(bs) + 2] = y
             /\ \A i \in 2 .. Len(bs) + 1 : c[i] = bs[i - 1]
<1> DEFINE u == <<x>> \o bs
           c == u \o <<y>>
<1>1. <<x>> \in Seq(Descs) /\ <<y>> \in Seq(Descs) /\ Len(<<x>>) = 1 /\ Len(<<y>>) = 1
      /\ <<x>>[1] = x /\ <<y>>[1] = y /\ Len(bs) \in Nat
  OBVIOUS
<1>2. /\ u \in Seq(Descs) /\ Len(u) = 1 + Len(bs)
      /\ \A i \in 1 .. 1 + Len(bs) : u[i] = IF i <= 1 THEN <<x>>[i] ELSE bs[i - 1]
  BY <1>1, ConcatProperties
<1>3. u[1] = x /\ \A i \in 2 .. Len(bs) + 1 : u[i] = bs[i - 1]
  BY <1>1, <1>2
<1> HIDE DEF u
<1>4. /\ c \in Seq(Descs) /\ Len(c) = Len(bs) + 2
      /\ \A i \in 1 .. Len(bs) + 2 : c[i] = IF i <= Len(bs) + 1 THEN u[i] ELSE <<y>>[i - (Len(bs) + 1)]
  BY <1>1, <1>2, ConcatProperties
<1> HIDE DEF c
<1>5. c[1] = x /\ \A i \in 2 .. Len(bs) + 1 : c[i] = bs[i - 1]
  BY <1>1, <1>3, <1>4
<1>6. c[Len(bs) + 2] = y
  <2>1. Len(bs) + 2 \in 1 .. Len(bs) + 2 /\ ~(Len(bs) + 2 <= Len(bs) + 1)
        /\ Len(bs) + 2 - (Len(bs) + 1) = 1
    BY <1>1
  <2> QED BY <1>1, <1>4, <2>1
<1> QED BY <1>1, <1>4, <1>5, <1>6 DEF c, u

\* The header and the status byte of a block request.
HeaderDesc(h, s) == Desc(IF s.fault = "header" THEN Outside ELSE Slot("blk", h), 1, FALSE)
StatusDesc(h, s) == Desc(IF s.fault = "status" THEN Outside ELSE Slot("blk", h) + 1 + BufLen, 1, TRUE)

\* Each of them is one byte, in the region of its head or outside of DRAM.
LEMMA EndsAre ==
  ASSUME NEW h \in HeadIds, NEW s
  PROVE  /\ HeaderDesc(h, s) \in Descs /\ HeaderDesc(h, s).write = FALSE
         /\ Span(HeaderDesc(h, s)) \in {{Slot("blk", h)}, {Outside}}
         /\ StatusDesc(h, s) \in Descs /\ StatusDesc(h, s).write = TRUE
         /\ StatusDesc(h, s).addr \in {Slot("blk", h) + 1 + BufLen, Outside}
         /\ Span(StatusDesc(h, s)) = {StatusDesc(h, s).addr}
<1>1. Slot("blk", h) \in Nat /\ BufLen \in Nat /\ Outside \in Nat /\ Slot("blk", h) + 1 + BufLen \in Nat
  <2>1. "blk" \in Devices
    BY DEF Devices
  <2>2. Slot("blk", h) \in Nat
    BY <2>1, RegionIs
  <2>3. BufLen \in Nat /\ Outside \in Nat
    BY Constants
  <2>4. \A a, b \in Nat : a + 1 + b \in Nat
    OBVIOUS
  <2> QED BY <2>2, <2>3, <2>4
<1> DEFINE A == IF s.fault = "header" THEN Outside ELSE Slot("blk", h)
           B == IF s.fault = "status" THEN Outside ELSE Slot("blk", h) + 1 + BufLen
<1>2. A \in Nat /\ A \in {Slot("blk", h), Outside} /\ B \in Nat /\ B \in {Slot("blk", h) + 1 + BufLen, Outside}
  BY <1>1
<1>3. /\ HeaderDesc(h, s) = [addr |-> A, len |-> 1, write |-> FALSE]
      /\ StatusDesc(h, s) = [addr |-> B, len |-> 1, write |-> TRUE]
  BY DEF HeaderDesc, StatusDesc, Desc
<1> HIDE DEF A, B
<1>4. A .. A + 1 - 1 = {A} /\ B .. B + 1 - 1 = {B}
  BY <1>2
<1> QED BY <1>2, <1>3, <1>4 DEF Span, Descs

\* The parts of a chain.
LEMMA ChainIs ==
  ASSUME NEW d \in Devices, NEW h \in HeadIds, NEW s \in Shapes(d)
  PROVE  LET c == Chain(d, h, s)
             n == Len(s.bufs)
         IN  /\ c \in Seq(Descs) /\ Len(c) > 0
             /\ d = "rng" => Len(c) = n /\ \A i \in 1 .. n : c[i] = BufDesc(d, h, s, i)
             /\ d = "blk" => /\ c[1] = HeaderDesc(h, s)
                             /\ s.fault = "short" => Len(c) = 1
                             /\ s.fault # "short" =>
                                   /\ Len(c) = n + 2 /\ c[n + 2] = StatusDesc(h, s)
                                   /\ \A i \in 2 .. n + 1 : c[i] = BufDesc(d, h, s, i - 1)
<1> DEFINE c == Chain(d, h, s)
           n == Len(s.bufs)
           bs == BufDescs(d, h, s)
<1>1. /\ bs \in Seq(Descs) /\ Len(bs) = n /\ n \in Nat /\ s.bufs \in Seq([off : Nat, len : Nat])
      /\ \A i \in 1 .. n : bs[i] = BufDesc(d, h, s, i)
  BY BufDescIs
<1>2. CASE d = "rng"
  <2>1. c = bs
    BY <1>2 DEF Chain, BufDescs, BufDesc
  <2>2. n > 0
    <3>1. s.bufs # << >>
      BY <1>2, ShapeIs
    <3> QED BY <1>1, <3>1
  <2> QED BY <1>1, <1>2, <2>1, <2>2
<1>3. CASE d = "blk"
  <2> DEFINE x == HeaderDesc(h, s)
             y == StatusDesc(h, s)
  <2>1. c = IF s.fault = "short" THEN <<x>> ELSE <<x>> \o bs \o <<y>>
    BY <1>3 DEF Chain, BufDescs, BufDesc, HeaderDesc, StatusDesc
  <2>2. x \in Descs /\ y \in Descs
    BY EndsAre
  <2> HIDE DEF c, x, y, bs
  <2>3. CASE s.fault = "short"
    <3>1. c = <<x>>
      BY <2>1, <2>3
    <3>2. <<x>> \in Seq(Descs) /\ Len(<<x>>) = 1 /\ <<x>>[1] = x
      BY <2>2
    <3>3. c \in Seq(Descs) /\ Len(c) = 1 /\ Len(c) > 0 /\ c[1] = x
      BY <3>1, <3>2
    <3> QED BY <1>3, <2>3, <3>3 DEF c, x, y
  <2>4. CASE s.fault # "short"
    <3>1. c = <<x>> \o bs \o <<y>>
      BY <2>1, <2>4
    <3>2. /\ c \in Seq(Descs) /\ Len(c) = n + 2
          /\ c[1] = x /\ c[n + 2] = y
          /\ \A i \in 2 .. n + 1 : c[i] = bs[i - 1]
      BY <1>1, <2>2, <3>1, ThreeParts
    <3>3. Len(c) > 0 /\ \A i \in 2 .. n + 1 : i - 1 \in 1 .. n
      BY <1>1, <3>2
    <3>4. \A i \in 2 .. n + 1 : c[i] = BufDesc(d, h, s, i - 1)
      BY <1>1, <3>2, <3>3
    <3> QED BY <1>3, <2>4, <3>2, <3>3, <3>4 DEF c, x, y
  <2> QED BY <2>3, <2>4
<1> QED BY <1>2, <1>3 DEF Devices

\* The buffers of a request, counted as in its shape.
Skip(d) == IF d = "blk" THEN 1 ELSE 0

\* They are the buffers of the shape, the one with fault "data" among them.
LEMMA DataDescsAre ==
  ASSUME NEW d \in Devices, NEW h \in HeadIds, NEW s \in Shapes(d)
  PROVE  LET r == Request(d, h, s)
             n == Len(s.bufs)
         IN  /\ \A i \in DataDescs(d, r) : /\ i \in 1 .. Len(r.chain) /\ i - Skip(d) \in 1 .. n
                                           /\ r.chain[i] = BufDesc(d, h, s, i - Skip(d))
             /\ s.fault = "data" => /\ n + Skip(d) \in DataDescs(d, r)
                                    /\ r.chain[n + Skip(d)] = BufDesc(d, h, s, n)
<1> DEFINE c == Chain(d, h, s)
           n == Len(s.bufs)
           r == Request(d, h, s)
<1>1. r.chain = c
  BY DEF Request
<1>2. n \in Nat /\ (s.fault = "data" => n > 0)
  BY BufDescIs
<1>3. c \in Seq(Descs) /\ Len(c) \in Nat
  BY ChainIs
<1> HIDE DEF c, r, n
<1>4. CASE d = "rng"
  <2>1. Len(c) = n /\ \A i \in 1 .. n : c[i] = BufDesc(d, h, s, i)
    BY <1>4, ChainIs DEF c, n
  <2>2. DataDescs(d, r) = 1 .. n /\ Skip(d) = 0
    BY <1>1, <1>3, <1>4, <2>1 DEF DataDescs, Skip
  <2>3. \A i \in 1 .. n : i - 0 = i
    OBVIOUS
  <2>4. n + 0 = n /\ (s.fault = "data" => n \in 1 .. n)
    BY <1>2
  <2> QED BY <1>1, <2>1, <2>2, <2>3, <2>4 DEF r, n
<1>5. CASE d = "blk"
  <2>1. DataDescs(d, r) = 2 .. Len(c) - 1 /\ Skip(d) = 1
    BY <1>1, <1>5 DEF DataDescs, Skip
  <2>2. CASE s.fault = "short"
    <3>1. Len(c) = 1
      BY <1>5, <2>2, ChainIs DEF c
    <3>2. DataDescs(d, r) = {}
      BY <2>1, <3>1
    <3> QED BY <2>2, <3>2 DEF r
  <2>3. CASE s.fault # "short"
    <3>1. Len(c) = n + 2 /\ \A i \in 2 .. n + 1 : c[i] = BufDesc(d, h, s, i - 1)
      BY <1>5, <2>3, ChainIs DEF c, n
    <3>2. DataDescs(d, r) = 2 .. n + 1 /\ \A i \in 2 .. n + 1 : i - 1 \in 1 .. n /\ i \in 1 .. Len(c)
      BY <1>2, <2>1, <3>1
    <3>3. s.fault = "data" => n + 1 \in 2 .. n + 1 /\ n + 1 - 1 = n
      BY <1>2
    <3> QED BY <1>1, <2>1, <3>1, <3>2, <3>3 DEF r, n
  <2> QED BY <2>2, <2>3
<1> QED BY <1>4, <1>5 DEF Devices

\* Every request of a driver is sound.
LEMMA RequestSound ==
  ASSUME NEW d \in Devices, NEW h \in HeadIds, NEW s \in Shapes(d)
  PROVE  Sound(d, h, Request(d, h, s))
<1> DEFINE r == Request(d, h, s)
           n == Len(s.bufs)
           D == DataDescs(d, r)
<1>1. ShapeOK(s) /\ (d = "rng" => /\ s.type = "RNG"
                                  /\ s.fault = "data" => n <= RNG_MAX_CHAIN)
      /\ (d = "blk" => s.type # "RNG")
  BY ShapeIs
<1>2. /\ r.chain = Chain(d, h, s) /\ r.type = s.type /\ r.sector = s.sector
      /\ r.loops = (s.fault = "loop")
  BY DEF Request
<1>3. r.chain \in Seq(Descs) /\ Len(r.chain) > 0
  BY <1>2, ChainIs
<1>33. Len(r.chain) \in Nat
  BY <1>3, LenProperties
<1>4. /\ \A i \in D : /\ i \in 1 .. Len(r.chain) /\ i - Skip(d) \in 1 .. n
                      /\ r.chain[i] = BufDesc(d, h, s, i - Skip(d))
      /\ s.fault = "data" => /\ n + Skip(d) \in D
                             /\ r.chain[n + Skip(d)] = BufDesc(d, h, s, n)
  BY DataDescsAre
<1>5. /\ n \in Nat
      /\ \A i \in 1 .. n : \A a \in Span(BufDesc(d, h, s, i)) :
               IF s.fault = "data" /\ i = n THEN a >= Outside - 1 ELSE a \in Inner(d, h)
      /\ \A i, j \in 1 .. n :
               i # j => Span(BufDesc(d, h, s, i)) \cap Span(BufDesc(d, h, s, j)) = {}
      /\ s.fault = "data" => /\ n > 0 /\ Outside \in Span(BufDesc(d, h, s, n))
  BY BufDescIs
<1>6. Skip(d) \in Nat
  BY DEF Skip
<1> HIDE DEF r, n
<1>7. r # NoRequest
  <2>1. Len(NoRequest.chain) = 0
    BY DEF NoRequest
  <2> QED BY <1>3, <2>1
<1>8. r.loops \in BOOLEAN /\ r.sector \in 0 .. U64 - 1
  <2>1. (s.fault = "loop") \in BOOLEAN
    BY Zenon
  <2> QED BY <1>1, <1>2, <2>1 DEF ShapeOK
<1>9. \A i, j \in D : i # j => Span(r.chain[i]) \cap Span(r.chain[j]) = {}
  <2> SUFFICES ASSUME NEW i \in D, NEW j \in D, i # j PROVE Span(r.chain[i]) \cap Span(r.chain[j]) = {}
    OBVIOUS
  <2>1. i \in 1 .. Len(r.chain) /\ j \in 1 .. Len(r.chain)
    BY <1>4
  <2>2. i - Skip(d) # j - Skip(d)
    BY <1>6, <2>1
  <2> QED BY <1>4, <1>5, <2>2
<1>10. \A i \in D : \A a \in Span(r.chain[i]) : a \in Inner(d, h) \/ a >= Outside - 1
  BY <1>4, <1>5
<1>11. ChainOk(d, h, r)
  BY <1>3, <1>8, <1>9, <1>10 DEF ChainOk
<1>12. ASSUME s.fault # "data" PROVE Good(d, h, r)
  <2>1. \A a \in Inner(d, h) : a \in Region(d, h)
    BY RegionInside DEF Inner
  <2> QED BY <1>4, <1>5, <1>12, <2>1 DEF Good
<1>13. ASSUME s.fault = "data" PROVE \E i \in D : r.chain[i] = BufDesc(d, h, s, n) /\ Outside \in Span(r.chain[i])
  BY <1>4, <1>5, <1>13
<1>14. Outside \notin DRAM
  BY Constants
<1>15. ASSUME d = "blk" PROVE BlkChainOk(h, r)
  <2>1. r.chain[1] = HeaderDesc(h, s) /\ Slot("blk", h) \in Nat
    BY <1>2, <1>15, ChainIs, RegionIs
  <2>2. r.chain[1].write = FALSE /\ Span(r.chain[1]) \in {{Slot("blk", h)}, {Outside}}
    BY <2>1, EndsAre
  <2>3. ASSUME ~Good("blk", h, r)
        PROVE  /\ r.type \in {"IN", "OUT"}
               /\ \E i \in 2 .. Len(r.chain) - 1 : \E a \in Span(r.chain[i]) : a \notin DRAM
    <3>1. s.fault = "data"
      BY <1>12, <1>15, <2>3
    <3>2. r.type \in {"IN", "OUT"}
      BY <1>1, <1>2, <1>15, <3>1 DEF ShapeOK
    <3>3. D = 2 .. Len(r.chain) - 1
      BY <1>15 DEF DataDescs
    <3> QED BY <1>13, <1>14, <3>1, <3>2, <3>3
  <2>4. ASSUME Len(r.chain) > 1
        PROVE  LET m == Len(r.chain)
               IN  /\ r.chain[m].write = TRUE /\ Span(r.chain[m]) = {r.chain[m].addr}
                   /\ r.chain[m].addr \in {Slot("blk", h) + 1 + BufLen, Outside}
                   /\ \A i \in 2 .. m - 1 : r.chain[i].write = (r.type # "OUT")
    <3>1. /\ s.fault # "short" /\ Len(r.chain) = n + 2 /\ r.chain[n + 2] = StatusDesc(h, s)
          /\ \A i \in 2 .. n + 1 : r.chain[i] = BufDesc(d, h, s, i - 1)
      <4>1. s.fault = "short" => Len(r.chain) = 1
        BY <1>2, <1>15, ChainIs
      <4>2. s.fault # "short"
        <5>1. Len(r.chain) # 1
          <6> DEFINE L == Len(r.chain)
          <6>1. L \in Nat /\ L > 1
            BY <1>33, <2>4
          <6> HIDE DEF L
          <6>2. L # 1
            BY <6>1
          <6> QED BY <6>2 DEF L
        <5> QED BY <4>1, <5>1, Zenon
      <4> QED BY <1>2, <1>15, <4>2, ChainIs DEF n
    <3>2. \A i \in 1 .. n : BufDesc(d, h, s, i).write = (s.type # "OUT")
      BY <1>15 DEF BufDesc, Desc
    <3>3. n + 2 - 1 = n + 1 /\ \A i \in 2 .. n + 1 : i - 1 \in 1 .. n
      BY <1>5
    <3>4. \A i \in 2 .. n + 1 : r.chain[i].write = (r.type # "OUT")
      BY <1>2, <3>1, <3>2, <3>3
    <3>5. /\ r.chain[n + 2].write = TRUE /\ Span(r.chain[n + 2]) = {r.chain[n + 2].addr}
          /\ r.chain[n + 2].addr \in {Slot("blk", h) + 1 + BufLen, Outside}
      BY <3>1, EndsAre
    <3>6. Len(r.chain) = n + 2 /\ 2 .. Len(r.chain) - 1 = 2 .. n + 1
      <4>1. Len(r.chain) - 1 = n + 1
        BY <1>5, <1>33, <3>1
      <4> QED BY <3>1, <4>1
    <3> HIDE DEF n
    <3> QED BY <3>4, <3>5, <3>6, Zenon
  <2> QED BY <2>2, <2>3, <2>4 DEF BlkChainOk
<1>16. ASSUME d = "rng" PROVE RngChainOk(h, r)
  <2>1. ASSUME ~Good("rng", h, r)
        PROVE  /\ ~r.loops /\ Len(r.chain) <= RNG_MAX_CHAIN
               /\ \E i \in DOMAIN r.chain : r.chain[i].write /\ \E a \in Span(r.chain[i]) : a \notin DRAM
    <3>1. s.fault = "data"
      BY <1>12, <1>16, <2>1
    <3>2. ~r.loops
      BY <1>2, <3>1
    <3>3. Len(r.chain) = n
      BY <1>2, <1>16, ChainIs DEF n
    <3>4. D = DOMAIN r.chain
      BY <1>16 DEF DataDescs
    <3>5. BufDesc(d, h, s, n).write = TRUE
      BY <1>16, <3>1 DEF BufDesc, Desc
    <3> QED BY <1>1, <1>13, <1>14, <1>16, <3>1, <3>2, <3>3, <3>4, <3>5
  <2> QED BY <2>1 DEF RngChainOk
<1> QED BY <1>7, <1>11, <1>15, <1>16 DEF Sound, r

-----------------------------------------------------------------------------
(* The range of a request on the disk.  The sum of the check may wrap, and *)
(* so may the product of the offset: then seek refuses.                    *)

\* A range that passes the check and the seek is on the disk, however the sums
\* wrap.
LEMMA RangeFits ==
  ASSUME NEW sector \in 0 .. U64 - 1, NEW n \in Nat, n > 0, n + SECTOR_SIZE < U64 \div 2,
         InRange(sector, n), SeekOk(sector)
  PROVE  /\ Offset(sector) = sector * SECTOR_SIZE /\ sector * SECTOR_SIZE \in Nat
         /\ sector * SECTOR_SIZE + n <= capacity * SECTOR_SIZE
<1> DEFINE S == SECTOR_SIZE
           k == sectors_needed(n)
           C == capacity
           H == U64 \div 2
           kS == k * S
           sS == sector * S
<1>1. S \in Nat /\ S > 0 /\ C \in Nat /\ U64 \in Nat /\ C * S < H /\ C * S \in Nat
  BY DataAssumption
<1>2. H \in Nat /\ H <= U64 /\ U64 > 0 /\ sector \in Nat /\ sector < U64
  BY <1>1
<1> DEFINE q == n + S - 1
<1>3. q \in Nat /\ k = q \div S
  BY <1>1 DEF sectors_needed
<1> HIDE DEF S, k, C, H, q
<1>4. q = k * S + (q % S) /\ k \in Nat /\ q % S \in 0 .. S - 1
  BY <1>1, <1>3, Halves
<1>5. kS \in Nat /\ sS \in Nat
  BY <1>1, <1>2, <1>4
<1>6. kS >= n /\ kS < H
  <2>1. q = n + S - 1 /\ n + S < H
    BY DEF q, S, H
  <2> HIDE DEF kS
  <2>2. q = kS + (q % S)
    BY <1>4 DEF kS
  <2> QED BY <1>1, <1>2, <1>3, <1>4, <1>5, <2>1, <2>2
<1>7. k <= kS
  BY <1>1, <1>4
<1>8. InRange(sector, n) <=> (sector + k) % U64 <= C
  BY DEF InRange, k, C
<1>9. Offset(sector) = sS % U64 /\ (SeekOk(sector) <=> sS % U64 < H)
  BY DEF Offset, SeekOk, S, H
<1>10. CASE sector + k < U64
  <2>1. (sector + k) % U64 = sector + k
    <3>1. sector + k \in Nat /\ U64 \in Nat
      BY <1>1, <1>2, <1>4
    <3> QED BY <1>10, <3>1, SmallMod
  <2>2. (sector + k) * S <= C * S
    BY <1>1, <1>2, <1>4, <1>8, <2>1, TimesMonotone
  <2>3. (sector + k) * S = sS + kS
    BY <1>1, <1>2, <1>4
  <2> DEFINE T == C * S
  <2> HIDE DEF kS, sS, T
  <2>4. sS + kS <= T /\ T \in Nat /\ T < H
    BY <1>1, <2>2, <2>3 DEF T
  <2>5. sS < U64
    BY <1>1, <1>2, <1>5, <2>4
  <2>6. sS % U64 = sS
    BY <1>1, <1>5, <2>5, SmallMod
  <2>7. sS + n <= T
    BY <1>5, <1>6, <2>4
  <2> QED BY <1>5, <1>9, <2>6, <2>7 DEF sS, S, T, C
<1>11. CASE ~(sector + k < U64)
  <2> DEFINE m == U64 - sector
             mS == m * S
  <2>1. m \in Nat /\ m > 0 /\ m <= k
    BY <1>1, <1>2, <1>4, <1>11
  <2>2. m * S <= k * S
    BY <1>1, <1>4, <2>1, TimesMonotone
  <2>3. mS \in Nat /\ mS > 0 /\ mS <= kS
    BY <1>1, <2>1, <2>2
  <2>4. sS = (S - 1) * U64 + (U64 - mS)
    BY <1>1, <1>2, <2>1
  <2> HIDE DEF m, mS, kS, sS
  <2>5. U64 - mS \in 0 .. U64 - 1 /\ U64 - mS >= H
    <3>1. mS < H
      BY <1>2, <1>5, <1>6, <2>3
    <3>2. U64 \in Nat /\ H + H <= U64
      BY <1>1 DEF H
    <3> QED BY <1>2, <2>3, <3>1, <3>2
  <2>6. S - 1 \in Nat
    BY <1>1
  <2>7. sS % U64 = U64 - mS
    BY <1>1, <1>2, <2>4, <2>5, <2>6, HalvesUnique
  <2> QED BY <1>9, <1>2, <2>5, <2>7
<1> QED BY <1>10, <1>11

-----------------------------------------------------------------------------
(* The buffers of a block request. *)

\* The descriptors between the header and the status byte.
LEMMA MiddleIs ==
  ASSUME NEW c \in Seq(Descs), Len(c) > 0
  PROVE  LET bs == SubSeq(c, 2, Len(c) - 1)
         IN  /\ bs \in Seq(Descs) /\ Len(bs) \in Nat
             /\ \A i \in 1 .. Len(bs) : i + 1 \in 2 .. Len(c) - 1 /\ bs[i] = c[i + 1]
             /\ \A i \in 2 .. Len(c) - 1 : i - 1 \in 1 .. Len(bs) /\ bs[i - 1] = c[i]
<1> DEFINE n == Len(c)
           bs == SubSeq(c, 2, n - 1)
           k == Len(bs)
<1>1. n \in Nat /\ n > 0 /\ \A i \in 1 .. n : c[i] \in Descs
  BY LenProperties, ElementOfSeq
<1> HIDE DEF n
<1>2. 2 \in Int /\ n - 1 \in Int /\ \A i \in 2 .. n - 1 : c[i] \in Descs
  BY <1>1
<1>3. /\ bs \in Seq(Descs) /\ k = (IF 2 <= n - 1 THEN n - 1 - 2 + 1 ELSE 0)
      /\ \A i \in 1 .. n - 1 - 2 + 1 : bs[i] = c[2 + i - 1]
  BY <1>2, SubSeqProperties
<1> HIDE DEF bs, k
<1>4. k \in Nat
  BY <1>1, <1>3
<1>5. ASSUME NEW i \in 1 .. k PROVE i + 1 \in 2 .. n - 1 /\ bs[i] = c[i + 1]
  <2>1. i \in 1 .. n - 1 - 2 + 1 /\ i + 1 \in 2 .. n - 1 /\ 2 + i - 1 = i + 1
    BY <1>1, <1>3
  <2>2. bs[i] = c[2 + i - 1]
    BY <1>3, <2>1
  <2> QED BY <2>1, <2>2
<1>6. ASSUME NEW i \in 2 .. n - 1 PROVE i - 1 \in 1 .. k /\ bs[i - 1] = c[i]
  <2>1. i - 1 \in 1 .. k /\ i - 1 \in 1 .. n - 1 - 2 + 1 /\ 2 + (i - 1) - 1 = i
    BY <1>1, <1>3
  <2>2. bs[i - 1] = c[2 + (i - 1) - 1]
    BY <1>3, <2>1
  <2> QED BY <2>1, <2>2
<1> QED BY <1>3, <1>4, <1>5, <1>6 DEF n, bs, k

\* Their addresses, each once; as many as fit into what the head has.
LEMMA BuffersIs ==
  ASSUME NEW h \in HeadIds, NEW r, Sound("blk", h, r)
  PROVE  LET A == Addrs(Buffers(r))
         IN  /\ A \in Seq(Nat) /\ Len(A) \in Nat /\ DOMAIN A = 1 .. Len(A)
             /\ \A i \in 1 .. Len(A) : A[i] \in BufBytes(r) /\ A[i] \in Nat
             /\ \A a \in BufBytes(r) : \E i \in 1 .. Len(A) : A[i] = a
             /\ \A i, j \in 1 .. Len(A) : A[i] = A[j] => i = j
             /\ IsFiniteSet(BufBytes(r)) /\ Cardinality(BufBytes(r)) = Len(A)
             /\ Good("blk", h, r) => Len(A) <= BufLen /\ BufBytes(r) \subseteq Inner("blk", h)
<1> DEFINE c == r.chain
           n == Len(c)
           bs == Buffers(r)
           A == Addrs(bs)
<1>1. /\ c \in Seq(Descs) /\ Len(c) > 0
      /\ \A i, j \in 2 .. n - 1 : i # j => Span(c[i]) \cap Span(c[j]) = {}
      /\ \A i \in 2 .. n - 1 : \A a \in Span(c[i]) : a \in Inner("blk", h) \/ a >= Outside - 1
  BY DEF Sound, ChainOk, DataDescs
<1>2. BufBytes(r) = UNION {Span(c[i]) : i \in 2 .. n - 1}
  BY DEF BufBytes
<1>3. /\ bs \in Seq(Descs) /\ Len(bs) \in Nat
      /\ \A i \in 1 .. Len(bs) : i + 1 \in 2 .. Len(c) - 1 /\ bs[i] = c[i + 1]
      /\ \A i \in 2 .. Len(c) - 1 : i - 1 \in 1 .. Len(bs) /\ bs[i - 1] = c[i]
  BY <1>1, MiddleIs DEF Buffers
<1>4. Good("blk", h, r) <=> \A i \in 2 .. n - 1 : Span(c[i]) \subseteq Region("blk", h)
  BY DEF Good, DataDescs
<1> HIDE DEF c, bs
<1>5. Apart(bs)
  <2> SUFFICES ASSUME NEW i \in 1 .. Len(bs), NEW j \in 1 .. Len(bs), i # j
               PROVE  Span(bs[i]) \cap Span(bs[j]) = {}
    BY DEF Apart
  <2>1. i + 1 # j + 1
    BY <1>3
  <2> QED BY <1>1, <1>3, <2>1
<1>6. /\ A \in Seq(Nat)
      /\ \A i \in 1 .. Len(A) : \E k \in 1 .. Len(bs) : A[i] \in Span(bs[k])
      /\ \A k \in 1 .. Len(bs) : \A a \in Span(bs[k]) : \E i \in 1 .. Len(A) : A[i] = a
  BY <1>3, AddrsRange
<1>7. \A i, j \in 1 .. Len(A) : A[i] = A[j] => i = j
  BY <1>3, <1>5, AddrsOnce
<1> HIDE DEF A
<1>8. Len(A) \in Nat /\ DOMAIN A = 1 .. Len(A) /\ \A i \in 1 .. Len(A) : A[i] \in Nat
  BY <1>6, LenProperties, ElementOfSeq
<1>9. ASSUME NEW i \in 1 .. Len(A) PROVE A[i] \in BufBytes(r)
  <2>1. PICK k \in 1 .. Len(bs) : A[i] \in Span(bs[k])
    BY <1>6
  <2>2. k + 1 \in 2 .. n - 1 /\ A[i] \in Span(c[k + 1])
    BY <1>3, <2>1
  <2> QED BY <1>2, <2>2
<1>10. \A a \in BufBytes(r) : \E i \in 1 .. Len(A) : A[i] = a
  <2> SUFFICES ASSUME NEW a \in BufBytes(r) PROVE \E i \in 1 .. Len(A) : A[i] = a
    OBVIOUS
  <2>1. PICK j \in 2 .. n - 1 : a \in Span(c[j])
    BY <1>2
  <2> QED BY <1>3, <1>6, <2>1
<1>11. BufBytes(r) = {A[i] : i \in 1 .. Len(A)}
  BY <1>9, <1>10
<1>12. IsFiniteSet(BufBytes(r)) /\ Cardinality(BufBytes(r)) = Len(A)
  BY <1>6, <1>7, <1>11, SeqCard
<1>13. ASSUME Good("blk", h, r) PROVE Len(A) <= BufLen /\ BufBytes(r) \subseteq Inner("blk", h)
  <2>1. /\ \A a \in Region("blk", h) : a \in Nat /\ a < Outside - 1
        /\ Outside - 1 \in Nat /\ Slot("blk", h) \in Nat /\ BufLen \in Nat
    BY RegionInside, Constants, RegionIs DEF Devices
  <2>2. ASSUME NEW a \in BufBytes(r) PROVE a \in Inner("blk", h)
    <3>1. PICK j \in 2 .. n - 1 : a \in Span(c[j])
      BY <1>2
    <3>2. a \in Region("blk", h)
      BY <1>4, <1>13, <3>1
    <3>3. ~(a >= Outside - 1)
      BY <2>1, <3>2
    <3> QED BY <1>1, <3>1, <3>3
  <2>3. BufBytes(r) \subseteq Inner("blk", h)
    BY <2>2
  <2> DEFINE x == Slot("blk", h) + 1
             y == Slot("blk", h) + BufLen
             I == x .. y
  <2>4. I = Inner("blk", h) /\ x \in Int /\ y \in Int
    BY <2>1 DEF Inner
  <2>5. IsFiniteSet(I) /\ Cardinality(I) = (IF x > y THEN 0 ELSE y - x + 1)
    BY <2>4, FS_Interval
  <2>6. Cardinality(I) <= BufLen
    BY <2>1, <2>5
  <2> HIDE DEF I
  <2>7. Cardinality(BufBytes(r)) <= Cardinality(I)
    BY <2>3, <2>4, <2>5, FS_Subset
  <2>8. Cardinality(I) \in Nat
    BY <2>5, FS_CardinalityType
  <2> QED BY <1>8, <1>12, <2>1, <2>3, <2>6, <2>7, <2>8
<1> QED BY <1>6, <1>7, <1>8, <1>9, <1>10, <1>12, <1>13 DEF A, bs

-----------------------------------------------------------------------------
(* What virtio-blk does with a request. *)

Typed == mem = [a \in DRAM |-> mem[a]] /\ disk = [b \in DiskBytes |-> disk[b]]

WholeWrite(r) == [b \in DiskBytes |-> IF b \in Covered(r) THEN DataFor(r, b) ELSE disk[b]]

\* A request that succeeds filled what it had to fill, is wholly on the disk
\* when it is a write and has what the disk holds when it is a read.
Success(h, r, res) ==
    /\ Good("blk", h, r) /\ res.len = Cardinality(Fill(r)) + 1 /\ IsFiniteSet(Fill(r))
    /\ \A a \in Fill(r) : a \in DRAM /\ ((\A b \in DiskBytes : disk[b] # Blank) => res.mem[a] # Blank)
    /\ \A b \in Covered(r) : b \in DiskBytes /\ res.disk[b] = DataFor(r, b)
    /\ r.type = "IN" =>
          \A i \in DOMAIN Addrs(Buffers(r)) :
              /\ r.sector * SECTOR_SIZE + i - 1 \in DiskBytes
              /\ res.mem[Addrs(Buffers(r))[i]] = disk[r.sector * SECTOR_SIZE + i - 1]

HandledOK(h, r, fault, res) ==
    /\ res.status \in {S_OK, S_IOERR} /\ res.len \in Nat
    /\ res.mem = [a \in DRAM |-> res.mem[a]] /\ res.disk = [b \in DiskBytes |-> res.disk[b]]
    /\ \A a \in DRAM : res.mem[a] # mem[a] => a \in Fill(r)
    /\ \A b \in DiskBytes : res.disk[b] # disk[b] =>
          Good("blk", h, r) /\ b \in Covered(r) /\ res.disk[b] = DataFor(r, b)
    /\ fault = NoFault => res.disk \in {disk, WholeWrite(r)}
    /\ ~res.err /\ res.status = S_OK => Success(h, r, res)

\* All buffers are in DRAM when an access reaches their end.
LEMMA ReachedGood ==
  ASSUME NEW h \in HeadIds, NEW r, Sound("blk", h, r),
         ~(Reached(Addrs(Buffers(r))) < Len(Addrs(Buffers(r))))
  PROVE  /\ Good("blk", h, r) /\ Reached(Addrs(Buffers(r))) = Len(Addrs(Buffers(r)))
         /\ \A i \in 1 .. Len(Addrs(Buffers(r))) : Addrs(Buffers(r))[i] \in DRAM
         /\ \A a \in BufBytes(r) : a \in DRAM
<1> DEFINE A == Addrs(Buffers(r))
<1>1. /\ A \in Seq(Nat) /\ Len(A) \in Nat
      /\ \A i \in 1 .. Len(A) : A[i] \in BufBytes(r)
      /\ \A a \in BufBytes(r) : \E i \in 1 .. Len(A) : A[i] = a
  BY BuffersIs
<1> HIDE DEF A
<1>2. Reached(A) \in 0 .. Len(A) /\ \A i \in 1 .. Reached(A) : A[i] \in DRAM
  BY <1>1, ReachedIs
<1>3. Reached(A) = Len(A)
  <2> DEFINE x == Reached(A)
             y == Len(A)
  <2>1. x \in 0 .. y /\ y \in Nat /\ ~(x < y)
    BY <1>1, <1>2 DEF A
  <2> HIDE DEF x, y
  <2>2. x = y
    BY <2>1
  <2> QED BY <2>2 DEF x, y
<1>4. \A a \in BufBytes(r) : a \in DRAM
  BY <1>1, <1>2, <1>3
<1>5. Good("blk", h, r)
  <2>1. ~Good("blk", h, r) => \E i \in 2 .. Len(r.chain) - 1 : \E a \in Span(r.chain[i]) : a \notin DRAM
    BY DEF Sound, BlkChainOk
  <2>2. \A i \in 2 .. Len(r.chain) - 1 : \A a \in Span(r.chain[i]) : a \in BufBytes(r)
    BY DEF BufBytes
  <2> QED BY <1>4, <2>1, <2>2
<1> QED BY <1>2, <1>3, <1>4, <1>5 DEF A

\* Where the bytes of a request are on the disk.
LEMMA BytesOnDisk ==
  ASSUME NEW h \in HeadIds, NEW r, Sound("blk", h, r), Good("blk", h, r),
         InRange(r.sector, Len(Addrs(Buffers(r)))), SeekOk(r.sector)
  PROVE  \A i \in 1 .. Len(Addrs(Buffers(r))) :
            /\ Offset(r.sector) = r.sector * SECTOR_SIZE /\ r.sector * SECTOR_SIZE \in Nat
            /\ r.sector * SECTOR_SIZE + i - 1 \in DiskBytes
<1> DEFINE n == Len(Addrs(Buffers(r)))
           q == r.sector * SECTOR_SIZE
           T == capacity * SECTOR_SIZE
<1>1. n \in Nat /\ n <= BufLen
  BY BuffersIs
<1>2. BufLen \in Nat /\ BufLen + SECTOR_SIZE < U64 \div 2 /\ SECTOR_SIZE \in Nat /\ U64 \in Nat /\ T \in Nat
  BY IoAssumption, DataAssumption
<1>3. r.sector \in 0 .. U64 - 1
  BY DEF Sound, ChainOk
<1> SUFFICES ASSUME NEW i \in 1 .. n
             PROVE  Offset(r.sector) = q /\ q \in Nat /\ q + i - 1 \in DiskBytes
  OBVIOUS
<1> HIDE DEF n, T
<1>4. n > 0 /\ n + SECTOR_SIZE < U64 \div 2
  BY <1>1, <1>2
<1>5. Offset(r.sector) = q /\ q \in Nat /\ q + n <= T
  BY <1>1, <1>3, <1>4, RangeFits DEF n, T
<1>6. DiskBytes = 0 .. T - 1
  BY DEF DiskBytes, T
<1> HIDE DEF q
<1>7. q + i - 1 \in 0 .. T - 1
  BY <1>1, <1>2, <1>5
<1> QED BY <1>5, <1>6, <1>7

\* handle_read_request_sg fills the buffers with the range of the disk, or
\* reports an error.
LEMMA ReadHandled ==
  ASSUME Typed, NEW h \in HeadIds, NEW r, Sound("blk", h, r), r.type = "IN", NEW fault
  PROVE  HandledOK(h, r, fault, handle_read_request_sg(mem, disk, r.sector, Buffers(r), fault))
<1> DEFINE A == Addrs(Buffers(r))
           n == Len(A)
           q == r.sector * SECTOR_SIZE
           bytes == [i \in DOMAIN A |-> disk[Offset(r.sector) + i - 1]]
           new == Stored(mem, A, bytes)
           res == handle_read_request_sg(mem, disk, r.sector, Buffers(r), fault)
           Bad == ~InRange(r.sector, n) \/ ~SeekOk(r.sector) \/ fault # NoFault
<1>1. res = IF Bad THEN Failed(mem, disk, n + 1)
            ELSE IF Reached(A) < n THEN Error(new, disk) ELSE Done(new, disk, n + 1)
  BY DEF handle_read_request_sg
<1>2. /\ A \in Seq(Nat) /\ n \in Nat /\ DOMAIN A = 1 .. n
      /\ \A i \in 1 .. n : A[i] \in BufBytes(r)
      /\ \A a \in BufBytes(r) : \E i \in 1 .. n : A[i] = a
      /\ \A i, j \in 1 .. n : A[i] = A[j] => i = j
      /\ IsFiniteSet(BufBytes(r)) /\ Cardinality(BufBytes(r)) = n
  BY BuffersIs
<1>3. /\ Fill(r) = BufBytes(r) /\ Covered(r) = {}
  BY DEF Fill, Covered
<1>4. mem = [a \in DRAM |-> mem[a]] /\ disk = [b \in DiskBytes |-> disk[b]]
  BY DEF Typed
<1> HIDE DEF A, bytes, new, res, n
<1>5. /\ new = [a \in DRAM |-> new[a]] /\ Reached(A) \in 0 .. n
      /\ \A a \in DRAM : \/ new[a] = mem[a] /\ \A i \in 1 .. Reached(A) : A[i] # a
                         \/ \E i \in 1 .. Reached(A) : A[i] = a /\ new[a] = bytes[i]
  <2>1. Reached(A) \in 0 .. Len(A)
    BY <1>2, ReachedIs
  <2>2. Puts(A, bytes, new)
    BY <1>2, StoredIs DEF new
  <2> QED BY <2>1, <2>2 DEF Puts, n
<1>6. \A a \in DRAM : new[a] # mem[a] => a \in BufBytes(r)
  <2>1. \A i \in 1 .. Reached(A) : i \in 1 .. n
    BY <1>2, <1>5
  <2> QED BY <1>2, <1>5, <2>1
<1>7. n + 1 \in Nat /\ 0 \in Nat
  BY <1>2
<1>8. CASE Bad
  <2>1. res = [err |-> FALSE, status |-> S_IOERR, len |-> n + 1, mem |-> mem, disk |-> disk]
    BY <1>1, <1>8 DEF Failed
  <2>2. res.status = S_IOERR /\ S_IOERR # S_OK /\ res.len = n + 1 /\ res.mem = mem /\ res.disk = disk
    BY <2>1 DEF S_OK, S_IOERR
  <2> QED BY <1>4, <1>7, <2>2 DEF HandledOK, res, n
<1>9. CASE ~Bad /\ Reached(A) < n
  <2>1. res = [err |-> TRUE, status |-> S_IOERR, len |-> 0, mem |-> new, disk |-> disk]
    BY <1>1, <1>9 DEF Error
  <2>2. res.status = S_IOERR /\ S_IOERR # S_OK /\ res.len = 0 /\ res.mem = new /\ res.disk = disk
    BY <2>1 DEF S_OK, S_IOERR
  <2> QED BY <1>3, <1>4, <1>5, <1>6, <1>7, <2>2 DEF HandledOK, res
<1>10. CASE ~Bad /\ ~(Reached(A) < n)
  <2>1. res = [err |-> FALSE, status |-> S_OK, len |-> n + 1, mem |-> new, disk |-> disk]
    BY <1>1, <1>10 DEF Done
  <2>2. res.status = S_OK /\ res.len = n + 1 /\ res.mem = new /\ res.disk = disk
    BY <2>1
  <2>3. /\ Good("blk", h, r) /\ Reached(A) = n
        /\ \A i \in 1 .. n : A[i] \in DRAM
        /\ \A a \in BufBytes(r) : a \in DRAM
    BY <1>10, ReachedGood DEF A, n
  <2>4. \A i \in 1 .. n : Offset(r.sector) = q /\ q + i - 1 \in DiskBytes
    BY <1>10, <2>3, BytesOnDisk DEF A, n
  <2>5. \A i \in 1 .. n : bytes[i] = disk[q + i - 1]
    BY <1>2, <2>4 DEF bytes
  <2>6. ASSUME NEW i \in 1 .. n PROVE new[A[i]] = disk[q + i - 1]
    <3>1. A[i] \in DRAM
      BY <2>3
    <3>2. PICK j \in 1 .. n : A[j] = A[i] /\ new[A[i]] = bytes[j]
      BY <1>5, <2>3, <3>1
    <3>3. j = i
      BY <1>2, <3>2
    <3> QED BY <2>5, <3>2, <3>3
  <2>7. ASSUME NEW a \in BufBytes(r), \A b \in DiskBytes : disk[b] # Blank PROVE new[a] # Blank
    <3>1. PICK i \in 1 .. n : A[i] = a
      BY <1>2
    <3>2. new[a] = disk[q + i - 1] /\ q + i - 1 \in DiskBytes
      BY <2>4, <2>6, <3>1
    <3> QED BY <2>7, <3>2
  <2> HIDE DEF q
  <2>8. Success(h, r, res)
    BY <1>2, <1>3, <2>2, <2>3, <2>4, <2>6, <2>7 DEF Success, A, n, q
  <2> QED BY <1>3, <1>4, <1>5, <1>6, <1>7, <2>2, <2>8 DEF HandledOK, res
<1> QED BY <1>8, <1>9, <1>10

\* handle_write_request_sg writes all of the range, or reports an error; it
\* stops half-way only when the host fails.
LEMMA WriteHandled ==
  ASSUME Typed, NEW h \in HeadIds, NEW r, Sound("blk", h, r), r.type = "OUT", NEW fault \in {NoFault, 0, 1}
  PROVE  HandledOK(h, r, fault, handle_write_request_sg(mem, disk, r.sector, Buffers(r), fault))
<1> DEFINE A == Addrs(Buffers(r))
           n == Len(A)
           q == r.sector * SECTOR_SIZE
           o == Offset(r.sector)
           bytes == [i \in 1 .. Reached(A) |-> mem[A[i]]]
           Disk(k) == Overwritten(disk, o, bytes, k)
           part == IF fault < Len(bytes) THEN fault ELSE 0
           res == handle_write_request_sg(mem, disk, r.sector, Buffers(r), fault)
<1>1. res = IF ~InRange(r.sector, n) THEN Failed(mem, disk, 1)
            ELSE IF Len(bytes) < n THEN Error(mem, disk)
            ELSE IF ~SeekOk(r.sector) THEN Failed(mem, disk, 1)
            ELSE IF fault # NoFault THEN Failed(mem, Disk(part), 1)
            ELSE Done(mem, Disk(Len(bytes)), 1)
  BY DEF handle_write_request_sg
<1>2. /\ A \in Seq(Nat) /\ n \in Nat /\ DOMAIN A = 1 .. n
      /\ \A i \in 1 .. n : A[i] \in BufBytes(r)
  BY BuffersIs
<1>3. Fill(r) = {} /\ Covered(r) = {q + i - 1 : i \in 1 .. n}
  BY <1>2 DEF Fill, Covered
<1>4. mem = [a \in DRAM |-> mem[a]] /\ disk = [b \in DiskBytes |-> disk[b]]
  BY DEF Typed
<1>5. DOMAIN bytes = 1 .. Reached(A) /\ Reached(A) \in 0 .. n
  BY <1>2, ReachedIs
<1>6. Len(bytes) = Reached(A)
  <2> DEFINE R == Reached(A)
  <2>1. R \in Nat
    BY <1>2, <1>5
  <2> HIDE DEF R
  <2>2. Len([i \in 1 .. R |-> mem[A[i]]]) = R
    BY <2>1
  <2> QED BY <2>2 DEF R
<1> HIDE DEF A, bytes, res, n, Disk, part
<1>7. IsFiniteSet({}) /\ Cardinality({}) = 0 /\ 1 \in Nat /\ 0 \in Nat /\ 0 + 1 = 1
  BY FS_EmptySet
\* What cannot be executed changes nothing.
<1>8. ASSUME \/ res = Failed(mem, disk, 1) \/ res = Error(mem, disk) PROVE HandledOK(h, r, fault, res)
  <2>1. res.status = S_IOERR /\ S_IOERR # S_OK /\ res.len \in Nat /\ res.mem = mem /\ res.disk = disk
    BY <1>8 DEF S_OK, S_IOERR, Failed, Error
  <2> QED BY <1>4, <2>1 DEF HandledOK
<1>9. ASSUME InRange(r.sector, n), ~(Len(bytes) < n), SeekOk(r.sector) PROVE HandledOK(h, r, fault, res)
  <2>1. /\ Good("blk", h, r) /\ Reached(A) = n
        /\ \A i \in 1 .. n : A[i] \in DRAM
    BY <1>6, <1>9, ReachedGood DEF A, n
  <2>2. \A i \in 1 .. n : o = q /\ q \in Nat /\ q + i - 1 \in DiskBytes
    BY <1>9, <2>1, BytesOnDisk DEF A, n
  <2>3. ASSUME NEW i \in 1 .. n PROVE bytes[i] = mem[A[i]] /\ DataFor(r, q + i - 1) = mem[A[i]]
    <3>1. A[i] \in DRAM /\ q \in Nat
      BY <2>1, <2>2
    <3> DEFINE b == q + i - 1
    <3>2. b - q + 1 = i
      BY <3>1
    <3>3. DataFor(r, b) = IF A[b - q + 1] \in DRAM THEN mem[A[b - q + 1]] ELSE Blank
      BY DEF DataFor, A
    <3> QED BY <2>1, <3>1, <3>2, <3>3 DEF bytes
  <2> HIDE DEF q, o
  <2>4. ASSUME NEW k \in 0 .. n, NEW b \in DiskBytes
        PROVE  \/ Disk(k)[b] = disk[b] /\ (k = n => b \notin Covered(r))
               \/ Disk(k)[b] = DataFor(r, b) /\ b \in Covered(r)
    <3>1. Disk(k)[b] = IF b - o \in 0 .. k - 1 THEN bytes[b - o + 1] ELSE disk[b]
      BY DEF Disk, Overwritten
    <3>2. b \in Nat
      BY DataAssumption DEF DiskBytes
    <3>3. CASE b - o \in 0 .. k - 1
      <4>1. k > 0 /\ n > 0
        BY <1>2, <3>3
      <4>2. o = q /\ q \in Nat
        BY <1>2, <2>2, <4>1
      <4> DEFINE i == b - q + 1
      <4>3. i \in 1 .. n /\ q + i - 1 = b
        BY <1>2, <3>2, <3>3, <4>2
      <4> HIDE DEF i
      <4>4. Disk(k)[b] = bytes[i]
        BY <3>1, <3>3, <4>2 DEF i
      <4> QED BY <1>3, <2>3, <4>3, <4>4
    <3>4. CASE ~(b - o \in 0 .. k - 1)
      <4>1. ASSUME k = n, b \in Covered(r) PROVE FALSE
        <5>1. PICK i \in 1 .. n : b = q + i - 1
          BY <1>3, <4>1
        <5>2. o = q /\ q \in Nat
          BY <2>2, <5>1
        <5>3. b - o \in 0 .. n - 1
          BY <1>2, <5>1, <5>2
        <5> QED BY <3>4, <4>1, <5>3
      <4> QED BY <3>1, <3>4, <4>1
    <3> QED BY <3>3, <3>4
  <2>5. \A k \in 0 .. n : Disk(k) = [b \in DiskBytes |-> Disk(k)[b]]
    BY DEF Disk, Overwritten
  <2>6. n \in 0 .. n /\ (fault # NoFault => part \in 0 .. n)
    <3>1. Len(bytes) = n
      BY <1>6, <2>1
    <3>2. fault # NoFault => fault \in {0, 1}
      OBVIOUS
    <3>3. n \in 0 .. n /\ 0 \in 0 .. n /\ (1 < n => 1 \in 0 .. n)
      BY <1>2
    <3> QED BY <3>1, <3>2, <3>3 DEF part
  <2>7. CASE fault # NoFault
    <3>1. res = Failed(mem, Disk(part), 1)
      BY <1>1, <1>9, <2>7
    <3>2. res.status = S_IOERR /\ S_IOERR # S_OK /\ res.len = 1 /\ res.mem = mem /\ res.disk = Disk(part)
      BY <3>1 DEF S_OK, S_IOERR, Failed
    <3> QED BY <1>4, <1>7, <2>1, <2>4, <2>5, <2>6, <2>7, <3>2 DEF HandledOK
  <2>8. CASE fault = NoFault
    <3>1. res = Done(mem, Disk(n), 1)
      BY <1>1, <1>6, <1>9, <2>1, <2>8
    <3>2. res.status = S_OK /\ res.len = 1 /\ res.mem = mem /\ res.disk = Disk(n)
      BY <3>1 DEF Done
    <3>3. Disk(n) = WholeWrite(r)
      <4>1. \A b \in DiskBytes : Disk(n)[b] = IF b \in Covered(r) THEN DataFor(r, b) ELSE disk[b]
        BY <2>4, <2>6
      <4> QED BY <2>5, <2>6, <4>1 DEF WholeWrite
    <3>4. \A b \in Covered(r) : b \in DiskBytes /\ Disk(n)[b] = DataFor(r, b)
      <4>1. \A b \in Covered(r) : b \in DiskBytes
        BY <1>3, <2>2
      <4> QED BY <2>4, <2>6, <4>1
    <3>5. Success(h, r, res)
      BY <1>3, <1>7, <2>1, <3>2, <3>4 DEF Success
    <3> QED BY <1>4, <1>7, <2>1, <2>4, <2>5, <2>6, <2>8, <3>2, <3>3, <3>5 DEF HandledOK
  <2> QED BY <2>7, <2>8
<1> QED BY <1>1, <1>8, <1>9 DEF res

\* handle_get_id_request fills the first buffer only.
LEMMA IdHandled ==
  ASSUME Typed, NEW h \in HeadIds, NEW r, Sound("blk", h, r), r.type = "GET_ID", NEW fault,
         Buffers(r) # << >>
  PROVE  HandledOK(h, r, fault, handle_get_id_request(mem, disk, Buffers(r)[1]))
<1> DEFINE x == r.chain[2]
           A == Addrs(<<x>>)
           n == Len(A)
           bytes == [i \in DOMAIN A |-> IF i <= SERIAL_LEN THEN SerialByte ELSE 0]
           new == Stored(mem, A, bytes)
           res == handle_get_id_request(mem, disk, Buffers(r)[1])
<1>1. /\ r.chain \in Seq(Descs) /\ Len(r.chain) > 0 /\ Good("blk", h, r)
  BY DEF Sound, ChainOk, BlkChainOk
<1>2. /\ Buffers(r)[1] = x /\ x \in Descs /\ Len(r.chain) > 2
      /\ \A a \in Span(x) : a \in DRAM
  <2> DEFINE bs == Buffers(r)
             c == r.chain
  <2>1. /\ bs \in Seq(Descs) /\ Len(bs) \in Nat
        /\ \A i \in 1 .. Len(bs) : i + 1 \in 2 .. Len(c) - 1 /\ bs[i] = c[i + 1]
    BY <1>1, MiddleIs DEF Buffers
  <2> HIDE DEF bs
  <2>2. Len(bs) > 0
    BY <2>1 DEF bs
  <2>3. 1 \in 1 .. Len(bs) /\ 1 + 1 = 2
    BY <2>1, <2>2
  <2>4. 2 \in 2 .. Len(c) - 1 /\ bs[1] = c[2] /\ bs[1] \in Descs
    BY <2>1, <2>3, ElementOfSeq
  <2>5. Len(c) \in Nat
    BY <1>1, LenProperties
  <2> DEFINE L == Len(c)
  <2>6. L > 2
    <3>1. L \in Nat /\ 2 \in 2 .. L - 1
      BY <2>4, <2>5
    <3> HIDE DEF L
    <3> QED BY <3>1
  <2>7. Span(c[2]) \subseteq Region("blk", h)
    BY <1>1, <2>4 DEF Good, DataDescs
  <2> QED BY <2>4, <2>6, <2>7, RegionInside DEF bs, Devices
<1>3. res = IF Reached(A) < n THEN Error(new, disk) ELSE Done(new, disk, x.len + 1)
  BY <1>2 DEF handle_get_id_request
<1>4. Fill(r) = Span(x) /\ Covered(r) = {}
  BY <1>2 DEF Fill, Covered
<1>5. x.len \in Nat /\ x.addr \in Nat
  BY <1>2 DEF Descs
<1>6. IsFiniteSet(Span(x)) /\ Cardinality(Span(x)) = x.len
  <2> DEFINE u == x.addr
             v == x.addr + x.len - 1
  <2>1. u \in Int /\ v \in Int
    BY <1>5
  <2>2. IsFiniteSet(u .. v) /\ Cardinality(u .. v) = IF u > v THEN 0 ELSE v - u + 1
    BY <2>1, FS_Interval
  <2>3. (IF u > v THEN 0 ELSE v - u + 1) = x.len
    BY <1>5
  <2> QED BY <2>2, <2>3 DEF Span
<1>7. /\ A \in Seq(Nat)
      /\ \A i \in 1 .. n : A[i] \in Span(x)
      /\ \A a \in Span(x) : \E i \in 1 .. n : A[i] = a
  <2> DEFINE ds == <<x>>
  <2>1. ds \in Seq(Descs) /\ Len(ds) = 1 /\ ds[1] = x
    BY <1>2
  <2> HIDE DEF ds
  <2>2. /\ Addrs(ds) \in Seq(Nat)
        /\ \A i \in 1 .. Len(Addrs(ds)) : \E k \in 1 .. Len(ds) : Addrs(ds)[i] \in Span(ds[k])
        /\ \A k \in 1 .. Len(ds) : \A a \in Span(ds[k]) : \E i \in 1 .. Len(Addrs(ds)) : Addrs(ds)[i] = a
    BY <2>1, AddrsRange
  <2>3. 1 \in 1 .. Len(ds) /\ \A k \in 1 .. Len(ds) : ds[k] = x
    BY <2>1
  <2> QED BY <2>2, <2>3 DEF ds
<1>8. mem = [a \in DRAM |-> mem[a]] /\ disk = [b \in DiskBytes |-> disk[b]]
  BY DEF Typed
<1> HIDE DEF A, bytes, new, res, x
<1>9. n \in Nat /\ DOMAIN A = 1 .. n
  BY <1>7, LenProperties
<1>10. /\ Reached(A) \in 0 .. n /\ (Reached(A) < n => A[Reached(A) + 1] \notin DRAM)
  BY <1>7, ReachedIs
<1>11. Reached(A) = n
  <2> HIDE DEF n
  <2>1. ASSUME Reached(A) < n PROVE FALSE
    <3>1. Reached(A) + 1 \in 1 .. n
      BY <1>9, <1>10, <2>1
    <3> QED BY <1>2, <1>7, <1>10, <2>1, <3>1
  <2> QED BY <1>9, <1>10, <2>1
<1>12. Puts(A, bytes, new)
  BY <1>7, StoredIs DEF new
<1>13. /\ new = [a \in DRAM |-> new[a]]
       /\ \A a \in DRAM : \/ new[a] = mem[a] /\ \A i \in 1 .. n : A[i] # a
                          \/ \E i \in 1 .. n : A[i] = a /\ new[a] = bytes[i]
  BY <1>11, <1>12 DEF Puts
<1>14. \A i \in 1 .. n : bytes[i] # Blank
  BY <1>9 DEF bytes, Blank, SerialByte
<1>15. \A a \in DRAM : new[a] # mem[a] => a \in Span(x)
  BY <1>7, <1>13
<1>16. ASSUME NEW a \in Span(x) PROVE new[a] # Blank
  <2>1. a \in DRAM /\ ~(\A i \in 1 .. n : A[i] # a)
    BY <1>2, <1>7
  <2>2. \E i \in 1 .. n : A[i] = a /\ new[a] = bytes[i]
    BY <1>13, <2>1
  <2> QED BY <1>14, <2>2
<1>17. res = Done(new, disk, x.len + 1)
  <2>1. ~(n < n)
    BY <1>9
  <2> QED BY <1>3, <1>11, <2>1
<1>18. res.status = S_OK /\ res.len = x.len + 1 /\ res.mem = new /\ res.disk = disk /\ x.len + 1 \in Nat
  BY <1>5, <1>17 DEF Done
<1>19. Success(h, r, res)
  BY <1>1, <1>2, <1>4, <1>6, <1>16, <1>18 DEF Success
<1> QED BY <1>4, <1>8, <1>13, <1>15, <1>18, <1>19 DEF HandledOK, res

\* Every type of request.
LEMMA HandledIs ==
  ASSUME Typed, NEW h \in HeadIds, NEW r, Sound("blk", h, r), NEW fault \in {NoFault, 0, 1}
  PROVE  HandledOK(h, r, fault, Handled(mem, disk, r, fault))
<1> DEFINE bs == Buffers(r)
           res == Handled(mem, disk, r, fault)
<1>1. res = CASE r.type = "IN"    -> handle_read_request_sg(mem, disk, r.sector, bs, fault)
              [] r.type = "OUT"   -> handle_write_request_sg(mem, disk, r.sector, bs, fault)
              [] r.type = "FLUSH" -> handle_flush_request(mem, disk, fault)
              [] r.type = "GET_ID" /\ bs # << >> -> handle_get_id_request(mem, disk, bs[1])
              [] OTHER -> Failed(mem, disk, 1)
  BY DEF Handled, Buffers
<1>2. mem = [a \in DRAM |-> mem[a]] /\ disk = [b \in DiskBytes |-> disk[b]]
  BY DEF Typed
<1> HIDE DEF res, bs
<1>3. CASE r.type = "IN"
  <2>1. res = handle_read_request_sg(mem, disk, r.sector, bs, fault)
    BY <1>1, <1>3
  <2> QED BY <1>3, <2>1, ReadHandled DEF res, bs
<1>4. CASE r.type = "OUT"
  <2>1. res = handle_write_request_sg(mem, disk, r.sector, bs, fault)
    BY <1>1, <1>4
  <2> QED BY <1>4, <2>1, WriteHandled DEF res, bs
<1>5. CASE r.type = "GET_ID" /\ bs # << >>
  <2>1. res = handle_get_id_request(mem, disk, bs[1])
    BY <1>1, <1>5
  <2> QED BY <1>5, <2>1, IdHandled DEF res, bs
<1>6. ASSUME res = Failed(mem, disk, 1) PROVE HandledOK(h, r, fault, res)
  <2>1. res.status = S_IOERR /\ S_IOERR # S_OK /\ res.len = 1 /\ res.mem = mem /\ res.disk = disk
    BY <1>6 DEF S_OK, S_IOERR, Failed
  <2> QED BY <1>2, <2>1 DEF HandledOK
<1>7. CASE r.type = "FLUSH"
  <2>1. res = IF fault # NoFault THEN Failed(mem, disk, 1) ELSE Done(mem, disk, 1)
    BY <1>1, <1>7 DEF handle_flush_request
  <2>2. CASE fault # NoFault
    BY <1>6, <2>1, <2>2 DEF res
  <2>3. CASE fault = NoFault
    <3>1. res.status = S_OK /\ res.len = 1 /\ res.mem = mem /\ res.disk = disk
      BY <2>1, <2>3 DEF Done
    <3>2. Good("blk", h, r)
      BY <1>7 DEF Sound, BlkChainOk
    <3>3. Fill(r) = {} /\ Covered(r) = {}
      BY <1>7 DEF Fill, Covered
    <3>4. IsFiniteSet({}) /\ Cardinality({}) = 0 /\ 0 + 1 = 1
      BY FS_EmptySet
    <3>5. Success(h, r, res)
      BY <1>7, <3>1, <3>2, <3>3, <3>4 DEF Success
    <3>6. 1 \in Nat /\ S_OK \in {S_OK, S_IOERR}
      OBVIOUS
    <3>7. HandledOK(h, r, fault, res)
      BY <1>2, <3>1, <3>5, <3>6 DEF HandledOK
    <3> QED BY <3>7 DEF res
  <2> QED BY <2>2, <2>3
<1>8. CASE r.type \notin {"IN", "OUT", "FLUSH"} /\ ~(r.type = "GET_ID" /\ bs # << >>)
  <2>1. res = Failed(mem, disk, 1)
    BY <1>1, <1>8
  <2> QED BY <1>6, <2>1 DEF res
<1> QED BY <1>3, <1>4, <1>5, <1>7, <1>8

\* What a request fills are its buffers; the status byte is apart from them.
LEMMA FillIs ==
  ASSUME NEW h \in HeadIds, NEW r, Sound("blk", h, r)
  PROVE  /\ Fill(r) \subseteq BufBytes(r)
         /\ Good("blk", h, r) => Fill(r) \subseteq Inner("blk", h)
         /\ Len(r.chain) > 1 =>
               /\ StatusAddr(r) \in Nat /\ StatusAddr(r) \notin Inner("blk", h)
               /\ StatusAddr(r) \in DRAM => StatusAddr(r) \in Region("blk", h)
<1>1. Fill(r) \subseteq BufBytes(r)
  <2> DEFINE L == Len(r.chain)
  <2>1. L \in Nat
    BY LenProperties DEF Sound, ChainOk
  <2> HIDE DEF L
  <2>2. L > 2 => 2 \in 2 .. L - 1
    BY <2>1
  <2> QED BY <2>2 DEF Fill, BufBytes, L
<1>2. Good("blk", h, r) => Fill(r) \subseteq Inner("blk", h)
  BY <1>1, BuffersIs
<1>3. ASSUME Len(r.chain) > 1
      PROVE  /\ StatusAddr(r) \in Nat /\ StatusAddr(r) \notin Inner("blk", h)
             /\ StatusAddr(r) \in DRAM => StatusAddr(r) \in Region("blk", h)
  <2> DEFINE x == StatusAddr(r)
             S == Slot("blk", h)
  <2>1. x \in {S + 1 + BufLen, Outside}
    BY <1>3 DEF Sound, BlkChainOk, StatusAddr
  <2>2. /\ S \in Nat /\ BufLen \in Nat /\ Outside \in Nat /\ Outside - 1 \in Nat /\ DRAM = 0 .. Outside - 1
        /\ S + RegionLen <= Outside - 1 /\ RegionLen = BufLen + 2 /\ S + 1 + BufLen \in Region("blk", h)
    BY Constants, RegionIs, RegionInside DEF Devices
  <2>3. Inner("blk", h) = S + 1 .. S + BufLen
    BY DEF Inner
  <2> HIDE DEF x, S
  <2>4. x \in Nat /\ x \notin S + 1 .. S + BufLen
    BY <2>1, <2>2
  <2>5. x \in DRAM => x = S + 1 + BufLen
    BY <2>1, <2>2
  <2> QED BY <2>2, <2>3, <2>4, <2>5 DEF x
<1> QED BY <1>1, <1>2, <1>3

Executed(h, r, fault, res) ==
    /\ res.len \in Nat
    /\ res.mem = [a \in DRAM |-> res.mem[a]] /\ res.disk = [b \in DiskBytes |-> res.disk[b]]
    /\ \A a \in DRAM : res.mem[a] # mem[a] => Len(r.chain) > 1 /\ a \in Touched("blk", r)
    /\ \A b \in DiskBytes : res.disk[b] # disk[b] =>
          Good("blk", h, r) /\ b \in Covered(r) /\ res.disk[b] = DataFor(r, b)
    /\ fault = NoFault => res.disk \in {disk, WholeWrite(r)}
    /\ ~res.err => /\ Len(r.chain) > 1 /\ StatusAddr(r) \in Region("blk", h)
                   /\ res.mem[StatusAddr(r)] = S_OK => Success(h, r, res)

\* An iteration of process_queue of virtio-blk is as Executed says.
LEMMA BlkRequestIs ==
  ASSUME Typed, NEW h \in HeadIds, NEW r, Sound("blk", h, r), NEW fault \in {NoFault, 0, 1}
  PROVE  Executed(h, r, fault, BlkRequest(mem, disk, r, fault))
<1> DEFINE res == BlkRequest(mem, disk, r, fault)
           old == Handled(mem, disk, r, fault)
           Refused == ~Ends(r, BLK_MAX_CHAIN) \/ Len(r.chain) < 2 \/ r.chain[1].addr \notin DRAM
           x == StatusAddr(r)
<1>1. res = IF Refused THEN Error(mem, disk)
            ELSE IF old.err THEN old
            ELSE IF x \notin DRAM THEN Error(old.mem, old.disk)
            ELSE [old EXCEPT !.mem = [old.mem EXCEPT ![x] = old.status]]
  BY DEF BlkRequest, StatusAddr
<1>2. mem = [a \in DRAM |-> mem[a]] /\ disk = [b \in DiskBytes |-> disk[b]]
  BY DEF Typed
<1>3. HandledOK(h, r, fault, old)
  BY HandledIs
<1>4. /\ old.len \in Nat /\ old.status \in {S_OK, S_IOERR}
      /\ old.mem = [a \in DRAM |-> old.mem[a]] /\ old.disk = [b \in DiskBytes |-> old.disk[b]]
      /\ \A a \in DRAM : old.mem[a] # mem[a] => a \in Fill(r)
      /\ \A b \in DiskBytes : old.disk[b] # disk[b] =>
            Good("blk", h, r) /\ b \in Covered(r) /\ old.disk[b] = DataFor(r, b)
      /\ fault = NoFault => old.disk \in {disk, WholeWrite(r)}
      /\ ~old.err /\ old.status = S_OK => Success(h, r, old)
  BY <1>3 DEF HandledOK
<1>5. old = [err |-> old.err, status |-> old.status, len |-> old.len, mem |-> old.mem, disk |-> old.disk]
  BY DEF Handled, handle_read_request_sg, handle_write_request_sg, handle_flush_request,
         handle_get_id_request, Failed, Error, Done
<1>6. Touched("blk", r) = Fill(r) \cup {x}
  BY DEF Touched
<1>7. Len(r.chain) < 2 \/ Len(r.chain) > 1
  <2> DEFINE L == Len(r.chain)
  <2>1. L \in Nat
    BY LenProperties DEF Sound, ChainOk
  <2> HIDE DEF L
  <2>2. L < 2 \/ L > 1
    BY <2>1
  <2> QED BY <2>2 DEF L
<1> HIDE DEF res, old, x, Refused
<1>8. CASE Refused
  <2>1. res.err = TRUE /\ res.len = 0 /\ res.mem = mem /\ res.disk = disk
    BY <1>1, <1>8 DEF Error
  <2>2. 0 \in Nat
    OBVIOUS
  <2>3. Executed(h, r, fault, res)
    BY <1>2, <2>1, <2>2 DEF Executed
  <2> QED BY <2>3 DEF res
<1>9. ASSUME ~Refused PROVE Len(r.chain) > 1
  BY <1>7, <1>9 DEF Refused
<1>10. CASE ~Refused /\ (old.err \/ x \notin DRAM)
  <2>1. res.err /\ res.len \in Nat /\ res.mem = old.mem /\ res.disk = old.disk
    <3>1. CASE old.err
      BY <1>1, <1>4, <1>10, <3>1
    <3>2. CASE ~old.err
      <4>1. res = Error(old.mem, old.disk)
        BY <1>1, <1>10, <3>2
      <4> QED BY <4>1 DEF Error
    <3> QED BY <3>1, <3>2
  <2>2. Executed(h, r, fault, res)
    BY <1>4, <1>6, <1>9, <1>10, <2>1 DEF Executed
  <2> QED BY <2>2 DEF res
<1>11. CASE ~Refused /\ ~old.err /\ x \in DRAM
  <2> DEFINE new == [old.mem EXCEPT ![x] = old.status]
  <2>1. res = [err |-> old.err, status |-> old.status, len |-> old.len, mem |-> new, disk |-> old.disk]
    BY <1>1, <1>5, <1>11
  <2>2. res.len = old.len /\ res.mem = new /\ res.disk = old.disk
    BY <2>1
  <2>3. /\ new = [a \in DRAM |-> new[a]] /\ new[x] = old.status
        /\ \A a \in DRAM : a # x => new[a] = old.mem[a]
    BY <1>4, <1>11
  <2> HIDE DEF new
  <2>4. Len(r.chain) > 1
    BY <1>9, <1>11
  <2>5. x \in Region("blk", h) /\ x \notin Inner("blk", h)
    BY <1>11, <2>4, FillIs DEF x
  <2>6. ASSUME new[x] = S_OK PROVE Success(h, r, res)
    <3>1. Success(h, r, old)
      BY <1>4, <1>11, <2>3, <2>6
    <3>2. Good("blk", h, r) /\ \A a \in Fill(r) : a \in DRAM
      BY <3>1 DEF Success
    <3>3. \A a \in Fill(r) : new[a] = old.mem[a]
      BY <2>3, <2>5, <3>2, FillIs
    <3>4. r.type = "IN" => \A i \in DOMAIN Addrs(Buffers(r)) : Addrs(Buffers(r))[i] \in Fill(r)
      BY BuffersIs DEF Fill
    <3> QED BY <2>2, <3>1, <3>3, <3>4 DEF Success
  <2>7. \A a \in DRAM : new[a] # mem[a] => a \in Touched("blk", r)
    BY <1>4, <1>6, <2>3
  <2>8. Executed(h, r, fault, res)
    BY <1>4, <2>2, <2>3, <2>4, <2>5, <2>6, <2>7 DEF Executed, x
  <2> QED BY <2>8 DEF res
<1> QED BY <1>8, <1>10, <1>11

-----------------------------------------------------------------------------
(* What virtio-rng does with a request. *)

\* The walk meets descriptors of the chain; unless the chain runs into itself,
\* each at its place.
LEMMA WalkIs ==
  ASSUME NEW r, r.chain \in Seq(Descs), Len(r.chain) > 0, NEW limit \in Nat
  PROVE  LET w == Walk(r, limit)
         IN  /\ w \in Seq(Descs) /\ Len(w) \in Nat
             /\ \A i \in 1 .. Len(w) : \E k \in 1 .. Len(r.chain) : w[i] = r.chain[k]
             /\ ~r.loops => Len(w) <= Len(r.chain) /\ \A i \in 1 .. Len(w) : w[i] = r.chain[i]
             /\ ~r.loops /\ Len(r.chain) <= limit => Len(w) = Len(r.chain)
<1> DEFINE c == r.chain
           n == Len(c)
           w == Walk(r, limit)
           at(i) == ((i - 1) % n) + 1
<1>1. n \in Nat /\ n > 0 /\ \A i \in 1 .. n : c[i] \in Descs
  BY LenProperties, ElementOfSeq
<1>2. w = IF r.loops \/ n > limit THEN [i \in 1 .. limit |-> c[at(i)]] ELSE c
  BY DEF Walk
<1>3. c \in Seq(Descs)
  OBVIOUS
<1> HIDE DEF c, n, w
<1>4. \A i \in 1 .. limit : at(i) \in 1 .. n
  <2> SUFFICES ASSUME NEW i \in 1 .. limit PROVE at(i) \in 1 .. n
    OBVIOUS
  <2>1. i - 1 \in Nat
    OBVIOUS
  <2>2. (i - 1) % n \in 0 .. n - 1
    BY <1>1, <2>1, Halves
  <2> QED BY <1>1, <2>2
<1>5. CASE r.loops \/ n > limit
  <2>1. w = [i \in 1 .. limit |-> c[at(i)]]
    BY <1>2, <1>5
  <2>2. \A i \in 1 .. limit : c[at(i)] \in Descs
    BY <1>1, <1>4
  <2> HIDE DEF at
  <2>3. w \in Seq(Descs) /\ Len(w) = limit
    BY <2>1, <2>2, IsASeq
  <2>4. \A i \in 1 .. limit : \E k \in 1 .. n : w[i] = c[k]
    BY <1>4, <2>1
  <2>5. ASSUME ~r.loops PROVE limit < n /\ ~(n <= limit) /\ limit <= n /\ \A i \in 1 .. limit : w[i] = c[i]
    <3>1. limit < n
      BY <1>1, <1>5, <2>5
    <3>2. ASSUME NEW i \in 1 .. limit PROVE at(i) = i
      <4>1. i - 1 \in Nat /\ i - 1 < n
        BY <1>1, <3>1
      <4>2. (i - 1) % n = i - 1
        BY <1>1, <4>1, SmallMod
      <4> QED BY <4>2 DEF at
    <3> QED BY <1>1, <2>1, <3>1, <3>2
  <2> QED BY <2>3, <2>4, <2>5 DEF w, c, n
<1>6. CASE ~(r.loops \/ n > limit)
  <2>1. w = c
    BY <1>2, <1>6
  <2>2. n <= n
    BY <1>1
  <2> QED BY <1>1, <1>3, <1>6, <2>1, <2>2 DEF w, c, n
<1> QED BY <1>5, <1>6

\* The device-writable bytes of a request.
LEMMA WritableIs ==
  ASSUME NEW r, r.chain \in Seq(Descs)
  PROVE  \A a : a \in Writable(r) <=> \E i \in 1 .. Len(r.chain) : r.chain[i].write = TRUE /\ a \in Span(r.chain[i])
<1> DEFINE c == r.chain
           o == Only(c, TRUE)
           A == Addrs(o)
<1>1. Writable(r) = {A[i] : i \in DOMAIN A}
  BY DEF Writable
<1>2. /\ o \in Seq(Descs) /\ Len(o) = Len(c)
      /\ \A i \in 1 .. Len(c) : Span(o[i]) = IF c[i].write = TRUE THEN Span(c[i]) ELSE {}
  BY OnlyIs
<1> HIDE DEF c, o
<1>3. /\ A \in Seq(Nat)
      /\ \A i \in 1 .. Len(A) : \E k \in 1 .. Len(o) : A[i] \in Span(o[k])
      /\ \A k \in 1 .. Len(o) : \A a \in Span(o[k]) : \E i \in 1 .. Len(A) : A[i] = a
  BY <1>2, AddrsRange
<1> HIDE DEF A
<1>4. DOMAIN A = 1 .. Len(A)
  BY <1>3, LenProperties
<1>5. ASSUME NEW a, NEW i \in 1 .. Len(A), A[i] = a
      PROVE  \E k \in 1 .. Len(c) : c[k].write = TRUE /\ a \in Span(c[k])
  <2>1. PICK k \in 1 .. Len(c) : a \in Span(o[k])
    BY <1>2, <1>3, <1>5
  <2> QED BY <1>2, <2>1
<1>6. ASSUME NEW a, NEW k \in 1 .. Len(c), c[k].write = TRUE, a \in Span(c[k]) PROVE \E i \in 1 .. Len(A) : A[i] = a
  <2>1. a \in Span(o[k])
    BY <1>2, <1>6
  <2> QED BY <1>2, <1>3, <2>1
<1> QED BY <1>1, <1>4, <1>5, <1>6 DEF c

RngExecuted(h, r, res) ==
    /\ res.len \in Nat /\ res.disk = disk
    /\ res.mem = [a \in DRAM |-> res.mem[a]]
    /\ \A a \in DRAM : res.mem[a] # mem[a] => a \in Touched("rng", r)
    /\ ~res.err /\ ~r.loops =>
          /\ Good("rng", h, r) /\ IsFiniteSet(Touched("rng", r)) /\ res.len = Cardinality(Touched("rng", r))
          /\ \A a \in Touched("rng", r) : a \in DRAM /\ res.mem[a] # Blank

\* An iteration of process_queue of virtio-rng is as RngExecuted says.
LEMMA RngRequestIs ==
  ASSUME Typed, NEW h \in HeadIds, NEW r, Sound("rng", h, r)
  PROVE  RngExecuted(h, r, RngRequest(mem, disk, r))
<1> DEFINE c == r.chain
           w == Walk(r, RNG_MAX_CHAIN)
           o == Only(w, TRUE)
           A == Addrs(o)
           n == Len(A)
           bytes == [i \in DOMAIN A |-> RandomByte]
           new == Stored(mem, A, bytes)
           res == RngRequest(mem, disk, r)
           T == Touched("rng", r)
<1>1. res = IF Reached(A) < n THEN Error(new, disk) ELSE Done(new, disk, n)
  BY DEF RngRequest
<1>2. /\ c \in Seq(Descs) /\ Len(c) > 0 /\ DOMAIN c = 1 .. Len(c)
      /\ \A i, j \in 1 .. Len(c) : i # j => Span(c[i]) \cap Span(c[j]) = {}
      /\ ~Good("rng", h, r) =>
            /\ ~r.loops /\ Len(c) <= RNG_MAX_CHAIN
            /\ \E i \in 1 .. Len(c) : c[i].write /\ \E a \in Span(c[i]) : a \notin DRAM
  <2>1. c \in Seq(Descs) /\ Len(c) > 0
    BY DEF Sound, ChainOk
  <2>2. DOMAIN c = 1 .. Len(c)
    BY <2>1, LenProperties
  <2>3. ChainOk("rng", h, r) /\ RngChainOk(h, r)
    BY DEF Sound
  <2> QED BY <2>1, <2>2, <2>3 DEF ChainOk, RngChainOk, DataDescs
<1>3. /\ w \in Seq(Descs) /\ Len(w) \in Nat
      /\ \A i \in 1 .. Len(w) : \E k \in 1 .. Len(c) : w[i] = c[k]
      /\ ~r.loops => Len(w) <= Len(c) /\ \A i \in 1 .. Len(w) : w[i] = c[i]
      /\ ~r.loops /\ Len(c) <= RNG_MAX_CHAIN => Len(w) = Len(c)
  BY <1>2, WalkIs, DataAssumption
<1>4. mem = [a \in DRAM |-> mem[a]] /\ disk = [b \in DiskBytes |-> disk[b]]
  BY DEF Typed
<1>5. T = UNION {Span(w[i]) : i \in {j \in DOMAIN w : w[j].write}}
  BY DEF Touched
<1>6. Len(c) \in Nat /\ DOMAIN w = 1 .. Len(w) /\ \A i \in 1 .. Len(w) : w[i].write \in BOOLEAN
  <2>1. \A i \in 1 .. Len(w) : w[i] \in Descs
    BY <1>3, ElementOfSeq
  <2>2. \A i \in 1 .. Len(w) : w[i].write \in BOOLEAN
    BY <2>1 DEF Descs
  <2> QED BY <1>2, <1>3, <2>2, LenProperties
<1> HIDE DEF c, w, T
<1>7. /\ o \in Seq(Descs) /\ Len(o) = Len(w)
      /\ \A i \in 1 .. Len(w) : Span(o[i]) = IF w[i].write = TRUE THEN Span(w[i]) ELSE {}
  BY <1>3, OnlyIs
<1> HIDE DEF o
<1>8. /\ A \in Seq(Nat)
      /\ \A i \in 1 .. Len(A) : \E k \in 1 .. Len(o) : A[i] \in Span(o[k])
      /\ \A k \in 1 .. Len(o) : \A a \in Span(o[k]) : \E i \in 1 .. Len(A) : A[i] = a
  BY <1>7, AddrsRange
<1>9. ASSUME ~r.loops PROVE Apart(o)
  <2> SUFFICES ASSUME NEW i \in 1 .. Len(o), NEW j \in 1 .. Len(o), i # j PROVE Span(o[i]) \cap Span(o[j]) = {}
    BY DEF Apart
  <2>1. i \in 1 .. Len(c) /\ j \in 1 .. Len(c) /\ w[i] = c[i] /\ w[j] = c[j]
    BY <1>3, <1>6, <1>7, <1>9
  <2>2. Span(w[i]) \cap Span(w[j]) = {}
    BY <1>2, <2>1
  <2> QED BY <1>7, <2>2
<1>10. ~r.loops => \A i, j \in 1 .. Len(A) : A[i] = A[j] => i = j
  BY <1>7, <1>9, AddrsOnce
<1> HIDE DEF A, bytes, new, res
<1>11. n \in Nat /\ DOMAIN A = 1 .. n
  BY <1>8, LenProperties
<1>12. T = {A[i] : i \in 1 .. n}
  <2>1. ASSUME NEW a \in T PROVE \E i \in 1 .. n : A[i] = a
    <3>1. PICK j \in 1 .. Len(w) : w[j].write /\ a \in Span(w[j])
      BY <1>5, <1>6, <2>1
    <3>2. a \in Span(o[j]) /\ j \in 1 .. Len(o)
      BY <1>6, <1>7, <3>1
    <3> QED BY <1>8, <3>2
  <2>2. ASSUME NEW i \in 1 .. n PROVE A[i] \in T
    <3>1. PICK j \in 1 .. Len(o) : A[i] \in Span(o[j])
      BY <1>8
    <3>2. w[j].write = TRUE /\ A[i] \in Span(w[j]) /\ j \in DOMAIN w
      BY <1>6, <1>7, <3>1
    <3> QED BY <1>5, <3>2
  <2> QED BY <2>1, <2>2
<1>13. Puts(A, bytes, new)
  BY <1>8, StoredIs DEF new
<1>14. Reached(A) \in 0 .. n /\ \A i \in 1 .. Reached(A) : A[i] \in DRAM
  BY <1>8, ReachedIs
<1>15. /\ new = [a \in DRAM |-> new[a]]
       /\ \A a \in DRAM : \/ new[a] = mem[a] /\ \A i \in 1 .. Reached(A) : A[i] # a
                          \/ \E i \in 1 .. Reached(A) : A[i] = a /\ new[a] = bytes[i]
  BY <1>13 DEF Puts
<1> HIDE DEF n
<1>16. \A i \in 1 .. Reached(A) : i \in 1 .. n
  BY <1>11, <1>14
<1>17. \A a \in DRAM : new[a] # mem[a] => a \in T
  BY <1>12, <1>15, <1>16
<1>18. \A i \in 1 .. n : bytes[i] # Blank
  BY <1>11 DEF bytes, RandomByte, Blank
<1>19. CASE Reached(A) < n
  <2>1. res.err = TRUE /\ res.len = 0 /\ res.disk = disk /\ res.mem = new
    BY <1>1, <1>19 DEF Error
  <2>2. 0 \in Nat
    OBVIOUS
  <2>3. RngExecuted(h, r, res)
    BY <1>15, <1>17, <2>1, <2>2 DEF RngExecuted, T
  <2> QED BY <2>3 DEF res
<1>20. CASE ~(Reached(A) < n)
  <2>1. res.len = n /\ res.disk = disk /\ res.mem = new
    BY <1>1, <1>20 DEF Done
  <2>2. Reached(A) = n
    BY <1>11, <1>14, <1>20
  <2>3. \A a \in T : a \in DRAM
    BY <1>12, <1>14, <2>2
  <2>4. \A a \in T : new[a] # Blank
    <3> SUFFICES ASSUME NEW a \in T PROVE new[a] # Blank
      OBVIOUS
    <3>1. a \in DRAM /\ ~(\A i \in 1 .. n : A[i] # a)
      BY <1>12, <2>3
    <3>2. \E i \in 1 .. n : A[i] = a /\ new[a] = bytes[i]
      BY <1>15, <2>2, <3>1
    <3> QED BY <1>18, <3>2
  <2>5. Good("rng", h, r)
    <3>1. ASSUME ~Good("rng", h, r) PROVE FALSE
      <4>1. /\ ~r.loops /\ Len(c) <= RNG_MAX_CHAIN
            /\ \E i \in 1 .. Len(c) : c[i].write /\ \E a \in Span(c[i]) : a \notin DRAM
        BY <1>2, <3>1
      <4>2. Len(w) = Len(c) /\ \A i \in 1 .. Len(c) : w[i] = c[i]
        BY <1>3, <4>1
      <4>3. \E i \in DOMAIN w : w[i].write /\ \E a \in Span(w[i]) : a \notin DRAM
        BY <1>6, <4>1, <4>2
      <4> QED BY <1>5, <2>3, <4>3
    <3> QED BY <3>1
  <2>6. ~r.loops => IsFiniteSet(T) /\ Cardinality(T) = n
    BY <1>8, <1>10, <1>12, SeqCard DEF n
  <2>7. RngExecuted(h, r, res)
    BY <1>11, <1>15, <1>17, <2>1, <2>3, <2>4, <2>5, <2>6 DEF RngExecuted, T
  <2> QED BY <2>7 DEF res
<1> QED BY <1>19, <1>20

-----------------------------------------------------------------------------
(* A device writes only what it was given to write. *)

\* What it writes is in descriptors with the WRITE flag, in the region of its
\* head or past all regions.
LEMMA TouchedWritable ==
  ASSUME NEW d \in Devices, NEW h \in HeadIds, NEW r, Sound(d, h, r), d = "blk" => Len(r.chain) > 1
  PROVE  /\ Touched(d, r) \subseteq Writable(r)
         /\ \A a \in Touched(d, r) : a \in Region(d, h) \/ a >= Outside - 1
<1> DEFINE c == r.chain
<1>1. /\ c \in Seq(Descs) /\ Len(c) > 0 /\ DOMAIN c = 1 .. Len(c) /\ Len(c) \in Nat
      /\ \A i \in DataDescs(d, r) : \A a \in Span(c[i]) : a \in Inner(d, h) \/ a >= Outside - 1
  <2>1. /\ c \in Seq(Descs) /\ Len(c) > 0
        /\ \A i \in DataDescs(d, r) : \A a \in Span(c[i]) : a \in Inner(d, h) \/ a >= Outside - 1
    BY DEF Sound, ChainOk
  <2> QED BY <2>1, LenProperties
<1>2. \A a : a \in Writable(r) <=> \E i \in 1 .. Len(c) : c[i].write = TRUE /\ a \in Span(c[i])
  BY <1>1, WritableIs
<1>3. \A a \in Inner(d, h) : a \in Region(d, h)
  BY RegionInside DEF Inner
<1>4. CASE d = "rng"
  <2> DEFINE w == Walk(r, RNG_MAX_CHAIN)
  <2>1. \A i \in 1 .. Len(w) : \E k \in 1 .. Len(c) : w[i] = c[k]
    BY <1>1, WalkIs, DataAssumption
  <2>2. DOMAIN w = 1 .. Len(w)
    BY <1>1, WalkIs, LenProperties, DataAssumption
  <2>3. Touched(d, r) = UNION {Span(w[i]) : i \in {j \in DOMAIN w : w[j].write}}
    BY <1>4 DEF Touched
  <2>4. DataDescs(d, r) = 1 .. Len(c)
    BY <1>1, <1>4 DEF DataDescs
  <2>5. \A k \in 1 .. Len(c) : c[k].write \in BOOLEAN
    <3>1. \A k \in 1 .. Len(c) : c[k] \in Descs
      BY <1>1, ElementOfSeq
    <3> QED BY <3>1 DEF Descs
  <2> HIDE DEF w, c
  <2>6. ASSUME NEW a \in Touched(d, r) PROVE \E k \in 1 .. Len(c) : c[k].write = TRUE /\ a \in Span(c[k])
    <3>1. PICK j \in 1 .. Len(w) : w[j].write /\ a \in Span(w[j])
      BY <2>2, <2>3, <2>6
    <3> QED BY <2>1, <2>5, <3>1
  <2> QED BY <1>1, <1>2, <1>3, <2>4, <2>6
<1>5. CASE d = "blk"
  <2> DEFINE n == Len(c)
  <2>1. /\ n > 1 /\ c[n].write = TRUE /\ Span(c[n]) = {c[n].addr}
        /\ c[n].addr \in {Slot("blk", h) + 1 + BufLen, Outside}
        /\ \A i \in 2 .. n - 1 : c[i].write = (r.type # "OUT")
    BY <1>5 DEF Sound, BlkChainOk
  <2>2. Touched(d, r) = Fill(r) \cup {c[n].addr}
    BY <1>5 DEF Touched, StatusAddr
  <2>3. DataDescs(d, r) = 2 .. n - 1
    BY <1>5 DEF DataDescs
  <2>4. Slot("blk", h) + 1 + BufLen \in Region(d, h) /\ Outside >= Outside - 1
    BY <1>5, RegionInside, Constants
  <2>5. \A i \in 2 .. n - 1 : i \in 1 .. n
    BY <1>1
  <2>6. n \in 1 .. n
    <3> HIDE DEF n
    <3>1. n \in Nat /\ n > 0
      BY <1>1 DEF n
    <3> QED BY <3>1
  <2>7. Fill(r) \subseteq BufBytes(r) /\ BufBytes(r) = UNION {Span(c[i]) : i \in 2 .. n - 1}
    BY <1>5, FillIs DEF BufBytes
  <2>8. \A a \in Fill(r) : r.type # "OUT"
    BY DEF Fill
  <2> HIDE DEF c, n
  <2>9. ASSUME NEW a \in Fill(r) PROVE \E i \in 2 .. n - 1 : c[i].write = TRUE /\ a \in Span(c[i])
    <3>1. PICK i \in 2 .. n - 1 : a \in Span(c[i])
      BY <2>7, <2>9
    <3>2. c[i].write = TRUE
      BY <2>1, <2>8, <2>9
    <3> QED BY <3>1, <3>2
  <2> QED BY <1>1, <1>2, <1>3, <2>1, <2>2, <2>3, <2>4, <2>5, <2>6, <2>9 DEF n
<1> QED BY <1>4, <1>5 DEF Devices

\* A request in the queue is sound.
LEMMA QueuedSound ==
  ASSUME BaseInv, NEW d \in Devices
  PROVE  /\ \A h \in HeadIds : request[d][h] # NoRequest => Sound(d, h, request[d][h])
         /\ \A p \in 1 .. NAll(d) : /\ HeadAt(d, p) \in HeadIds /\ ReqAt(d, p) # NoRequest
                                    /\ Sound(d, HeadAt(d, p), ReqAt(d, p))
<1>1. \A h \in HeadIds : request[d][h] # NoRequest => Sound(d, h, request[d][h])
  BY RequestSound DEF BaseInv, QueueInv
<1>2. used[d] \in Seq(Entries) /\ avail[d] \in Seq(HeadIds)
  BY DEF BaseInv, IoTypeOK
<1> DEFINE u == used[d]
           v == avail[d]
<1>3. /\ Len(u) \in Nat /\ Len(v) \in Nat
      /\ \A p \in 1 .. Len(u) : u[p] \in Entries
      /\ \A p \in 1 .. Len(v) : v[p] \in HeadIds
  BY <1>2, LenProperties, ElementOfSeq
<1>4. ASSUME NEW p \in 1 .. NAll(d) PROVE HeadAt(d, p) \in HeadIds
  <2>1. HeadAt(d, p) = IF p <= Len(u) THEN u[p].head ELSE v[p - Len(u)]
    BY DEF HeadAt
  <2>2. p \in 1 .. Len(u) + Len(v)
    BY DEF NAll
  <2> HIDE DEF u, v
  <2>3. CASE p <= Len(u)
    <3>1. p \in 1 .. Len(u)
      BY <1>3, <2>2, <2>3
    <3> QED BY <1>3, <2>1, <2>3, <3>1 DEF Entries
  <2>4. CASE ~(p <= Len(u))
    <3>1. p - Len(u) \in 1 .. Len(v)
      BY <1>3, <2>2, <2>4
    <3> QED BY <1>3, <2>1, <2>4, <3>1
  <2> QED BY <2>3, <2>4
<1>5. \A p \in 1 .. NAll(d) : ReqAt(d, p) # NoRequest
  BY DEF BaseInv, QueueInv
<1> QED BY <1>1, <1>4, <1>5 DEF ReqAt

-----------------------------------------------------------------------------
(* The queues. *)

\* Types and lengths of the two halves of a queue.
LEMMA Lengths ==
  ASSUME IoTypeOK, NEW d \in Devices
  PROVE  /\ used[d] \in Seq(Entries) /\ avail[d] \in Seq(HeadIds) /\ staged \in Seq(Entries)
         /\ Len(used[d]) \in Nat /\ Len(avail[d]) \in Nat /\ Len(staged) \in Nat
         /\ NAll(d) \in Nat /\ NServed(d) \in Nat
         /\ NAll(d) = Len(used[d]) + Len(avail[d])
         /\ running = d => NServed(d) = Len(used[d]) + Len(staged)
         /\ running # d => NServed(d) = Len(used[d])
<1>1. used[d] \in Seq(Entries) /\ avail[d] \in Seq(HeadIds) /\ staged \in Seq(Entries)
  BY DEF IoTypeOK
<1>2. Len(used[d]) \in Nat /\ Len(avail[d]) \in Nat /\ Len(staged) \in Nat
  BY <1>1, LenProperties
<1> DEFINE x == Len(used[d])
           y == Len(avail[d])
           z == Len(staged)
<1>3. NAll(d) = x + y /\ NServed(d) = x + IF running = d THEN z ELSE 0
  BY DEF NAll, NServed
<1>4. x \in Nat /\ y \in Nat /\ z \in Nat
  BY <1>2
<1> HIDE DEF x, y, z
<1>5. x + y \in Nat /\ x + z \in Nat /\ x + 0 = x
  BY <1>4
<1>6. /\ NAll(d) \in Nat /\ NServed(d) \in Nat /\ NAll(d) = x + y
      /\ running = d => NServed(d) = x + z
      /\ running # d => NServed(d) = x
  BY <1>3, <1>4, <1>5
<1> QED BY <1>1, <1>2, <1>6 DEF x, y, z

\* The request that is served next.
LEMMA CurrentIs ==
  ASSUME BaseInv, NEW d \in Devices, running = d, Len(staged) < Len(avail[d])
  PROVE  /\ NServed(d) + 1 \in 1 .. NAll(d) /\ NServed(d) \in Nat
         /\ Current(d) = ReqAt(d, NServed(d) + 1)
         /\ HeadAt(d, NServed(d) + 1) = avail[d][Len(staged) + 1]
         /\ HeadAt(d, NServed(d) + 1) \in HeadIds
         /\ Sound(d, HeadAt(d, NServed(d) + 1), Current(d))
<1> DEFINE x == Len(used[d])
           y == Len(avail[d])
           z == Len(staged)
           p == NServed(d) + 1
<1>1. x \in Nat /\ y \in Nat /\ z \in Nat /\ z < y /\ NServed(d) = x + z /\ NAll(d) = x + y
  BY Lengths DEF BaseInv
<1>2. HeadAt(d, p) = IF p <= x THEN used[d][p].head ELSE avail[d][p - x]
  BY DEF HeadAt
<1> HIDE DEF x, y, z
<1>3. p \in 1 .. NAll(d) /\ ~(p <= x) /\ p - x = z + 1 /\ NServed(d) \in Nat
  BY <1>1
<1>4. HeadAt(d, p) = avail[d][z + 1]
  BY <1>2, <1>3
<1>5. Current(d) = ReqAt(d, p)
  BY <1>4 DEF Current, ReqAt, z
<1>6. HeadAt(d, p) \in HeadIds /\ Sound(d, HeadAt(d, p), ReqAt(d, p))
  BY <1>3, QueuedSound
<1> QED BY <1>3, <1>4, <1>5, <1>6 DEF z

\* A device whose queue a step leaves alone.
LEMMA QueueFrame ==
  ASSUME NEW d \in Devices, QueueInv(d), request'[d] = request[d], used'[d] = used[d],
         avail'[d] = avail[d], running' = d => running = d /\ staged' = staged
  PROVE  QueueInv(d)'
BY DEF QueueInv, NAll, ReqAt, HeadAt

\* A request may also be given up.
LEMMA NoneLeft ==
  ASSUME NEW d \in Devices, used'[d] = << >>, avail'[d] = << >>, running' # d,
         \A h \in HeadIds : request'[d][h] = NoRequest
  PROVE  QueueInv(d)'
<1>1. Len(<<>>) + Len(<<>>) = 0
  OBVIOUS
<1>2. 1 .. Len(used'[d]) + Len(avail'[d]) = {}
  BY <1>1
<1> QED BY <1>2 DEF QueueInv, NAll

\* How the positions in the queue of a device move.
SameQueue(d) == used'[d] = used[d] /\ avail'[d] = avail[d] /\ request'[d] = request[d]

\* A queue that does not change keeps its positions.
LEMMA SamePositions ==
  ASSUME NEW d \in Devices, SameQueue(d)
  PROVE  /\ NAll(d)' = NAll(d)
         /\ \A p : HeadAt(d, p)' = HeadAt(d, p) /\ ReqAt(d, p)' = ReqAt(d, p)
BY DEF SameQueue, NAll, HeadAt, ReqAt

\* A new request stands at the end.
LEMMA SubmitMoves ==
  ASSUME IoTypeOK, NEW d \in Devices, NEW h \in HeadIds, avail'[d] = Append(avail[d], h), used'[d] = used[d]
  PROVE  /\ NAll(d)' = NAll(d) + 1 /\ NAll(d) \in Nat
         /\ \A p \in 1 .. NAll(d) : HeadAt(d, p)' = HeadAt(d, p)
         /\ \A p : p = NAll(d) + 1 => HeadAt(d, p)' = h
<1> DEFINE u == used[d]
           v == avail[d]
           w == Append(v, h)
<1>1. u \in Seq(Entries) /\ v \in Seq(HeadIds) /\ NAll(d) = Len(u) + Len(v) /\ Len(u) \in Nat /\ Len(v) \in Nat
  BY Lengths
<1>2. w \in Seq(HeadIds) /\ Len(w) = Len(v) + 1 /\ w[Len(v) + 1] = h /\ \A i \in 1 .. Len(v) : w[i] = v[i]
  BY <1>1, AppendProperties
<1>3. NAll(d)' = Len(u) + Len(w)
  BY DEF NAll
<1>4. \A p : HeadAt(d, p) = IF p <= Len(u) THEN u[p].head ELSE v[p - Len(u)]
  BY DEF HeadAt
<1>5. \A p : HeadAt(d, p)' = IF p <= Len(u) THEN u[p].head ELSE w[p - Len(u)]
  BY DEF HeadAt
<1> HIDE DEF u, v, w
<1>6. NAll(d)' = NAll(d) + 1 /\ NAll(d) \in Nat
  BY <1>1, <1>2, <1>3
<1>7. ASSUME NEW p \in 1 .. NAll(d) PROVE HeadAt(d, p)' = HeadAt(d, p)
  <2>1. CASE p <= Len(u)
    BY <1>4, <1>5, <2>1
  <2>2. CASE ~(p <= Len(u))
    <3>1. p - Len(u) \in 1 .. Len(v)
      BY <1>1, <2>2
    <3> QED BY <1>2, <1>4, <1>5, <2>2, <3>1
  <2> QED BY <2>1, <2>2
<1>8. ASSUME NEW p, p = NAll(d) + 1 PROVE HeadAt(d, p)' = h
  <2>1. ~(p <= Len(u)) /\ p - Len(u) = Len(v) + 1
    BY <1>1, <1>8
  <2> QED BY <1>2, <1>5, <2>1
<1> QED BY <1>6, <1>7, <1>8

\* Publication moves requests from one half of the queue to the other, each at
\* its position.
LEMMA PublishMoves ==
  ASSUME IoTypeOK, NEW d \in Devices, QueueInv(d), running = d, Len(staged) = Len(avail[d]),
         used'[d] = used[d] \o staged, avail'[d] = << >>, running' # d
  PROVE  /\ NAll(d)' = NAll(d) /\ NServed(d)' = NServed(d) /\ NServed(d) = NAll(d) /\ NAll(d) \in Nat
         /\ \A p \in 1 .. NAll(d) : HeadAt(d, p)' = HeadAt(d, p) /\ LenAt(d, p)' = LenAt(d, p)
<1> DEFINE u == used[d]
           v == avail[d]
           w == u \o staged
<1>1. /\ u \in Seq(Entries) /\ v \in Seq(HeadIds) /\ staged \in Seq(Entries)
      /\ Len(u) \in Nat /\ Len(v) \in Nat /\ Len(staged) \in Nat
      /\ NAll(d) = Len(u) + Len(v) /\ NServed(d) = Len(u) + Len(staged)
  BY Lengths
<1>2. /\ w \in Seq(Entries) /\ Len(w) = Len(u) + Len(staged)
      /\ \A i \in 1 .. Len(u) + Len(staged) : w[i] = IF i <= Len(u) THEN u[i] ELSE staged[i - Len(u)]
  BY <1>1, ConcatProperties
<1>3. NAll(d)' = Len(w) + Len(<< >>) /\ NServed(d)' = Len(w) + 0
  BY DEF NAll, NServed
<1>4. \A p : /\ HeadAt(d, p) = IF p <= Len(u) THEN u[p].head ELSE v[p - Len(u)]
             /\ LenAt(d, p) = IF p <= Len(u) THEN u[p].len ELSE staged[p - Len(u)].len
  BY DEF HeadAt, LenAt
<1>5. \A p : /\ p <= Len(w) => HeadAt(d, p)' = w[p].head
             /\ p <= Len(w) => LenAt(d, p)' = w[p].len
  BY DEF HeadAt, LenAt
<1>6. \A i \in 1 .. Len(staged) : staged[i].head = v[i]
  <2>1. DOMAIN staged = 1 .. Len(staged)
    BY <1>1, LenProperties
  <2> QED BY <2>1 DEF QueueInv
<1>7. Len(<< >>) = 0 /\ Len(staged) = Len(v)
  OBVIOUS
<1> HIDE DEF u, v, w
<1>8. NAll(d)' = NAll(d) /\ NServed(d)' = NServed(d) /\ NServed(d) = NAll(d) /\ NAll(d) \in Nat
  BY <1>1, <1>2, <1>3, <1>7
<1>9. ASSUME NEW p \in 1 .. NAll(d) PROVE HeadAt(d, p)' = HeadAt(d, p) /\ LenAt(d, p)' = LenAt(d, p)
  <2>1. p \in 1 .. Len(u) + Len(staged) /\ p <= Len(w)
    BY <1>1, <1>2, <1>7
  <2>2. CASE p <= Len(u)
    <3>1. w[p] = u[p]
      BY <1>2, <2>1, <2>2
    <3> QED BY <1>4, <1>5, <2>1, <2>2, <3>1
  <2>3. CASE ~(p <= Len(u))
    <3>1. w[p] = staged[p - Len(u)] /\ p - Len(u) \in 1 .. Len(staged)
      <4>1. w[p] = staged[p - Len(u)]
        BY <1>2, <2>1, <2>3
      <4> DEFINE x == Len(u)
                 z == Len(staged)
      <4>2. x \in Nat /\ z \in Nat /\ p \in 1 .. x + z /\ ~(p <= x)
        BY <1>1, <2>1, <2>3
      <4> HIDE DEF x, z
      <4>3. p - x \in 1 .. z
        BY <4>2
      <4> QED BY <4>1, <4>3 DEF x, z
    <3> QED BY <1>4, <1>5, <1>6, <2>1, <2>3, <3>1
  <2> QED BY <2>2, <2>3
<1> QED BY <1>8, <1>9

\* When the driver collects an entry, the others move up by one.
LEMMA CollectMoves ==
  ASSUME IoTypeOK, NEW d \in Devices, running = None, used[d] # << >>, running' = running,
         used'[d] = Tail(used[d]), avail'[d] = avail[d]
  PROVE  /\ NAll(d)' = NAll(d) - 1 /\ NServed(d)' = NServed(d) - 1
         /\ NAll(d) \in Nat /\ NServed(d) \in Nat /\ NServed(d) > 0 /\ NServed(d) <= NAll(d)
         /\ Head(used[d]).head = HeadAt(d, 1) /\ HeadAt(d, 1) \in HeadIds
         /\ \A p \in 1 .. NAll(d) - 1 : p + 1 \in 2 .. NAll(d) /\ HeadAt(d, p)' = HeadAt(d, p + 1)
         /\ \A p \in 1 .. NServed(d) - 1 : p + 1 \in 2 .. NServed(d) /\ LenAt(d, p)' = LenAt(d, p + 1)
<1> DEFINE u == used[d]
           v == avail[d]
           w == Tail(u)
<1>1. d # None
  BY DEF Devices, None
<1>2. /\ u \in Seq(Entries) /\ v \in Seq(HeadIds) /\ Len(u) \in Nat /\ Len(v) \in Nat
      /\ NAll(d) = Len(u) + Len(v) /\ NServed(d) = Len(u)
  BY <1>1, Lengths
<1>3. /\ Head(u) \in Entries /\ Head(u) = u[1] /\ Len(u) > 0
      /\ w \in Seq(Entries) /\ Len(w) = Len(u) - 1 /\ \A i \in 1 .. Len(u) - 1 : w[i] = u[i + 1]
  <2>1. Head(u) \in Entries /\ w \in Seq(Entries) /\ Len(w) = Len(u) - 1 /\ \A i \in 1 .. Len(w) : w[i] = u[i + 1]
    BY <1>2, HeadTailProperties
  <2>2. Len(u) > 0 /\ Head(u) = u[1]
    BY <1>2
  <2> QED BY <2>1, <2>2
<1>4. NAll(d)' = Len(w) + Len(v) /\ NServed(d)' = Len(w) + 0
  BY <1>1 DEF NAll, NServed
<1>5. \A p : /\ HeadAt(d, p) = IF p <= Len(u) THEN u[p].head ELSE v[p - Len(u)]
             /\ p <= Len(u) => LenAt(d, p) = u[p].len
  BY DEF HeadAt, LenAt
<1>6. \A p : /\ HeadAt(d, p)' = IF p <= Len(w) THEN w[p].head ELSE v[p - Len(w)]
             /\ p <= Len(w) => LenAt(d, p)' = w[p].len
  BY DEF HeadAt, LenAt
<1> HIDE DEF u, v, w
<1>7. /\ NAll(d)' = NAll(d) - 1 /\ NServed(d)' = NServed(d) - 1
      /\ NAll(d) \in Nat /\ NServed(d) \in Nat /\ NServed(d) > 0 /\ NServed(d) <= NAll(d)
  BY <1>2, <1>3, <1>4
<1>8. Head(u).head = HeadAt(d, 1) /\ HeadAt(d, 1) \in HeadIds
  <2>1. 1 <= Len(u) /\ Head(u).head \in HeadIds
    BY <1>2, <1>3 DEF Entries
  <2> QED BY <1>3, <1>5, <2>1
<1>9. ASSUME NEW p \in 1 .. NAll(d) - 1 PROVE p + 1 \in 2 .. NAll(d) /\ HeadAt(d, p)' = HeadAt(d, p + 1)
  <2>1. p + 1 \in 2 .. NAll(d)
    BY <1>7
  <2>2. CASE p <= Len(w)
    <3>1. w[p] = u[p + 1] /\ p + 1 <= Len(u)
      BY <1>2, <1>3, <2>2
    <3> QED BY <1>5, <1>6, <2>1, <2>2, <3>1
  <2>3. CASE ~(p <= Len(w))
    <3>1. ~(p + 1 <= Len(u)) /\ p - Len(w) = p + 1 - Len(u)
      BY <1>2, <1>3, <2>3
    <3> QED BY <1>5, <1>6, <2>1, <2>3, <3>1
  <2> QED BY <2>2, <2>3
<1>10. ASSUME NEW p \in 1 .. NServed(d) - 1 PROVE p + 1 \in 2 .. NServed(d) /\ LenAt(d, p)' = LenAt(d, p + 1)
  <2>1. p \in 1 .. Len(u) - 1 /\ p + 1 \in 2 .. NServed(d) /\ p <= Len(w) /\ p + 1 <= Len(u)
    BY <1>2, <1>3
  <2> QED BY <1>3, <1>5, <1>6, <2>1
<1> QED BY <1>7, <1>8, <1>9, <1>10 DEF u

-----------------------------------------------------------------------------
(* The queues stay in order. *)

\* Submit keeps the queues in order.
LEMMA BaseSubmit ==
  ASSUME BaseInv, NEW d \in Devices, NEW h \in HeadIds, NEW s \in Shapes(d), Submit(d, h, s)
  PROVE  BaseInv'
<1> DEFINE r == Request(d, h, s)
           n == NAll(d)
<1>1. /\ running = None /\ request[d][h] = NoRequest
      /\ request' = [request EXCEPT ![d][h] = r] /\ avail' = [avail EXCEPT ![d] = Append(@, h)]
      /\ made' = made + 1 /\ faults' \in {faults, faults + 1} /\ mem' = [a \in DRAM |-> mem'[a]]
      /\ UNCHANGED <<disk, used, running, staged, may>>
  BY DEF Submit
<1>2. IoTypeOK
  BY DEF BaseInv
<1>3. /\ request' = [e \in Devices |-> [g \in HeadIds |-> IF e = d /\ g = h THEN r ELSE request[e][g]]]
  BY <1>1, <1>2 DEF IoTypeOK
<1>4. avail' \in [Devices -> Seq(HeadIds)] /\ avail'[d] = Append(avail[d], h)
      /\ \A e \in Devices : e # d => avail'[e] = avail[e]
  BY <1>1, <1>2 DEF IoTypeOK
<1>5. IoTypeOK'
  <2>1. request' = [e \in Devices |-> [g \in HeadIds |-> request'[e][g]]]
    BY <1>3
  <2>2. made' \in Nat /\ faults' \in Nat
    BY <1>1, <1>2 DEF IoTypeOK
  <2>3. \A e \in Devices : Len(avail'[e]) \in Nat
    BY <1>4, LenProperties
  <2> QED BY <1>1, <1>2, <1>4, <2>1, <2>2 DEF IoTypeOK
<1>6. ASSUME NEW e \in Devices, e # d PROVE QueueInv(e)'
  <2>1. request'[e] = request[e]
    BY <1>2, <1>3, <1>6 DEF IoTypeOK
  <2> QED BY <1>1, <1>4, <1>6, <2>1, QueueFrame DEF BaseInv
<1>7. QueueInv(d)'
  <2>1. /\ NAll(d)' = n + 1 /\ n \in Nat
        /\ \A p \in 1 .. n : HeadAt(d, p)' = HeadAt(d, p)
        /\ \A p : p = n + 1 => HeadAt(d, p)' = h
    BY <1>1, <1>2, <1>4, SubmitMoves
  <2>2. \A p \in 1 .. n : ReqAt(d, p) # NoRequest /\ HeadAt(d, p) \in HeadIds
    BY QueuedSound
  <2>3. \A p \in 1 .. n : HeadAt(d, p) # h
    BY <1>1, <2>2 DEF ReqAt
  <2>4. \A p \in 1 .. n : ReqAt(d, p)' = ReqAt(d, p)
    BY <1>3, <2>1, <2>2, <2>3 DEF ReqAt
  <2>5. \A p : p = n + 1 => ReqAt(d, p)' = r
    BY <1>3, <2>1 DEF ReqAt
  <2>6. r # NoRequest
    BY RequestSound DEF Sound
  <2>7. QueueInv(d) /\ running # d
    BY <1>1 DEF BaseInv, Devices, None
  <2>8. \A g \in HeadIds : request'[d][g] # NoRequest => \E t \in Shapes(d) : request'[d][g] = Request(d, g, t)
    BY <1>3, <2>7 DEF QueueInv
  <2> HIDE DEF n, r
  <2>9. \A p \in 1 .. n + 1 : p \in 1 .. n \/ p = n + 1
    BY <2>1
  <2>10. \A p \in 1 .. n + 1 : ReqAt(d, p)' # NoRequest
    BY <2>2, <2>4, <2>5, <2>6, <2>9
  <2>11. \A p, q \in 1 .. n + 1 : HeadAt(d, p)' = HeadAt(d, q)' => p = q
    <3>1. \A p, q \in 1 .. n : HeadAt(d, p) = HeadAt(d, q) => p = q
      BY <2>7 DEF QueueInv, n
    <3> QED BY <2>1, <2>3, <2>9, <3>1
  <2> QED BY <1>1, <2>1, <2>7, <2>8, <2>10, <2>11 DEF QueueInv
<1>8. (running = None => staged = << >>)'
  BY <1>1 DEF BaseInv
<1> QED BY <1>5, <1>6, <1>7, <1>8 DEF BaseInv

\* The execution of a request keeps the queues in order and adds an entry, or
\* drops those of its batch.
LEMMA BaseExecute ==
  ASSUME BaseInv, NEW d \in Devices, running = d, Len(staged) < Len(avail[d]), NEW res, Execute(d, res),
         res.len \in Nat, res.mem = [a \in DRAM |-> res.mem[a]], res.disk = [b \in DiskBytes |-> res.disk[b]],
         faults' \in {faults, faults + 1}
  PROVE  /\ BaseInv' /\ \A e \in Devices : SameQueue(e)
         /\ \A e \in Devices : e # d => NServed(e)' = NServed(e)
         /\ res.err => NServed(d)' = Len(used[d]) /\ NServed(d)' <= NServed(d)
         /\ ~res.err => NServed(d)' = NServed(d) + 1
         /\ ~res.err => \A p : p = NServed(d) + 1 => LenAt(d, p)' = res.len
         /\ \A p \in 1 .. NServed(d) : p <= NServed(d)' => LenAt(d, p)' = LenAt(d, p)
         /\ \A e \in Devices : e # d => \A p \in 1 .. NServed(e) : LenAt(e, p)' = LenAt(e, p)
<1> DEFINE x == [head |-> avail[d][Len(staged) + 1], len |-> res.len]
           u == used[d]
           st == staged
           w == Append(st, x)
<1>1. /\ mem' = res.mem /\ disk' = res.disk /\ UNCHANGED <<avail, used, request, made, may>>
      /\ res.err => staged' = << >> /\ running' = None
      /\ ~res.err => staged' = w /\ running' = d
  BY DEF Execute, drvVars
<1>2. IoTypeOK /\ d # None
  BY DEF BaseInv, Devices, None
<1>3. /\ u \in Seq(Entries) /\ avail[d] \in Seq(HeadIds) /\ st \in Seq(Entries)
      /\ Len(u) \in Nat /\ Len(avail[d]) \in Nat /\ Len(st) \in Nat
      /\ NServed(d) = Len(u) + Len(st)
  BY <1>2, Lengths
<1>4. Len(st) + 1 \in 1 .. Len(avail[d])
  BY <1>3
<1>5. x \in Entries /\ x.head = avail[d][Len(st) + 1] /\ x.len = res.len
  <2>1. avail[d][Len(st) + 1] \in HeadIds
    BY <1>3, <1>4, ElementOfSeq
  <2>2. res.len \in Int
    OBVIOUS
  <2> QED BY <2>1, <2>2 DEF Entries
<1> HIDE DEF x
<1>6. w \in Seq(Entries) /\ Len(w) = Len(st) + 1 /\ w[Len(st) + 1] = x /\ \A i \in 1 .. Len(st) : w[i] = st[i]
  BY <1>3, <1>5, AppendProperties
<1> HIDE DEF w
<1>7. IoTypeOK'
  <2>1. staged' \in Seq(Entries)
    <3>1. << >> \in Seq(Entries)
      OBVIOUS
    <3> QED BY <1>1, <1>6, <3>1
  <2>2. running' \in Devices \cup {None}
    BY <1>1
  <2>3. faults' \in Nat
    BY <1>2 DEF IoTypeOK
  <2> QED BY <1>1, <1>2, <2>1, <2>2, <2>3 DEF IoTypeOK
<1>8. \A e \in Devices : SameQueue(e)
  BY <1>1 DEF SameQueue
<1>9. ASSUME NEW e \in Devices, e # d PROVE QueueInv(e)'
  <2>1. running' # e
    BY <1>1, <1>9 DEF Devices, None
  <2> QED BY <1>1, <2>1, QueueFrame DEF BaseInv
<1>10. QueueInv(d)'
  <2>1. QueueInv(d) /\ DOMAIN st = 1 .. Len(st)
    BY <1>3, LenProperties DEF BaseInv
  <2>2. CASE res.err
    <3>1. running' # d
      BY <1>1, <1>2, <2>2
    <3> QED BY <1>1, <2>1, <3>1, QueueFrame
  <2>3. CASE ~res.err
    <3>1. staged' = w /\ Len(w) <= Len(avail[d])
      BY <1>1, <1>3, <1>6, <2>3
    <3>2. DOMAIN w = 1 .. Len(w)
      BY <1>6, LenProperties
    <3>3. \A i \in 1 .. Len(w) : i \in 1 .. Len(st) \/ i = Len(st) + 1
      BY <1>3, <1>6
    <3>4. \A i \in 1 .. Len(st) : st[i].head = avail[d][i]
      BY <2>1 DEF QueueInv
    <3>5. \A i \in DOMAIN w : w[i].head = avail[d][i]
      BY <1>5, <1>6, <3>2, <3>3, <3>4
    <3>6. /\ \A p \in 1 .. NAll(d)' : ReqAt(d, p)' # NoRequest
          /\ \A p, q \in 1 .. NAll(d)' : HeadAt(d, p)' = HeadAt(d, q)' => p = q
      BY <1>8, <2>1, SamePositions DEF QueueInv
    <3>7. \A g \in HeadIds : request'[d][g] # NoRequest => \E t \in Shapes(d) : request'[d][g] = Request(d, g, t)
      BY <1>1, <2>1 DEF QueueInv
    <3> QED BY <1>1, <3>1, <3>5, <3>6, <3>7 DEF QueueInv
  <2> QED BY <2>2, <2>3
<1>11. (running = None => staged = << >>)'
  BY <1>1, <1>2
<1>12. BaseInv'
  BY <1>7, <1>9, <1>10, <1>11 DEF BaseInv
<1>13. ASSUME NEW e \in Devices, e # d
       PROVE  NServed(e)' = NServed(e) /\ \A p \in 1 .. NServed(e) : LenAt(e, p)' = LenAt(e, p)
  <2>1. running' # e /\ running # e /\ used'[e] = used[e]
    BY <1>1, <1>13 DEF Devices, None
  <2>2. NServed(e) = Len(used[e]) /\ Len(used[e]) \in Nat
    BY <1>2, <2>1, Lengths
  <2>3. NServed(e)' = Len(used[e]) + 0
    BY <2>1 DEF NServed
  <2>4. \A p \in 1 .. Len(used[e]) : p <= Len(used[e])
    BY <2>2
  <2> QED BY <2>1, <2>2, <2>3, <2>4 DEF LenAt
<1>14. CASE res.err
  <2>1. NServed(d)' = Len(u) + 0
    BY <1>1, <1>2, <1>14 DEF NServed
  <2>2. NServed(d)' = Len(u) /\ NServed(d)' <= NServed(d)
    BY <1>3, <2>1
  <2>3. \A p : p <= Len(u) => LenAt(d, p)' = LenAt(d, p)
    BY <1>1 DEF LenAt
  <2> QED BY <1>8, <1>12, <1>13, <1>14, <2>2, <2>3 DEF u
<1>15. CASE ~res.err
  <2>1. NServed(d)' = Len(u) + Len(w)
    BY <1>1, <1>15 DEF NServed
  <2>2. NServed(d)' = NServed(d) + 1
    <3> HIDE DEF u, st
    <3> QED BY <1>3, <1>6, <2>1
  <2>3. \A p : /\ LenAt(d, p) = IF p <= Len(u) THEN u[p].len ELSE st[p - Len(u)].len
               /\ LenAt(d, p)' = IF p <= Len(u) THEN u[p].len ELSE w[p - Len(u)].len
    BY <1>1, <1>15 DEF LenAt
  <2> HIDE DEF u, st
  <2>4. ASSUME NEW p, p = NServed(d) + 1 PROVE LenAt(d, p)' = res.len
    <3>1. ~(p <= Len(u)) /\ p - Len(u) = Len(st) + 1
      BY <1>3, <2>4
    <3> QED BY <1>5, <1>6, <2>3, <3>1
  <2>5. ASSUME NEW p \in 1 .. NServed(d) PROVE LenAt(d, p)' = LenAt(d, p)
    <3>1. CASE p <= Len(u)
      BY <2>3, <3>1
    <3>2. CASE ~(p <= Len(u))
      <4>1. p - Len(u) \in 1 .. Len(st)
        BY <1>3, <3>2
      <4> QED BY <1>6, <2>3, <3>2, <4>1
    <3> QED BY <3>1, <3>2
  <2> QED BY <1>8, <1>12, <1>13, <1>15, <2>2, <2>4, <2>5
<1> QED BY <1>14, <1>15

\* Publish keeps the queues in order and the positions.
LEMMA BasePublish ==
  ASSUME BaseInv, NEW d \in Devices, Publish(d)
  PROVE  /\ BaseInv' /\ UNCHANGED <<mem, disk, request, may>>
         /\ \A e \in Devices : /\ NAll(e)' = NAll(e) /\ NServed(e)' = NServed(e)
                               /\ \A p \in 1 .. NAll(e) : HeadAt(e, p)' = HeadAt(e, p)
                               /\ \A p \in 1 .. NServed(e) : LenAt(e, p)' = LenAt(e, p)
<1>1. /\ running = d /\ Len(staged) = Len(avail[d]) /\ running' = None /\ staged' = << >>
      /\ used' = [used EXCEPT ![d] = used[d] \o staged] /\ avail' = [avail EXCEPT ![d] = << >>]
      /\ UNCHANGED <<mem, disk, request, faults, made, may>>
  BY DEF Publish, drvVars
<1>2. IoTypeOK /\ d # None /\ QueueInv(d)
  BY DEF BaseInv, Devices, None
<1>3. /\ used[d] \in Seq(Entries) /\ staged \in Seq(Entries) /\ used[d] \o staged \in Seq(Entries)
      /\ << >> \in Seq(HeadIds) /\ << >> \in Seq(Entries)
  <2>1. used[d] \in Seq(Entries) /\ staged \in Seq(Entries)
    BY <1>2, Lengths
  <2> QED BY <2>1, ConcatProperties
<1>4. /\ used' \in [Devices -> Seq(Entries)] /\ avail' \in [Devices -> Seq(HeadIds)]
      /\ used'[d] = used[d] \o staged /\ avail'[d] = << >>
      /\ \A e \in Devices : e # d => used'[e] = used[e] /\ avail'[e] = avail[e]
  BY <1>1, <1>2, <1>3 DEF IoTypeOK
<1>5. IoTypeOK'
  BY <1>1, <1>2, <1>3, <1>4 DEF IoTypeOK
<1>6. /\ NAll(d)' = NAll(d) /\ NServed(d)' = NServed(d) /\ NServed(d) = NAll(d)
      /\ \A p \in 1 .. NAll(d) : HeadAt(d, p)' = HeadAt(d, p) /\ LenAt(d, p)' = LenAt(d, p)
  BY <1>1, <1>2, <1>4, PublishMoves
<1>7. QueueInv(d)'
  <2>1. \A p \in 1 .. NAll(d) : ReqAt(d, p)' = ReqAt(d, p)
    BY <1>1, <1>6 DEF ReqAt
  <2> QED BY <1>1, <1>2, <1>6, <2>1 DEF QueueInv
<1>8. ASSUME NEW e \in Devices, e # d
      PROVE  /\ QueueInv(e)' /\ NAll(e)' = NAll(e) /\ NServed(e)' = NServed(e)
             /\ \A p \in 1 .. NAll(e) : HeadAt(e, p)' = HeadAt(e, p)
             /\ \A p \in 1 .. NServed(e) : LenAt(e, p)' = LenAt(e, p)
  <2>1. running' # e /\ running # e /\ used'[e] = used[e] /\ avail'[e] = avail[e] /\ request'[e] = request[e]
    BY <1>1, <1>4, <1>8 DEF Devices, None
  <2>2. QueueInv(e)'
    BY <2>1, QueueFrame DEF BaseInv
  <2>3. NAll(e)' = NAll(e) /\ \A p \in 1 .. NAll(e) : HeadAt(e, p)' = HeadAt(e, p)
    BY <2>1, SamePositions DEF SameQueue
  <2>4. NServed(e) = Len(used[e]) /\ Len(used[e]) \in Nat
    BY <1>2, <2>1, Lengths
  <2>5. NServed(e)' = Len(used[e]) + 0
    BY <2>1 DEF NServed
  <2>6. \A p \in 1 .. Len(used[e]) : p <= Len(used[e])
    BY <2>4
  <2>7. \A p \in 1 .. NServed(e) : LenAt(e, p)' = LenAt(e, p)
    BY <2>1, <2>4, <2>6 DEF LenAt
  <2> QED BY <2>2, <2>3, <2>4, <2>5, <2>7
<1>9. BaseInv'
  BY <1>1, <1>5, <1>7, <1>8 DEF BaseInv
<1> QED BY <1>1, <1>6, <1>8, <1>9

\* Collect keeps the queues in order; the heads that stay are other than the
\* one collected.
LEMMA BaseCollect ==
  ASSUME BaseInv, NEW d \in Devices, Collect(d)
  PROVE  /\ BaseInv'
         /\ \A p \in 1 .. NAll(d) - 1 : ReqAt(d, p)' = ReqAt(d, p + 1)
         /\ \A p \in 2 .. NAll(d) : HeadAt(d, p) # HeadAt(d, 1)
<1> DEFINE h == Head(used[d]).head
           n == NAll(d)
<1>1. /\ running = None /\ used[d] # << >>
      /\ request' = [request EXCEPT ![d][h] = NoRequest]
      /\ used' = [used EXCEPT ![d] = Tail(used[d])]
      /\ mem' = Cleared(d, {h}) /\ may' \in {Told(request[d][h], StatusOf(request[d][h]) = S_OK), may}
      /\ UNCHANGED <<disk, avail, running, staged, faults, made>>
  BY DEF Collect
<1>2. IoTypeOK /\ d # None /\ QueueInv(d)
  BY DEF BaseInv, Devices, None
<1>3. Tail(used[d]) \in Seq(Entries)
  <2>1. used[d] \in Seq(Entries)
    BY <1>2, Lengths
  <2> QED BY <1>1, <2>1, HeadTailProperties
<1>4. /\ used' \in [Devices -> Seq(Entries)] /\ used'[d] = Tail(used[d])
      /\ \A e \in Devices : e # d => used'[e] = used[e]
  BY <1>1, <1>2, <1>3 DEF IoTypeOK
<1>5. /\ NAll(d)' = n - 1 /\ n \in Nat /\ n > 0
      /\ h = HeadAt(d, 1) /\ HeadAt(d, 1) \in HeadIds
      /\ \A p \in 1 .. n - 1 : p + 1 \in 2 .. n /\ HeadAt(d, p)' = HeadAt(d, p + 1)
  BY <1>1, <1>2, <1>4, CollectMoves
<1> HIDE DEF h, n
<1>6. request' = [e \in Devices |-> [g \in HeadIds |-> IF e = d /\ g = h THEN NoRequest ELSE request[e][g]]]
  BY <1>1, <1>2 DEF IoTypeOK
<1>7. IoTypeOK'
  <2>1. request' = [e \in Devices |-> [g \in HeadIds |-> request'[e][g]]]
    BY <1>6
  <2>2. mem' = [a \in DRAM |-> mem'[a]] /\ may' = [b \in DiskBytes |-> may'[b]]
    BY <1>1, <1>2 DEF Cleared, Told, IoTypeOK
  <2> QED BY <1>1, <1>2, <1>4, <2>1, <2>2 DEF IoTypeOK
<1>8. \A p, q \in 1 .. n : HeadAt(d, p) = HeadAt(d, q) => p = q
  BY <1>2 DEF QueueInv, n
<1>9. \A p \in 2 .. n : p \in 1 .. n /\ HeadAt(d, p) # h
  <2>1. 1 \in 1 .. n /\ \A p \in 2 .. n : p \in 1 .. n /\ p # 1
    BY <1>5
  <2> QED BY <1>5, <1>8, <2>1
<1>10. \A p \in 2 .. n : HeadAt(d, p) \in HeadIds /\ ReqAt(d, p) # NoRequest
  BY <1>9, QueuedSound DEF n
<1>11. \A p \in 1 .. n - 1 : ReqAt(d, p)' = ReqAt(d, p + 1)
  BY <1>5, <1>6, <1>9, <1>10 DEF ReqAt
<1>12. QueueInv(d)'
  <2>1. \A p \in 1 .. n - 1 : ReqAt(d, p)' # NoRequest
    BY <1>5, <1>10, <1>11
  <2>2. \A p, q \in 1 .. n - 1 : HeadAt(d, p)' = HeadAt(d, q)' => p = q
    <3> SUFFICES ASSUME NEW p \in 1 .. n - 1, NEW q \in 1 .. n - 1, HeadAt(d, p)' = HeadAt(d, q)' PROVE p = q
      OBVIOUS
    <3>1. p + 1 = q + 1
      BY <1>5, <1>8, <1>9
    <3> QED BY <3>1
  <2>3. running' # d
    BY <1>1, <1>2
  <2>4. \A g \in HeadIds : request'[d][g] # NoRequest => \E t \in Shapes(d) : request'[d][g] = Request(d, g, t)
    BY <1>2, <1>6 DEF QueueInv
  <2> QED BY <1>5, <2>1, <2>2, <2>3, <2>4 DEF QueueInv
<1>13. ASSUME NEW e \in Devices, e # d PROVE QueueInv(e)'
  <2>1. request'[e] = request[e]
    BY <1>2, <1>6, <1>13 DEF IoTypeOK
  <2>2. running' # e
    BY <1>1 DEF Devices, None
  <2> QED BY <1>1, <1>4, <1>13, <2>1, <2>2, QueueFrame DEF BaseInv
<1>14. BaseInv'
  BY <1>1, <1>7, <1>12, <1>13 DEF BaseInv
<1> QED BY <1>5, <1>9, <1>11, <1>14 DEF n

\* Reset empties the queue of its device.
LEMMA BaseReset ==
  ASSUME BaseInv, NEW d \in Devices, Reset(d)
  PROVE  BaseInv'
<1>1. /\ running = None /\ used' = [used EXCEPT ![d] = << >>] /\ avail' = [avail EXCEPT ![d] = << >>]
      /\ request' = [request EXCEPT ![d] = [h \in HeadIds |-> NoRequest]]
      /\ may' = [b \in DiskBytes |-> may'[b]] /\ mem' = Cleared(d, HeadIds)
      /\ UNCHANGED <<disk, running, staged, faults, made>>
  BY DEF Reset
<1>2. IoTypeOK /\ d # None
  BY DEF BaseInv, Devices, None
<1>3. << >> \in Seq(Entries) /\ << >> \in Seq(HeadIds)
  OBVIOUS
<1>4. /\ used' \in [Devices -> Seq(Entries)] /\ avail' \in [Devices -> Seq(HeadIds)]
      /\ used'[d] = << >> /\ avail'[d] = << >>
      /\ \A e \in Devices : e # d => used'[e] = used[e] /\ avail'[e] = avail[e]
  BY <1>1, <1>2, <1>3 DEF IoTypeOK
<1>5. request' = [e \in Devices |-> [g \in HeadIds |-> IF e = d THEN NoRequest ELSE request[e][g]]]
  BY <1>1, <1>2 DEF IoTypeOK
<1>6. IoTypeOK'
  <2>1. request' = [e \in Devices |-> [g \in HeadIds |-> request'[e][g]]]
    BY <1>5
  <2>2. mem' = [a \in DRAM |-> mem'[a]]
    BY <1>1 DEF Cleared
  <2> QED BY <1>1, <1>2, <1>4, <2>1, <2>2 DEF IoTypeOK
<1>7. QueueInv(d)'
  BY <1>1, <1>2, <1>4, <1>5, NoneLeft
<1>8. ASSUME NEW e \in Devices, e # d PROVE QueueInv(e)'
  <2>1. request'[e] = request[e]
    BY <1>2, <1>5, <1>8 DEF IoTypeOK
  <2>2. running' # e
    BY <1>1 DEF Devices, None
  <2> QED BY <1>1, <1>4, <1>8, <2>1, <2>2, QueueFrame DEF BaseInv
<1> QED BY <1>1, <1>6, <1>7, <1>8 DEF BaseInv

\* Steps that leave the requests alone.
LEMMA BaseOther ==
  ASSUME BaseInv, UNCHANGED <<mem, disk, avail, used, request, faults, made, may>>,
         \/ UNCHANGED <<running, staged>>
         \/ running = None /\ running' \in Devices \cup {None} /\ staged' = << >>
  PROVE  /\ BaseInv' /\ \A e \in Devices : SameQueue(e) /\ NServed(e)' = NServed(e)
         /\ \A e \in Devices : \A p \in 1 .. NServed(e) : LenAt(e, p)' = LenAt(e, p)
<1>1. IoTypeOK
  BY DEF BaseInv
<1>2. << >> \in Seq(Entries) /\ Len(<< >>) = 0
  OBVIOUS
<1>3. IoTypeOK'
  BY <1>1, <1>2 DEF IoTypeOK
<1>4. \A e \in Devices : SameQueue(e)
  BY DEF SameQueue
<1>5. ASSUME NEW e \in Devices PROVE QueueInv(e)'
  <2>1. CASE UNCHANGED <<running, staged>>
    BY <2>1, QueueFrame DEF BaseInv
  <2>2. CASE running = None /\ staged' = << >>
    <3>1. DOMAIN << >> = {} /\ Len(<< >>) = 0
      OBVIOUS
    <3>2. Len(avail[e]) \in Nat
      BY <1>1, Lengths
    <3>3. Len(staged') <= Len(avail'[e]) /\ DOMAIN staged' = {}
      BY <2>2, <3>1, <3>2
    <3>4. NAll(e)' = NAll(e) /\ \A p : HeadAt(e, p)' = HeadAt(e, p) /\ ReqAt(e, p)' = ReqAt(e, p)
      BY <1>4, SamePositions
    <3> QED BY <3>3, <3>4 DEF QueueInv, BaseInv
  <2> QED BY <2>1, <2>2
<1>6. (running = None => staged = << >>)'
  BY DEF BaseInv
<1>7. ASSUME NEW e \in Devices
      PROVE  NServed(e)' = NServed(e) /\ \A p \in 1 .. NServed(e) : LenAt(e, p)' = LenAt(e, p)
  <2>1. CASE UNCHANGED <<running, staged>>
    BY <2>1 DEF NServed, LenAt
  <2>2. CASE running = None /\ staged' = << >>
    <3>1. running # e
      BY <2>2 DEF Devices, None
    <3>2. NServed(e) = Len(used[e]) /\ Len(used[e]) \in Nat
      BY <1>1, <3>1, Lengths
    <3>3. NServed(e)' = Len(used[e]) + IF running' = e THEN Len(<< >>) ELSE 0
      BY <2>2 DEF NServed
    <3>4. \A p \in 1 .. Len(used[e]) : p <= Len(used[e])
      BY <3>2
    <3>5. NServed(e)' = NServed(e)
      BY <1>2, <3>2, <3>3
    <3> QED BY <3>2, <3>4, <3>5 DEF LenAt
  <2> QED BY <2>1, <2>2
<1> QED BY <1>3, <1>4, <1>5, <1>6, <1>7 DEF BaseInv

\* What the two devices do, for the request that they have come to.
LEMMA ServeBlkIs ==
  ASSUME BaseInv, NEW fault \in {NoFault, 0, 1}, ServeBlk(fault)
  PROVE  LET r == Current("blk")
             res == BlkRequest(mem, disk, r, fault)
         IN  /\ running = "blk" /\ Len(staged) < Len(avail["blk"]) /\ Execute("blk", res)
             /\ Executed(HeadAt("blk", NServed("blk") + 1), r, fault, res)
             /\ faults' \in {faults, faults + 1} /\ (faults' = faults => fault = NoFault)
<1>1. "blk" \in Devices /\ Typed
  BY DEF Devices, BaseInv, IoTypeOK, Typed
<1>2. /\ running = "blk" /\ Len(staged) < Len(avail["blk"])
      /\ Execute("blk", BlkRequest(mem, disk, Current("blk"), fault))
      /\ faults' = IF fault = NoFault THEN faults ELSE faults + 1
  BY DEF ServeBlk
<1>3. /\ HeadAt("blk", NServed("blk") + 1) \in HeadIds
      /\ Sound("blk", HeadAt("blk", NServed("blk") + 1), Current("blk"))
  BY <1>1, <1>2, CurrentIs
<1>4. faults \in Nat
  BY DEF BaseInv, IoTypeOK
<1>5. faults + 1 # faults
  BY <1>4
<1> QED BY <1>1, <1>2, <1>3, <1>5, BlkRequestIs

\* A step of the RNG executes the request at its first position that is not
\* served.
LEMMA ServeRngIs ==
  ASSUME BaseInv, ServeRng
  PROVE  LET r == Current("rng")
             res == RngRequest(mem, disk, r)
         IN  /\ running = "rng" /\ Len(staged) < Len(avail["rng"]) /\ Execute("rng", res)
             /\ RngExecuted(HeadAt("rng", NServed("rng") + 1), r, res)
             /\ faults' = faults
<1>1. "rng" \in Devices /\ Typed
  BY DEF Devices, BaseInv, IoTypeOK, Typed
<1>2. /\ running = "rng" /\ Len(staged) < Len(avail["rng"])
      /\ Execute("rng", RngRequest(mem, disk, Current("rng"))) /\ faults' = faults
  BY DEF ServeRng
<1>3. /\ HeadAt("rng", NServed("rng") + 1) \in HeadIds
      /\ Sound("rng", HeadAt("rng", NServed("rng") + 1), Current("rng"))
  BY <1>1, <1>2, CurrentIs
<1> QED BY <1>1, <1>2, <1>3, RngRequestIs

\* The queues are in order at first.
LEMMA BaseInit == Init => BaseInv
<1> SUFFICES ASSUME Init PROVE BaseInv
  OBVIOUS
<1>1. /\ mem = [a \in DRAM |-> Blank] /\ disk = [b \in DiskBytes |-> 0]
      /\ avail = [d \in Devices |-> << >>] /\ used = [d \in Devices |-> << >>]
      /\ request = [d \in Devices |-> [h \in HeadIds |-> NoRequest]]
      /\ running = None /\ staged = << >> /\ made = 0 /\ faults = 0
      /\ may = [b \in DiskBytes |-> {0}]
  BY DEF Init
<1>2. << >> \in Seq(Entries) /\ << >> \in Seq(HeadIds) /\ Len(<< >>) + Len(<< >>) = 0
  OBVIOUS
<1>3. IoTypeOK
  BY <1>1, <1>2 DEF IoTypeOK
<1>4. ASSUME NEW d \in Devices PROVE QueueInv(d)
  <2>1. NAll(d) = 0
    BY <1>1, <1>2 DEF NAll
  <2>2. 1 .. NAll(d) = {} /\ running # d
    BY <1>1, <2>1 DEF Devices, None
  <2> QED BY <1>1, <2>2 DEF QueueInv
<1> QED BY <1>1, <1>3, <1>4 DEF BaseInv

\* The steps of the specification, with the device of each.
LEMMA Steps ==
  ASSUME Next
  PROVE  \/ \E d \in Devices : Publish(d) \/ Collect(d) \/ Reset(d)
         \/ \E d \in Devices : WriteQueueNum(d) \/ WriteQueuePfn(d) \/ Notify(d) \/ TakeIrq(d) \/ Leave(d)
         \/ \E d \in Devices : \E h \in HeadIds : \E s \in Shapes(d) : Submit(d, h, s)
         \/ \E fault \in {NoFault, 0, 1} : ServeBlk(fault)
         \/ ServeRng
BY DEF Next, Shapes, Devices

Idle ==
    /\ UNCHANGED <<mem, disk, avail, used, request, faults, made, may>>
    /\ \/ UNCHANGED <<running, staged>>
       \/ running = None /\ running' \in Devices \cup {None} /\ staged' = << >>

\* The steps that leave memory and queues alone.
LEMMA IdleSteps ==
  ASSUME NEW d \in Devices, WriteQueueNum(d) \/ WriteQueuePfn(d) \/ Notify(d) \/ TakeIrq(d) \/ Leave(d)
  PROVE  Idle
<1>1. CASE WriteQueueNum(d) \/ WriteQueuePfn(d)
  BY <1>1 DEF WriteQueueNum, WriteQueuePfn, Idle, drvVars
<1>2. CASE Notify(d)
  BY <1>2 DEF Notify, Idle, drvVars
<1>3. CASE TakeIrq(d) \/ Leave(d)
  BY <1>3 DEF TakeIrq, Leave, Idle
<1> QED BY <1>1, <1>2, <1>3

\* BaseInv is inductive.
LEMMA BaseStep == BaseInv /\ [Next]_vars => BaseInv'
<1> SUFFICES ASSUME BaseInv, [Next]_vars PROVE BaseInv'
  OBVIOUS
<1>1. CASE UNCHANGED vars
  BY <1>1, BaseOther DEF vars, drvVars
<1>2. ASSUME NEW d \in Devices, Publish(d) \/ Collect(d) \/ Reset(d) PROVE BaseInv'
  BY <1>2, BasePublish, BaseCollect, BaseReset
<1>3. ASSUME NEW d \in Devices, WriteQueueNum(d) \/ WriteQueuePfn(d) \/ Notify(d) \/ TakeIrq(d) \/ Leave(d)
      PROVE  BaseInv'
  BY <1>3, IdleSteps, BaseOther DEF Idle
<1>4. ASSUME NEW d \in Devices, NEW h \in HeadIds, NEW s \in Shapes(d), Submit(d, h, s) PROVE BaseInv'
  BY <1>4, BaseSubmit
<1>5. ASSUME NEW fault \in {NoFault, 0, 1}, ServeBlk(fault) PROVE BaseInv'
  <2> DEFINE r == Current("blk")
             res == BlkRequest(mem, disk, r, fault)
  <2>1. /\ running = "blk" /\ Len(staged) < Len(avail["blk"]) /\ Execute("blk", res)
        /\ Executed(HeadAt("blk", NServed("blk") + 1), r, fault, res) /\ faults' \in {faults, faults + 1}
    BY <1>5, ServeBlkIs
  <2> HIDE DEF res
  <2>2. /\ res.len \in Nat /\ res.mem = [a \in DRAM |-> res.mem[a]]
        /\ res.disk = [b \in DiskBytes |-> res.disk[b]]
    BY <2>1 DEF Executed
  <2> QED BY <2>1, <2>2, BaseExecute DEF Devices
<1>6. ASSUME ServeRng PROVE BaseInv'
  <2> DEFINE r == Current("rng")
             res == RngRequest(mem, disk, r)
  <2>1. /\ running = "rng" /\ Len(staged) < Len(avail["rng"]) /\ Execute("rng", res)
        /\ RngExecuted(HeadAt("rng", NServed("rng") + 1), r, res) /\ faults' = faults
    BY <1>6, ServeRngIs
  <2> HIDE DEF res
  <2>2. /\ res.len \in Nat /\ res.mem = [a \in DRAM |-> res.mem[a]]
        /\ res.disk = [b \in DiskBytes |-> res.disk[b]]
    BY <2>1 DEF RngExecuted, BaseInv, IoTypeOK
  <2> QED BY <2>1, <2>2, BaseExecute DEF Devices
<1> QED BY <1>1, <1>2, <1>3, <1>4, <1>5, <1>6, Steps

\* The queues stay in order: every request is one that its driver made, at one
\* place of the queue, and process_queue executes them in turn.
THEOREM BaseInvariant == Spec => []BaseInv
BY BaseInit, BaseStep, PTL DEF Spec

\* Only the request that is executed changes memory while a device runs, and
\* only in its device-writable buffers.
THEOREM KeepsOut == Spec => DeviceKeepsOut
<1> DEFINE A == running # None /\ mem' # mem =>
                   {a \in DRAM : mem'[a] # mem[a]} \subseteq Writable(Current(running))
<1>1. ASSUME BaseInv, Next, running # None, mem' # mem
      PROVE  {a \in DRAM : mem'[a] # mem[a]} \subseteq Writable(Current(running))
  <2>1. CASE \E fault \in {NoFault, 0, 1} : ServeBlk(fault)
    <3>1. PICK fault \in {NoFault, 0, 1} : ServeBlk(fault)
      BY <2>1
    <3> DEFINE h == HeadAt("blk", NServed("blk") + 1)
               r == Current("blk")
               res == BlkRequest(mem, disk, r, fault)
    <3>2. /\ running = "blk" /\ Len(staged) < Len(avail["blk"]) /\ Execute("blk", res)
          /\ Executed(h, r, fault, res)
      BY <1>1, <3>1, ServeBlkIs
    <3>3. h \in HeadIds /\ Sound("blk", h, r)
      BY <1>1, <3>2, CurrentIs DEF Devices
    <3> HIDE DEF h, res, r
    <3>4. mem' = res.mem /\ \A a \in DRAM : res.mem[a] # mem[a] => Len(r.chain) > 1 /\ a \in Touched("blk", r)
      BY <3>2 DEF Execute, Executed
    <3>5. Len(r.chain) > 1 => Touched("blk", r) \subseteq Writable(r)
      BY <3>3, TouchedWritable DEF Devices
    <3> QED BY <3>2, <3>4, <3>5 DEF r
  <2>2. CASE ServeRng
    <3> DEFINE h == HeadAt("rng", NServed("rng") + 1)
               r == Current("rng")
               res == RngRequest(mem, disk, r)
    <3>1. /\ running = "rng" /\ Len(staged) < Len(avail["rng"]) /\ Execute("rng", res)
          /\ RngExecuted(h, r, res)
      BY <1>1, <2>2, ServeRngIs
    <3>2. h \in HeadIds /\ Sound("rng", h, r)
      BY <1>1, <3>1, CurrentIs DEF Devices
    <3> HIDE DEF h, res, r
    <3>3. mem' = res.mem /\ \A a \in DRAM : res.mem[a] # mem[a] => a \in Touched("rng", r)
      BY <3>1 DEF Execute, RngExecuted
    <3>4. Touched("rng", r) \subseteq Writable(r)
      BY <3>2, TouchedWritable DEF Devices
    <3> QED BY <3>1, <3>3, <3>4 DEF r
  <2>3. ASSUME NEW d \in Devices, Publish(d) \/ Collect(d) \/ Reset(d) PROVE FALSE
    BY <1>1, <2>3 DEF Publish, Collect, Reset
  <2>4. ASSUME NEW d \in Devices, WriteQueueNum(d) \/ WriteQueuePfn(d) \/ Notify(d) \/ TakeIrq(d) \/ Leave(d)
        PROVE  FALSE
    BY <1>1, <2>4, IdleSteps DEF Idle
  <2>5. ASSUME NEW d \in Devices, NEW h \in HeadIds, NEW s \in Shapes(d), Submit(d, h, s) PROVE FALSE
    BY <1>1, <2>5 DEF Submit
  <2> QED BY <1>1, <2>1, <2>2, <2>3, <2>4, <2>5, Steps
<1>2. BaseInv /\ [Next]_vars => [A]_vars
  <2> SUFFICES ASSUME BaseInv, Next PROVE A
    OBVIOUS
  <2> QED BY <1>1
<1> QED BY <1>2, BaseInvariant, PTL DEF Spec, DeviceKeepsOut

\* Unless the host's file operation fails, a step leaves the disk as it was or
\* has written all of one request, also when a buffer is outside DRAM.
THEOREM Whole == Spec => WritesWhole
<1> DEFINE A == disk' # disk /\ faults' = faults =>
                   LET r == Current("blk")
                   IN  disk' = [b \in DiskBytes |-> IF b \in Covered(r) THEN DataFor(r, b) ELSE disk[b]]
<1>1. ASSUME BaseInv, Next, disk' # disk, faults' = faults
      PROVE  disk' = WholeWrite(Current("blk"))
  <2>1. CASE \E fault \in {NoFault, 0, 1} : ServeBlk(fault)
    <3>1. PICK fault \in {NoFault, 0, 1} : ServeBlk(fault)
      BY <2>1
    <3> DEFINE h == HeadAt("blk", NServed("blk") + 1)
               r == Current("blk")
               res == BlkRequest(mem, disk, r, fault)
    <3>2. Execute("blk", res) /\ Executed(h, r, fault, res) /\ fault = NoFault
      BY <1>1, <3>1, ServeBlkIs
    <3> HIDE DEF h, res, r
    <3>3. disk' = res.disk /\ res.disk \in {disk, WholeWrite(r)}
      BY <3>2 DEF Execute, Executed
    <3> QED BY <1>1, <3>3 DEF r
  <2>2. CASE ServeRng
    <3> DEFINE h == HeadAt("rng", NServed("rng") + 1)
               r == Current("rng")
               res == RngRequest(mem, disk, r)
    <3>1. Execute("rng", res) /\ RngExecuted(h, r, res)
      BY <1>1, <2>2, ServeRngIs
    <3> HIDE DEF h, res, r
    <3> QED BY <1>1, <3>1 DEF Execute, RngExecuted
  <2>3. ASSUME NEW d \in Devices, Publish(d) \/ Collect(d) \/ Reset(d) PROVE FALSE
    BY <1>1, <2>3 DEF Publish, Collect, Reset
  <2>4. ASSUME NEW d \in Devices, WriteQueueNum(d) \/ WriteQueuePfn(d) \/ Notify(d) \/ TakeIrq(d) \/ Leave(d)
        PROVE  FALSE
    BY <1>1, <2>4, IdleSteps DEF Idle
  <2>5. ASSUME NEW d \in Devices, NEW h \in HeadIds, NEW s \in Shapes(d), Submit(d, h, s) PROVE FALSE
    BY <1>1, <2>5 DEF Submit
  <2> QED BY <1>1, <2>1, <2>2, <2>3, <2>4, <2>5, Steps
<1>2. BaseInv /\ [Next]_vars => [A]_vars
  <2> SUFFICES ASSUME BaseInv, Next PROVE A
    OBVIOUS
  <2> QED BY <1>1 DEF WholeWrite
<1> QED BY <1>2, BaseInvariant, PTL DEF Spec, WritesWhole

-----------------------------------------------------------------------------
(* What a position of the queue keeps while others change. *)

\* A request keeps to the region of its head, or is outside.
LEMMA ChainInside ==
  ASSUME NEW d \in Devices, NEW h \in HeadIds, NEW r, Sound(d, h, r)
  PROVE  /\ \A i \in 1 .. Len(r.chain) : \A a \in Span(r.chain[i]) :
               /\ a \in Region(d, h) \/ a >= Outside - 1
               /\ Good(d, h, r) /\ a \in DRAM => a \in Region(d, h)
         /\ \A a \in Writable(r) : Good(d, h, r) /\ a \in DRAM => a \in Region(d, h)
<1> DEFINE c == r.chain
           n == Len(c)
           In(a) == a \in Region(d, h) \/ a >= Outside - 1
<1>1. /\ c \in Seq(Descs) /\ n > 0 /\ DOMAIN c = 1 .. n /\ n \in Nat
      /\ \A i \in DataDescs(d, r) : \A a \in Span(c[i]) : a \in Inner(d, h) \/ a >= Outside - 1
  <2>1. /\ c \in Seq(Descs) /\ n > 0
        /\ \A i \in DataDescs(d, r) : \A a \in Span(c[i]) : a \in Inner(d, h) \/ a >= Outside - 1
    BY DEF Sound, ChainOk
  <2> QED BY <2>1, LenProperties
<1>2. /\ \A a \in Inner(d, h) : a \in Region(d, h)
      /\ Slot(d, h) \in Region(d, h) /\ Slot(d, h) + 1 + BufLen \in Region(d, h)
  BY RegionInside DEF Inner
<1>3. Outside \notin DRAM /\ Outside >= Outside - 1
  BY Constants
<1>4. \A i \in DataDescs(d, r) : \A a \in Span(c[i]) : In(a) /\ (Good(d, h, r) => a \in Region(d, h))
  BY <1>1, <1>2 DEF Good
<1> HIDE DEF c, n
<1>5. ASSUME NEW i \in 1 .. n
      PROVE  \A a \in Span(c[i]) : In(a) /\ (Good(d, h, r) /\ a \in DRAM => a \in Region(d, h))
  <2>1. CASE i \in DataDescs(d, r)
    BY <1>4, <2>1
  <2>2. CASE i \notin DataDescs(d, r)
    <3>1. d = "blk"
      BY <1>1, <2>2 DEF DataDescs, Devices, c, n
    <3>2. i = 1 \/ (i = n /\ n > 1)
      <4>1. DataDescs(d, r) = 2 .. n - 1
        BY <3>1 DEF DataDescs, c, n
      <4> QED BY <1>1, <2>2, <4>1
    <3>3. BlkChainOk(h, r)
      BY <3>1 DEF Sound
    <3>4. /\ Span(c[1]) \in {{Slot(d, h)}, {Outside}}
          /\ n > 1 => Span(c[n]) = {c[n].addr} /\ c[n].addr \in {Slot(d, h) + 1 + BufLen, Outside}
      BY <3>1, <3>3 DEF BlkChainOk, c, n
    <3>5. \A a \in Span(c[i]) : a \in {Slot(d, h), Slot(d, h) + 1 + BufLen, Outside}
      BY <3>2, <3>4
    <3> QED BY <1>2, <1>3, <3>5
  <2> QED BY <2>1, <2>2
<1>6. \A a \in Writable(r) : \E i \in 1 .. n : a \in Span(c[i])
  BY <1>1, WritableIs DEF c, n
<1> QED BY <1>5, <1>6 DEF c, n

\* Position q of a queue is position p after the step, with its memory.
Kept(d, p, q) ==
    /\ HeadAt(d, p)' = HeadAt(d, q) /\ ReqAt(d, p)' = ReqAt(d, q)
    /\ \A a \in Region(d, HeadAt(d, q)) : mem'[a] = mem[a]

\* So do the data of a write.
WriteKept(p, q) ==
    \A b : Writes(q, b) => /\ Writes(p, b)'
                           /\ DataIn(mem, ReqAt("blk", p), b)' = DataIn(mem, ReqAt("blk", q), b)

\* The invariants of a request depend on the region of its head only.
LEMMA SameData ==
  ASSUME NEW d \in Devices, NEW h \in HeadIds, NEW r, Sound(d, h, r), NEW m, NEW n, NEW len,
         \A a \in Region(d, h) : n[a] = m[a]
  PROVE  /\ DataOk(d, h, r, m) => DataOk(d, h, r, n)
         /\ ServedOk(d, h, r, m, len) => ServedOk(d, h, r, n, len)
<1>1. Good(d, h, r) => NonBlank(n, r) = NonBlank(m, r)
  BY ChainInside DEF NonBlank
<1>2. d = "blk" /\ Good(d, h, r) => BufBytes(r) \subseteq Region(d, h)
  BY DEF Good, BufBytes, DataDescs
<1>3. ASSUME DataOk(d, h, r, m) PROVE DataOk(d, h, r, n)
  BY <1>1, <1>2, <1>3 DEF DataOk
<1>4. ASSUME ServedOk(d, h, r, m, len) PROVE ServedOk(d, h, r, n, len)
  <2>1. CASE d = "blk"
    BY <1>1, <1>4, <2>1 DEF ServedOk
  <2>2. CASE d # "blk"
    BY <1>1, <1>4, <2>2 DEF ServedOk
  <2> QED BY <2>1, <2>2
<1> QED BY <1>3, <1>4

\* The data of a write are in its buffers.
LEMMA DataWhere ==
  ASSUME NEW h \in HeadIds, NEW r, Sound("blk", h, r), NEW b \in Covered(r)
  PROVE  \E a \in BufBytes(r) : /\ Good("blk", h, r) => a \in Inner("blk", h) /\ a \in Region("blk", h) /\ a \in DRAM
                                /\ \A m : DataIn(m, r, b) = IF a \in DRAM THEN m[a] ELSE Blank
<1> DEFINE A == Addrs(Buffers(r))
           n == Len(A)
           x == r.sector * SECTOR_SIZE
<1>1. /\ n \in Nat /\ DOMAIN A = 1 .. n /\ \A i \in 1 .. n : A[i] \in BufBytes(r)
      /\ Good("blk", h, r) => BufBytes(r) \subseteq Inner("blk", h)
  BY BuffersIs
<1>2. \A a \in Inner("blk", h) : a \in Region("blk", h) /\ a \in DRAM
  BY RegionInside DEF Inner, Devices
<1>3. PICK i \in DOMAIN A : b = x + i - 1
  BY DEF Covered
<1>4. x \in Int
  <2>1. r.sector \in 0 .. U64 - 1
    BY DEF Sound, ChainOk
  <2> QED BY <2>1, DataAssumption
<1>5. \A m : DataIn(m, r, b) = LET a == A[b - x + 1] IN IF a \in DRAM THEN m[a] ELSE Blank
  BY DEF DataIn
<1> HIDE DEF A, n, x
<1>6. b - x + 1 = i
  BY <1>1, <1>3, <1>4
<1>7. \A m : DataIn(m, r, b) = IF A[i] \in DRAM THEN m[A[i]] ELSE Blank
  BY <1>5, <1>6
<1> QED BY <1>1, <1>2, <1>3, <1>7

\* A request that is kept keeps the invariants of its data.
LEMMA KeptIs ==
  ASSUME BaseInv, NEW d \in Devices, NEW p, NEW q \in 1 .. NAll(d), Kept(d, p, q)
  PROVE  /\ DataOk(d, HeadAt(d, q), ReqAt(d, q), mem) => DataOk(d, HeadAt(d, p), ReqAt(d, p), mem)'
         /\ \A len : ServedOk(d, HeadAt(d, q), ReqAt(d, q), mem, len) =>
                        ServedOk(d, HeadAt(d, p)', ReqAt(d, p)', mem', len)
<1> DEFINE h == HeadAt(d, q)
           r == ReqAt(d, q)
<1>1. h \in HeadIds /\ Sound(d, h, r)
  BY QueuedSound
<1>2. HeadAt(d, p)' = h /\ ReqAt(d, p)' = r /\ \A a \in Region(d, h) : mem'[a] = mem[a]
  BY DEF Kept
<1> HIDE DEF h, r
<1>3. DataOk(d, h, r, mem) => DataOk(d, h, r, mem')
  BY <1>1, <1>2, SameData
<1>4. \A len : ServedOk(d, h, r, mem, len) => ServedOk(d, h, r, mem', len)
  BY <1>1, <1>2, SameData
<1>5. DataOk(d, HeadAt(d, p), ReqAt(d, p), mem)' = DataOk(d, h, r, mem')
  BY <1>2
<1> QED BY <1>2, <1>3, <1>4, <1>5 DEF h, r

\* A request that is kept covers the same bytes with the same data.
LEMMA WriteIsKept ==
  ASSUME BaseInv, NEW p, NEW q \in 1 .. NAll("blk"), Kept("blk", p, q)
  PROVE  WriteKept(p, q)
<1> DEFINE h == HeadAt("blk", q)
           r == ReqAt("blk", q)
<1>1. h \in HeadIds /\ Sound("blk", h, r)
  BY QueuedSound DEF Devices
<1>2. HeadAt("blk", p)' = h /\ ReqAt("blk", p)' = r /\ \A a \in Region("blk", h) : mem'[a] = mem[a]
  BY DEF Kept
<1>3. \A b : /\ Writes(q, b) <=> Good("blk", h, r) /\ b \in Covered(r)
             /\ Writes(p, b)' <=> Good("blk", h, r) /\ b \in Covered(r)
  BY <1>2 DEF Writes, GoodAt
<1>4. \A b : DataIn(mem, ReqAt("blk", p), b)' = DataIn(mem', r, b)
  BY <1>2
<1> HIDE DEF h, r
<1>5. ASSUME NEW b, Good("blk", h, r), b \in Covered(r) PROVE DataIn(mem', r, b) = DataIn(mem, r, b)
  <2>1. PICK a \in BufBytes(r) : /\ a \in Region("blk", h)
                                 /\ \A m : DataIn(m, r, b) = IF a \in DRAM THEN m[a] ELSE Blank
    BY <1>1, <1>5, DataWhere
  <2> QED BY <1>2, <2>1
<1> QED BY <1>3, <1>4, <1>5 DEF WriteKept, r

\* Writes move to the front of the queue when requests before them leave it.
LEMMA FromMoves ==
  ASSUME IoTypeOK, IoTypeOK', NEW k \in {0, 1}, NAll("blk") - k <= NAll("blk")',
         \A p \in 1 .. NAll("blk") - k : WriteKept(p, p + k),
         NEW p \in Nat \ {0}, NEW b
  PROVE  From(b, p + k) \subseteq From(b, p)'
<1> DEFINE n == NAll("blk")
           new == NAll("blk")'
<1>1. n \in Nat
  BY Lengths DEF Devices
<1>2. new \in Nat
  <2>1. /\ used'["blk"] \in Seq(Entries) /\ avail'["blk"] \in Seq(HeadIds)
    BY DEF IoTypeOK, Devices
  <2>2. Len(used'["blk"]) \in Nat /\ Len(avail'["blk"]) \in Nat
    BY <2>1, LenProperties
  <2> DEFINE x == Len(used'["blk"])
             y == Len(avail'["blk"])
  <2>3. new = x + y /\ x \in Nat /\ y \in Nat
    BY <2>2 DEF NAll
  <2> HIDE DEF x, y, new
  <2> QED BY <2>3
<1> SUFFICES ASSUME NEW q \in p + k .. n, Writes(q, b)
             PROVE  DataIn(mem, ReqAt("blk", q), b) \in From(b, p)'
  BY DEF From
<1>3. \E j \in Int : q = j + k
  BY <1>1
<1>4. PICK j \in Int : q = j + k
  BY <1>3
<1>5. j \in 1 .. n - k /\ j \in p .. new
  BY <1>1, <1>2, <1>4
<1>6. WriteKept(j, q)
  BY <1>4, <1>5
<1>7. Writes(j, b)' /\ DataIn(mem, ReqAt("blk", j), b)' = DataIn(mem, ReqAt("blk", q), b)
  BY <1>6 DEF WriteKept
<1>8. From(b, p)' = {DataIn(mem, ReqAt("blk", i), b)' : i \in {k1 \in p .. new : Writes(k1, b)'}}
  BY DEF From
<1> QED BY <1>5, <1>7, <1>8

\* The served positions come first.
LEMMA ServedFirst ==
  ASSUME BaseInv, NEW d \in Devices
  PROVE  NServed(d) \in Nat /\ NAll(d) \in Nat /\ NServed(d) <= NAll(d)
<1> DEFINE x == Len(used[d])
           y == Len(avail[d])
           z == Len(staged)
<1>1. /\ x \in Nat /\ y \in Nat /\ z \in Nat /\ NAll(d) = x + y
      /\ running = d => NServed(d) = x + z
      /\ running # d => NServed(d) = x
  BY Lengths DEF BaseInv
<1>2. running = d => z <= y
  BY DEF BaseInv, QueueInv
<1> HIDE DEF x, y, z
<1> QED BY <1>1, <1>2

\* Requests that move up by k and are kept keep the invariants of their data.
LEMMA DataMoves ==
  ASSUME BaseInv, NEW d \in Devices, DataInv(d), ServedInv(d), NEW k \in {0, 1},
         \A p \in 1 .. NAll(d) - k : Kept(d, p, p + k),
         \A p \in 1 .. NServed(d) - k : LenAt(d, p)' = LenAt(d, p + k)
  PROVE  /\ \A p \in 1 .. NAll(d) - k : DataOk(d, HeadAt(d, p), ReqAt(d, p), mem)'
         /\ \A p \in 1 .. NServed(d) - k : ServedOk(d, HeadAt(d, p), ReqAt(d, p), mem, LenAt(d, p))'
<1>1. NServed(d) \in Nat /\ NAll(d) \in Nat /\ NServed(d) <= NAll(d)
  BY ServedFirst
<1>2. ASSUME NEW p \in 1 .. NAll(d) - k PROVE DataOk(d, HeadAt(d, p), ReqAt(d, p), mem)'
  <2>1. PICK q \in 1 .. NAll(d) : q = p + k
    BY <1>1
  <2>2. Kept(d, p, q) /\ DataOk(d, HeadAt(d, q), ReqAt(d, q), mem)
    BY <2>1 DEF DataInv
  <2> QED BY <2>2, KeptIs
<1>3. ASSUME NEW p \in 1 .. NServed(d) - k PROVE ServedOk(d, HeadAt(d, p), ReqAt(d, p), mem, LenAt(d, p))'
  <2>1. PICK q \in 1 .. NServed(d) : q = p + k
    BY <1>1
  <2>2. q \in 1 .. NAll(d) /\ p \in 1 .. NAll(d) - k
    BY <1>1
  <2>3. /\ Kept(d, p, q) /\ LenAt(d, p)' = LenAt(d, q)
        /\ ServedOk(d, HeadAt(d, q), ReqAt(d, q), mem, LenAt(d, q))
    BY <2>1, <2>2 DEF ServedInv
  <2>4. ServedOk(d, HeadAt(d, p)', ReqAt(d, p)', mem', LenAt(d, q))
    BY <2>2, <2>3, KeptIs
  <2> QED BY <2>3, <2>4
<1> QED BY <1>2, <1>3

\* A request that is kept keeps its status and what it has read.
LEMMA AckedKept ==
  ASSUME BaseInv, ServedInv("blk"), NEW p, NEW q \in 1 .. NServed("blk"), Kept("blk", p, q)
  PROVE  /\ Acked(p)' <=> Acked(q)
         /\ Acked(q) /\ ReqAt("blk", q).type = "IN" =>
               \A i \in DOMAIN Addrs(Buffers(ReqAt("blk", q))) :
                  mem'[Addrs(Buffers(ReqAt("blk", q)))[i]] = mem[Addrs(Buffers(ReqAt("blk", q)))[i]]
<1> DEFINE h == HeadAt("blk", q)
           r == ReqAt("blk", q)
           A == Addrs(Buffers(r))
<1>1. q \in 1 .. NAll("blk")
  BY ServedFirst DEF Devices
<1>2. h \in HeadIds /\ Sound("blk", h, r)
  BY <1>1, QueuedSound DEF Devices
<1>3. ReqAt("blk", p)' = r /\ \A a \in Region("blk", h) : mem'[a] = mem[a]
  BY DEF Kept
<1>4. StatusAddr(r) \in Region("blk", h) /\ (mem[StatusAddr(r)] = S_OK => Good("blk", h, r))
  BY DEF ServedInv, ServedOk
<1>5. Acked(q) = (mem[StatusAddr(r)] = S_OK)
  BY DEF Acked
<1>6. Acked(p)' = (mem'[StatusAddr(r)] = S_OK)
  BY <1>3 DEF Acked
<1>7. Good("blk", h, r) => \A i \in DOMAIN A : A[i] \in Inner("blk", h)
  BY <1>2, BuffersIs
<1>8. \A a \in Inner("blk", h) : a \in Region("blk", h)
  BY <1>2, RegionInside DEF Inner, Devices
<1> HIDE DEF h, r
<1> QED BY <1>3, <1>4, <1>5, <1>6, <1>7, <1>8 DEF r

\* What a step that leaves the disk and the requests of its driver alone keeps.
LEMMA BlkMoves ==
  ASSUME IoInv, BaseInv', disk' = disk, may' = may, NAll("blk") <= NAll("blk")',
         NServed("blk")' = NServed("blk"), \A p \in 1 .. NAll("blk") : Kept("blk", p, p)
  PROVE  DiskInv' /\ AckInv' /\ ReadInv'
<1>1. BaseInv /\ DiskInv /\ AckInv /\ ReadInv /\ ServedInv("blk") /\ IoTypeOK /\ IoTypeOK'
  BY DEF IoInv, Devices, BaseInv
<1>2. NServed("blk") \in Nat /\ NAll("blk") \in Nat /\ NServed("blk") <= NAll("blk")
  BY <1>1, ServedFirst DEF Devices
<1>3. \A p \in 1 .. NAll("blk") : WriteKept(p, p)
  BY <1>1, WriteIsKept
<1>4. ASSUME NEW b, NEW p \in Nat \ {0} PROVE From(b, p) \subseteq From(b, p)'
  <2>1. \A q \in 1 .. NAll("blk") - 0 : WriteKept(q, q + 0)
    <3>1. \A q \in 1 .. NAll("blk") - 0 : q + 0 = q /\ q \in 1 .. NAll("blk")
      BY <1>2
    <3> QED BY <1>3, <3>1
  <2>2. NAll("blk") - 0 <= NAll("blk")' /\ p + 0 = p
    BY <1>2
  <2>3. From(b, p + 0) \subseteq From(b, p)'
    BY <1>1, <2>1, <2>2, FromMoves
  <2> QED BY <2>2, <2>3
<1>5. \A q \in 1 .. NServed("blk") : q \in 1 .. NAll("blk") /\ q \in Nat \ {0}
  BY <1>2
<1>6. ASSUME NEW p \in 1 .. NServed("blk") PROVE ReqAt("blk", p)' = ReqAt("blk", p) /\ (Acked(p)' <=> Acked(p))
  BY <1>1, <1>5, AckedKept DEF Kept
<1>7. DiskInv'
  <2>1. \A b \in DiskBytes : From(b, 1) \subseteq From(b, 1)'
    BY <1>4
  <2> QED BY <1>1, <2>1 DEF DiskInv
<1>8. AckInv'
  <2> SUFFICES ASSUME NEW p \in 1 .. NServed("blk"), Acked(p)', NEW b \in Covered(ReqAt("blk", p)')
               PROVE  b \in DiskBytes /\ disk[b] \in From(b, p)'
    BY DEF AckInv
  <2>1. b \in DiskBytes /\ disk[b] \in From(b, p)
    BY <1>1, <1>6 DEF AckInv
  <2> QED BY <1>4, <1>5, <2>1
<1>9. ReadInv'
  <2> SUFFICES ASSUME NEW p \in 1 .. NServed("blk"), ReqAt("blk", p)'.type = "IN", Acked(p)',
                      NEW i \in DOMAIN Addrs(Buffers(ReqAt("blk", p)')),
                      NEW b, b = ReqAt("blk", p)'.sector * SECTOR_SIZE + i - 1
               PROVE  LET v == mem'[Addrs(Buffers(ReqAt("blk", p)'))[i]]
                      IN  /\ b \in DiskBytes /\ v \in may[b] \cup From(b, 1)'
                          /\ \A q \in 1 .. p - 1 :
                                Acked(q)' /\ b \in Covered(ReqAt("blk", q)') => v \in From(b, q)'
    BY DEF ReadInv
  <2> DEFINE r == ReqAt("blk", p)
             v == mem[Addrs(Buffers(r))[i]]
  <2>1. ReqAt("blk", p)' = r /\ Acked(p)
    BY <1>6
  <2>2. mem'[Addrs(Buffers(r))[i]] = v
    BY <1>1, <1>5, <2>1, AckedKept
  <2>3. /\ b \in DiskBytes /\ v \in may[b] \cup From(b, 1)
        /\ \A q \in 1 .. p - 1 : Acked(q) /\ b \in Covered(ReqAt("blk", q)) => v \in From(b, q)
    BY <1>1, <2>1 DEF ReadInv
  <2>4. \A q \in 1 .. p - 1 : q \in 1 .. NServed("blk")
    BY <1>2
  <2> HIDE DEF r, v
  <2>5. \A q \in 1 .. p - 1 : Acked(q)' /\ b \in Covered(ReqAt("blk", q)') => v \in From(b, q)'
    BY <1>4, <1>5, <1>6, <2>3, <2>4
  <2>6. v \in may[b] \cup From(b, 1)'
    BY <1>4, <2>3
  <2> QED BY <2>1, <2>2, <2>3, <2>5, <2>6
<1> QED BY <1>7, <1>8, <1>9

\* A device with whose requests a step has nothing to do.
Still(e) ==
    /\ NAll(e)' = NAll(e) /\ NServed(e)' = NServed(e)
    /\ \A p \in 1 .. NAll(e) : Kept(e, p, p)
    /\ \A p \in 1 .. NServed(e) : LenAt(e, p)' = LenAt(e, p)

\* The same for requests that stay where they are.
LEMMA DataStays ==
  ASSUME BaseInv, NEW e \in Devices, DataInv(e), ServedInv(e), \A p \in 1 .. NAll(e) : Kept(e, p, p),
         \A p \in 1 .. NServed(e) : LenAt(e, p)' = LenAt(e, p)
  PROVE  /\ \A p \in 1 .. NAll(e) : DataOk(e, HeadAt(e, p), ReqAt(e, p), mem)'
         /\ \A p \in 1 .. NServed(e) : ServedOk(e, HeadAt(e, p), ReqAt(e, p), mem, LenAt(e, p))'
<1>1. NServed(e) \in Nat /\ NAll(e) \in Nat /\ NServed(e) <= NAll(e)
  BY ServedFirst
<1>2. NServed(e) - 0 = NServed(e) /\ NAll(e) - 0 = NAll(e) /\ \A p \in 1 .. NAll(e) : p + 0 = p
  BY <1>1
<1>3. \A p \in 1 .. NServed(e) : p \in 1 .. NAll(e)
  BY <1>1
<1>4. /\ \A p \in 1 .. NAll(e) - 0 : Kept(e, p, p + 0)
      /\ \A p \in 1 .. NServed(e) - 0 : LenAt(e, p)' = LenAt(e, p + 0)
  BY <1>2, <1>3
<1>5. 0 \in {0, 1}
  OBVIOUS
<1>6. /\ \A p \in 1 .. NAll(e) - 0 : DataOk(e, HeadAt(e, p), ReqAt(e, p), mem)'
      /\ \A p \in 1 .. NServed(e) - 0 : ServedOk(e, HeadAt(e, p), ReqAt(e, p), mem, LenAt(e, p))'
  BY <1>4, <1>5, DataMoves
<1> QED BY <1>2, <1>6

\* A queue that stands still keeps the invariants of its data.
LEMMA StillData ==
  ASSUME IoInv, NEW e \in Devices, Still(e)
  PROVE  DataInv(e)' /\ ServedInv(e)'
<1>1. BaseInv /\ DataInv(e) /\ ServedInv(e)
  BY DEF IoInv
<1>2. /\ \A p \in 1 .. NAll(e) : Kept(e, p, p)
      /\ \A p \in 1 .. NServed(e) : LenAt(e, p)' = LenAt(e, p)
      /\ NAll(e)' = NAll(e) /\ NServed(e)' = NServed(e)
  BY DEF Still
<1>3. /\ \A p \in 1 .. NAll(e)' : DataOk(e, HeadAt(e, p), ReqAt(e, p), mem)'
      /\ \A p \in 1 .. NServed(e)' : ServedOk(e, HeadAt(e, p), ReqAt(e, p), mem, LenAt(e, p))'
  BY <1>1, <1>2, DataStays
<1> QED BY <1>3 DEF DataInv, ServedInv

\* When the block queue stands still and the disk does not change, neither do
\* their relations.
LEMMA StillBlk ==
  ASSUME IoInv, BaseInv', Still("blk"), disk' = disk, may' = may
  PROVE  DiskInv' /\ AckInv' /\ ReadInv'
<1>1. NAll("blk") \in Nat
  BY ServedFirst DEF IoInv, Devices
<1>2. NAll("blk") <= NAll("blk")' /\ NServed("blk")' = NServed("blk") /\ \A p \in 1 .. NAll("blk") : Kept("blk", p, p)
  BY <1>1 DEF Still
<1> QED BY <1>2, BlkMoves

\* The queue of a device stands still when its regions do not change.
LEMMA OtherStill ==
  ASSUME BaseInv, NEW e \in Devices, SameQueue(e), NServed(e)' = NServed(e),
         \A p \in 1 .. NServed(e) : LenAt(e, p)' = LenAt(e, p),
         \A h \in HeadIds : \A a \in Region(e, h) : mem'[a] = mem[a]
  PROVE  Still(e)
<1>1. NAll(e)' = NAll(e) /\ \A p : HeadAt(e, p)' = HeadAt(e, p) /\ ReqAt(e, p)' = ReqAt(e, p)
  BY SamePositions
<1>2. \A p \in 1 .. NAll(e) : HeadAt(e, p) \in HeadIds
  BY QueuedSound
<1>3. \A p \in 1 .. NAll(e) : Kept(e, p, p)
  BY <1>1, <1>2 DEF Kept
<1> QED BY <1>1, <1>3 DEF Still

\* Steps that move no data.
LEMMA IoQuiet ==
  ASSUME IoInv, BaseInv', UNCHANGED <<mem, disk, request, may>>,
         \A e \in Devices : /\ NAll(e)' = NAll(e) /\ NServed(e)' = NServed(e)
                            /\ \A p \in 1 .. NAll(e) : HeadAt(e, p)' = HeadAt(e, p)
                            /\ \A p \in 1 .. NServed(e) : LenAt(e, p)' = LenAt(e, p)
  PROVE  IoInv'
<1>1. \A e \in Devices : \A p \in 1 .. NAll(e) : Kept(e, p, p)
  BY DEF Kept, ReqAt
<1>2. \A e \in Devices : Still(e)
  BY <1>1 DEF Still
<1>3. "blk" \in Devices
  BY DEF Devices
<1>4. DiskInv' /\ AckInv' /\ ReadInv'
  BY <1>2, <1>3, StillBlk
<1>5. \A e \in Devices : DataInv(e)' /\ ServedInv(e)'
  BY <1>2, StillData
<1> QED BY <1>4, <1>5 DEF IoInv

\* The driver fills what the device reads and blanks what it writes.
Find(s, a) == CHOOSE i \in DOMAIN s : s[i] = a
Content(r, out, a) ==
    IF a \in Writable(r) THEN Blank
    ELSE IF \E i \in DOMAIN out : out[i] = a THEN Payload(made, Find(out, a)) ELSE mem[a]
Offered(r) == [a \in DRAM |-> Content(r, Addrs(Only(r.chain, FALSE)), a)]

\* A submitted request has its payload in place and blank buffers, and no other
\* region changes.
LEMMA NewData ==
  ASSUME NEW d \in Devices, NEW h \in HeadIds, NEW r, Sound(d, h, r), made \in Nat, NEW m, m = Offered(r)
  PROVE  /\ DataOk(d, h, r, m)
         /\ \A a \in DRAM : a \notin Region(d, h) /\ a < Outside - 1 => m[a] = mem[a]
<1> DEFINE c == r.chain
           n == Len(c)
           o == Only(c, FALSE)
           out == Addrs(o)
<1>1. c \in Seq(Descs) /\ n > 0 /\ n \in Nat
  <2>1. c \in Seq(Descs) /\ n > 0
    BY DEF Sound, ChainOk
  <2> QED BY <2>1, LenProperties
<1>2. /\ o \in Seq(Descs) /\ Len(o) = n
      /\ \A i \in 1 .. n : Span(o[i]) = IF c[i].write = FALSE THEN Span(c[i]) ELSE {}
  BY <1>1, OnlyIs
<1>3. /\ out \in Seq(Nat) /\ DOMAIN out = 1 .. Len(out)
      /\ \A i \in DOMAIN out : \E j \in 1 .. n : out[i] \in Span(o[j])
      /\ \A j \in 1 .. n : \A a \in Span(o[j]) : \E i \in DOMAIN out : out[i] = a
  <2> HIDE DEF o, n
  <2>1. /\ out \in Seq(Nat)
        /\ \A i \in 1 .. Len(out) : \E j \in 1 .. Len(o) : out[i] \in Span(o[j])
        /\ \A j \in 1 .. Len(o) : \A a \in Span(o[j]) : \E i \in 1 .. Len(out) : out[i] = a
    BY <1>2, AddrsRange
  <2> HIDE DEF out
  <2>2. DOMAIN out = 1 .. Len(out)
    BY <2>1, LenProperties
  <2> QED BY <1>2, <2>1, <2>2
<1>4. \A a : a \in Writable(r) <=> \E i \in 1 .. n : c[i].write = TRUE /\ a \in Span(c[i])
  BY <1>1, WritableIs
<1>5. /\ \A i \in 1 .. n : \A a \in Span(c[i]) : a \in Region(d, h) \/ a >= Outside - 1
  BY ChainInside
<1>6. \A a \in DRAM : m[a] = IF a \in Writable(r) THEN Blank
                             ELSE IF \E i \in DOMAIN out : out[i] = a
                             THEN Payload(made, Find(out, a)) ELSE mem[a]
  <2>1. \A a \in DRAM : m[a] = Content(r, out, a)
    BY DEF Offered
  <2> HIDE DEF out
  <2> QED BY <2>1 DEF Content
<1>7. DRAM = 0 .. Outside - 1 /\ Outside \in Nat
  BY Constants
<1> HIDE DEF c, n, o, out
<1>8. ASSUME NEW a \in DRAM, a \notin Region(d, h), a < Outside - 1 PROVE m[a] = mem[a]
  <2>1. ~(a >= Outside - 1)
    BY <1>7, <1>8
  <2>2. a \notin Writable(r) /\ ~\E i \in DOMAIN out : out[i] = a
    BY <1>2, <1>3, <1>4, <1>5, <1>8, <2>1
  <2> QED BY <1>6, <2>2
<1>9. NonBlank(m, r) = {}
  BY <1>6 DEF NonBlank
<1>10. ASSUME Good(d, h, r), d = "blk", r.type = "OUT", NEW a \in BufBytes(r) PROVE m[a] # Blank
  <2>1. PICK j \in 2 .. n - 1 : a \in Span(c[j])
    BY DEF BufBytes, c, n
  <2>2. BlkChainOk(h, r)
    BY <1>10 DEF Sound
  <2>3. n > 1 /\ j \in 1 .. n
    BY <1>1
  <2>4. /\ c[1].write = FALSE /\ c[j].write = FALSE /\ \A i \in 2 .. n - 1 : c[i].write = FALSE
        /\ Span(c[n]) = {StatusAddr(r)}
    BY <1>10, <2>2, <2>3 DEF BlkChainOk, StatusAddr, c, n
  <2>5. a \in Inner("blk", h) /\ StatusAddr(r) \notin Inner("blk", h) /\ a \in DRAM
    <3>1. BufBytes(r) \subseteq Inner("blk", h)
      BY <1>10, BuffersIs
    <3>2. StatusAddr(r) \notin Inner("blk", h)
      BY <1>10, <2>3, FillIs DEF c, n
    <3>3. \A x \in Inner("blk", h) : x \in DRAM
      BY RegionInside DEF Inner, Devices
    <3> QED BY <1>10, <3>1, <3>2, <3>3
  <2>6. a \notin Writable(r)
    <3> SUFFICES ASSUME NEW i \in 1 .. n, c[i].write = TRUE, a \in Span(c[i]) PROVE FALSE
      BY <1>4
    <3>1. i = 1 \/ i \in 2 .. n - 1 \/ i = n
      BY <1>1
    <3> QED BY <2>4, <2>5, <3>1
  <2>7. \E i \in DOMAIN out : out[i] = a
    BY <1>2, <1>3, <2>1, <2>3, <2>4
  <2> DEFINE i == Find(out, a)
  <2>8. i \in DOMAIN out
    BY <2>7 DEF Find
  <2>9. m[a] = Payload(made, i)
    BY <1>6, <2>5, <2>6, <2>7
  <2> HIDE DEF i
  <2>10. i \in Nat
    <3>1. Len(out) \in Nat
      BY <1>3, LenProperties
    <3> QED BY <1>3, <2>8, <3>1
  <2> QED BY <2>9, <2>10 DEF Payload, Blank
<1> QED BY <1>8, <1>9, <1>10 DEF DataOk

-----------------------------------------------------------------------------
(* The steps of the drivers. *)

\* Submit preserves the invariant: a new write adds its data to what the disk
\* may have.
LEMMA IoSubmit ==
  ASSUME IoInv, NEW d \in Devices, NEW h \in HeadIds, NEW s \in Shapes(d), Submit(d, h, s)
  PROVE  IoInv'
<1> DEFINE r == Request(d, h, s)
           n == NAll(d)
<1>1. /\ running = None /\ request[d][h] = NoRequest /\ request' = [request EXCEPT ![d][h] = r]
      /\ avail' = [avail EXCEPT ![d] = Append(@, h)] /\ UNCHANGED <<disk, used, running, staged, may>>
  BY DEF Submit
<1>2. mem' = Offered(r)
  BY DEF Submit, Offered, Content, Find
<1>3. BaseInv /\ IoTypeOK /\ made \in Nat /\ DataInv(d) /\ ServedInv(d)
  BY DEF IoInv, BaseInv, IoTypeOK
<1>4. BaseInv'
  BY <1>3, BaseSubmit
<1>5. Sound(d, h, r)
  BY RequestSound
<1> HIDE DEF r
<1>6. /\ DataOk(d, h, r, mem')
      /\ \A a \in DRAM : a \notin Region(d, h) /\ a < Outside - 1 => mem'[a] = mem[a]
  BY <1>2, <1>3, <1>5, NewData
<1>7. ASSUME NEW e \in Devices, NEW g \in HeadIds, e # d \/ g # h
      PROVE  \A a \in Region(e, g) : mem'[a] = mem[a]
  BY <1>6, <1>7, RegionsApart, RegionInside
<1>8. request' = [e \in Devices |-> [g \in HeadIds |-> IF e = d /\ g = h THEN r ELSE request[e][g]]]
  BY <1>1, <1>3 DEF IoTypeOK
<1>9. avail'[d] = Append(avail[d], h) /\ \A e \in Devices : e # d => avail'[e] = avail[e]
  BY <1>1, <1>3 DEF IoTypeOK
<1>10. \A e : NServed(e)' = NServed(e) /\ \A p : LenAt(e, p)' = LenAt(e, p)
  BY <1>1 DEF NServed, LenAt
<1>11. ASSUME NEW e \in Devices, e # d PROVE Still(e)
  <2>1. SameQueue(e)
    BY <1>1, <1>3, <1>8, <1>9, <1>11 DEF SameQueue, IoTypeOK
  <2> QED BY <1>3, <1>7, <1>10, <1>11, <2>1, OtherStill
<1>12. /\ NAll(d)' = n + 1 /\ n \in Nat
       /\ \A p \in 1 .. n : HeadAt(d, p)' = HeadAt(d, p)
       /\ \A p : p = n + 1 => HeadAt(d, p)' = h
  BY <1>1, <1>3, <1>9, SubmitMoves
<1>13. ASSUME NEW p \in 1 .. n PROVE Kept(d, p, p)
  <2>1. HeadAt(d, p) \in HeadIds /\ ReqAt(d, p) # NoRequest
    BY <1>3, QueuedSound
  <2>2. HeadAt(d, p) # h
    BY <1>1, <2>1 DEF ReqAt
  <2>3. HeadAt(d, p)' = HeadAt(d, p)
    BY <1>12
  <2>4. ReqAt(d, p)' = ReqAt(d, p)
    BY <1>8, <2>1, <2>2, <2>3 DEF ReqAt
  <2> QED BY <1>7, <2>1, <2>2, <2>3, <2>4 DEF Kept
<1>14. DataInv(d)' /\ ServedInv(d)'
  <2>1. /\ \A p \in 1 .. n : DataOk(d, HeadAt(d, p), ReqAt(d, p), mem)'
        /\ \A p \in 1 .. NServed(d) : ServedOk(d, HeadAt(d, p), ReqAt(d, p), mem, LenAt(d, p))'
    BY <1>3, <1>10, <1>13, DataStays
  <2>2. ASSUME NEW p, p = n + 1 PROVE DataOk(d, HeadAt(d, p), ReqAt(d, p), mem)'
    <3>1. HeadAt(d, p)' = h
      BY <1>12, <2>2
    <3>2. ReqAt(d, p)' = r
      BY <1>8, <3>1 DEF ReqAt
    <3> QED BY <1>6, <3>1, <3>2
  <2>3. \A p \in 1 .. NAll(d)' : p \in 1 .. n \/ p = n + 1
    <3> HIDE DEF n
    <3> QED BY <1>12
  <2>4. DataInv(d)'
    BY <2>1, <2>2, <2>3 DEF DataInv
  <2>5. ServedInv(d)'
    BY <1>10, <2>1 DEF ServedInv
  <2> QED BY <2>4, <2>5
<1>15. DiskInv' /\ AckInv' /\ ReadInv'
  <2>1. CASE d # "blk"
    BY <1>1, <1>4, <1>11, <2>1, StillBlk DEF Devices
  <2>2. CASE d = "blk"
    <3>1. NAll("blk") <= NAll("blk")'
      <4> HIDE DEF n
      <4>1. n <= NAll(d)'
        BY <1>12
      <4> QED BY <2>2, <4>1 DEF n
    <3> QED BY <1>1, <1>4, <1>10, <1>13, <2>2, <3>1, BlkMoves
  <2> QED BY <2>1, <2>2
<1>16. \A e \in Devices : DataInv(e)' /\ ServedInv(e)'
  BY <1>11, <1>14, StillData
<1> QED BY <1>4, <1>15, <1>16 DEF IoInv

\* What the driver clears.
LEMMA ClearedIs ==
  ASSUME NEW d \in Devices, NEW heads \in SUBSET HeadIds, NEW e \in Devices, NEW g \in HeadIds,
         e # d \/ g \notin heads
  PROVE  \A a \in Region(e, g) : Cleared(d, heads)[a] = mem[a]
<1> SUFFICES ASSUME NEW a \in Region(e, g) PROVE Cleared(d, heads)[a] = mem[a]
  OBVIOUS
<1>1. a \in DRAM
  BY RegionInside
<1>2. \A h \in heads : a \div RegionLen # Slot(d, h) \div RegionLen
  <2> SUFFICES ASSUME NEW h \in heads, a \div RegionLen = Slot(d, h) \div RegionLen PROVE FALSE
    OBVIOUS
  <2>1. a \in Nat /\ Slot(d, h) \div RegionLen = Index(d, h)
    BY RegionIs
  <2>2. a \in Region(d, h)
    BY <2>1, RegionIs
  <2> QED BY <2>2, RegionsApart
<1> QED BY <1>1, <1>2 DEF Cleared

\* The first request of a queue, when it leaves.
LEMMA FromFirst ==
  ASSUME BaseInv, NEW b, 1 <= NAll("blk")
  PROVE  \A v \in From(b, 1) :
            \/ v \in From(b, 2)
            \/ b \in Covered(ReqAt("blk", 1)) /\ v = DataIn(mem, ReqAt("blk", 1), b)
<1>1. NAll("blk") \in Nat
  BY ServedFirst DEF Devices
<1>2. \A q \in 1 .. NAll("blk") : q = 1 \/ q \in 2 .. NAll("blk")
  BY <1>1
<1> SUFFICES ASSUME NEW q \in 1 .. NAll("blk"), Writes(q, b)
             PROVE  LET v == DataIn(mem, ReqAt("blk", q), b)
                    IN  \/ v \in From(b, 2)
                        \/ b \in Covered(ReqAt("blk", 1)) /\ v = DataIn(mem, ReqAt("blk", 1), b)
  BY DEF From
<1>3. CASE q = 1
  BY <1>3 DEF Writes
<1>4. CASE q \in 2 .. NAll("blk")
  BY <1>4 DEF From
<1> QED BY <1>2, <1>3, <1>4

\* What the driver is told when it collects its first request accounts for
\* whatever that request did to the disk.
LEMMA BlkCollect ==
  ASSUME IoInv, BaseInv', disk' = disk, 1 <= NServed("blk"),
         may' = Told(ReqAt("blk", 1), StatusOf(ReqAt("blk", 1)) = S_OK),
         NAll("blk")' = NAll("blk") - 1, NServed("blk")' = NServed("blk") - 1,
         \A p \in 1 .. NAll("blk") - 1 : Kept("blk", p, p + 1)
  PROVE  DiskInv' /\ AckInv' /\ ReadInv'
<1> DEFINE n == NAll("blk")
           s == NServed("blk")
           f == ReqAt("blk", 1)
<1>1. BaseInv /\ DiskInv /\ AckInv /\ ReadInv /\ ServedInv("blk") /\ IoTypeOK /\ IoTypeOK'
  BY DEF IoInv, Devices, BaseInv
<1>2. s \in Nat /\ n \in Nat /\ s <= n /\ 1 <= n /\ 1 <= s
  <2>1. s \in Nat /\ n \in Nat /\ s <= n
    BY <1>1, ServedFirst DEF Devices
  <2> HIDE DEF s, n
  <2>2. 1 <= s
    BY DEF s
  <2> QED BY <2>1, <2>2
<1>3. \A b \in DiskBytes : /\ b \notin Covered(f) => may'[b] = may[b]
                           /\ b \in Covered(f) /\ Acked(1) => may'[b] = {DataIn(mem, f, b)}
                           /\ b \in Covered(f) /\ ~Acked(1) => may'[b] = may[b] \cup {DataIn(mem, f, b)}
  BY DEF Told, Acked, StatusOf, StatusAddr, DataFor, DataIn
<1>4. \A b : \A v \in From(b, 1) : v \in From(b, 2) \/ (b \in Covered(f) /\ v = DataIn(mem, f, b))
  BY <1>1, <1>2, FromFirst
<1>5. \A p \in 1 .. n - 1 : WriteKept(p, p + 1)
  <2>1. \A p \in 1 .. n - 1 : p + 1 \in 1 .. n
    BY <1>2
  <2> QED BY <1>1, <2>1, WriteIsKept
<1>6. ASSUME NEW b, NEW p \in Nat \ {0} PROVE From(b, p + 1) \subseteq From(b, p)'
  <2>1. n - 1 <= NAll("blk")'
    BY <1>2
  <2> QED BY <1>1, <1>5, <2>1, FromMoves
<1>7. ASSUME NEW b PROVE From(b, 2) \subseteq From(b, 1)'
  <2>1. From(b, 1 + 1) \subseteq From(b, 1)'
    BY <1>6
  <2>2. 1 + 1 = 2
    OBVIOUS
  <2> QED BY <2>1, <2>2
<1>8. ASSUME NEW b \in DiskBytes, NEW v, v \in may[b] \cup From(b, 1),
             Acked(1) /\ b \in Covered(f) => v \in From(b, 1)
      PROVE  v \in may'[b] \cup From(b, 1)'
  BY <1>3, <1>4, <1>7, <1>8
<1>9. 1 \in 1 .. s
  <2> HIDE DEF s
  <2> QED BY <1>2
<1>10. DiskInv'
  <2> SUFFICES ASSUME NEW b \in DiskBytes PROVE disk[b] # Blank /\ disk[b] \in may'[b] \cup From(b, 1)'
    BY DEF DiskInv
  <2>1. disk[b] # Blank /\ disk[b] \in may[b] \cup From(b, 1)
    BY <1>1 DEF DiskInv
  <2>2. Acked(1) /\ b \in Covered(f) => disk[b] \in From(b, 1)
    BY <1>1, <1>9 DEF AckInv
  <2> QED BY <1>8, <2>1, <2>2
<1>11. \A p \in 1 .. s - 1 : p + 1 \in 1 .. s /\ p \in 1 .. n - 1 /\ p \in Nat \ {0}
  <2> HIDE DEF s, n
  <2> QED BY <1>2
<1>12. ASSUME NEW p \in 1 .. s - 1 PROVE ReqAt("blk", p)' = ReqAt("blk", p + 1) /\ (Acked(p)' <=> Acked(p + 1))
  <2>1. Kept("blk", p, p + 1) /\ p + 1 \in 1 .. s
    BY <1>11
  <2>2. Acked(p)' <=> Acked(p + 1)
    BY <1>1, <2>1, AckedKept
  <2> QED BY <2>1, <2>2 DEF Kept
<1>13. AckInv'
  <2> SUFFICES ASSUME NEW p \in 1 .. s - 1, Acked(p)', NEW b \in Covered(ReqAt("blk", p)')
               PROVE  b \in DiskBytes /\ disk[b] \in From(b, p)'
    BY DEF AckInv
  <2>1. b \in DiskBytes /\ disk[b] \in From(b, p + 1)
    BY <1>1, <1>11, <1>12 DEF AckInv
  <2> QED BY <1>6, <1>11, <2>1
<1>14. ReadInv'
  <2> SUFFICES ASSUME NEW p \in 1 .. s - 1, ReqAt("blk", p)'.type = "IN", Acked(p)',
                      NEW i \in DOMAIN Addrs(Buffers(ReqAt("blk", p)')),
                      NEW b, b = ReqAt("blk", p)'.sector * SECTOR_SIZE + i - 1
               PROVE  LET v == mem'[Addrs(Buffers(ReqAt("blk", p)'))[i]]
                      IN  /\ b \in DiskBytes /\ v \in may'[b] \cup From(b, 1)'
                          /\ \A q \in 1 .. p - 1 :
                                Acked(q)' /\ b \in Covered(ReqAt("blk", q)') => v \in From(b, q)'
    BY DEF ReadInv
  <2> DEFINE r == ReqAt("blk", p + 1)
             v == mem[Addrs(Buffers(r))[i]]
  <2>1. ReqAt("blk", p)' = r /\ Acked(p + 1) /\ p + 1 \in 1 .. s
    BY <1>11, <1>12
  <2>2. mem'[Addrs(Buffers(r))[i]] = v
    BY <1>1, <1>11, <2>1, AckedKept
  <2>3. /\ b \in DiskBytes /\ v \in may[b] \cup From(b, 1)
        /\ \A q \in 1 .. (p + 1) - 1 : Acked(q) /\ b \in Covered(ReqAt("blk", q)) => v \in From(b, q)
    BY <1>1, <2>1 DEF ReadInv
  <2>4. /\ 1 \in 1 .. (p + 1) - 1
        /\ \A q \in 1 .. p - 1 : q \in 1 .. s - 1 /\ q + 1 \in 1 .. (p + 1) - 1
    <3> HIDE DEF s
    <3> QED BY <1>2
  <2> HIDE DEF r, v
  <2>5. \A q \in 1 .. p - 1 : Acked(q)' /\ b \in Covered(ReqAt("blk", q)') => v \in From(b, q)'
    <3> SUFFICES ASSUME NEW q \in 1 .. p - 1, Acked(q)', b \in Covered(ReqAt("blk", q)') PROVE v \in From(b, q)'
      OBVIOUS
    <3>1. v \in From(b, q + 1)
      BY <1>12, <2>3, <2>4
    <3> QED BY <1>6, <1>11, <2>4, <3>1
  <2>6. v \in may'[b] \cup From(b, 1)'
    <3>1. Acked(1) /\ b \in Covered(f) => v \in From(b, 1)
      BY <2>3, <2>4
    <3> QED BY <1>8, <2>3, <3>1
  <2> QED BY <2>1, <2>2, <2>3, <2>5, <2>6
<1> QED BY <1>10, <1>13, <1>14

\* Collect preserves the invariant: what the driver is told of a write or read
\* takes over from the queue.
LEMMA IoCollect ==
  ASSUME IoInv, NEW d \in Devices, Collect(d)
  PROVE  IoInv'
<1> DEFINE h == Head(used[d]).head
           r == request[d][h]
           n == NAll(d)
           s == NServed(d)
<1>1. /\ running = None /\ used[d] # << >> /\ request' = [request EXCEPT ![d][h] = NoRequest]
      /\ mem' = Cleared(d, {h}) /\ used' = [used EXCEPT ![d] = Tail(used[d])]
      /\ UNCHANGED <<disk, avail, running, staged>>
      /\ may' = IF d = "blk" THEN Told(r, StatusOf(r) = S_OK) ELSE may
  BY DEF Collect
<1>2. BaseInv /\ IoTypeOK /\ DataInv(d) /\ ServedInv(d) /\ d # None
  BY DEF IoInv, BaseInv, Devices, None
<1>3. /\ BaseInv'
      /\ \A p \in 1 .. n - 1 : ReqAt(d, p)' = ReqAt(d, p + 1)
      /\ \A p \in 2 .. n : HeadAt(d, p) # HeadAt(d, 1)
  BY <1>2, BaseCollect
<1>4. used'[d] = Tail(used[d]) /\ \A e \in Devices : e # d => used'[e] = used[e]
  BY <1>1, <1>2 DEF IoTypeOK
<1>5. /\ NAll(d)' = n - 1 /\ NServed(d)' = s - 1
      /\ n \in Nat /\ s \in Nat /\ s > 0 /\ s <= n
      /\ h = HeadAt(d, 1) /\ HeadAt(d, 1) \in HeadIds
      /\ \A p \in 1 .. n - 1 : p + 1 \in 2 .. n /\ HeadAt(d, p)' = HeadAt(d, p + 1)
      /\ \A p \in 1 .. s - 1 : p + 1 \in 2 .. s /\ LenAt(d, p)' = LenAt(d, p + 1)
  BY <1>1, <1>2, <1>4, CollectMoves
<1>6. r = ReqAt(d, 1)
  BY <1>5 DEF ReqAt
<1> HIDE DEF h, r, n, s
<1>7. ASSUME NEW e \in Devices, NEW g \in HeadIds, e # d \/ g # h PROVE \A a \in Region(e, g) : mem'[a] = mem[a]
  BY <1>1, <1>5, <1>7, ClearedIs
<1>8. \A p \in 2 .. n : p \in 1 .. n
  BY <1>5
<1>9. \A p \in 1 .. n - 1 : Kept(d, p, p + 1)
  <2> SUFFICES ASSUME NEW p \in 1 .. n - 1 PROVE Kept(d, p, p + 1)
    OBVIOUS
  <2>1. p + 1 \in 2 .. n /\ p + 1 \in 1 .. n
    BY <1>5, <1>8
  <2>2. HeadAt(d, p + 1) \in HeadIds
    BY <1>2, <2>1, QueuedSound DEF n
  <2> QED BY <1>3, <1>5, <1>7, <2>1, <2>2 DEF Kept
<1>10. ASSUME NEW e \in Devices, e # d PROVE Still(e)
  <2>1. SameQueue(e)
    <3>1. request'[e] = request[e]
      BY <1>1, <1>2, <1>10 DEF IoTypeOK
    <3> QED BY <1>1, <1>4, <1>10, <3>1 DEF SameQueue
  <2>2. NServed(e)' = NServed(e) /\ \A p : LenAt(e, p)' = LenAt(e, p)
    BY <1>1, <1>4, <1>10 DEF NServed, LenAt
  <2> QED BY <1>2, <1>7, <1>10, <2>1, <2>2, OtherStill
<1>11. DataInv(d)' /\ ServedInv(d)'
  <2>1. /\ \A p \in 1 .. n - 1 : DataOk(d, HeadAt(d, p), ReqAt(d, p), mem)'
        /\ \A p \in 1 .. s - 1 : ServedOk(d, HeadAt(d, p), ReqAt(d, p), mem, LenAt(d, p))'
    BY <1>2, <1>5, <1>9, DataMoves DEF n, s
  <2> QED BY <1>5, <2>1 DEF DataInv, ServedInv
<1>12. DiskInv' /\ AckInv' /\ ReadInv'
  <2>1. CASE d # "blk"
    BY <1>1, <1>3, <1>10, <2>1, StillBlk DEF Devices
  <2>2. CASE d = "blk"
    <3>1. 1 <= s
      BY <1>5
    <3> QED BY <1>1, <1>3, <1>5, <1>6, <1>9, <2>2, <3>1, BlkCollect DEF n, s
  <2> QED BY <2>1, <2>2
<1>13. \A e \in Devices : DataInv(e)' /\ ServedInv(e)'
  BY <1>10, <1>11, StillData
<1> QED BY <1>3, <1>12, <1>13 DEF IoInv

\* Reset preserves the invariant: the writes in the queue become values that
\* the disk may have.
LEMMA IoReset ==
  ASSUME IoInv, NEW d \in Devices, Reset(d)
  PROVE  IoInv'
<1> DEFINE Given(b) == {g \in HeadIds : d = "blk" /\ request["blk"][g] # NoRequest
                                       /\ b \in Covered(request["blk"][g])}
<1>1. /\ running = None /\ used' = [used EXCEPT ![d] = << >>] /\ avail' = [avail EXCEPT ![d] = << >>]
      /\ request' = [request EXCEPT ![d] = [h \in HeadIds |-> NoRequest]]
      /\ mem' = Cleared(d, HeadIds) /\ UNCHANGED <<disk, running, staged>>
  BY DEF Reset
<1>2. may' = [b \in DiskBytes |-> may[b] \cup {DataFor(request["blk"][h], b) : h \in Given(b)}]
  BY DEF Reset
<1>3. BaseInv /\ IoTypeOK /\ DiskInv /\ d # None
  BY DEF IoInv, BaseInv, Devices, None
<1>4. BaseInv'
  BY <1>3, BaseReset
<1>5. /\ used'[d] = << >> /\ avail'[d] = << >>
      /\ \A e \in Devices : e # d => used'[e] = used[e] /\ avail'[e] = avail[e] /\ request'[e] = request[e]
  BY <1>1, <1>3 DEF IoTypeOK
<1>6. ASSUME NEW e \in Devices, e # d PROVE Still(e)
  <2>1. SameQueue(e)
    BY <1>5, <1>6 DEF SameQueue
  <2>2. NServed(e)' = NServed(e) /\ \A p : LenAt(e, p)' = LenAt(e, p)
    BY <1>1, <1>5, <1>6 DEF NServed, LenAt
  <2>3. \A h \in HeadIds : \A a \in Region(e, h) : mem'[a] = mem[a]
    BY <1>1, <1>6, ClearedIs
  <2> QED BY <1>3, <2>1, <2>2, <2>3, OtherStill
<1>7. NAll(d)' = 0 /\ NServed(d)' = 0
  <2>1. Len(<< >>) = 0 /\ running' # d
    BY <1>1, <1>3
  <2>2. NAll(d)' = 0 + 0 /\ NServed(d)' = 0 + 0
    BY <1>5, <2>1 DEF NAll, NServed
  <2> QED BY <2>2
<1>8. 1 .. 0 = {}
  OBVIOUS
<1>9. DataInv(d)' /\ ServedInv(d)'
  BY <1>7, <1>8 DEF DataInv, ServedInv
<1>10. CASE d = "blk"
  <2>1. AckInv' /\ ReadInv'
    BY <1>7, <1>8, <1>10 DEF AckInv, ReadInv
  <2>2. ASSUME NEW b \in DiskBytes, disk[b] \in may[b] \cup From(b, 1) PROVE disk[b] \in may'[b]
    <3>1. may'[b] = may[b] \cup {DataFor(request["blk"][h], b) : h \in Given(b)}
      BY <1>2
    <3>2. ASSUME NEW q \in 1 .. NAll("blk"), Writes(q, b)
          PROVE  DataIn(mem, ReqAt("blk", q), b) \in {DataFor(request["blk"][h], b) : h \in Given(b)}
      <4>1. HeadAt("blk", q) \in Given(b)
        BY <1>3, <1>10, <3>2, QueuedSound DEF Writes, ReqAt, Devices
      <4>2. DataIn(mem, ReqAt("blk", q), b) = DataFor(request["blk"][HeadAt("blk", q)], b)
        BY DEF DataIn, DataFor, ReqAt
      <4> QED BY <4>1, <4>2
    <3>3. CASE disk[b] \in may[b]
      BY <3>1, <3>3
    <3>4. CASE disk[b] \in From(b, 1)
      <4>1. PICK q \in 1 .. NAll("blk") : Writes(q, b) /\ disk[b] = DataIn(mem, ReqAt("blk", q), b)
        BY <3>4 DEF From
      <4> HIDE DEF Given
      <4>2. disk[b] \in {DataFor(request["blk"][h], b) : h \in Given(b)}
        BY <3>2, <4>1
      <4> QED BY <3>1, <4>2
    <3> QED BY <2>2, <3>3, <3>4
  <2>3. DiskInv'
    BY <1>1, <1>3, <2>2 DEF DiskInv
  <2>4. \A e \in Devices : DataInv(e)' /\ ServedInv(e)'
    BY <1>6, <1>9, StillData
  <2> QED BY <1>4, <2>1, <2>3, <2>4 DEF IoInv
<1>11. CASE d # "blk"
  <2>1. may' = may
    <3>1. \A b \in DiskBytes : Given(b) = {}
      BY <1>11
    <3> HIDE DEF Given
    <3>2. \A b \in DiskBytes : may[b] \cup {DataFor(request["blk"][h], b) : h \in Given(b)} = may[b]
      BY <3>1
    <3>3. may = [b \in DiskBytes |-> may[b]]
      BY <1>3 DEF IoTypeOK
    <3>4. \A b \in DiskBytes : may'[b] = may[b]
      BY <1>2, <3>2
    <3>5. may' = [b \in DiskBytes |-> may'[b]]
      BY <1>4 DEF BaseInv, IoTypeOK
    <3> QED BY <3>3, <3>4, <3>5
  <2>2. DiskInv' /\ AckInv' /\ ReadInv'
    BY <1>1, <1>4, <1>6, <1>11, <2>1, StillBlk DEF Devices
  <2>3. \A e \in Devices : DataInv(e)' /\ ServedInv(e)'
    BY <1>6, <1>9, StillData
  <2> QED BY <1>4, <2>2, <2>3 DEF IoInv
<1> QED BY <1>10, <1>11

-----------------------------------------------------------------------------
(* The steps of the devices. *)

\* A write does not touch its own data.
LEMMA OutKeeps ==
  ASSUME NEW h \in HeadIds, NEW r, Sound("blk", h, r), Good("blk", h, r), r.type = "OUT", NEW new,
         \A a \in DRAM : new[a] # mem[a] => Len(r.chain) > 1 /\ a \in Touched("blk", r)
  PROVE  \A a \in BufBytes(r) : new[a] = mem[a]
<1>1. BufBytes(r) \subseteq Inner("blk", h) /\ \A a \in Inner("blk", h) : a \in DRAM
  BY BuffersIs, RegionInside DEF Inner, Devices
<1>2. Touched("blk", r) = {StatusAddr(r)}
  BY DEF Touched, Fill
<1>3. Len(r.chain) > 1 => StatusAddr(r) \notin Inner("blk", h)
  BY FillIs
<1> QED BY <1>1, <1>2, <1>3

\* The request that a device executes changes memory where it may.
LEMMA IoExecute ==
  ASSUME IoInv, NEW d \in Devices, running = d, Len(staged) < Len(avail[d]), NEW res, Execute(d, res),
         res.len \in Nat, res.mem = [a \in DRAM |-> res.mem[a]], res.disk = [b \in DiskBytes |-> res.disk[b]],
         faults' \in {faults, faults + 1},
         NEW z, z = NServed(d) + 1, NEW h, h = HeadAt(d, z), NEW r, r = Current(d),
         \A a \in DRAM : res.mem[a] # mem[a] => a \in Touched(d, r) /\ (d = "blk" => Len(r.chain) > 1),
         ~res.err => ServedOk(d, h, r, res.mem, res.len)
  PROVE  /\ BaseInv' /\ DataInv(d)' /\ ServedInv(d)' /\ \A e \in Devices : e # d => Still(e)
         /\ NAll(d)' = NAll(d) /\ mem' = res.mem /\ disk' = res.disk /\ may' = may
         /\ NServed(d)' \in Nat /\ NServed(d)' <= NServed(d) + 1
         /\ NServed(d)' = NServed(d) + 1 => ~res.err
         /\ \A p \in 1 .. NAll(d) : p # z => Kept(d, p, p)
         /\ h \in HeadIds /\ Sound(d, h, r) /\ z \in 1 .. NAll(d) /\ NServed(d) \in Nat
         /\ ReqAt(d, z) = r /\ ReqAt(d, z)' = r /\ HeadAt(d, z)' = h
<1>1. BaseInv /\ IoTypeOK /\ DataInv(d) /\ ServedInv(d)
  BY DEF IoInv, BaseInv
<1>2. /\ BaseInv' /\ \A e \in Devices : SameQueue(e)
      /\ \A e \in Devices : e # d => NServed(e)' = NServed(e)
      /\ res.err => NServed(d)' = Len(used[d]) /\ NServed(d)' <= NServed(d)
      /\ ~res.err => NServed(d)' = NServed(d) + 1
      /\ ~res.err => \A p : p = NServed(d) + 1 => LenAt(d, p)' = res.len
      /\ \A p \in 1 .. NServed(d) : p <= NServed(d)' => LenAt(d, p)' = LenAt(d, p)
      /\ \A e \in Devices : e # d => \A p \in 1 .. NServed(e) : LenAt(e, p)' = LenAt(e, p)
  BY <1>1, BaseExecute
<1>3. mem' = res.mem /\ disk' = res.disk /\ may' = may
  BY DEF Execute, drvVars
<1>4. z \in 1 .. NAll(d) /\ NServed(d) \in Nat /\ r = ReqAt(d, z) /\ h \in HeadIds /\ Sound(d, h, r)
  BY <1>1, CurrentIs
<1>5. NAll(d) \in Nat /\ NServed(d) <= NAll(d)
  BY <1>1, ServedFirst
<1>6. NServed(d)' \in Nat /\ NServed(d)' <= NServed(d) + 1 /\ (NServed(d)' = NServed(d) + 1 => ~res.err)
  <2>1. Len(used[d]) \in Nat
    BY <1>1, Lengths
  <2>2. CASE res.err
    <3> DEFINE x == Len(used[d])
               y == NServed(d)
               w == NServed(d)'
    <3>1. w = x /\ x \in Nat /\ w <= y /\ y \in Nat
      BY <1>2, <1>4, <2>1, <2>2
    <3> HIDE DEF x, y, w
    <3>2. w \in Nat /\ w <= y + 1 /\ w # y + 1
      BY <3>1
    <3> QED BY <3>2 DEF y, w
  <2>3. CASE ~res.err
    BY <1>2, <1>4, <2>3
  <2> QED BY <2>2, <2>3
<1>7. ASSUME NEW e \in Devices, NEW g \in HeadIds, e # d \/ g # h PROVE \A a \in Region(e, g) : mem'[a] = mem[a]
  <2> SUFFICES ASSUME NEW a \in Region(e, g), mem'[a] # mem[a] PROVE FALSE
    OBVIOUS
  <2>1. a \in DRAM /\ a \in Nat /\ a < Outside - 1
    BY RegionInside
  <2>2. a \in Touched(d, r) /\ (d = "blk" => Len(r.chain) > 1)
    BY <1>3, <2>1
  <2>3. a \in Region(d, h) \/ a >= Outside - 1
    BY <1>4, <2>2, TouchedWritable
  <2>4. ~(a >= Outside - 1)
    BY <2>1, Constants
  <2> QED BY <1>4, <1>7, <2>3, <2>4, RegionsApart
<1>8. ASSUME NEW e \in Devices, e # d PROVE Still(e)
  BY <1>1, <1>2, <1>7, <1>8, OtherStill
<1>9. NAll(d)' = NAll(d) /\ \A p : HeadAt(d, p)' = HeadAt(d, p) /\ ReqAt(d, p)' = ReqAt(d, p)
  BY <1>2, SamePositions
<1>10. ASSUME NEW p \in 1 .. NAll(d), p # z PROVE Kept(d, p, p)
  <2>1. HeadAt(d, p) \in HeadIds
    BY <1>1, QueuedSound
  <2>2. HeadAt(d, p) # h
    BY <1>1, <1>4, <1>10 DEF BaseInv, QueueInv
  <2> QED BY <1>7, <1>9, <2>1, <2>2 DEF Kept
<1>11. DataOk(d, h, r, mem')
  <2>1. DataOk(d, h, r, mem)
    BY <1>1, <1>4 DEF DataInv
  <2>2. ASSUME Good(d, h, r), NEW a \in NonBlank(mem', r) PROVE a \in Touched(d, r)
    <3>1. a \in DRAM /\ a \in Writable(r) /\ mem'[a] # Blank
      BY <2>2 DEF NonBlank
    <3>2. CASE mem'[a] # mem[a]
      BY <1>3, <3>1, <3>2
    <3>3. CASE mem'[a] = mem[a]
      BY <2>1, <2>2, <3>1, <3>3 DEF DataOk, NonBlank
    <3> QED BY <3>2, <3>3
  <2>3. ASSUME Good(d, h, r), d = "blk", r.type = "OUT" PROVE \A a \in BufBytes(r) : mem'[a] # Blank
    <3>1. \A a \in BufBytes(r) : mem[a] # Blank
      BY <2>1, <2>3 DEF DataOk
    <3>2. \A a \in BufBytes(r) : mem'[a] = mem[a]
      BY <1>3, <1>4, <2>3, OutKeeps
    <3> QED BY <3>1, <3>2
  <2> QED BY <2>2, <2>3 DEF DataOk
<1>12. DataInv(d)'
  <2>1. ASSUME NEW p \in 1 .. NAll(d) PROVE DataOk(d, HeadAt(d, p), ReqAt(d, p), mem)'
    <3>1. CASE p = z
      BY <1>4, <1>9, <1>11, <3>1
    <3>2. CASE p # z
      <4>1. DataOk(d, HeadAt(d, p), ReqAt(d, p), mem)
        BY <1>1 DEF DataInv
      <4> QED BY <1>1, <1>10, <3>2, <4>1, KeptIs
    <3> QED BY <3>1, <3>2
  <2> QED BY <1>9, <2>1 DEF DataInv
<1>13. ServedInv(d)'
  <2>1. ASSUME NEW p \in 1 .. NServed(d)' PROVE ServedOk(d, HeadAt(d, p), ReqAt(d, p), mem, LenAt(d, p))'
    <3>1. p \in 1 .. NServed(d) \/ (p = z /\ ~res.err)
      <4>1. p \in 1 .. NServed(d) \/ (p = NServed(d) + 1 /\ NServed(d)' = NServed(d) + 1)
        <5> DEFINE x == NServed(d)
                   y == NServed(d)'
        <5>1. x \in Nat /\ y \in Nat /\ p \in 1 .. y /\ y <= x + 1
          BY <1>4, <1>6
        <5> HIDE DEF x, y
        <5>2. p \in 1 .. x \/ (p = x + 1 /\ y = x + 1)
          BY <5>1
        <5> QED BY <5>2 DEF x, y
      <4> QED BY <1>6, <4>1
    <3>2. CASE p = z /\ ~res.err
      <4>1. LenAt(d, p)' = res.len
        BY <1>2, <3>2
      <4> QED BY <1>3, <1>4, <1>9, <3>2, <4>1
    <3>3. CASE p \in 1 .. NServed(d)
      <4>1. p \in 1 .. NAll(d) /\ p # z /\ p <= NServed(d)'
        BY <1>4, <1>5, <1>6, <3>3
      <4>2. LenAt(d, p)' = LenAt(d, p)
        BY <1>2, <3>3, <4>1
      <4>3. ServedOk(d, HeadAt(d, p), ReqAt(d, p), mem, LenAt(d, p))
        BY <1>1, <3>3 DEF ServedInv
      <4>4. ServedOk(d, HeadAt(d, p)', ReqAt(d, p)', mem', LenAt(d, p))
        BY <1>1, <1>10, <4>1, <4>3, KeptIs
      <4> QED BY <4>2, <4>4
    <3> QED BY <3>1, <3>2, <3>3
  <2> QED BY <2>1 DEF ServedInv
<1> QED BY <1>2, <1>3, <1>4, <1>6, <1>8, <1>9, <1>10, <1>12, <1>13

\* The execution of an RNG request preserves the invariant.
LEMMA IoServeRng ==
  ASSUME IoInv, ServeRng
  PROVE  IoInv'
<1> DEFINE d == "rng"
           z == NServed(d) + 1
           h == HeadAt(d, z)
           r == Current(d)
           res == RngRequest(mem, disk, r)
<1>1. BaseInv /\ d \in Devices /\ DataInv(d)
  BY DEF IoInv, Devices
<1>2. running = d /\ Len(staged) < Len(avail[d]) /\ Execute(d, res) /\ RngExecuted(h, r, res) /\ faults' = faults
  BY <1>1, ServeRngIs
<1>3. h \in HeadIds /\ Sound(d, h, r) /\ r = ReqAt(d, z) /\ z \in 1 .. NAll(d)
  BY <1>1, <1>2, CurrentIs
<1>4. DataOk(d, h, r, mem)
  BY <1>1, <1>3 DEF DataInv
<1> HIDE DEF z, h, r, res
<1>5. /\ res.len \in Nat /\ res.mem = [a \in DRAM |-> res.mem[a]] /\ res.disk = disk
      /\ \A a \in DRAM : res.mem[a] # mem[a] => a \in Touched(d, r)
      /\ ~res.err /\ ~r.loops =>
            /\ Good(d, h, r) /\ IsFiniteSet(Touched(d, r)) /\ res.len = Cardinality(Touched(d, r))
            /\ \A a \in Touched(d, r) : a \in DRAM /\ res.mem[a] # Blank
  BY <1>2 DEF RngExecuted
<1>6. res.disk = [b \in DiskBytes |-> res.disk[b]]
  BY <1>1, <1>5 DEF BaseInv, IoTypeOK
<1>7. ASSUME ~res.err PROVE ServedOk(d, h, r, res.mem, res.len)
  <2>1. ASSUME ~r.loops PROVE NonBlank(res.mem, r) = Touched(d, r)
    <3>1. Touched(d, r) \subseteq Writable(r)
      BY <1>1, <1>3, TouchedWritable
    <3>2. Touched(d, r) \subseteq NonBlank(res.mem, r)
      BY <1>5, <1>7, <2>1, <3>1 DEF NonBlank
    <3>3. NonBlank(mem, r) \subseteq Touched(d, r)
      BY <1>4, <1>5, <1>7, <2>1 DEF DataOk
    <3>4. NonBlank(res.mem, r) \subseteq Touched(d, r)
      BY <1>5, <3>3 DEF NonBlank
    <3> QED BY <3>2, <3>4
  <2> QED BY <1>5, <1>7, <2>1 DEF ServedOk
<1>8. /\ BaseInv' /\ DataInv(d)' /\ ServedInv(d)' /\ \A e \in Devices : e # d => Still(e)
      /\ disk' = res.disk /\ may' = may
  BY <1>1, <1>2, <1>5, <1>6, <1>7, IoExecute DEF z, h, r
<1>9. DiskInv' /\ AckInv' /\ ReadInv'
  BY <1>5, <1>8, StillBlk DEF Devices
<1>10. \A e \in Devices : DataInv(e)' /\ ServedInv(e)'
  BY <1>8, StillData
<1> QED BY <1>8, <1>9, <1>10 DEF IoInv

\* A request of the disk that is acknowledged filled its buffers and, with the
\* status byte, nothing else.
LEMMA BlkServed ==
  ASSUME NEW h \in HeadIds, NEW r, Sound("blk", h, r), NEW fault, NEW res, Executed(h, r, fault, res), ~res.err,
         DataOk("blk", h, r, mem), \A b \in DiskBytes : disk[b] # Blank
  PROVE  ServedOk("blk", h, r, res.mem, res.len)
<1> DEFINE x == StatusAddr(r)
           T == Touched("blk", r)
<1>1. /\ Len(r.chain) > 1 /\ x \in Region("blk", h) /\ (res.mem[x] = S_OK => Success(h, r, res))
      /\ \A a \in DRAM : res.mem[a] # mem[a] => a \in T
  BY DEF Executed
<1>2. T = Fill(r) \cup {x} /\ T \subseteq Writable(r)
  BY <1>1, TouchedWritable DEF Touched, Devices
<1>3. x \in DRAM
  BY <1>1, RegionInside DEF Devices
<1>4. ASSUME res.mem[x] = S_OK PROVE Good("blk", h, r) /\ res.len = Cardinality(NonBlank(res.mem, r))
  <2>1. /\ Good("blk", h, r) /\ res.len = Cardinality(Fill(r)) + 1 /\ IsFiniteSet(Fill(r))
        /\ \A a \in Fill(r) : a \in DRAM /\ res.mem[a] # Blank
    BY <1>1, <1>4 DEF Success
  <2>2. x \notin Fill(r)
    BY <1>1, <2>1, FillIs
  <2>3. Cardinality(T) = Cardinality(Fill(r)) + 1
    BY <1>2, <2>1, <2>2, FS_AddElement
  <2>4. T \subseteq NonBlank(res.mem, r)
    BY <1>2, <1>3, <1>4, <2>1 DEF NonBlank, S_OK, Blank
  <2>5. NonBlank(mem, r) \subseteq T
    BY <2>1 DEF DataOk
  <2>6. NonBlank(res.mem, r) \subseteq T
    BY <1>1, <2>5 DEF NonBlank
  <2>7. NonBlank(res.mem, r) = T
    BY <2>4, <2>6
  <2> QED BY <2>1, <2>3, <2>7
<1> QED BY <1>1, <1>4 DEF ServedOk

\* Disk writes come from the request that is executed, and it is in the queue.
LEMMA IoServeBlkAt ==
  ASSUME IoInv, NEW fault \in {NoFault, 0, 1}, ServeBlk(fault),
         NEW z, z = NServed("blk") + 1, NEW h, h = HeadAt("blk", z), NEW r, r = Current("blk"),
         NEW res, res = BlkRequest(mem, disk, r, fault)
  PROVE  IoInv'
<1> DEFINE d == "blk"
<1>1. /\ BaseInv /\ d \in Devices /\ DataInv(d) /\ ServedInv(d) /\ IoTypeOK
      /\ DiskInv /\ AckInv /\ ReadInv
  BY DEF IoInv, Devices, BaseInv
<1>2. /\ running = d /\ Len(staged) < Len(avail[d]) /\ Execute(d, res) /\ Executed(h, r, fault, res)
      /\ faults' \in {faults, faults + 1}
  BY <1>1, ServeBlkIs
<1>3. h \in HeadIds /\ Sound(d, h, r) /\ r = ReqAt(d, z) /\ z \in 1 .. NAll(d)
  BY <1>1, <1>2, CurrentIs
<1>4. DataOk(d, h, r, mem)
  BY <1>1, <1>3 DEF DataInv
<1>5. \A b \in DiskBytes : disk[b] # Blank
  BY <1>1 DEF DiskInv
<1>6. /\ res.len \in Nat /\ res.mem = [a \in DRAM |-> res.mem[a]] /\ res.disk = [b \in DiskBytes |-> res.disk[b]]
      /\ \A a \in DRAM : res.mem[a] # mem[a] => Len(r.chain) > 1 /\ a \in Touched(d, r)
      /\ \A b \in DiskBytes : res.disk[b] # disk[b] => Good(d, h, r) /\ b \in Covered(r) /\ res.disk[b] = DataFor(r, b)
      /\ ~res.err => StatusAddr(r) \in Region(d, h) /\ (res.mem[StatusAddr(r)] = S_OK => Success(h, r, res))
  BY <1>2 DEF Executed
<1>7. ~res.err => ServedOk(d, h, r, res.mem, res.len)
  BY <1>2, <1>3, <1>4, <1>5, BlkServed
<1>8. /\ BaseInv' /\ DataInv(d)' /\ ServedInv(d)' /\ \A e \in Devices : e # d => Still(e)
      /\ NAll(d)' = NAll(d) /\ mem' = res.mem /\ disk' = res.disk /\ may' = may
      /\ NServed(d)' \in Nat /\ NServed(d)' <= NServed(d) + 1
      /\ NServed(d)' = NServed(d) + 1 => ~res.err
      /\ \A p \in 1 .. NAll(d) : p # z => Kept(d, p, p)
      /\ NServed(d) \in Nat /\ ReqAt(d, z)' = r /\ HeadAt(d, z)' = h
  BY <1>1, <1>2, <1>6, <1>7, IoExecute
<1>9. \A b : DataFor(r, b) = DataIn(mem, r, b)
  BY DEF DataFor, DataIn
<1>10. \A b : b \in Covered(r) => r.type = "OUT"
  BY DEF Covered
<1>11. WriteKept(z, z)
  <2>1. \A b : /\ Writes(z, b) <=> Good(d, h, r) /\ b \in Covered(r)
               /\ Writes(z, b)' <=> Good(d, h, r) /\ b \in Covered(r)
    BY <1>3, <1>8 DEF Writes, GoodAt
  <2>2. ASSUME NEW b, Good(d, h, r), b \in Covered(r) PROVE DataIn(mem', r, b) = DataIn(mem, r, b)
    <3>1. \A a \in BufBytes(r) : mem'[a] = mem[a]
      BY <1>3, <1>6, <1>8, <1>10, <2>2, OutKeeps
    <3>2. PICK a \in BufBytes(r) : \A m : DataIn(m, r, b) = IF a \in DRAM THEN m[a] ELSE Blank
      BY <1>3, <2>2, DataWhere
    <3> QED BY <3>1, <3>2
  <2> QED BY <1>3, <1>8, <2>1, <2>2 DEF WriteKept
<1>12. NServed(d) <= NAll(d) /\ NAll(d) \in Nat
  BY <1>1, ServedFirst
<1>13. \A p \in 1 .. NAll(d) : WriteKept(p, p)
  BY <1>1, <1>8, <1>11, WriteIsKept
<1>14. ASSUME NEW b, NEW p \in Nat \ {0} PROVE From(b, p) \subseteq From(b, p)'
  <2>1. \A q \in 1 .. NAll("blk") - 0 : WriteKept(q, q + 0)
    <3>1. \A q \in 1 .. NAll("blk") - 0 : q + 0 = q /\ q \in 1 .. NAll("blk")
      BY <1>12
    <3> QED BY <1>13, <3>1
  <2>2. NAll("blk") - 0 <= NAll("blk")' /\ p + 0 = p
    BY <1>8, <1>12
  <2>3. IoTypeOK'
    BY <1>8 DEF BaseInv
  <2>4. From(b, p + 0) \subseteq From(b, p)'
    BY <1>1, <2>1, <2>2, <2>3, FromMoves
  <2> QED BY <2>2, <2>4
<1>15. ASSUME NEW b, Good(d, h, r), b \in Covered(r), NEW p \in 1 .. z PROVE DataFor(r, b) \in From(b, p)
  <2>1. Writes(z, b)
    BY <1>3, <1>15 DEF Writes, GoodAt
  <2>2. z \in p .. NAll(d)
    BY <1>3, <1>12
  <2> QED BY <1>3, <1>9, <2>1, <2>2 DEF From
<1>16. z = NServed(d) + 1
  OBVIOUS
<1>17. ASSUME NEW p \in 1 .. NServed(d)' PROVE p \in 1 .. NServed(d) \/ (p = z /\ ~res.err)
  <2> DEFINE x == NServed(d)
             y == NServed(d)'
  <2>1. x \in Nat /\ y \in Nat /\ p \in 1 .. y /\ y <= x + 1
    BY <1>8
  <2> HIDE DEF x, y
  <2>2. p \in 1 .. x \/ (p = x + 1 /\ y = x + 1)
    BY <2>1
  <2> QED BY <1>8, <1>16, <2>2 DEF x, y
<1>18. \A p \in 1 .. NServed(d) : p \in 1 .. NAll(d) /\ p # z /\ p \in 1 .. z /\ p \in Nat \ {0}
  BY <1>8, <1>12, <1>16
<1>19. ASSUME NEW p \in 1 .. NServed(d) PROVE ReqAt(d, p)' = ReqAt(d, p) /\ (Acked(p)' <=> Acked(p))
  BY <1>1, <1>8, <1>18, AckedKept DEF Kept
<1>20. ASSUME NEW b \in DiskBytes PROVE disk'[b] = disk[b] \/ (Good(d, h, r) /\ b \in Covered(r) /\ disk'[b] = DataFor(r, b))
  BY <1>6, <1>8
<1>21. 1 \in 1 .. z /\ 1 \in Nat \ {0} /\ z \in 1 .. z /\ z \in Nat \ {0}
  BY <1>3, <1>12
<1>22. Acked(z)' <=> mem'[StatusAddr(r)] = S_OK
  BY <1>8 DEF Acked
<1>23. DiskInv'
  <2> SUFFICES ASSUME NEW b \in DiskBytes PROVE disk'[b] # Blank /\ disk'[b] \in may[b] \cup From(b, 1)'
    BY <1>8 DEF DiskInv
  <2>1. CASE disk'[b] = disk[b]
    <3>1. disk[b] # Blank /\ disk[b] \in may[b] \cup From(b, 1)
      BY <1>1 DEF DiskInv
    <3> QED BY <1>14, <1>21, <2>1, <3>1
  <2>2. CASE Good(d, h, r) /\ b \in Covered(r) /\ disk'[b] = DataFor(r, b)
    <3>1. DataFor(r, b) \in From(b, 1)'
      BY <1>14, <1>15, <1>21, <2>2
    <3>2. DataFor(r, b) # Blank
      <4>1. \A a \in BufBytes(r) : mem[a] # Blank
        BY <1>4, <1>10, <2>2 DEF DataOk
      <4>2. PICK a \in BufBytes(r) : a \in DRAM /\ \A m : DataIn(m, r, b) = IF a \in DRAM THEN m[a] ELSE Blank
        BY <1>3, <2>2, DataWhere
      <4> QED BY <1>9, <4>1, <4>2
    <3> QED BY <2>2, <3>1, <3>2
  <2> QED BY <1>20, <2>1, <2>2
<1>24. AckInv'
  <2> SUFFICES ASSUME NEW p \in 1 .. NServed(d)', Acked(p)', NEW b \in Covered(ReqAt(d, p)')
               PROVE  b \in DiskBytes /\ disk'[b] \in From(b, p)'
    BY DEF AckInv
  <2>1. CASE p \in 1 .. NServed(d)
    <3>1. b \in DiskBytes /\ disk[b] \in From(b, p)
      BY <1>1, <1>19, <2>1 DEF AckInv
    <3>2. disk'[b] \in From(b, p)
      BY <1>15, <1>18, <1>20, <2>1, <3>1
    <3> QED BY <1>14, <1>18, <2>1, <3>1, <3>2
  <2>2. CASE p = z /\ ~res.err
    <3>1. Success(h, r, res) /\ b \in Covered(r)
      BY <1>6, <1>8, <1>22, <2>2
    <3>2. Good(d, h, r) /\ b \in DiskBytes /\ disk'[b] = DataFor(r, b)
      BY <1>8, <3>1 DEF Success
    <3>3. DataFor(r, b) \in From(b, z)
      BY <1>15, <1>21, <3>1, <3>2
    <3> QED BY <1>14, <1>21, <2>2, <3>2, <3>3
  <2> QED BY <1>17, <2>1, <2>2
<1>25. ReadInv'
  <2> SUFFICES ASSUME NEW p \in 1 .. NServed(d)', ReqAt(d, p)'.type = "IN", Acked(p)',
                      NEW i \in DOMAIN Addrs(Buffers(ReqAt(d, p)')),
                      NEW b, b = ReqAt(d, p)'.sector * SECTOR_SIZE + i - 1
               PROVE  LET v == mem'[Addrs(Buffers(ReqAt(d, p)'))[i]]
                      IN  /\ b \in DiskBytes /\ v \in may[b] \cup From(b, 1)'
                          /\ \A q \in 1 .. p - 1 :
                                Acked(q)' /\ b \in Covered(ReqAt(d, q)') => v \in From(b, q)'
    BY <1>8 DEF ReadInv
  <2> DEFINE v == mem'[Addrs(Buffers(ReqAt(d, p)'))[i]]
  <2>1. \A q \in 1 .. p - 1 : q \in 1 .. NServed(d)
    BY <1>8
  <2>2. /\ b \in DiskBytes /\ v \in may[b] \cup From(b, 1)
        /\ \A q \in 1 .. p - 1 : Acked(q) /\ b \in Covered(ReqAt(d, q)) => v \in From(b, q)
    <3>1. CASE p \in 1 .. NServed(d)
      <4>1. ReqAt(d, p)' = ReqAt(d, p) /\ Acked(p)
        BY <1>19, <3>1
      <4>2. v = mem[Addrs(Buffers(ReqAt(d, p)))[i]]
        BY <1>1, <1>8, <1>18, <3>1, <4>1, AckedKept
      <4> QED BY <1>1, <3>1, <4>1, <4>2 DEF ReadInv
    <3>2. CASE p = z /\ ~res.err
      <4>1. Success(h, r, res) /\ ReqAt(d, p)' = r
        BY <1>6, <1>8, <1>22, <3>2
      <4>2. b \in DiskBytes /\ v = disk[b]
        BY <1>8, <4>1 DEF Success
      <4>3. disk[b] \in may[b] \cup From(b, 1)
        BY <1>1, <4>2 DEF DiskInv
      <4>4. \A q \in 1 .. p - 1 : Acked(q) /\ b \in Covered(ReqAt(d, q)) => disk[b] \in From(b, q)
        BY <1>1, <2>1 DEF AckInv
      <4> HIDE DEF v
      <4> QED BY <4>2, <4>3, <4>4
    <3> QED BY <1>17, <3>1, <3>2
  <2> HIDE DEF v
  <2>3. v \in may[b] \cup From(b, 1)'
    BY <1>14, <1>21, <2>2
  <2>4. \A q \in 1 .. p - 1 : Acked(q)' /\ b \in Covered(ReqAt(d, q)') => v \in From(b, q)'
    BY <1>14, <1>18, <1>19, <2>1, <2>2
  <2> QED BY <2>2, <2>3, <2>4 DEF v
<1>26. \A e \in Devices : DataInv(e)' /\ ServedInv(e)'
  BY <1>8, StillData
<1> QED BY <1>8, <1>23, <1>24, <1>25, <1>26 DEF IoInv

\* The execution of a block request preserves the invariant, whatever the host
\* does.
LEMMA IoServeBlk ==
  ASSUME IoInv, NEW fault \in {NoFault, 0, 1}, ServeBlk(fault)
  PROVE  IoInv'
<1>1. \A z, h, r, res : z = NServed("blk") + 1 /\ h = HeadAt("blk", z) /\ r = Current("blk")
                        /\ res = BlkRequest(mem, disk, r, fault) => IoInv'
  BY IoServeBlkAt
<1> QED BY <1>1

-----------------------------------------------------------------------------
(* The theorems. *)

\* The invariant holds at first.
LEMMA IoInit == Init => IoInv
<1> SUFFICES ASSUME Init PROVE IoInv
  OBVIOUS
<1>1. BaseInv
  BY BaseInit
<1>2. /\ disk = [b \in DiskBytes |-> 0] /\ may = [b \in DiskBytes |-> {0}] /\ running = None
      /\ avail = [d \in Devices |-> << >>] /\ used = [d \in Devices |-> << >>]
  BY DEF Init
<1>3. ASSUME NEW d \in Devices PROVE 1 .. NAll(d) = {} /\ 1 .. NServed(d) = {}
  <2>1. Len(<< >>) = 0 /\ running # d
    BY <1>2 DEF Devices, None
  <2>2. NAll(d) = 0 + 0 /\ NServed(d) = 0 + 0
    BY <1>2, <2>1 DEF NAll, NServed
  <2> QED BY <2>2
<1>4. \A d \in Devices : DataInv(d) /\ ServedInv(d)
  BY <1>3 DEF DataInv, ServedInv
<1>5. AckInv /\ ReadInv
  BY <1>3 DEF AckInv, ReadInv, Devices
<1>6. DiskInv
  <2>1. \A b \in DiskBytes : disk[b] = 0 /\ may[b] = {0}
    BY <1>2
  <2> QED BY <2>1 DEF DiskInv, Blank
<1> QED BY <1>1, <1>4, <1>5, <1>6 DEF IoInv

\* IoInv is inductive.
LEMMA IoStep == IoInv /\ [Next]_vars => IoInv'
<1> SUFFICES ASSUME IoInv, [Next]_vars PROVE IoInv'
  OBVIOUS
<1>1. BaseInv /\ BaseInv'
  BY BaseStep DEF IoInv
<1>2. ASSUME Idle PROVE IoInv'
  <2>1. /\ \A e \in Devices : SameQueue(e) /\ NServed(e)' = NServed(e)
        /\ \A e \in Devices : \A p \in 1 .. NServed(e) : LenAt(e, p)' = LenAt(e, p)
    BY <1>1, <1>2, BaseOther DEF Idle
  <2>2. \A e \in Devices : NAll(e)' = NAll(e) /\ \A p : HeadAt(e, p)' = HeadAt(e, p)
    BY <2>1, SamePositions
  <2> QED BY <1>1, <1>2, <2>1, <2>2, IoQuiet DEF Idle
<1>3. CASE UNCHANGED vars
  BY <1>2, <1>3 DEF vars, drvVars, Idle
<1>4. ASSUME NEW d \in Devices, Publish(d) PROVE IoInv'
  BY <1>1, <1>4, BasePublish, IoQuiet
<1>5. ASSUME NEW d \in Devices, Collect(d) \/ Reset(d) PROVE IoInv'
  BY <1>5, IoCollect, IoReset
<1>6. ASSUME NEW d \in Devices, WriteQueueNum(d) \/ WriteQueuePfn(d) \/ Notify(d) \/ TakeIrq(d) \/ Leave(d)
      PROVE  IoInv'
  BY <1>2, <1>6, IdleSteps
<1>7. ASSUME NEW d \in Devices, NEW h \in HeadIds, NEW s \in Shapes(d), Submit(d, h, s) PROVE IoInv'
  BY <1>7, IoSubmit
<1>8. ASSUME NEW fault \in {NoFault, 0, 1}, ServeBlk(fault) PROVE IoInv'
  BY <1>8, IoServeBlk
<1>9. ASSUME ServeRng PROVE IoInv'
  BY <1>9, IoServeRng
<1> QED BY <1>3, <1>4, <1>5, <1>6, <1>7, <1>8, <1>9, Steps

\* In every state each byte of the disk, each acknowledged write or read in the
\* queue and each length agree with what the requests before and after it hold.
THEOREM IoInvariant == Spec => []IoInv
BY IoInit, IoStep, PTL DEF Spec

\* A write in the queue is one of the requests that its driver has not taken back.
LEMMA FromInQueue ==
  ASSUME BaseInv, NEW b
  PROVE  From(b, 1) \subseteq InQueue(b)
<1> DEFINE G == {g \in HeadIds : request["blk"][g] # NoRequest /\ b \in Covered(request["blk"][g])}
<1>1. InQueue(b) = {DataFor(request["blk"][h], b) : h \in G}
  BY DEF InQueue
<1> SUFFICES ASSUME NEW q \in 1 .. NAll("blk"), Writes(q, b)
             PROVE  DataIn(mem, ReqAt("blk", q), b) \in InQueue(b)
  BY DEF From
<1>2. HeadAt("blk", q) \in G
  BY QueuedSound DEF Writes, ReqAt, Devices
<1>3. DataIn(mem, ReqAt("blk", q), b) = DataFor(request["blk"][HeadAt("blk", q)], b)
  BY DEF DataIn, DataFor, ReqAt
<1> HIDE DEF G
<1> QED BY <1>1, <1>2, <1>3

\* The used entries are the first positions of a queue.
LEMMA UsedAt ==
  ASSUME BaseInv, NEW d \in Devices
  PROVE  /\ DOMAIN used[d] = 1 .. Len(used[d])
         /\ \A i \in DOMAIN used[d] : /\ i \in 1 .. NServed(d) /\ request[d][used[d][i].head] = ReqAt(d, i)
                                      /\ used[d][i].len = LenAt(d, i)
         /\ used[d] # << >> => 1 \in DOMAIN used[d] /\ Head(used[d]) = used[d][1]
<1> DEFINE u == used[d]
           n == Len(u)
           s == NServed(d)
           k == Len(staged)
<1>1. u \in Seq(Entries) /\ n \in Nat /\ k \in Nat /\ (s = n + k \/ s = n)
  BY Lengths DEF BaseInv
<1>2. DOMAIN u = 1 .. n
  BY <1>1, LenProperties
<1>3. u # << >> => n > 0 /\ Head(u) = u[1]
  BY <1>1
<1> HIDE DEF s, n, k
<1>4. (n > 0 => 1 \in 1 .. n) /\ \A i \in 1 .. n : i <= n /\ i \in 1 .. s
  BY <1>1
<1>5. \A i \in 1 .. n : request[d][u[i].head] = ReqAt(d, i) /\ u[i].len = LenAt(d, i)
  BY <1>4 DEF ReqAt, HeadAt, LenAt, n
<1> QED BY <1>2, <1>3, <1>4, <1>5 DEF n, s

\* The disk keeps what it acknowledged, through failures, requests that are run
\* again and resets: for every disk, every number of requests and any shapes.
THEOREM AckedKeptSafe == Spec => []AckedWritesKept
<1>1. IoInv => AckedWritesKept
  <2> SUFFICES ASSUME IoInv PROVE AckedWritesKept
    OBVIOUS
  <2>1. BaseInv /\ DiskInv /\ AckInv /\ "blk" \in Devices
    BY DEF IoInv, Devices
  <2>2. \A b \in DiskBytes : disk[b] \in may[b] \cup InQueue(b)
    BY <2>1, FromInQueue DEF DiskInv
  <2>3. ASSUME NEW i \in DOMAIN used["blk"], StatusOf(request["blk"][used["blk"][i].head]) = S_OK
        PROVE  Covered(request["blk"][used["blk"][i].head]) \subseteq DiskBytes
    <3>1. i \in 1 .. NServed("blk") /\ request["blk"][used["blk"][i].head] = ReqAt("blk", i)
      BY <2>1, <2>3, UsedAt
    <3>2. Acked(i)
      BY <2>3, <3>1 DEF Acked, StatusOf, StatusAddr
    <3> QED BY <2>1, <3>1, <3>2 DEF AckInv
  <2> QED BY <2>2, <2>3 DEF AckedWritesKept
<1> QED BY <1>1, IoInvariant, PTL

\* A read that the driver finds completed has in every byte of its buffers what
\* an acknowledged write, or one still in the queue, put there.
THEOREM ReadsCoherentSafe == Spec => []ReadsCoherent
<1>1. IoInv => ReadsCoherent
  <2> SUFFICES ASSUME IoInv, used["blk"] # << >>,
                      NEW r, r = request["blk"][Head(used["blk"]).head], r.type = "IN", StatusOf(r) = S_OK,
                      NEW i \in DOMAIN Addrs(Buffers(r)), NEW b, b = r.sector * SECTOR_SIZE + i - 1
               PROVE  b \in DiskBytes /\ mem[Addrs(Buffers(r))[i]] \in may[b] \cup InQueue(b)
    BY DEF ReadsCoherent
  <2>1. BaseInv /\ ReadInv /\ "blk" \in Devices
    BY DEF IoInv, Devices
  <2>2. 1 \in 1 .. NServed("blk") /\ r = ReqAt("blk", 1)
    BY <2>1, UsedAt
  <2>3. Acked(1)
    BY <2>2 DEF Acked, StatusOf, StatusAddr
  <2>4. b \in DiskBytes /\ mem[Addrs(Buffers(r))[i]] \in may[b] \cup From(b, 1)
    BY <2>1, <2>2, <2>3 DEF ReadInv
  <2> QED BY <2>1, <2>4, FromInQueue
<1> QED BY <1>1, IoInvariant, PTL

\* The length of a used entry is the number of bytes that the device wrote, for
\* both devices and every shape of chain.
THEOREM UsedLenSafe == Spec => []UsedLenExact
<1>1. IoInv => UsedLenExact
  <2> SUFFICES ASSUME IoInv, NEW d \in Devices, NEW i \in DOMAIN used[d],
                      NEW r, r = request[d][used[d][i].head], ~r.loops, d = "blk" => StatusOf(r) = S_OK
               PROVE  used[d][i].len = Cardinality({a \in Writable(r) \cap DRAM : mem[a] # Blank})
    BY DEF UsedLenExact
  <2>1. BaseInv /\ ServedInv(d)
    BY DEF IoInv
  <2>2. i \in 1 .. NServed(d) /\ r = ReqAt(d, i) /\ used[d][i].len = LenAt(d, i)
    BY <2>1, UsedAt
  <2>3. ServedOk(d, HeadAt(d, i), r, mem, LenAt(d, i))
    BY <2>1, <2>2 DEF ServedInv
  <2>4. d = "blk" => mem[StatusAddr(r)] = S_OK
    BY DEF StatusOf, StatusAddr
  <2>5. LenAt(d, i) = Cardinality(NonBlank(mem, r))
    BY <2>3, <2>4 DEF ServedOk
  <2> QED BY <2>2, <2>5 DEF NonBlank
<1> QED BY <1>1, IoInvariant, PTL
=============================================================================
