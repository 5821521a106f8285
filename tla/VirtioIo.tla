------------------------------ MODULE VirtioIo ------------------------------
(***************************************************************************)
(* virtio-blk and virtio-rng at work on the guest's memory and on the disk *)
(* image, with their interrupts (IRQ 2 and 7) and a driver for each.       *)
(*                                                                         *)
(* The rings are abstracted to the sequences of VirtioQueue, which         *)
(* VirtioBlkSys shows that they implement; here a request has its data.    *)
(* The drivers are external: each head has its own header, buffers and     *)
(* status byte, and some chains are malformed in the ways that the code    *)
(* tells apart.  A file operation of the host may fail.                    *)
(***************************************************************************)
EXTENDS VirtioData, FiniteSets

CONSTANTS
    HeadIds,      \* request heads of each device
    BufLen,       \* bytes of data buffers that each head has
    BlkShapes,    \* requests that the block driver makes, see Chain
    RngShapes,    \* requests that the RNG driver makes
    MaxRequests,  \* requests made in a behaviour
    MaxFaults     \* malformed requests and failing file operations in a behaviour

Devices == {"blk", "rng"}
None == "none"
NoRequest == [chain |-> << >>, loops |-> FALSE, type |-> None, sector |-> 0]
Blank == -1            \* content of a buffer that nobody wrote

VARIABLES
    mem, disk,
    queue_num, queue_pfn, interrupt_status,  \* registers of each device
    irq_pending,       \* PLIC pending bit of each device
    avail, used,       \* heads made available; used entries [head, len]
    request,           \* device -> head -> request
    running, staged,   \* process_queue: its device, the entries written so far
    no_interrupt,      \* device -> flag of the available ring
    handler,           \* device -> its driver is in its interrupt handler
    made, faults,      \* counters
    may                \* history: disk byte -> values it may have by what the
                       \* driver was told, requests in the queue aside

regVars == <<queue_num, queue_pfn, interrupt_status, irq_pending>>
drvVars == <<no_interrupt, handler, made, may>>
vars == <<mem, disk, regVars, avail, used, request, running, staged, faults, drvVars>>

-----------------------------------------------------------------------------
(* Chains.  Each head of a device owns a header byte, BufLen bytes of      *)
(* buffers and a status byte; the last byte of DRAM is nobody's.           *)
RegionLen == BufLen + 2
Slot(d, h) == (h + IF d = "blk" THEN 0 ELSE Cardinality(HeadIds)) * RegionLen
Outside == 2 * Cardinality(HeadIds) * RegionLen + 1

Desc(addr, len, write) == [addr |-> addr, len |-> len, write |-> write]

\* A shape says where in the region the data buffers are and has at most one
\* fault: "data" lets the last buffer, which the device comes to, reach past the
\* end of DRAM, "status" and "header" put that descriptor outside, "short" leaves
\* only the header, "loop" leads the chain back to its start, "readonly" makes
\* the first buffer of the RNG one that the device must not write.
ShapeOK(s) ==
    /\ s.type \in {"IN", "OUT", "FLUSH", "GET_ID", "UNKNOWN", "RNG"}
    /\ s.sector \in 0 .. U64 - 1
    /\ s.fault \in {"none", "data", "status", "header", "short", "loop", "readonly"}
    /\ s.bufs \in Seq([off : Nat, len : Nat])
    /\ \A i \in DOMAIN s.bufs :
          /\ s.bufs[i].off + s.bufs[i].len <= BufLen
          /\ \A j \in 1 .. i - 1 : s.bufs[j].off + s.bufs[j].len <= s.bufs[i].off
    /\ s.fault = "data" =>
          /\ s.type \in {"IN", "OUT", "RNG"}
          /\ s.bufs # << >> /\ s.bufs[Len(s.bufs)].len > 1

ASSUME IoAssumption ==
    /\ IsFiniteSet(HeadIds) /\ HeadIds = 0 .. Cardinality(HeadIds) - 1
    /\ DRAM = 0 .. Outside - 1
    \* lengths are u32 and chains are short, offsets are 64-bit
    /\ BufLen \in Nat /\ BufLen + SECTOR_SIZE < U64 \div 2
    /\ MaxRequests \in Nat /\ MaxFaults \in Nat
    /\ \A s \in BlkShapes : ShapeOK(s) /\ s.type # "RNG"
    /\ \A s \in RngShapes :
          /\ ShapeOK(s) /\ s.type = "RNG" /\ s.bufs # << >>
          /\ s.fault = "data" => Len(s.bufs) <= RNG_MAX_CHAIN

Chain(d, h, s) ==
    LET base == Slot(d, h) + 1
        Buf(i) == Desc(IF s.fault = "data" /\ i = Len(s.bufs) THEN Outside - 1
                       ELSE base + s.bufs[i].off,
                       s.bufs[i].len,
                       IF d = "rng" THEN s.fault # "readonly" \/ i > 1 ELSE s.type # "OUT")
        bufs == [i \in DOMAIN s.bufs |-> Buf(i)]
        header == Desc(IF s.fault = "header" THEN Outside ELSE Slot(d, h), 1, FALSE)
        status == Desc(IF s.fault = "status" THEN Outside ELSE base + BufLen, 1, TRUE)
    IN  IF d = "rng" THEN bufs
        ELSE IF s.fault = "short" THEN <<header>>
        ELSE <<header>> \o bufs \o <<status>>

Request(d, h, s) ==
    [chain |-> Chain(d, h, s), loops |-> s.fault = "loop", type |-> s.type, sector |-> s.sector]

Buffers(r) == SubSeq(r.chain, 2, Len(r.chain) - 1)
Writable(r) == LET a == Addrs(Only(r.chain, TRUE)) IN {a[i] : i \in DOMAIN a}
StatusOf(r) == mem[r.chain[Len(r.chain)].addr]

\* The driver clears the buffers of heads that it takes back.
Cleared(d, heads) ==
    [a \in DRAM |-> IF a \div RegionLen \in {Slot(d, h) \div RegionLen : h \in heads}
                    THEN Blank ELSE mem[a]]

\* Byte i of the data of the n-th request.
Payload(n, i) == 10 * n + i

-----------------------------------------------------------------------------
Init ==
    /\ mem = [a \in DRAM |-> Blank] /\ disk = [b \in DiskBytes |-> 0]
    /\ queue_num = [d \in Devices |-> 0] /\ queue_pfn = [d \in Devices |-> FALSE]
    /\ interrupt_status = [d \in Devices |-> 0]
    /\ irq_pending = [d \in Devices |-> FALSE]
    /\ avail = [d \in Devices |-> << >>] /\ used = [d \in Devices |-> << >>]
    /\ request = [d \in Devices |-> [h \in HeadIds |-> NoRequest]]
    /\ running = None /\ staged = << >>
    /\ no_interrupt = [d \in Devices |-> FALSE] /\ handler = [d \in Devices |-> FALSE]
    /\ made = 0 /\ faults = 0
    /\ may = [b \in DiskBytes |-> {0}]

\* QUEUE_NUM and QUEUE_PFN, in either order for the RNG, which checks both.
WriteQueueNum(d) ==
    /\ running = None /\ queue_num[d] = 0
    /\ queue_num' = [queue_num EXCEPT ![d] = Cardinality(HeadIds)]
    /\ UNCHANGED <<mem, disk, queue_pfn, interrupt_status, irq_pending, avail, used, request,
                   running, staged, faults, drvVars>>

WriteQueuePfn(d) ==
    /\ running = None /\ ~queue_pfn[d] /\ (d = "blk" => queue_num[d] # 0)
    /\ queue_pfn' = [queue_pfn EXCEPT ![d] = TRUE]
    /\ UNCHANGED <<mem, disk, queue_num, interrupt_status, irq_pending, avail, used, request,
                   running, staged, faults, drvVars>>

\* The driver offers a request at its first free head: buffers for the device
\* to write are blank.
Submit(d, h, s) ==
    /\ running = None /\ queue_pfn[d] /\ made < MaxRequests
    /\ request[d][h] = NoRequest /\ \A g \in HeadIds : request[d][g] = NoRequest => h <= g
    /\ made' = made + 1
    /\ s.fault # "none" => faults < MaxFaults
    /\ faults' = IF s.fault = "none" THEN faults ELSE faults + 1
    /\ LET r == Request(d, h, s)
           out == Addrs(Only(r.chain, FALSE))
       IN  /\ request' = [request EXCEPT ![d][h] = r]
           /\ mem' = [a \in DRAM |->
                        IF a \in Writable(r) THEN Blank
                        ELSE IF \E i \in DOMAIN out : out[i] = a
                        THEN Payload(made, CHOOSE i \in DOMAIN out : out[i] = a)
                        ELSE mem[a]]
    /\ avail' = [avail EXCEPT ![d] = Append(@, h)]
    /\ UNCHANGED <<disk, regVars, used, running, staged, no_interrupt, handler, may>>

\* QUEUE_NOTIFY; the two early returns of process_queue.
Notify(d) ==
    /\ running = None /\ avail[d] # << >>
    /\ running' = IF queue_pfn[d] /\ queue_num[d] # 0 THEN d ELSE None
    /\ staged' = << >>
    /\ UNCHANGED <<mem, disk, regVars, avail, used, request, faults, drvVars>>

\* One request is executed, with an entry in the used ring; with Err
\* process_queue ends, publishes nothing, and the guest's store faults.
Execute(d, res) ==
    /\ mem' = res.mem /\ disk' = res.disk
    /\ staged' = IF res.err THEN << >>
                 ELSE Append(staged, [head |-> avail[d][Len(staged) + 1], len |-> res.len])
    /\ running' = IF res.err THEN None ELSE d
    /\ UNCHANGED <<regVars, avail, used, request, drvVars>>

Current(d) == request[d][avail[d][Len(staged) + 1]]

ServeBlk(fault) ==
    /\ running = "blk" /\ Len(staged) < Len(avail["blk"])
    /\ fault # NoFault => faults < MaxFaults
    /\ faults' = IF fault = NoFault THEN faults ELSE faults + 1
    /\ Execute("blk", BlkRequest(mem, disk, Current("blk"), fault))

ServeRng ==
    /\ running = "rng" /\ Len(staged) < Len(avail["rng"])
    /\ Execute("rng", RngRequest(mem, disk, Current("rng")))
    /\ UNCHANGED faults

\* The end of process_queue: the used index, then trigger_interrupt.
Publish(d) ==
    /\ running = d /\ Len(staged) = Len(avail[d])
    /\ running' = None /\ staged' = << >>
    /\ used' = [used EXCEPT ![d] = @ \o staged]
    /\ avail' = [avail EXCEPT ![d] = << >>]
    /\ interrupt_status' = [interrupt_status EXCEPT ![d] = IF no_interrupt[d] THEN @ ELSE 1]
    /\ irq_pending' = [irq_pending EXCEPT ![d] = @ \/ ~no_interrupt[d]]
    /\ UNCHANGED <<mem, disk, queue_num, queue_pfn, request, faults, drvVars>>

-----------------------------------------------------------------------------
(* The interrupt handler of a driver. *)

\* Claim the IRQ, acknowledge what INTERRUPT_STATUS says, suppress more
\* interrupts: nothing when the status is 0.
TakeIrq(d) ==
    /\ running = None /\ irq_pending[d] /\ ~handler[d]
    /\ irq_pending' = [irq_pending EXCEPT ![d] = FALSE]
    /\ interrupt_status' = [interrupt_status EXCEPT ![d] = 0]
    /\ handler' = [handler EXCEPT ![d] = interrupt_status[d] # 0]
    /\ no_interrupt' = [no_interrupt EXCEPT ![d] = interrupt_status[d] # 0]
    /\ UNCHANGED <<mem, disk, queue_num, queue_pfn, avail, used, request, running, staged,
                   faults, made, may>>

\* The disk bytes that a write is for, and the data for byte b.
Covered(r) == IF r.type # "OUT" THEN {}
              ELSE {r.sector * SECTOR_SIZE + i - 1 : i \in DOMAIN Addrs(Buffers(r))}
DataFor(r, b) == LET a == Addrs(Buffers(r))[b - r.sector * SECTOR_SIZE + 1]
                 IN  IF a \in DRAM THEN mem[a] ELSE Blank

\* What the driver knows of the disk: an acknowledged write replaces what was
\* there, one that failed or was given up may have.
Told(r, acked) ==
    [b \in DiskBytes |-> IF b \notin Covered(r) THEN may[b]
                         ELSE IF acked THEN {DataFor(r, b)}
                         ELSE may[b] \cup {DataFor(r, b)}]

Collect(d) ==
    /\ running = None /\ handler[d] /\ used[d] # << >>
    /\ LET h == Head(used[d]).head
           r == request[d][h]
       IN  /\ request' = [request EXCEPT ![d][h] = NoRequest]
           /\ may' = IF d = "blk" THEN Told(r, StatusOf(r) = S_OK) ELSE may
           /\ mem' = Cleared(d, {h})
    /\ used' = [used EXCEPT ![d] = Tail(@)]
    /\ UNCHANGED <<disk, regVars, avail, running, staged, faults, no_interrupt, handler, made>>

Leave(d) ==
    /\ running = None /\ handler[d] /\ used[d] = << >>
    /\ handler' = [handler EXCEPT ![d] = FALSE]
    /\ no_interrupt' = [no_interrupt EXCEPT ![d] = FALSE]
    /\ UNCHANGED <<mem, disk, regVars, avail, used, request, running, staged, faults, made, may>>

\* STATUS with 0: the driver gives up its requests.  The PLIC keeps its
\* pending bit.
Reset(d) ==
    /\ running = None /\ queue_pfn[d]
    /\ queue_num' = [queue_num EXCEPT ![d] = 0] /\ queue_pfn' = [queue_pfn EXCEPT ![d] = FALSE]
    /\ interrupt_status' = [interrupt_status EXCEPT ![d] = 0]
    /\ avail' = [avail EXCEPT ![d] = << >>] /\ used' = [used EXCEPT ![d] = << >>]
    /\ request' = [request EXCEPT ![d] = [h \in HeadIds |-> NoRequest]]
    /\ handler' = [handler EXCEPT ![d] = FALSE]
    /\ no_interrupt' = [no_interrupt EXCEPT ![d] = FALSE]
    /\ may' = [b \in DiskBytes |->
                 may[b] \cup {DataFor(request["blk"][h], b) : h \in
                     {g \in HeadIds : d = "blk" /\ request["blk"][g] # NoRequest
                                      /\ b \in Covered(request["blk"][g])}}]
    /\ mem' = Cleared(d, HeadIds)
    /\ UNCHANGED <<disk, irq_pending, running, staged, faults, made>>

Next ==
    \/ \E d \in Devices :
          \/ WriteQueueNum(d) \/ WriteQueuePfn(d) \/ Notify(d) \/ Publish(d)
          \/ TakeIrq(d) \/ Collect(d) \/ Leave(d) \/ Reset(d)
    \/ \E h \in HeadIds :
          \/ \E s \in BlkShapes : Submit("blk", h, s)
          \/ \E s \in RngShapes : Submit("rng", h, s)
    \/ \E fault \in {NoFault, 0, 1} : ServeBlk(fault)
    \/ ServeRng

Spec == Init /\ [][Next]_vars

-----------------------------------------------------------------------------
\* The data that writes in the queue have for byte b.
InQueue(b) ==
    {DataFor(request["blk"][h], b) :
        h \in {g \in HeadIds : request["blk"][g] # NoRequest /\ b \in Covered(request["blk"][g])}}

\* The disk keeps what it acknowledged: whatever failed, was run again after
\* an Err or was cut off by a reset, a byte holds the data of the last write
\* that was acknowledged, or of one not acknowledged since.  A write that is
\* acknowledged is wholly on the disk, also when its sector makes the range
\* check wrap around.
AckedWritesKept ==
    /\ \A b \in DiskBytes : disk[b] \in may[b] \cup InQueue(b)
    /\ \A i \in DOMAIN used["blk"] :
          LET r == request["blk"][used["blk"][i].head]
          IN  StatusOf(r) = S_OK => Covered(r) \subseteq DiskBytes

\* A read that completes returns, through however many buffers, what the disk
\* held: for each byte a value that an acknowledged write or one still in the
\* queue put there.
ReadsCoherent ==
    used["blk"] # << >> =>
        LET r == request["blk"][Head(used["blk"]).head]
            a == Addrs(Buffers(r))
        IN  r.type = "IN" /\ StatusOf(r) = S_OK =>
              \A i \in DOMAIN a :
                  LET b == r.sector * SECTOR_SIZE + i - 1
                  IN  b \in DiskBytes /\ mem[a[i]] \in may[b] \cup InQueue(b)

\* The length in a used entry of a successful request is the number of bytes
\* that the device wrote for it, and the driver finds no blank byte among them:
\* also when the RNG cuts a chain, skips a buffer, or runs a request again.
UsedLenExact ==
    \A d \in Devices : \A i \in DOMAIN used[d] :
        LET r == request[d][used[d][i].head]
        IN  ~r.loops /\ (d = "blk" => StatusOf(r) = S_OK) =>
              used[d][i].len = Cardinality({a \in Writable(r) \cap DRAM : mem[a] # Blank})

\* A request changes the disk as a whole or not at all, unless the host's file
\* operation fails: a buffer outside DRAM is found before anything is written.
WritesWhole ==
    [][disk' # disk /\ faults' = faults =>
          LET r == Current("blk")
          IN  disk' = [b \in DiskBytes |-> IF b \in Covered(r) THEN DataFor(r, b) ELSE disk[b]]]_vars

\* A device writes only what the driver gave it to write: no byte outside the
\* device-writable buffers of the request being executed changes.
DeviceKeepsOut ==
    [][running # None /\ mem' # mem =>
          {a \in DRAM : mem'[a] # mem[a]} \subseteq Writable(Current(running))]_vars
=============================================================================
