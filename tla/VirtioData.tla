----------------------------- MODULE VirtioData -----------------------------
(***************************************************************************)
(* How virtio-blk and virtio-rng execute one request: src/virtio.rs and    *)
(* src/virtio_rng.rs, the bodies of the loops in process_queue.            *)
(*                                                                         *)
(* Guest memory is a function on DRAM; any other address makes read_u8 or  *)
(* write_u8 fail, and the `?` after it ends process_queue with what was    *)
(* done before left in place.  A request is its descriptor chain, whether  *)
(* the chain runs into itself, and for virtio-blk the header's content.    *)
(* Each handler returns a result:                                          *)
(*   err           process_queue ends with Err                             *)
(*   status, len   status byte and length of the used entry                *)
(*   mem, disk     guest memory and disk image afterwards                  *)
(***************************************************************************)
EXTENDS Integers, Sequences

CONSTANTS
    DRAM,            \* addresses that are guest memory
    SECTOR_SIZE,     \* 512 in the code
    capacity,        \* sectors of the disk image
    U64,             \* 2^64 in the code: sector arithmetic is modulo this
    BLK_MAX_CHAIN,   \* MAX_CHAIN_LEN of virtio-blk, 256
    RNG_MAX_CHAIN,   \* MAX_CHAIN_LEN of virtio-rng, 64
    SERIAL_LEN       \* length of DEVICE_SERIAL, 16

ASSUME DataAssumption ==
    /\ SECTOR_SIZE \in Nat \ {0} /\ capacity \in Nat /\ U64 \in Nat
    \* a file offset is a signed 64-bit number
    /\ capacity * SECTOR_SIZE < U64 \div 2
    /\ BLK_MAX_CHAIN \in Nat /\ RNG_MAX_CHAIN \in Nat /\ SERIAL_LEN \in Nat

S_OK == 0
S_IOERR == 2
RandomByte == 90    \* any byte of generate_random_bytes
SerialByte == 80    \* any byte of DEVICE_SERIAL
NoFault == -1       \* the host completes the file operation

DiskBytes == 0 .. capacity * SECTOR_SIZE - 1

-----------------------------------------------------------------------------
\* The descriptors in the order in which the walk meets them, at most limit.
Walk(r, limit) ==
    LET n == Len(r.chain)
    IN  IF r.loops \/ n > limit
        THEN [i \in 1 .. limit |-> r.chain[((i - 1) % n) + 1]]
        ELSE r.chain

Ends(r, limit) == ~r.loops /\ Len(r.chain) <= limit

\* The descriptors that are device-writable, or not; the others are empty.
Only(descs, write) ==
    [i \in DOMAIN descs |->
        [descs[i] EXCEPT !.len = IF descs[i].write = write THEN @ ELSE 0]]

\* The addresses of all bytes of some descriptors, in order.
Bytes(desc) == [j \in 1 .. desc.len |-> desc.addr + j - 1]
Addrs(descs) ==
    LET first[n \in 0 .. Len(descs)] ==
            IF n = 0 THEN << >> ELSE first[n - 1] \o Bytes(descs[n])
    IN  first[Len(descs)]

\* How many bytes are reached before the first address outside DRAM.
Reached(addrs) ==
    CHOOSE n \in 0 .. Len(addrs) :
        /\ \A i \in 1 .. n : addrs[i] \in DRAM
        /\ n < Len(addrs) => addrs[n + 1] \notin DRAM

\* write_u8 byte after byte, up to the first that fails
Stored(m, addrs, bytes) ==
    LET Hits(a) == {i \in 1 .. Reached(addrs) : addrs[i] = a}
    IN  [a \in DRAM |->
            IF Hits(a) = {} THEN m[a]
            ELSE bytes[CHOOSE i \in Hits(a) : \A k \in Hits(a) : k <= i]]

-----------------------------------------------------------------------------
sectors_needed(n) == (n + SECTOR_SIZE - 1) \div SECTOR_SIZE

\* Mutant of InRange: the check forgets the length of the request.
InRange_start(sector, n) == sector < capacity

\* sector + sectors_needed > capacity is refused; the sum wraps around in u64.
InRange(sector, n) == (sector + sectors_needed(n)) % U64 <= capacity

Offset(sector) == (sector * SECTOR_SIZE) % U64

\* seek refuses an offset that is negative as a signed number.
SeekOk(sector) == Offset(sector) < U64 \div 2

Failed(m, d, n) == [err |-> FALSE, status |-> S_IOERR, len |-> n, mem |-> m, disk |-> d]
Error(m, d) == [err |-> TRUE, status |-> S_IOERR, len |-> 0, mem |-> m, disk |-> d]
Done(m, d, n) == [err |-> FALSE, status |-> S_OK, len |-> n, mem |-> m, disk |-> d]

\* Mutant: every buffer is filled from the start of what was read.
handle_read_request_sg_noAdvance(m, d, sector, bufs, fault) ==
    LET addrs == Addrs(bufs)
        Buf(a) == CHOOSE i \in DOMAIN bufs : a - bufs[i].addr \in 0 .. bufs[i].len - 1
        bytes == [i \in DOMAIN addrs |-> d[Offset(sector) + addrs[i] - bufs[Buf(addrs[i])].addr]]
    IN  IF ~InRange(sector, Len(addrs)) \/ ~SeekOk(sector) \/ fault # NoFault
        THEN Failed(m, d, Len(addrs) + 1)
        ELSE IF Reached(addrs) < Len(addrs)
        THEN Error(Stored(m, addrs, bytes), d)
        ELSE Done(Stored(m, addrs, bytes), d, Len(addrs) + 1)

\* Read the whole range from the disk, then scatter it over the buffers.
handle_read_request_sg(m, d, sector, bufs, fault) ==
    LET addrs == Addrs(bufs)
        bytes == [i \in DOMAIN addrs |-> d[Offset(sector) + i - 1]]
    IN  IF ~InRange(sector, Len(addrs)) \/ ~SeekOk(sector) \/ fault # NoFault
        THEN Failed(m, d, Len(addrs) + 1)
        ELSE IF Reached(addrs) < Len(addrs)
        THEN Error(Stored(m, addrs, bytes), d)
        ELSE Done(Stored(m, addrs, bytes), d, Len(addrs) + 1)

\* The first n of bytes replace what the disk has from offset on.
Overwritten(d, offset, bytes, n) ==
    [b \in DiskBytes |-> IF b - offset \in 0 .. n - 1 THEN bytes[b - offset + 1] ELSE d[b]]

\* Mutant: every byte goes to the disk as it is gathered.
handle_write_request_sg_streams(m, d, sector, bufs, fault) ==
    LET addrs == Addrs(bufs)
        bytes == [i \in 1 .. Reached(addrs) |-> m[addrs[i]]]
        Disk(n) == Overwritten(d, Offset(sector), bytes, n)
    IN  IF ~InRange(sector, Len(addrs)) THEN Failed(m, d, 1)
        ELSE IF Len(bytes) < Len(addrs) THEN Error(m, Disk(Len(bytes)))
        ELSE IF ~SeekOk(sector) THEN Failed(m, d, 1)
        ELSE IF fault # NoFault THEN Failed(m, Disk(IF fault < Len(bytes) THEN fault ELSE 0), 1)
        ELSE Done(m, Disk(Len(bytes)), 1)

\* Gather all buffers, then write to the disk; a write_all that fails may have
\* written a first part.
handle_write_request_sg(m, d, sector, bufs, fault) ==
    LET addrs == Addrs(bufs)
        bytes == [i \in 1 .. Reached(addrs) |-> m[addrs[i]]]
        Disk(n) == Overwritten(d, Offset(sector), bytes, n)
    IN  IF ~InRange(sector, Len(addrs)) THEN Failed(m, d, 1)
        ELSE IF Len(bytes) < Len(addrs) THEN Error(m, d)
        ELSE IF ~SeekOk(sector) THEN Failed(m, d, 1)
        ELSE IF fault # NoFault THEN Failed(m, Disk(IF fault < Len(bytes) THEN fault ELSE 0), 1)
        ELSE Done(m, Disk(Len(bytes)), 1)

handle_flush_request(m, d, fault) ==
    IF fault # NoFault THEN Failed(m, d, 1) ELSE Done(m, d, 1)

\* The serial number, cut or filled up with zeros to the length of the buffer.
handle_get_id_request(m, d, buf) ==
    LET addrs == Addrs(<<buf>>)
        bytes == [i \in DOMAIN addrs |-> IF i <= SERIAL_LEN THEN SerialByte ELSE 0]
    IN  IF Reached(addrs) < Len(addrs)
        THEN Error(Stored(m, addrs, bytes), d)
        ELSE Done(Stored(m, addrs, bytes), d, buf.len + 1)

\* The request without its status byte; fault is what the host does to the
\* file operation.
Handled(m, d, r, fault) ==
    LET bufs == SubSeq(r.chain, 2, Len(r.chain) - 1)
    IN  CASE r.type = "IN"    -> handle_read_request_sg(m, d, r.sector, bufs, fault)
          [] r.type = "OUT"   -> handle_write_request_sg(m, d, r.sector, bufs, fault)
          [] r.type = "FLUSH" -> handle_flush_request(m, d, fault)
          [] r.type = "GET_ID" /\ bufs # << >> -> handle_get_id_request(m, d, bufs[1])
          [] OTHER -> Failed(m, d, 1)

\* One iteration of process_queue of virtio-blk, up to its used entry.  The
\* status byte is written last: when it fails, the request was executed.
BlkRequest(m, d, r, fault) ==
    IF \/ ~Ends(r, BLK_MAX_CHAIN) \/ Len(r.chain) < 2
       \/ r.chain[1].addr \notin DRAM
    THEN Error(m, d)
    ELSE LET res == Handled(m, d, r, fault)
             status_addr == r.chain[Len(r.chain)].addr
         IN  IF res.err THEN res
             ELSE IF status_addr \notin DRAM THEN Error(res.mem, res.disk)
             ELSE [res EXCEPT !.mem = [@ EXCEPT ![status_addr] = res.status]]

\* Mutant of RngRequest: the length counts every descriptor.
RngRequest_lenOfAll(m, d, r) ==
    LET walk  == Walk(r, RNG_MAX_CHAIN)
        addrs == Addrs(Only(walk, TRUE))
        bytes == [i \in DOMAIN addrs |-> RandomByte]
    IN  IF Reached(addrs) < Len(addrs)
        THEN Error(Stored(m, addrs, bytes), d)
        ELSE Done(Stored(m, addrs, bytes), d, Len(Addrs(r.chain)))

\* Mutant of RngRequest: the flag of the descriptor is not looked at.
RngRequest_anyBuffer(m, d, r) ==
    LET walk  == Walk(r, RNG_MAX_CHAIN)
        addrs == Addrs(walk)
        bytes == [i \in DOMAIN addrs |-> RandomByte]
    IN  IF Reached(addrs) < Len(addrs)
        THEN Error(Stored(m, addrs, bytes), d)
        ELSE Done(Stored(m, addrs, bytes), d, Len(addrs))

\* One iteration of process_queue of virtio-rng, up to its used entry: the
\* device-writable buffers are filled; a chain that is too long is cut.
RngRequest(m, d, r) ==
    LET walk  == Walk(r, RNG_MAX_CHAIN)
        addrs == Addrs(Only(walk, TRUE))
        bytes == [i \in DOMAIN addrs |-> RandomByte]
    IN  IF Reached(addrs) < Len(addrs)
        THEN Error(Stored(m, addrs, bytes), d)
        ELSE Done(Stored(m, addrs, bytes), d, Len(addrs))
=============================================================================
