----------------------------- MODULE VirtioIoMC -----------------------------
(* Values for the constants of VirtioIo. *)
EXTENDS VirtioIo, SequencesExt

\* The buffers of these lengths follow each other.
Shape(type, sector, lens, fault) ==
    [type |-> type, sector |-> sector, fault |-> fault,
     bufs |-> [i \in DOMAIN lens |->
                  [off |-> FoldLeft(+, 0, SubSeq(lens, 1, i - 1)), len |-> lens[i]]]]

\* Sectors have 2 bytes, the disk has 2 sectors, sector numbers have 6 bits.
MCDRAM == 0 .. 2 * 2 * 5

MCBlkShapes ==
    {Shape("OUT", 0, <<2>>, "none"), Shape("OUT", 0, <<1, 2>>, "none"),
     Shape("OUT", 1, <<1, 2>>, "none"), Shape("OUT", 63, <<2>>, "none"),
     Shape("OUT", 0, <<1, 2>>, "data"), Shape("OUT", 0, <<2>>, "status"),
     Shape("IN", 0, <<1, 2>>, "none"), Shape("IN", 1, <<1, 1>>, "none"),
     Shape("IN", 63, <<2>>, "none"), Shape("IN", 0, <<1, 2>>, "data"),
     Shape("FLUSH", 0, << >>, "none"), Shape("GET_ID", 0, <<2>>, "none"),
     Shape("GET_ID", 0, << >>, "none"), Shape("UNKNOWN", 0, <<1>>, "none"),
     Shape("IN", 0, <<1>>, "header"), Shape("IN", 0, <<1>>, "short"),
     Shape("OUT", 0, <<1>>, "loop"), Shape("IN", 0, <<1, 1, 1>>, "none")}

MCRngShapes ==
    {Shape("RNG", 0, <<2>>, "none"), Shape("RNG", 0, <<1, 1, 1>>, "none"),
     Shape("RNG", 0, <<1, 2>>, "readonly"), Shape("RNG", 0, <<1, 2>>, "data"),
     Shape("RNG", 0, <<1, 1>>, "loop")}
=============================================================================
