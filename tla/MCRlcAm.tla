------------------------------ MODULE MCRlcAm ------------------------------
(***************************************************************************)
(* Small scripts of packets for RlcAm.                                     *)
(***************************************************************************)
EXTENDS RlcAm

Part(sdu, part, last) == [sdu |-> sdu, part |-> part, last |-> last]
Packet(kind, fi, li, size, frag) ==
    [kind |-> kind, fi |-> fi, li |-> li, size |-> size, frag |-> frag]

\* Six SDUs: the first in three segments, the second whole behind it, the third in
\* two, the fourth and fifth whole and the last in two again.  Behind them are five
\* packets that the decoder has to refuse, each at another point.
Stream == <<
    Packet("data", 1, <<>>, 2, <<Part(1, 1, FALSE)>>),
    Packet("data", 3, <<>>, 2, <<Part(1, 2, FALSE)>>),
    Packet("data", 3, <<2, 2>>, 6,
           <<Part(1, 3, TRUE), Part(2, 1, TRUE), Part(3, 1, FALSE)>>),
    Packet("data", 2, <<2>>, 4, <<Part(3, 2, TRUE), Part(4, 1, TRUE)>>),
    Packet("data", 1, <<2>>, 4, <<Part(5, 1, TRUE), Part(6, 1, FALSE)>>),
    Packet("data", 2, <<>>, 2, <<Part(6, 2, TRUE)>>),
    Packet("short", 0, <<>>, 0, <<Part(0, 0, FALSE)>>),
    Packet("status", 0, <<>>, 0, <<Part(0, 0, FALSE)>>),
    Packet("segment", 0, <<>>, 2, <<Part(7, 1, TRUE)>>),
    Packet("data", 0, <<2, 0>>, 4, <<Part(7, 1, TRUE), Part(8, 1, TRUE), Part(9, 1, TRUE)>>),
    Packet("data", 0, <<2, 3>>, 4, <<Part(7, 1, TRUE), Part(8, 1, TRUE), Part(9, 1, TRUE)>>) >>

\* Every packet may be repeated but the one that ends an SDU and starts another
RepeatedSafely == {k \in 1 .. 6 : SafeToRepeat(Stream[k])}

EveryPacket == 1 .. Len(Stream)
Always == {TRUE}

\* the script is a UE's, apart from the packets to be refused
ASSUME StreamAssumption == SentInOrder /\ NoTinySdus
=============================================================================
