------------------------------- MODULE MCSession -------------------------------
(* Small captures: one good datagram and every way a frame can fall short of *)
(* one; sections in both byte orders that follow each other, with one or two *)
(* interfaces; files that end badly.                                         *)
EXTENDS Session, SequencesExt

\* A datagram of 10 bytes of payload in a frame padded to 60.
Good == [captured |-> 60, wire |-> 60, ethertype |-> "IPv4", version |-> 4,
         ihl |-> 20, protocol |-> "UDP", udp |-> 18]

Frames ==
  { Good,
    [Good EXCEPT !.captured = 50],                                \* truncated
    [Good EXCEPT !.ethertype = "ARP"], [Good EXCEPT !.version = 6],
    [Good EXCEPT !.protocol = "TCP"], [Good EXCEPT !.udp = 7],
    [Good EXCEPT !.ihl = 16], [Good EXCEPT !.ihl = 24],
    [Good EXCEPT !.captured = 41, !.wire = 41],                   \* no room for UDP
    [Good EXCEPT !.captured = 45, !.wire = 45] }                  \* datagram clipped

Unit(b, e) == [base |-> b, exponent |-> e]
Resolution(u) == [code |-> "tsresol", unit |-> u]
End == [code |-> "end", unit |-> Microseconds]

Section(order) == [type |-> "section", order |-> order, sound |-> TRUE]
Interface(link, options) == [type |-> "interface", link |-> link, options |-> options]
Packet(id, frame) == [type |-> "packet", interface |-> id, frame |-> frame, fits |-> TRUE]
Other == [type |-> "other"]
Corrupt == [type |-> "corrupt"]

Nano == Interface("ethernet", <<Resolution(Unit(10, 9)), End, Resolution(Unit(10, 3))>>)
Binary == Interface("ethernet", <<Resolution(Unit(2, 30)), Resolution(Unit(10, 12))>>)
Radio == Interface("radio", <<>>)
P(id) == Packet(id, Good)

Native == Section("native")
Swapped == Section("swapped")

\* Every way a frame can fall short, under a declared interface and without one.
OfFrames == {<<Native, Nano, Packet(0, f), Packet(1, f)>> : f \in Frames}

\* Every sequence of a few blocks after the first section.
OfSections ==
  {<<s>> \o rest : s \in {Native, Swapped},
                  rest \in BoundedSeq({Native, Swapped, Nano, Radio, P(0), P(1)}, 4)}

\* Every way a file goes on, or ends, between two packets.
Odd == {Binary, Other, Corrupt, Section("unknown"), [Swapped EXCEPT !.sound = FALSE],
        [P(0) EXCEPT !.fits = FALSE]}
OfEnds == {<<Native, a, P(0), b, P(0), P(0)>> : a \in Odd, b \in Odd}

Empty == {<<>>, <<Other, P(0)>>}

Captures == OfFrames \union OfSections \union OfEnds \union Empty

\* Nothing to open, nothing to send, less than asked for, and more.
Few == Empty \union {<<Native>>, <<Native, P(0)>>, <<Native, Other, P(0), Corrupt, P(0), P(0)>>,
                    <<Swapped, P(0), P(0), P(0), P(0)>>}
=============================================================================
