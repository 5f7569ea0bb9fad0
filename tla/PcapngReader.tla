----------------------------- MODULE PcapngReader -----------------------------
(***************************************************************************)
(* PcapngReader (src/src/pcapng_reader.h): the UDP payloads of a capture,   *)
(* one call of next_packet() after the other.                               *)
(*                                                                         *)
(* A capture is a sequence of blocks.  A block is its type and what the     *)
(* reader looks at of its body:                                             *)
(*   "section"    its byte order, and whether its length is sound;          *)
(*   "interface"  link type and options;                                    *)
(*   "packet"     interface, frame, and whether the frame fits the block;   *)
(*   "other"      any type the reader does not know;                        *)
(*   "corrupt"    a block of impossible length, or cut by the end of file.  *)
(* The blocks of a section are in the byte order its header announces;      *)
(* nothing in a block says which order that is.                             *)
(***************************************************************************)
EXTENDS Integers, Sequences, FiniteSetsExt

CONSTANTS Capture   \* the files that may be read

Frame ==
  [captured : Nat, wire : Nat, ethertype : STRING, version : Nat, ihl : Nat,
   protocol : STRING, udp : Nat]
Option == [code : STRING, unit : [base : Nat, exponent : Nat]]

AnyBlock ==
  [type : {"section"}, order : {"native", "swapped", "unknown"}, sound : BOOLEAN]
    \union [type : {"interface"}, link : STRING, options : Seq(Option)]
    \union [type : {"packet"}, interface : Nat, frame : Frame, fits : BOOLEAN]
    \union [type : {"other", "corrupt"}]

ASSUME CaptureAssumption == Capture \subseteq Seq(AnyBlock)

VARIABLES
  file,        \* external: the blocks of the capture
  position,    \* blocks read so far
  swapped,     \* isSwappedEndian
  interfaces,  \* interfaces of the section, in order of declaration
  call,        \* next_packet(): "none", "reading", "returned" or "failed"
  payloads     \* what next_packet() has returned so far

readerVars == <<file, position, swapped, interfaces, call, payloads>>

Microseconds == [base |-> 10, exponent |-> 6]
DefaultInterface == [link |-> "ethernet", unit |-> Microseconds]

ReaderInit ==
  /\ file \in Capture
  /\ position = 0
  /\ swapped = FALSE
  /\ interfaces = <<>>
  /\ call = "none"
  /\ payloads = <<>>

(* open(): a pcapng file begins with a section header.                      *)
Opens == file # <<>> /\ file[1].type = "section"

(* The caller asks for the next packet.                                     *)
NextPacket ==
  /\ call' = "reading"
  /\ UNCHANGED <<file, position, swapped, interfaces, payloads>>

-----------------------------------------------------------------------------
(* A frame, in bytes.                                                       *)

IPOffset == 14

(* Seeded fault: no room is asked for the UDP header.                       *)
HasIPHeader(f) == f.captured >= IPOffset + f.ihl

HasHeaders(f) == f.captured >= IPOffset + f.ihl + 8

(* An untruncated IPv4 datagram of UDP, its headers in full.                *)
Accepted(f) ==
  /\ f.captured >= f.wire
  /\ f.captured >= IPOffset /\ f.ethertype = "IPv4"
  /\ f.captured >= IPOffset + 20 /\ f.version = 4
  /\ f.ihl >= 20 /\ HasHeaders(f)
  /\ f.protocol = "UDP" /\ f.udp >= 8

(* Seeded fault: the payload reaches to the end of the frame.               *)
LengthOfFrame(f) == f.captured - (IPOffset + f.ihl + 8)

(* The length is that of the UDP header, clipped to the frame.              *)
PayloadLength(f) == Min({f.udp - 8, f.captured - (IPOffset + f.ihl + 8)})

-----------------------------------------------------------------------------
(* read_until_next_packet_block(), one block per step.                      *)

(* External: the order in which block i was written.                        *)
SectionOf(i) == Max({j \in 1..i : file[j].type = "section"})
WrittenSwapped(i) == file[SectionOf(i)].order = "swapped"

Sound(i) ==
  /\ file[i].type # "corrupt"
  /\ file[i].type = "section" => file[i].order # "unknown" /\ file[i].sound

(* Read in the wrong order a length is nonsense.                            *)
Legible(i) == Sound(i) /\ (file[i].type # "section" => swapped = WrittenSwapped(i))

Block == file[position + 1]

AtBlock(type) ==
  /\ call = "reading" /\ position < Len(file)
  /\ Block.type = type /\ Legible(position + 1)
  /\ position' = position + 1

(* Seeded faults: the order never changes back; interfaces outlive their    *)
(* section.                                                                 *)
SwappedForGood == swapped \/ Block.order = "swapped"
AllInterfaces == interfaces

SwappedIn == Block.order = "swapped"
NoInterfaces == <<>>

ReadSection ==
  /\ AtBlock("section")
  /\ swapped' = SwappedIn
  /\ interfaces' = NoInterfaces
  /\ UNCHANGED <<file, call, payloads>>

Supported(unit) ==
  IF unit.base = 2 THEN unit.exponent < 64 ELSE unit.exponent <= 9

(* The last if_tsresol before the end of the options that is supported.     *)
UnitOf(options) ==
  LET live == {i \in DOMAIN options : \A j \in 1..i : options[j].code # "end"}
      set == {i \in live : options[i].code = "tsresol" /\ Supported(options[i].unit)}
  IN  IF set = {} THEN Microseconds ELSE options[Max(set)].unit

ReadInterface ==
  /\ AtBlock("interface")
  /\ interfaces' = Append(interfaces, [link |-> Block.link, unit |-> UnitOf(Block.options)])
  /\ UNCHANGED <<file, swapped, call, payloads>>

InterfaceIn(table, id) == IF id < Len(table) THEN table[id + 1] ELSE DefaultInterface

Wanted(b, interface) == b.fits /\ interface.link = "ethernet" /\ Accepted(b.frame)

Payload(i, interface) ==
  [block |-> i, length |-> PayloadLength(file[i].frame), unit |-> interface.unit]

(* A packet block that ends before its own header has been read past its    *)
(* end by the time `captured_length + 24 > remaining_length' rejects it,    *)
(* whatever was read there: a block that does not fit.                      *)
ReadPacket ==
  /\ AtBlock("packet")
  /\ LET interface == InterfaceIn(interfaces, Block.interface) IN
       IF Wanted(Block, interface)
       THEN /\ payloads' = Append(payloads, Payload(position + 1, interface))
            /\ call' = "returned"
       ELSE UNCHANGED <<payloads, call>>
  /\ UNCHANGED <<file, swapped, interfaces>>

SkipBlock ==
  /\ AtBlock("other")
  /\ UNCHANGED <<file, swapped, interfaces, call, payloads>>

(* The end of the file, or nothing that can be read on from.                *)
ReadFails ==
  /\ call = "reading"
  /\ position < Len(file) => ~Legible(position + 1)
  /\ call' = "failed"
  /\ UNCHANGED <<file, position, swapped, interfaces, payloads>>

ReaderStep == ReadSection \/ ReadInterface \/ ReadPacket \/ SkipBlock \/ ReadFails

-----------------------------------------------------------------------------
(* Properties.                                                              *)

(* What a reader with the whole file before its eyes would find: the        *)
(* wanted packets in front of the first block that is not sound, each with  *)
(* the interface that its own section declares under its number.            *)
DeclaredIn(i) == {j \in SectionOf(i)..i : file[j].type = "interface"}
Number(j) == Cardinality(DeclaredIn(j)) - 1
Described(j) == [link |-> file[j].link, unit |-> UnitOf(file[j].options)]

InterfaceOf(i) ==
  LET named == {j \in DeclaredIn(i) : Number(j) = file[i].interface}
  IN  IF named = {} THEN DefaultInterface ELSE Described(CHOOSE j \in named : TRUE)

Readable(n) ==
  {i \in 1..n : /\ \A j \in 1..i : Sound(j)
                /\ file[i].type = "packet" /\ Wanted(file[i], InterfaceOf(i))}

(* Reading block by block with a table of interfaces and a byte order that  *)
(* change on the way yields exactly the packets of the file, in its order,  *)
(* each with the time unit of its own interface, and ends nowhere but at a  *)
(* block that is not sound.                                                 *)
YieldsTheCapture ==
  Opens =>
    /\ {payloads[k].block : k \in DOMAIN payloads} = Readable(position)
    /\ \A k, m \in DOMAIN payloads : k < m => payloads[k].block < payloads[m].block
    /\ \A k \in DOMAIN payloads :
         payloads[k].unit = InterfaceOf(payloads[k].block).unit
    /\ call = "failed" /\ position < Len(file) => ~Sound(position + 1)

(* A payload lies inside the bytes captured, and neither the padding of a   *)
(* short frame nor anything else after the datagram is part of it.          *)
PayloadInFrame ==
  \A k \in DOMAIN payloads :
    LET f == file[payloads[k].block].frame
    IN  /\ payloads[k].length \in 0..(f.captured - (IPOffset + f.ihl + 8))
        /\ payloads[k].length <= f.udp - 8
=============================================================================
