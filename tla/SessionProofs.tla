----------------------------- MODULE SessionProofs -----------------------------
(***************************************************************************)
(* Proofs about the session: the reader yields the capture it reads, the    *)
(* verdict of checkcap is what exchange will find, silence ends the handler *)
(* only when the replay is over, and its exit code tells why it ended.      *)
(***************************************************************************)
EXTENDS Session, Numbers, SequenceTheorems, TLAPS

-----------------------------------------------------------------------------
(* What a block holds.                                                      *)

TimeUnit == [base : Nat, exponent : Nat]
InterfaceEntry == [link : STRING \cup {"ethernet"}, unit : TimeUnit]
PayloadEntry == [block : Nat, length : Int, unit : TimeUnit]

LEMMA MaxIs ==
  ASSUME NEW S \in SUBSET Int, NEW m \in S, \A y \in S : y <= m
  PROVE  Max(S) = m
<1>1. \E x \in S : \A y \in S : x >= y
  OBVIOUS
<1>2. Max(S) \in S /\ \A y \in S : Max(S) >= y
  BY <1>1 DEF Max
<1>3. Max(S) \in Int /\ m \in Int /\ Max(S) >= m /\ Max(S) <= m
  BY <1>2
<1> QED
  BY <1>3

LEMMA MaxIn ==
  ASSUME NEW S \in SUBSET Int, IsFiniteSet(S), S # {}
  PROVE  Max(S) \in S /\ \A y \in S : y <= Max(S)
<1>1. PICK m \in S : \A y \in S : y <= m
  BY Largest
<1> QED
  BY <1>1, MaxIs

LEMMA MinOfTwo ==
  ASSUME NEW a \in Int, NEW b \in Int
  PROVE  Min({a, b}) = IF a <= b THEN a ELSE b
<1> DEFINE S == {a, b}
           m == IF a <= b THEN a ELSE b
<1>1. m \in S /\ \A y \in S : m <= y
  OBVIOUS
<1>2. S \in SUBSET Int
  OBVIOUS
<1> HIDE DEF S, m
<1>3. Min(S) \in S /\ \A y \in S : Min(S) <= y
  BY <1>1 DEF Min
<1>4. Min(S) \in Int /\ m \in Int /\ Min(S) <= m /\ m <= Min(S)
  BY <1>1, <1>2, <1>3
<1>5. Min(S) = m
  BY <1>4
<1> QED
  BY <1>5 DEF S, m

LEMMA UnitType ==
  ASSUME NEW options \in Seq(Option)
  PROVE  UnitOf(options) \in TimeUnit
<1> DEFINE live == {i \in DOMAIN options : \A j \in 1..i : options[j].code # "end"}
           set == {i \in live : options[i].code = "tsresol" /\ Supported(options[i].unit)}
<1>1. UnitOf(options) = IF set = {} THEN Microseconds ELSE options[Max(set)].unit
  BY DEF UnitOf
<1>2. set \subseteq DOMAIN options /\ DOMAIN options = 1..Len(options) /\ Len(options) \in Nat
  OBVIOUS
<1> HIDE DEF set
<1>3. IsFiniteSet(set) /\ set \in SUBSET Int
  <2>1. IsFiniteSet(1..Len(options)) /\ (1..Len(options)) \subseteq Int
    BY <1>2, FS_Interval
  <2>2. set \in SUBSET (1..Len(options))
    BY <1>2
  <2>3. IsFiniteSet(set)
    BY <2>1, <2>2, FS_Subset
  <2> QED
    BY <2>1, <2>2, <2>3
<1>4. CASE set = {}
  BY <1>1, <1>4 DEF Microseconds, TimeUnit
<1>5. CASE set # {}
  <2>1. Max(set) \in DOMAIN options
    BY <1>2, <1>3, <1>5, MaxIn
  <2>2. options[Max(set)] \in Option
    BY <2>1
  <2> QED
    BY <1>1, <1>5, <2>2 DEF Option, TimeUnit
<1> QED
  BY <1>4, <1>5

LEMMA BlockTypes ==
  ASSUME file \in Capture, NEW i \in 1..Len(file)
  PROVE  /\ file \in Seq(AnyBlock) /\ file[i] \in AnyBlock
         /\ file[i].type = "packet" =>
              file[i].frame \in Frame /\ file[i].interface \in Nat
         /\ file[i].type = "interface" =>
              file[i].link \in STRING /\ file[i].options \in Seq(Option)
         /\ file[i].type \in {"section", "interface", "packet", "other", "corrupt"}
<1>1. file \in Seq(AnyBlock)
  BY CaptureAssumption
<1> DEFINE b == file[i]
<1>2. b \in AnyBlock
  BY <1>1
<1> HIDE DEF b
<1>3. \/ b \in [type : {"section"}, order : {"native", "swapped", "unknown"}, sound : BOOLEAN]
      \/ b \in [type : {"interface"}, link : STRING, options : Seq(Option)]
      \/ b \in [type : {"packet"}, interface : Nat, frame : Frame, fits : BOOLEAN]
      \/ b \in [type : {"other", "corrupt"}]
  BY <1>2 DEF AnyBlock
<1>4. /\ b.type = "packet" => b.frame \in Frame /\ b.interface \in Nat
      /\ b.type = "interface" => b.link \in STRING /\ b.options \in Seq(Option)
      /\ b.type \in {"section", "interface", "packet", "other", "corrupt"}
  BY <1>3
<1> QED
  BY <1>1, <1>2, <1>4 DEF b

LEMMA PayloadBounds ==
  ASSUME NEW f \in Frame, Accepted(f)
  PROVE  /\ PayloadLength(f) \in Int
         /\ PayloadLength(f) \in 0..(f.captured - (IPOffset + f.ihl + 8))
         /\ PayloadLength(f) <= f.udp - 8
<1> DEFINE a == f.udp - 8
           b == f.captured - (IPOffset + f.ihl + 8)
<1>1. f.udp \in Nat /\ f.captured \in Nat /\ f.ihl \in Nat
  BY DEF Frame
<1>2. a \in Int /\ b \in Int /\ a >= 0 /\ b >= 0
  BY <1>1 DEF Accepted, HasHeaders, IPOffset
<1>3. PayloadLength(f) = Min({a, b})
  BY DEF PayloadLength
<1> HIDE DEF a, b
<1>4. PayloadLength(f) = IF a <= b THEN a ELSE b
  BY <1>2, <1>3, MinOfTwo
<1> QED
  BY <1>2, <1>4 DEF a, b

-----------------------------------------------------------------------------
(* Sections of a file.                                                      *)

LEMMA SectionFacts ==
  ASSUME file \in Capture, Opens, NEW n \in 1..Len(file)
  PROVE  /\ SectionOf(n) \in 1..n /\ file[SectionOf(n)].type = "section"
         /\ \A j \in 1..n : file[j].type = "section" => j <= SectionOf(n)
<1> DEFINE S == {j \in 1..n : file[j].type = "section"}
<1>1. file \in Seq(AnyBlock) /\ n \in Nat
  BY CaptureAssumption
<1>2. 1 \in S
  BY <1>1 DEF Opens
<1>3. IsFiniteSet(S) /\ S \in SUBSET Int
  <2>1. IsFiniteSet(1..n) /\ S \in SUBSET (1..n)
    BY <1>1, FS_Interval
  <2> HIDE DEF S
  <2>2. IsFiniteSet(S)
    BY <2>1, FS_Subset
  <2> QED
    BY <2>1, <2>2
<1>4. SectionOf(n) = Max(S)
  BY DEF SectionOf
<1>5. SectionOf(n) \in S /\ \A j \in S : j <= SectionOf(n)
  <2> HIDE DEF S
  <2> QED
    BY <1>2, <1>3, <1>4, MaxIn
<1> QED
  BY <1>5

(* The section of a block is the last one that begins at or before it.      *)
LEMMA SectionIs ==
  ASSUME NEW n \in Nat, NEW k \in 1..n, file[k].type = "section",
         \A j \in 1..n : file[j].type = "section" => j <= k
  PROVE  SectionOf(n) = k
<1> DEFINE S == {j \in 1..n : file[j].type = "section"}
<1>1. k \in S /\ S \in SUBSET Int /\ \A j \in S : j <= k
  OBVIOUS
<1>2. SectionOf(n) = Max(S)
  BY DEF SectionOf
<1> HIDE DEF S
<1> QED
  BY <1>1, <1>2, MaxIs

LEMMA SectionWithin ==
  ASSUME file \in Capture, Opens, NEW n \in 1..Len(file), NEW j \in SectionOf(n)..n
  PROVE  SectionOf(j) = SectionOf(n)
<1>1. /\ SectionOf(n) \in 1..n /\ file[SectionOf(n)].type = "section"
      /\ \A k \in 1..n : file[k].type = "section" => k <= SectionOf(n)
  BY SectionFacts
<1>2. j \in Nat /\ n \in Nat /\ SectionOf(n) \in 1..j /\ \A k \in 1..j : k \in 1..n
  <2>1. Len(file) \in Nat
    BY CaptureAssumption
  <2> QED BY <1>1, <2>1
<1> QED
  BY <1>1, <1>2, SectionIs

LEMMA SectionNext ==
  ASSUME file \in Capture, Opens, NEW n \in Nat, n >= 1, n + 1 \in 1..Len(file),
         file[n + 1].type # "section"
  PROVE  SectionOf(n + 1) = SectionOf(n)
<1>1. n \in 1..Len(file) /\ n + 1 \in Nat
  BY CaptureAssumption
<1>2. /\ SectionOf(n) \in 1..n /\ file[SectionOf(n)].type = "section"
      /\ \A k \in 1..n : file[k].type = "section" => k <= SectionOf(n)
  BY <1>1, SectionFacts
<1>3. \A k \in 1..(n + 1) : k \in 1..n \/ k = n + 1
  OBVIOUS
<1>4. SectionOf(n) \in 1..(n + 1)
  BY <1>2
<1>5. \A k \in 1..(n + 1) : file[k].type = "section" => k <= SectionOf(n)
  BY <1>2, <1>3
<1> QED
  BY <1>1, <1>2, <1>4, <1>5, SectionIs

LEMMA SectionHere ==
  ASSUME NEW n \in Nat \ {0}, file[n].type = "section"
  PROVE  SectionOf(n) = n
<1>1. n \in 1..n /\ \A j \in 1..n : j <= n
  OBVIOUS
<1> QED
  BY <1>1, SectionIs

(* The interfaces a section has declared so far.                            *)
LEMMA DeclaredFinite ==
  ASSUME file \in Capture, Opens, NEW n \in 1..Len(file)
  PROVE  IsFiniteSet(DeclaredIn(n)) /\ Cardinality(DeclaredIn(n)) \in Nat
<1>1. SectionOf(n) \in Int /\ n \in Int
  BY SectionFacts
<1>2. IsFiniteSet(SectionOf(n)..n) /\ DeclaredIn(n) \in SUBSET (SectionOf(n)..n)
  BY <1>1, FS_Interval DEF DeclaredIn
<1> QED
  BY <1>2, FS_Subset, FS_CardinalityType

LEMMA DeclaredNext ==
  ASSUME file \in Capture, Opens, NEW n \in Nat, n >= 1, n + 1 \in 1..Len(file),
         file[n + 1].type # "section"
  PROVE  DeclaredIn(n + 1)
           = DeclaredIn(n) \cup (IF file[n + 1].type = "interface" THEN {n + 1} ELSE {})
<1>1. n \in 1..Len(file)
  BY CaptureAssumption
<1>2. PICK k \in 1..n : k = SectionOf(n)
  BY <1>1, SectionFacts
<1>3. SectionOf(n + 1) = k
  BY <1>2, SectionNext
<1>4. k..(n + 1) = (k..n) \cup {n + 1}
  BY <1>2
<1> QED
  BY <1>2, <1>3, <1>4 DEF DeclaredIn

LEMMA DeclaredHere ==
  ASSUME NEW n \in Nat \ {0}, file[n].type = "section"
  PROVE  DeclaredIn(n) = {}
<1>1. n..n = {n}
  OBVIOUS
<1> QED
  BY <1>1, SectionHere DEF DeclaredIn

-----------------------------------------------------------------------------
(* The reader's table, flag and results.                                    *)

ReaderTypes ==
  /\ file \in Capture /\ file \in Seq(AnyBlock)
  /\ position \in 0..Len(file) /\ swapped \in BOOLEAN
  /\ interfaces \in Seq(InterfaceEntry)
  /\ call \in {"none", "reading", "returned", "failed"}
  /\ payloads \in Seq(PayloadEntry)
  /\ \A k \in DOMAIN payloads :
       payloads[k].block \in 1..position /\ file[payloads[k].block].type = "packet"

(* Behind block n of the section the table holds the interfaces declared    *)
(* since the section began, each at its number, and nothing else.           *)
TableHolds(n) ==
  /\ swapped = WrittenSwapped(n)
  /\ Len(interfaces) = Cardinality(DeclaredIn(n))
  /\ \A j \in DeclaredIn(n) :
       Number(j) + 1 \in DOMAIN interfaces /\ interfaces[Number(j) + 1] = Described(j)
  /\ \A k \in DOMAIN interfaces : \E j \in DeclaredIn(n) : Number(j) + 1 = k

ReaderInv ==
  /\ ReaderTypes
  /\ PayloadInFrame
  /\ Opens =>
       /\ \A j \in 1..position : Sound(j)
       /\ position # 0 => TableHolds(position)
       /\ YieldsTheCapture

(* A section that has not begun makes everything legible that is sound.     *)
LEMMA LegibleIsSound ==
  ASSUME ReaderInv, Opens, position < Len(file)
  PROVE  Legible(position + 1) <=> Sound(position + 1)
<1>1. position \in Nat /\ Len(file) \in Nat /\ file \in Capture
  BY DEF ReaderInv, ReaderTypes
<1>2. CASE position = 0
  BY <1>2 DEF Legible, Opens
<1>3. CASE position # 0
  <2>1. swapped = WrittenSwapped(position)
    BY <1>3 DEF ReaderInv, TableHolds
  <2>2. ASSUME file[position + 1].type # "section"
        PROVE  WrittenSwapped(position + 1) = WrittenSwapped(position)
    <3>1. SectionOf(position + 1) = SectionOf(position)
      BY <1>1, <1>3, <2>2, SectionNext
    <3> QED
      BY <3>1 DEF WrittenSwapped
  <2> QED
    BY <2>1, <2>2 DEF Legible
<1> QED
  BY <1>2, <1>3

(* The table answers for a packet as its section would.                     *)
LEMMA TableAnswers ==
  ASSUME file \in Capture, Opens, interfaces \in Seq(InterfaceEntry),
         NEW n \in Nat, n >= 1, n + 1 \in 1..Len(file), TableHolds(n),
         file[n + 1].type = "packet"
  PROVE  InterfaceIn(interfaces, file[n + 1].interface) = InterfaceOf(n + 1)
<1> DEFINE id == file[n + 1].interface
           named == {j \in DeclaredIn(n + 1) : Number(j) = id}
<1>1. id \in Nat
  BY BlockTypes
<1>2. DeclaredIn(n + 1) = DeclaredIn(n)
  BY DeclaredNext
<1>3. InterfaceOf(n + 1) = IF named = {} THEN DefaultInterface
                           ELSE Described(CHOOSE j \in named : TRUE)
  BY DEF InterfaceOf
<1>4. DOMAIN interfaces = 1..Len(interfaces) /\ Len(interfaces) \in Nat
  OBVIOUS
<1>5. \A j \in DeclaredIn(n) : Number(j) \in Int
  <2> SUFFICES ASSUME NEW j \in DeclaredIn(n) PROVE Number(j) \in Int
    OBVIOUS
  <2>1. n \in 1..Len(file) /\ Len(file) \in Nat
    BY CaptureAssumption
  <2>2. SectionOf(n) \in 1..n /\ j \in SectionOf(n)..n
    BY <2>1, SectionFacts DEF DeclaredIn
  <2>3. j \in 1..Len(file)
    BY <2>1, <2>2
  <2> QED
    BY <2>3, DeclaredFinite DEF Number
<1>6. CASE id < Len(interfaces)
  <2>1. id + 1 \in DOMAIN interfaces
    BY <1>1, <1>4, <1>6
  <2>2. PICK j \in DeclaredIn(n) : Number(j) + 1 = id + 1
    BY <2>1 DEF TableHolds
  <2>3. Number(j) = id
    BY <1>1, <1>5, <2>2
  <2>4. named # {}
    BY <1>2, <2>3
  <2> DEFINE c == CHOOSE i \in named : TRUE
  <2>5. c \in named
    BY <2>4
  <2>6. c \in DeclaredIn(n) /\ Number(c) = id
    BY <1>2, <2>5
  <2> HIDE DEF c
  <2>7. interfaces[id + 1] = Described(c)
    BY <2>6 DEF TableHolds
  <2> QED
    BY <1>3, <1>6, <2>4, <2>7 DEF InterfaceIn, c
<1>7. CASE ~(id < Len(interfaces))
  <2>1. \A j \in DeclaredIn(n) : Number(j) # id
    <3> SUFFICES ASSUME NEW j \in DeclaredIn(n), Number(j) = id PROVE FALSE
      OBVIOUS
    <3>1. id + 1 \in DOMAIN interfaces
      BY DEF TableHolds
    <3> QED
      BY <1>1, <1>4, <1>7, <3>1
  <2>2. named = {}
    BY <1>2, <2>1
  <2> QED
    BY <1>3, <1>7, <2>2 DEF InterfaceIn
<1> QED
  BY <1>6, <1>7

-----------------------------------------------------------------------------
(* The file does not change while it is read.                               *)

LEMMA FileStays ==
  ASSUME file' = file
  PROVE  /\ Opens' <=> Opens
         /\ \A i : /\ SectionOf(i)' = SectionOf(i)
                   /\ WrittenSwapped(i)' = WrittenSwapped(i)
                   /\ Sound(i)' <=> Sound(i)
                   /\ DeclaredIn(i)' = DeclaredIn(i)
                   /\ Number(i)' = Number(i)
                   /\ Described(i)' = Described(i)
                   /\ InterfaceOf(i)' = InterfaceOf(i)
                   /\ Readable(i)' = Readable(i)
<1>1. Opens' <=> Opens
  BY DEF Opens
<1>2. \A i : SectionOf(i)' = SectionOf(i)
  BY DEF SectionOf
<1>3. \A i : WrittenSwapped(i)' = WrittenSwapped(i)
  BY <1>2 DEF WrittenSwapped
<1>4. \A i : Sound(i)' <=> Sound(i)
  BY DEF Sound
<1>5. \A i : DeclaredIn(i)' = DeclaredIn(i)
  BY <1>2 DEF DeclaredIn
<1>6. \A i : Number(i)' = Number(i)
  BY <1>5 DEF Number
<1>7. \A i : Described(i)' = Described(i)
  BY DEF Described
<1>8. \A i : InterfaceOf(i)' = InterfaceOf(i)
  <2> SUFFICES ASSUME NEW i PROVE InterfaceOf(i)' = InterfaceOf(i)
    OBVIOUS
  <2> DEFINE named == {j \in DeclaredIn(i) : Number(j) = file[i].interface}
             chosen == CHOOSE j \in named : TRUE
  <2>1. named' = named
    BY <1>5, <1>6
  <2>2. chosen' = chosen
    BY <2>1
  <2>3. Described(chosen)' = Described(chosen)
    BY <2>2 DEF Described
  <2> QED
    BY <2>1, <2>3 DEF InterfaceOf, DefaultInterface
<1>9. \A i : Readable(i)' = Readable(i)
  BY <1>4, <1>8 DEF Readable
<1> QED
  BY <1>1, <1>2, <1>3, <1>4, <1>5, <1>6, <1>7, <1>8, <1>9

LEMMA TableThere ==
  ASSUME NEW q, position' = q
  PROVE  TableHolds(position)' <=> TableHolds(q)'
BY DEF TableHolds, WrittenSwapped, SectionOf, DeclaredIn, Number, Described

LEMMA ReadableThere ==
  ASSUME file' = file, NEW q, position' = q
  PROVE  Readable(position)' = Readable(q)
<1>1. \A i : (Sound(i)' <=> Sound(i)) /\ InterfaceOf(i)' = InterfaceOf(i)
  BY FileStays
<1> QED
  BY <1>1 DEF Readable

LEMMA NextReadable ==
  ASSUME file \in Capture, NEW p \in Nat, p + 1 \in 1..Len(file),
         \A j \in 1..(p + 1) : Sound(j)
  PROVE  Readable(p + 1)
           = Readable(p) \cup
             (IF file[p + 1].type = "packet" /\ Wanted(file[p + 1], InterfaceOf(p + 1))
              THEN {p + 1} ELSE {})
<1>1. 1..(p + 1) = (1..p) \cup {p + 1}
  OBVIOUS
<1>2. \A i \in 1..(p + 1) : \A j \in 1..i : j \in 1..(p + 1)
  OBVIOUS
<1>3. Readable(p + 1) = {i \in 1..(p + 1) : file[i].type = "packet"
                                              /\ Wanted(file[i], InterfaceOf(i))}
  BY <1>2 DEF Readable
<1>4. Readable(p) = {i \in 1..p : file[i].type = "packet" /\ Wanted(file[i], InterfaceOf(i))}
  BY <1>1, <1>2 DEF Readable
<1> QED
  BY <1>1, <1>3, <1>4

(* An interface block takes the next number.                                *)
LEMMA NumbersBelow ==
  ASSUME file \in Capture, Opens, NEW n \in 1..Len(file), NEW j \in DeclaredIn(n)
  PROVE  Number(j) \in Nat /\ Number(j) + 1 <= Cardinality(DeclaredIn(n))
<1>0. Len(file) \in Nat
  BY CaptureAssumption
<1>1. SectionOf(n) \in 1..n /\ j \in SectionOf(n)..n /\ file[j].type = "interface"
  BY SectionFacts DEF DeclaredIn
<1>2. j \in 1..Len(file) /\ j \in Int /\ n \in Int /\ SectionOf(n) \in Int
  BY <1>0, <1>1
<1>3. SectionOf(j) = SectionOf(n)
  BY <1>1, SectionWithin
<1>4. DeclaredIn(j) \in SUBSET DeclaredIn(n) /\ j \in DeclaredIn(j)
  BY <1>1, <1>2, <1>3 DEF DeclaredIn
<1>5. IsFiniteSet(DeclaredIn(n)) /\ Cardinality(DeclaredIn(n)) \in Nat
      /\ IsFiniteSet(DeclaredIn(j)) /\ Cardinality(DeclaredIn(j)) \in Nat
  BY <1>2, DeclaredFinite
<1>6. Cardinality(DeclaredIn(j)) <= Cardinality(DeclaredIn(n))
  BY <1>4, <1>5, FS_Subset
<1>7. Cardinality(DeclaredIn(j)) # 0
  BY <1>4, <1>5, FS_EmptySet
<1> QED
  BY <1>5, <1>6, <1>7 DEF Number

LEMMA TableGrows ==
  ASSUME file \in Capture, Opens, file' = file, interfaces \in Seq(InterfaceEntry),
         NEW n \in Nat, n >= 1, n + 1 \in 1..Len(file), TableHolds(n), swapped' = swapped,
         file[n + 1].type = "interface",
         interfaces' = Append(interfaces, Described(n + 1))
  PROVE  TableHolds(n + 1)'
<1>1. n \in 1..Len(file) /\ Len(file) \in Nat
  BY CaptureAssumption
<1>2. DeclaredIn(n + 1) = DeclaredIn(n) \cup {n + 1} /\ SectionOf(n + 1) = SectionOf(n)
  BY DeclaredNext, SectionNext
<1>3. n + 1 \notin DeclaredIn(n)
  <2>1. SectionOf(n) \in Int
    BY <1>1, SectionFacts
  <2> QED BY <2>1 DEF DeclaredIn
<1>4. IsFiniteSet(DeclaredIn(n)) /\ Cardinality(DeclaredIn(n)) \in Nat
  BY <1>1, DeclaredFinite
<1>5. Cardinality(DeclaredIn(n + 1)) = Cardinality(DeclaredIn(n)) + 1
  BY <1>2, <1>3, <1>4, FS_AddElement
<1> DEFINE len == Len(interfaces)
<1>6. len \in Nat /\ DOMAIN interfaces = 1..len /\ len = Cardinality(DeclaredIn(n))
  BY <1>1 DEF TableHolds
<1>7. /\ DOMAIN interfaces' = 1..(len + 1) /\ Len(interfaces') = len + 1
      /\ interfaces'[len + 1] = Described(n + 1)
      /\ \A k \in 1..len : interfaces'[k] = interfaces[k]
  <2>1. Described(n + 1) \in InterfaceEntry
    BY BlockTypes, UnitType DEF Described, InterfaceEntry
  <2> QED
    BY <2>1, AppendProperties
<1>8. Number(n + 1) = len
  BY <1>4, <1>5, <1>6 DEF Number
<1> HIDE DEF len
<1>9. \A j \in DeclaredIn(n) :
        Number(j) + 1 \in 1..len /\ interfaces'[Number(j) + 1] = Described(j)
  BY <1>6, <1>7 DEF TableHolds
<1>10. \A j \in DeclaredIn(n + 1) :
         Number(j) + 1 \in 1..(len + 1) /\ interfaces'[Number(j) + 1] = Described(j)
  <2> SUFFICES ASSUME NEW j \in DeclaredIn(n + 1)
               PROVE  Number(j) + 1 \in 1..(len + 1)
                      /\ interfaces'[Number(j) + 1] = Described(j)
    OBVIOUS
  <2>1. CASE j \in DeclaredIn(n)
    <3>1. Number(j) \in Nat
      BY <1>1, <2>1, NumbersBelow
    <3> QED
      BY <1>6, <1>9, <2>1, <3>1
  <2>2. CASE j = n + 1
    BY <1>6, <1>7, <1>8, <2>2
  <2> QED
    BY <1>2, <2>1, <2>2
<1>11. \A k \in 1..(len + 1) : \E j \in DeclaredIn(n + 1) : Number(j) + 1 = k
  <2> SUFFICES ASSUME NEW k \in 1..(len + 1)
               PROVE  \E j \in DeclaredIn(n + 1) : Number(j) + 1 = k
    OBVIOUS
  <2>1. CASE k = len + 1
    <3>1. n + 1 \in DeclaredIn(n + 1) /\ Number(n + 1) + 1 = k
      BY <1>2, <1>8, <2>1
    <3> QED BY <3>1
  <2>2. CASE k \in 1..len
    BY <1>2, <1>6, <2>2 DEF TableHolds
  <2> QED
    BY <1>6, <2>1, <2>2
<1>12. swapped' = WrittenSwapped(n + 1)
  BY <1>2 DEF TableHolds, WrittenSwapped
<1>13. \A i : /\ WrittenSwapped(i)' = WrittenSwapped(i) /\ DeclaredIn(i)' = DeclaredIn(i)
              /\ Number(i)' = Number(i) /\ Described(i)' = Described(i)
  BY FileStays
<1>14. Len(interfaces') = Cardinality(DeclaredIn(n + 1))
  BY <1>5, <1>6, <1>7
<1> QED
  BY <1>7, <1>10, <1>11, <1>12, <1>13, <1>14 DEF TableHolds

LEMMA TableKept ==
  ASSUME file \in Capture, Opens, file' = file,
         NEW n \in Nat, n >= 1, n + 1 \in 1..Len(file), TableHolds(n),
         swapped' = swapped, interfaces' = interfaces,
         file[n + 1].type \notin {"section", "interface"}
  PROVE  TableHolds(n + 1)'
<1>1. DeclaredIn(n + 1) = DeclaredIn(n) /\ SectionOf(n + 1) = SectionOf(n)
  BY DeclaredNext, SectionNext
<1>2. WrittenSwapped(n + 1) = WrittenSwapped(n)
  BY <1>1 DEF WrittenSwapped
<1>3. \A i : /\ WrittenSwapped(i)' = WrittenSwapped(i) /\ DeclaredIn(i)' = DeclaredIn(i)
              /\ Number(i)' = Number(i) /\ Described(i)' = Described(i)
  BY FileStays
<1> QED
  BY <1>1, <1>2, <1>3 DEF TableHolds

LEMMA TableStarts ==
  ASSUME file' = file, NEW n \in Nat \ {0}, file[n].type = "section",
         swapped' = (file[n].order = "swapped"), interfaces' = <<>>
  PROVE  TableHolds(n)'
<1>1. DeclaredIn(n) = {} /\ WrittenSwapped(n) = (file[n].order = "swapped")
  BY DeclaredHere, SectionHere DEF WrittenSwapped
<1>2. Cardinality(DeclaredIn(n)) = 0 /\ Len(<<>>) = 0 /\ DOMAIN <<>> = {}
  <2>1. Cardinality({}) = 0
    BY FS_EmptySet
  <2> QED BY <1>1, <2>1
<1>3. \A i : /\ WrittenSwapped(i)' = WrittenSwapped(i) /\ DeclaredIn(i)' = DeclaredIn(i)
              /\ Number(i)' = Number(i) /\ Described(i)' = Described(i)
  BY FileStays
<1> QED
  BY <1>1, <1>2, <1>3 DEF TableHolds

-----------------------------------------------------------------------------
(* Every step of the reader keeps its invariant.                            *)

LEMMA EntryTypes ==
  ASSUME ReaderInv, NEW n \in 1..Len(file), file[n].type = "packet",
         NEW d, d = InterfaceIn(interfaces, file[n].interface), Wanted(file[n], d)
  PROVE  /\ Payload(n, d) \in PayloadEntry /\ Payload(n, d).block = n
         /\ Payload(n, d).unit = d.unit
         /\ Payload(n, d).length \in 0..(file[n].frame.captured
                                          - (IPOffset + file[n].frame.ihl + 8))
         /\ Payload(n, d).length <= file[n].frame.udp - 8
<1>1. file[n].frame \in Frame /\ file[n].interface \in Nat /\ n \in Nat
  BY BlockTypes DEF ReaderInv, ReaderTypes
<1>2. d \in InterfaceEntry
  <2>1. CASE file[n].interface < Len(interfaces)
    <3>1. file[n].interface + 1 \in DOMAIN interfaces
      BY <1>1, <2>1 DEF ReaderInv, ReaderTypes
    <3> QED
      BY <2>1, <3>1 DEF InterfaceIn, ReaderInv, ReaderTypes
  <2>2. CASE ~(file[n].interface < Len(interfaces))
    <3>1. Microseconds \in TimeUnit
      BY DEF Microseconds, TimeUnit
    <3>2. DefaultInterface \in InterfaceEntry
      BY <3>1 DEF DefaultInterface, InterfaceEntry
    <3>3. d = DefaultInterface
      BY <2>2 DEF InterfaceIn
    <3> QED
      BY <3>2, <3>3
  <2> QED
    BY <2>1, <2>2
<1>3. d.unit \in TimeUnit
  BY <1>2 DEF InterfaceEntry
<1>4. Accepted(file[n].frame)
  BY DEF Wanted
<1>5. PayloadLength(file[n].frame) \in Int
  BY <1>1, <1>4, PayloadBounds
<1> QED
  BY <1>1, <1>3, <1>4, <1>5, PayloadBounds DEF Payload, PayloadEntry

LEMMA PayloadsAppend ==
  ASSUME payloads \in Seq(PayloadEntry), NEW e \in PayloadEntry,
         payloads' = Append(payloads, e)
  PROVE  /\ payloads' \in Seq(PayloadEntry) /\ Len(payloads) \in Nat
         /\ Len(payloads') = Len(payloads) + 1
         /\ DOMAIN payloads = 1..Len(payloads)
         /\ DOMAIN payloads' = (DOMAIN payloads) \cup {Len(payloads) + 1}
         /\ payloads'[Len(payloads) + 1] = e
         /\ \A k \in DOMAIN payloads : payloads'[k] = payloads[k]
<1>1. Len(payloads) \in Nat /\ DOMAIN payloads = 1..Len(payloads)
  OBVIOUS
<1>2. /\ payloads' \in Seq(PayloadEntry) /\ Len(payloads') = Len(payloads) + 1
      /\ payloads'[Len(payloads) + 1] = e
      /\ \A k \in 1..Len(payloads) : payloads'[k] = payloads[k]
      /\ DOMAIN payloads' = 1..(Len(payloads) + 1)
  BY AppendProperties
<1>3. 1..(Len(payloads) + 1) = (1..Len(payloads)) \cup {Len(payloads) + 1}
  BY <1>1
<1> QED
  BY <1>1, <1>2, <1>3

(* What next_packet() has returned, after one block.                        *)
Passed(n) == payloads' = payloads /\ call' = call
Returned(n, d) == payloads' = Append(payloads, Payload(n, d)) /\ call' = "returned"

LEMMA PayloadsKept ==
  ASSUME ReaderInv, file' = file, NEW n \in 1..Len(file), n = position + 1, position' = n,
         Passed(n) \/ (/\ file[n].type = "packet"
                       /\ Wanted(file[n], InterfaceIn(interfaces, file[n].interface))
                       /\ Returned(n, InterfaceIn(interfaces, file[n].interface)))
  PROVE  /\ payloads' \in Seq(PayloadEntry)
         /\ \A k \in DOMAIN payloads' :
              payloads'[k].block \in 1..n /\ file[payloads'[k].block].type = "packet"
         /\ PayloadInFrame'
<1>1. position \in Nat /\ \A b \in 1..position : b \in 1..n
  BY DEF ReaderInv, ReaderTypes
<1>2. CASE Passed(n)
  <2>1. payloads' = payloads
    BY <1>2 DEF Passed
  <2>2. PayloadInFrame'
    BY <2>1 DEF ReaderInv, PayloadInFrame
  <2> QED
    BY <1>1, <2>1, <2>2 DEF ReaderInv, ReaderTypes
<1>3. CASE /\ file[n].type = "packet"
           /\ Wanted(file[n], InterfaceIn(interfaces, file[n].interface))
           /\ Returned(n, InterfaceIn(interfaces, file[n].interface))
  <2> DEFINE d == InterfaceIn(interfaces, file[n].interface)
             e == Payload(n, d)
             f == file[n].frame
  <2>1. /\ e \in PayloadEntry /\ e.block = n
        /\ e.length \in 0..(f.captured - (IPOffset + f.ihl + 8)) /\ e.length <= f.udp - 8
    <3> HIDE DEF d
    <3>1. /\ Wanted(file[n], d) /\ file[n].type = "packet"
          /\ d = InterfaceIn(interfaces, file[n].interface)
      BY <1>3 DEF d
    <3> QED
      BY <3>1, EntryTypes
  <2>2. payloads' = Append(payloads, e) /\ payloads \in Seq(PayloadEntry)
    BY <1>3 DEF Returned, ReaderInv, ReaderTypes
  <2> HIDE DEF e, d
  <2>3. /\ payloads' \in Seq(PayloadEntry) /\ Len(payloads) \in Nat
        /\ DOMAIN payloads' = (DOMAIN payloads) \cup {Len(payloads) + 1}
        /\ payloads'[Len(payloads) + 1] = e
        /\ \A k \in DOMAIN payloads : payloads'[k] = payloads[k]
    BY <2>1, <2>2, PayloadsAppend
  <2>4. \A k \in DOMAIN payloads' :
          payloads'[k].block \in 1..n /\ file[payloads'[k].block].type = "packet"
    <3> SUFFICES ASSUME NEW k \in DOMAIN payloads'
                 PROVE  payloads'[k].block \in 1..n /\ file[payloads'[k].block].type = "packet"
      OBVIOUS
    <3>1. CASE k \in DOMAIN payloads
      BY <1>1, <2>3, <3>1 DEF ReaderInv, ReaderTypes
    <3>2. CASE k = Len(payloads) + 1
      BY <1>3, <2>1, <2>3, <3>2
    <3> QED
      BY <2>3, <3>1, <3>2
  <2>5. PayloadInFrame'
    <3> SUFFICES ASSUME NEW k \in DOMAIN payloads'
                 PROVE  LET g == file[payloads'[k].block].frame
                        IN  /\ payloads'[k].length \in 0..(g.captured - (IPOffset + g.ihl + 8))
                            /\ payloads'[k].length <= g.udp - 8
      BY DEF PayloadInFrame, IPOffset
    <3>1. CASE k \in DOMAIN payloads
      BY <2>3, <3>1 DEF ReaderInv, PayloadInFrame
    <3>2. CASE k = Len(payloads) + 1
      BY <2>1, <2>3, <3>2
    <3> QED
      BY <2>3, <3>1, <3>2
  <2> QED
    BY <2>3, <2>4, <2>5
<1> QED
  BY <1>2, <1>3

LEMMA InterfaceThere ==
  ASSUME file' = file, NEW k, NEW b, payloads'[k].block = b
  PROVE  InterfaceOf(payloads[k].block)' = InterfaceOf(b)
<1> DEFINE at == payloads[k].block
           named == {j \in DeclaredIn(at) : Number(j) = file[at].interface}
           there == {j \in DeclaredIn(b) : Number(j) = file[b].interface}
<1>1. \A i : /\ DeclaredIn(i)' = DeclaredIn(i) /\ Number(i)' = Number(i)
             /\ Described(i)' = Described(i)
  BY FileStays
<1>2. at' = b
  OBVIOUS
<1> HIDE DEF at
<1>3. DeclaredIn(at)' = DeclaredIn(b)'
  BY <1>2 DEF DeclaredIn, SectionOf
<1>4. named' = there
  BY <1>1, <1>2, <1>3
<1>5. \A j : Described(j)' = Described(j)
  BY <1>1
<1>6. InterfaceOf(at)' = IF named' = {} THEN DefaultInterface
                         ELSE Described(CHOOSE j \in named : TRUE)'
  BY DEF InterfaceOf, DefaultInterface
<1>7. Described(CHOOSE j \in named : TRUE)' = Described(CHOOSE j \in there : TRUE)
  BY <1>4 DEF Described
<1>8. InterfaceOf(at)' = InterfaceOf(b)
  BY <1>4, <1>6, <1>7 DEF InterfaceOf
<1> QED
  BY <1>8 DEF at

LEMMA YieldsOn ==
  ASSUME ReaderInv, Opens, file' = file, NEW p \in Nat, position = p, position' = p + 1,
         p + 1 \in 1..Len(file), Sound(p + 1), call' # "failed",
         NEW d, d = InterfaceOf(p + 1),
         \/ /\ ~(file[p + 1].type = "packet" /\ Wanted(file[p + 1], d))
            /\ payloads' = payloads
         \/ /\ file[p + 1].type = "packet" /\ Wanted(file[p + 1], d)
            /\ Payload(p + 1, d) \in PayloadEntry
            /\ payloads' = Append(payloads, Payload(p + 1, d))
  PROVE  (\A j \in 1..position' : Sound(j)') /\ YieldsTheCapture'
<1>1. \A j \in 1..(p + 1) : Sound(j)
  <2>1. \A j \in 1..(p + 1) : j \in 1..p \/ j = p + 1
    OBVIOUS
  <2> QED
    BY <2>1 DEF ReaderInv
<1>2. \A j \in 1..position' : Sound(j)'
  BY <1>1, FileStays
<1>3. Readable(p + 1) = Readable(p) \cup
        (IF file[p + 1].type = "packet" /\ Wanted(file[p + 1], d) THEN {p + 1} ELSE {})
  BY <1>1, NextReadable DEF ReaderInv, ReaderTypes
<1>4. Readable(position)' = Readable(p + 1) /\ \A i : InterfaceOf(i)' = InterfaceOf(i)
  BY ReadableThere, FileStays
<1>5. /\ payloads \in Seq(PayloadEntry) /\ \A k \in DOMAIN payloads : payloads[k].block \in 1..p
      /\ {payloads[k].block : k \in DOMAIN payloads} = Readable(p)
      /\ \A k, m \in DOMAIN payloads : k < m => payloads[k].block < payloads[m].block
      /\ \A k \in DOMAIN payloads : payloads[k].unit = InterfaceOf(payloads[k].block).unit
  BY DEF ReaderInv, ReaderTypes, YieldsTheCapture
<1>6. CASE payloads' = payloads /\ ~(file[p + 1].type = "packet" /\ Wanted(file[p + 1], d))
  <2>1. {payloads'[k].block : k \in DOMAIN payloads'} = Readable(p + 1)
    BY <1>3, <1>5, <1>6
  <2>2. \A k \in DOMAIN payloads' :
          payloads'[k].unit = InterfaceOf(payloads[k].block).unit
    BY <1>5, <1>6
  <2>3. \A k \in DOMAIN payloads' : payloads'[k].unit = InterfaceOf(payloads[k].block)'.unit
    BY <1>6, <2>2, InterfaceThere
  <2> QED
    BY <1>2, <1>4, <1>5, <1>6, <2>1, <2>3 DEF YieldsTheCapture
<1>7. CASE /\ file[p + 1].type = "packet" /\ Wanted(file[p + 1], d)
           /\ Payload(p + 1, d) \in PayloadEntry
           /\ payloads' = Append(payloads, Payload(p + 1, d))
  <2> DEFINE e == Payload(p + 1, d)
             len == Len(payloads)
  <2>1. e.block = p + 1 /\ e.unit = d.unit
    BY DEF Payload
  <2>2. e \in PayloadEntry /\ payloads' = Append(payloads, e)
    BY <1>7
  <2> HIDE DEF e
  <2>3. /\ len \in Nat
        /\ DOMAIN payloads = 1..len
        /\ DOMAIN payloads' = (1..len) \cup {len + 1}
        /\ payloads'[len + 1] = e
        /\ \A k \in 1..len : payloads'[k] = payloads[k]
    BY <1>5, <2>2, PayloadsAppend
  <2> HIDE DEF len
  <2>4. {payloads'[k].block : k \in DOMAIN payloads'}
          = {payloads[k].block : k \in DOMAIN payloads} \cup {p + 1}
    BY <2>1, <2>3
  <2>5. {payloads'[k].block : k \in DOMAIN payloads'} = Readable(p + 1)
    BY <1>3, <1>5, <1>7, <2>4
  <2>6. ASSUME NEW k \in DOMAIN payloads', NEW m \in DOMAIN payloads', k < m
        PROVE  payloads'[k].block < payloads'[m].block
    <3>1. k \in 1..len
      BY <2>3, <2>6
    <3>2. payloads'[k] = payloads[k] /\ payloads[k].block \in 1..p
      BY <1>5, <2>3, <3>1
    <3>3. CASE m \in 1..len
      BY <1>5, <2>3, <2>6, <3>1, <3>3
    <3>4. CASE m = len + 1
      BY <2>1, <2>3, <3>2, <3>4
    <3> QED
      BY <2>3, <3>3, <3>4
  <2>7. ASSUME NEW k \in DOMAIN payloads'
        PROVE  payloads'[k].unit = InterfaceOf(payloads[k].block)'.unit
    <3>1. CASE k \in 1..len
      <4>1. PICK b : b = payloads[k].block /\ b = payloads'[k].block
        BY <2>3, <3>1
      <4>2. payloads'[k].unit = InterfaceOf(b).unit
        BY <1>5, <2>3, <3>1, <4>1
      <4> QED
        BY <4>1, <4>2, InterfaceThere
    <3>2. CASE k = len + 1
      <4>1. p + 1 = payloads'[k].block /\ payloads'[k].unit = InterfaceOf(p + 1).unit
        BY <2>1, <2>3, <3>2
      <4> QED
        BY <4>1, InterfaceThere
    <3> QED
      BY <2>3, <3>1, <3>2
  <2> QED
    BY <1>2, <1>4, <2>5, <2>6, <2>7 DEF YieldsTheCapture
<1> QED
  BY <1>6, <1>7

LEMMA ReaderStarts ==
  ASSUME ReaderInit PROVE ReaderInv
<1>1. /\ file \in Capture /\ file \in Seq(AnyBlock) /\ position = 0 /\ swapped = FALSE
      /\ interfaces = <<>> /\ call = "none" /\ payloads = <<>>
  BY CaptureAssumption DEF ReaderInit
<1>2. ReaderTypes
  <2>1. 0 \in 0..Len(file)
    BY <1>1
  <2>2. <<>> \in Seq(PayloadEntry) /\ <<>> \in Seq(InterfaceEntry)
    OBVIOUS
  <2>3. \A k \in DOMAIN payloads : FALSE
    BY <1>1
  <2> QED
    BY <1>1, <2>1, <2>2, <2>3 DEF ReaderTypes
<1>3. PayloadInFrame
  BY <1>1 DEF PayloadInFrame
<1>4. Readable(0) = {}
  BY DEF Readable
<1>5. YieldsTheCapture
  <2>1. {payloads[k].block : k \in DOMAIN payloads} = {}
    BY <1>1
  <2> QED
    BY <1>1, <1>4, <2>1 DEF YieldsTheCapture
<1> QED
  BY <1>1, <1>2, <1>3, <1>5 DEF ReaderInv

(* A change of nothing but the state of the call, to a failure only at the  *)
(* end or at a block that is not sound.                                     *)
LEMMA ReaderTurns ==
  ASSUME ReaderInv, UNCHANGED <<file, position, swapped, interfaces, payloads>>,
         call' \in {"none", "reading", "returned", "failed"},
         Opens /\ call' = "failed" /\ position < Len(file) => ~Sound(position + 1)
  PROVE  ReaderInv'
<1>0. PICK p : p = position
  OBVIOUS
<1>1. ReaderTypes'
  BY DEF ReaderInv, ReaderTypes
<1>2. PayloadInFrame'
  BY DEF ReaderInv, PayloadInFrame
<1>3. ASSUME Opens'
      PROVE  /\ (\A j \in 1..position : Sound(j))' /\ (position # 0 => TableHolds(position))'
             /\ YieldsTheCapture'
  <2>1. Opens /\ \A i : (Sound(i)' <=> Sound(i)) /\ InterfaceOf(i)' = InterfaceOf(i)
    BY <1>3, FileStays
  <2>2. (\A j \in 1..position : Sound(j))'
    BY <2>1 DEF ReaderInv
  <2>3. position # 0 => TableHolds(p)'
    <3>1. \A i : /\ WrittenSwapped(i)' = WrittenSwapped(i) /\ DeclaredIn(i)' = DeclaredIn(i)
                 /\ Number(i)' = Number(i) /\ Described(i)' = Described(i)
      BY FileStays
    <3>2. position # 0 => TableHolds(p)
      BY <1>0, <2>1 DEF ReaderInv
    <3> QED
      BY <3>1, <3>2 DEF TableHolds
  <2>4. (position # 0 => TableHolds(position))'
    BY <1>0, <2>3, TableThere
  <2>5. Readable(position)' = Readable(p)
    BY <1>0, ReadableThere
  <2>6. /\ {payloads[k].block : k \in DOMAIN payloads} = Readable(p)
        /\ \A k, m \in DOMAIN payloads : k < m => payloads[k].block < payloads[m].block
        /\ \A k \in DOMAIN payloads : payloads[k].unit = InterfaceOf(payloads[k].block).unit
    BY <1>0, <2>1 DEF ReaderInv, YieldsTheCapture
  <2>7. \A k \in DOMAIN payloads' :
          payloads'[k].unit = InterfaceOf(payloads[k].block)'.unit
    <3> SUFFICES ASSUME NEW k \in DOMAIN payloads'
                 PROVE  payloads'[k].unit = InterfaceOf(payloads[k].block)'.unit
      OBVIOUS
    <3>1. PICK b : b = payloads[k].block /\ b = payloads'[k].block
      OBVIOUS
    <3>2. payloads'[k].unit = InterfaceOf(b).unit
      BY <2>6, <3>1
    <3> QED
      BY <3>1, <3>2, InterfaceThere
  <2>8. call' = "failed" /\ position' < Len(file') => ~Sound(position + 1)'
    <3>1. PICK n : n = position + 1
      OBVIOUS
    <3>2. Sound(position + 1)' <=> Sound(n)'
      BY <3>1 DEF Sound
    <3> QED
      BY <2>1, <3>1, <3>2
  <2>9. YieldsTheCapture'
    BY <2>5, <2>6, <2>7, <2>8 DEF YieldsTheCapture
  <2> QED
    BY <2>2, <2>4, <2>9
<1> QED
  BY <1>1, <1>2, <1>3 DEF ReaderInv

(* A block read, of any type that can be.                                   *)
BlockRead(n) ==
  LET d == InterfaceIn(interfaces, file[n].interface)
  IN  /\ file' = file /\ position' = n
      /\ \/ /\ file[n].type = "section" /\ Passed(n)
            /\ swapped' = (file[n].order = "swapped") /\ interfaces' = <<>>
         \/ /\ file[n].type = "interface" /\ Passed(n)
            /\ swapped' = swapped /\ interfaces' = Append(interfaces, Described(n))
         \/ /\ file[n].type = "other" /\ Passed(n)
            /\ swapped' = swapped /\ interfaces' = interfaces
         \/ /\ file[n].type = "packet" /\ ~Wanted(file[n], d) /\ Passed(n)
            /\ swapped' = swapped /\ interfaces' = interfaces
         \/ /\ file[n].type = "packet" /\ Wanted(file[n], d) /\ Returned(n, d)
            /\ swapped' = swapped /\ interfaces' = interfaces

LEMMA StepReads ==
  ASSUME ReaderInv, ReaderStep
  PROVE  \/ /\ call = "reading" /\ position < Len(file) /\ Legible(position + 1)
            /\ BlockRead(position + 1)
         \/ ReadFails
<1>1. CASE ReadSection
  BY <1>1 DEF ReadSection, AtBlock, Block, SwappedIn, NoInterfaces, BlockRead, Passed
<1>2. CASE ReadInterface
  BY <1>2 DEF ReadInterface, AtBlock, Block, Described, BlockRead, Passed
<1>3. CASE ReadPacket
  BY <1>3 DEF ReadPacket, AtBlock, Block, BlockRead, Passed, Returned
<1>4. CASE SkipBlock
  BY <1>4 DEF SkipBlock, AtBlock, Block, BlockRead, Passed
<1> QED
  BY <1>1, <1>2, <1>3, <1>4 DEF ReaderStep

LEMMA BlockKeepsTypes ==
  ASSUME ReaderInv, NEW n \in 1..Len(file), n = position + 1, BlockRead(n)
  PROVE  ReaderTypes' /\ PayloadInFrame'
<1> DEFINE d == InterfaceIn(interfaces, file[n].interface)
<1>1. /\ file \in Capture /\ file \in Seq(AnyBlock) /\ position \in Nat
      /\ file' = file /\ position' = n /\ swapped \in BOOLEAN
      /\ interfaces \in Seq(InterfaceEntry)
      /\ call \in {"none", "reading", "returned", "failed"}
  BY DEF ReaderInv, ReaderTypes, BlockRead
<1>2. Passed(n) \/ (file[n].type = "packet" /\ Wanted(file[n], d) /\ Returned(n, d))
  BY DEF BlockRead
<1>3. /\ payloads' \in Seq(PayloadEntry)
      /\ \A k \in DOMAIN payloads' :
           payloads'[k].block \in 1..n /\ file[payloads'[k].block].type = "packet"
      /\ PayloadInFrame'
  BY <1>1, <1>2, PayloadsKept
<1>4. swapped' \in BOOLEAN
  BY <1>1 DEF BlockRead
<1>5. interfaces' \in Seq(InterfaceEntry)
  <2>1. ASSUME file[n].type = "interface"
        PROVE  Append(interfaces, Described(n)) \in Seq(InterfaceEntry)
    <3>1. Described(n) \in InterfaceEntry
      BY <1>1, <2>1, BlockTypes, UnitType DEF Described, InterfaceEntry
    <3> QED
      BY <1>1, <3>1, AppendProperties
  <2>2. <<>> \in Seq(InterfaceEntry)
    OBVIOUS
  <2> QED
    BY <1>1, <2>1, <2>2 DEF BlockRead
<1>6. call' \in {"none", "reading", "returned", "failed"}
  BY <1>1, <1>2 DEF Passed, Returned
<1> QED
  BY <1>1, <1>3, <1>4, <1>5, <1>6 DEF ReaderTypes

LEMMA BlockKeepsTable ==
  ASSUME ReaderInv, Opens, NEW n \in 1..Len(file), n = position + 1, BlockRead(n)
  PROVE  TableHolds(n)'
<1>1. /\ file \in Capture /\ position \in Nat /\ file' = file
      /\ interfaces \in Seq(InterfaceEntry)
  BY DEF ReaderInv, ReaderTypes, BlockRead
<1>2. CASE file[n].type = "section"
  <2>1. swapped' = (file[n].order = "swapped") /\ interfaces' = <<>>
    BY <1>2 DEF BlockRead
  <2> QED
    BY <1>1, <1>2, <2>1, TableStarts
<1>3. CASE file[n].type # "section"
  <2>1. PICK p \in Nat : p = position /\ n = p + 1
    BY <1>1
  <2>2. p >= 1 /\ TableHolds(p)
    <3>1. p # 0
      BY <1>3, <2>1 DEF Opens
    <3> QED
      BY <2>1, <3>1 DEF ReaderInv
  <2>3. swapped' = swapped
    BY <1>3 DEF BlockRead
  <2>4. CASE file[n].type = "interface"
    <3>1. interfaces' = Append(interfaces, Described(n))
      BY <2>4 DEF BlockRead
    <3> QED
      BY <1>1, <2>1, <2>2, <2>3, <2>4, <3>1, TableGrows
  <2>5. CASE file[n].type # "interface"
    <3>1. interfaces' = interfaces
      BY <1>3, <2>5 DEF BlockRead
    <3> QED
      BY <1>1, <1>3, <2>1, <2>2, <2>3, <2>5, <3>1, TableKept
  <2> QED
    BY <2>4, <2>5
<1> QED
  BY <1>2, <1>3

LEMMA BlockYields ==
  ASSUME ReaderInv, Opens, NEW n \in 1..Len(file), n = position + 1, BlockRead(n),
         Sound(n), call = "reading"
  PROVE  (\A j \in 1..position' : Sound(j)') /\ YieldsTheCapture'
<1> DEFINE d == InterfaceIn(interfaces, file[n].interface)
           e == InterfaceOf(n)
<1>1. /\ file \in Capture /\ file' = file /\ interfaces \in Seq(InterfaceEntry)
      /\ call' # "failed"
  BY DEF ReaderInv, ReaderTypes, BlockRead, Passed, Returned
<1>2. PICK p \in Nat : p = position /\ n = p + 1 /\ position' = p + 1
  BY DEF ReaderInv, ReaderTypes, BlockRead
<1>3. file[n].type = "packet" => d = e
  <2> SUFFICES ASSUME file[n].type = "packet" PROVE d = e
    OBVIOUS
  <2>1. p >= 1
    <3>1. p # 0
      BY <1>2 DEF Opens
    <3> QED BY <3>1
  <2>2. TableHolds(p)
    BY <1>2, <2>1 DEF ReaderInv
  <2> QED
    BY <1>1, <1>2, <2>1, <2>2, TableAnswers
<1>4. \/ ~(file[n].type = "packet" /\ Wanted(file[n], d)) /\ payloads' = payloads
      \/ /\ file[n].type = "packet" /\ Wanted(file[n], d)
         /\ payloads' = Append(payloads, Payload(n, d))
  BY DEF BlockRead, Passed, Returned
<1>5. ASSUME file[n].type = "packet", Wanted(file[n], d)
      PROVE  Payload(n, d) \in PayloadEntry
  <2> HIDE DEF d
  <2>1. d = InterfaceIn(interfaces, file[n].interface)
    BY DEF d
  <2> QED
    BY <1>5, <2>1, EntryTypes
<1> HIDE DEF d, e
<1>6. \/ ~(file[n].type = "packet" /\ Wanted(file[n], e)) /\ payloads' = payloads
      \/ /\ file[n].type = "packet" /\ Wanted(file[n], e)
         /\ Payload(n, e) \in PayloadEntry
         /\ payloads' = Append(payloads, Payload(n, e))
  BY <1>3, <1>4, <1>5
<1>7. e = InterfaceOf(p + 1)
  BY <1>2 DEF e
<1> QED
  BY <1>1, <1>2, <1>6, <1>7, YieldsOn

(* Whatever the reader does, it has read the capture so far as the capture  *)
(* is meant.                                                                *)
LEMMA ReaderReads ==
  ASSUME ReaderInv, ReaderStep
  PROVE  ReaderInv'
<1>1. CASE ReadFails
  <2>1. Opens /\ call' = "failed" /\ position < Len(file) => ~Sound(position + 1)
    BY <1>1, LegibleIsSound DEF ReadFails
  <2> QED
    BY <1>1, <2>1, ReaderTurns DEF ReadFails
<1>2. CASE /\ call = "reading" /\ position < Len(file) /\ Legible(position + 1)
           /\ BlockRead(position + 1)
  <2>1. PICK n \in 1..Len(file) : n = position + 1
    BY <1>2 DEF ReaderInv, ReaderTypes
  <2>2. BlockRead(n) /\ position' = n /\ file' = file
    BY <1>2, <2>1 DEF BlockRead
  <2>3. ReaderTypes' /\ PayloadInFrame'
    BY <2>1, <2>2, BlockKeepsTypes
  <2>4. ASSUME Opens'
        PROVE  /\ (\A j \in 1..position : Sound(j))' /\ (position # 0 => TableHolds(position))'
               /\ YieldsTheCapture'
    <3>1. Opens
      BY <2>2, <2>4, FileStays
    <3>2. Sound(n)
      BY <1>2, <2>1, <3>1, LegibleIsSound
    <3>3. (\A j \in 1..position' : Sound(j)') /\ YieldsTheCapture'
      BY <1>2, <2>1, <2>2, <3>1, <3>2, BlockYields
    <3>4. TableHolds(position)'
      BY <2>1, <2>2, <3>1, BlockKeepsTable, TableThere
    <3> QED
      BY <3>3, <3>4
  <2> QED
    BY <2>3, <2>4 DEF ReaderInv
<1> QED
  BY <1>1, <1>2, StepReads

LEMMA ReaderStays ==
  ASSUME ReaderInv, UNCHANGED readerVars
  PROVE  ReaderInv'
<1>1. /\ UNCHANGED <<file, position, swapped, interfaces, payloads>>
      /\ call' \in {"none", "reading", "returned", "failed"}
      /\ Opens /\ call' = "failed" /\ position < Len(file) => ~Sound(position + 1)
  BY DEF readerVars, ReaderInv, ReaderTypes, YieldsTheCapture
<1> QED
  BY <1>1, ReaderTurns

LEMMA ReaderAsks ==
  ASSUME ReaderInv, NextPacket
  PROVE  ReaderInv'
<1>1. /\ UNCHANGED <<file, position, swapped, interfaces, payloads>>
      /\ call' = "reading"
  BY DEF NextPacket
<1> QED
  BY <1>1, ReaderTurns

-----------------------------------------------------------------------------
(* The replay.                                                              *)

ReplayTypes ==
  /\ program \in {"exchange", "checkcap"}
  /\ replay \in {"start", "loop", "sleep", "exited"}
  /\ packets \in Nat /\ packets \in (Len(payloads) - 1)..Len(payloads)
  /\ elapsed \in Nat /\ halted \in BOOLEAN
  /\ verdict \in {NoVerdict, 0, 1, 2, 130}

(* Before it starts nothing is read, and only a capture that opens is.      *)
ReplayBegins ==
  /\ replay = "start" =>
       position = 0 /\ payloads = <<>> /\ call = "none" /\ elapsed = 0 /\ ~halted
  /\ replay \in {"loop", "sleep"} => Opens
  /\ ~Opens => payloads = <<>>
  /\ ~Opens /\ replay = "exited" => verdict = 1
  /\ replay # "exited" => verdict = NoVerdict

(* What is read is counted before the next packet is asked for.             *)
Counting ==
  /\ packets < Len(payloads) => call = "returned" /\ replay = "loop"
  /\ replay = "sleep" => program = "exchange" /\ packets >= 1 /\ call = "returned"
  /\ program = "exchange" => Len(payloads) <= PacketCount
  /\ program = "exchange" /\ call = "reading" => packets < PacketCount

(* And the verdict is about what was counted.                               *)
Judged ==
  replay = "exited" /\ Opens =>
    /\ program = "checkcap" => call = "failed" /\ verdict = CheckcapVerdict
    /\ program = "exchange" =>
         verdict \in {1, 130} \/ (verdict = 0 /\ (call = "failed" \/ packets = PacketCount))

ReplayInv == ReplayTypes /\ ReplayBegins /\ Counting /\ Judged


LEMMA ReplayStarts ==
  ASSUME ReplayInit PROVE ReplayInv
<1>1. /\ position = 0 /\ payloads = <<>> /\ call = "none"
      /\ replay = "start" /\ packets = 0 /\ elapsed = 0 /\ halted = FALSE
      /\ verdict = NoVerdict /\ program \in {"exchange", "checkcap"}
  BY DEF ReplayInit, ReaderInit
<1>2. Len(payloads) = 0 /\ PacketCount \in Nat /\ 0 \in (0 - 1)..0
  BY <1>1, ReplayAssumption
<1>3. ReplayTypes
  <2>1. packets \in (Len(payloads) - 1)..Len(payloads)
    BY <1>1, <1>2
  <2> QED
    BY <1>1, <2>1 DEF ReplayTypes
<1>4. ReplayBegins
  BY <1>1 DEF ReplayBegins
<1>5. Counting
  BY <1>1, <1>2 DEF Counting
<1>6. Judged
  BY <1>1 DEF Judged
<1> QED
  BY <1>3, <1>4, <1>5, <1>6 DEF ReplayInv

(* One block more gives one payload more, or none.                          *)
LEMMA ReadsOne ==
  ASSUME ReaderInv, ReaderStep
  PROVE  /\ call = "reading" /\ (Opens' <=> Opens) /\ Len(payloads) \in Nat
         /\ \/ Len(payloads') = Len(payloads) + 1 /\ call' = "returned"
            \/ payloads' = payloads /\ call' \in {"reading", "failed"}
<1>1. payloads \in Seq(PayloadEntry) /\ Len(payloads) \in Nat
  BY DEF ReaderInv, ReaderTypes
<1>2. CASE ReadFails
  BY <1>1, <1>2, FileStays DEF ReadFails
<1>3. CASE /\ call = "reading" /\ position < Len(file) /\ BlockRead(position + 1)
  <2>1. PICK n \in 1..Len(file) : n = position + 1
    BY <1>3 DEF ReaderInv, ReaderTypes
  <2>2. BlockRead(n)
    BY <1>3, <2>1
  <2> DEFINE d == InterfaceIn(interfaces, file[n].interface)
  <2>3. \/ payloads' = payloads /\ call' = call
        \/ /\ file[n].type = "packet" /\ Wanted(file[n], d)
           /\ payloads' = Append(payloads, Payload(n, d)) /\ call' = "returned"
    BY <2>2 DEF BlockRead, Passed, Returned
  <2>4. Opens' <=> Opens
    BY <2>2, FileStays DEF BlockRead
  <2>5. ASSUME file[n].type = "packet", Wanted(file[n], d)
        PROVE  Payload(n, d) \in PayloadEntry
    <3> HIDE DEF d
    <3>1. d = InterfaceIn(interfaces, file[n].interface)
      BY DEF d
    <3> QED
      BY <2>5, <3>1, EntryTypes
  <2> HIDE DEF d
  <2> QED
    BY <1>1, <1>3, <2>3, <2>4, <2>5, PayloadsAppend
<1> QED
  BY <1>2, <1>3, StepReads

LEMMA StartKeepsReplay ==
  ASSUME ReaderInv, ReplayInv, Start PROVE ReplayInv'
<1>0. /\ UNCHANGED <<file, position, call, payloads, program, packets, elapsed, halted>>
      /\ replay = "start"
      /\ \/ Opens /\ replay' = "loop" /\ verdict' = verdict
         \/ /\ ~Opens \/ program = "exchange"
            /\ replay' = "exited" /\ verdict' = 1
  BY DEF Start, readerVars
<1>1. /\ UNCHANGED <<file, position, call, payloads, program, packets, elapsed, halted>>
      /\ position = 0 /\ payloads = <<>> /\ call = "none" /\ elapsed = 0
      /\ \/ Opens /\ replay' = "loop" /\ verdict' = verdict
         \/ /\ ~Opens \/ program = "exchange"
            /\ replay' = "exited" /\ verdict' = 1
  BY <1>0 DEF ReplayInv, ReplayBegins
<1>2. Opens' <=> Opens
  BY <1>1, FileStays
<1>3. ReplayTypes'
  BY <1>1 DEF ReplayInv, ReplayTypes
<1>4. ReplayBegins'
  BY <1>0, <1>1, <1>2 DEF ReplayInv, ReplayBegins
<1>5. Counting'
  BY <1>1 DEF ReplayInv, Counting
<1>6. Judged'
  BY <1>1, <1>2 DEF Judged, ReplayInv, ReplayTypes
<1> QED
  BY <1>3, <1>4, <1>5, <1>6 DEF ReplayInv

LEMMA AskKeepsReplay ==
  ASSUME ReaderInv, ReplayInv, AskNext PROVE ReplayInv'
<1>1. /\ UNCHANGED <<file, position, payloads, program, replay, packets, elapsed, halted,
                     verdict>>
      /\ replay = "loop" /\ call' = "reading" /\ packets = Len(payloads) /\ GoesOn
  BY DEF AskNext, NextPacket
<1>2. Opens' <=> Opens
  BY <1>1, FileStays
<1>3. ReplayTypes'
  BY <1>1 DEF ReplayInv, ReplayTypes
<1>4. ReplayBegins'
  BY <1>1, <1>2 DEF ReplayInv, ReplayBegins
<1>5. Counting'
  <2>1. packets \in Nat /\ PacketCount \in Nat
    BY ReplayAssumption DEF ReplayInv, ReplayTypes
  <2> QED
    BY <1>1, <2>1 DEF ReplayInv, Counting, GoesOn, Enough
<1>6. Judged'
  BY <1>1, <1>2 DEF Judged
<1> QED
  BY <1>3, <1>4, <1>5, <1>6 DEF ReplayInv

LEMMA ReadKeepsReplay ==
  ASSUME ReaderInv, ReplayInv, ReadOn PROVE ReplayInv'
<1>1. /\ UNCHANGED <<program, replay, packets, elapsed, halted, verdict>>
      /\ replay = "loop" /\ call = "reading" /\ (Opens' <=> Opens) /\ Len(payloads) \in Nat
      /\ \/ Len(payloads') = Len(payloads) + 1 /\ call' = "returned"
         \/ payloads' = payloads /\ call' \in {"reading", "failed"}
  BY ReadsOne DEF ReadOn
<1>2. /\ packets \in Nat /\ packets = Len(payloads) /\ Opens
      /\ program = "exchange" => packets < PacketCount /\ Len(payloads) <= PacketCount
  <2>1. packets \in Nat /\ packets \in (Len(payloads) - 1)..Len(payloads)
    BY DEF ReplayInv, ReplayTypes
  <2> QED
    BY <1>1, <2>1 DEF ReplayInv, ReplayBegins, Counting
<1>3. ReplayTypes'
  BY <1>1, <1>2 DEF ReplayInv, ReplayTypes
<1>4. ReplayBegins'
  BY <1>1, <1>2 DEF ReplayInv, ReplayBegins
<1>5. Counting'
  <2>1. PacketCount \in Nat
    BY ReplayAssumption
  <2> QED
    BY <1>1, <1>2, <2>1 DEF Counting
<1>6. Judged'
  BY <1>1 DEF Judged
<1> QED
  BY <1>3, <1>4, <1>5, <1>6 DEF ReplayInv

LEMMA CountKeepsReplay ==
  ASSUME ReaderInv, ReplayInv, Count PROVE ReplayInv'
<1>1. /\ UNCHANGED <<file, position, call, payloads, program, elapsed, halted, verdict>>
      /\ replay = "loop" /\ call = "returned" /\ packets < Len(payloads)
      /\ packets' = packets + 1 /\ replay' \in {"loop", "sleep"}
      /\ replay' = "sleep" => program = "exchange"
  BY DEF Count, readerVars
<1>2. Opens' <=> Opens
  BY <1>1, FileStays
<1>3. packets \in Nat /\ packets + 1 = Len(payloads)
  <2>1. Len(payloads) \in Nat
    BY DEF ReaderInv, ReaderTypes
  <2> QED
    BY <1>1, <2>1 DEF ReplayInv, ReplayTypes
<1>4. ReplayTypes'
  BY <1>1, <1>3 DEF ReplayInv, ReplayTypes
<1>5. ReplayBegins'
  BY <1>1, <1>2 DEF ReplayInv, ReplayBegins
<1>6. Counting'
  BY <1>1, <1>3 DEF ReplayInv, Counting
<1>7. Judged'
  BY <1>1 DEF Judged
<1> QED
  BY <1>4, <1>5, <1>6, <1>7 DEF ReplayInv

LEMMA WakeKeepsReplay ==
  ASSUME ReaderInv, ReplayInv, WakeUp PROVE ReplayInv'
<1>1. /\ UNCHANGED <<file, position, call, payloads, program, packets, elapsed, halted, verdict>>
      /\ replay = "sleep" /\ replay' = "loop"
  BY DEF WakeUp, readerVars
<1>2. Opens' <=> Opens
  BY <1>1, FileStays
<1> QED
  BY <1>1, <1>2 DEF ReplayInv, ReplayTypes, ReplayBegins, Counting, Judged

LEMMA ExitKeepsReplay ==
  ASSUME ReaderInv, ReplayInv, ReplayExits PROVE ReplayInv'
<1>1. /\ UNCHANGED <<file, position, call, payloads, program, packets, elapsed, halted>>
      /\ replay = "loop" /\ replay' = "exited" /\ Finished
      /\ verdict' = IF program = "checkcap" THEN CheckcapVerdict
                    ELSE IF halted THEN 130 ELSE 0
  BY DEF ReplayExits, readerVars
<1>2. (Opens' <=> Opens) /\ Opens
  BY <1>1, FileStays DEF ReplayInv, ReplayBegins
<1>3. packets = Len(payloads) /\ packets \in Nat
  <2>1. packets \in Nat /\ packets \in (Len(payloads) - 1)..Len(payloads)
        /\ Len(payloads) \in Nat
    BY DEF ReplayInv, ReplayTypes, ReaderInv, ReaderTypes
  <2> QED
    BY <1>1, <2>1 DEF Finished, ReplayInv, Counting
<1>4. ReplayTypes'
  BY <1>1 DEF ReplayInv, ReplayTypes, CheckcapVerdict
<1>5. ReplayBegins'
  BY <1>1, <1>2 DEF ReplayInv, ReplayBegins
<1>6. Counting'
  BY <1>1, <1>3 DEF ReplayInv, Counting
<1>7. Judged'
  <2>1. program = "checkcap" => call = "failed"
    BY <1>1 DEF Finished, GoesOn
  <2>2. program = "exchange" /\ ~halted => call = "failed" \/ packets = PacketCount
    <3>1. PacketCount \in Nat
      BY ReplayAssumption
    <3> QED
      BY <1>1, <1>3, <3>1 DEF Finished, GoesOn, Enough, ReplayInv, Counting
  <2>3. CheckcapVerdict' = CheckcapVerdict
    BY <1>1 DEF CheckcapVerdict
  <2> QED
    BY <1>1, <2>1, <2>2, <2>3 DEF Judged
<1> QED
  BY <1>4, <1>5, <1>6, <1>7 DEF ReplayInv

(* A signal, or time.                                                       *)
LEMMA PassingKeepsReplay ==
  ASSUME ReaderInv, ReplayInv, UNCHANGED <<readerVars, program, replay, packets, verdict>>,
         halted' \in BOOLEAN, elapsed' \in Nat,
         replay = "start" => elapsed' = elapsed /\ halted' = halted
  PROVE  ReplayInv'
<1>1. UNCHANGED <<file, position, call, payloads>>
  BY DEF readerVars
<1>2. Opens' <=> Opens
  BY <1>1, FileStays
<1> QED
  BY <1>1, <1>2
  DEF ReplayInv, ReplayTypes, ReplayBegins, Counting, Judged, CheckcapVerdict

(* One payload for each readable packet.                                    *)
LEMMA PayloadPerPacket ==
  ASSUME ReaderInv, Opens
  PROVE  /\ IsFiniteSet(Readable(position)) /\ Len(payloads) \in Nat
         /\ Cardinality(Readable(position)) = Len(payloads)
<1> DEFINE len == Len(payloads)
           R == Readable(position)
           f == [k \in 1..len |-> payloads[k].block]
<1>1. len \in Nat /\ DOMAIN payloads = 1..len
  BY DEF ReaderInv, ReaderTypes
<1>2. /\ {payloads[k].block : k \in DOMAIN payloads} = R
      /\ \A k, m \in DOMAIN payloads : k < m => payloads[k].block < payloads[m].block
      /\ \A k \in DOMAIN payloads : payloads[k].block \in Int
  BY DEF ReaderInv, ReaderTypes, YieldsTheCapture
<1> HIDE DEF len, R
<1>3. f \in [1..len -> R] /\ \A k \in 1..len : f[k] \in Int
  BY <1>1, <1>2
<1>4. \A k, m \in 1..len : k < m => f[k] < f[m]
  BY <1>1, <1>2
<1>5. \A y \in R : \E k \in 1..len : f[k] = y
  BY <1>1, <1>2
<1> HIDE DEF f
<1>6. \A k, m \in 1..len : f[k] = f[m] => k = m
  <2> SUFFICES ASSUME NEW k \in 1..len, NEW m \in 1..len, f[k] = f[m] PROVE k = m
    OBVIOUS
  <2>1. ~(k < m) /\ ~(m < k)
    BY <1>3, <1>4
  <2>2. k \in Int /\ m \in Int
    BY <1>1
  <2> QED
    BY <2>1, <2>2
<1>7. f \in Bijection(1..len, R)
  BY <1>3, <1>5, <1>6 DEF Bijection, Injection, Surjection, IsInjective
<1>8. ExistsBijection(1..len, R)
  BY <1>7 DEF ExistsBijection
<1>9. IsFiniteSet(1..len) /\ Cardinality(1..len) = len
  BY <1>1, FS_Interval
<1>10. IsFiniteSet(R) /\ Cardinality(R) = len
  BY <1>1, <1>8, <1>9, FS_Bijection
<1> QED
  BY <1>1, <1>10 DEF R, len

(* What has been read of the capture is readable in the whole of it, and a  *)
(* reader that has failed has left nothing.                                 *)
LEMMA ReadableSoFar ==
  ASSUME ReaderInv, Opens
  PROVE  /\ Readable(position) \in SUBSET Readable(Len(file))
         /\ IsFiniteSet(Readable(Len(file)))
         /\ call = "failed" => Readable(Len(file)) = Readable(position)
<1>1. PICK p \in Nat, n \in Nat : p = position /\ n = Len(file) /\ p <= n
  <2>1. position \in 0..Len(file) /\ Len(file) \in Nat
    BY DEF ReaderInv, ReaderTypes
  <2>2. position \in Nat /\ position <= Len(file)
    BY <2>1
  <2> QED
    BY <2>1, <2>2
<1>2. \A i \in 1..p : i \in 1..n
  BY <1>1
<1>3. Readable(p) \in SUBSET Readable(n)
  BY <1>2 DEF Readable
<1>4. IsFiniteSet(Readable(n))
  <2>1. IsFiniteSet(1..n) /\ Readable(n) \in SUBSET (1..n)
    BY FS_Interval DEF Readable
  <2> QED
    BY <2>1, FS_Subset
<1>5. ASSUME call = "failed" PROVE Readable(n) \subseteq Readable(p)
  <2> SUFFICES ASSUME NEW i \in Readable(n) PROVE i \in Readable(p)
    OBVIOUS
  <2>1. i \in 1..n /\ \A j \in 1..i : Sound(j)
    BY DEF Readable
  <2>2. i \in 1..p
    <3> SUFFICES ASSUME p < i PROVE FALSE
      BY <2>1
    <3>1. p < n /\ p + 1 \in 1..i
      BY <2>1
    <3>2. ~Sound(p + 1)
      BY <1>1, <1>5, <3>1 DEF ReaderInv, YieldsTheCapture
    <3> QED
      BY <2>1, <3>1, <3>2
  <2> QED
    BY <2>2 DEF Readable
<1> QED
  BY <1>1, <1>3, <1>4, <1>5

LEMMA VerdictsFollow ==
  ASSUME ReaderInv, ReplayInv
  PROVE  VerdictsAgree
<1> DEFINE whole == Cardinality(Readable(Len(file)))
<1>1. packets \in Nat /\ PacketCount \in Nat /\ Len(payloads) \in Nat
  BY ReplayAssumption DEF ReplayInv, ReplayTypes, ReaderInv, ReaderTypes
<1>2. packets <= Len(payloads) /\ (replay = "exited" => packets = Len(payloads))
  BY <1>1 DEF ReplayInv, ReplayTypes, Counting
<1>3. program = "exchange" => packets <= PacketCount
  BY <1>1, <1>2 DEF ReplayInv, Counting
<1>4. CASE ~Opens
  <2>1. InCapture = 0
    BY <1>4 DEF InCapture
  <2>2. packets = 0
    <3>1. payloads = <<>>
      BY <1>4 DEF ReplayInv, ReplayBegins
    <3>2. Len(payloads) = 0
      BY <3>1
    <3> QED
      BY <1>1, <1>2, <3>2
  <2>3. verdict # 0 /\ (replay = "exited" => verdict = 1)
    BY <1>4 DEF ReplayInv, ReplayBegins, NoVerdict
  <2> QED
    BY <1>3, <2>1, <2>3 DEF VerdictsAgree
<1>5. CASE Opens
  <2>1. /\ whole \in Nat /\ Len(payloads) <= whole
        /\ call = "failed" => Len(payloads) = whole
    <3>1. /\ IsFiniteSet(Readable(Len(file))) /\ Readable(position) \in SUBSET Readable(Len(file))
          /\ Cardinality(Readable(position)) = Len(payloads)
      BY <1>5, PayloadPerPacket, ReadableSoFar
    <3>2. whole \in Nat
      BY <3>1, FS_CardinalityType
    <3>3. Len(payloads) <= whole
      BY <3>1, FS_Subset
    <3> QED
      BY <1>5, <3>1, <3>2, <3>3, ReadableSoFar
  <2>2. InCapture = whole
    BY <1>5 DEF InCapture
  <2> HIDE DEF whole
  <2>3. ASSUME program = "checkcap", replay = "exited"
        PROVE  verdict = IF whole = 0 THEN 1 ELSE IF whole < PacketCount THEN 2 ELSE 0
    <3>1. verdict = CheckcapVerdict /\ packets = whole
      BY <1>2, <1>5, <2>1, <2>3 DEF ReplayInv, Judged
    <3> QED
      BY <3>1 DEF CheckcapVerdict
  <2>4. ASSUME program = "exchange", verdict = 0
        PROVE  packets = Min({whole, PacketCount})
    <3>1. replay = "exited"
      BY <2>4 DEF ReplayInv, ReplayBegins, NoVerdict
    <3>2. packets = PacketCount \/ call = "failed"
      BY <1>5, <2>4, <3>1 DEF ReplayInv, Judged
    <3>3. packets = IF whole <= PacketCount THEN whole ELSE PacketCount
      BY <1>1, <1>2, <1>3, <2>1, <2>4, <3>1, <3>2
    <3> QED
      BY <1>1, <2>1, <3>3, MinOfTwo
  <2> QED
    BY <1>3, <2>2, <2>3, <2>4 DEF VerdictsAgree
<1> QED
  BY <1>4, <1>5

-----------------------------------------------------------------------------
(* The handler.                                                             *)

MainTypes ==
  /\ stage \in {"init", "start", "poll", "drain", "check", "finish", "exited", "died"}
  /\ repairs \in {"none", "starting", "listening"}
  /\ queue \in 0..SocketRoom /\ received \in Nat
  /\ since_receive \in NotYet..(IdleStop + 1) /\ since_start \in 0..(StartTimeout + 1)
  /\ g_stop \in BOOLEAN /\ never_heard \in BOOLEAN /\ announced \in BOOLEAN
  /\ exit_code \in {NotYet, 0, 1, 130}
  /\ missed \in BOOLEAN /\ heard_in_time \in BOOLEAN /\ stalled \in BOOLEAN

(* The age of the last datagram says whether there was one, and the flags   *)
(* say why the loop was left; a process dies of the socket it joins with,   *)
(* before anything is received, or of the one its repair server listens on. *)
HandlerControl ==
  /\ since_receive = NotYet <=> received = 0
  /\ stage \in {"init", "start"} => received = 0 /\ queue = 0 /\ ~heard_in_time
  /\ never_heard =>
       received = 0 /\ stage \in {"finish"} \cup Ended /\ (stalled \/ ~heard_in_time)
  /\ stage = "finish" => never_heard \/ g_stop \/ received > 0
  /\ stage = "exited" =>
       /\ announced
       /\ never_heard \/ g_stop \/ received > 0
       /\ exit_code = IF never_heard THEN 1 ELSE IF g_stop THEN 130 ELSE 0
  /\ stage = "died" => exit_code = 1 /\ (repairs # "listening" \/ received = 0)
  /\ stage \notin Ended => exit_code = NotYet

(* What was heard in time is in the socket until it has been received, and  *)
(* no time passes before that.                                              *)
HeardIsQueued ==
  ~stalled /\ heard_in_time /\ received = 0 /\ Joined =>
    queue > 0 /\ since_start <= StartTimeout


HandlerInv == MainTypes /\ HandlerControl /\ HeardIsQueued

LEMMA HandlerStarts ==
  ASSUME Init PROVE HandlerInv
<1>1. IdleStop \in Nat /\ StartTimeout \in Nat /\ SocketRoom \in Nat \ {0}
  BY MainAssumption
<1>2. 0 \in 0..SocketRoom /\ NotYet \in NotYet..(IdleStop + 1) /\ 0 \in 0..(StartTimeout + 1)
  BY <1>1 DEF NotYet
<1>3. MainTypes
  BY <1>2 DEF Init, MainInit, MainTypes
<1>4. HandlerControl
  BY DEF Init, MainInit, HandlerControl, Ended
<1>5. HeardIsQueued
  BY DEF Init, MainInit, HeardIsQueued, Joined
<1> QED
  BY <1>3, <1>4, <1>5 DEF HandlerInv

LEMMA ArriveKeepsHandler ==
  ASSUME HandlerInv, Arrive, missed' \in BOOLEAN, stalled' = stalled,
         heard_in_time' = (heard_in_time \/ (Hears /\ since_start <= StartTimeout))
  PROVE  HandlerInv'
<1>1. SocketRoom \in Nat
  BY MainAssumption
<1>2. MainTypes'
  BY <1>1 DEF HandlerInv, MainTypes, Arrive, Hears
<1>3. HandlerControl'
  BY DEF HandlerInv, MainTypes, HandlerControl, Arrive, Hears, Joined, Ended
<1>4. HeardIsQueued'
  BY <1>1 DEF HandlerInv, MainTypes, HeardIsQueued, Arrive, Hears, Joined
<1> QED
  BY <1>2, <1>3, <1>4 DEF HandlerInv

(* A socket that cannot be had: nothing of the record changes but its end.  *)
LEMMA DieKeepsHandler ==
  ASSUME HandlerInv, Die, UNCHANGED historyVars,
         stage \notin Ended, repairs # "listening" \/ received = 0
  PROVE  HandlerInv'
<1>1. SocketRoom \in Nat /\ NotYet = 0 - 1
  BY MainAssumption DEF NotYet
<1>2. MainTypes'
  BY <1>1 DEF HandlerInv, MainTypes, historyVars, Die
<1>3. HandlerControl'
  BY DEF HandlerInv, HandlerControl, historyVars, Die, Ended
<1>4. HeardIsQueued'
  BY DEF HeardIsQueued, Die, Joined
<1> QED
  BY <1>2, <1>3, <1>4 DEF HandlerInv

LEMMA StepKeepsHandler ==
  ASSUME HandlerInv, MainStep \/ RepairsStep, UNCHANGED historyVars
  PROVE  HandlerInv'
<1>1. SocketRoom \in Nat /\ IdleStop \in Nat /\ StartTimeout \in Nat /\ NotYet = 0 - 1
  BY MainAssumption DEF NotYet
<1>2. CASE PrepareFails \/ JoinFails \/ ListenFails
  <2>1. Die /\ stage \notin Ended /\ (repairs # "listening" \/ received = 0)
    BY <1>2 DEF PrepareFails, JoinFails, ListenFails, Running, Ended, HandlerInv, HandlerControl
  <2> QED
    BY <2>1, DieKeepsHandler
<1>3. CASE Prepare \/ Listen
  <2>1. MainTypes'
    BY <1>3 DEF HandlerInv, MainTypes, historyVars, Prepare, Listen
  <2>2. HandlerControl'
    BY <1>3 DEF HandlerInv, HandlerControl, historyVars, Prepare, Listen, Running, Ended
  <2>3. HeardIsQueued'
    BY <1>3 DEF HandlerInv, HeardIsQueued, historyVars, Prepare, Listen, Joined
  <2> QED
    BY <2>1, <2>2, <2>3 DEF HandlerInv
<1> SUFFICES ASSUME Join \/ PollReturns \/ Receive \/ Drained \/ Check \/ Finish \/ Exit
             PROVE  HandlerInv'
  BY <1>2, <1>3 DEF MainStep, RepairsStep
<1>4. MainTypes'
  <2>1. CASE Join \/ PollReturns \/ Drained
    BY <2>1 DEF HandlerInv, MainTypes, historyVars, Join, PollReturns, Drained
  <2>2. CASE Receive
    BY <1>1, <2>2 DEF HandlerInv, MainTypes, historyVars, Receive
  <2>3. CASE Check
    <3>1. never_heard' \in BOOLEAN
      BY <2>3 DEF Check, Silent, Heard
    <3>2. stage' \in {"finish", "poll"}
      BY <2>3 DEF Check
    <3> QED
      BY <2>3, <3>1, <3>2 DEF HandlerInv, MainTypes, historyVars, Check
  <2>4. CASE Finish
    BY <1>1, <2>4 DEF HandlerInv, MainTypes, historyVars, Finish
  <2>5. CASE Exit
    BY <2>5 DEF HandlerInv, MainTypes, historyVars, Exit
  <2> QED
    BY <2>1, <2>2, <2>3, <2>4, <2>5
<1>5. HandlerControl'
  <2>1. CASE Join \/ PollReturns \/ Drained \/ Finish
    BY <2>1 DEF HandlerInv, HandlerControl, historyVars, Join, PollReturns, Drained, Finish, Ended
  <2>2. CASE Receive
    BY <1>1, <2>2 DEF HandlerInv, MainTypes, HandlerControl, historyVars, Receive, Ended
  <2>3. CASE Check
    <3>1. Silent => received = 0 /\ (stalled \/ ~heard_in_time)
      BY <1>1, <2>3 DEF HandlerInv, MainTypes, HandlerControl, HeardIsQueued, Silent, Heard,
           Check, Joined
    <3>2. Idle => received > 0
      BY DEF HandlerInv, MainTypes, HandlerControl, Idle, Heard
    <3> QED
      BY <2>3, <3>1, <3>2 DEF HandlerInv, MainTypes, HandlerControl, historyVars, Check, Ended
  <2>4. CASE Exit
    BY <2>4 DEF HandlerInv, HandlerControl, historyVars, Exit, Ended
  <2> QED
    BY <2>1, <2>2, <2>3, <2>4
<1>6. HeardIsQueued'
  <2>1. CASE Join
    BY <2>1 DEF HandlerInv, HandlerControl, HeardIsQueued, historyVars, Join
  <2>2. CASE PollReturns \/ Drained \/ Check
    BY <2>2 DEF HandlerInv, HeardIsQueued, historyVars, PollReturns, Drained, Check, Joined
  <2>3. CASE Receive
    BY <1>1, <2>3 DEF HandlerInv, MainTypes, HeardIsQueued, historyVars, Receive
  <2>4. CASE Finish \/ Exit
    BY <2>4 DEF HeardIsQueued, historyVars, Finish, Exit, Joined
  <2> QED
    BY <2>1, <2>2, <2>3, <2>4
<1> QED
  BY <1>4, <1>5, <1>6 DEF HandlerInv

LEMMA SignalKeepsHandler ==
  ASSUME HandlerInv, Signal, UNCHANGED historyVars
  PROVE  HandlerInv'
BY DEF HandlerInv, MainTypes, HandlerControl, HeardIsQueued, Joined, Signal, Running, Ended,
       historyVars

LEMMA AgesKeepHandler ==
  ASSUME HandlerInv, MainAges, stalled' = (stalled \/ ~Waiting), UNCHANGED <<missed, heard_in_time>>
  PROVE  HandlerInv'
<1>1. IdleStop \in Nat /\ StartTimeout \in Nat /\ NotYet = 0 - 1
  BY MainAssumption DEF NotYet
<1>2. /\ since_receive' \in NotYet..(IdleStop + 1)
      /\ since_receive' = NotYet <=> since_receive = NotYet
      /\ since_start' \in 0..(StartTimeout + 1)
  BY <1>1 DEF HandlerInv, MainTypes, MainAges, Older
<1>3. MainTypes'
  BY <1>2 DEF HandlerInv, MainTypes, MainAges
<1>4. HandlerControl'
  BY <1>2 DEF HandlerInv, MainTypes, HandlerControl, MainAges
<1>5. HeardIsQueued'
  <2>1. stage' = stage /\ queue' = queue /\ received' = received /\ heard_in_time' = heard_in_time
    BY DEF MainAges
  <2>2. Waiting /\ Joined => queue = 0
    BY DEF Waiting, Joined, Ended
  <2>3. ~stalled' /\ Joined => ~stalled /\ queue = 0
    BY <2>2 DEF Joined
  <2> QED
    BY <1>1, <2>1, <2>3 DEF HandlerInv, MainTypes, HeardIsQueued, Joined
<1> QED
  BY <1>3, <1>4, <1>5 DEF HandlerInv

LEMMA RestKeepsHandler ==
  ASSUME HandlerInv, UNCHANGED <<mainVars, stalled, heard_in_time>>, missed' \in BOOLEAN
  PROVE  HandlerInv'
BY DEF HandlerInv, MainTypes, HandlerControl, HeardIsQueued, Joined, mainVars

LEMMA ExitIsTold ==
  ASSUME HandlerInv PROVE ExitTellsWhy
<1>1. NotYet = 0 - 1
  BY DEF NotYet
<1> QED
  BY <1>1 DEF HandlerInv, MainTypes, HandlerControl, ExitTellsWhy, Ended

-----------------------------------------------------------------------------
(* The two together.                                                        *)

(* When the block of the last packet was due.                               *)
Begun == ((packets - 1) \div PaceBlock) * BlockTime

(* No datagram is invented, and while none is missed none is unaccounted.   *)
Delivered ==
  /\ received + queue <= packets
  /\ program = "exchange" /\ ~missed /\ stage \notin {"finish"} \cup Ended =>
       received + queue = packets
  /\ program = "checkcap" => stage = "init"

(* No packet leaves before the block it belongs to is due.                  *)
OnTime ==
  program = "exchange" /\ replay = "loop" =>
    elapsed >= Due \/ (halted /\ packets = Len(payloads) /\ call = "returned")

SentOnTime == program = "exchange" /\ packets >= 1 => Begun <= elapsed

(* The silence is no longer than the pause exchange makes; so a silence     *)
(* that ends the session is not a pause.                                    *)
SilenceSinceSent ==
  ~stalled /\ ~missed /\ Joined /\ queue = 0 /\ packets >= 1 /\ replay \in {"loop", "sleep"} =>
    since_receive <= elapsed - Begun

SilenceIsPause ==
  ~stalled /\ ~missed /\ Joined /\ (replay # "exited" \/ queue > 0) =>
    since_receive <= BlockTime

EndsAfterReplay ==
  ~stalled /\ ~missed /\ stage \in {"finish", "exited"} /\ ~g_stop /\ ~never_heard =>
    replay = "exited" /\ received = packets

TimesAgree ==
  Delivered /\ OnTime /\ SentOnTime /\ SilenceSinceSent /\ SilenceIsPause /\ EndsAfterReplay

LEMMA DueTypes ==
  ASSUME packets \in Nat
  PROVE  /\ Due \in Nat
         /\ packets >= 1 => Begun \in Nat /\ Due <= Begun + BlockTime
<1>1. PaceBlock \in Nat \ {0} /\ BlockTime \in Nat
  BY ReplayAssumption
<1>2. packets \div PaceBlock \in Nat
  BY <1>1, DivMod
<1>3. Due \in Nat
  BY <1>1, <1>2, TimesMono DEF Due
<1>4. ASSUME packets >= 1 PROVE Begun \in Nat /\ Due <= Begun + BlockTime
  <2>1. PICK a \in Nat : packets = a + 1 /\ a = packets - 1
    BY <1>4
  <2>2. /\ a \div PaceBlock \in Nat /\ (a + 1) \div PaceBlock \in Nat
        /\ (a + 1) \div PaceBlock <= (a \div PaceBlock) + 1
    BY <1>1, DivStep
  <2>3. PICK q \in Nat, s \in Nat :
          q = a \div PaceBlock /\ s = (a + 1) \div PaceBlock /\ s <= q + 1 /\ q + 1 \in Nat
    BY <2>2
  <2>4. Begun = q * BlockTime /\ Due = s * BlockTime
    BY <2>1, <2>3 DEF Begun, Due
  <2>5. s * BlockTime <= (q + 1) * BlockTime
    BY <1>1, <2>3, TimesMono
  <2>6. q * BlockTime \in Nat /\ (q + 1) * BlockTime = q * BlockTime + BlockTime
    BY <1>1, <2>3, TimesMono
  <2> QED
    BY <2>4, <2>5, <2>6
<1> QED
  BY <1>3, <1>4

(* Counting a packet: its block began when the one before was due.          *)
LEMMA DueCounts ==
  ASSUME packets \in Nat, packets' = packets + 1
  PROVE  /\ Begun' = Due /\ Due' \in Nat
         /\ packets' % PaceBlock # 0 => Due' = Due
<1>1. PaceBlock \in Nat \ {0}
  BY ReplayAssumption
<1>2. packets' - 1 = packets
  OBVIOUS
<1>4. Due' \in Nat
  <2>1. BlockTime \in Nat /\ packets' \in Nat
    BY ReplayAssumption
  <2>2. PICK q \in Nat : q = packets' \div PaceBlock
    BY <1>1, <2>1, DivMod
  <2>3. Due' = q * BlockTime
    BY <2>2 DEF Due
  <2> QED
    BY <2>1, <2>2, <2>3, TimesMono
<1>3. (packets + 1) % PaceBlock # 0 => (packets + 1) \div PaceBlock = packets \div PaceBlock
  BY <1>1, DivStep
<1> QED
  BY <1>2, <1>3, <1>4 DEF Begun, Due

LEMMA TimesStart ==
  ASSUME Init PROVE TimesAgree
<1>1. packets = 0 /\ queue = 0 /\ received = 0 /\ stage = "init" /\ replay = "start"
  BY DEF Init, ReplayInit, MainInit
<1> QED
  BY <1>1 DEF TimesAgree, Delivered, OnTime, SentOnTime, SilenceSinceSent, SilenceIsPause,
       EndsAfterReplay, Joined

(* A step of the replay that counts nothing.                                *)
QuietReplay == Start \/ AskNext \/ ReadOn \/ WakeUp \/ ReplayExits

LEMMA QuietKeepsTimes ==
  ASSUME ReaderInv, ReplayInv, HandlerInv, TimesAgree, QuietReplay,
         UNCHANGED <<mainVars, historyVars>>
  PROVE  TimesAgree'
<1>0. packets \in Nat /\ elapsed \in Nat /\ received \in Nat /\ queue \in Nat
  BY DEF ReplayInv, ReplayTypes, HandlerInv, MainTypes
<1>1. UNCHANGED <<program, packets, elapsed, halted, mainVars, historyVars>>
  BY DEF QuietReplay, Start, AskNext, ReadOn, WakeUp, ReplayExits
<1>2. UNCHANGED <<Due, Begun, Joined>>
  BY <1>1 DEF Due, Begun, Joined, mainVars
<1>3. \/ replay = "start" /\ packets = 0 /\ elapsed = 0
      \/ replay = "loop" /\ replay' = "loop"
      \/ replay = "sleep" /\ replay' = "loop"
      \/ replay = "loop" /\ replay' = "exited"
  <2>1. replay = "start" => packets = 0 /\ elapsed = 0
    <3>1. replay = "start" => payloads = <<>> /\ elapsed = 0
      BY DEF ReplayInv, ReplayBegins
    <3>2. Len(<<>>) = 0
      OBVIOUS
    <3> QED
      BY <1>0, <3>1, <3>2 DEF ReplayInv, ReplayTypes
  <2> QED
    BY <2>1 DEF QuietReplay, Start, AskNext, ReadOn, WakeUp, ReplayExits
<1>4. Delivered'
  BY <1>1 DEF TimesAgree, Delivered, mainVars, historyVars
<1>5. OnTime'
  <2>1. CASE Start
    <3>1. Due = 0
      <4>1. PaceBlock \in Nat \ {0} /\ BlockTime \in Nat /\ 0 = PaceBlock * 0 + 0
        BY ReplayAssumption
      <4>2. 0 \div PaceBlock = 0
        BY <4>1, DivIs
      <4>3. 0 * BlockTime = 0
        BY <4>1
      <4> QED
        BY <1>3, <2>1, <4>2, <4>3 DEF Due, Start
    <3> QED
      BY <1>0, <1>1, <1>2, <2>1, <3>1 DEF OnTime
  <2>2. CASE AskNext
    BY <1>1, <1>2, <2>2 DEF AskNext, GoesOn, TimesAgree, OnTime
  <2>3. CASE ReadOn
    BY <1>1, <1>2, <2>3, ReadsOne DEF ReadOn, TimesAgree, OnTime
  <2>4. CASE WakeUp
    <3>1. packets = Len(payloads) /\ call = "returned"
      <4>1. Len(payloads) \in Nat
        BY DEF ReaderInv, ReaderTypes
      <4> QED
        BY <1>0, <2>4, <4>1 DEF WakeUp, ReplayInv, ReplayTypes, Counting
    <3> QED
      BY <1>1, <1>2, <2>4, <3>1 DEF WakeUp, readerVars, OnTime
  <2>5. CASE ReplayExits
    BY <2>5 DEF ReplayExits, OnTime
  <2> QED
    BY <2>1, <2>2, <2>3, <2>4, <2>5 DEF QuietReplay
<1>9. SentOnTime'
  BY <1>1, <1>2 DEF TimesAgree, SentOnTime
<1>6. SilenceSinceSent'
  BY <1>0, <1>1, <1>2, <1>3 DEF TimesAgree, SilenceSinceSent, mainVars, historyVars
<1>7. SilenceIsPause'
  BY <1>1, <1>2, <1>3 DEF TimesAgree, SilenceIsPause, mainVars, historyVars
<1>8. EndsAfterReplay'
  BY <1>1, <1>2, <1>3 DEF TimesAgree, EndsAfterReplay, mainVars, historyVars
<1> QED
  BY <1>4, <1>5, <1>6, <1>7, <1>8, <1>9 DEF TimesAgree

LEMMA CountOnTime ==
  ASSUME ReaderInv, ReplayInv, OnTime, Count
  PROVE  OnTime'
<1>1. /\ packets \in Nat /\ packets' = packets + 1 /\ packets < Len(payloads)
      /\ elapsed \in Nat /\ elapsed' = elapsed /\ program' = program
  BY DEF ReplayInv, ReplayTypes, Count
<1> SUFFICES ASSUME program = "exchange", replay' = "loop"
             PROVE  elapsed' >= Due'
  BY <1>1 DEF OnTime
<1>2. elapsed >= Due
  <2>1. Len(payloads) \in Nat
    BY DEF ReaderInv, ReaderTypes
  <2> QED
    BY <1>1, <2>1 DEF OnTime, Count
<1>3. CASE packets' % PaceBlock # 0
  BY <1>1, <1>2, <1>3, DueCounts
<1>4. CASE packets' % PaceBlock = 0
  <2>1. ~(elapsed < Due')
    BY <1>4 DEF Count
  <2>2. Due' \in Nat
    BY <1>1, DueCounts
  <2> QED
    BY <1>1, <2>1, <2>2
<1> QED
  BY <1>3, <1>4

LEMMA SendKeepsTimes ==
  ASSUME ReaderInv, ReplayInv, HandlerInv, TimesAgree, Send
  PROVE  TimesAgree'
<1>1. /\ packets \in Nat /\ packets' = packets + 1 /\ received \in Nat /\ queue \in Nat
      /\ program = "exchange" /\ program' = program /\ replay = "loop"
      /\ UNCHANGED <<stage, received, since_receive, g_stop, never_heard>>
      /\ stalled' = stalled /\ missed \in BOOLEAN
  BY DEF ReplayInv, ReplayTypes, HandlerInv, MainTypes, Send, Count, Arrive, mainVars
<1>2. missed' \/ (Hears /\ queue' = queue + 1 /\ missed' = missed)
  BY <1>1 DEF Send, Arrive
<1>3. queue' \in {queue, queue + 1}
  BY DEF Send, Arrive, mainVars
<1>4. Hears => stage \in {"poll", "drain", "check"} /\ stage \notin Ended
  BY DEF Hears, Joined, Ended
<1>5. Delivered'
  <2>1. /\ received + queue <= packets
        /\ ~missed /\ stage \notin {"finish"} \cup Ended => received + queue = packets
    BY <1>1 DEF TimesAgree, Delivered
  <2>2. received' + queue' <= packets'
    <3>1. /\ received \in Nat /\ queue \in Nat /\ packets \in Nat
          /\ packets' = packets + 1 /\ received' = received
      BY <1>1
    <3>2. queue' = queue \/ queue' = queue + 1
      BY <1>3
    <3> QED
      BY <2>1, <3>1, <3>2
  <2>3. ~missed' /\ stage' \notin {"finish"} \cup Ended => received' + queue' = packets'
    BY <1>1, <1>2, <2>1
  <2> QED
    BY <1>1, <2>2, <2>3 DEF Delivered
<1>10. SentOnTime'
  <2>1. Len(payloads) \in Nat
    BY DEF ReaderInv, ReaderTypes
  <2>2. elapsed >= Due /\ elapsed' = elapsed
    BY <1>1, <2>1 DEF Send, Count, TimesAgree, OnTime
  <2>3. elapsed \in Nat /\ Due \in Nat
    BY <1>1, DueTypes DEF ReplayInv, ReplayTypes
  <2> QED
    BY <1>1, <2>2, <2>3, DueCounts DEF SentOnTime
<1>6. OnTime'
  BY CountOnTime DEF TimesAgree, Send
<1>7. SilenceSinceSent'
  BY <1>1, <1>2 DEF SilenceSinceSent
<1>8. SilenceIsPause'
  BY <1>1, <1>2 DEF TimesAgree, SilenceIsPause, Joined
<1>9. EndsAfterReplay'
  BY <1>1, <1>2, <1>4 DEF EndsAfterReplay
<1> QED
  BY <1>5, <1>6, <1>7, <1>8, <1>9, <1>10 DEF TimesAgree

LEMMA CheckcapKeepsTimes ==
  ASSUME ReaderInv, ReplayInv, HandlerInv, TimesAgree, Count, program = "checkcap",
         UNCHANGED <<mainVars, historyVars>>
  PROVE  TimesAgree'
<1>1. /\ packets \in Nat /\ packets' = packets + 1 /\ received \in Nat /\ queue \in Nat
      /\ program' = program /\ stage = "init"
      /\ UNCHANGED <<mainVars, historyVars>>
  BY DEF ReplayInv, ReplayTypes, HandlerInv, MainTypes, Count, TimesAgree, Delivered
<1>2. Delivered'
  BY <1>1 DEF TimesAgree, Delivered, mainVars
<1> QED
  BY <1>1, <1>2 DEF TimesAgree, OnTime, SentOnTime, SilenceSinceSent, SilenceIsPause,
       EndsAfterReplay, Joined, mainVars

LEMMA MainKeepsTimes ==
  ASSUME ReaderInv, ReplayInv, HandlerInv, TimesAgree, MainStep \/ RepairsStep,
         program = "exchange",
         UNCHANGED <<replayVars, historyVars>>
  PROVE  TimesAgree'
<1>1. /\ packets \in Nat /\ received \in Nat /\ queue \in Nat /\ elapsed \in Nat
      /\ IdleStop \in Nat /\ BlockTime \in Nat /\ BlockTime <= IdleStop
      /\ since_receive \in Int /\ NotYet = 0 - 1
      /\ packets >= 1 => Begun \in Nat
  <2>1. packets \in Nat
    BY DEF ReplayInv, ReplayTypes
  <2>2. since_receive \in Int
    BY MainAssumption DEF HandlerInv, MainTypes, NotYet
  <2> QED
    BY <2>1, <2>2, DueTypes, MainAssumption, ReplayAssumption, PaceAssumption
    DEF ReplayInv, ReplayTypes, HandlerInv, MainTypes, NotYet
<1>2. UNCHANGED <<file, position, call, payloads, program, replay, packets, elapsed, halted,
                  missed, stalled>>
  BY DEF replayVars, readerVars, historyVars
<1>3. UNCHANGED <<Due, Begun>>
  BY <1>2 DEF Due, Begun
<1>4. OnTime'
  BY <1>2, <1>3 DEF TimesAgree, OnTime
<1>10. SentOnTime'
  BY <1>2, <1>3 DEF TimesAgree, SentOnTime
<1>5. CASE Receive
  <2>1. /\ stage = "drain" /\ stage' = stage /\ queue' = queue - 1 /\ queue > 0
        /\ received' = received + 1 /\ since_receive' = 0
        /\ UNCHANGED <<g_stop, never_heard>>
    BY <1>5 DEF Receive
  <2>2. Delivered'
    BY <1>1, <1>2, <2>1 DEF TimesAgree, Delivered, Ended
  <2>3. SilenceSinceSent'
    <3> SUFFICES ASSUME ~stalled, ~missed, queue' = 0, packets >= 1, replay \in {"loop", "sleep"}
                 PROVE  Begun <= elapsed
      BY <1>1, <1>2, <1>3, <2>1 DEF SilenceSinceSent
    <3> QED
      BY DEF TimesAgree, SentOnTime
  <2>4. SilenceIsPause' /\ EndsAfterReplay'
    BY <1>1, <1>2, <2>1 DEF SilenceIsPause, EndsAfterReplay
  <2> QED
    BY <1>4, <1>10, <2>2, <2>3, <2>4 DEF TimesAgree
<1>6. CASE Join
  <2>1. /\ stage = "start" /\ stage' = IF g_stop THEN "finish" ELSE "poll"
        /\ UNCHANGED <<queue, received, since_receive, g_stop, never_heard>>
    BY <1>6 DEF Join
  <2>2. received = 0 /\ queue = 0 /\ since_receive = 0 - 1
    BY <1>1, <2>1 DEF HandlerInv, HandlerControl
  <2>3. ~missed => packets = 0
    BY <1>1, <2>1, <2>2 DEF TimesAgree, Delivered, Ended
  <2>4. Delivered'
    BY <1>1, <1>2, <2>1, <2>2, <2>3 DEF Delivered
  <2>5. SilenceSinceSent' /\ SilenceIsPause' /\ EndsAfterReplay'
    BY <1>1, <1>2, <2>1, <2>2, <2>3 DEF SilenceSinceSent, SilenceIsPause, EndsAfterReplay
  <2> QED
    BY <1>4, <1>10, <2>4, <2>5 DEF TimesAgree
<1>7. CASE PollReturns \/ Drained \/ Prepare \/ Listen
  <2>1. /\ \/ stage \in {"poll", "drain"} /\ stage' \in {"drain", "check"}
           \/ stage = "init" /\ stage' = "start"
           \/ stage' = stage
        /\ UNCHANGED <<queue, received, since_receive, g_stop, never_heard>>
    BY <1>7 DEF PollReturns, Drained, Prepare, Listen
  <2> QED
    BY <1>2, <1>3, <1>4, <1>10, <2>1
    DEF TimesAgree, Delivered, SilenceSinceSent, SilenceIsPause, EndsAfterReplay, Joined, Ended
<1>11. CASE PrepareFails \/ JoinFails \/ ListenFails
  <2>1. stage' = "died" /\ queue' = 0 /\ received' = received
    BY <1>11 DEF PrepareFails, JoinFails, ListenFails, Die
  <2>2. Delivered'
    <3>1. received + queue <= packets
      BY DEF TimesAgree, Delivered
    <3>2. received' + queue' <= packets'
      BY <1>1, <1>2, <2>1, <3>1
    <3> QED
      BY <1>2, <2>1, <3>2 DEF Delivered, Ended
  <2> QED
    BY <1>4, <1>10, <2>1, <2>2
    DEF TimesAgree, SilenceSinceSent, SilenceIsPause, EndsAfterReplay, Joined
<1>8. CASE Check
  <2>1. /\ stage = "check" /\ stage' = (IF Idle \/ Silent \/ g_stop THEN "finish" ELSE "poll")
        /\ never_heard' = Silent
        /\ UNCHANGED <<queue, received, since_receive, g_stop>>
    BY <1>8 DEF Check
  <2>2. Delivered'
    BY <1>2, <2>1 DEF TimesAgree, Delivered, Ended
  <2>3. SilenceSinceSent' /\ SilenceIsPause'
    BY <1>2, <1>3, <2>1 DEF TimesAgree, SilenceSinceSent, SilenceIsPause, Joined
  <2>4. EndsAfterReplay'
    <3> SUFFICES ASSUME ~stalled, ~missed, ~g_stop, ~Silent, Idle
                 PROVE  replay = "exited" /\ received = packets
      BY <1>2, <2>1 DEF EndsAfterReplay
    <3>1. since_receive > IdleStop
      BY DEF Idle
    <3>2. replay = "exited" /\ queue = 0
      BY <1>1, <2>1, <3>1 DEF TimesAgree, SilenceIsPause, Joined
    <3> QED
      BY <1>1, <2>1, <3>2 DEF TimesAgree, Delivered, Ended
  <2> QED
    BY <1>4, <1>10, <2>2, <2>3, <2>4 DEF TimesAgree
<1>9. CASE Finish \/ Exit
  <2>1. /\ stage = "finish" /\ stage' \in {"finish", "exited"}
        /\ queue' \in {0, queue}
        /\ UNCHANGED <<received, since_receive, g_stop, never_heard>>
    BY <1>9 DEF Finish, Exit
  <2>2. Delivered'
    <3>1. received + queue <= packets
      BY DEF TimesAgree, Delivered
    <3>2. received' + queue' <= packets'
      <4>1. packets' = packets /\ received' = received
        BY <1>2, <2>1
      <4>2. queue' = 0 \/ queue' = queue
        BY <2>1
      <4>3. received \in Nat /\ queue \in Nat /\ packets \in Nat
        BY <1>1
      <4> QED
        BY <3>1, <4>1, <4>2, <4>3
    <3> QED
      BY <1>2, <2>1, <3>2 DEF Delivered, Ended
  <2> QED
    BY <1>2, <1>4, <1>10, <2>1, <2>2
    DEF TimesAgree, SilenceSinceSent, SilenceIsPause, EndsAfterReplay, Joined
<1> QED
  BY <1>5, <1>6, <1>7, <1>8, <1>9, <1>11 DEF MainStep, RepairsStep

LEMMA SignalKeepsTimes ==
  ASSUME ReaderInv, ReplayInv, HandlerInv, TimesAgree, Signalled
  PROVE  TimesAgree'
<1>1. /\ UNCHANGED <<file, position, call, payloads, program, replay, packets, elapsed, stage,
                     queue, received, since_receive, never_heard, missed, stalled>>
      /\ halted => halted'
      /\ g_stop => g_stop'
  BY DEF Signalled, Halt, Signal, replayVars, readerVars, mainVars, historyVars
<1>2. UNCHANGED <<Due, Begun, Joined>> /\ (halted => halted') /\ (g_stop => g_stop')
  BY <1>1 DEF Due, Begun, Joined, Signalled, Halt, Signal, replayVars, mainVars
<1>3. Delivered' /\ OnTime'
  BY <1>1, <1>2 DEF TimesAgree, Delivered, OnTime
<1>4. SentOnTime' /\ SilenceSinceSent' /\ SilenceIsPause' /\ EndsAfterReplay'
  BY <1>1, <1>2
  DEF TimesAgree, SentOnTime, SilenceSinceSent, SilenceIsPause, EndsAfterReplay
<1> QED
  BY <1>3, <1>4 DEF TimesAgree

LEMMA DueInBounds ==
  ASSUME ReaderInv, ReplayInv, program = "exchange"
  PROVE  Due <= PacketCount * BlockTime /\ PacketCount * BlockTime \in Nat
<1>1. /\ PaceBlock \in Nat \ {0} /\ BlockTime \in Nat /\ PacketCount \in Nat
      /\ packets \in Nat
  BY ReplayAssumption DEF ReplayInv, ReplayTypes
<1>2. packets <= PacketCount
  BY VerdictsFollow DEF VerdictsAgree
<1>3. PICK q \in Nat : q = packets \div PaceBlock /\ q <= packets
  BY <1>1, DivStep
<1>4. q <= PacketCount
  BY <1>1, <1>2, <1>3
<1> QED
  BY <1>1, <1>3, <1>4, TimesMono DEF Due

LEMMA TickKeepsTimes ==
  ASSUME ReaderInv, ReplayInv, HandlerInv, TimesAgree, Tick
  PROVE  TimesAgree'
<1>1. /\ UNCHANGED <<file, position, call, payloads, program, replay, packets, halted, stage,
                     queue, received, g_stop, never_heard, missed>>
      /\ program = "exchange" /\ stalled' = (stalled \/ ~Waiting)
  BY DEF Tick, MainAges, readerVars
<1>2. /\ packets \in Nat /\ elapsed \in Nat /\ received \in Nat /\ queue \in Nat
      /\ since_receive \in Int /\ BlockTime \in Nat /\ NotYet = 0 - 1
  BY ReplayAssumption, MainAssumption
  DEF ReplayInv, ReplayTypes, HandlerInv, MainTypes, NotYet
<1>3. /\ Due' = Due /\ Begun' = Begun /\ (Joined' <=> Joined)
      /\ Due \in Nat
      /\ packets >= 1 => Begun \in Nat /\ Due <= Begun + BlockTime
  BY <1>1, <1>2, DueTypes DEF Due, Begun, Joined
<1>4. /\ elapsed' \in Nat /\ elapsed' \in {elapsed, elapsed + 1}
      /\ replay = "sleep" /\ elapsed < Due => elapsed' = elapsed + 1
  <2>1. PICK cap \in Nat : cap = PacketCount * BlockTime /\ Due <= cap
    BY <1>1, DueInBounds
  <2>2. elapsed' = IF replay \in {"loop", "sleep"} /\ elapsed < cap THEN elapsed + 1 ELSE elapsed
    BY <2>1 DEF Tick
  <2>3. Due <= cap
    BY <2>1
  <2> QED
    BY <1>2, <1>3, <2>2, <2>3
<1>13. /\ packets' = packets /\ program' = program /\ replay' = replay /\ missed' = missed
       /\ queue' = queue
  BY <1>1
<1>5. /\ since_receive' \in {since_receive, since_receive + 1}
      /\ since_receive = NotYet => since_receive' = NotYet
  BY DEF Tick, MainAges, Older
<1>6. Delivered'
  BY <1>1 DEF TimesAgree, Delivered
<1>7. OnTime'
  BY <1>1, <1>2, <1>3, <1>4 DEF TimesAgree, OnTime
<1>8. SentOnTime'
  BY <1>2, <1>3, <1>4, <1>13 DEF TimesAgree, SentOnTime
<1>9. ASSUME ~stalled', ~missed, Joined
      PROVE  /\ ~stalled /\ queue = 0
             /\ replay = "sleep" =>
                  elapsed < Due /\ elapsed' = elapsed + 1 /\ packets >= 1
                  /\ since_receive <= elapsed - Begun
             /\ replay = "start" => since_receive = NotYet
             /\ replay # "loop"
  <2>1. ~stalled /\ Waiting
    BY <1>1, <1>9
  <2>2. queue = 0 /\ replay # "loop" /\ (replay = "sleep" => elapsed < Due)
    BY <1>9, <2>1 DEF Waiting, Joined, Ended
  <2>3. ASSUME replay = "sleep" PROVE packets >= 1 /\ since_receive <= elapsed - Begun
    <3>1. packets >= 1
      BY <2>3 DEF ReplayInv, Counting
    <3> QED
      BY <1>9, <2>1, <2>2, <2>3, <3>1 DEF TimesAgree, SilenceSinceSent
  <2>4. ASSUME replay = "start" PROVE since_receive = NotYet
    <3>1. packets = 0
      <4>1. payloads = <<>> /\ Len(<<>>) = 0
        BY <2>4 DEF ReplayInv, ReplayBegins
      <4> QED
        BY <1>2, <4>1 DEF ReplayInv, ReplayTypes
    <3>2. received = 0
      BY <1>2, <3>1 DEF TimesAgree, Delivered
    <3> QED
      BY <3>2 DEF HandlerInv, HandlerControl
  <2> QED
    BY <1>4, <2>1, <2>2, <2>3, <2>4
<1>10. SilenceSinceSent'
  <2> SUFFICES ASSUME ~stalled', ~missed, Joined, packets >= 1, replay \in {"loop", "sleep"}
               PROVE  since_receive' <= elapsed' - Begun
    BY <1>3, <1>13 DEF SilenceSinceSent
  <2>1. elapsed' = elapsed + 1 /\ since_receive <= elapsed - Begun /\ Begun \in Nat
    BY <1>3, <1>9
  <2>2. since_receive' = since_receive \/ since_receive' = since_receive + 1
    BY <1>5
  <2> QED
    BY <1>2, <2>1, <2>2
<1>11. SilenceIsPause'
  <2> SUFFICES ASSUME ~stalled', ~missed, Joined, replay # "exited" \/ queue > 0
               PROVE  since_receive' <= BlockTime
    BY <1>3, <1>13 DEF SilenceIsPause
  <2>1. replay = "sleep" \/ replay = "start"
    <3>1. replay \in {"start", "loop", "sleep", "exited"} /\ ~(queue > 0)
      BY <1>2, <1>9 DEF ReplayInv, ReplayTypes
    <3> QED
      BY <1>9, <3>1
  <2>2. CASE replay = "sleep"
    <3>1. elapsed + 1 <= Due /\ since_receive <= elapsed - Begun /\ Begun \in Nat
          /\ Due <= Begun + BlockTime
      BY <1>2, <1>3, <1>9, <2>2
    <3>2. since_receive' = since_receive \/ since_receive' = since_receive + 1
      BY <1>5
    <3>3. Due \in Nat
      BY <1>3
    <3> QED
      BY <1>2, <3>1, <3>2, <3>3
  <2>3. CASE replay = "start"
    BY <1>2, <1>5, <1>9, <2>3
  <2> QED
    BY <2>1, <2>2, <2>3
<1>12. EndsAfterReplay'
  BY <1>1 DEF TimesAgree, EndsAfterReplay
<1> QED
  BY <1>6, <1>7, <1>8, <1>10, <1>11, <1>12 DEF TimesAgree

LEMMA RestKeepsTimes ==
  ASSUME TimesAgree, UNCHANGED sessionVars
  PROVE  TimesAgree'
<1>1. /\ UNCHANGED <<file, position, call, payloads, program, replay, packets, elapsed, halted,
                     stage, queue, received, since_receive, g_stop, never_heard, missed, stalled>>
  BY DEF sessionVars, replayVars, readerVars, mainVars
<1> QED
  BY <1>1
  DEF TimesAgree, Delivered, OnTime, SentOnTime, SilenceSinceSent, SilenceIsPause,
      EndsAfterReplay, Due, Begun, Joined

-----------------------------------------------------------------------------
(* The invariant of the session.                                            *)

SessionInv == ReaderInv /\ ReplayInv /\ HandlerInv /\ TimesAgree

LEMMA SessionStarts ==
  ASSUME Init PROVE SessionInv
<1>1. ReplayInit /\ ReaderInit
  BY DEF Init, ReplayInit
<1> QED
  BY <1>1, ReaderStarts, ReplayStarts, HandlerStarts, TimesStart DEF SessionInv

LEMMA SessionGoesOn ==
  ASSUME SessionInv, [Next]_sessionVars
  PROVE  SessionInv'
<1>0. ReaderInv /\ ReplayInv /\ HandlerInv /\ TimesAgree
  BY DEF SessionInv
<1>1. CASE Send
  <2>1. Count /\ UNCHANGED readerVars
    BY <1>1 DEF Send, Count
  <2>2. HandlerInv'
    <3>1. CASE Arrive /\ missed' = (missed \/ ~Hears)
               /\ heard_in_time' = (heard_in_time \/ (Hears /\ since_start <= StartTimeout))
      <4>1. missed' \in BOOLEAN /\ stalled' = stalled
        BY <1>1, <3>1 DEF Send
      <4> QED
        BY <1>0, <3>1, <4>1, ArriveKeepsHandler
    <3>2. CASE missed' = TRUE /\ UNCHANGED <<mainVars, heard_in_time>>
      <4>1. UNCHANGED <<mainVars, stalled, heard_in_time>> /\ missed' \in BOOLEAN
        BY <1>1, <3>2 DEF Send
      <4> QED
        BY <1>0, <4>1, RestKeepsHandler
    <3> QED
      BY <1>1, <3>1, <3>2 DEF Send
  <2> QED
    BY <1>0, <1>1, <2>1, <2>2, ReaderStays, CountKeepsReplay, SendKeepsTimes DEF SessionInv
<1>2. CASE ReplayAlone
  <2>1. UNCHANGED <<mainVars, historyVars>>
    BY <1>2 DEF ReplayAlone
  <2>2. HandlerInv'
    <3>1. UNCHANGED <<mainVars, stalled, heard_in_time>> /\ missed' \in BOOLEAN
      BY <1>0, <2>1 DEF historyVars, HandlerInv, MainTypes
    <3> QED
      BY <1>0, <3>1, RestKeepsHandler
  <2>3. CASE Start
    <3>1. ReaderInv'
      BY <1>0, <2>3, ReaderStays DEF Start
    <3> QED
      BY <1>0, <2>1, <2>2, <2>3, <3>1, StartKeepsReplay, QuietKeepsTimes
      DEF SessionInv, QuietReplay
  <2>4. CASE AskNext
    <3>1. ReaderInv'
      BY <1>0, <2>4, ReaderAsks DEF AskNext
    <3> QED
      BY <1>0, <2>1, <2>2, <2>4, <3>1, AskKeepsReplay, QuietKeepsTimes
      DEF SessionInv, QuietReplay
  <2>5. CASE ReadOn
    <3>1. ReaderInv'
      BY <1>0, <2>5, ReaderReads DEF ReadOn
    <3> QED
      BY <1>0, <2>1, <2>2, <2>5, <3>1, ReadKeepsReplay, QuietKeepsTimes
      DEF SessionInv, QuietReplay
  <2>6. CASE WakeUp
    <3>1. ReaderInv'
      BY <1>0, <2>6, ReaderStays DEF WakeUp
    <3> QED
      BY <1>0, <2>1, <2>2, <2>6, <3>1, WakeKeepsReplay, QuietKeepsTimes
      DEF SessionInv, QuietReplay
  <2>7. CASE ReplayExits
    <3>1. ReaderInv'
      BY <1>0, <2>7, ReaderStays DEF ReplayExits
    <3> QED
      BY <1>0, <2>1, <2>2, <2>7, <3>1, ExitKeepsReplay, QuietKeepsTimes
      DEF SessionInv, QuietReplay
  <2>8. CASE Count /\ program = "checkcap"
    <3>1. ReaderInv'
      BY <1>0, <2>8, ReaderStays DEF Count
    <3> QED
      BY <1>0, <2>1, <2>2, <2>8, <3>1, CountKeepsReplay, CheckcapKeepsTimes DEF SessionInv
  <2> QED
    BY <1>2, <2>3, <2>4, <2>5, <2>6, <2>7, <2>8 DEF ReplayAlone
<1>3. CASE HandlerStep \/ ThreadStep
  <2>1. /\ program = "exchange"
        /\ MainStep \/ RepairsStep
        /\ UNCHANGED <<replayVars, historyVars>>
    BY <1>3 DEF HandlerStep, ThreadStep
  <2>2. UNCHANGED <<readerVars, program, replay, packets, verdict, halted, elapsed>>
    BY <2>1 DEF replayVars
  <2>3. ReaderInv'
    BY <1>0, <2>2, ReaderStays
  <2>4. ReplayInv'
    BY <1>0, <2>2, PassingKeepsReplay DEF ReplayInv, ReplayTypes
  <2> QED
    BY <1>0, <2>1, <2>3, <2>4, StepKeepsHandler, MainKeepsTimes DEF SessionInv
<1>4. CASE Signalled
  <2>1. /\ UNCHANGED <<readerVars, program, replay, packets, verdict, elapsed>>
        /\ \/ halted' = halted
           \/ halted' = TRUE /\ replay # "start"
    BY <1>4 DEF Signalled, Halt, replayVars
  <2>2. ReaderInv' /\ ReplayInv'
    BY <1>0, <2>1, ReaderStays, PassingKeepsReplay DEF ReplayInv, ReplayTypes
  <2>3. HandlerInv'
    <3>1. CASE Signal /\ UNCHANGED historyVars
      BY <1>0, <3>1, SignalKeepsHandler
    <3>2. CASE UNCHANGED <<mainVars, historyVars>>
      <4>1. UNCHANGED <<mainVars, stalled, heard_in_time>> /\ missed' \in BOOLEAN
        BY <1>0, <3>2 DEF historyVars, HandlerInv, MainTypes
      <4> QED
        BY <1>0, <4>1, RestKeepsHandler
    <3> QED
      BY <1>4, <3>1, <3>2 DEF Signalled
  <2> QED
    BY <1>0, <1>4, <2>2, <2>3, SignalKeepsTimes DEF SessionInv
<1>5. CASE Tick
  <2>1. /\ UNCHANGED <<readerVars, program, replay, packets, verdict, halted>>
        /\ elapsed' \in Nat /\ (replay = "start" => elapsed' = elapsed)
    BY <1>0, <1>5 DEF Tick, ReplayInv, ReplayTypes
  <2>2. ReaderInv' /\ ReplayInv'
    BY <1>0, <2>1, ReaderStays, PassingKeepsReplay DEF ReplayInv, ReplayTypes
  <2>3. HandlerInv'
    <3>1. MainAges /\ stalled' = (stalled \/ ~Waiting) /\ UNCHANGED <<missed, heard_in_time>>
      BY <1>5 DEF Tick
    <3> QED
      BY <1>0, <3>1, AgesKeepHandler
  <2> QED
    BY <1>0, <1>5, <2>2, <2>3, TickKeepsTimes DEF SessionInv
<1>6. CASE UNCHANGED sessionVars
  <2>1. UNCHANGED <<readerVars, program, replay, packets, verdict, halted, elapsed, mainVars,
                    missed, stalled, heard_in_time>>
    BY <1>6 DEF sessionVars, replayVars
  <2>2. ReaderInv' /\ ReplayInv'
    BY <1>0, <2>1, ReaderStays, PassingKeepsReplay DEF ReplayInv, ReplayTypes
  <2>3. HandlerInv'
    BY <1>0, <2>1, RestKeepsHandler DEF HandlerInv, MainTypes
  <2> QED
    BY <1>0, <1>6, <2>2, <2>3, RestKeepsTimes DEF SessionInv
<1> QED
  BY <1>1, <1>2, <1>3, <1>4, <1>5, <1>6 DEF Next, ReplayStep, Over

(* The inductive invariant holds of every behaviour of the two programs.    *)
THEOREM SessionInvariant == Spec => []SessionInv
<1>1. Init => SessionInv
  BY SessionStarts
<1>2. SessionInv /\ [Next]_sessionVars => SessionInv'
  BY SessionGoesOn
<1> QED
  BY <1>1, <1>2, PTL DEF Spec

-----------------------------------------------------------------------------
(* What it promises.                                                        *)

(* Positions, counters, ages and codes of both programs stay in their       *)
(* types; the handler has received no more than exchange has sent.          *)
THEOREM SessionTypes == Spec => []TypeOK
<1>1. SessionInv => TypeOK
  <2> SUFFICES ASSUME SessionInv PROVE TypeOK
    OBVIOUS
  <2>1. \A k \in DOMAIN interfaces : DOMAIN interfaces[k] = {"link", "unit"}
    <3> SUFFICES ASSUME NEW k \in DOMAIN interfaces
                 PROVE  DOMAIN interfaces[k] = {"link", "unit"}
      OBVIOUS
    <3>1. interfaces[k] \in InterfaceEntry
      BY DEF SessionInv, ReaderInv, ReaderTypes
    <3> QED
      BY <3>1 DEF InterfaceEntry
  <2>2. received \in 0..packets
    BY DEF SessionInv, TimesAgree, Delivered, HandlerInv, MainTypes, ReplayInv, ReplayTypes
  <2> QED
    BY <2>1, <2>2 DEF SessionInv, TypeOK, ReaderInv, ReaderTypes, ReplayInv, ReplayTypes,
         HandlerInv, MainTypes
<1> QED
  BY <1>1, SessionInvariant, PTL

(* Block by block, through every section and byte order, the reader yields  *)
(* the packets of the capture and nothing else, each in its own time unit.  *)
THEOREM CaptureIsYielded == Spec => []YieldsTheCapture
<1>1. SessionInv => YieldsTheCapture
  <2>1. ~Opens => YieldsTheCapture
    BY DEF YieldsTheCapture
  <2> QED
    BY <2>1 DEF SessionInv, ReaderInv
<1> QED
  BY <1>1, SessionInvariant, PTL

(* No payload reaches past the bytes captured or past its datagram.         *)
THEOREM PayloadsInFrames == Spec => []PayloadInFrame
<1>1. SessionInv => PayloadInFrame
  BY DEF SessionInv, ReaderInv
<1> QED
  BY <1>1, SessionInvariant, PTL

(* checkcap says of a capture what exchange will find in it.                *)
THEOREM VerdictsAlwaysAgree == Spec => []VerdictsAgree
<1>1. SessionInv => VerdictsAgree
  BY VerdictsFollow DEF SessionInv
<1> QED
  BY <1>1, SessionInvariant, PTL

(* A handler that ends on silence has received all that exchange will send, *)
(* for every pace no slower than the silence that ends a session.           *)
THEOREM SilenceMeansOver == Spec => []HeardOut
<1>1. SessionInv => HeardOut
  <2> SUFFICES ASSUME SessionInv, exit_code = 0, ~stalled, ~missed
               PROVE  replay = "exited" /\ received = packets
    BY DEF HeardOut
  <2>1. stage = "exited" /\ ~g_stop /\ ~never_heard
    BY DEF SessionInv, HandlerInv, MainTypes, HandlerControl, Ended, NotYet
  <2> QED
    BY <2>1 DEF SessionInv, TimesAgree, EndsAfterReplay
<1> QED
  BY <1>1, SessionInvariant, PTL

(* The exit code of the handler always tells why it ended, a socket it, or  *)
(* the thread of its repair server, could not have included.                *)
THEOREM ExitAlwaysTellsWhy == Spec => []ExitTellsWhy
<1>1. SessionInv => ExitTellsWhy
  BY ExitIsTold DEF SessionInv
<1> QED
  BY <1>1, SessionInvariant, PTL
=============================================================================
