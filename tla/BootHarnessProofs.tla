------------------------- MODULE BootHarnessProofs -------------------------
(***************************************************************************)
(* Proofs about BootHarness, for any markers, any bytes, and any sizes of  *)
(* the pipe, the output and the QMP dialogue.                              *)
(***************************************************************************)
EXTENDS BootHarness, FiniteSetTheorems, SequenceTheorems, WellFoundedInduction,
        NaturalsInduction, TLAPS

(* Bytes of the lines looked at so far. *)
Judged == serial - Len(pending)

(* What the guest wrote is what was looked at, what is pending and what is  *)
(* still in the pipe, in this order and without a gap; what is pending      *)
(* starts a line, and is not a complete one when the next chunk is read.    *)
LinesInv ==
    /\ serial + Len(pipe) = Len(written) /\ Len(pending) <= serial
    /\ \A i \in 1..Len(pipe) : pipe[i] = written[serial + i]
    /\ \A i \in 1..Len(pending) : pending[i] = written[Judged + i]
    /\ at # "parse" => \A i \in 1..Len(pending) : pending[i] # NL
    /\ Judged = 0 \/ written[Judged] = NL

(* marker_index counts the markers looked at, which came in order. *)
MarkersInv ==
    markers = Seen(Lines(written), Judged) /\ InOrder(Lines(written), Judged)

(* The shutdown is requested after the last marker, and the loop is left    *)
(* after it, at the end of the output.                                      *)
ShutdownInv ==
    /\ quitting => quit
    /\ quitting \/ at \in {"greeting", "capabilities", "quit"} => markers = Markers
    /\ at \in {"capabilities", "quit"} => events < EventLimit
    /\ at = "wait" => quitting /\ Len(pipe) = 0 /\ qemu # "running"

IInv ==
    /\ HarnessInv
    /\ verdict = "none" <=> at \notin {"finally", "returned"}
    /\ verdict = "none" => LinesInv /\ MarkersInv /\ ShutdownInv

-----------------------------------------------------------------------------
(* Counting lines                                                           *)

LEMMA MarkersNat == Markers \in Nat \ {0}
BY HarnessAssumption, LenProperties DEF Markers

LEMMA SeenNat ==
    ASSUME NEW lines, NEW n \in Nat
    PROVE  /\ Seen(lines, n) \in Nat
           /\ IsFiniteSet({i \in 1..n : lines[i] # Other})
<1>1. IsFiniteSet(1..n)
  BY FS_Interval
<1>2. IsFiniteSet({i \in 1..n : lines[i] # Other})
  BY <1>1, FS_Subset
<1> QED
  BY <1>2, FS_CardinalityType DEF Seen

LEMMA SeenZero == \A lines : Seen(lines, 0) = 0
<1>1. \A lines : {i \in 1..0 : lines[i] # Other} = {}
  OBVIOUS
<1> QED
  BY <1>1, FS_EmptySet DEF Seen

(* A line more is a marker or result more, unless it is some other line. *)
LEMMA SeenNext ==
    ASSUME NEW lines, NEW n \in Nat
    PROVE  /\ lines[n + 1] = Other => Seen(lines, n + 1) = Seen(lines, n)
           /\ lines[n + 1] # Other => Seen(lines, n + 1) = Seen(lines, n) + 1
<1> DEFINE T(k) == {i \in 1..k : lines[i] # Other}
<1>1. n + 1 \notin T(n) /\ IsFiniteSet(T(n)) /\ Cardinality(T(n)) \in Nat
  BY SeenNat DEF Seen
<1>2. CASE lines[n + 1] # Other
  <2>1. T(n + 1) = T(n) \cup {n + 1}
    BY <1>2
  <2>2. Cardinality(T(n) \cup {n + 1}) = Cardinality(T(n)) + 1
    <3> HIDE DEF T
    <3> QED BY <1>1, FS_AddElement
  <2> QED
    BY <1>2, <2>1, <2>2 DEF Seen
<1>3. CASE lines[n + 1] = Other
  <2>1. T(n + 1) = T(n)
    BY <1>3
  <2> QED
    BY <1>3, <2>1 DEF Seen
<1> QED
  BY <1>2, <1>3

(* Only the first n lines matter. *)
LEMMA SamePrefix ==
    ASSUME NEW a, NEW b, NEW n \in Nat, \A i \in 1..n : a[i] = b[i]
    PROVE  Seen(a, n) = Seen(b, n) /\ (InOrder(a, n) => InOrder(b, n))
<1>1. ASSUME NEW k \in 0..n
      PROVE  Seen(a, k) = Seen(b, k)
  <2>1. {i \in 1..k : a[i] # Other} = {i \in 1..k : b[i] # Other}
    OBVIOUS
  <2> QED
    BY <2>1 DEF Seen
<1>2. Seen(a, n) = Seen(b, n)
  BY <1>1
<1>3. \A k \in 1..n : Seen(a, k) = Seen(b, k)
  BY <1>1
<1> QED
  BY <1>2, <1>3 DEF InOrder

(* Order is extended line by line: by a line that is no marker, or by the   *)
(* next marker.                                                             *)
LEMMA OrderNext ==
    ASSUME NEW lines, NEW n \in Nat, InOrder(lines, n),
           lines[n + 1] = Other
             \/ (lines[n + 1] \in Marker /\ lines[n + 1] = Seen(lines, n) + 1)
    PROVE  InOrder(lines, n + 1)
<1>1. lines[n + 1] # Other =>
        lines[n + 1] \in Marker /\ lines[n + 1] = Seen(lines, n + 1)
  BY SeenNext
<1>2. ASSUME NEW i \in 1..(n + 1)
      PROVE  lines[i] # Other => lines[i] \in Marker /\ lines[i] = Seen(lines, i)
  <2>1. CASE i = n + 1
    BY <1>1, <2>1
  <2>2. CASE i \in 1..n
    BY <2>2 DEF InOrder
  <2> QED
    BY <2>1, <2>2
<1> QED
  BY <1>2 DEF InOrder

(* Bytes that end no marker and no result change nothing. *)
LEMMA SeenSkip ==
    ASSUME NEW lines, NEW a \in Nat, NEW b \in Nat, a <= b,
           \A i \in (a + 1)..b : lines[i] = Other
    PROVE  /\ Seen(lines, b) = Seen(lines, a)
           /\ InOrder(lines, a) => InOrder(lines, b)
<1>1. {i \in 1..b : lines[i] # Other} = {i \in 1..a : lines[i] # Other}
  OBVIOUS
<1>2. ASSUME InOrder(lines, a), NEW i \in 1..b
      PROVE  lines[i] # Other => lines[i] \in Marker /\ lines[i] = Seen(lines, i)
  <2>1. i \in 1..a \/ i \in (a + 1)..b
    OBVIOUS
  <2> QED
    BY <1>2, <2>1 DEF InOrder
<1> QED
  BY <1>1, <1>2 DEF Seen, InOrder

-----------------------------------------------------------------------------
(* Cutting bytes into lines                                                 *)

LEMMA BeginLast ==
    ASSUME NEW bytes, NEW i \in Nat \ {0}
    PROVE  /\ Begin(bytes, i) \in LineStarts(bytes, i)
           /\ \A c \in LineStarts(bytes, i) : c <= Begin(bytes, i)
<1> DEFINE S == LineStarts(bytes, i)
           D == {i - b : b \in S}
           R == {ss \in Nat \X Nat : ss[1] < ss[2]}
<1>1. S \subseteq 1..i /\ 1 \in S
  BY DEF LineStarts
<1>2. D \subseteq Nat /\ D # {}
  BY <1>1
<1>3. IsWellFoundedOn(R, Nat)
  BY NatLessThanWellFounded, Zenon DEF OpToRel
<1> HIDE DEF R, D
<1>4. PICK d \in D : \A e \in D : ~(<<e, d>> \in R)
  BY <1>2, <1>3, WFMin
<1> HIDE DEF S
<1>5. PICK b \in S : d = i - b
  BY <1>4 DEF D
<1>6. ASSUME NEW c \in S
      PROVE  c <= b
  <2>1. i - c \in D
    BY DEF D
  <2>2. i - c \in Nat /\ d \in Nat
    BY <1>2, <2>1
  <2>3. ~(i - c < d)
    BY <1>4, <2>1, <2>2 DEF R
  <2> QED
    BY <1>1, <1>5, <2>2, <2>3
<1>7. \E x \in S : \A c \in S : c <= x
  BY <1>6
<1>8. Begin(bytes, i) = CHOOSE x \in S : \A c \in S : c <= x
  BY DEF Begin, S
<1> QED
  BY <1>7, <1>8, Zenon DEF S

(* A line begins where one can begin and no line break follows. *)
LEMMA BeginHere ==
    ASSUME NEW bytes, NEW i \in Nat \ {0}, NEW b \in LineStarts(bytes, i),
           \A j \in b..(i - 1) : bytes[j] # NL
    PROVE  Begin(bytes, i) = b
<1> DEFINE x == Begin(bytes, i)
<1>1. x \in LineStarts(bytes, i) /\ b <= x
  BY BeginLast
<1>2. /\ x \in 1..i /\ b \in 1..i
      /\ x = 1 \/ bytes[x - 1] = NL
  BY <1>1 DEF LineStarts
<1> HIDE DEF x
<1>3. ASSUME x # b
      PROVE  FALSE
  <2>1. x - 1 \in b..(i - 1) /\ x # 1
    BY <1>1, <1>2, <1>3
  <2> QED
    BY <1>2, <2>1
<1> QED
  BY <1>3 DEF x

LEMMA SameText ==
    ASSUME NEW s, NEW t, NEW a \in Int, NEW b \in Int, NEW c \in Int, NEW d \in Int,
           b - a = d - c,
           \A j \in a..b : s[j] \in Byte, \A j \in c..d : t[j] \in Byte,
           \A k \in 1..(b - a + 1) : s[a + k - 1] = t[c + k - 1]
    PROVE  SubSeq(s, a, b) = SubSeq(t, c, d)
<1> DEFINE u == SubSeq(s, a, b)
           v == SubSeq(t, c, d)
<1>1. /\ u \in Seq(Byte) /\ Len(u) = IF a <= b THEN b - a + 1 ELSE 0
      /\ \A i \in 1..(b - a + 1) : u[i] = s[a + i - 1]
  BY SubSeqProperties
<1>2. /\ v \in Seq(Byte) /\ Len(v) = IF c <= d THEN d - c + 1 ELSE 0
      /\ \A i \in 1..(d - c + 1) : v[i] = t[c + i - 1]
  BY SubSeqProperties
<1> HIDE DEF u, v
<1>3. Len(u) = Len(v)
  BY <1>1, <1>2
<1>4. ASSUME NEW i \in 1..Len(u)
      PROVE  u[i] = v[i]
  <2>1. i \in 1..(b - a + 1) /\ i \in 1..(d - c + 1)
    BY <1>1
  <2> QED
    BY <1>1, <1>2, <2>1
<1>5. u = v
  BY <1>1, <1>2, <1>3, <1>4, SeqEqual
<1> QED
  BY <1>5 DEF u, v

LEMMA SameTextHere ==
    ASSUME NEW s, NEW t, NEW a \in Int, NEW b \in Int,
           \A j \in a..b : s[j] \in Byte, \A j \in a..b : t[j] \in Byte,
           \A k \in 1..(b - a + 1) : s[a + k - 1] = t[a + k - 1]
    PROVE  SubSeq(s, a, b) = SubSeq(t, a, b)
<1> DEFINE u == SubSeq(s, a, b)
           v == SubSeq(t, a, b)
<1>1. /\ u \in Seq(Byte) /\ Len(u) = IF a <= b THEN b - a + 1 ELSE 0
      /\ \A i \in 1..(b - a + 1) : u[i] = s[a + i - 1]
  BY SubSeqProperties
<1>2. /\ v \in Seq(Byte) /\ Len(v) = IF a <= b THEN b - a + 1 ELSE 0
      /\ \A i \in 1..(b - a + 1) : v[i] = t[a + i - 1]
  BY SubSeqProperties
<1> HIDE DEF u, v
<1>3. \A i \in 1..Len(u) : u[i] = v[i]
  BY <1>1, <1>2
<1>4. u = v
  BY <1>1, <1>2, <1>3, SeqEqual
<1> QED
  BY <1>4 DEF u, v

(* More output does not change the lines there are. *)
LEMMA LinesAgree ==
    ASSUME NEW s \in Seq(Byte), NEW t \in Seq(Byte), NEW n \in Nat,
           n <= Len(s), n <= Len(t), \A i \in 1..n : s[i] = t[i]
    PROVE  \A i \in 1..n : Lines(s)[i] = Lines(t)[i]
<1> SUFFICES ASSUME NEW i \in 1..n
             PROVE  Lines(s)[i] = Lines(t)[i]
  OBVIOUS
<1>1. /\ Len(s) \in Nat /\ Len(t) \in Nat
      /\ \A j \in 1..Len(s) : s[j] \in Byte
      /\ \A j \in 1..Len(t) : t[j] \in Byte
  BY LenProperties, ElementOfSeq
<1>2. i \in 1..Len(s) /\ i \in 1..Len(t) /\ s[i] = t[i] /\ i \in Nat \ {0}
  BY <1>1
<1>3. LineStarts(s, i) = LineStarts(t, i)
  <2>1. ASSUME NEW b \in 1..i
        PROVE  (b = 1 \/ s[b - 1] = NL) <=> (b = 1 \/ t[b - 1] = NL)
    <3>1. b = 1 \/ b - 1 \in 1..n
      OBVIOUS
    <3> QED
      BY <3>1
  <2> QED
    BY <2>1 DEF LineStarts
<1> DEFINE b == Begin(s, i)
<1>4. Begin(t, i) = b
  BY <1>3 DEF Begin
<1>5. b \in 1..i
  BY <1>2, BeginLast DEF LineStarts
<1> HIDE DEF b
<1>6. SubSeq(s, b, i - 1) = SubSeq(t, b, i - 1)
  <2>1. ASSUME NEW k \in 1..((i - 1) - b + 1)
        PROVE  s[b + k - 1] = t[b + k - 1]
    <3>1. b + k - 1 \in 1..n
      BY <1>5
    <3> QED
      BY <3>1
  <2>2. (\A j \in b..(i - 1) : s[j] \in Byte) /\ (\A j \in b..(i - 1) : t[j] \in Byte)
    BY <1>1, <1>2, <1>5
  <2>3. b \in Int /\ i - 1 \in Int
    BY <1>5
  <2> QED
    BY <2>1, <2>2, <2>3, SameTextHere
<1>7. Lines(s)[i] = IF s[i] = NL THEN Kind(SubSeq(s, b, i - 1)) ELSE Other
  BY <1>2 DEF Lines, b
<1>8. Lines(t)[i] = IF t[i] = NL THEN Kind(SubSeq(t, b, i - 1)) ELSE Other
  BY <1>2, <1>4 DEF Lines
<1> QED
  BY <1>2, <1>6, <1>7, <1>8

-----------------------------------------------------------------------------
LEMMA InitIInv == Init => IInv
<1> SUFFICES ASSUME Init
             PROVE  IInv
  OBVIOUS
<1>1. /\ pipe \in Seq(Byte) /\ written \in Seq(Byte) /\ pending \in Seq(Byte)
      /\ Len(pipe) = 0 /\ Len(written) = 0 /\ Len(pending) = 0
  BY EmptySeq, Zenon DEF Init
<1>2. serial = 0 /\ Judged = 0
  <2>1. serial = 0
    BY Zenon DEF Init
  <2> QED
    BY <1>1, <2>1 DEF Judged
<1>3. TypeOK
  <2>1. /\ quit \in BOOLEAN /\ expired \in BOOLEAN /\ quitting \in BOOLEAN
        /\ at = "select" /\ markers = 0 /\ events = 0 /\ verdict = "none"
        /\ qemu = "running" /\ status = 0
    BY Zenon DEF Init
  <2> QED
    BY <1>1, <1>2, <2>1, MarkersNat, HarnessAssumption DEF TypeOK
<1>4. LinesInv
  BY <1>1, <1>2 DEF LinesInv
<1>5. MarkersInv
  <2>1. markers = 0
    BY Zenon DEF Init
  <2> QED
    BY <1>2, <2>1, SeenZero DEF MarkersInv, InOrder
<1>6. ShutdownInv
  BY DEF Init, ShutdownInv
<1> QED
  BY <1>3, <1>4, <1>5, <1>6 DEF Init, IInv, HarnessInv, PassIsEarned, NoOrphan

-----------------------------------------------------------------------------
(* The lines move from the guest to the harness                             *)

(* The guest appends to the pipe and to the history. *)
LEMMA WriteIInv ==
    ASSUME IInv, NEW byte \in Byte, Write(byte)
    PROVE  IInv'
<1>1. TypeOK /\ verdict # "PASS"
  BY DEF IInv, HarnessInv, PassIsEarned, Write
<1>2. /\ pipe \in Seq(Byte) /\ written \in Seq(Byte) /\ pending \in Seq(Byte)
      /\ Len(pipe) \in Nat /\ Len(written) \in Nat /\ Len(pending) \in Nat /\ serial \in Nat
      /\ UNCHANGED <<qemu, status, quit, expired, at, markers, serial, pending,
                     quitting, events, verdict>>
  BY <1>1, LenProperties, HarnessAssumption DEF TypeOK, Write
<1>3. /\ pipe' \in Seq(Byte) /\ Len(pipe') = Len(pipe) + 1
      /\ \A i \in 1..Len(pipe) : pipe'[i] = pipe[i]
      /\ pipe'[Len(pipe) + 1] = byte
  <2>1. pipe' = Append(pipe, byte)
    BY DEF Write
  <2> QED
    BY <1>2, <2>1, AppendProperties, Zenon
<1>4. /\ written' \in Seq(Byte) /\ Len(written') = Len(written) + 1
      /\ \A i \in 1..Len(written) : written'[i] = written[i]
      /\ written'[Len(written) + 1] = byte
  <2>1. written' = Append(written, byte)
    BY DEF Write
  <2> QED
    BY <1>2, <2>1, AppendProperties, Zenon
<1>5. TypeOK'
  BY <1>1, <1>2, <1>3, <1>4 DEF TypeOK
<1>6. HarnessInv'
  BY <1>1, <1>2, <1>5 DEF IInv, HarnessInv, PassIsEarned, NoOrphan
<1>7. ASSUME verdict = "none"
      PROVE  LinesInv' /\ MarkersInv' /\ ShutdownInv'
  <2>1. LinesInv /\ MarkersInv /\ ShutdownInv
    BY <1>7 DEF IInv
  <2>0. serial + Len(pipe) = Len(written) /\ Len(pending) <= serial
    BY <2>1, Zenon DEF LinesInv
  <2>2. Judged' = Judged /\ Judged \in Nat /\ Judged <= Len(written)
    BY <1>2, <2>0 DEF Judged
  <2>3. \A i \in 1..Len(pipe') : pipe'[i] = written'[serial + i]
    <3> SUFFICES ASSUME NEW i \in 1..Len(pipe')
                 PROVE  pipe'[i] = written'[serial + i]
      OBVIOUS
    <3>1. CASE i = Len(pipe) + 1
      <4>1. serial + i = Len(written) + 1
        BY <1>2, <2>0, <3>1
      <4> QED
        BY <1>3, <1>4, <3>1, <4>1
    <3>2. CASE i \in 1..Len(pipe)
      <4>1. serial + i \in 1..Len(written) /\ pipe[i] = written[serial + i]
        BY <1>2, <2>1, <3>2 DEF LinesInv
      <4> QED
        BY <1>3, <1>4, <3>2, <4>1
    <3> QED
      BY <1>2, <1>3, <3>1, <3>2
  <2>4. \A i \in 1..Len(pending) : pending[i] = written'[Judged + i]
    <3> SUFFICES ASSUME NEW i \in 1..Len(pending)
                 PROVE  pending[i] = written'[Judged + i]
      OBVIOUS
    <3>1. Judged + i \in 1..Len(written)
      BY <1>2, <2>1, <2>2 DEF Judged, LinesInv
    <3> QED
      BY <1>4, <2>1, <3>1 DEF LinesInv
  <2>5. serial' + Len(pipe') = Len(written') /\ Len(pending') <= serial'
    BY <1>2, <1>3, <1>4, <2>0
  <2>10. Judged = 0 \/ written'[Judged] = NL
    <3>1. Judged = 0 \/ written[Judged] = NL
      BY <2>1, Zenon DEF LinesInv
    <3>2. Judged = 0 \/ Judged \in 1..Len(written)
      BY <1>2, <2>2
    <3> QED
      BY <1>4, <3>1, <3>2
  <2>11. at # "parse" => \A i \in 1..Len(pending) : pending[i] # NL
    BY <2>1, Zenon DEF LinesInv
  <2>6. LinesInv'
    BY <1>2, <2>2, <2>3, <2>4, <2>5, <2>10, <2>11, Zenon DEF LinesInv
  <2>7. /\ Seen(Lines(written'), Judged) = Seen(Lines(written), Judged)
        /\ InOrder(Lines(written'), Judged)
    <3>1. \A i \in 1..Judged : written[i] = written'[i]
      BY <1>2, <1>4, <2>2
    <3>2. Judged <= Len(written')
      BY <1>2, <1>4, <2>2
    <3>3. \A i \in 1..Judged : Lines(written)[i] = Lines(written')[i]
      BY <1>2, <1>4, <2>2, <3>1, <3>2, LinesAgree
    <3> QED
      BY <2>1, <2>2, <3>3, SamePrefix DEF MarkersInv
  <2>8. MarkersInv'
    BY <1>2, <2>1, <2>2, <2>7 DEF MarkersInv
  <2>9. ShutdownInv'
    BY <1>2, <2>1 DEF ShutdownInv, Write
  <2> QED
    BY <2>6, <2>8, <2>9
<1> QED
  BY <1>2, <1>6, <1>7 DEF IInv

(* A chunk goes from the pipe to the pending lines. *)
LEMMA ReadIInv ==
    ASSUME IInv, NEW k \in 1..PipeSize, ReadSerial(k)
    PROVE  IInv'
<1>1. /\ TypeOK /\ verdict = "none" /\ LinesInv /\ MarkersInv /\ ShutdownInv
      /\ at = "select" /\ k \in 1..Len(pipe)
  BY DEF IInv, HarnessInv, ReadSerial
<1>2. /\ pipe \in Seq(Byte) /\ written \in Seq(Byte) /\ pending \in Seq(Byte)
      /\ Len(pipe) \in Nat /\ Len(written) \in Nat /\ serial \in Nat
      /\ Len(pending) \in Nat /\ k \in Nat /\ 1 <= k /\ k <= Len(pipe)
      /\ UNCHANGED <<qemu, status, written, quit, expired, markers, quitting, events>>
  BY <1>1, LenProperties, HarnessAssumption DEF TypeOK, ReadSerial
<1>3. \A i \in 1..Len(pipe) : pipe[i] \in Byte
  BY <1>1, ElementOfSeq DEF TypeOK
<1>4. /\ pipe' \in Seq(Byte) /\ Len(pipe') = Len(pipe) - k
      /\ \A i \in 1..Len(pipe') : pipe'[i] = pipe[k + i]
  <2> DEFINE p == SubSeq(pipe, k + 1, Len(pipe))
  <2>1. \A i \in (k + 1)..Len(pipe) : pipe[i] \in Byte
    BY <1>2, <1>3
  <2>2. /\ p \in Seq(Byte)
        /\ Len(p) = IF k + 1 <= Len(pipe) THEN Len(pipe) - (k + 1) + 1 ELSE 0
        /\ \A i \in 1..(Len(pipe) - (k + 1) + 1) : p[i] = pipe[(k + 1) + i - 1]
    <3>1. k + 1 \in Int /\ Len(pipe) \in Int
      BY <1>2
    <3> QED
      BY <2>1, <3>1, SubSeqProperties
  <2>3. pipe' = p
    BY DEF ReadSerial
  <2> HIDE DEF p
  <2>4. Len(p) = Len(pipe) - k
    BY <1>2, <2>2
  <2>5. ASSUME NEW i \in 1..Len(p)
        PROVE  p[i] = pipe[k + i]
    <3>1. i \in 1..(Len(pipe) - (k + 1) + 1) /\ (k + 1) + i - 1 = k + i
      BY <1>2, <2>4
    <3> QED
      BY <2>2, <3>1
  <2> QED
    BY <2>2, <2>3, <2>4, <2>5
<1>5. CASE serial + k > OutputLimit
  <2>1. serial' = OutputLimit /\ at' = "finally" /\ verdict' = "FAIL" /\ pending' = pending
    BY <1>5 DEF ReadSerial, Raise
  <2>2. TypeOK'
    BY <1>1, <1>2, <1>4, <2>1, HarnessAssumption DEF TypeOK
  <2> QED
    BY <2>1, <2>2 DEF IInv, HarnessInv, PassIsEarned, NoOrphan
<1>6. CASE ~(serial + k > OutputLimit)
  <2>1. /\ serial' = serial + k /\ at' = "parse" /\ verdict' = "none"
        /\ pending' = pending \o SubSeq(pipe, 1, k)
    BY <1>1, <1>6 DEF ReadSerial
  <2>2. /\ pending' \in Seq(Byte) /\ Len(pending') = Len(pending) + k
        /\ \A i \in 1..(Len(pending) + k) :
              pending'[i] = IF i <= Len(pending) THEN pending[i] ELSE pipe[i - Len(pending)]
    <3> DEFINE c == SubSeq(pipe, 1, k)
    <3>1. \A i \in 1..k : pipe[i] \in Byte
      BY <1>2, <1>3
    <3>2. c \in Seq(Byte) /\ Len(c) = k /\ \A i \in 1..k : c[i] = pipe[i]
      BY <1>2, <3>1, SubSeqProperties
    <3> HIDE DEF c
    <3>3. /\ pending \o c \in Seq(Byte) /\ Len(pending \o c) = Len(pending) + k
          /\ \A i \in 1..(Len(pending) + k) : (pending \o c)[i] =
                IF i <= Len(pending) THEN pending[i] ELSE c[i - Len(pending)]
      BY <1>2, <3>2, ConcatProperties
    <3>4. \A i \in 1..(Len(pending) + k) : i <= Len(pending) \/ i - Len(pending) \in 1..k
      BY <1>2
    <3>5. pending' = pending \o c
      BY <2>1 DEF c
    <3> QED
      BY <3>2, <3>3, <3>4, <3>5
  <2>3. TypeOK'
    BY <1>1, <1>2, <1>4, <1>6, <2>1, <2>2, HarnessAssumption DEF TypeOK
  <2>11. serial + Len(pipe) = Len(written) /\ Len(pending) <= serial
    BY <1>1, Zenon DEF LinesInv
  <2>4. Judged' = Judged /\ Judged \in Nat /\ Judged + Len(pending) = serial
    BY <1>2, <2>1, <2>2, <2>11 DEF Judged
  <2>5. \A i \in 1..Len(pipe') : pipe'[i] = written[serial' + i]
    <3> SUFFICES ASSUME NEW i \in 1..Len(pipe')
                 PROVE  pipe'[i] = written[serial' + i]
      OBVIOUS
    <3>1. k + i \in 1..Len(pipe) /\ serial + (k + i) = serial' + i
      BY <1>2, <1>4, <2>1
    <3>2. pipe[k + i] = written[serial + (k + i)]
      BY <1>1, <3>1 DEF LinesInv
    <3> QED
      BY <1>4, <3>1, <3>2
  <2>6. \A i \in 1..Len(pending') : pending'[i] = written[Judged + i]
    <3> SUFFICES ASSUME NEW i \in 1..Len(pending')
                 PROVE  pending'[i] = written[Judged + i]
      OBVIOUS
    <3>0. i \in 1..(Len(pending) + k)
      BY <2>2
    <3>1. CASE i <= Len(pending)
      <4>1. i \in 1..Len(pending)
        BY <1>2, <3>0, <3>1
      <4>2. pending[i] = written[Judged + i]
        BY <1>1, <4>1, Zenon DEF LinesInv
      <4> QED
        BY <2>2, <3>0, <3>1, <4>2
    <3>2. CASE ~(i <= Len(pending))
      <4>1. i - Len(pending) \in 1..Len(pipe) /\ serial + (i - Len(pending)) = Judged + i
        BY <1>2, <2>4, <3>0, <3>2
      <4>2. pipe[i - Len(pending)] = written[serial + (i - Len(pending))]
        BY <1>1, <4>1, Zenon DEF LinesInv
      <4> QED
        BY <2>2, <3>0, <3>2, <4>1, <4>2
    <3> QED
      BY <3>1, <3>2
  <2>7. serial' + Len(pipe') = Len(written) /\ Len(pending') <= serial'
    <3>1. Len(pipe') = Len(pipe) - k /\ serial' = serial + k /\ Len(pending') = Len(pending) + k
      BY <1>4, <2>1, <2>2, Zenon
    <3> QED
      BY <1>2, <2>11, <3>1
  <2>12. Judged = 0 \/ written[Judged] = NL
    BY <1>1, Zenon DEF LinesInv
  <2>8. LinesInv'
    BY <1>2, <2>1, <2>4, <2>5, <2>6, <2>7, <2>12, Zenon DEF LinesInv
  <2>9. MarkersInv'
    BY <1>1, <1>2, <2>4 DEF MarkersInv
  <2>10. ShutdownInv'
    BY <1>1, <1>2, <2>1 DEF ShutdownInv
  <2> QED
    BY <2>1, <2>3, <2>8, <2>9, <2>10 DEF IInv, HarnessInv, PassIsEarned, NoOrphan
<1> QED
  BY <1>5, <1>6

(* The text before the first line break of what is pending is the line of   *)
(* the history that ends there, and no line ends before.                    *)
LEMMA NextLine ==
    ASSUME TypeOK, LinesInv, NEW n \in 1..Len(pending), BreakAt(n)
    PROVE  /\ Judged \in Nat /\ n \in Nat /\ n >= 1 /\ Judged + n \in 1..Len(written)
           /\ written[Judged + n] = NL
           /\ \A i \in (Judged + 1)..(Judged + n - 1) : Lines(written)[i] = Other
           /\ Lines(written)[Judged + n] = Kind(SubSeq(pending, 1, n - 1))
<1>1. /\ pipe \in Seq(Byte) /\ written \in Seq(Byte) /\ pending \in Seq(Byte)
      /\ Len(pipe) \in Nat /\ Len(written) \in Nat /\ Len(pending) \in Nat
      /\ serial \in Nat
  BY LenProperties, HarnessAssumption DEF TypeOK
<1>2. serial + Len(pipe) = Len(written) /\ Len(pending) <= serial
  BY Zenon DEF LinesInv
<1>3. /\ Judged \in Nat /\ n \in Nat /\ n >= 1 /\ Judged + n \in 1..Len(written)
      /\ n <= Len(pending) /\ Judged + Len(pending) <= Len(written)
  BY <1>1, <1>2 DEF Judged
<1>4. \A i \in 1..Len(pending) : pending[i] = written[Judged + i]
  BY Zenon DEF LinesInv
<1>5. written[Judged + n] = NL
  BY <1>4 DEF BreakAt
<1>6. \A j \in (Judged + 1)..(Judged + n - 1) : written[j] # NL
  <2> SUFFICES ASSUME NEW j \in (Judged + 1)..(Judged + n - 1)
               PROVE  written[j] # NL
    OBVIOUS
  <2>1. /\ j - Judged \in 1..(n - 1) /\ j - Judged \in 1..Len(pending)
        /\ Judged + (j - Judged) = j
    BY <1>1, <1>3
  <2>2. pending[j - Judged] # NL
    BY <2>1 DEF BreakAt
  <2> QED
    BY <1>4, <2>1, <2>2
<1>7. \A i \in (Judged + 1)..(Judged + n - 1) : Lines(written)[i] = Other
  <2> SUFFICES ASSUME NEW i \in (Judged + 1)..(Judged + n - 1)
               PROVE  Lines(written)[i] = Other
    OBVIOUS
  <2>1. i \in 1..Len(written)
    BY <1>1, <1>3
  <2> QED
    BY <1>6, <2>1 DEF Lines
<1> DEFINE p == Judged + n
<1>8. Begin(written, p) = Judged + 1
  <2>1. Judged = 0 \/ written[Judged] = NL
    BY Zenon DEF LinesInv
  <2>2. Judged + 1 \in 1..p /\ (Judged + 1) - 1 = Judged /\ p \in Nat \ {0}
    BY <1>3
  <2>3. Judged + 1 \in LineStarts(written, p)
    BY <1>3, <2>1, <2>2 DEF LineStarts
  <2> QED
    BY <1>6, <2>2, <2>3, BeginHere
<1>9. SubSeq(written, Judged + 1, p - 1) = SubSeq(pending, 1, n - 1)
  <2>1. /\ \A j \in 1..Len(written) : written[j] \in Byte
        /\ \A j \in 1..Len(pending) : pending[j] \in Byte
    BY <1>1, ElementOfSeq
  <2>2. /\ \A j \in (Judged + 1)..(p - 1) : written[j] \in Byte
        /\ \A j \in 1..(n - 1) : pending[j] \in Byte
    BY <1>1, <1>3, <2>1
  <2>3. ASSUME NEW k \in 1..((p - 1) - (Judged + 1) + 1)
        PROVE  written[(Judged + 1) + k - 1] = pending[1 + k - 1]
    <3>1. k \in 1..Len(pending) /\ (Judged + 1) + k - 1 = Judged + k /\ 1 + k - 1 = k
      BY <1>1, <1>3
    <3> QED
      BY <1>4, <3>1
  <2>4. /\ Judged + 1 \in Int /\ p - 1 \in Int /\ 1 \in Int /\ n - 1 \in Int
        /\ (p - 1) - (Judged + 1) = (n - 1) - 1
    BY <1>3
  <2> HIDE DEF p
  <2> QED
    BY <2>2, <2>3, <2>4, SameText
<1>10. Lines(written)[p] = Kind(SubSeq(written, Judged + 1, p - 1))
  BY <1>3, <1>5, <1>8 DEF Lines
<1> QED
  BY <1>3, <1>5, <1>7, <1>9, <1>10

(* A line is looked at. *)
LEMMA ParseIInv ==
    ASSUME IInv, ParseLine
    PROVE  IInv'
<1>1. /\ TypeOK /\ verdict = "none" /\ LinesInv /\ MarkersInv /\ ShutdownInv
      /\ at = "parse"
      /\ UNCHANGED <<qemu, status, pipe, written, quit, expired, serial, quitting, events>>
  BY DEF IInv, HarnessInv, ParseLine, world
<1>2. /\ pipe \in Seq(Byte) /\ written \in Seq(Byte) /\ pending \in Seq(Byte)
      /\ Len(pipe) \in Nat /\ Len(written) \in Nat /\ Len(pending) \in Nat
      /\ serial \in Nat /\ markers \in Nat
  BY <1>1, LenProperties, HarnessAssumption DEF TypeOK
<1>n. PICK n \in 1..Len(pending) :
        /\ BreakAt(n)
        /\ pending' = SubSeq(pending, n + 1, Len(pending))
        /\ Judge(Kind(SubSeq(pending, 1, n - 1)))
  BY DEF ParseLine
<1> DEFINE line == Kind(SubSeq(pending, 1, n - 1))
           L == Lines(written)
           m == Judged + n - 1
<1>j. Judge(line)
  BY <1>n
<1>3. /\ Judged \in Nat /\ n \in Nat /\ n >= 1 /\ Judged + n \in 1..Len(written)
      /\ written[Judged + n] = NL
      /\ \A i \in (Judged + 1)..m : L[i] = Other
      /\ L[Judged + n] = line
  BY <1>1, <1>n, NextLine
<1> HIDE DEF line, L, m
<1>m. m \in Nat /\ m + 1 = Judged + n /\ Judged <= m /\ L[m + 1] = line
  BY <1>3 DEF m
<1>4. /\ pending' \in Seq(Byte) /\ Len(pending') = Len(pending) - n
      /\ \A i \in 1..Len(pending') : pending'[i] = pending[i + n]
  <2> DEFINE p == SubSeq(pending, n + 1, Len(pending))
  <2>1. \A i \in (n + 1)..Len(pending) : pending[i] \in Byte
    <3>1. \A i \in 1..Len(pending) : pending[i] \in Byte
      BY <1>2, ElementOfSeq
    <3> QED
      BY <1>2, <1>3, <3>1
  <2>2. /\ p \in Seq(Byte)
        /\ Len(p) = IF n + 1 <= Len(pending) THEN Len(pending) - (n + 1) + 1 ELSE 0
        /\ \A i \in 1..(Len(pending) - (n + 1) + 1) : p[i] = pending[(n + 1) + i - 1]
    <3>1. n + 1 \in Int /\ Len(pending) \in Int
      BY <1>2, <1>3
    <3> QED
      BY <2>1, <3>1, SubSeqProperties
  <2>3. pending' = p
    BY <1>n
  <2> HIDE DEF p
  <2>4. Len(p) = Len(pending) - n
    BY <1>2, <1>3, <2>2
  <2>5. ASSUME NEW i \in 1..Len(p)
        PROVE  p[i] = pending[i + n]
    <3>1. i \in 1..(Len(pending) - (n + 1) + 1) /\ (n + 1) + i - 1 = i + n
      BY <1>2, <1>3, <2>4
    <3> QED
      BY <2>2, <3>1
  <2> QED
    BY <2>2, <2>3, <2>4, <2>5
<1>5. CASE line # Other /\ ~Expected(line)
  <2>1. at' = "finally" /\ verdict' = "FAIL" /\ markers' = markers
    BY <1>j, <1>5 DEF Judge, Raise
  <2>2. TypeOK'
    BY <1>1, <1>4, <2>1 DEF TypeOK
  <2> QED
    BY <2>1, <2>2 DEF IInv, HarnessInv, PassIsEarned, NoOrphan
<1>6. CASE line = Other \/ Expected(line)
  <2>1. at' = "parse" /\ verdict' = "none"
    BY <1>1, <1>j, <1>6 DEF Judge
  <2>2. Judged' = Judged + n
    BY <1>1, <1>2, <1>3, <1>4 DEF Judged
  <2>3. LinesInv'
    <3>1. serial' + Len(pipe') = Len(written')
      BY <1>1, Zenon DEF LinesInv
    <3>2. Len(pending) <= serial
      BY <1>1, Zenon DEF LinesInv
    <3>3. Len(pending') <= serial'
      BY <1>1, <1>2, <1>3, <1>4, <3>2
    <3>4. ASSUME NEW i \in 1..Len(pending')
          PROVE  pending'[i] = written[Judged' + i]
      <4>1. i + n \in 1..Len(pending) /\ Judged + (i + n) = Judged' + i
        BY <1>2, <1>3, <1>4, <2>2
      <4>2. pending[i + n] = written[Judged + (i + n)]
        BY <1>1, <4>1, Zenon DEF LinesInv
      <4> QED
        BY <1>4, <4>1, <4>2
    <3>5. \A i \in 1..Len(pipe) : pipe[i] = written[serial + i]
      BY <1>1, Zenon DEF LinesInv
    <3>6. written'[Judged'] = NL
      BY <1>1, <1>3, <2>2
    <3> QED
      BY <1>1, <2>1, <3>1, <3>3, <3>4, <3>5, <3>6, Zenon DEF LinesInv
  <2>4. markers = Seen(L, m) /\ InOrder(L, m)
    <3>1. markers = Seen(L, Judged) /\ InOrder(L, Judged)
      BY <1>1 DEF MarkersInv, L
    <3> QED
      BY <1>3, <1>m, <3>1, SeenSkip
  <2>5. markers' = Seen(L, m + 1) /\ markers' \in 0..Markers
        /\ (markers' = markers \/ markers # Markers)
    <3>0. Markers \in Nat /\ markers \in 0..Markers
      BY <1>1, HarnessAssumption, LenProperties DEF Markers, TypeOK
    <3>1. CASE line = Other
      <4>1. markers' = markers
        BY <1>j, <3>1 DEF Judge, Expected, Other, Marker
      <4>2. Seen(L, m + 1) = Seen(L, m)
        BY <1>m, <3>1, SeenNext
      <4> QED
        BY <2>4, <3>0, <4>1, <4>2
    <3>2. CASE line # Other /\ Expected(line)
      <4>1. markers' = markers + 1 /\ line \in 1..Markers /\ line = markers + 1
        BY <1>j, <3>2 DEF Judge, Expected, Marker
      <4>2. Seen(L, m + 1) = Seen(L, m) + 1
        BY <1>m, <3>2, SeenNext
      <4> QED
        BY <1>2, <2>4, <3>0, <4>1, <4>2
    <3> QED
      BY <1>6, <3>1, <3>2
  <2>6. InOrder(L, m + 1)
    <3>1. L[m + 1] = Other \/ (L[m + 1] \in Marker /\ L[m + 1] = Seen(L, m) + 1)
      BY <1>m, <1>6, <2>4 DEF Expected
    <3> QED
      BY <1>m, <2>4, <3>1, OrderNext
  <2>7. MarkersInv'
    BY <1>1, <1>m, <2>2, <2>5, <2>6 DEF MarkersInv, L
  <2>8. ShutdownInv'
    BY <1>1, <2>1, <2>5 DEF ShutdownInv
  <2>9. TypeOK'
    BY <1>1, <1>4, <2>1, <2>5 DEF TypeOK
  <2> QED
    BY <2>1, <2>3, <2>7, <2>8, <2>9 DEF IInv, HarnessInv, PassIsEarned, NoOrphan
<1> QED
  BY <1>5, <1>6

-----------------------------------------------------------------------------
(* Steps that move no line                                                  *)

(* What such a step leaves alone. *)
LEMMA LinesKept ==
    ASSUME LinesInv, MarkersInv,
           UNCHANGED <<pipe, written, serial, pending, markers>>,
           at' = "parse" \/ \A i \in 1..Len(pending) : pending[i] # NL
    PROVE  LinesInv' /\ MarkersInv'
<1>1. Judged' = Judged
  BY DEF Judged
<1>2. MarkersInv'
  BY <1>1 DEF MarkersInv
<1>3. LinesInv'
  <2>1. at' # "parse" => \A i \in 1..Len(pending') : pending'[i] # NL
    OBVIOUS
  <2> QED
    BY <1>1, <2>1, Zenon DEF LinesInv
<1> QED
  BY <1>2, <1>3

(* An exception ends in a failure, which promises nothing. *)
LEMMA RaiseIInv ==
    ASSUME IInv, Raise, UNCHANGED <<world, markers, serial, pending, quitting>>,
           events' \in 0..EventLimit
    PROVE  IInv'
<1>1. TypeOK'
  BY DEF IInv, HarnessInv, TypeOK, Raise, world
<1> QED
  BY <1>1 DEF IInv, HarnessInv, PassIsEarned, NoOrphan, Raise

LEMMA WorldIInv ==
    ASSUME IInv, Close \/ (\E code \in {0, 1} : Exit(code)) \/ Expire \/ AcceptQuit
    PROVE  IInv'
<1>1. /\ UNCHANGED <<pipe, written, at, markers, serial, pending, quitting,
                     events, verdict>>
      /\ qemu \in {"running", "closed", "exited"}
      /\ qemu' \in {"running", "closed", "exited"} /\ status' \in {0, 1, 137}
      /\ expired' \in BOOLEAN /\ quit' \in BOOLEAN /\ (quit => quit')
      /\ qemu # "running" => qemu' # "running"
      /\ qemu = "exited" => qemu' = "exited" /\ status' = status
  BY DEF IInv, HarnessInv, TypeOK, Close, Exit, Expire, AcceptQuit
<1>2. TypeOK'
  BY <1>1 DEF IInv, HarnessInv, TypeOK
<1>3. HarnessInv'
  BY <1>1, <1>2 DEF IInv, HarnessInv, PassIsEarned, NoOrphan
<1>4. ASSUME verdict = "none"
      PROVE  LinesInv' /\ MarkersInv' /\ ShutdownInv'
  <2>1. LinesInv /\ MarkersInv /\ ShutdownInv
    BY <1>4 DEF IInv
  <2>2. at' = "parse" \/ \A i \in 1..Len(pending) : pending[i] # NL
    BY <1>1, <2>1, Zenon DEF LinesInv
  <2>3. ShutdownInv'
    BY <1>1, <2>1 DEF ShutdownInv
  <2> QED
    BY <1>1, <2>1, <2>2, <2>3, LinesKept
<1> QED
  BY <1>1, <1>3, <1>4 DEF IInv

(* A step of the dialogue or of the loop that neither raises nor ends. *)
LEMMA ControlIInv ==
    ASSUME IInv, verdict = "none", verdict' = "none",
           UNCHANGED <<qemu, status, pipe, written, expired, markers, serial, pending>>,
           at' \in {"select", "greeting", "capabilities", "quit", "wait"},
           \A i \in 1..Len(pending) : pending[i] # NL,
           quit' \in BOOLEAN, quitting' \in BOOLEAN, events' \in 0..EventLimit,
           ShutdownInv'
    PROVE  IInv'
<1>1. TypeOK'
  BY DEF IInv, HarnessInv, TypeOK
<1>2. LinesInv' /\ MarkersInv'
  BY LinesKept DEF IInv
<1> QED
  BY <1>1, <1>2 DEF IInv, HarnessInv, PassIsEarned, NoOrphan

LEMMA HarnessIInv ==
    ASSUME IInv, Harness
    PROVE  IInv'
<1> USE HarnessAssumption
<1>1. TypeOK /\ events \in 0..EventLimit /\ events \in Nat
  BY DEF IInv, HarnessInv, TypeOK
<1>2. ASSUME at \notin {"finally", "returned"}
      PROVE  /\ verdict = "none" /\ LinesInv /\ MarkersInv /\ ShutdownInv
             /\ at # "parse" => \A i \in 1..Len(pending) : pending[i] # NL
  BY <1>2 DEF IInv, LinesInv
<1>3. CASE \E k \in 1..PipeSize : ReadSerial(k)
  BY <1>3, ReadIInv
<1>4. CASE ParseLine
  BY <1>4, ParseIInv
<1>5. CASE ParseEnd
  <2>1. /\ at = "parse" /\ at' \in {"select", "greeting"}
        /\ at' = "greeting" => markers = Markers
        /\ UNCHANGED <<world, markers, serial, pending, quitting, events, verdict>>
    BY <1>5 DEF ParseEnd
  <2>2. \A i \in 1..Len(pending) : pending[i] # NL
    BY <1>5, Zenon DEF ParseEnd
  <2>3. ShutdownInv'
    BY <1>2, <2>1 DEF ShutdownInv, world
  <2> QED
    BY <1>1, <1>2, <2>1, <2>2, <2>3, ControlIInv DEF world, TypeOK
<1>6. CASE ReadEof
  <2>1. CASE quitting
    <3>1. /\ at = "select" /\ at' = "wait" /\ qemu # "running" /\ pipe = <<>>
          /\ UNCHANGED <<world, markers, serial, pending, quitting, events, verdict>>
      BY <1>6, <2>1 DEF ReadEof
    <3>2. Len(pipe) = 0
      BY <3>1, EmptySeq, Zenon
    <3>3. ShutdownInv'
      <4>1. UNCHANGED <<qemu, pipe, quit, markers, quitting, events>> /\ at' = "wait"
            /\ at = "select" /\ qemu # "running"
        BY <3>1, Zenon DEF world
      <4> QED
        BY <1>2, <2>1, <3>2, <4>1 DEF ShutdownInv
    <3>4. at = "select" /\ at' = "wait"
          /\ UNCHANGED <<world, markers, serial, pending, quitting, events, verdict>>
      BY <3>1, Zenon
    <3> QED
      BY <1>1, <1>2, <3>3, <3>4, ControlIInv DEF world, TypeOK
  <2>2. CASE ~quitting
    BY <1>1, <1>6, <2>2, RaiseIInv DEF ReadEof
  <2> QED
    BY <2>1, <2>2
<1>7. CASE Timeout
  BY <1>1, <1>7, RaiseIInv DEF Timeout
<1>8. CASE QmpFails
  BY <1>1, <1>8, RaiseIInv DEF QmpFails
<1>9. CASE QmpGreeting
  <2>1. /\ at = "greeting" /\ at' = "capabilities" /\ events' = 0
        /\ UNCHANGED <<world, markers, serial, pending, quitting, verdict>>
    BY <1>9 DEF QmpGreeting
  <2>2. ShutdownInv'
    BY <1>2, <2>1 DEF ShutdownInv, world
  <2> QED
    BY <1>1, <1>2, <2>1, <2>2, ControlIInv DEF world, TypeOK
<1>10. CASE QmpEvent
  <2>1. /\ at \in {"capabilities", "quit"} /\ events' = events + 1
        /\ UNCHANGED <<world, markers, serial, pending, quitting>>
        /\ events < EventLimit
    BY <1>2, <1>10 DEF QmpEvent, ShutdownInv
  <2>2. events' \in 0..EventLimit
    BY <1>1, <2>1
  <2>3. CASE events' = EventLimit
    BY <1>10, <2>1, <2>2, <2>3, RaiseIInv DEF QmpEvent
  <2>4. CASE events' # EventLimit
    <3>1. UNCHANGED <<at, verdict>> /\ events' < EventLimit
      BY <1>10, <2>2, <2>4 DEF QmpEvent
    <3>2. ShutdownInv'
      BY <1>2, <2>1, <3>1 DEF ShutdownInv, world
    <3> QED
      BY <1>1, <1>2, <2>1, <2>2, <3>1, <3>2, ControlIInv DEF world, TypeOK
  <2> QED
    BY <2>3, <2>4
<1>11. CASE QmpAcknowledge
  <2>1. /\ at \in {"capabilities", "quit"} /\ at' \in {"quit", "select"} /\ events' = 0
        /\ UNCHANGED <<qemu, status, pipe, written, quit, expired, markers, serial, pending,
                       verdict>>
        /\ quitting' = quitting \/ (quit /\ quitting' = TRUE)
    BY <1>11 DEF QmpAcknowledge, world
  <2>2. ShutdownInv'
    BY <1>2, <2>1 DEF ShutdownInv
  <2>3. quit' \in BOOLEAN /\ quitting' \in BOOLEAN
    BY <1>1, <2>1, Zenon DEF TypeOK
  <2>4. /\ verdict = "none" /\ events' \in 0..EventLimit
        /\ \A i \in 1..Len(pending) : pending[i] # NL
    BY <1>2, <2>1
  <2> QED
    BY <2>1, <2>2, <2>3, <2>4, ControlIInv
<1>12. CASE Wait
  <2>1. /\ at = "wait" /\ qemu = "exited" /\ at' = "finally"
        /\ verdict' = IF status = 0 THEN "PASS" ELSE "FAIL"
        /\ UNCHANGED <<qemu, status, pipe, written, quit, expired, markers, serial, pending,
                       quitting, events>>
    BY <1>12 DEF Wait, world
  <2>2. TypeOK'
    BY <1>1, <2>1 DEF TypeOK
  <2>3. /\ Judged \in Nat /\ Len(written) \in Nat /\ Judged <= Len(written)
        /\ \A i \in (Judged + 1)..Len(written) : Lines(written)[i] = Other
    <3>1. /\ serial + Len(pipe) = Len(written) /\ Len(pipe) = 0 /\ Len(pending) <= serial
          /\ \A i \in 1..Len(pending) : pending[i] = written[Judged + i]
          /\ \A i \in 1..Len(pending) : pending[i] # NL
      <4>1. LinesInv /\ ShutdownInv /\ at # "parse"
        BY <1>2, <2>1
      <4> QED
        BY <2>1, <4>1, Zenon DEF LinesInv, ShutdownInv
    <3>2. /\ serial \in Nat /\ written \in Seq(Byte) /\ pending \in Seq(Byte)
          /\ Len(written) \in Nat /\ Len(pending) \in Nat
      BY <1>1, LenProperties DEF TypeOK
    <3>3. serial = Len(written)
      BY <3>1, <3>2
    <3>4. Judged \in Nat /\ Judged + Len(pending) = Len(written)
      BY <3>1, <3>2, <3>3 DEF Judged
    <3>5. ASSUME NEW i \in (Judged + 1)..Len(written)
          PROVE  Lines(written)[i] = Other
      <4>1. /\ i - Judged \in 1..Len(pending) /\ Judged + (i - Judged) = i
            /\ i \in 1..Len(written)
        BY <3>2, <3>4
      <4>2. written[i] # NL
        BY <3>1, <4>1
      <4> QED
        BY <4>1, <4>2 DEF Lines
    <3> QED
      BY <3>2, <3>4, <3>5
  <2>4. quit /\ markers = Markers /\ MarkersInv
    BY <1>2, <2>1 DEF ShutdownInv
  <2>5. /\ InOrder(Lines(written), Len(written))
        /\ Seen(Lines(written), Len(written)) = Markers
    <3>1. Markers = Seen(Lines(written), Judged) /\ InOrder(Lines(written), Judged)
      BY <2>4 DEF MarkersInv
    <3> QED
      BY <2>3, <3>1, SeenSkip
  <2>6. PassIsEarned'
    BY <2>1, <2>4, <2>5 DEF PassIsEarned
  <2> QED
    BY <2>1, <2>2, <2>6 DEF IInv, HarnessInv, NoOrphan
<1>13. CASE Finally
  <2>1. /\ at = "finally" /\ at' = "returned" /\ qemu' = "exited"
        /\ qemu = "exited" => status' = status
        /\ status' \in {0, 1, 137}
        /\ UNCHANGED <<pipe, written, quit, expired, markers, serial, pending, quitting,
                       events, verdict>>
    BY <1>1, <1>13 DEF Finally, TypeOK
  <2>2. TypeOK'
    BY <1>1, <2>1 DEF TypeOK
  <2> QED
    BY <2>1, <2>2 DEF IInv, HarnessInv, PassIsEarned, NoOrphan
<1> QED
  BY <1>3, <1>4, <1>5, <1>6, <1>7, <1>8, <1>9, <1>10, <1>11, <1>12, <1>13 DEF Harness

LEMMA Inductive == IInv /\ [Next]_vars => IInv'
<1> SUFFICES ASSUME IInv, [Next]_vars
             PROVE  IInv'
  OBVIOUS
<1>1. CASE \E byte \in Byte : Write(byte)
  BY <1>1, WriteIInv
<1>2. CASE Close \/ (\E code \in {0, 1} : Exit(code)) \/ Expire \/ AcceptQuit
  BY <1>2, WorldIInv
<1>3. CASE Harness
  BY <1>3, HarnessIInv
<1>4. CASE UNCHANGED vars
  <2>1. UNCHANGED <<qemu, status, pipe, written, quit, expired, at, markers, serial, pending,
                    quitting, events, verdict>>
    BY <1>4 DEF vars, world
  <2>2. Judged' = Judged
    BY <2>1 DEF Judged
  <2>3. TypeOK' = TypeOK /\ PassIsEarned' = PassIsEarned /\ NoOrphan' = NoOrphan
    BY <2>1 DEF TypeOK, PassIsEarned, NoOrphan
  <2>4. LinesInv' = LinesInv /\ MarkersInv' = MarkersInv /\ ShutdownInv' = ShutdownInv
    BY <2>1, <2>2 DEF LinesInv, MarkersInv, ShutdownInv
  <2> QED
    BY <2>1, <2>3, <2>4 DEF IInv, HarnessInv
<1> QED
  BY <1>1, <1>2, <1>3, <1>4 DEF Next

LEMMA Invariant == Spec => []IInv
BY InitIInv, Inductive, PTL DEF Spec

(* run in boot.py returns PASS only for a guest that wrote every marker     *)
(* once and in order, with no other result, and a QEMU that acknowledged    *)
(* the shutdown and ended with status 0; and it never leaves QEMU behind.   *)
(* Whatever the number of markers, the limits and the interleaving.         *)
THEOREM HarnessSafe == Spec => []HarnessInv
<1>1. IInv => HarnessInv
  BY DEF IInv
<1> QED
  BY <1>1, Invariant, PTL

-----------------------------------------------------------------------------
(* The serial loop of run raises only on a line out of order, too much      *)
(* output, an end of file or the deadline.                                  *)
LEMMA AlarmStep ==
    ASSUME IInv, [Next]_vars, verdict' = "FAIL", verdict = "none",
           at = "parse" \/ (at = "select" /\ ~expired),
           Len(written) <= OutputLimit
    PROVE  ~(InOrder(Lines(written), Len(written)) /\ qemu = "running")
<1>1. /\ TypeOK /\ LinesInv /\ MarkersInv
  BY DEF IInv, HarnessInv
<1>2. /\ pipe \in Seq(Byte) /\ written \in Seq(Byte)
      /\ Len(pipe) \in Nat /\ Len(written) \in Nat /\ serial \in Nat
  BY <1>1, LenProperties, HarnessAssumption DEF TypeOK
<1>3. ASSUME NEW k \in 1..PipeSize, ReadSerial(k)
      PROVE  FALSE
  <2>1. serial + k > OutputLimit /\ k \in 1..Len(pipe)
    BY <1>3 DEF ReadSerial
  <2>2. serial + Len(pipe) = Len(written)
    BY <1>1, Zenon DEF LinesInv
  <2> QED
    BY <1>2, <2>1, <2>2, HarnessAssumption
<1>4. CASE ParseLine
  <2>0. PICK n \in 1..Len(pending) :
          BreakAt(n) /\ Judge(Kind(SubSeq(pending, 1, n - 1)))
    BY <1>4 DEF ParseLine
  <2> DEFINE line == Kind(SubSeq(pending, 1, n - 1))
             L == Lines(written)
             m == Judged + n - 1
  <2>1. line # Other /\ ~Expected(line)
    BY <2>0 DEF Judge, Raise
  <2>2. /\ Judged \in Nat /\ n \in Nat /\ n >= 1 /\ Judged + n \in 1..Len(written)
        /\ \A i \in (Judged + 1)..m : L[i] = Other
        /\ L[Judged + n] = line
    BY <1>1, <2>0, NextLine
  <2> HIDE DEF line, L, m
  <2>3. m \in Nat /\ m + 1 = Judged + n /\ Judged <= m
    BY <2>2 DEF m
  <2>4. Seen(L, m) = markers
    BY <1>1, <2>2, <2>3, SeenSkip DEF MarkersInv, L
  <2>5. Seen(L, m + 1) = markers + 1
    BY <2>1, <2>2, <2>3, <2>4, SeenNext
  <2>6. ~InOrder(L, Len(written))
    BY <2>1, <2>2, <2>3, <2>5 DEF InOrder, Expected
  <2> QED
    BY <2>6 DEF L
<1>5. CASE ReadEof
  BY <1>5 DEF ReadEof
<1> QED
  BY <1>3, <1>4, <1>5
  DEF Next, Harness, vars, Write, Close, Exit, Expire, AcceptQuit, ParseEnd, Timeout, Wait, Finally,
      QmpGreeting, QmpEvent, QmpAcknowledge, QmpFails

(* While run reads the serial line, a guest that is alive and whose markers *)
(* are all in order is never failed, unless the deadline has passed or it   *)
(* wrote too much: wherever the reads cut its lines.                        *)
THEOREM NoFalseAlarms == Spec => NoFalseAlarm
<1>1. IInv /\ [Next]_vars =>
        [ /\ verdict' = "FAIL" /\ verdict = "none"
          /\ at = "parse" \/ (at = "select" /\ ~expired)
          /\ Len(written) <= OutputLimit
          => ~(InOrder(Lines(written), Len(written)) /\ qemu = "running") ]_vars
  BY AlarmStep
<1> QED
  BY <1>1, Invariant, PTL DEF Spec, NoFalseAlarm

=============================================================================
