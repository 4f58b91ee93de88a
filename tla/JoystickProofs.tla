--------------------------- MODULE JoystickProofs ---------------------------
(***************************************************************************)
(* Facts about joystick.c for every set of pads and every run.             *)
(***************************************************************************)
EXTENDS Joystick, FiniteSetTheorems, TLAPS

-----------------------------------------------------------------------------
(***************************************************************************)
(* The words that are read from the ports.                                 *)
(***************************************************************************)

\* jstk_scan returns a pad whose bit is low, the lowest of them, or -1.
LEMMA ScanFinds ==
  ASSUME NEW bits \in SUBSET Slider
  PROVE  /\ Scan(bits) \in Index
         /\ bits = Slider => Scan(bits) = -1
         /\ bits # Slider => /\ Scan(bits) \in Slider \ bits
                             /\ \A j \in Slider \ bits : Scan(bits) <= j
<1>1. CASE bits = Slider
  BY <1>1 DEF Scan, Index
<1>2. CASE bits # Slider
  <2> DEFINE low == Slider \ bits
  <2>1. \E i \in low : \A j \in low : i <= j
    <3>1. PICK k \in low : TRUE
      BY <1>2
    <3> QED BY <3>1 DEF Slider
  <2>2. Scan(bits) = CHOOSE i \in low : \A j \in low : i <= j
    BY <1>2 DEF Scan
  <2>3. Scan(bits) \in low /\ \A j \in low : Scan(bits) <= j
    BY <2>1, <2>2
  <2> QED BY <1>2, <2>3 DEF Index, Slider
<1> QED BY <1>1, <1>2

\* The ports of a slider whose pads do not change between the two reads make a
\* word with exactly the bits of the touched pads low.
LEMMA VertWord ==
  ASSUME NEW t \in SUBSET Slider
  PROVE  VertRaw(PortD(t), PortC(t)) = Slider \ t
BY DEF VertRaw, Word, PortC, PortD, Slider, Byte

\* The switch, in the same port, does not reach the word.
LEMMA HoriWord ==
  ASSUME NEW t \in SUBSET Slider, NEW n \in BOOLEAN
  PROVE  HoriRaw(PortB(t, n), PortE(t)) = Slider \ t
BY DEF HoriRaw, Word, PortB, PortE, Slider, Byte

\* What the program reads from pads that hold still is the lowest touched pad.
LEMMA ScanOfTouched ==
  ASSUME NEW t \in SUBSET Slider
  PROVE  Scan(Slider \ t) = Touched(t)
<1>1. CASE t = {}
  BY <1>1, ScanFinds DEF Touched
<1>2. CASE t # {}
  <2>1. Slider \ (Slider \ t) = t /\ Slider \ t # Slider
    BY <1>2
  <2>2. Scan(Slider \ t) \in t /\ \A j \in t : Scan(Slider \ t) <= j
    BY <2>1, ScanFinds
  <2>3. t \subseteq Int
    BY DEF Slider
  <2>4. \A i \in t : (\A j \in t : i <= j) => i = Scan(Slider \ t)
    <3> DEFINE k == Scan(Slider \ t)
    <3>1. k \in t /\ \A j \in t : k <= j
      BY <2>2
    <3> HIDE DEF k
    <3>2. \A i \in t : (\A j \in t : i <= j) => i = k
      BY <2>3, <3>1
    <3> QED BY <3>2 DEF k
  <2> QED BY <1>2, <2>2, <2>4 DEF Touched
<1> QED BY <1>1, <1>2

LEMMA SliderFinite == IsFiniteSet(Slider)
<1>1. 0 \in Int /\ 11 \in Int
  OBVIOUS
<1> QED BY <1>1, FS_Interval DEF Slider

\* When one pad changes between the two reads of a slider, the word is that of
\* the pads before the change or after it.
LEMMA VertTorn ==
  ASSUME NEW s \in SUBSET Slider, NEW t \in SUBSET Slider, OnePad(s, t)
  PROVE  Scan(VertRaw(PortD(t), PortC(s))) \in {Touched(s), Touched(t)}
<1> DEFINE D == (s \ t) \cup (t \ s)
<1>1. PICK q : D = {q}
  <2>1. IsFiniteSet(D)
    BY SliderFinite, FS_Subset
  <2> QED BY <2>1, FS_Singleton DEF OnePad
<1>2. CASE q \in 0..5
  <2>1. PortD(t) = PortD(s)
    BY <1>1, <1>2 DEF PortD, Slider
  <2> QED BY <2>1, VertWord, ScanOfTouched
<1>3. CASE q \in 6..11
  <2>1. PortC(s) = PortC(t)
    BY <1>1, <1>3 DEF PortC, Slider, Byte
  <2> QED BY <2>1, VertWord, ScanOfTouched
<1>4. q \in Slider
  BY <1>1
<1> QED BY <1>2, <1>3, <1>4 DEF Slider

LEMMA HoriTorn ==
  ASSUME NEW s \in SUBSET Slider, NEW t \in SUBSET Slider, OnePad(s, t), NEW n \in BOOLEAN
  PROVE  Scan(HoriRaw(PortB(t, n), PortE(s))) \in {Touched(s), Touched(t)}
<1> DEFINE D == (s \ t) \cup (t \ s)
<1>1. PICK q : D = {q}
  <2>1. IsFiniteSet(D)
    BY SliderFinite, FS_Subset
  <2> QED BY <2>1, FS_Singleton DEF OnePad
<1>2. CASE q \in 0..7
  <2>1. PortB(t, n) = PortB(s, n)
    BY <1>1, <1>2 DEF PortB, Slider
  <2> QED BY <2>1, HoriWord, ScanOfTouched
<1>3. CASE q \in 8..11
  <2>1. PortE(s) = PortE(t)
    BY <1>1, <1>3 DEF PortE, Slider, Byte
  <2> QED BY <2>1, HoriWord, ScanOfTouched
<1>4. q \in Slider
  BY <1>1
<1> QED BY <1>2, <1>3, <1>4 DEF Slider

-----------------------------------------------------------------------------
(***************************************************************************)
(* The tables.                                                             *)
(***************************************************************************)

\* Further along the slider is further along the axis, and no pad is reported
\* as the centre: the host can tell a released slider from every touched one.
THEOREM AxisFollowsSlider ==
  /\ \A i, j \in Slider : i < j => IdxToAxis(i) < IdxToAxis(j)
  /\ \A i \in Index : IdxToAxis(i) = Center <=> i = -1
BY DEF IdxToAxis, Axis, Slider, Index, Center

\* The bars of the two directions mirror each other.
THEOREM BarsMirrored ==
  \A i \in Slider : LedMask(11 - i) = {7 - b : b \in LedMask(i)}
<1>1. /\ LedMask(0) = {0, 1, 2, 3} /\ LedMask(1) = {0, 1, 2, 3} /\ LedMask(2) = {0, 1, 2, 3}
      /\ LedMask(3) = {1, 2, 3}
      /\ LedMask(4) = {2, 3} /\ LedMask(5) = {3, 4}
  BY DEF LedMask
<1>2. /\ LedMask(6) = {3, 4} /\ LedMask(7) = {4, 5} /\ LedMask(8) = {4, 5, 6}
      /\ LedMask(9) = {4, 5, 6, 7} /\ LedMask(10) = {4, 5, 6, 7} /\ LedMask(11) = {4, 5, 6, 7}
  BY DEF LedMask
<1>3. \A i \in Slider : \/ i = 0 \/ i = 1 \/ i = 2 \/ i = 3 \/ i = 4 \/ i = 5
                        \/ i = 6 \/ i = 7 \/ i = 8 \/ i = 9 \/ i = 10 \/ i = 11
  BY DEF Slider
<1>4. \A i \in {0, 1, 2, 3, 4, 5} : LedMask(11 - i) = {7 - b : b \in LedMask(i)}
  BY <1>1, <1>2
<1>5. \A i \in {6, 7, 8, 9, 10, 11} : LedMask(11 - i) = {7 - b : b \in LedMask(i)}
  BY <1>1, <1>2
<1> QED BY <1>3, <1>4, <1>5

-----------------------------------------------------------------------------
(***************************************************************************)
(* Type correctness.                                                       *)
(***************************************************************************)

\* The values that a run computes.
LEMMA IdxToAxisType == \A i \in Index : IdxToAxis(i) \in AxisValue
BY DEF IdxToAxis, Axis, Index, Center, AxisValue

LEMMA LedMaskType == \A i \in Index : LedMask(i) \in SUBSET Byte
BY DEF LedMask, Index, Byte

LEMMA ReadMaskIsBar ==
  \A vi, hi \in Index : \E i \in Index : ReadMask(vi, hi) = LedMask(i)
<1>1. -1 \in Index /\ LedMask(-1) = {}
  BY DEF Index, LedMask
<1> QED BY <1>1 DEF ReadMask

LEMMA SampleType ==
  /\ \A h, l \in SUBSET Byte : Scan(VertRaw(h, l)) \in Index /\ Scan(HoriRaw(h, l)) \in Index
  /\ \A v \in SUBSET Slider, n \in BOOLEAN :
       /\ PortC(v) \in SUBSET Byte /\ PortD(v) \in SUBSET Byte
       /\ PortE(v) \in SUBSET Byte /\ PortB(v, n) \in SUBSET Byte
<1>1. \A h, l \in SUBSET Byte : VertRaw(h, l) \in SUBSET Slider /\ HoriRaw(h, l) \in SUBSET Slider
  BY DEF VertRaw, HoriRaw
<1>2. \A h, l \in SUBSET Byte : Scan(VertRaw(h, l)) \in Index /\ Scan(HoriRaw(h, l)) \in Index
  BY <1>1, ScanFinds
<1> QED BY <1>2 DEF PortB, PortC, PortD, PortE

LEMMA FreshType == \A at \in At : Fresh(at) \in RunType
<1>1. -1 \in Index /\ Center \in AxisValue
  BY DEF Index, Center, AxisValue
<1>2. [x |-> Center, y |-> Center] \in Report
  BY <1>1 DEF Report
<1> QED BY <1>1, <1>2 DEF Fresh, RunType

\* The pads of a slider are among the 12.
LEMMA PadsType ==
  ASSUME TypeOK
  PROVE  pads.vert \in SUBSET Slider /\ pads.hori \in SUBSET Slider
BY TouchesAssumption DEF TypeOK, Pads

LEMMA InitTypeOK == Init => TypeOK
<1> SUFFICES ASSUME Init PROVE TypeOK
  OBVIOUS
<1>1. pads \in Pads
  BY TouchesAssumption DEF Init, Pads
<1>2. run \in RunType
  BY FreshType DEF Init, At
<1>3. prevReport \in Report
  <2>1. Center \in AxisValue
    BY DEF Center, AxisValue
  <2> QED BY <2>1 DEF Init, Report
<1> QED BY <1>1, <1>2, <1>3 DEF Init, TypeOK

\* A step of the run: what it leaves alone, and the type of what it writes.
LEMMA RunTypeKept ==
  ASSUME TypeOK, Run
  PROVE  TypeOK'
<1> USE DEF TypeOK
<1>0. /\ PortC(pads.vert) \in SUBSET Byte /\ PortD(pads.vert) \in SUBSET Byte
      /\ PortE(pads.hori) \in SUBSET Byte /\ PortB(pads.hori, normal) \in SUBSET Byte
      /\ run.port \in SUBSET Byte /\ {} \in SUBSET Byte
  BY PadsType, SampleType DEF RunType
<1>1. CASE Start
  BY <1>1, FreshType DEF Start, At
<1>2. CASE MaskReadC
  BY <1>0, <1>2 DEF MaskReadC, ReadFirst, RunType, At
<1>3. CASE MaskReadD
  <2>1. Scan(VertRaw(PortD(pads.vert), run.port)) \in Index
    BY <1>0, SampleType
  <2> QED BY <1>0, <1>3, <2>1 DEF MaskReadD, RunType, At
<1>4. CASE MaskReadE
  BY <1>0, <1>4 DEF MaskReadE, ReadFirst, RunType, At
<1>5. CASE MaskReadB
  <2> DEFINE hi == Scan(HoriRaw(PortB(pads.hori, normal), run.port))
  <2>1. hi \in Index
    BY <1>0, SampleType
  <2>2. ReadMask(run.vi, hi) \in SUBSET Byte
    BY <2>1, ReadMaskIsBar, LedMaskType DEF RunType
  <2>3. /\ run' = [run EXCEPT !.at = "switch", !.port = {}, !.hi = hi,
                              !.mask = ReadMask(run.vi, hi)]
        /\ UNCHANGED <<pads, normal, lit, prevReport, held>>
    BY <1>5 DEF MaskReadB
  <2> HIDE DEF hi
  <2> QED BY <1>0, <2>1, <2>2, <2>3 DEF RunType, At
<1>6. CASE ReadSwitch
  <2>1. [Fresh("show") EXCEPT !.mask = run.mask] \in RunType
    BY FreshType DEF At, RunType
  <2>2. Fresh("dark") \in RunType /\ Fresh("idle") \in RunType
    BY FreshType DEF At
  <2> QED BY <1>6, <2>1, <2>2 DEF ReadSwitch
<1>7. CASE Show
  BY <1>7, FreshType DEF Show, Shown, RunType, At
<1>8. CASE Dark
  <2>1. Fresh("idle") \in RunType /\ "xE" \in At
    BY FreshType DEF At
  <2> QED BY <1>8, <2>1 DEF Dark, AllOff, RunType
<1>9. CASE ReportReadE
  BY <1>0, <1>9 DEF ReportReadE, ReadFirst, RunType, At
<1>10. CASE ReportReadB
  <2>1. IdxToAxis(Scan(HoriRaw(PortB(pads.hori, normal), run.port))) \in AxisValue
    BY <1>0, SampleType, IdxToAxisType
  <2> QED BY <1>0, <1>10, <2>1 DEF ReportReadB, RunType, Report, At
<1>11. CASE ReportReadC
  BY <1>0, <1>11 DEF ReportReadC, ReadFirst, RunType, At
<1>12. CASE ReportReadD
  <2>1. IdxToAxis(Scan(VertRaw(PortD(pads.vert), run.port))) \in AxisValue
    BY <1>0, SampleType, IdxToAxisType
  <2> QED BY <1>0, <1>12, <2>1 DEF ReportReadD, RunType, Report, At
<1>13. CASE \E ready \in BOOLEAN : Send(ready)
  <2>1. Fresh("idle") \in RunType
    BY FreshType DEF At
  <2> QED BY <1>13, <2>1 DEF Send, RunType
<1> QED BY <1>1, <1>2, <1>3, <1>4, <1>5, <1>6, <1>7, <1>8, <1>9, <1>10, <1>11, <1>12,
           <1>13 DEF Run

LEMMA NextTypeOK == TypeOK /\ [Next]_vars => TypeOK'
<1> SUFFICES ASSUME TypeOK, [Next]_vars PROVE TypeOK'
  OBVIOUS
<1>1. CASE Run
  BY <1>1, RunTypeKept
<1>2. CASE Move
  <2>1. PICK side \in {"vert", "hori"}, t \in Touches : pads' = [pads EXCEPT ![side] = t]
    BY <1>2 DEF Move
  <2>2. pads' \in Pads
    BY <2>1 DEF TypeOK, Pads
  <2> QED BY <1>2, <2>2 DEF Move, TypeOK
<1>3. CASE FlipSwitch
  BY <1>3 DEF FlipSwitch, TypeOK
<1>4. CASE UNCHANGED vars
  BY <1>4 DEF vars, TypeOK
<1> QED BY <1>1, <1>2, <1>3, <1>4 DEF Next

\* Every state is well typed: among other things, no LED beyond the 8 is ever
\* set and no axis value beyond a byte, whatever is touched.
THEOREM TypeCorrect == Spec => []TypeOK
BY InitTypeOK, NextTypeOK, PTL DEF Spec

-----------------------------------------------------------------------------
(***************************************************************************)
(* The LEDs.                                                               *)
(***************************************************************************)
Bars == {LedMask(i) : i \in Index}

\* What is shown, or about to be shown, is one bar.
LedInv == lit \in Bars /\ run.mask \in Bars

LEMMA EmptyBar == {} \in Bars
<1>1. -1 \in Index /\ LedMask(-1) = {}
  BY DEF Index, LedMask
<1> QED BY <1>1 DEF Bars

LEMMA NextLedInv == TypeOK /\ LedInv /\ [Next]_vars => LedInv'
<1> SUFFICES ASSUME TypeOK, LedInv, [Next]_vars PROVE LedInv'
  OBVIOUS
<1> USE DEF LedInv
<1>0. \A at : Fresh(at).mask = {} /\ Fresh(at).at = at
  BY DEF Fresh
<1>1. CASE Start
  BY <1>0, <1>1, EmptyBar DEF Start
<1>2. CASE MaskReadC \/ MaskReadD \/ MaskReadE
  BY <1>2 DEF MaskReadC, MaskReadD, MaskReadE, ReadFirst, TypeOK, RunType
<1>3. CASE MaskReadB
  <2> DEFINE hi == Scan(HoriRaw(PortB(pads.hori, normal), run.port))
  <2>1. hi \in Index /\ run.vi \in Index
    <3>1. run.port \in SUBSET Byte /\ PortB(pads.hori, normal) \in SUBSET Byte
      BY PadsType, SampleType DEF TypeOK, RunType
    <3> QED BY <3>1, SampleType DEF TypeOK, RunType
  <2>2. ReadMask(run.vi, hi) \in Bars
    BY <2>1, ReadMaskIsBar DEF Bars
  <2>3. /\ run' = [run EXCEPT !.at = "switch", !.port = {}, !.hi = hi,
                              !.mask = ReadMask(run.vi, hi)]
        /\ lit' = lit
    BY <1>3 DEF MaskReadB
  <2> HIDE DEF hi
  <2> QED BY <2>2, <2>3 DEF TypeOK, RunType
<1>4. CASE ReadSwitch
  <2>1. run' = Fresh("dark") \/ run' = Fresh("idle")
          \/ run' = [Fresh("show") EXCEPT !.mask = run.mask]
    BY <1>4 DEF ReadSwitch
  <2>2. [Fresh("show") EXCEPT !.mask = run.mask].at = "show"
        /\ [Fresh("show") EXCEPT !.mask = run.mask].mask = run.mask
    BY DEF Fresh
  <2>3. lit' = lit
    BY <1>4 DEF ReadSwitch
  <2> QED BY <1>0, <2>1, <2>2, <2>3, EmptyBar, ZenonT(30)
<1>5. CASE Show
  BY <1>0, <1>5, EmptyBar DEF Show, Shown
<1>6. CASE Dark
  <2>1. run'.mask = run.mask \/ run'.mask = {}
    BY <1>0, <1>6 DEF Dark, TypeOK, RunType
  <2> QED BY <1>6, <2>1, EmptyBar DEF Dark, AllOff
<1>7. CASE ReportReadE \/ ReportReadB \/ ReportReadC \/ ReportReadD
  BY <1>7 DEF ReportReadE, ReportReadB, ReportReadC, ReportReadD, ReadFirst, TypeOK, RunType
<1>8. CASE \E ready \in BOOLEAN : Send(ready)
  BY <1>0, <1>8, EmptyBar DEF Send
<1>9. CASE Move \/ FlipSwitch \/ UNCHANGED vars
  BY <1>9 DEF Move, FlipSwitch, vars
<1> QED BY <1>1, <1>2, <1>3, <1>4, <1>5, <1>6, <1>7, <1>8, <1>9 DEF Next, Run

LEMMA InitLedInv == Init => LedInv
BY EmptyBar DEF Init, Fresh, LedInv

\* At every moment, not only between runs, the LEDs show one bar or nothing.
THEOREM OneBar == Spec => []OneBarAtATime
<1>1. LedInv => OneBarAtATime
  BY DEF LedInv, Bars, OneBarAtATime
<1> QED BY <1>1, InitTypeOK, NextTypeOK, InitLedInv, NextLedInv, PTL DEF Spec

-----------------------------------------------------------------------------
(***************************************************************************)
(* A report, and a bar, is that of a position that was held.               *)
(***************************************************************************)

\* Two states of the pads during one run differ in one pad of one slider.
Near(s, t) == \/ s.vert = t.vert /\ (s.hori = t.hori \/ OnePad(s.hori, t.hori))
              \/ s.hori = t.hori /\ OnePad(s.vert, t.vert)

\* What the run has read so far was so in some state that the pads have had.
HeldInv ==
  /\ held \in SUBSET Pads /\ IsFiniteSet(held) /\ pads \in held
  /\ \A s, t \in held : Near(s, t)
  /\ run.at \in {"D", "yD"} => \E s \in held : run.port = PortC(s.vert)
  /\ run.at \in {"B", "xB"} => \E s \in held : run.port = PortE(s.hori)
  /\ run.at \in {"E", "B"} => \E s \in held : run.vi = Touched(s.vert)
  /\ run.at \in {"switch", "show"} => \E s \in held : run.mask = Bar(s)
  /\ run.at \in {"yC", "yD", "send"} => \E s \in held : run.report.x = XOf(s)
  /\ run.at = "send" => \E s \in held : run.report.y = YOf(s)

LEMMA OnePadSymmetric == \A s, t : OnePad(s, t) => OnePad(t, s)
<1>1. \A s, t : (s \ t) \cup (t \ s) = (t \ s) \cup (s \ t)
  OBVIOUS
<1> QED BY <1>1 DEF OnePad

LEMMA NearSymmetric == \A s, t : Near(s, s) /\ (Near(s, t) => Near(t, s))
BY OnePadSymmetric DEF Near

\* A coordinate taken from one state and one from another, of the same run, are
\* the coordinates of one of the two.
LEMMA NearPosition ==
  ASSUME NEW s, NEW t, Near(s, t)
  PROVE  [x |-> XOf(s), y |-> YOf(t)] \in {Position(s), Position(t)}
<1>1. s.vert = t.vert \/ s.hori = t.hori
  BY DEF Near
<1>2. YOf(t) = YOf(s) \/ XOf(s) = XOf(t)
  BY <1>1 DEF XOf, YOf
<1> QED BY <1>2 DEF Position

LEMMA NearBar ==
  ASSUME NEW s, NEW t, Near(s, t)
  PROVE  ReadMask(Touched(s.vert), Touched(t.hori)) \in {Bar(s), Bar(t)}
<1>1. s.vert = t.vert \/ s.hori = t.hori
  BY DEF Near
<1> QED BY <1>1 DEF Bar

\* While the pads are unchanged so far, a change makes the second state, and
\* there is no third.
LEMMA MoveHeldInv ==
  ASSUME TypeOK, HeldInv, MaxChanges \in 0..1, Move
  PROVE  HeldInv'
<1> USE DEF HeldInv
<1>1. PICK side \in {"vert", "hori"}, t \in Touches :
        OnePad(pads[side], t) /\ pads' = [pads EXCEPT ![side] = t]
  BY DEF Move
<1>2. pads' \in Pads /\ Near(pads, pads')
  BY <1>1 DEF TypeOK, Pads, Near
<1>3. run' = run
  BY DEF Move
<1>4. CASE run.at = "idle"
  <2>1. held' = {pads'}
    BY <1>4 DEF Move
  <2>2. IsFiniteSet({pads'})
    BY FS_Singleton
  <2> QED BY <1>2, <1>3, <1>4, <2>1, <2>2, NearSymmetric
<1>5. CASE run.at # "idle"
  <2>1. held' = held \cup {pads'} /\ Cardinality(held) <= MaxChanges
    BY <1>5 DEF Move
  <2>2. held = {pads}
    <3>1. Cardinality(held) \in Nat
      BY FS_CardinalityType
    <3>2. Cardinality(held) # 0
      BY FS_EmptySet
    <3>3. Cardinality(held) = 1
      BY <2>1, <3>1, <3>2
    <3> QED BY <3>3, FS_Singleton
  <2>3. IsFiniteSet(held')
    BY <2>1, FS_AddElement
  <2>4. held' = {pads, pads'}
    BY <2>1, <2>2
  <2>5. \A s, u \in held' : Near(s, u)
    BY <1>2, <2>4, NearSymmetric
  <2>6. held \subseteq held'
    BY <2>1
  <2> QED BY <1>2, <1>3, <2>1, <2>3, <2>5, <2>6
<1> QED BY <1>4, <1>5

\* The pads of a state in held.
LEMMA HeldPads ==
  ASSUME HeldInv, NEW s \in held
  PROVE  s.vert \in SUBSET Slider /\ s.hori \in SUBSET Slider
BY TouchesAssumption DEF HeldInv, Pads

\* The second read of a slider completes what the first one began.
LEMMA SecondReadHeld ==
  ASSUME TypeOK, HeldInv
  PROVE  /\ run.at \in {"B", "xB"} =>
              \E s \in held : Scan(HoriRaw(PortB(pads.hori, normal), run.port)) = Touched(s.hori)
         /\ run.at \in {"D", "yD"} =>
              \E s \in held : Scan(VertRaw(PortD(pads.vert), run.port)) = Touched(s.vert)
<1>1. ASSUME run.at \in {"B", "xB"}
      PROVE  \E s \in held : Scan(HoriRaw(PortB(pads.hori, normal), run.port)) = Touched(s.hori)
  <2>1. PICK s \in held : run.port = PortE(s.hori)
    BY <1>1 DEF HeldInv
  <2>2. pads \in held /\ Near(s, pads) /\ normal \in BOOLEAN
    BY DEF HeldInv, TypeOK
  <2>3. Scan(HoriRaw(PortB(pads.hori, normal), run.port)) \in {Touched(s.hori), Touched(pads.hori)}
    <3>1. CASE s.hori = pads.hori
      BY <2>1, <2>2, <3>1, HeldPads, HoriWord, ScanOfTouched
    <3>2. CASE s.hori # pads.hori
      <4>1. OnePad(s.hori, pads.hori)
        BY <2>2, <3>2 DEF Near
      <4> QED BY <2>1, <2>2, <4>1, HeldPads, HoriTorn
    <3> QED BY <3>1, <3>2
  <2> QED BY <2>2, <2>3
<1>2. ASSUME run.at \in {"D", "yD"}
      PROVE  \E s \in held : Scan(VertRaw(PortD(pads.vert), run.port)) = Touched(s.vert)
  <2>1. PICK s \in held : run.port = PortC(s.vert)
    BY <1>2 DEF HeldInv
  <2>2. pads \in held /\ Near(s, pads)
    BY DEF HeldInv
  <2>3. Scan(VertRaw(PortD(pads.vert), run.port)) \in {Touched(s.vert), Touched(pads.vert)}
    <3>1. CASE s.vert = pads.vert
      BY <2>1, <2>2, <3>1, HeldPads, VertWord, ScanOfTouched
    <3>2. CASE s.vert # pads.vert
      <4>1. OnePad(s.vert, pads.vert)
        BY <2>2, <3>2 DEF Near
      <4> QED BY <2>1, <2>2, <4>1, HeldPads, VertTorn
    <3> QED BY <3>1, <3>2
  <2> QED BY <2>2, <2>3
<1> QED BY <1>1, <1>2

\* The reads for the LEDs.
LEMMA MaskHeldInv ==
  ASSUME TypeOK, HeldInv, MaskReadC \/ MaskReadD \/ MaskReadE \/ MaskReadB
  PROVE  HeldInv'
<1>1. CASE MaskReadC
  <2>1. run'.at = "D" /\ run'.port = PortC(pads.vert) /\ held' = held /\ pads' = pads
    BY <1>1 DEF MaskReadC, ReadFirst, TypeOK, RunType
  <2> QED BY <2>1 DEF HeldInv
<1>2. CASE MaskReadD
  <2>1. PICK s \in held : Scan(VertRaw(PortD(pads.vert), run.port)) = Touched(s.vert)
    BY <1>2, SecondReadHeld DEF MaskReadD
  <2>2. run'.at = "E" /\ run'.vi = Touched(s.vert) /\ held' = held /\ pads' = pads
    BY <1>2, <2>1 DEF MaskReadD, TypeOK, RunType
  <2> QED BY <2>2 DEF HeldInv
<1>3. CASE MaskReadE
  <2>1. /\ run.at = "E" /\ run'.at = "B" /\ run'.port = PortE(pads.hori)
        /\ run'.vi = run.vi /\ held' = held /\ pads' = pads
    BY <1>3 DEF MaskReadE, ReadFirst, TypeOK, RunType
  <2> QED BY <2>1 DEF HeldInv
<1>4. CASE MaskReadB
  <2> DEFINE hi == Scan(HoriRaw(PortB(pads.hori, normal), run.port))
  <2>1. PICK t \in held : hi = Touched(t.hori)
    BY <1>4, SecondReadHeld DEF MaskReadB
  <2>2. PICK s \in held : run.vi = Touched(s.vert)
    BY <1>4 DEF HeldInv, MaskReadB
  <2>3. /\ run' = [run EXCEPT !.at = "switch", !.port = {}, !.hi = hi,
                              !.mask = ReadMask(run.vi, hi)]
        /\ held' = held /\ pads' = pads
    BY <1>4 DEF MaskReadB
  <2> HIDE DEF hi
  <2>4. run'.at = "switch" /\ run'.mask = ReadMask(Touched(s.vert), Touched(t.hori))
    BY <2>1, <2>2, <2>3 DEF TypeOK, RunType
  <2>5. Near(s, t)
    BY DEF HeldInv
  <2>6. \E u \in held : run'.mask = Bar(u)
    BY <2>4, <2>5, NearBar
  <2> QED BY <2>3, <2>4, <2>6 DEF HeldInv
<1> QED BY <1>1, <1>2, <1>3, <1>4

LEMMA RunHeldInv ==
  ASSUME TypeOK, HeldInv, Run
  PROVE  HeldInv'
<1>0. \A at : Fresh(at).at = at
  BY DEF Fresh
<1>1. CASE Start
  <2>1. IsFiniteSet({pads}) /\ pads \in Pads
    BY FS_Singleton DEF TypeOK
  <2>2. held' = {pads} /\ pads' = pads /\ run'.at = "C"
    BY <1>0, <1>1 DEF Start
  <2> QED BY <2>1, <2>2, NearSymmetric DEF HeldInv
<1>2. ASSUME held' = held, pads' = pads,
             run'.at \in At \ {"D", "E", "B", "switch", "show", "xB", "yC", "yD", "send"}
      PROVE  HeldInv'
  BY <1>2 DEF HeldInv
<1>3. CASE MaskReadC \/ MaskReadD \/ MaskReadE \/ MaskReadB
  BY <1>3, MaskHeldInv
<1>4. CASE ReadSwitch
  <2>1. \/ run'.at \in {"dark", "idle"}
        \/ run'.at = "show" /\ run'.mask = run.mask
    <3>1. [Fresh("show") EXCEPT !.mask = run.mask].at = "show"
          /\ [Fresh("show") EXCEPT !.mask = run.mask].mask = run.mask
      BY DEF Fresh
    <3> QED BY <1>0, <1>4, <3>1 DEF ReadSwitch
  <2>2. run.at = "switch" /\ held' = held /\ pads' = pads
    BY <1>4 DEF ReadSwitch
  <2>3. CASE run'.at \in {"dark", "idle"}
    BY <1>2, <2>2, <2>3 DEF At
  <2>4. CASE run'.at = "show" /\ run'.mask = run.mask
    BY <2>2, <2>4 DEF HeldInv
  <2> QED BY <2>1, <2>3, <2>4
<1>10. CASE Dark
  BY <1>2, <1>10 DEF Dark, At, TypeOK, RunType
<1>5. CASE Show \/ \E ready \in BOOLEAN : Send(ready)
  BY <1>0, <1>2, <1>5 DEF Show, Send, At
<1>6. CASE ReportReadE
  <2>1. run'.at = "xB" /\ run'.port = PortE(pads.hori) /\ held' = held /\ pads' = pads
    BY <1>6 DEF ReportReadE, ReadFirst, TypeOK, RunType
  <2> QED BY <2>1 DEF HeldInv
<1>7. CASE ReportReadB
  <2>1. PICK s \in held : IdxToAxis(Scan(HoriRaw(PortB(pads.hori, normal), run.port))) = XOf(s)
    BY <1>7, SecondReadHeld DEF ReportReadB, XOf
  <2>2. run'.at = "yC" /\ run'.report.x = XOf(s) /\ held' = held /\ pads' = pads
    BY <1>7, <2>1 DEF ReportReadB, TypeOK, RunType, Report
  <2> QED BY <2>2 DEF HeldInv
<1>8. CASE ReportReadC
  <2>1. /\ run.at = "yC" /\ run'.at = "yD" /\ run'.port = PortC(pads.vert)
        /\ run'.report = run.report /\ held' = held /\ pads' = pads
    BY <1>8 DEF ReportReadC, ReadFirst, TypeOK, RunType
  <2> QED BY <2>1 DEF HeldInv
<1>9. CASE ReportReadD
  <2>1. PICK s \in held : IdxToAxis(Scan(VertRaw(PortD(pads.vert), run.port))) = YOf(s)
    BY <1>9, SecondReadHeld DEF ReportReadD, YOf
  <2>2. /\ run.at = "yD" /\ run'.at = "send" /\ run'.report.y = YOf(s)
        /\ run'.report.x = run.report.x /\ held' = held /\ pads' = pads
    BY <1>9, <2>1 DEF ReportReadD, TypeOK, RunType, Report
  <2> QED BY <2>2 DEF HeldInv
<1> QED BY <1>1, <1>3, <1>4, <1>5, <1>6, <1>7, <1>8, <1>9, <1>10 DEF Run

LEMMA InitHeldInv == Init => HeldInv
<1> SUFFICES ASSUME Init PROVE HeldInv
  OBVIOUS
<1>1. TypeOK
  BY InitTypeOK
<1>2. held = {pads} /\ run.at = "idle" /\ IsFiniteSet({pads})
  BY FS_Singleton DEF Init, Fresh
<1> QED BY <1>1, <1>2, NearSymmetric DEF HeldInv, TypeOK

LEMMA SendHeld ==
  ASSUME TypeOK, HeldInv, Run, prevReport' # prevReport
  PROVE  \E s \in held : prevReport' = Position(s)
<1>1. PICK ready \in BOOLEAN : Send(ready)
  BY DEF Run, Start, MaskReadC, MaskReadD, MaskReadE, MaskReadB, ReadSwitch, Show, Dark,
         ReportReadE, ReportReadB, ReportReadC, ReportReadD, ReadFirst
<1>2. run.at = "send" /\ prevReport' = run.report
  BY <1>1 DEF Send
<1>3. PICK s \in held, t \in held : run.report.x = XOf(s) /\ run.report.y = YOf(t)
  BY <1>2 DEF HeldInv
<1>4. run.report = [x |-> XOf(s), y |-> YOf(t)]
  BY <1>3 DEF TypeOK, RunType, Report
<1>5. Near(s, t)
  BY DEF HeldInv
<1> QED BY <1>2, <1>4, <1>5, NearPosition

LEMMA NextHeldInv ==
  ASSUME MaxChanges \in 0..1
  PROVE  TypeOK /\ HeldInv /\ [Next]_vars => HeldInv'
<1> SUFFICES ASSUME TypeOK, HeldInv, [Next]_vars PROVE HeldInv'
  OBVIOUS
<1>1. CASE FlipSwitch \/ UNCHANGED vars
  BY <1>1 DEF FlipSwitch, vars, HeldInv
<1> QED BY <1>1, RunHeldInv, MoveHeldInv DEF Next

\* For every set of touches: if at most one pad changes during a run, each
\* report that is sent is a position the sliders had at one moment of that run.
THEOREM ReportIsPosition ==
  ASSUME MaxChanges \in 0..1
  PROVE  Spec => ReportWasHeld
<1>1. TypeOK /\ HeldInv /\ [Next]_vars
        => [prevReport' # prevReport => \E s \in held : prevReport' = Position(s)]_vars
  <2> SUFFICES ASSUME TypeOK, HeldInv, [Next]_vars, prevReport' # prevReport
               PROVE  \E s \in held : prevReport' = Position(s)
    OBVIOUS
  <2>1. Run
    BY DEF Next, Move, FlipSwitch, vars
  <2> QED BY <2>1, SendHeld
<1> QED BY <1>1, NextHeldInv, InitTypeOK, NextTypeOK, InitHeldInv, PTL DEF Spec, ReportWasHeld

\* For every set of touches: if at most one pad changes during a run, the LEDs
\* are never changed to a bar of a place where no finger was, though the two
\* sliders are read from four ports one after the other.
THEOREM BarIsOfPosition ==
  ASSUME MaxChanges \in 0..1
  PROVE  Spec => BarWasHeld
<1>1. TypeOK /\ HeldInv /\ [Next]_vars
        => [lit' # lit => lit' = {} \/ \E s \in held : lit' = Bar(s)]_vars
  <2> SUFFICES ASSUME HeldInv, [Next]_vars, lit' # lit
               PROVE  lit' = {} \/ \E s \in held : lit' = Bar(s)
    OBVIOUS
  <2>1. Show \/ Dark
    BY DEF Next, Run, Start, MaskReadC, MaskReadD, MaskReadE, MaskReadB, ReadSwitch,
           ReportReadE, ReportReadB, ReportReadC, ReportReadD, ReadFirst, Send, Move,
           FlipSwitch, vars
  <2>2. CASE Show
    BY <2>2 DEF Show, Shown, HeldInv
  <2>3. CASE Dark
    BY <2>3 DEF Dark, AllOff
  <2> QED BY <2>1, <2>2, <2>3
<1> QED BY <1>1, NextHeldInv, InitTypeOK, NextTypeOK, InitHeldInv, PTL DEF Spec, BarWasHeld
=============================================================================
