------------------------------ MODULE Joystick ------------------------------
(***************************************************************************)
(* joystick.c and led.c on the ports of the board: two sliders of 12       *)
(* touch pads, the switch for test mode, 8 LEDs, and the report that       *)
(* jstk_usbTask offers to the HID interface.                               *)
(*                                                                         *)
(* One run of joystick() is a sequence of steps, because the pads change   *)
(* whatever the program does, and each port is read by an instruction of   *)
(* its own.  A finger takes milliseconds to move and a run microseconds:   *)
(* at most MaxChanges changes of the pads fall into one run.               *)
(***************************************************************************)
EXTENDS Integers, FiniteSets

CONSTANTS Touches,     \* the sets of pads that can be touched on a slider
          MaxChanges   \* how often the pads change during one run

Slider == 0..11        \* SLIDER_COUNT pads
Index == -1..11
Byte == 0..7           \* the bits of a port
Center == 128

ASSUME TouchesAssumption == Touches \subseteq SUBSET Slider /\ {} \in Touches
ASSUME MaxChangesAssumption == MaxChanges \in Nat

-----------------------------------------------------------------------------
(***************************************************************************)
(* Reading a slider.  io_init gives every pad a pull-up: its pin is low    *)
(* while it is touched.  A word is the set of its bits that are high.      *)
(***************************************************************************)
PortC(vert) == Byte \ {p + 2 : p \in vert}
PortD(vert) == Byte \ {p - 6 : p \in vert \ 0..5}
PortE(hori) == Byte \ hori
\* The switch for test mode is pin 4 of the same port.
PortB(hori, normal) == Byte \ ({p - 8 : p \in hori \ 0..7} \cup (IF normal THEN {} ELSE {4}))

Word(high, low) == low \cup {b + 8 : b \in high}

\* Mutant: C0 and C1 are not discarded.
VertRawUnshifted(d, c) == Word(d, c) \cap Slider

VertRaw(d, c) == {b - 2 : b \in Word(d, c)} \cap Slider

\* Mutant: the two ports are put together the wrong way round.
HoriRawSwapped(b, e) == Word(e, b) \cap Slider

HoriRaw(b, e) == Word(b, e) \cap Slider

\* Mutant: the loop variable is returned when no bit is low.
ScanEnds(bits) ==
  IF Slider \subseteq bits THEN 12
  ELSE CHOOSE i \in Slider \ bits : \A j \in Slider \ bits : i <= j

\* The lowest bit that is low.
Scan(bits) ==
  IF Slider \subseteq bits THEN -1
  ELSE CHOOSE i \in Slider \ bits : \A j \in Slider \ bits : i <= j

\* jstk_idx2axis
Axis == <<0, 23, 46, 69, 92, 116, 139, 162, 185, 208, 231, 255>>
IdxToAxis(idx) == IF idx < 0 THEN Center ELSE Axis[idx + 1]

\* The report for pads that do not change while they are read.
Touched(pads) == IF pads = {} THEN -1 ELSE CHOOSE i \in pads : \A j \in pads : i <= j
XOf(s) == IdxToAxis(Touched(s.hori))
YOf(s) == IdxToAxis(Touched(s.vert))
Position(s) == [x |-> XOf(s), y |-> YOf(s)]

-----------------------------------------------------------------------------
(***************************************************************************)
(* The LEDs that show the slider.                                          *)
(***************************************************************************)
LedMask(idx) ==
  LET d == IF idx < 5 THEN 5 - idx ELSE idx - 6
      n == IF d < 2 THEN 2 ELSE IF d + 1 > 4 THEN 4 ELSE d + 1
  IN  IF idx < 0 THEN {}
      ELSE IF idx \in {5, 6} THEN {3, 4}
      ELSE IF idx < 5 THEN {3 - i : i \in 0..(n - 1)}
      ELSE {4 + i : i \in 0..(n - 1)}

Distance(idx) == IF idx < 0 THEN 0 ELSE IF idx > 5 THEN idx - 5 ELSE 5 - idx
ReadMask(vi, hi) ==
  IF vi < 0 /\ hi < 0 THEN {}
  ELSE LedMask(IF Distance(vi) >= Distance(hi) THEN vi ELSE hi)

\* The bar for pads that do not change while they are read.
Bar(s) == ReadMask(Touched(s.vert), Touched(s.hori))

-----------------------------------------------------------------------------
VARIABLES
  pads,        \* what is touched: [vert, hori]
  normal,      \* the switch: normal mode, not test mode
  run,         \* the run of joystick(): where it is, and its local variables
  lit,         \* the LEDs that are on: bits of PORTA.OUT that are low
  prevReport,  \* jstk_prevReport
  held         \* history: the pads since the run began, oldest to newest

vars == <<pads, normal, run, lit, prevReport, held>>

Pads == [vert : Touches, hori : Touches]
AxisValue == 0..255
Report == [x : AxisValue, y : AxisValue]

\* The run reads C then D and E then B for the LEDs, then the switch, then in
\* normal mode E then B and C then D for the report.
At == {"idle", "C", "D", "E", "B", "switch", "show", "dark", "xE", "xB", "yC", "yD", "send"}

RunType == [at : At, port : SUBSET Byte, vi : Index, hi : Index,
            mask : SUBSET Byte, report : Report]

TypeOK ==
  /\ pads \in Pads
  /\ normal \in BOOLEAN
  /\ run \in RunType
  /\ lit \in SUBSET Byte
  /\ prevReport \in Report
  /\ held \in SUBSET Pads

\* Everything a run reads it has written before: between runs, and from the
\* LEDs to the report, nothing is kept.
Fresh(at) == [at |-> at, port |-> {}, vi |-> -1, hi |-> -1, mask |-> {},
              report |-> [x |-> Center, y |-> Center]]

\* After io_init and led_init.
Init ==
  /\ pads = [vert |-> {}, hori |-> {}]
  /\ normal = TRUE
  /\ run = Fresh("idle")
  /\ lit = {}
  /\ prevReport = [x |-> Center, y |-> Center]
  /\ held = {pads}

\* ui_process, once for each Start of Frame.
Start ==
  /\ run.at = "idle"
  /\ run' = Fresh("C")
  /\ held' = {pads}
  /\ UNCHANGED <<pads, normal, lit, prevReport>>

\* A port is read.
ReadFirst(at, port, next) ==
  /\ run.at = at
  /\ run' = [run EXCEPT !.at = next, !.port = port]
  /\ UNCHANGED <<pads, normal, lit, prevReport, held>>

MaskReadC == ReadFirst("C", PortC(pads.vert), "D")
MaskReadD ==
  /\ run.at = "D"
  /\ run' = [run EXCEPT !.at = "E", !.port = {},
                         !.vi = Scan(VertRaw(PortD(pads.vert), run.port))]
  /\ UNCHANGED <<pads, normal, lit, prevReport, held>>
MaskReadE == ReadFirst("E", PortE(pads.hori), "B")
MaskReadB ==
  LET hi == Scan(HoriRaw(PortB(pads.hori, normal), run.port))
  IN  /\ run.at = "B"
      /\ run' = [run EXCEPT !.at = "switch", !.port = {}, !.hi = hi,
                              !.mask = ReadMask(run.vi, hi)]
      /\ UNCHANGED <<pads, normal, lit, prevReport, held>>

\* Without a mask the LEDs of test mode stay as they are.
ReadSwitch ==
  /\ run.at = "switch"
  /\ run' = IF 4 \in PortB(pads.hori, normal) THEN Fresh("dark")
            ELSE IF run.mask = {} THEN Fresh("idle")
            ELSE [Fresh("show") EXCEPT !.mask = run.mask]
  /\ UNCHANGED <<pads, normal, lit, prevReport, held>>

\* Mutant: led_on, then led_allOff.
ShowThenAllOff == {}

\* led_allOff, then led_on.
Shown == run.mask

\* Test mode.  The run then waits for 10 ms.
Show ==
  /\ run.at = "show"
  /\ lit' = Shown
  /\ run' = Fresh("idle")
  /\ UNCHANGED <<pads, normal, prevReport, held>>

AllOff == {}

\* Normal mode.
Dark ==
  /\ run.at = "dark"
  /\ lit' = AllOff
  /\ run' = [run EXCEPT !.at = "xE"]
  /\ UNCHANGED <<pads, normal, prevReport, held>>

ReportReadE == ReadFirst("xE", PortE(pads.hori), "xB")
ReportReadB ==
  /\ run.at = "xB"
  /\ run' = [run EXCEPT !.at = "yC", !.port = {}, !.report.x =
               IdxToAxis(Scan(HoriRaw(PortB(pads.hori, normal), run.port)))]
  /\ UNCHANGED <<pads, normal, lit, prevReport, held>>
ReportReadC == ReadFirst("yC", PortC(pads.vert), "yD")
ReportReadD ==
  /\ run.at = "yD"
  /\ run' = [run EXCEPT !.at = "send", !.port = {}, !.report.y =
               IdxToAxis(Scan(VertRaw(PortD(pads.vert), run.port)))]
  /\ UNCHANGED <<pads, normal, lit, prevReport, held>>

\* Mutant: a report is sent only when both axes have changed.
SendWhenBothChanged(ready) ==
  /\ run.at = "send"
  /\ prevReport' = IF /\ run.report.x # prevReport.x /\ run.report.y # prevReport.y
                      /\ ready
                   THEN run.report ELSE prevReport
  /\ run' = Fresh("idle")
  /\ UNCHANGED <<pads, normal, lit, held>>

\* A changed report is offered; "ready" is what udi_hid_generic_send_report_in
\* returns.
Send(ready) ==
  /\ run.at = "send"
  /\ prevReport' = IF run.report # prevReport /\ ready THEN run.report ELSE prevReport
  /\ run' = Fresh("idle")
  /\ UNCHANGED <<pads, normal, lit, held>>

Run ==
  \/ Start \/ MaskReadC \/ MaskReadD \/ MaskReadE \/ MaskReadB \/ ReadSwitch
  \/ Show \/ Dark
  \/ ReportReadE \/ ReportReadB \/ ReportReadC \/ ReportReadD
  \/ \E ready \in BOOLEAN : Send(ready)

\* One pad is touched or released.
OnePad(s, t) == Cardinality((s \ t) \cup (t \ s)) = 1
Move ==
  /\ run.at = "idle" \/ Cardinality(held) <= MaxChanges
  /\ \E side \in {"vert", "hori"} : \E t \in Touches :
       /\ OnePad(pads[side], t)
       /\ pads' = [pads EXCEPT ![side] = t]
  /\ held' = IF run.at = "idle" THEN {pads'} ELSE held \cup {pads'}
  /\ UNCHANGED <<normal, run, lit, prevReport>>

FlipSwitch ==
  /\ normal' = ~normal
  /\ UNCHANGED <<pads, run, lit, prevReport, held>>

Next == Run \/ Move \/ FlipSwitch

Spec == Init /\ [][Next]_vars

FairSpec == Spec /\ WF_vars(Run) /\ SF_vars(Send(TRUE))

-----------------------------------------------------------------------------
\* Although a report is put together from four ports read one after the other,
\* it is a position that the sliders had, both at once, during the run: the
\* report task may be taken for one step that reads the sliders (as HidDevice
\* takes it).
ReportWasHeld ==
  [][prevReport' # prevReport => \E s \in held : prevReport' = Position(s)]_vars

\* Between runs the LEDs show one bar, or nothing: bars do not add up.
OneBarAtATime == run.at = "idle" => lit \in {LedMask(i) : i \in Index}

\* Although a bar is chosen from two sliders whose four ports are read one after
\* the other, and shown later still, it is the bar of a position that the sliders
\* had, both at once, during the run: a finger that crosses from one port to the
\* next never lights a bar of a place where it was not.
BarWasHeld ==
  [][lit' # lit => lit' = {} \/ \E s \in held : lit' = Bar(s)]_vars

\* The LEDs follow the switch, whatever bar, contact or mode came before: left in
\* normal mode they go out for good, and left in test mode they come to show the
\* bar of pads that hold still (the last bar stays when these have none).
LedsFollowSwitch ==
  /\ <>[]normal => <>[](lit = {})
  /\ <>[]~normal /\ <>[][UNCHANGED pads]_vars => <>[](Bar(pads) # {} => lit = Bar(pads))

\* Pads held still in normal mode are reported, once the endpoint takes reports.
HeldPositionReported ==
  <>[]normal /\ <>[][UNCHANGED pads]_vars => <>[](prevReport = Position(pads))

(***************************************************************************)
(* What the comments say and the code does not do.                         *)
(***************************************************************************)

\* joystick.c:78 and 91: there is no LED only for "no contact", "no touch
\* detected".
ContactShowsLeds ==
  run.at = "switch" => (run.mask = {} <=> run.vi < 0 /\ run.hi < 0)
=============================================================================
