-------------------------- MODULE BusTimingProofs --------------------------
(***************************************************************************)
(* Theorems about BusTiming: the sleep locks and the clock, and that a     *)
(* resume is handled before the first frame after it, for any times.       *)
(***************************************************************************)
EXTENDS BusTiming, TLAPS

\* The driver holds one lock for the line, and the two that sleepmgr_init and
\* udd_enable took.
LocksInv ==
  /\ locks \in [Mode -> 0..255]
  /\ locks["IDLE"] = (IF idle THEN 1 ELSE 0) /\ locks["PDOWN"] = 2

StateType ==
  /\ bus \in [state : {"frames", "silent", "resume", "reset"}, age : Nat]
  /\ flags \in [Event -> BOOLEAN]
  /\ busy \in 0..Delay
  /\ idle \in BOOLEAN /\ enabled \in BOOLEAN /\ held \in BOOLEAN

\* When the bus is not suspended, what is still to be done about the last
\* suspend ends with a resume.
ClockInv == ~Suspended => flags["resume"] \/ (idle /\ ~flags["suspend"])

Inv == StateType /\ LocksInv /\ ClockInv

LEMMA InitInv == Init => Inv
<1> SUFFICES ASSUME Init PROVE Inv
  OBVIOUS
<1>1. StateType
  <2>1. bus \in [state : {"frames", "silent", "resume", "reset"}, age : Nat]
    BY DEF Init
  <2>2. flags \in [Event -> BOOLEAN]
    BY DEF Init
  <2>3. busy \in 0..Delay
    BY DelayAssumption DEF Init
  <2>4. QED
    BY <2>1, <2>2, <2>3 DEF Init, StateType
<1>2. LocksInv
  BY DEF Init, LocksInv, Mode
<1>3. ClockInv
  BY DEF Init, ClockInv, Event
<1>4. QED
  BY <1>1, <1>2, <1>3 DEF Inv

\* The driver changes the lock with the state of the line.
LEMMA SleepModeKeeps ==
  ASSUME LocksInv, idle \in BOOLEAN, NEW b \in BOOLEAN, UddSleepMode(b)
  PROVE  LocksInv' /\ idle' = b
<1>1. idle' = b
  BY DEF UddSleepMode
<1>2. CASE idle /\ ~b
  BY <1>1, <1>2 DEF UddSleepMode, LocksInv, Unlock, Mode
<1>3. CASE ~idle /\ b
  BY <1>1, <1>3 DEF UddSleepMode, LocksInv, Lock, Mode
<1>4. CASE idle = b
  BY <1>1, <1>4 DEF UddSleepMode, LocksInv
<1>5. QED
  BY <1>1, <1>2, <1>3, <1>4

LEMMA IsrInv == Inv /\ Isr => Inv'
<1> SUFFICES ASSUME Inv, Isr PROVE Inv'
  OBVIOUS
<1> USE DEF Inv, StateType, Acked, Event
<1>1. CASE SofIsr
  <2>1. busy' \in 0..Delay
    BY <1>1, DelayAssumption DEF SofIsr, HandlerTime
  <2>2. QED
    BY <1>1, <2>1 DEF SofIsr, LocksInv, ClockInv, Suspended
<1>2. CASE ResetIsr
  BY <1>2 DEF ResetIsr, LocksInv, ClockInv, Suspended
<1>3. CASE SuspendIsr
  <2>1. LocksInv' /\ idle' = FALSE
    BY <1>3, SleepModeKeeps DEF SuspendIsr
  <2>2. QED
    BY <1>3, <2>1 DEF SuspendIsr, ClockInv, Suspended
<1>4. CASE ResumeIsr
  <2>1. LocksInv' /\ idle' = TRUE
    BY <1>4, SleepModeKeeps DEF ResumeIsr
  <2>2. QED
    BY <1>4, <2>1 DEF ResumeIsr, ClockInv, Suspended
<1>5. CASE SetupIsr
  BY <1>5 DEF SetupIsr, LocksInv, ClockInv, Suspended
<1>6. QED
  BY <1>1, <1>2, <1>3, <1>4, <1>5 DEF Isr

\* A millisecond of the bus.
LEMMA ElapseType == ASSUME Inv, Elapse PROVE busy' \in 0..Delay /\ LocksInv'
BY DelayAssumption DEF Inv, StateType, Elapse, LocksInv

LEMMA TickInv == Inv /\ Tick => Inv'
<1> SUFFICES ASSUME Inv, Tick PROVE Inv'
  OBVIOUS
<1> USE BusAssumption DEF Inv, StateType, Event, Older, Suspended
<1>1. CASE Frame
  <2>1. busy' \in 0..Delay /\ LocksInv'
    BY <1>1, ElapseType DEF Frame
  <2>2. ~Suspended
    BY <1>1 DEF Frame
  <2>3. QED
    BY <1>1, <2>1, <2>2 DEF Frame, Elapse, ClockInv
<1>2. CASE Silence
  <2>1. busy' \in 0..Delay /\ LocksInv'
    BY <1>2, ElapseType DEF Silence
  <2>2. bus' \in [state : {"frames", "silent", "resume", "reset"}, age : Nat]
    BY <1>2 DEF Silence
  <2>3. flags' \in [Event -> BOOLEAN]
    BY <1>2 DEF Silence
  <2>4. ClockInv'
    BY <1>2, <2>2 DEF Silence, Elapse, ClockInv
  <2>5. QED
    BY <1>2, <2>1, <2>2, <2>3, <2>4 DEF Silence, Elapse
<1>3. CASE DriveResume
  <2>1. busy' \in 0..Delay /\ LocksInv'
    BY <1>3, ElapseType DEF DriveResume
  <2>2. bus' \in [state : {"frames", "silent", "resume", "reset"}, age : Nat]
    BY <1>3 DEF DriveResume
  <2>3. flags' \in [Event -> BOOLEAN]
    BY <1>3 DEF DriveResume
  <2>4. ClockInv'
    BY <1>3, <2>2 DEF DriveResume, Elapse, ClockInv
  <2>5. QED
    BY <1>3, <2>1, <2>2, <2>3, <2>4 DEF DriveResume, Elapse
<1>4. CASE DriveReset
  <2>1. busy' \in 0..Delay /\ LocksInv'
    BY <1>4, ElapseType DEF DriveReset
  <2>2. bus' \in [state : {"frames", "silent", "resume", "reset"}, age : Nat]
    BY <1>4 DEF DriveReset
  <2>3. flags' \in [Event -> BOOLEAN]
    BY <1>4 DEF DriveReset
  <2>4. ClockInv'
    BY <1>4, <2>2 DEF DriveReset, Elapse, ClockInv
  <2>5. QED
    BY <1>4, <2>1, <2>2, <2>3, <2>4 DEF DriveReset, Elapse
<1>5. QED
  BY <1>1, <1>2, <1>3, <1>4 DEF Tick

LEMMA StepInv == Inv /\ [Next]_vars => Inv'
<1> SUFFICES ASSUME Inv, [Next]_vars PROVE Inv'
  OBVIOUS
<1> USE DEF Inv, StateType, LocksInv, ClockInv, Suspended
<1>1. CASE HostSetup
  BY <1>1 DEF HostSetup, Event
<1>2. CASE Hold
  BY <1>2 DEF Hold
<1>3. CASE UNCHANGED vars
  BY <1>3 DEF vars
<1> HIDE DEF Inv
<1>4. QED
  BY <1>1, <1>2, <1>3, IsrInv, TickInv DEF Next

\* Every variable keeps its type; among them the lock counters of the sleep
\* manager, which hang when one is taken below 0 or above 255.
THEOREM TypeCorrect == Spec => []TypeOK
<1>1. Inv => TypeOK
  BY DEF Inv, StateType, LocksInv, TypeOK
<1>2. QED
  BY <1>1, InitInv, StepInv, PTL DEF Spec

\* The clock of the USB module is kept while the bus is in use, in whatever order
\* the events of suspend and resume were left waiting.
THEOREM ClockKept == Spec => []ClockWhileBusInUse
<1>1. ASSUME Inv, ~Pending, ~Suspended PROVE SleepMode = "IDLE"
  <2>1. idle
    BY <1>1 DEF Inv, ClockInv, Pending, Event
  <2>2. QED
    BY <2>1, <1>1 DEF Inv, LocksInv, SleepMode
<1>2. Inv => ClockWhileBusInUse
  BY <1>1 DEF ClockWhileBusInUse
<1>3. QED
  BY <1>2, InitInv, StepInv, PTL DEF Spec

-----------------------------------------------------------------------------
(***************************************************************************)
(* A resume is handled before it ends.                                     *)
(***************************************************************************)

\* The milliseconds that handlers still take: the one that runs, and the one that
\* waits for it.
Load == busy + (IF flags["sof"] THEN Delay ELSE 0)

\* Handlers have less to do the longer there is no frame: n milliseconds after the
\* last one, at most two waits less n.
LessAfter(n) == Load = 0 \/ Load + n <= 2 * Delay - 1

LoadInv ==
  /\ flags["sof"] => busy = 0 \/ busy < Delay
  /\ bus.state = "frames" => bus.age = 0
  /\ bus.state = "silent" => bus.age <= SuspendTime /\ LessAfter(bus.age)
  /\ bus.state = "resume" => bus.age <= ResumeTime /\ LessAfter(SuspendTime + bus.age)
  /\ flags["resume"] /\ ~flags["reset"] => bus.state = "resume" \/ Load = 0

LEMMA InitLoad == Init => LoadInv
<1> SUFFICES ASSUME Init PROVE LoadInv
  OBVIOUS
<1>1. Load = 0
  BY DEF Init, Load, Event
<1>2. QED
  BY <1>1, BusAssumption DEF Init, LoadInv, LessAfter, Event

\* A handler leaves no more to do than it found, and nothing when it is not that of
\* a Start of Frame.
LEMMA IsrLoad ==
  ASSUME StateType, LoadInv, Isr
  PROVE  LoadInv'
<1> USE DelayAssumption, BusAssumption DEF StateType, Acked, Event
<1>1. CASE SofIsr
  <2>1. Load' \in {0, Load} /\ ~flags'["sof"] /\ bus' = bus
    BY <1>1 DEF SofIsr, HandlerTime, Load
  <2>2. LessAfter(bus.age) => LessAfter(bus.age)'
    BY <2>1 DEF LessAfter
  <2>3. LessAfter(SuspendTime + bus.age) => LessAfter(SuspendTime + bus.age)'
    BY <2>1 DEF LessAfter
  <2>4. flags'["resume"] = flags["resume"] /\ flags'["reset"] = flags["reset"]
    BY <1>1 DEF SofIsr
  <2>5. QED
    BY <2>1, <2>2, <2>3, <2>4 DEF LoadInv
<1>2. CASE ~SofIsr
  <2>1. /\ bus' = bus /\ busy' = 0 /\ busy = 0
        /\ ~flags["sof"] /\ ~flags'["sof"]
    BY <1>2 DEF Isr, ResetIsr, SuspendIsr, ResumeIsr, SetupIsr
  <2>2. Load' = 0
    BY <2>1 DEF Load
  <2>3. QED
    BY <2>1, <2>2 DEF LoadInv, LessAfter
<1>3. QED
  BY <1>1, <1>2

\* With a handler that waits, a millisecond takes one off; with nothing to wait for,
\* time only passes when no event is pending.
LEMMA ElapseLoad ==
  ASSUME StateType, LoadInv, Elapse, flags'["sof"] = flags["sof"]
  PROVE  /\ \/ Load = 0 /\ ~Pending /\ Load' = 0
            \/ Load > 0 /\ Load' = Load - 1
         /\ flags["sof"] => busy' = 0 \/ busy' < Delay
<1> USE DelayAssumption DEF StateType, Event
<1>1. CASE busy > 0
  <2>1. busy' = busy - 1
    BY <1>1 DEF Elapse
  <2>2. QED
    BY <1>1, <2>1 DEF Load, LoadInv
<1>2. CASE busy = 0
  <2>1. ~Pending /\ busy' = 0
    BY <1>2 DEF Elapse
  <2>2. ~flags["sof"]
    BY <2>1 DEF Pending
  <2>3. Load = 0
    BY <1>2, <2>2 DEF Load
  <2>4. Load' = 0
    BY <2>1, <2>2 DEF Load
  <2>5. QED
    BY <2>1, <2>3, <2>4
<1>3. QED
  BY <1>1, <1>2

\* A resume is longer than the handlers of the frames before it can take.
TimesFit == 2 * Delay <= SuspendTime + ResumeTime + 1

LEMMA NoResumeLeft ==
  ASSUME StateType, LoadInv, TimesFit, Frame
  PROVE  ~(flags["resume"] /\ ~flags["reset"])
<1> SUFFICES ASSUME flags["resume"], ~flags["reset"] PROVE FALSE
  OBVIOUS
<1> USE DelayAssumption, BusAssumption DEF StateType, Event
<1>1. busy > 0
  BY DEF Frame, Elapse, Pending
<1>2. Load > 0
  BY <1>1 DEF Load
<1>3. bus.state = "resume" /\ LessAfter(SuspendTime + bus.age)
  BY <1>2 DEF LoadInv
<1>4. bus.age = ResumeTime
  BY <1>3 DEF Frame
<1>5. Load + (SuspendTime + ResumeTime) <= 2 * Delay - 1
  BY <1>2, <1>3, <1>4 DEF LessAfter
<1>6. Load \in Nat
  BY DEF Load
<1>7. QED
  BY <1>2, <1>5, <1>6 DEF TimesFit

LEMMA TickLoad ==
  ASSUME StateType, LoadInv, TimesFit, Tick
  PROVE  LoadInv'
<1> USE DelayAssumption, BusAssumption DEF StateType, Event
<1>1. CASE Frame
  <2>1. busy' = 0 \/ busy' < Delay
    BY <1>1 DEF Frame, Elapse
  <2>2. bus' = [state |-> "frames", age |-> 0]
    BY <1>1 DEF Frame
  <2>3. flags'["resume"] = flags["resume"] /\ flags'["reset"] = flags["reset"]
    BY <1>1 DEF Frame
  <2>4. QED
    BY <1>1, <2>1, <2>2, <2>3, NoResumeLeft DEF LoadInv
<1>2. ASSUME ~Frame
      PROVE  /\ flags'["sof"] = flags["sof"] /\ Elapse
             /\ \/ Load = 0 /\ ~Pending /\ Load' = 0
                \/ Load > 0 /\ Load' = Load - 1
             /\ flags'["sof"] => busy' = 0 \/ busy' < Delay
  <2>1. flags'["sof"] = flags["sof"] /\ Elapse
    BY <1>2 DEF Tick, Silence, DriveResume, DriveReset
  <2>2. QED
    BY <2>1, ElapseLoad
<1>3. Load \in Nat
  BY DEF Load
<1>4. CASE Silence /\ ~Frame
  <2>1. flags'["resume"] = flags["resume"] /\ flags'["reset"] = flags["reset"]
    BY <1>4 DEF Silence
  <2>2. flags["resume"] /\ ~flags["reset"] => Load' = 0
    BY <1>2, <1>3, <1>4 DEF Silence, LoadInv, Pending
  <2>3. bus'.state = "silent" /\ bus'.age <= SuspendTime
    BY <1>4 DEF Silence, LoadInv, Older
  <2>4. LessAfter(bus.age)'
    <3>1. CASE bus.state = "frames"
      <4>1. bus'.age = 1
        BY <1>4, <3>1 DEF Silence, LoadInv, Older
      <4>2. Load <= 2 * Delay - 1 \/ Load = 0
        BY DEF Load, LoadInv
      <4>3. QED
        BY <1>2, <1>3, <1>4, <4>1, <4>2 DEF LessAfter
    <3>2. CASE bus.state = "silent"
      <4>1. bus'.age <= bus.age + 1 /\ bus'.age \in Nat
        BY <1>4 DEF Silence, Older
      <4>2. LessAfter(bus.age)
        BY <3>2 DEF LoadInv
      <4>3. QED
        BY <1>2, <1>3, <1>4, <4>1, <4>2 DEF LessAfter
    <3>3. QED
      BY <1>4, <3>1, <3>2 DEF Silence
  <2>5. QED
    BY <1>2, <1>4, <2>1, <2>2, <2>3, <2>4 DEF LoadInv
<1>5. CASE DriveResume /\ ~Frame
  <2>1. bus'.state = "resume" /\ bus'.age <= ResumeTime
    BY <1>5 DEF DriveResume, LoadInv, Older
  <2>2. LessAfter(SuspendTime + bus.age)'
    <3>1. CASE Suspended
      <4>1. bus'.age = 1 /\ LessAfter(SuspendTime)
        BY <1>5, <3>1 DEF DriveResume, LoadInv, Suspended
      <4>2. QED
        BY <1>2, <1>3, <1>5, <4>1 DEF LessAfter
    <3>2. CASE ~Suspended
      <4>1. bus'.age <= bus.age + 1 /\ bus'.age \in Nat
        BY <1>5, <3>2 DEF DriveResume, Older
      <4>2. LessAfter(SuspendTime + bus.age)
        BY <1>5, <3>2 DEF DriveResume, LoadInv
      <4>3. QED
        BY <1>2, <1>3, <1>5, <4>1, <4>2 DEF LessAfter
    <3>3. QED
      BY <3>1, <3>2
  <2>3. QED
    BY <1>2, <1>5, <2>1, <2>2 DEF LoadInv
<1>6. CASE DriveReset /\ ~Frame
  <2>1. bus'.state = "reset"
    BY <1>6 DEF DriveReset
  <2>2. flags'["resume"] /\ ~flags'["reset"] => Load' = 0
    <3>1. SUFFICES ASSUME flags'["resume"], ~flags'["reset"] PROVE Load' = 0
      OBVIOUS
    <3>2. bus.state = "reset" /\ flags["resume"] /\ ~flags["reset"]
      BY <1>6, <3>1 DEF DriveReset, Suspended
    <3>3. QED
      BY <1>2, <1>3, <1>6, <3>2 DEF LoadInv
  <2>3. QED
    BY <1>2, <1>6, <2>1, <2>2 DEF LoadInv
<1>7. QED
  BY <1>1, <1>4, <1>5, <1>6 DEF Tick

LEMMA StepLoad == StateType /\ LoadInv /\ TimesFit /\ [Next]_vars => LoadInv'
<1> SUFFICES ASSUME StateType, LoadInv, TimesFit, [Next]_vars PROVE LoadInv'
  OBVIOUS
<1>1. CASE HostSetup \/ Hold \/ UNCHANGED vars
  <2>1. /\ bus' = bus /\ busy' = busy
        /\ \A e \in {"sof", "resume", "reset"} : flags'[e] = flags[e]
    BY <1>1 DEF HostSetup, Hold, vars, StateType, Event
  <2>2. Load' = Load
    BY <2>1 DEF Load
  <2>3. QED
    BY <2>1, <2>2 DEF LoadInv, LessAfter
<1>2. QED
  BY <1>1, IsrLoad, TickLoad DEF Next

\* If the two waits that may follow the last frame before a suspend are shorter than
\* the suspend and the resume together, a resume is handled before it ends.
THEOREM ResumeInTime ==
  ASSUME TimesFit
  PROVE  Spec => ResumeHandledInTime
<1>1. Inv /\ LoadInv /\ [Next]_vars => [Frame /\ flags["resume"] => flags["reset"]]_vars
  BY NoResumeLeft DEF Inv
<1>2. Inv /\ LoadInv /\ [Next]_vars => LoadInv'
  BY StepLoad DEF Inv
<1>3. QED
  BY <1>1, <1>2, InitInv, StepInv, InitLoad, PTL DEF Spec, ResumeHandledInTime
=============================================================================
