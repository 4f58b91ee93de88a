----------------------------- MODULE BusTiming -----------------------------
(***************************************************************************)
(* The USB interrupts of usb_device.c against the clock: frames, suspend,  *)
(* resume and reset of the bus come in milliseconds, a handler takes no    *)
(* time to speak of, except that the Start-of-Frame handler waits 10 ms in *)
(* test mode while a slider is touched (joystick.c).  The rest of the      *)
(* state is the sleep mode that the driver grants (sleepmgr.h).            *)
(*                                                                         *)
(* A flag that is set again before it is handled is one event.  What the   *)
(* handlers do to the device is in HidDevice.                              *)
(***************************************************************************)
EXTENDS Integers

CONSTANTS Delay,        \* _delay_ms: milliseconds the test mode waits
          SuspendTime,  \* milliseconds of silence that are a suspend
          ResumeTime,   \* the host drives a resume at least so long
          ResetTime     \* the host drives a reset at least so long

ASSUME DelayAssumption == Delay \in Nat
ASSUME BusAssumption ==
  {SuspendTime, ResumeTime, ResetTime} \subseteq Nat \ {0}

VARIABLES
  bus,      \* the bus and for how long, up to the time that matters
  flags,    \* pending interrupt flags
  busy,     \* milliseconds the running handler still waits
  idle,     \* udd_b_idle
  locks,    \* sleepmgr_locks
  enabled,  \* main_b_generic_enable
  held      \* test mode with a slider touched

vars == <<bus, flags, busy, idle, locks, enabled, held>>

Event == {"sof", "reset", "suspend", "resume", "setup"}
\* The modes that usb_device.c locks, the shallower first.
Mode == {"IDLE", "PDOWN"}

TypeOK ==
  /\ bus \in [state : {"frames", "silent", "resume", "reset"}, age : Nat]
  /\ flags \in [Event -> BOOLEAN]
  /\ busy \in 0..Delay
  /\ idle \in BOOLEAN
  /\ locks \in [Mode -> 0..255]
  /\ enabled \in BOOLEAN
  /\ held \in BOOLEAN

-----------------------------------------------------------------------------
(***************************************************************************)
(* Sleep modes.                                                            *)
(***************************************************************************)
Lock(l, mode) == [l EXCEPT ![mode] = @ + 1]
Unlock(l, mode) == [l EXCEPT ![mode] = @ - 1]

\* The mode the sleep manager would enter: the shallowest that is locked.
SleepMode == IF locks["IDLE"] > 0 THEN "IDLE" ELSE "PDOWN"

\* Mutant: the state of the line is not kept.
UddSleepModeForgets(b_idle) ==
  /\ idle' = idle
  /\ locks' = IF idle /\ ~b_idle THEN Unlock(locks, "IDLE")
              ELSE IF ~idle /\ b_idle THEN Lock(locks, "IDLE") ELSE locks

\* udd_sleep_mode
UddSleepMode(b_idle) ==
  /\ idle' = b_idle
  /\ locks' = IF idle /\ ~b_idle THEN Unlock(locks, "IDLE")
              ELSE IF ~idle /\ b_idle THEN Lock(locks, "IDLE") ELSE locks

\* After sleepmgr_init, udd_enable and udd_attach; the host has not reset the
\* bus yet.
Init ==
  /\ bus = [state |-> "silent", age |-> 0]
  /\ flags = [e \in Event |-> FALSE]
  /\ busy = 0
  /\ idle = TRUE
  /\ locks = [IDLE |-> 1, PDOWN |-> 2]
  /\ enabled = FALSE
  /\ held = FALSE

-----------------------------------------------------------------------------
(***************************************************************************)
(* The handlers, in the order in which USB_BUSEVENT looks at the flags;    *)
(* USB_TRNCOMPL comes last.  One that waits is not interrupted.            *)
(***************************************************************************)
Acked(event) == flags' = [flags EXCEPT ![event] = FALSE]

\* Mutant: the wait is that of the LEDs' blinking in other examples.
HandlerTimeLonger == IF enabled /\ held THEN 5 * Delay ELSE 0

HandlerTime == IF enabled /\ held THEN Delay ELSE 0

\* Mutant: the event is not acknowledged.
SofIsrUnacked ==
  /\ busy = 0 /\ flags["sof"]
  /\ busy' = HandlerTime
  /\ UNCHANGED <<bus, flags, idle, locks, enabled, held>>

SofIsr ==
  /\ busy = 0 /\ flags["sof"]
  /\ Acked("sof")
  /\ busy' = HandlerTime
  /\ UNCHANGED <<bus, idle, locks, enabled, held>>

ResetIsr ==
  /\ busy = 0 /\ flags["reset"] /\ ~flags["sof"]
  /\ Acked("reset")
  /\ enabled' = FALSE
  /\ UNCHANGED <<bus, busy, idle, locks, held>>

SuspendIsr ==
  /\ busy = 0 /\ flags["suspend"] /\ ~flags["sof"] /\ ~flags["reset"]
  /\ Acked("suspend")
  /\ UddSleepMode(FALSE)
  /\ UNCHANGED <<bus, busy, enabled, held>>

\* Mutant: a resume is handled although a suspend still waits.
ResumeIsrBeforeSuspend ==
  /\ busy = 0 /\ flags["resume"] /\ ~flags["sof"] /\ ~flags["reset"]
  /\ Acked("resume")
  /\ UddSleepMode(TRUE)
  /\ UNCHANGED <<bus, busy, enabled, held>>

ResumeIsr ==
  /\ busy = 0 /\ flags["resume"]
  /\ ~flags["sof"] /\ ~flags["reset"] /\ ~flags["suspend"]
  /\ Acked("resume")
  /\ UddSleepMode(TRUE)
  /\ UNCHANGED <<bus, busy, enabled, held>>

\* A request may enable the interface or disable it.
SetupIsr ==
  /\ busy = 0 /\ flags["setup"]
  /\ \A e \in Event \ {"setup"} : ~flags[e]
  /\ Acked("setup")
  /\ enabled' \in BOOLEAN
  /\ UNCHANGED <<bus, busy, idle, locks, held>>

Isr == SofIsr \/ ResetIsr \/ SuspendIsr \/ ResumeIsr \/ SetupIsr

Pending == \E e \in Event : flags[e]

-----------------------------------------------------------------------------
(***************************************************************************)
(* The bus: each of these steps takes a millisecond.  Handlers that do not *)
(* wait have run before the next.                                          *)
(***************************************************************************)
Elapse ==
  /\ busy > 0 \/ ~Pending
  /\ busy' = IF busy > 0 THEN busy - 1 ELSE 0
  /\ UNCHANGED <<idle, locks, enabled, held>>

Suspended == bus.state = "silent" /\ bus.age = SuspendTime
Older(limit) == IF bus.age < limit THEN bus.age + 1 ELSE bus.age

\* A frame begins.  Silence that was too short for a suspend is forgotten.
Frame ==
  /\ \/ bus.state = "frames"
     \/ bus.state = "silent" /\ ~Suspended
     \/ bus.state = "resume" /\ bus.age = ResumeTime
     \/ bus.state = "reset" /\ bus.age = ResetTime
  /\ bus' = [state |-> "frames", age |-> 0]
  /\ flags' = [flags EXCEPT !["sof"] = TRUE]
  /\ Elapse

\* The hardware flags a suspend once.
Silence ==
  /\ bus.state \in {"frames", "silent"}
  /\ bus' = [state |-> "silent", age |-> Older(SuspendTime)]
  /\ flags' = [flags EXCEPT !["suspend"] = @ \/ (bus'.age = SuspendTime /\ ~Suspended)]
  /\ Elapse

\* Whatever ends the silence is a resume to the hardware.
DriveResume ==
  /\ Suspended \/ bus.state = "resume"
  /\ bus' = IF Suspended THEN [state |-> "resume", age |-> 1]
            ELSE [bus EXCEPT !.age = Older(ResumeTime)]
  /\ flags' = [flags EXCEPT !["resume"] = @ \/ Suspended]
  /\ Elapse

DriveReset ==
  /\ bus' = IF bus.state # "reset" THEN [state |-> "reset", age |-> 1]
            ELSE [bus EXCEPT !.age = Older(ResetTime)]
  /\ flags' = [flags EXCEPT !["resume"] = @ \/ Suspended,
                            !["reset"] = @ \/ bus.state # "reset"]
  /\ Elapse

\* These take no time.
HostSetup ==
  /\ bus.state = "frames"
  /\ flags' = [flags EXCEPT !["setup"] = TRUE]
  /\ UNCHANGED <<bus, busy, idle, locks, enabled, held>>

Hold ==
  /\ held' = ~held
  /\ UNCHANGED <<bus, flags, busy, idle, locks, enabled>>

Tick == Frame \/ Silence \/ DriveResume \/ DriveReset

Next == Isr \/ Tick \/ HostSetup \/ Hold

Spec == Init /\ [][Next]_vars

\* Time passes, and a handler that may run does.
FairSpec == Spec /\ WF_vars(Tick) /\ WF_vars(Isr)

-----------------------------------------------------------------------------
\* While the bus is in use and every event has been handled, the sleep mode
\* granted keeps the clock of the USB module: the events of suspend and resume
\* may both wait for a handler, and are then handled in the order they came.
ClockWhileBusInUse == ~Pending /\ ~Suspended => SleepMode = "IDLE"

\* joystick.c:147 against usb_device.c:827: a resume is handled before the host
\* ends it and the first frame comes, although the handler of the last frame
\* before the suspend may wait, and that of another after it; a reset that is
\* pending too takes its place.
ResumeHandledInTime == [][Frame /\ flags["resume"] => flags["reset"]]_vars

\* Once the user lets go of the sliders, or leaves test mode, no event is left
\* waiting.
EventsHandled == <>[]~held => \A e \in Event : []<>~flags[e]
=============================================================================
