------------------------------ MODULE Startup ------------------------------
(***************************************************************************)
(* main() from reset to its loop: sysclk_init, udc_start and the ports,    *)
(* for any configuration of the clocks, with the oscillators that become   *)
(* ready when they like and the USB handlers that can run as soon as they  *)
(* are let.  The program is a sequence of instructions still to execute;   *)
(* a call is the sequence of its body, and there is an action for each     *)
(* instruction.  After it, the services of udc.h, sysclk.h and sleepmgr.h  *)
(* that an application may call from its loop (the loop of main.c is       *)
(* empty).                                                                 *)
(***************************************************************************)
EXTENDS ClockTables, Sequences, FiniteSets

CONSTANTS Configs,         \* the configurations
          ServiceConfigs,  \* those whose main loop starts peripherals
          RtcConfigs,      \* those whose main loop starts the RTC
          MaxInUse         \* bound: peripherals in use at a time

\* The PLL's cases in sysclk_init and sysclk_enable_usb are compiled only if
\* CONFIG_PLL0_SOURCE is defined: without it a selected PLL is no source at all.
ASSUME ConfigsAssumption ==
  Configs \subseteq {c \in Configuration : "PLL" \in {c.source, c.usb} => c.pll # NoPll}
ASSUME BoundAssumption == MaxInUse \in Nat

VARIABLES
  cfg,    \* the configuration; never changes
  todo,   \* what main has still to execute
  irq,    \* SREG.I and the values that are saved
  osc,    \* OSC.CTRL and OSC.STATUS
  clk,    \* CLK.CTRL, PSCTRL, USBCTRL and RTCCTRL, OSC.PLLCTRL and XOSCCTRL
  dfll,   \* DFLLRC32M and OSC.DFLLCTRL
  gated,  \* bits set in the power-reduction registers
  usb,    \* the USB module and udd_b_idle
  locks,  \* sleepmgr_locks
  sleep,  \* SLEEP.CTRL and whether the CPU sleeps
  ports,  \* ports that io_init has set up
  inUse   \* peripherals the application has started; history only

vars == <<cfg, todo, irq, osc, clk, dfll, gated, usb, locks, sleep, ports,
          inUse>>
hardware == <<osc, clk, dfll>>

\* sleepmgr_mode, the shallower first.
Mode == <<"ACTIVE", "IDLE", "ESTDBY", "PSAVE", "STDBY", "PDOWN">>
UsbGate == <<"GEN", "USB">>
AllGates == {EnableGate[m] : m \in Peripheral} \cup {UsbGate}
Port == {"A", "B", "C", "D", "E", "F"}

-----------------------------------------------------------------------------
(***************************************************************************)
(* Bodies of the functions, as instructions <<operation, argument>>.       *)
(***************************************************************************)
Do(op, arg) == <<<<op, arg>>>>
When(condition, body) == IF condition THEN body ELSE <<>>
UnlessReady(id, body) == Do("unlessReady", <<id, body>>)

\* Between cpu_irq_save and cpu_irq_restore.
Critical(body) == Do("save", "SREG") \o body \o Do("restore", "SREG")

OscEnable(id) ==
  When(id = "XOSC", Do("xoscConfig", "XOSC")) \o Critical(Do("oscOn", id))
OscDisable(id) == Critical(Do("oscOff", id))
\* osc_enable and osc_wait_ready, always called together
OscStart(id) == OscEnable(id) \o Do("waitReady", id)

OscEnableAutocalibration == Critical(Do("reference", "ref") \o Do("dfll", TRUE))

\* Mutant: RC32MHZ is not tuned when it is started for the USB clock.
Rc32StartUntuned(c) == OscStart("RC32MHZ")

\* RC32MHZ is started wherever it is needed by the same lines.
Rc32Start(c) ==
  OscStart("RC32MHZ")
  \o When(c.ref # "none",
          When(c.ref # "USBSOF", OscStart(c.ref)) \o OscEnableAutocalibration)

\* Mutant: the crystal is taken to run already.
PllEnableSourceRunning(c) ==
  CASE c.pll.source = "RC32MHZ" -> UnlessReady("RC32MHZ", Rc32Start(c))
    [] OTHER -> <<>>

PllEnableSource(c) ==
  CASE c.pll.source = "RC2MHZ" -> <<>>
    [] c.pll.source = "RC32MHZ" -> UnlessReady("RC32MHZ", Rc32Start(c))
    [] c.pll.source = "XOSC" -> UnlessReady("XOSC", OscStart("XOSC"))

PllEnableConfigDefaults(c) ==
  UnlessReady("PLL", PllEnableSource(c)
                     \o Critical(Do("pllConfig", "PLL0") \o Do("oscOn", "PLL"))
                     \o Do("waitReady", "PLL"))

\* Mutant: the PLL's reference is not counted among the sources.
NeedRc2MhzForClockOnly(c) == c.source = "RC2MHZ"

\* need_rc2mhz of sysclk_init
NeedRc2Mhz(c) ==
  c.source = "RC2MHZ" \/ (c.source = "PLL" /\ c.pll.source = "RC2MHZ")

StartSource(c) ==
  CASE c.source = "RC2MHZ" -> <<>>
    [] c.source = "RC32MHZ" -> Rc32Start(c)
    [] c.source \in {"RC32KHZ", "XOSC"} -> OscStart(c.source)
    [] c.source = "PLL" -> PllEnableConfigDefaults(c)

SysclkInit(c) ==
  Do("gateAll", "PR")
  \o When(c.psa # 0 \/ c.psbc # 0, Do("prescale", "PSCTRL"))
  \o When(c.rc32 = 48000000, Do("calibrate", "RC32MHZ"))
  \o StartSource(c)
  \o When(c.source # "RC2MHZ", Do("select", "CTRL"))
  \o When(~NeedRc2Mhz(c), OscDisable("RC2MHZ"))

SysclkEnableModule(gate) == Critical(Do("ungate", gate))
SysclkDisableModule(gate) == Critical(Do("gate", gate))

\* sysclk_module_is_enabled
ModuleIsEnabled(gate) == gate \notin gated

SysclkEnableUsb(c) ==
  (IF c.usb = "RCOSC" THEN UnlessReady("RC32MHZ", Rc32Start(c))
                      ELSE PllEnableConfigDefaults(c))
  \o Do("usbClock", IF c.usb = "RCOSC" THEN "RC32MHZ" ELSE "PLL")
  \o SysclkEnableModule(UsbGate)

SysclkDisableUsb == SysclkDisableModule(UsbGate) \o Do("usbClock", "off")

SleepmgrLockMode(mode) == Critical(Do("lock", mode))
SleepmgrUnlockMode(mode) == Do("mustBeLocked", mode) \o Critical(Do("unlock", mode))

UddAttach == Critical(Do("uddSleepMode", TRUE) \o Do("attach", "USB"))

SysclkRtcsrcEnable(id) ==
  When(RtcOscillator[id] # "ULP", OscStart(RtcOscillator[id])) \o Do("rtcClock", id)
SysclkRtcsrcDisable == Do("rtcClock", "off")

UddEnable(c) ==
  When(c.ref = "USBSOF", Do("dfll", FALSE))
  \o SysclkEnableUsb(c)
  \o When(c.ref = "USBSOF", Do("dfll", TRUE))
  \o Critical(Do("driverReset", "USB") \o SleepmgrLockMode(UsbSuspendMode(c))
              \o UddAttach)

UddDisable(c) ==
  Critical(Do("detach", "USB") \o SysclkDisableUsb
           \o Do("uddSleepMode", FALSE) \o SleepmgrUnlockMode(UsbSuspendMode(c)))

\* Mutant: the mode is chosen with interrupts enabled.
SleepmgrEnterSleepOpen == Do("chooseMode", "SLEEP")

SleepmgrEnterSleep == Do("irqOff", "SREG") \o Do("chooseMode", "SLEEP")

IoInit == Do("port", "A") \o Do("port", "B") \o Do("port", "C")
          \o Do("port", "D") \o Do("port", "E") \o Do("port", "F")

Main(c) ==
  Do("irqOn", "SREG") \o Do("locksInit", "locks") \o SysclkInit(c) \o UddEnable(c)
  \o IoInit

Init ==
  /\ cfg \in Configs
  /\ todo = Main(cfg)
  /\ irq = [on |-> FALSE, saved |-> <<>>]
  /\ osc = [on |-> {"RC2MHZ"}, ready |-> {"RC2MHZ"}]
  /\ clk = [source |-> "RC2MHZ", psa |-> 0, psbc |-> 0, usb |-> "off", rtc |-> "off",
            pll |-> NoPll, xosc |-> <<"04TO2", 256>>]
  /\ dfll = [on |-> FALSE, ref |-> "RC32KHZ", comp |-> 32000000, cal |-> "reset"]
  /\ gated = {}
  /\ usb = [interrupts |-> FALSE, reset |-> FALSE, idle |-> FALSE, pads |-> "reset"]
  /\ locks = [m \in DOMAIN Mode |-> 0]
  /\ sleep = [mode |-> "IDLE", enabled |-> FALSE, asleep |-> FALSE]
  /\ ports = {}
  /\ inUse = {}

-----------------------------------------------------------------------------
(***************************************************************************)
(* Execution of one instruction of main.                                   *)
(***************************************************************************)
Now(op) == ~sleep.asleep /\ todo # <<>> /\ Head(todo)[1] = op
Arg == Head(todo)[2]
Goto(rest) == todo' = rest
Done == Goto(Tail(todo))

\* What the others leave alone, in groups.
OtherThanIrq == <<cfg, hardware, gated, usb, locks, sleep, ports, inUse>>
OtherThanClocks == <<cfg, irq, gated, usb, locks, sleep, ports, inUse>>
OtherThanGates == <<cfg, irq, hardware, usb, locks, sleep, ports, inUse>>
OtherThanUsb == <<cfg, irq, hardware, gated, sleep, ports, inUse>>

IrqOn == Now("irqOn") /\ Done /\ irq' = [irq EXCEPT !.on = TRUE] /\ UNCHANGED OtherThanIrq
IrqOff == Now("irqOff") /\ Done /\ irq' = [irq EXCEPT !.on = FALSE] /\ UNCHANGED OtherThanIrq

IrqSave ==
  /\ Now("save") /\ Done
  /\ irq' = [on |-> FALSE, saved |-> <<irq.on>> \o irq.saved]
  /\ UNCHANGED OtherThanIrq

\* Mutant: interrupts are enabled at the end of any critical section.
IrqRestoreEnables ==
  /\ Now("restore") /\ Done
  /\ irq' = [on |-> TRUE, saved |-> Tail(irq.saved)]
  /\ UNCHANGED OtherThanIrq

IrqRestore ==
  /\ Now("restore") /\ Done
  /\ irq' = [on |-> Head(irq.saved), saved |-> Tail(irq.saved)]
  /\ UNCHANGED OtherThanIrq

\* Clocks.
GateAll ==
  /\ Now("gateAll") /\ Done
  /\ gated' = AllGates
  /\ UNCHANGED OtherThanGates

Prescale ==
  /\ Now("prescale") /\ Done
  /\ clk' = [clk EXCEPT !.psa = cfg.psa, !.psbc = cfg.psbc]
  /\ UNCHANGED <<OtherThanClocks, osc, dfll>>

\* The signature row has a calibration for 48 MHz; a device whose row is
\* blank gets 0x2340.
Calibrate ==
  /\ Now("calibrate") /\ Done
  /\ dfll' = [dfll EXCEPT !.cal = IF cfg.row = "blank" THEN "sane" ELSE cfg.row]
  /\ UNCHANGED <<OtherThanClocks, osc, clk>>

OscOn ==
  /\ Now("oscOn") /\ Done
  /\ osc' = [osc EXCEPT !.on = @ \cup {Arg}]
  /\ UNCHANGED <<OtherThanClocks, clk, dfll>>

XoscConfig ==
  /\ Now("xoscConfig") /\ Done
  /\ clk' = [clk EXCEPT !.xosc = <<XoscRange(cfg.xosc), XoscStartup(cfg.xosc)>>]
  /\ UNCHANGED <<OtherThanClocks, osc, dfll>>

\* A PLL without its reference is not locked.
OscOff ==
  /\ Now("oscOff") /\ Done
  /\ osc' = [on |-> osc.on \ {Arg},
             ready |-> osc.ready \ ({Arg} \cup {id \in {"PLL"} : clk.pll.source = Arg})]
  /\ UNCHANGED <<OtherThanClocks, clk, dfll>>

\* The loop looks at the flag again and again.
WaitReady ==
  /\ Now("waitReady")
  /\ Goto(IF Arg \in osc.ready THEN Tail(todo) ELSE todo)
  /\ UNCHANGED <<OtherThanClocks, hardware>>

\* if (!osc_is_ready(id)), if (pll_is_locked(id)) return
IsReady ==
  /\ Now("unlessReady")
  /\ Goto(IF Arg[1] \in osc.ready THEN Tail(todo) ELSE Arg[2] \o Tail(todo))
  /\ UNCHANGED <<OtherThanClocks, hardware>>

\* COMP is written for USBSOF only.
Reference ==
  /\ Now("reference") /\ Done
  /\ dfll' = [dfll EXCEPT !.ref = cfg.ref,
                          !.comp = IF cfg.ref = "USBSOF" THEN 48000000 ELSE @]
  /\ UNCHANGED <<OtherThanClocks, osc, clk>>

DfllSwitch ==
  /\ Now("dfll") /\ Done
  /\ dfll' = [dfll EXCEPT !.on = Arg]
  /\ UNCHANGED <<OtherThanClocks, osc, clk>>

PllConfig ==
  /\ Now("pllConfig") /\ Done
  /\ clk' = [clk EXCEPT !.pll = cfg.pll]
  /\ UNCHANGED <<OtherThanClocks, osc, dfll>>

Select ==
  /\ Now("select") /\ Done
  /\ clk' = [clk EXCEPT !.source = cfg.source]
  /\ UNCHANGED <<OtherThanClocks, osc, dfll>>

UsbClock ==
  /\ Now("usbClock") /\ Done
  /\ clk' = [clk EXCEPT !.usb = Arg]
  /\ UNCHANGED <<OtherThanClocks, osc, dfll>>

RtcClock ==
  /\ Now("rtcClock") /\ Done
  /\ clk' = [clk EXCEPT !.rtc = Arg]
  /\ UNCHANGED <<OtherThanClocks, osc, dfll>>

Ungate ==
  /\ Now("ungate") /\ Done
  /\ gated' = gated \ {Arg}
  /\ UNCHANGED OtherThanGates

Gate ==
  /\ Now("gate") /\ Done
  /\ gated' = gated \cup {Arg}
  /\ UNCHANGED OtherThanGates

\* An oscillator that is on becomes ready; the PLL needs its reference.
OscReady ==
  /\ \E id \in osc.on \ osc.ready :
       /\ id = "PLL" => clk.pll.source \in osc.ready
       /\ osc' = [osc EXCEPT !.ready = @ \cup {id}]
  /\ UNCHANGED <<todo, OtherThanClocks, clk, dfll>>

-----------------------------------------------------------------------------
(***************************************************************************)
(* The driver and its sleep-mode locks.                                    *)
(***************************************************************************)
Level(mode) == CHOOSE i \in DOMAIN Mode : Mode[i] = mode

LocksInit ==
  /\ Now("locksInit") /\ Done
  /\ locks' = [m \in DOMAIN Mode |-> IF Mode[m] = "PDOWN" THEN 1 ELSE 0]
  /\ UNCHANGED <<OtherThanUsb, usb>>

\* At 255 sleepmgr_lock_mode does not return.
Lock ==
  /\ Now("lock") /\ locks[Level(Arg)] < 255 /\ Done
  /\ locks' = [locks EXCEPT ![Level(Arg)] = @ + 1]
  /\ UNCHANGED <<OtherThanUsb, usb>>

\* At 0 sleepmgr_unlock_mode does not return.
MustBeLocked ==
  /\ Now("mustBeLocked") /\ locks[Level(Arg)] > 0 /\ Done
  /\ UNCHANGED <<OtherThanUsb, usb, locks>>

Unlock ==
  /\ Now("unlock") /\ Done
  /\ locks' = [locks EXCEPT ![Level(Arg)] = @ - 1]
  /\ UNCHANGED <<OtherThanUsb, usb>>

\* udd_sleep_mode
UddSleepMode(b_idle) ==
  /\ usb' = [usb EXCEPT !.idle = b_idle]
  /\ locks' = [locks EXCEPT ![Level("IDLE")] =
                 IF b_idle /\ ~usb.idle THEN @ + 1
                 ELSE IF ~b_idle /\ usb.idle THEN @ - 1 ELSE @]

UddSleepModeCall ==
  /\ Now("uddSleepMode") /\ Done
  /\ UddSleepMode(Arg)
  /\ UNCHANGED OtherThanUsb

\* usb_pad_init: USB_CAL0 and USB_CAL1 from the signature row, or 0x1F.
UsbPadInit == IF cfg.row = "blank" THEN "typical" ELSE cfg.row

\* The endpoint table, the jobs, the pads and the FIFO; udd_b_idle is false.
DriverReset ==
  /\ Now("driverReset") /\ Done
  /\ usb' = [usb EXCEPT !.reset = TRUE, !.idle = FALSE, !.pads = UsbPadInit]
  /\ UNCHANGED <<OtherThanUsb, locks>>

Attach ==
  /\ Now("attach") /\ Done
  /\ usb' = [usb EXCEPT !.interrupts = TRUE]
  /\ UNCHANGED <<OtherThanUsb, locks>>

\* The module is detached and disabled, and raises no more interrupts.
Detach ==
  /\ Now("detach") /\ Done
  /\ usb' = [usb EXCEPT !.interrupts = FALSE, !.reset = FALSE]
  /\ UNCHANGED <<OtherThanUsb, locks>>

\* io_init: the pins with DIRCLR and a pull-up; the others are outputs.
Inputs == [p \in Port |-> CASE p = "A" -> {} [] p = "B" -> 0..5 [] p = "C" -> 2..7
                            [] p = "D" -> 0..5 [] p = "E" -> 0..7 [] p = "F" -> 4..7]

PortInit ==
  /\ Now("port") /\ Done
  /\ ports' = ports \cup {Arg}
  /\ UNCHANGED <<cfg, irq, hardware, gated, usb, locks, sleep, inUse>>

-----------------------------------------------------------------------------
(***************************************************************************)
(* Sleep.                                                                  *)
(***************************************************************************)
\* sleepmgr_configs, from the second mode on
SleepmgrConfigs == <<"IDLE", "ESTDBY", "PSAVE", "STDBY", "PDOWN">>

\* The shallowest mode with a lock.
GetSleepMode ==
  CHOOSE i \in DOMAIN Mode : locks[i] > 0 /\ \A j \in 1..(i - 1) : locks[j] = 0

\* sleepmgr_enter_sleep and sleepmgr_sleep
ChooseMode ==
  /\ Now("chooseMode")
  /\ Goto((IF Mode[GetSleepMode] = "ACTIVE" THEN Do("irqOn", "SREG")
           ELSE Do("sleepMode", SleepmgrConfigs[GetSleepMode - 1])
                \o Do("sleepEnabled", TRUE) \o Do("sleepEnter", "SREG")
                \o Do("sleepEnabled", FALSE))
          \o Tail(todo))
  /\ UNCHANGED <<OtherThanUsb, usb, locks>>

SleepSetMode ==
  /\ Now("sleepMode") /\ Done
  /\ sleep' = [sleep EXCEPT !.mode = Arg]
  /\ UNCHANGED <<cfg, irq, hardware, gated, usb, locks, ports, inUse>>

SleepEnabled ==
  /\ Now("sleepEnabled") /\ Done
  /\ sleep' = [sleep EXCEPT !.enabled = Arg]
  /\ UNCHANGED <<cfg, irq, hardware, gated, usb, locks, ports, inUse>>

\* sei, then sleep: the instruction after sei is executed before an interrupt.
SleepEnter ==
  /\ Now("sleepEnter") /\ Done
  /\ irq' = [irq EXCEPT !.on = TRUE]
  /\ sleep' = [sleep EXCEPT !.asleep = sleep.enabled]
  /\ UNCHANGED <<cfg, hardware, gated, usb, locks, ports, inUse>>

MainStep ==
  \/ IrqOn \/ IrqOff \/ IrqSave \/ IrqRestore
  \/ GateAll \/ Prescale \/ Calibrate \/ OscOn \/ OscOff \/ XoscConfig \/ WaitReady \/ IsReady
  \/ Reference \/ DfllSwitch \/ PllConfig \/ Select \/ UsbClock \/ RtcClock
  \/ Ungate \/ Gate
  \/ LocksInit \/ Lock \/ MustBeLocked \/ Unlock \/ UddSleepModeCall
  \/ DriverReset \/ Attach \/ Detach \/ PortInit
  \/ ChooseMode \/ SleepSetMode \/ SleepEnabled \/ SleepEnter

-----------------------------------------------------------------------------
(***************************************************************************)
(* The suspend and resume interrupts of the driver, with what they do to   *)
(* the locks; any of its interrupts wakes the CPU.                         *)
(***************************************************************************)
UsbIsr ==
  /\ irq.on /\ usb.interrupts
  /\ \E b_idle \in BOOLEAN : UddSleepMode(b_idle)
  /\ sleep' = [sleep EXCEPT !.asleep = FALSE]
  /\ UNCHANGED <<cfg, todo, irq, hardware, gated, ports, inUse>>

(***************************************************************************)
(* What an application may ask for in its loop.                            *)
(***************************************************************************)
InLoop == todo = <<>> /\ ~sleep.asleep
Call(body) == /\ InLoop /\ cfg \in ServiceConfigs \cup RtcConfigs
              /\ Goto(body)
              /\ UNCHANGED <<OtherThanUsb, usb, locks>>

\* A device without a wake-up source would not wake again.
EnterSleep == usb.interrupts /\ Call(SleepmgrEnterSleep)
UdcStop == usb.reset /\ Call(UddDisable(cfg))
UdcStart == ~usb.reset /\ Call(UddEnable(cfg))
LockActive == locks[1] = 0 /\ Call(SleepmgrLockMode("ACTIVE"))
UnlockActive == locks[1] > 0 /\ Call(SleepmgrUnlockMode("ACTIVE"))

\* sysclk_rtcsrc_enable and sysclk_rtcsrc_disable
RtcStart ==
  /\ clk.rtc = "off" /\ cfg \in RtcConfigs
  /\ \E id \in DOMAIN RtcOscillator : Call(SysclkRtcsrcEnable(id))
RtcStop == clk.rtc # "off" /\ Call(SysclkRtcsrcDisable)

\* sysclk_enable_peripheral_clock
StartPeripheral ==
  /\ InLoop /\ cfg \in ServiceConfigs /\ Cardinality(inUse) < MaxInUse
  /\ \E m \in Peripheral \ inUse :
       /\ Goto(SysclkEnableModule(EnableGate[m]))
       /\ inUse' = inUse \cup {m}
  /\ UNCHANGED <<cfg, irq, hardware, gated, usb, locks, sleep, ports>>

\* sysclk_disable_peripheral_clock
StopPeripheral ==
  /\ InLoop /\ cfg \in ServiceConfigs
  /\ \E m \in inUse :
       /\ Goto(SysclkDisableModule(DisableGate[m]))
       /\ inUse' = inUse \ {m}
  /\ UNCHANGED <<cfg, irq, hardware, gated, usb, locks, sleep, ports>>

Next ==
  \/ MainStep \/ OscReady \/ UsbIsr
  \/ EnterSleep \/ UdcStop \/ UdcStart \/ LockActive \/ UnlockActive
  \/ RtcStart \/ RtcStop \/ StartPeripheral \/ StopPeripheral

Spec == Init /\ [][Next]_vars

\* The CPU executes what it has to, and an oscillator that is on starts.
FairSpec == Spec /\ WF_vars(MainStep) /\ WF_vars(OscReady)

-----------------------------------------------------------------------------
(***************************************************************************)
(* The configurations for which the clocks can be right: what the device   *)
(* and the comments of sysclk.h ask of conf_clock.h, and what pll.h and    *)
(* osc.h assert.                                                           *)
(***************************************************************************)
\* The limits of the device: CPU 32 MHz, its fast bus 128 MHz; a slow source is
\* divided by no more than 4.
MaxCpuHz == 32000000
MaxFastHz == 128000000
WithinLimits(c) ==
  /\ CpuHz(c) <= MaxCpuHz /\ Per4Hz(c) <= MaxFastHz
  /\ c.source \in {"RC2MHZ", "RC32KHZ", "XOSC"} => c.psa \in {0, 3}

\* The USB clock is 48 MHz, from RC32MHZ only if it is tuned; and a PLL that runs
\* from RC2MHZ finds it running: pll_enable_source does not start it.
UsbAllowed(c) ==
  \/ c.usb = "RCOSC" /\ c.rc32 = 48000000 /\ c.ref = "USBSOF"
  \/ /\ c.usb = "PLL" /\ c.pll # NoPll /\ PllRate(c) = 48000000
     /\ c.pll.source = "RC2MHZ" => NeedRc2Mhz(c)

\* The DFLL's target is 48 MHz for USBSOF and 32 MHz for RC32KHZ.
TunedAsCalibrated(c) ==
  c.ref # "none" => (c.ref = "USBSOF" <=> c.rc32 = 48000000)

SoundConfigs ==
  {c \in Configuration :
     /\ c.source = "PLL" => c.pll # NoPll
     /\ c.pll # NoPll => PllAllowed(c)
     /\ XoscAllowed(c.xosc)
     /\ c.xosc # BoardXosc => "XOSC" \in {c.source, c.pll.source}
     /\ UsbAllowed(c) /\ TunedAsCalibrated(c) /\ WithinLimits(c)}

-----------------------------------------------------------------------------
(***************************************************************************)
(* What the registers make of the clocks.                                  *)
(***************************************************************************)
Rc32Hz ==
  IF dfll.on /\ dfll.ref = "RC32KHZ" THEN dfll.comp
  ELSE CASE dfll.cal = "reset" -> 32000000
         [] dfll.cal \in {"factory", "sane"} -> 48000000
         [] dfll.cal = "blank" -> 0

RunsAt(id) ==
  CASE id = "RC2MHZ" -> 2000000
    [] id = "RC32MHZ" -> Rc32Hz
    [] id = "RC32KHZ" -> 32768
    [] id = "XOSC" -> cfg.xosc.hz
    [] id = "PLL" -> clk.pll.mul * (CASE clk.pll.source = "RC2MHZ" -> 2000000
                                      [] clk.pll.source = "RC32MHZ" -> Rc32Hz \div 4
                                      [] clk.pll.source = "XOSC" -> cfg.xosc.hz
                                      [] OTHER -> 0)

\* The division by the prescaler A and the further one for the CPU, as the
\* datasheet has them.
DividedByA == [field \in {0, 1, 3, 5, 7} |->
                 CASE field = 0 -> 1 [] field = 1 -> 2 [] field = 3 -> 4
                   [] field = 5 -> 8 [] field = 7 -> 16]
DividedByBC == <<1, 2, 4, 4>>
BusFastHz == RunsAt(clk.source) \div DividedByA[clk.psa]
CpuRunsAt == BusFastHz \div DividedByBC[clk.psbc + 1]

\* FRQRANGE of OSC.XOSCCTRL in the datasheet.
InCrystalRange(hz, field) ==
  \/ field = "04TO2" /\ 400000 <= hz /\ hz <= 2000000
  \/ field = "2TO9" /\ 2000000 <= hz /\ hz <= 9000000
  \/ field = "9TO12" /\ 9000000 <= hz /\ hz <= 12000000
  \/ field = "12TO16" /\ 12000000 <= hz /\ hz <= 16000000

(***************************************************************************)
(* At every moment the CPU has a clock that runs, no faster than the 32    *)
(* MHz it stands: the prescalers come before the source, the wait before   *)
(* the selection, and RC2MHZ is stopped only when neither the CPU nor the  *)
(* PLL lives on it (sysclk_init).  The RTC never counts an oscillator that *)
(* is not ready (sysclk_rtcsrc_enable), and a crystal is started in its    *)
(* range and given the time that the board says it needs (osc.h).          *)
(***************************************************************************)
ClockAlwaysSound ==
  /\ clk.source \in osc.ready
  /\ CpuRunsAt \in 1..MaxCpuHz
  /\ clk.rtc \in DOMAIN RtcOscillator \ {"ULP"} => RtcOscillator[clk.rtc] \in osc.ready
  /\ "XOSC" \in osc.on /\ cfg.xosc.type = "XTAL" =>
       /\ InCrystalRange(cfg.xosc.hz, clk.xosc[1])
       /\ clk.xosc[2] * 1000 >= cfg.xosc.us * (cfg.xosc.hz \div 1000)

(***************************************************************************)
(* While the device is attached, the USB module has its clock, 48 MHz,     *)
(* from a source that is ready; RC32MHZ is calibrated for it whatever the  *)
(* signature row holds, and is being tuned to the frames of the host, as   *)
(* sysclk.h asks ("it must be tuned to 48 MHz by means of the DFLL").      *)
(***************************************************************************)
UsbClockIs48MHz ==
  usb.interrupts =>
    /\ UsbGate \notin gated
    /\ clk.usb \in osc.ready
    /\ RunsAt(clk.usb) = 48000000
    /\ clk.usb = "RC32MHZ" => dfll.on /\ dfll.ref = "USBSOF" /\ dfll.comp = 48000000

(***************************************************************************)
(* A handler never finds the driver half set up, or the locks of the sleep *)
(* manager in another state than udd_b_idle: udd_enable and udd_disable    *)
(* are one critical section although the calls in it have their own; and   *)
(* main's loop runs with interrupts enabled.  This is what BusTiming       *)
(* starts from, again after each stop and start of the stack.              *)
(***************************************************************************)
HandlersFindDriver ==
  /\ irq.on =>
       /\ usb.interrupts => usb.reset /\ usb.pads \in {"factory", "typical"}
       /\ usb.reset => usb.interrupts
       /\ usb.interrupts =>
            /\ locks[Level("PDOWN")] = 2
            /\ locks[Level("IDLE")] = IF usb.idle THEN 1 ELSE 0
  /\ InLoop => irq.on /\ irq.saved = <<>>
  /\ InLoop /\ ~usb.interrupts =>
       locks[Level("PDOWN")] = 1 /\ locks[Level("IDLE")] = 0

(***************************************************************************)
(* The CPU sleeps in no deeper mode than any lock allows, although a       *)
(* handler may take or give back a lock until the moment it sleeps         *)
(* (sleepmgr_enter_sleep); with a host that sends frames it keeps the USB  *)
(* clock.                                                                  *)
(***************************************************************************)
NeverSleepsTooDeep ==
  sleep.asleep =>
    /\ \A m \in DOMAIN Mode : locks[m] > 0 => Level(sleep.mode) <= m
    /\ usb.idle => sleep.mode = "IDLE"

(***************************************************************************)
(* In the loop exactly the peripherals in use have a clock, whatever was   *)
(* started and stopped before, and each at the rate                        *)
(* sysclk_get_peripheral_bus_hz reports for it.                            *)
(***************************************************************************)
PeripheralsClockedAsReported ==
  InLoop =>
    /\ {gate \in AllGates : ModuleIsEnabled(gate)} = {EnableGate[m] : m \in inUse}
                          \cup (IF usb.interrupts THEN {UsbGate} ELSE {})
    /\ \A m \in inUse :
         PeripheralBusHz(cfg, m) =
           IF m \in HighResolution THEN BusFastHz ELSE CpuRunsAt

\* The pins that joystick.c reads.
SliderPins == [p \in {"B", "C", "D", "E"} |->
                 CASE p = "B" -> 0..3 [] p = "C" -> 2..7 [] p = "D" -> 0..5
                   [] p = "E" -> 0..7]

(***************************************************************************)
(* The start-up ends: no oscillator is waited for that was not started, or *)
(* whose reference was stopped.  Then the device is attached and every     *)
(* slider pad can be read.                                                 *)
(***************************************************************************)
StartUpCompletes ==
  <>(/\ InLoop /\ irq.on /\ usb.interrupts
     /\ \A p \in DOMAIN SliderPins :
          p \in ports /\ SliderPins[p] \subseteq Inputs[p])
=============================================================================
