# The USB HID joystick of an ATxmega: models, checks and proofs

The program (`src/JoystickImplementation/src`) makes a joystick of two capacitive
sliders of 12 pads on an ATxmega board and reports their positions to a PC over USB,
as a generic HID device with one interrupt IN endpoint. It is built on the Atmel
Software Framework (ASF): clock and memory drivers, a driver of the USB module, a
device controller (UDC) and a HID interface. This directory holds TLA+ models of the
parts that run, the configurations with which TLC checks them, and theorems about them
that TLAPS checks.

Paths below are relative to `src/JoystickImplementation/src`; `USB` is
`ASF/xmega/drivers/usb/usb_device.c`, `UDC` is `ASF/common/services/usb/udc/udc.c`,
`HID` is `ASF/common/services/usb/class/hid/device/udi_hid.c`, `GEN` is
`ASF/common/services/usb/class/hid/device/generic/udi_hid_generic.c`, `NVM` is
`ASF/xmega/drivers/nvm/nvm.c` and `CLK` is
`ASF/common/services/clock/xmega/sysclk.c`. The device is an ATxmega256A3U on the
board STK600_RC044X.

## 1. The system

### 1.1 How the program runs

`main.c` starts clocks, the USB stack and the ports and then loops on nothing. Everything
else happens in two interrupt handlers of the USB module, `USB_BUSEVENT` (`USB:780`) and
`USB_TRNCOMPL` (`USB:838`). Both have the level `UDD_USB_INT_LEVEL`
(`ASF/xmega/drivers/usb/usb_device.h`), so neither interrupts the other: a handler
is atomic with respect to the program. What is concurrent is the hardware (the
endpoint table in RAM, the FIFO of completed transfers, the flags), the host and the
user's fingers. A handler deals with one event and returns, and what has become pending
in the meantime is dealt with in a fixed order: `USB_BUSEVENT` looks at Start of Frame,
then underflow and overflow, reset, suspend, resume; `USB_TRNCOMPL` comes after it
(higher vector) and takes completed transfers from the FIFO before it looks for a SETUP.
So events are handled in another order than they came. During start-up the handlers
interrupt `main`.

### 1.2 Components

| Component | State | Operations | Talks to |
|---|---|---|---|
| Sliders, LEDs, test mode (`joystick.c`, `led.c`, `io.c`, `ui.c`) | the last report, the LED port | `joystick`, `jstk_usbTask`, the reading of the ports, `led_*` | called from the SOF event; calls `udi_hid_generic_send_report_in` |
| HID interface (`GEN`, `main.c`) | report buffer and its "free" flag, rate, protocol, `main_b_generic_enable` | enable, disable, setup, send, `report_in_sent` callback | called by UDC and by the report task; calls `udd_ep_run` |
| HID class requests (`HID`) | none of its own | `udi_hid_setup` | called by UDC, links data to the control endpoint |
| UDC (`UDC`) | configuration, device status | `udc_reset`, `udc_process_setup` and each standard request | called by the driver; enables and disables interfaces, allocates and frees their endpoints |
| USB descriptors (`udi_hid_generic_desc.c`, `udc_desc.c`) | constant bytes | read by UDC, which walks over them | sent to the host |
| Control endpoint (`USB`) | the `udd_ctrl_*` variables, the request, endpoint 0 in the table | SETUP, IN sent, OUT received, underflow, overflow, stall, end | called by the handlers; calls UDC and the request's callback |
| Endpoint transfer driver (`USB`) | a job and a table entry for each endpoint | alloc, free, run, abort, halt, completion | called by UDC, GEN and the handler; calls the job's callback |
| Bus events and sleep (`USB`, `sleepmgr.h`) | `udd_b_idle`, the lock counters | SOF, reset, suspend, resume | locks and unlocks sleep modes |
| Start-up and clocks (`main.c`, `CLK`, `osc.h`, `pll.h`) | clock and oscillator registers, power reduction | `sysclk_init`, the USB clock, the RTC clock, clocks of peripherals | reads the calibration through NVM; runs against the handlers |
| Sleep entry (`sleepmgr.c`) | the sleep control register | `sleepmgr_enter_sleep` | reads the locks; never called by this `main.c` |
| Memory driver (`NVM`, `nvm.h`) | EEPROM, flash, user row, page buffers, command register | reads, page loads, erases, writes | start-up reads the calibration rows; nothing in this program writes |
| I/O port and board (`ioport.h`, `init.c`) | direction, level and configuration of pins | `ioport_*`, `LED_On`, `board_init` | `main.c` has the calls of `board_init` commented out (lines 60, 64) |

### 1.3 What is hard about it

* **Two views of one transfer.** The flag of GEN and the job of the driver are set by
  different layers; a reset, a SET_CONFIGURATION, a halt, a completion that is late
  must leave them in agreement, or no report is ever sent again.
* **A buffer read by hardware.** The USB module reads the report buffer whenever the
  host polls; nothing but the flag keeps the report task from writing it.
* **Lost handshakes.** When the host's acknowledgement is lost, host and device are one
  stage of a control transfer apart, and a SETUP comes while the device still waits.
* **Shared flags.** The underflow flag is one for all endpoints, and the bit that tells
  whose it is may be an old one; the completion FIFO holds entries of transfers that have
  been aborted.
* **Jobs in pieces.** A job is cut into hardware transfers, with a ZLP or a cache for
  what does not fit; a cut at the wrong byte ends the job for the host.
* **A handler that waits.** In test mode the SOF handler waits for 10 ms.
* **Torn reads.** The pads of one slider are on two ports, read one after the other.
* **Order of events.** A frame is handled before a reset that came before it.
* **Order of start-up.** Each oscillator is started, waited for and selected by code
  shared by several configurations; the USB handlers may run before `main` is through.
* **Sleep against wake-up.** The mode is chosen, then the CPU sleeps; a handler in
  between may have changed what is allowed.
* **Memory that is half written.** Page buffers keep what an earlier call loaded, writing
  can only clear bits, and the power may fail between erasing and writing.

`PROJECT.json` lists each of these at its line, with the properties about it.

### 1.4 What makes each component correct

* Report path: the flag and the job agree; the buffer is stable while it is offered; a
  position that is held reaches the host.
* Transfer driver: nothing is armed without a job; no halted endpoint has one; counters
  of 16 bits never wrap; the completion FIFO does not overflow; a job of any length
  arrives whole and in order; a completion finds its own endpoint.
* Control endpoint: the host sees a control transfer, with its data in order and whole;
  a request ends only after its status stage; a request is always answered, and one that
  is accepted is not stalled.
* UDC: the endpoints of the settings in use are allocated, and no others; no
  configuration is ever refused; a refused request changes nothing; the address is one
  the host asked for.
* Requests: no answer is longer than asked; descriptors can be read in pieces; an
  unconfigured device does not answer for its interface.
* Sliders: a report and a bar are those of a position that was held; the LEDs show one bar
  or none, and follow the switch.
* Bus events: suspend and resume are handled in order and in time.
* Start-up: the CPU always has a clock it can stand; USB has 48 MHz while attached; no
  handler sees a driver half set up; start-up ends.
* Memory: a write changes the cells it names and no others, whatever was loaded before;
  a power failure spoils only what is being programmed; reads return what is stored.
* Pins: a call changes only the pins it names.

## 2. The modules

| Module | Models | Refers to |
|---|---|---|
| `UsbEndpoint` | an endpoint of `USB` with its job, as operators from the endpoint before a call to the one after | |
| `HidDevice` | UDC, HID interface, report task, one endpoint, host and bus, composed | EXTENDS `UsbEndpoint` |
| `EpTransfers` | jobs of any number of hardware transfers on one endpoint, IN or OUT | EXTENDS `UsbEndpoint` |
| `EndpointTable` | the addresses of endpoints, jobs and FIFO entries, and the size and type fields | |
| `ControlTransfer` | abstract: a control transfer as the host sees it | |
| `ControlEndpoint` | the state machine of endpoint 0 with both handlers, against a host | implements `ControlTransfer` |
| `SetupRequests` | `udc_process_setup` and `udi_hid_setup` as a function of the packet | gives `ControlEndpoint` its requests |
| `UsbDescriptors` | the descriptors as bytes | |
| `Interfaces` | the walks of UDC over the bytes of a configuration, and what it enables | EXTENDS `UsbDescriptors` |
| `Joystick` | `joystick()`, port read by port read, the LEDs, the report task | |
| `BusTiming` | bus events and the sleep locks against the clock | |
| `ClockTables` | the configurations of `conf_clock.h`, rates, crystals, power-reduction tables | |
| `Startup` | `main()` instruction by instruction with the handlers, then the services an application may call | EXTENDS `ClockTables` |
| `ByteStore` | abstract: a memory whose calls name cells and values | |
| `Nvm` | the memory driver and its controller, with power failures | implements `ByteStore` |
| `IoPort` | the pin services and `board_init`, as operators on the port registers | |
| `MC*` | values for TLC | |
| `*Proofs` | theorems, each module EXTENDS the one it is about and `TLAPS`; `OperatorProofs` is about `EndpointTable`, `SetupRequests` and `IoPort`, which have no actions, and the sequences of packets in `MCSetupRequests` | |

### 2.1 HidDevice and UsbEndpoint

`dev` is the memory of the firmware: the fields have the names of the variables in the
code, and `dev.ep` is the record of `UsbEndpoint`, the entry of the endpoint table plus
`udd_ep_job_t`. Each routine of the driver is an operator on that record
(`EpRun` = `udd_ep_run`, `EpAbort` = `udd_ep_abort`, `TransCompletIn` = the IN half of
`udd_ep_trans_complet`, ...), because one handler calls several of them. The callback a
routine makes is returned separately (`AbortCalls`, `CompletionCalls`,
`ClearHaltCalls`), and `HidDevice` applies its effect, `ReportInSent`.

A run of a handler is one action: `SofIsr`, `ResetIsr`, `TransferIsr`, `SetupIsr`. It
applies everything the code does, in its order: `SetupIsr` for instance first ends the
request before (`Reinitialised`, with its callback), copies the packet, processes it, and
starts the status stage or stalls. The order of the handlers is in their guards.
`flags`, `setup`, `fifo` and `wire` are the hardware: pending flags, the SETUP buffer,
the FIFO of completions, and a transaction of endpoint 1 on the wire. The transaction
has begun before a handler and may end during or after it (`wire = "late"`), which is
how a completion comes for a job that was aborted; it takes at most some tens of
microseconds, so it has ended before a second handler starts.

The host resets, sends SETUPs at any time (also over one not handled yet), takes the
status stage with its acknowledgement lost or not, polls, acknowledges or loses. It
keeps the address it has given (`host.address`) and the device answers only at its own.
`hist` holds two facts for the properties: whether a report was aborted since the last
one sent, and which address was asked for last.

Control transfers are here only as far as requests without data go: those are the ones
that change the device. The data stages are in `ControlEndpoint`.

### 2.2 EpTransfers and EndpointTable

`EpTransfers` has the part of the transfer driver that the report of this program is too
short to reach: `udd_ep_run` cuts a job at whole packets, the completion accounts for a
transfer and starts the next, adds the ZLP that was asked for, and takes the last bytes
of an OUT job through the cache. A byte is told apart by its place in the job. The other
side sends OUT packets of any length up to a full one. Completions are queued and may be
handled late; `Abort`, `SetHalt`, `ClearHalt`, `Free` and `WaitStallClear` come at any
moment between handlers. `late` marks a job that began while the completion of an
aborted one still waited: what the code does to such a job is finding 2, and
`InJobWhole` and `OutJobHoldsStream` are stated for the others. Packets on the wire at
the moment of an abort are in `HidDevice` only; isochronous endpoints are not halted.

`EndpointTable` is the arithmetic by which an endpoint finds its table entry and its
job, the interrupt its FIFO entry, and a FIFO entry its endpoint.

### 2.3 ControlEndpoint and ControlTransfer

`c` is the `udd_ctrl_*` state machine with the status bits and counters of both
directions of endpoint 0; what the host has of the transfer is in `host`. The
decisions of UDC are in the request: accepted or not, and how many bytes are linked.
The state machine is modelled whole but for `over_under_run`, which no request of this
program registers. Both hardware rules that make the code what it is are in the host's
actions: a NAK sets the status bit of the endpoint *and* the flag shared by all
endpoints; a SETUP is always received, sets the NAK bits and clears the other status
bits. `HostStops` is a host that ends a data stage early. The loss of the *device's*
acknowledgement of an OUT packet is not modelled: no request of this device has data in
an OUT stage that is kept.

`ImplementsTransfer` is the refinement: what the host sees (`SeenByHost`: its phase,
request and bytes received) behaves as `ControlTransfer` says. Interrupts, NAKs, retries
are stuttering steps. A host expects that an accepted request is stalled only if it has
cut the data short. This device does not keep that in two cases, and `ControlTransfer`
names them in `MayStall`: the status stage of a read while endpoint 1 is polled too
(`ReportPolled`), and OUT data beyond the buffer of the request. Both are in
section 4; the refinement shows that there is no third.

### 2.4 SetupRequests, UsbDescriptors, Interfaces

`SetupPacket` decodes the 8 bytes; `ProcessSetup(d, p)` is the answer: accepted or not,
and how many bytes are linked. `SetupRequests!Transfer` turns packets into requests of
`ControlEndpoint`, and `MCControlEndpoint` uses it for the packets of this device.

`UsbDescriptors` writes the descriptors byte by byte from the structures and values of
this build. `Interfaces` is what UDC does with the bytes of *any* configuration: it looks
for an interface and a setting, then for the endpoints up to the next interface, and
allocates them; on refusal it has disabled what it has disabled. This device has one
interface and one setting; other layouts are what UDC is written for. As in the code,
the setting an interface reports is the one enabled last.

### 2.5 Joystick

One run of `joystick()` is a sequence of actions, one for each port read: C and D, E and
B for the LEDs, the switch (on port B), then E and B, C and D for the report. Ports are
sets of the bits that are high; a touched pad pulls its bit low. `held` is the set of
states the pads have had since the run began. Between any two reads the pads may change
and the switch may flip. A finger takes milliseconds and a run microseconds, so at most
`MaxChanges` = 1 change falls into a run. (With two changes a report can mix three
states: that is why the bound is a named constant and an assumption of the theorem.)

`HidDevice` takes the report task for one step that reads the position of the sliders at
once; `ReportWasHeld` is what justifies it.

### 2.6 BusTiming

The bus steps by milliseconds (`Tick`); handlers take no time except the SOF handler in
test mode with a slider touched, which takes `Delay` = 10. The times of the host are
those of USB 2.0: 3 ms of silence are a suspend, a resume is driven for 20 ms, a reset
for 10. `locks` are the counters of the sleep manager. The main loop never sleeps, so
the mode granted has no effect in this build; the property says that it would be the
right one, and `Startup` has the sleeping itself.

### 2.7 Startup and ClockTables

`todo` is what `main` has still to execute, a sequence of instructions; a function is the
sequence of its body, spliced in where it is called, and each instruction has an action
(`OscOn`, `WaitReady`, `Select`, `IrqSave`, ...). Conditions on hardware
(`UnlessReady`) are decided when they are reached. Oscillators that are on become ready
in their own time. Handlers come in between whenever interrupts are enabled and the
module is attached; they are what `BusTiming` has of them, the idle flag and its lock.
After `main`, the model calls the services an application may call from its loop: start
and stop of USB, of peripherals, of the RTC clock, and sleep.

`cfg` is a configuration of `conf_clock.h`. `SoundConfigs` are those that the
code's own `#error`s, the assertions and the datasheet allow (section 3.3).

### 2.8 Nvm and ByteStore

Memory is a function from cells to sets of bits that are one. `busy` is the command the
controller is executing; a call that needs several (`nvm_eeprom_erase_and_write_buffer`,
the row, flash buffers) leaves the rest in `call`. `PowerFails` may come at any time, and
what is being programmed may then hold anything. The rules for callers are those of the
documentation in `nvm.h` and stand in the guards: a buffer is flushed before it is
loaded, a range lies within its memory, `b_blank_check` is false only if the target is
erased, callers wait before they use the user row or the range CRC, and NVM.CMD is
restored after the calls that do not (`RestoreCmd`).

`ImplementsStore` maps `want` to what the current call still owes its caller and
`programming` to the cells of the command under way.

### 2.9 IoPort

`io[port]` holds direction, level and configuration of a port's pins; writes to the
strobe registers (DIRSET, OUTCLR, OUTTGL) act as the XMEGA manual says. Since the program
calls none of this while it runs, there are no actions: the operators are evaluated by
assumptions of `MCStartup` and proved about.

## 3. What TLC checks

All passing runs explore their whole state space.

| Run | Configuration | What it shows |
|---|---|---|
| `hid_safety` | `MCHidDevice.cfg`, 1,661,872 states | Over every order of frames, resets, SETUPs, polls and losses: the flag and the job agree (`ReportPathNotWedged`), no job on a halted endpoint, the endpoint belongs to the enabled interface, no configuration is refused, nothing is armed without a job, counters never wrap, the FIFO has room, the host has what the device believes it sent unless a report was aborted (`DeliveredWhenIdle`), the buffer is stable while it is offered, the address is 0 or the one asked for, a refused request changes nothing. |
| `hid_delivery` | `MCHidDevice_delivery.cfg`, 25,664 states | A held position reaches the host, unless a report was aborted. |
| `control` | `MCControlEndpoint.cfg`, 59,367 states | For a request of every shape the state machine has a branch for, with endpoint 1 polled as well, `ControlEndpoint` implements `ControlTransfer`: no accepted request is stalled but in its two named cases; a completion belongs to the stage it is handled in; a request ends only after the host's status stage; and although endpoint 1 raises the same flag, every request gets an answer (`RequestAnswered`). |
| `ctrl_shared_flag` | `MCControlEndpoint_shared.cfg`, violated | Finding 3. The requests are the device's own. |
| `setup_requests` | `MCSetupRequests.cfg`, 1,252,686 states | Every SETUP packet, byte by byte, around each limit, in every state of the device: the answer fits, descriptors can be read in pieces. For this configuration and 49 others, whatever is selected in whatever order, what the walks over the bytes enable and allocate is what the descriptor says, and both models of UDC answer alike (`InterfacesAsDescribed`). |
| `joystick` | `MCJoystick.cfg`, 608,850 states | Torn reads give no report (`ReportWasHeld`) and no bar (`BarWasHeld`) of a position that was not held; the LEDs go out for good once the switch stays in normal mode, and come to show the bar of pads that hold still in test mode (`LedsFollowSwitch`); pads held still are reported. |
| `joystick_contact` | `MCJoystick_contact.cfg`, violated | Finding 1. |
| `bus` | `MCBusTiming.cfg`, 3,492 states | Suspend and resume are handled in order and in time although a handler may wait; locks neither leak nor underflow; nothing waits for ever once the sliders are let go. |
| `startup` | `MCStartup.cfg`, 346,168 states | For every sound configuration: the CPU's clock runs and is no faster than 32 MHz at every instruction, USB has its 48 MHz, no handler finds the driver half set up, the CPU sleeps no deeper than the locks allow, peripherals in use have a clock at the rate reported, and start-up ends. The assumptions of `MCStartup` evaluate `IoPort`. |
| `nvm` | `MCNvm.cfg`, 538,890 states | The driver implements `ByteStore`, power failures included, and reads return what is stored. |
| `ep_transfers` | `MCEpTransfers.cfg`, 100,436 states | A job of any number of hardware transfers, IN or OUT, arrives whole, in order and once (`InJobWhole`, `OutJobHoldsStream`), and memory behind the buffer is not written. Its assumption evaluates `EndpointTable`. |
| `ep_abort` | `MCEpTransfers_abort.cfg`, violated | Finding 2. |

### 3.1 Bounds, and why they are enough

* `HidDevice`: two positions, of which one is the centre. The firmware only compares
  positions for equality, and the properties relate what was sent, what is held and what
  the host has; a third would be a second "other". One configuration, as the device has.
  `EpSize` 8, report of 2 bytes and a maximum of 1023, as in `config/conf_usb.h` and
  `usb_device.h`: a report is one transfer. `FifoSize` 4 is `2 * (USB_DEVICE_MAX_EP + 1)`;
  it is what `FifoNeverFull` is compared with, and bounds no action. `AllRequests` has each
  request, accepted and refused in each way; SET_PROTOCOL follows SET_IDLE and is left out
  of the run only. Nothing else is bounded: counters wrap or are reset in the code.
* `ControlEndpoint`: packets of 8 bytes, as the device has. The requests include data
  that ends in a full packet, in a short one, exactly at `wLength` and before it; OUT
  requests are of one or two packets, refused and accepted, which
  reaches each branch of `OutReceived`; accepted ones have no buffer, as in this program.
* `SetupRequests`: every field takes every value the code compares with, and one more. The
  other configurations have two interfaces of one or two settings, with none to two
  endpoints, shared or not, in either order. A request runs to its end before the next.
* `Joystick`: no contact, and pads on either side of the places where a slider passes from
  one port to the other, one or two at a time. The theorems are for all sets of pads.
* `BusTiming`: the real times; `age` is counted up to the time that matters.
* `Startup`: `SoundConfigs` takes every field of a configuration over the values the code
  distinguishes, with three crystals. Services after start-up are for this build
  (peripherals, sleep, USB off and on) and for the alternative of `conf_clock.h` (RTC,
  sleep, USB); `MaxInUse` = 2 peripherals at a time, enough for one to stop another's clock.
* `Nvm`: one bit per cell (bits do not interact), EEPROM of two pages of two bytes, two
  application pages and one boot page of two bytes; buffers of less than a page, a page and
  more than a page; `MaxCalls` = 3: one to leave something behind, one to suffer from it,
  one to see it.
* `EpTransfers`: `EpSize` 4, at most `MaxTrans` 11 bytes a transfer (so transfers of 8), jobs
  to `MaxSize` 19: up to three transfers, with and without a rest; `MaxFifo` 2 completions of
  this endpoint waiting.

### 3.2 Fairness

* Handlers are taken infinitely often if they are enabled infinitely often (SF): handlers
  return, and no interrupt of another level exists. `SF` and not `WF`, because a SOF or
  another completion may come in between and be taken first. In `HidDevice` and
  `ControlEndpoint` this assumes that test mode is not held for ever: `BusTiming` says
  what happens then (a SOF is always pending and is always taken first), and its
  `EventsHandled` is stated under `<>[]~held`.
* The host sends frames, polls the endpoint and repeats a token until it is answered;
  of packets sent again and again one is acknowledged in the end (SF on `PollAcked` and
  `HostIn(TRUE)`). No fairness on resets, SETUPs, fingers or the switch.
* `Joystick`: a run goes on (WF); `Send(TRUE)` is strongly fair: the endpoint takes a
  report once in a while. `HidDevice` is where that is looked into.
* `BusTiming`: time passes, and a handler that may run does.
* `Startup`: the CPU goes on with what it has to execute, and an oscillator that is on
  becomes ready (WF). Nothing is assumed of the handlers.

### 3.3 Assumptions on the hardware

The behaviour of the hardware is taken from the way the code uses it and marked external.

* USB module: a SETUP is received whatever the state of endpoint 0, sets its NAK bits and
  clears its completions; a completion sets NAK and TRNCOMPL and is queued; a transaction
  that has begun is finished although an abort sets NAK; a bus reset ends what is on the
  wire and leaves the endpoint table alone; any end of the silence of a suspended bus is a
  resume; once CTRLA is 0 the module raises no interrupt.
* Memory controller: a page erase leaves the page buffer loaded, a page write clears it; a
  location loaded twice holds the AND; LPM with another command in NVM.CMD returns
  anything; what is being programmed when the power fails may hold anything.
* CPU: the instruction after `sei` is executed before an interrupt, so `sei` and `sleep`
  are one step.
* Clocks: a PLL locks if its reference runs. `SoundConfigs` leaves out configurations that
  the code does not support although nothing refuses them: a PLL for USB that runs from
  RC2MHZ while the system clock is another source (`pll_enable_source` does not start
  RC2MHZ, which has been stopped: `pll.h:294`, and start-up waits for ever), and a DFLL
  tuned to RC32KHZ with a target of 48 MHz (the compare register is written only for
  USBSOF). Crystals are of whole megahertz.

## 4. Findings

Three have a run:

1. `joystick_contact`: a finger on pad 5 of the horizontal slider lights no LED: both
   distances are 0 and the tie goes to the slider that is not touched (`joystick.c:84`).
2. `ep_abort`: `udd_ep_abort` leaves the completion of the transfer just finished in the
   FIFO, and `udd_ep_trans_complet` does not look whether there still is a job: a job of
   several transfers that is aborted then goes on (`USB:1359`, `USB:1408`), against
   `udd.h:320`. The report of this program is one transfer and cannot meet it, which
   `OnlyJobsAreOffered` proves.
3. `ctrl_shared_flag`: the underflow flag is shared by all endpoints, and whose it is is
   told from the underflow bit of endpoint 0 (`USB:1260`), which a NAK of the data stage
   may have left behind. A NAK of endpoint 1 during the status stage of a read is then taken
   for endpoint 0's, and the status stage of a good request is stalled, against `USB:1257`
   and `USB:1200-1201`.

Met while modelling, and stated in the guards, hypotheses or exceptions of the models:

* The report task remembers a report as sent when the driver accepts it
  (`joystick.c:132`). When the transfer is aborted (SET_CONFIGURATION, SET_FEATURE(HALT),
  reset) the callback ignores the status (`GEN:278`), and the position is not sent again
  until it changes. The comment at `joystick.c:129` promises only "send if value changed".
  `PositionReachesHost` and `DeliveredWhenIdle` except it.
* SET_INTERFACE with a setting that does not exist disables the interface before it is
  refused (`UDC:911`); the next reset disables it again, against `udi.h:80`.
  `RefusedRequestHasNoEffect` excepts it, and `Interfaces` has it for every layout.
* SET_IDLE is accepted whatever its `wLength` is (`HID:97-99`), with no buffer for data. A
  full packet is cut to what the buffer takes, nothing, before it is compared with the size
  of a packet (`USB:1137-1146`), and is taken for a short one, against `USB:1149-1150`: the
  next packet is stalled although the rate has been set. `MayStall` names it.
* In test mode nine of ten frames have no SOF call (`joystick.c:147`, against `ui.h:41`).
* A SETUP in place of the status stage of SET_ADDRESS makes the device take the address
  without the handshake (`USB:1024`): the price of ending a request whose completion a
  SETUP has hidden. `AddressAsAsked` shows that the address is the one asked for.
* The slider shown by the LEDs is not always the one further out in the table at
  `joystick.c:99`, because the distances compared at `joystick.c:81` count from pad 5.
* `udd_ep_abort` reports only the bytes of the current hardware transfer (`USB:738`); a
  caller that waits for a halt to end is called as if it were a transfer by an abort, a
  second halt or a late completion (`USB:737`, `USB:1438`), and its callback may be NULL
  (`USB:657`, `USB:765`).
* `nvm_user_sig_write_buffer` never ends if the range passes the end of the row
  (`NVM:547`).
* `XOSC_STARTUP_TIMEOUT` is 0 for any crystal above 1 MHz, and the margin of 25 % that its
  comment asks for is not there (`osc.h:154-162`, `osc.h:127-135`);
  `BOARD_XOSC_STARTUP_CYCLES` cuts the frequency to whole megahertz (`osc.h:145`).
* With a clock that takes more than 10 ms to start, a suspended bus allows IDLE
  (`USB:143`); the table above says STDBY (`USB:116`).
* `arch_ioport_set_port_level` drives the other pins of the port low
  (`xmega/ioport.h:276-287`): theorem `GroupLevelForgetsOthers`.

## 5. What is proved

For all values of the constants, under their named assumptions and the hypotheses that a
theorem states.

* **HidDeviceProofs.** `Inv == TypeOK /\ Sound(dev)` is inductive. `Sound` is the
  conjunction of what has to hold of the firmware's memory between handlers: the endpoint
  is enabled exactly with the interface, and only in a configuration; a job only on an
  enabled endpoint that is not halted; and the flag free exactly when there is no job.
  No conjunct is inductive without the others: `ConfigurationNeverRefused`, for
  instance, needs the endpoint to be free after `udc_reset`, which only frees it when a
  configuration is set, which the second conjunct makes enough; and the flag can only be
  taken without a job if `udd_ep_run` is called on an endpoint that is not there. The
  proof begins with what each routine of `UsbEndpoint` keeps, has a lemma for each routine
  of the device and a step for each action. Theorems: `TypeCorrect`, `NotWedged`,
  `NoJobOnHaltedEndpoint`, `EndpointOwned`, `ConfigurationAccepted`. They hold for any set
  of positions, any set of requests the host may send, any number of configurations and
  any report that fits a packet.
* **HidDeviceProofs, transfers.** In the second part of the module: requests and resets
  only *stop* a transfer. The relation `Stopped` says so, is reflexive and transitive, and is proved of
  each routine, so that the steps that can start or advance a transfer are few.
  `TransferInv` adds to `Inv` which completions, in the FIFO or on the wire, belong to the
  job (`Transfers`), what the host has (`Delivery`), which address is on its way
  (`AddressPending`) and how many entries wait (`FifoLoad`; hence the assumption
  `FifoSize >= 4`). With the theorems `OnlyJobsAreOffered`, `CompletionFits`,
  `FifoHasRoom`, `HostHasReport`, `ReportStable`, `AddressWasAsked` and
  `RefusedHasNoEffect` every property of `hid_safety` is proved.
* **ControlEndpointProofs.** `Inv` has what the firmware and the status bits say of each
  other (`Completions`, `Stage`), the host's own account (`HostAccount`, `Whole`), what a
  NAK left (`Naked`), and `Engaged`, which relates the two sides: a SETUP waits
  (`Waiting`), or the request is under way and each state of the device allows some
  stages of the host (`UnderWay`), or there is no transfer and the device may be in any
  state. `Ended` says that a status stage that is complete for the device is over for the
  host, as long as no reset waits. Theorems: `TypeCorrect`, `DataStaysInOrder`,
  `PayloadIsWhole`, `CompletionBelongs`, `EndedByStatusStage`, for every packet size and
  every set of requests that satisfies `RequestsAssumption`; and the refinement
  `TransferImplemented`, whether endpoint 1 is polled or not and however much data an
  accepted OUT request has. The last conjunct of `UnderWay` says which requests may have a
  stall bit set; what `UnderWay` and `Naked` say of flags and status bits that wait is what
  keeps it: an underflow or overflow that waits means that the request may be stalled.
* **OperatorProofs, requests.** For every packet and any descriptors: `EveryAnswerFitsItsRequest`,
  `DescriptorsReadableInPieces` (two answers to one question for two lengths agree as far
  as the shorter goes), `UnconfiguredInterfaceIsSilent`, and `TransfersSuitControlEndpoint`,
  which is the assumption `RequestsAssumption` of `ControlEndpoint`: it ties the two models
  together. The first two hold of any device, so that no invariant is needed to carry them to
  the sequences of packets of `MCSetupRequests`: `AnswersFit` and `DescriptorsReadable`.
* **JoystickProofs.** `TypeCorrect`, and `OneBar` from
  `LedInv == lit \in Bars /\ run.mask \in Bars`, however often the pads change (for one
  change in a run it follows from `BarWasHeld`, which TLC checks). `ReportIsPosition` and
  `BarIsOfPosition` are about a run in progress: `HeldInv` says that what has been read so far was so in some
  state of the pads since the run began, and that any two of those states differ in one
  pad. The data lemmas `VertTorn` and `HoriTorn` show that two ports read from two such
  states decode to one of them, `NearPosition` and `NearBar` that two coordinates do. They
  assume `MaxChanges \in 0..1`. `AxisFollowsSlider` and `BarsMirrored` are about the tables.
* **BusTimingProofs.** `TypeCorrect` and `ClockKept` from the value of the locks
  (`LocksInv`) and from `ClockInv`: while the bus is not suspended, either a resume is still
  pending or the line is idle with no suspend pending. `ResumeInTime` holds for all times
  with `2 * Delay <= SuspendTime + ResumeTime + 1` (20 <= 24 here: the wait of
  test mode could be 12 ms, and no more). `LoadInv` bounds what the handlers still have to do by
  the time since the last frame: the one that runs and the one that waits, less the
  silence, less the resume so far.
* **OperatorProofs, tables.** For every table of up to 16 endpoint numbers:
  `CompletionFindsItsEndpoint`, `EndpointsHaveOwnEntries`, `FifoIsBelowTable`, including the
  pointer that counts down as a signed byte.
* **OperatorProofs, pins.** `CallsKeepOtherPins` for every service but one, and
  `GroupLevelForgetsOthers` for that one, for every state of the ports.
* **EpTransfersProofs.** `InJobSentWhole` and `OutJobReceivedWhole` state `InJobWhole` and
  `OutJobHoldsStream` for every packet size, every `MaxTrans` that holds a packet, jobs of
  any length that fits the RAM, and any number of completions that wait. Neither is
  inductive: both speak of jobs that are reported, and say nothing of the way there. `Inv`
  has the measure for it, the place in the job: `nb_trans` plus the counter is what has been
  on the wire, `nb_trans` is a multiple of the packet size, and the hardware points to
  the byte with that number (`InUnderWay`, `OutUnderWay`). A transfer that does not end in a
  full packet is the last one (IN), and either the buffer or the cache holds the bytes of
  the transfer under way and no byte behind its end (`ToBuffer`, `ToCacheBuffer`). `Quiet`
  is needed for after the end: the completion of an OUT job would write the buffer a second
  time if another were still to come, so none may wait unless the job is marked `late`.
* **NvmProofs.** `ReadsReturnMemory` and the refinement `StoreImplemented`, for every size of
  pages and memories, every content of a buffer and any number of calls. `Inv` keeps the
  account cell by cell. `Giving`: a command under way gives each of its cells the value the
  call was asked to give, or the one the cell has. `EepromLeft`, `FlashLeft`: a call with
  commands still to issue has exactly the rest of its bytes left to give, its page
  buffer is clean or about to be cleared, and flash ahead of it is erased (without that a
  write would AND). `RowLeft` and `RowSettled` are about the user row, which is erased and then
  written: in between, the page buffer has the cells that the call names as asked for and
  the others as they were. The proof has a part on
  functions over cells, one on what a page programs, and a step of the store for each action.
* **StartupProofs.** `HandlersAlwaysFindDriver` and `SleepsNoDeeperThanLocked`, for every set
  of configurations (with or without the limits of `SoundConfigs`) and every number of
  peripherals in use. The two properties relate interrupts, driver and locks at each
  instruction, and the instructions to come are data: `todo`, a sequence with no
  known bound. So the module has a small Hoare logic. A *label* says what the firmware has set
  up: how many critical sections it is in, how many locks it holds, whether the driver is
  off, set up, attached or leaving, how far it is on its way to sleep. `Runs(p, x, y)` says
  that the program `p` takes label `x` to label `y` whatever the hardware answers. It is
  coinductive (there is a set of programs with labels that is closed under executing an
  instruction), since induction over the program is out of reach; and it has a rule
  for each construct of `Startup`: an instruction, two programs in sequence, a critical
  section, a branch, a choice. `Inv`: what is left to do runs from a label that agrees with
  the state to one of `main`'s loop. That a label outside of critical sections has the
  driver off or attached with its lock is what handlers rely on; that interrupts come back
  only with the last restore is in `IrqAgrees`. TLC has checked an executable form of `Inv`,
  which computes the labels.
* **StartupProofs, clocks.** `ClockIsAlwaysSound`, `UsbClockAlways48MHz` and
  `PeripheralsAlwaysClocked`, for every set of configurations within `SoundConfigs` and any
  number of peripherals in use. Labels do not do here: what a line of `main` does depends on
  registers, and oscillators become ready at any time. In the second half of the module
  assertions are sets of clock states (oscillators, clock registers, DFLL, power reduction,
  whether the device is attached), and `Triple(c, P, p, Q)` says that `p`, started in a
  state of `P`, passes only through states of `Good(c)` and ends, if it ends, in `Q`.
  `Good` is what must hold between any two instructions: the CPU's source is ready, and
  the prescalers are set before a fast one is selected; a PLL that is on has the multiplier
  of the configuration, and one that is locked a reference that runs; RC32MHZ is calibrated
  before it is on at 48 MHz, and tuned to nothing else; an attached device has its clock.
  Most of this speaks of oscillators that nothing uses yet: it is what makes selecting them
  later safe. There is a lemma for each function of the clock drivers that follows the order
  of its calls, and the invariant of `ClocksInvariant` is that what is left to do leads from
  the present clocks to `main`'s loop, where the open gates are those of the peripherals in
  use; every service that may be called there leads back to it. The last lemmas turn
  registers into rates. The hypothesis `Configs \subseteq SoundConfigs` is needed: section
  3.3 names configurations that nothing refuses and that do not work. It is the one that
  `MCStartup.cfg` checks with (`Configs <- SoundConfigs`), and `ThisBuildIsSound` shows
  that this program's configuration satisfies it.

The assumptions on the constants are the code's. `EpTransfers`: a job with a packet to
spare is shorter than 64 KB (`MaxSize + EpSize <= 65536`): the buffer lies in the 16 KB of
RAM, and `nb_trans` has 16 bits. `Nvm`: the page size of the EEPROM divides 256 (`NVM:153` passes an
address as the 8 bits of `byte_addr`, `NVM:233`), flash pages are whole words, and buffers are not
empty. `Startup`: a configuration that selects the PLL defines one (without
`CONFIG_PLL0_SOURCE` the cases of the PLL at `CLK:117` and `CLK:225` are not compiled, and
the one returns early and the other asserts).

Only model-checked:

* the liveness properties (`PositionReachesHost`, `RequestAnswered`, `EventsHandled`,
  `LedsFollowSwitch`, `StartUpCompletes`, ...): liveness under fairness is beyond the proof system;
* the walks of `Interfaces` over the bytes of a configuration (`InterfacesAsDescribed`):
  folds and functions defined by recursion on a position, that is, induction over data. It
  is the only invariant of a passing run that is not proved.

No module has recursive operators.

## 6. What is not modelled

* The loss of the device's acknowledgement of an OUT packet (`USB:1144`): dropping the
  repetition is the work of the data toggle, which is in the hardware.
* `over_under_run`, which no request of this program registers, and a callback that a
  waiter for the end of a halt would run (`USB:737`): there is no such caller.
* OUT endpoints in `HidDevice`: the program has none (`EpTransfers` has them).
  High-speed branches, the qualifier and BOS descriptors: not compiled.
* `udd_send_remotewakeup`, `led_allOn`, `led_off` and `led_toggle` are never called.
* Device id and revision of the memory driver: reads of single registers.
* Two callers that interleave on one port: board support is not called while the program
  runs. The branches of `ioport.h` for other families are not compiled.
* `parts.h`, `compiler.h` and `preprocessor` headers: lists of devices and macros that
  leave no state. The ASF example user interface is for another board; `src/ui.c` takes its
  place.

## 7. What could follow

`HidDevice` with requests that carry data, so that the control endpoint and the report
endpoint share the FIFO in one model and not through `ReportNaked`.
