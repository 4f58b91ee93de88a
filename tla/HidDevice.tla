----------------------------- MODULE HidDevice -----------------------------
(***************************************************************************)
(* The joystick as the USB host sees it: the device controller (udc.c), the*)
(* HID interface (udi_hid_generic.c), the report task run from the Start-  *)
(* of-Frame interrupt (main.c, ui.c, joystick.c) and the interrupt IN      *)
(* endpoint they share (UsbEndpoint), under every interleaving of bus      *)
(* reset, Start of Frame, SETUP requests, IN polling and slider movement.  *)
(*                                                                         *)
(* The whole firmware runs inside the two USB interrupt handlers.  Both    *)
(* have level UDD_USB_INT_LEVEL, so neither interrupts the other: a run of *)
(* a handler is one step, and what is concurrent is the hardware and the   *)
(* host, which move between handlers and see what a handler left behind.   *)
(*                                                                         *)
(* Control transfers are followed here only as far as they change the      *)
(* device: SETUP, the status stage, and the callback that waits for it.    *)
(***************************************************************************)
EXTENDS UsbEndpoint, Sequences

CONSTANTS Reports,        \* the positions the sliders can report
          Center,         \* {128, 128}
          NumConfig,      \* bNumConfigurations
          ReportSize,     \* UDI_HID_REPORT_IN_SIZE
          FifoSize,       \* entries of the transaction-complete FIFO
          HostRequests    \* the SETUP requests the host may send

RequestKind ==
  {"SET_ADDRESS", "SET_CONFIGURATION", "SET_INTERFACE",
   "SET_FEATURE_HALT", "CLEAR_FEATURE_HALT",
   "SET_FEATURE_WAKEUP", "CLEAR_FEATURE_WAKEUP",
   "SET_IDLE", "SET_PROTOCOL", "UNSUPPORTED"}
Request == [kind : RequestKind, wValue : Nat]
NoRequest == [kind |-> "NONE", wValue |-> 0]

ASSUME ReportsAssumption == Center \in Reports
ASSUME ReportSizeAssumption == ReportSize \in 1..EpSize
ASSUME NumConfigAssumption == NumConfig \in 0..255
\* 2 * (USB_DEVICE_MAX_EP + 1), and there is at least the report endpoint.
ASSUME FifoSizeAssumption == FifoSize \in Nat /\ FifoSize >= 4
ASSUME RequestsAssumption == HostRequests \subseteq Request

VARIABLES
  dev,      \* the variables of the firmware and the endpoint table
  flags,    \* pending bus events: [sof, reset]
  setup,    \* the SETUP packet received and not yet handled, or NoRequest
  fifo,     \* the transaction-complete FIFO
  wire,     \* the IN transaction of endpoint 1 on the bus
  slider,   \* what jstk_readHoriIndex and jstk_readVertIndex would report
  testSwitch,  \* PORTB pin 4: TRUE in normal mode
  host,     \* the host: [address, next, waiting, report]
  hist      \* history: [aborted, asked]

vars == <<dev, flags, setup, fifo, wire, slider, testSwitch, host, hist>>

ControlState == {"SETUP", "HANDSHAKE_WAIT_IN_ZLP", "STALL_REQ"}
Callback == {"NULL", "udc_valid_address"}
TransferDone == {"EP0_IN", "EP1_IN"}

DeviceType ==
  [ep                : EndpointType,
   control_enabled   : BOOLEAN,   \* endpoint 0 is configured
   control_state     : ControlState,
   zlp_armed         : BOOLEAN,   \* endpoint 0 IN does not NAK
   zlp_done          : BOOLEAN,   \* TRNCOMPL0 of endpoint 0 IN
   wValue            : Nat,       \* udd_g_ctrlreq.req.wValue
   callback          : Callback,  \* udd_g_ctrlreq.callback
   address           : Nat,
   num_configuration : Nat,
   remote_wakeup     : BOOLEAN,
   rate              : Nat,
   protocol          : Nat,
   generic_enable    : BOOLEAN,
   report_in_free    : BOOLEAN,
   report_in         : Reports,
   prevReport        : Reports]

TypeOK ==
  /\ dev \in DeviceType
  /\ flags \in [sof : BOOLEAN, reset : BOOLEAN]
  /\ setup \in Request \cup {NoRequest}
  /\ fifo \in Seq(TransferDone)
  /\ wire \in {"idle", "data", "late"}
  /\ slider \in Reports
  /\ testSwitch \in BOOLEAN
  /\ host \in [address : Nat, next : Nat, waiting : BOOLEAN, report : Reports]
  /\ hist \in [aborted : BOOLEAN, asked : Nat]

\* After udd_enable: the endpoint table is clear, and endpoint 0 is configured
\* only by the handler of the first bus reset.
Init ==
  /\ dev = [ep |-> EpOff, control_enabled |-> FALSE, control_state |-> "SETUP",
            zlp_armed |-> FALSE, zlp_done |-> FALSE,
            wValue |-> 0, callback |-> "NULL",
            address |-> 0, num_configuration |-> 0, remote_wakeup |-> FALSE,
            rate |-> 0, protocol |-> 0,
            generic_enable |-> FALSE, report_in_free |-> FALSE,
            report_in |-> Center, prevReport |-> Center]
  /\ flags = [sof |-> FALSE, reset |-> FALSE]
  /\ setup = NoRequest
  /\ fifo = <<>>
  /\ wire = "idle"
  /\ slider = Center
  /\ testSwitch = TRUE
  /\ host = [address |-> 0, next |-> 0, waiting |-> FALSE, report |-> Center]
  /\ hist = [aborted |-> FALSE, asked |-> 0]

-----------------------------------------------------------------------------
(***************************************************************************)
(* Endpoint routines with the callback they make.  The only callback ever  *)
(* registered is udi_hid_generic_report_in_sent, which frees the report    *)
(* buffer whatever the status it is given.                                 *)
(***************************************************************************)
ReportInSent(d, called) == [d EXCEPT !.report_in_free = @ \/ called]

Abort(d) == [ReportInSent(d, AbortCalls(d.ep)) EXCEPT !.ep = EpAbort(@)]
Free(d) == [ReportInSent(d, AbortCalls(d.ep)) EXCEPT !.ep = EpFree(@)]
SetHalt(d) ==
  LET a == Abort(d)   \* udc_req_std_ep_set_feature aborts, then halts
  IN  [ReportInSent(a, AbortCalls(a.ep)) EXCEPT !.ep = EpSetHalt(@)]
ClearHalt(d) ==
  [ReportInSent(d, ClearHaltCalls(d.ep)) EXCEPT !.ep = EpClearHalt(@)]

-----------------------------------------------------------------------------
(***************************************************************************)
(* udc.c: configurations and interfaces.  There is one interface, with the *)
(* alternate setting 0 only.                                               *)
(***************************************************************************)
UdiEnable(d) ==
  [d EXCEPT !.rate = 0, !.protocol = 0, !.report_in_free = TRUE,
            !.generic_enable = TRUE]
UdiDisable(d) == [d EXCEPT !.generic_enable = FALSE]

\* Mutant: the endpoints of the interface are not freed.
IfaceDisableKeepsEndpoint(d) == UdiDisable(d)

IfaceDisable(d) == UdiDisable(Free(d))

\* The setting must exist and its endpoint must not be allocated already.
IfaceEnableAccepts(d, setting) == setting = 0 /\ ~d.ep.enabled
IfaceEnable(d, setting) ==
  IF IfaceEnableAccepts(d, setting)
  THEN UdiEnable([d EXCEPT !.ep = EpAlloc(@)])
  ELSE d

UdcReset(d) ==
  [IF d.num_configuration # 0 THEN IfaceDisable(d) ELSE d
     EXCEPT !.num_configuration = 0, !.remote_wakeup = FALSE]

Configured(d) == d.num_configuration # 0

ConfigurationExists(d, n) == d.address # 0 /\ n <= NumConfig
Reconfigured(d, n) == [UdcReset(d) EXCEPT !.num_configuration = n]

-----------------------------------------------------------------------------
(***************************************************************************)
(* udc_process_setup: which requests are accepted, and the device after    *)
(* each of them.  A refused request may already have changed the device.   *)
(***************************************************************************)
SetConfigurationAccepted(d, n) ==
  /\ ConfigurationExists(d, n)
  /\ n = 0 \/ IfaceEnableAccepts(Reconfigured(d, n), 0)
SetConfiguration(d, n) ==
  IF ~ConfigurationExists(d, n) THEN d
  ELSE IF n = 0 THEN Reconfigured(d, 0)
  ELSE IfaceEnable(Reconfigured(d, n), 0)

\* The interface is disabled before the new setting is looked for.
SetInterfaceAccepted(d, setting) ==
  Configured(d) /\ IfaceEnableAccepts(IfaceDisable(d), setting)
SetInterface(d, setting) ==
  IF Configured(d) THEN IfaceEnable(IfaceDisable(d), setting) ELSE d

\* wValue is two bytes.
RequestedAddress(r, otherwise) ==
  IF r.kind = "SET_ADDRESS" THEN r.wValue % 128 ELSE otherwise
Low(r) == r.wValue % 256
High(r) == r.wValue \div 256

\* Class requests reach an interface of the current configuration only.
ClassRequest == {"SET_IDLE", "SET_PROTOCOL"}

Accepts(d, r) ==
  /\ r.kind \notin {"UNSUPPORTED", "NONE"}
  /\ r.kind = "SET_CONFIGURATION" => SetConfigurationAccepted(d, Low(r))
  /\ r.kind = "SET_INTERFACE" => SetInterfaceAccepted(d, Low(r))
  /\ r.kind \in ClassRequest => Configured(d)

Setting(d, r) ==
  [d EXCEPT
     !.callback = IF r.kind = "SET_ADDRESS" THEN "udc_valid_address" ELSE @,
     !.remote_wakeup = IF r.kind = "SET_FEATURE_WAKEUP" THEN TRUE
                       ELSE @ /\ r.kind # "CLEAR_FEATURE_WAKEUP",
     !.rate = IF r.kind = "SET_IDLE" /\ Configured(d) THEN High(r) ELSE @,
     !.protocol = IF r.kind = "SET_PROTOCOL" /\ Configured(d) THEN Low(r) ELSE @]

Processed(d, r) ==
  IF r.kind = "SET_CONFIGURATION" THEN SetConfiguration(d, Low(r))
  ELSE IF r.kind = "SET_INTERFACE" THEN SetInterface(d, Low(r))
  ELSE IF r.kind = "SET_FEATURE_HALT" THEN SetHalt(d)
  ELSE IF r.kind = "CLEAR_FEATURE_HALT" THEN ClearHalt(d)
  ELSE Setting(d, r)

-----------------------------------------------------------------------------
(***************************************************************************)
(* The control endpoint, as far as these requests go.                      *)
(***************************************************************************)
CtrlInit(d) ==
  [d EXCEPT !.zlp_armed = FALSE, !.zlp_done = FALSE, !.callback = "NULL",
            !.control_state = "SETUP"]

\* The callback reads the request that is in udd_g_ctrlreq when it runs.
EndOfRequest(d) ==
  IF d.callback = "udc_valid_address" THEN [d EXCEPT !.address = d.wValue % 128] ELSE d

\* A SETUP can hide the event of the ZLP that ended the request before it.
Reinitialised(d) ==
  IF d.control_state = "HANDSHAKE_WAIT_IN_ZLP" THEN CtrlInit(EndOfRequest(d))
  ELSE IF d.control_state = "STALL_REQ" THEN CtrlInit(d)
  ELSE d

\* Mutant: the request is copied before the callback of the last one has run.
SetupReceivedCopiesFirst(d, r) ==
  LET ready == [Reinitialised([d EXCEPT !.wValue = r.wValue]) EXCEPT !.callback = "NULL"]
  IN  IF Accepts(ready, r)
      THEN [Processed(ready, r) EXCEPT
              !.control_state = "HANDSHAKE_WAIT_IN_ZLP", !.zlp_armed = TRUE]
      ELSE [Processed(ready, r) EXCEPT !.control_state = "STALL_REQ"]

\* Mutant: the test for a request without data phase is missing.
SetupReceivedWaitsForData(d, r) ==
  LET ready == [Reinitialised(d) EXCEPT !.wValue = r.wValue, !.callback = "NULL"]
  IN  IF Accepts(ready, r)
      THEN [Processed(ready, r) EXCEPT !.control_state = "DATA_OUT"]
      ELSE [Processed(ready, r) EXCEPT !.control_state = "STALL_REQ"]

SetupReceived(d, r) ==
  LET ready == [Reinitialised(d) EXCEPT !.wValue = r.wValue, !.callback = "NULL"]
  IN  IF Accepts(ready, r)
      THEN [Processed(ready, r) EXCEPT
              !.control_state = "HANDSHAKE_WAIT_IN_ZLP", !.zlp_armed = TRUE]
      ELSE [Processed(ready, r) EXCEPT !.control_state = "STALL_REQ"]

-----------------------------------------------------------------------------
(***************************************************************************)
(* The report task.  prevReport advances when the transfer is accepted.    *)
(***************************************************************************)
ReportJob == [size |-> ReportSize, shortpacket |-> FALSE]

\* Mutant: the flag is taken before the endpoint driver has accepted the job.
SendReportInTakesFlag(d, data) ==
  IF d.report_in_free
  THEN [d EXCEPT !.report_in = data, !.ep = EpRun(@, ReportJob),
                 !.report_in_free = FALSE]
  ELSE d

\* Mutant: the buffer is filled before the flag is tested.
SendReportInFillsFirst(d, data) ==
  IF d.report_in_free
  THEN [d EXCEPT !.report_in = data, !.ep = EpRun(@, ReportJob),
                 !.report_in_free = ~EpRunAccepts(d.ep)]
  ELSE [d EXCEPT !.report_in = data]

\* Mutant: the newest report replaces the one under way.
SendReportInReplaces(d, data) ==
  [d EXCEPT !.report_in = data, !.ep = EpRun(EpAbort(@), ReportJob),
            !.report_in_free = ~EpRunAccepts(EpAbort(d.ep))]

SendReportIn(d, data) ==
  IF d.report_in_free
  THEN [d EXCEPT !.report_in = data,
                 !.ep = EpRun(@, ReportJob),
                 !.report_in_free = ~EpRunAccepts(d.ep)]
  ELSE d
SendAccepted(d) == d.report_in_free /\ EpRunAccepts(d.ep)

\* Mutant: the position counts as sent although the endpoint was not ready.
UsbTaskAssumesSent(d, data) ==
  IF data = d.prevReport THEN d ELSE [SendReportIn(d, data) EXCEPT !.prevReport = data]

UsbTask(d, data) ==
  IF data = d.prevReport THEN d
  ELSE [SendReportIn(d, data) EXCEPT !.prevReport = IF SendAccepted(d) THEN data ELSE @]

SofAction(d, data, normal) ==
  IF d.generic_enable /\ normal THEN UsbTask(d, data) ELSE d

-----------------------------------------------------------------------------
(***************************************************************************)
(* The interrupt handlers.  A transaction that was on the wire when a      *)
(* handler started has ended before the next one starts: it takes less     *)
(* time than a handler does.                                               *)
(***************************************************************************)
Handler ==
  /\ wire # "late"
  /\ wire' = IF wire = "data" THEN "late" ELSE wire
  /\ UNCHANGED <<slider, testSwitch, host>>

\* USB_BUSEVENT: a Start of Frame is looked at before a reset.
SofIsr ==
  /\ Handler
  /\ flags.sof
  /\ flags' = [flags EXCEPT !.sof = FALSE]
  /\ dev' = SofAction(dev, slider, testSwitch)
  /\ UNCHANGED <<setup, fifo, hist>>

\* udd_ep_init of endpoint 0 clears its STATUS, udd_ctrl_init the rest.
BusReset(d) == CtrlInit([UdcReset(Abort(d)) EXCEPT !.address = 0,
                                                   !.control_enabled = TRUE])

ResetIsr ==
  /\ Handler
  /\ flags.reset /\ ~flags.sof
  /\ flags' = [flags EXCEPT !.reset = FALSE]
  /\ dev' = BusReset(dev)
  /\ hist' = [hist EXCEPT !.aborted = @ \/ dev.ep.busy]
  /\ UNCHANGED <<setup, fifo>>

\* USB_TRNCOMPL comes after USB_BUSEVENT, and drains the FIFO before it looks
\* for a SETUP.
NoBusEvent == ~flags.sof /\ ~flags.reset

\* zlp_done is FALSE when udd_ep_init has dropped the entry's completion.
InSent(d) ==
  IF d.zlp_done /\ d.control_state = "HANDSHAKE_WAIT_IN_ZLP"
  THEN CtrlInit(EndOfRequest(d))
  ELSE [d EXCEPT !.zlp_done = FALSE]

TransComplet(d) ==
  IF d.ep.trncompl
  THEN LET acked == EpAckTc(d.ep)
       IN  [ReportInSent(d, CompletionCalls(acked)) EXCEPT !.ep = TransCompletIn(acked)]
  ELSE d

TransferIsr ==
  /\ Handler
  /\ NoBusEvent
  /\ fifo # <<>>
  /\ fifo' = Tail(fifo)
  /\ dev' = IF Head(fifo) = "EP0_IN" THEN InSent(dev) ELSE TransComplet(dev)
  /\ hist' = [hist EXCEPT !.aborted = @ /\ ~(dev.ep.busy /\ ~dev'.ep.busy)]
  /\ UNCHANGED <<flags, setup>>

SetupIsr ==
  /\ Handler
  /\ NoBusEvent
  /\ fifo = <<>>
  /\ setup # NoRequest
  /\ setup' = NoRequest
  /\ dev' = SetupReceived(dev, setup)
  /\ hist' = [aborted |-> hist.aborted \/ (dev.ep.busy /\ ~dev'.ep.busy),
              asked   |-> RequestedAddress(setup, hist.asked)]
  /\ UNCHANGED <<flags, fifo>>

Isr == SofIsr \/ ResetIsr \/ TransferIsr \/ SetupIsr

-----------------------------------------------------------------------------
(***************************************************************************)
(* The host and the bus.  The device answers only at its own address, and  *)
(* the host leaves it alone while it drives a reset.                       *)
(***************************************************************************)
Addressed == host.address = dev.address /\ ~flags.reset

HostSof ==
  /\ ~flags.sof /\ ~flags.reset
  /\ flags' = [flags EXCEPT !.sof = TRUE]
  /\ UNCHANGED <<dev, setup, fifo, wire, slider, testSwitch, host, hist>>

\* A transaction on the wire dies with the reset; a SETUP already received
\* stays in the endpoint's buffer.
HostReset ==
  /\ ~flags.reset
  /\ flags' = [flags EXCEPT !.reset = TRUE]
  /\ wire' = "idle"
  /\ host' = [host EXCEPT !.address = 0, !.next = 0, !.waiting = FALSE]
  /\ UNCHANGED <<dev, setup, fifo, slider, testSwitch, hist>>

\* A SETUP is never NAKed: it may replace one not handled yet, and it may
\* come before the status stage of the request before it.  It sets the NAK bit of
\* endpoint 0 and clears its other status bits, a completion among them.
HostSetup(r) ==
  /\ Addressed /\ dev.control_enabled
  /\ setup' = r
  /\ dev' = [dev EXCEPT !.zlp_armed = FALSE, !.zlp_done = FALSE]
  /\ host' = [host EXCEPT !.next = RequestedAddress(r, host.address), !.waiting = TRUE]
  /\ UNCHANGED <<flags, fifo, wire, slider, testSwitch, hist>>

\* The status stage of the request: the host takes the ZLP and goes on, the
\* device learns of it unless the host's ACK is lost.
HostTakesZlp(acked) ==
  /\ Addressed
  /\ dev.zlp_armed /\ setup = NoRequest /\ host.waiting
  /\ IF acked
     THEN /\ dev' = [dev EXCEPT !.zlp_armed = FALSE, !.zlp_done = TRUE]
          /\ fifo' = Append(fifo, "EP0_IN")
     ELSE UNCHANGED <<dev, fifo>>
  /\ host' = [host EXCEPT !.waiting = FALSE, !.address = host.next]
  /\ UNCHANGED <<flags, setup, wire, slider, testSwitch, hist>>

\* The host polls endpoint 1 and the hardware starts to send the buffer.
HostPoll ==
  /\ Addressed
  /\ wire = "idle" /\ EpAnswers(dev.ep)
  /\ wire' = "data"
  /\ UNCHANGED <<dev, flags, setup, fifo, slider, testSwitch, host, hist>>

\* The host has the packet and its ACK reaches the hardware.
PollAcked ==
  /\ wire # "idle"
  /\ wire' = "idle"
  /\ dev' = [dev EXCEPT !.ep = EpHwComplete(@, dev.ep.cnt)]
  /\ fifo' = Append(fifo, "EP1_IN")
  /\ host' = [host EXCEPT !.report = dev.report_in]
  /\ UNCHANGED <<flags, setup, slider, testSwitch, hist>>

\* The packet or the ACK is lost: the hardware sends again at the next poll.
PollLost(received) ==
  /\ wire # "idle"
  /\ wire' = "idle"
  /\ host' = IF received THEN [host EXCEPT !.report = dev.report_in] ELSE host
  /\ UNCHANGED <<dev, flags, setup, fifo, slider, testSwitch, hist>>

MoveSlider(p) ==
  /\ slider' = p
  /\ UNCHANGED <<dev, flags, setup, fifo, wire, testSwitch, host, hist>>

FlipSwitch ==
  /\ testSwitch' = ~testSwitch
  /\ UNCHANGED <<dev, flags, setup, fifo, wire, slider, host, hist>>

Environment ==
  \/ HostSof \/ HostReset \/ HostPoll \/ PollAcked \/ FlipSwitch
  \/ \E r \in HostRequests : HostSetup(r)
  \/ \E acked \in BOOLEAN : HostTakesZlp(acked)
  \/ \E received \in BOOLEAN : PollLost(received)
  \/ \E p \in Reports \ {slider} : MoveSlider(p)

Next == Isr \/ Environment

Spec == Init /\ [][Next]_vars

\* Every handler returns, so a pending interrupt is taken in the end; the host
\* sends a Start of Frame every millisecond and polls the endpoint; a packet
\* sent again and again is acknowledged in the end.
Fairness ==
  /\ WF_vars(HostSof) /\ SF_vars(HostPoll) /\ SF_vars(PollAcked)
  /\ SF_vars(SofIsr) /\ SF_vars(ResetIsr) /\ SF_vars(TransferIsr) /\ SF_vars(SetupIsr)

FairSpec == Spec /\ Fairness

-----------------------------------------------------------------------------
(***************************************************************************)
(* Safety.                                                                 *)
(***************************************************************************)

\* The flag of udi_hid_generic.c that a report is under way and the job of the
\* endpoint driver agree while the interface is enabled: the report path can
\* neither wedge (no job, yet "not free") nor offer a buffer that is in use.
ReportPathNotWedged ==
  dev.generic_enable => (dev.report_in_free <=> ~dev.ep.busy)

\* A halted endpoint has no job: udd_ep_clear_halt would call the job's
\* call_trans as if it were call_nohalt, with no arguments.
HaltedEndpointHasNoJob == dev.ep.stall => ~dev.ep.busy

\* The endpoint is allocated exactly while the interface is enabled, and
\* neither outlives the configuration.
InterfaceOwnsEndpoint ==
  /\ dev.generic_enable <=> dev.ep.enabled
  /\ dev.ep.enabled => Configured(dev)
  /\ dev.ep.busy => dev.ep.enabled

\* Whatever was done before, an addressed device accepts every configuration
\* it has: udd_ep_alloc never finds the endpoint still allocated.
ConfigurationNeverRefused ==
  dev.address # 0 =>
    \A n \in 0..NumConfig : Accepts(dev, [kind |-> "SET_CONFIGURATION", wValue |-> n])

\* The hardware offers a report to the host only for a registered job: a
\* transfer that was aborted is not armed again by a late completion.
NoTransferWithoutJob == EpAnswers(dev.ep) => dev.ep.busy

\* A completion the driver will act on never accounts for more bytes than the
\* job has: buf_size - nb_trans in udd_ep_trans_complet cannot wrap around.
CompletionWithinBuffer == dev.ep.trncompl => Sent(dev.ep) <= dev.ep.buf_size

\* The FIFO of the hardware has room for every completion.
FifoNeverFull == Len(fifo) <= FifoSize

\* When no report is under way and none was aborted since the last that was
\* sent, the host has the report that the joystick task believes it sent.
DeliveredWhenIdle ==
  dev.generic_enable /\ ~dev.ep.busy /\ ~hist.aborted => host.report = dev.prevReport

\* The report buffer, which the hardware reads, is not rewritten while the
\* endpoint offers it to the host or has it on the wire.
ReportStableWhileOffered ==
  [][EpAnswers(dev.ep) \/ wire = "data" => dev'.report_in = dev.report_in]_vars

\* The device takes only address 0, or the one of the last SET_ADDRESS it
\* received: the callback reads the request before the next one replaces it.
AddressAsAsked ==
  [][dev'.address # dev.address => dev'.address \in {0, hist.asked}]_vars

\* A request the device answers with STALL has changed nothing but the state of
\* the control endpoint.  SET_INTERFACE is the exception: udc.c:911 disables the
\* interface before it knows whether the new setting exists.
RefusedRequestHasNoEffect ==
  [][SetupIsr /\ setup.kind # "SET_INTERFACE" /\ dev'.control_state = "STALL_REQ"
     => dev' = [Reinitialised(dev) EXCEPT
                  !.wValue = setup.wValue, !.callback = "NULL",
                  !.control_state = "STALL_REQ"]]_vars

(***************************************************************************)
(* Liveness.                                                               *)
(***************************************************************************)
Operating == Addressed /\ dev.generic_enable /\ ~dev.ep.stall /\ testSwitch

\* A position held while the device is operating reaches the host, unless a
\* report was aborted.
PositionReachesHost ==
  \A p \in Reports :
    <>[](Operating /\ slider = p /\ ~hist.aborted) => <>[](host.report = p)
=============================================================================
