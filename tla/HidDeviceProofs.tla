--------------------------- MODULE HidDeviceProofs ---------------------------
(***************************************************************************)
(* Type correctness of HidDevice, the agreement between the layers of the  *)
(* firmware about the report endpoint, and the transfers of reports, for   *)
(* every value of the constants.                                           *)
(*                                                                         *)
(* The argument is one predicate of the device, Sound, and one relation    *)
(* between two states of it, Stopped.  Each routine that touches the       *)
(* endpoint, the configuration or the interface has a lemma: it keeps the  *)
(* type and keeps Sound.  The routines that break a conjunct for a moment  *)
(* (Free leaves an enabled interface without an endpoint) are covered      *)
(* through the one routine that calls them.                                *)
(***************************************************************************)
EXTENDS HidDevice, TLAPS

-----------------------------------------------------------------------------
(***************************************************************************)
(* What each routine of the endpoint driver (UsbEndpoint) keeps: the type  *)
(* of the endpoint, and that a halted or released endpoint has no job.     *)
(***************************************************************************)
\* Words are natural numbers, and so is the length of the next transfer.
LEMMA WordType == \A n \in Int : Word(n) \in Nat
BY DEF Word

LEMMA NextTransType ==
  ASSUME NEW e \in EndpointType PROVE Sent(e) \in Nat /\ NextTrans(e) \in Nat
<1>1. Sent(e) \in Nat
  BY WordType DEF Sent, EndpointType
<1>2. Word(e.buf_size - Sent(e)) \in Nat
  BY <1>1, WordType DEF EndpointType
<1>3. MaxTrans - (MaxTrans % EpSize) \in Nat
  BY EpSizeAssumption, MaxTransAssumption
<1>4. QED
  BY <1>1, <1>2, <1>3 DEF NextTrans

\* A routine that arms or ends a transfer keeps CTRL as it was, and registers no job.
LEMMA TransCompletInKeeps ==
  ASSUME NEW e \in EndpointType
  PROVE  /\ TransCompletIn(e) \in EndpointType
         /\ TransCompletIn(e).enabled = e.enabled
         /\ TransCompletIn(e).stall = e.stall
         /\ TransCompletIn(e).busy <=> e.busy /\ ~CompletionCalls(e)
<1>. DEFINE accounted == Accounted(e)
<1>0. /\ accounted \in EndpointType
      /\ accounted.enabled = e.enabled /\ accounted.stall = e.stall
      /\ accounted.busy = e.busy
  BY NextTransType DEF Accounted, EndpointType
<1>1. ASSUME NEW n \in Nat
      PROVE  /\ Armed(accounted, n) \in EndpointType
             /\ Armed(accounted, n).enabled = e.enabled
             /\ Armed(accounted, n).stall = e.stall
             /\ Armed(accounted, n).busy = e.busy
  <2>. HIDE DEF accounted
  <2>. QED  BY <1>0 DEF Armed, EndpointType
<1>2. CASE DataRemains(e)
  <2>. DEFINE armed == Armed(accounted, NextTrans(e))
              full == armed.b_shortpacket /\ NextTrans(e) % EpSize = 0
  <2>1. /\ armed \in EndpointType
        /\ armed.enabled = e.enabled /\ armed.stall = e.stall /\ armed.busy = e.busy
    BY <1>1, NextTransType
  <2>2. TransCompletIn(e) = [armed EXCEPT !.b_shortpacket = full]
    BY <1>2 DEF TransCompletIn
  <2>3. full \in BOOLEAN
    OBVIOUS
  <2>4. ~CompletionCalls(e)
    BY <1>2 DEF CompletionCalls
  <2>. HIDE DEF armed, full
  <2>. QED  BY <2>1, <2>2, <2>3, <2>4 DEF EndpointType
<1>3. CASE ~DataRemains(e) /\ e.b_shortpacket
  <2>. DEFINE armed == Armed(accounted, 0)
  <2>1. /\ armed \in EndpointType
        /\ armed.enabled = e.enabled /\ armed.stall = e.stall /\ armed.busy = e.busy
    BY <1>1
  <2>2. TransCompletIn(e) = [armed EXCEPT !.b_shortpacket = FALSE]
    BY <1>3 DEF TransCompletIn
  <2>3. ~CompletionCalls(e)
    BY <1>3 DEF CompletionCalls
  <2>. HIDE DEF armed
  <2>. QED  BY <2>1, <2>2, <2>3 DEF EndpointType
<1>4. CASE ~DataRemains(e) /\ ~e.b_shortpacket
  <2>1. TransCompletIn(e) = [accounted EXCEPT !.busy = FALSE]
    BY <1>4 DEF TransCompletIn
  <2>2. CompletionCalls(e) <=> e.busy
    BY <1>4 DEF CompletionCalls
  <2>. HIDE DEF accounted
  <2>. QED  BY <2>1, <2>2, <1>0 DEF EndpointType
<1>5. QED
  BY <1>2, <1>3, <1>4

\* A job written into the endpoint leaves CTRL alone.
LEMMA RegisteredKeeps ==
  ASSUME NEW e \in EndpointType, NEW size \in Nat
  PROVE  LET s == Registered(e, size)
         IN  /\ s \in EndpointType
             /\ s.busy /\ s.buf_size = size /\ s.nb_trans = 0 /\ s.aux = 0
             /\ s.enabled = e.enabled /\ s.stall = e.stall
BY DEF Registered, EndpointType

\* A job that is accepted stays registered: at least one packet is sent for it.
LEMMA EpRunKeeps ==
  ASSUME NEW e \in EndpointType, NEW job \in [size : Nat, shortpacket : BOOLEAN],
         job.size # 0, job.size < 65536
  PROVE  /\ EpRun(e, job) \in EndpointType
         /\ EpRun(e, job).enabled = e.enabled
         /\ EpRun(e, job).stall = e.stall
         /\ EpRun(e, job).busy <=> e.busy \/ EpRunAccepts(e)
<1>. DEFINE started == JobStarted(e, job)
<1>1. /\ started \in EndpointType
      /\ started.busy /\ started.buf_size = job.size
      /\ started.nb_trans = 0 /\ started.aux = 0
      /\ started.enabled = e.enabled /\ started.stall = e.stall
  <2>. DEFINE zlp == job.shortpacket \/ job.size = 0
              registered == Registered(e, job.size)
  <2>1. zlp \in BOOLEAN /\ job.size \in Nat
    OBVIOUS
  <2>2. /\ registered \in EndpointType
        /\ registered.busy /\ registered.buf_size = job.size
        /\ registered.nb_trans = 0 /\ registered.aux = 0
        /\ registered.enabled = e.enabled /\ registered.stall = e.stall
    BY <2>1, RegisteredKeeps
  <2>3. started = [registered EXCEPT !.b_shortpacket = zlp]
    BY DEF JobStarted
  <2>. HIDE DEF zlp, registered, started
  <2>4. started \in EndpointType
    BY <2>1, <2>2, <2>3 DEF EndpointType
  <2>. QED
    BY <2>2, <2>3, <2>4 DEF EndpointType
<1>2. EpRun(e, job) = IF EpRunAccepts(e) THEN TransCompletIn(started) ELSE e
  BY DEF EpRun
<1>. HIDE DEF started
<1>3. DataRemains(started)
  BY <1>1 DEF DataRemains, Sent, Word
<1>4. ~CompletionCalls(started)
  BY <1>3 DEF CompletionCalls
<1>5. /\ TransCompletIn(started) \in EndpointType
      /\ TransCompletIn(started).enabled = e.enabled
      /\ TransCompletIn(started).stall = e.stall
      /\ TransCompletIn(started).busy
  BY <1>1, <1>4, TransCompletInKeeps
<1>6. CASE EpRunAccepts(e)
  BY <1>2, <1>5, <1>6
<1>7. CASE ~EpRunAccepts(e)
  BY <1>2, <1>7
<1>8. QED
  BY <1>6, <1>7

LEMMA EpRoutineTypes ==
  ASSUME NEW e \in EndpointType
  PROVE  /\ EpInit(e) \in EndpointType
         /\ EpAlloc(e) \in EndpointType
         /\ EpAbort(e) \in EndpointType
         /\ EpFree(e) \in EndpointType
         /\ EpSetHalt(e) \in EndpointType
         /\ EpClearHalt(e) \in EndpointType
         /\ EpAckTc(e) \in EndpointType
<1>1. EpInit(e) \in EndpointType
  BY DEF EndpointType, EpInit
<1>2. EpAlloc(e) \in EndpointType
  BY <1>1 DEF EpAlloc
<1>3. EpAbort(e) \in EndpointType
  BY DEF EndpointType, EpAbort
<1>4. EpFree(e) \in EndpointType
  BY <1>3 DEF EpFree, EndpointType
<1>5. EpSetHalt(e) \in EndpointType
  BY DEF EpSetHalt, EpAbort, EndpointType
<1>6. EpClearHalt(e) \in EndpointType
  BY DEF EpClearHalt, EndpointType
<1>7. EpAckTc(e) \in EndpointType
  BY DEF EpAckTc, EndpointType
<1>8. QED
  BY <1>1, <1>2, <1>3, <1>4, <1>5, <1>6, <1>7

LEMMA EpHwCompleteType ==
  ASSUME NEW e \in EndpointType, NEW n \in Nat PROVE EpHwComplete(e, n) \in EndpointType
<1>1. e.aux + n \in Nat
  BY DEF EndpointType
<1>2. QED
  BY <1>1 DEF EndpointType, EpHwComplete

-----------------------------------------------------------------------------
\* The layers of the firmware agree about the endpoint.
Sound(d) ==
  /\ d.generic_enable <=> d.ep.enabled
  /\ d.ep.enabled => Configured(d)
  /\ d.ep.busy => d.ep.enabled
  /\ d.ep.stall => ~d.ep.busy
  /\ d.generic_enable => (d.report_in_free <=> ~d.ep.busy)

\* The endpoint of a device is an endpoint.
LEMMA EndpointOf == ASSUME NEW d \in DeviceType PROVE d.ep \in EndpointType
BY DEF DeviceType

-----------------------------------------------------------------------------
(***************************************************************************)
(* Endpoint routines with their callback.                                  *)
(***************************************************************************)

\* udd_ep_abort ends the job and frees the report buffer together.
LEMMA AbortKeeps ==
  ASSUME NEW d \in DeviceType
  PROVE  Abort(d) \in DeviceType /\ (Sound(d) => Sound(Abort(d)))
<1>1. d.ep \in EndpointType /\ EpAbort(d.ep) \in EndpointType
  BY EndpointOf, EpRoutineTypes
<1>2. Abort(d) \in DeviceType
  <2>. DEFINE free == d.report_in_free \/ AbortCalls(d.ep)
  <2>1. free \in BOOLEAN
    OBVIOUS
  <2>2. Abort(d) = [[d EXCEPT !.report_in_free = free] EXCEPT !.ep = EpAbort(d.ep)]
    BY DEF Abort, ReportInSent, DeviceType
  <2>. HIDE DEF free
  <2>. QED  BY <1>1, <2>1, <2>2 DEF DeviceType
<1>3. ASSUME Sound(d) PROVE Sound(Abort(d))
  BY <1>1, <1>3 DEF DeviceType, EndpointType, Sound, Configured,
                    Abort, ReportInSent, EpAbort, AbortCalls
<1>4. QED
  BY <1>2, <1>3

\* Halting ends the job first, so the second abort, in udd_ep_set_halt, finds none.
LEMMA SetHaltKeeps ==
  ASSUME NEW d \in DeviceType
  PROVE  SetHalt(d) \in DeviceType /\ (Sound(d) => Sound(SetHalt(d)))
<1>. DEFINE a == Abort(d)
<1>1. a \in DeviceType /\ a.ep \in EndpointType /\ EpSetHalt(a.ep) \in EndpointType
  BY AbortKeeps, EndpointOf, EpRoutineTypes
<1>2. SetHalt(d) = [ReportInSent(a, AbortCalls(a.ep)) EXCEPT !.ep = EpSetHalt(@)]
  BY DEF SetHalt
<1>3. Sound(d) => Sound(a)
  BY AbortKeeps
<1>. HIDE DEF a
<1>4. SetHalt(d) \in DeviceType
  <2>. DEFINE free == a.report_in_free \/ AbortCalls(a.ep)
  <2>1. free \in BOOLEAN
    OBVIOUS
  <2>2. SetHalt(d) = [[a EXCEPT !.report_in_free = free] EXCEPT !.ep = EpSetHalt(a.ep)]
    BY <1>1, <1>2 DEF ReportInSent, DeviceType
  <2>. HIDE DEF free
  <2>. QED  BY <1>1, <2>1, <2>2 DEF DeviceType
<1>5. ASSUME Sound(a) PROVE Sound(SetHalt(d))
  BY <1>1, <1>2, <1>5 DEF DeviceType, EndpointType, Sound, Configured,
                          ReportInSent, EpSetHalt, EpAbort, AbortCalls
<1>6. QED
  BY <1>3, <1>4, <1>5

LEMMA ClearHaltKeeps ==
  ASSUME NEW d \in DeviceType
  PROVE  ClearHalt(d) \in DeviceType /\ (Sound(d) => Sound(ClearHalt(d)))
<1>1. d.ep \in EndpointType /\ EpClearHalt(d.ep) \in EndpointType
  BY EndpointOf, EpRoutineTypes
<1>2. ClearHalt(d) \in DeviceType
  <2>. DEFINE free == d.report_in_free \/ ClearHaltCalls(d.ep)
  <2>1. free \in BOOLEAN
    OBVIOUS
  <2>2. ClearHalt(d) = [[d EXCEPT !.report_in_free = free] EXCEPT !.ep = EpClearHalt(d.ep)]
    BY DEF ClearHalt, ReportInSent, DeviceType
  <2>. HIDE DEF free
  <2>. QED  BY <1>1, <2>1, <2>2 DEF DeviceType
<1>3. ASSUME Sound(d) PROVE Sound(ClearHalt(d))
  BY <1>1, <1>3 DEF DeviceType, EndpointType, Sound, Configured,
                    ClearHalt, ReportInSent, EpClearHalt, ClearHaltCalls
<1>4. QED
  BY <1>2, <1>3

-----------------------------------------------------------------------------
(***************************************************************************)
(* Configurations and interfaces.                                          *)
(***************************************************************************)

\* The interface is disabled and its endpoint released together; the
\* configuration stays.
LEMMA IfaceDisableKeeps ==
  ASSUME NEW d \in DeviceType
  PROVE  /\ IfaceDisable(d) \in DeviceType
         /\ IfaceDisable(d).num_configuration = d.num_configuration
         /\ ~IfaceDisable(d).ep.enabled
         /\ Sound(d) => Sound(IfaceDisable(d))
<1>1. d.ep \in EndpointType /\ EpFree(d.ep) \in EndpointType
  BY EndpointOf, EpRoutineTypes
<1>. DEFINE free == d.report_in_free \/ AbortCalls(d.ep)
<1>2. free \in BOOLEAN
  OBVIOUS
<1>3. IfaceDisable(d) = [[[d EXCEPT !.report_in_free = free]
                             EXCEPT !.ep = EpFree(d.ep)]
                             EXCEPT !.generic_enable = FALSE]
  BY DEF IfaceDisable, UdiDisable, Free, ReportInSent, DeviceType
<1>. HIDE DEF free
<1>4. IfaceDisable(d) \in DeviceType
  BY <1>1, <1>2, <1>3 DEF DeviceType
<1>5. IfaceDisable(d).num_configuration = d.num_configuration
  BY <1>3 DEF DeviceType
<1>6. /\ IfaceDisable(d).ep = EpFree(d.ep)
      /\ ~IfaceDisable(d).generic_enable
  BY <1>3 DEF DeviceType
<1>7. ~EpFree(d.ep).enabled /\ ~EpFree(d.ep).busy /\ ~EpFree(d.ep).stall
  BY <1>1 DEF EpFree, EpAbort, EndpointType
<1>8. QED
  BY <1>4, <1>5, <1>6, <1>7 DEF Sound

\* An interface is enabled only in a configuration, on an endpoint that is free.
LEMMA IfaceEnableKeeps ==
  ASSUME NEW d \in DeviceType, NEW setting
  PROVE  /\ IfaceEnable(d, setting) \in DeviceType
         /\ Configured(d) /\ Sound(d) => Sound(IfaceEnable(d, setting))
<1>1. d.ep \in EndpointType /\ EpAlloc(d.ep) \in EndpointType
  BY EndpointOf, EpRoutineTypes
<1>2. CASE IfaceEnableAccepts(d, setting)
  <2>. DEFINE allocated == [d EXCEPT !.ep = EpAlloc(@)]
  <2>1. /\ allocated \in DeviceType
        /\ allocated.ep = EpAlloc(d.ep)
        /\ allocated.num_configuration = d.num_configuration
    BY <1>1 DEF DeviceType
  <2>2. IfaceEnable(d, setting) = UdiEnable(allocated)
    BY <1>2 DEF IfaceEnable
  <2>. HIDE DEF allocated
  <2>3. UdiEnable(allocated) \in DeviceType
    BY <2>1 DEF UdiEnable, DeviceType
  <2>4. /\ UdiEnable(allocated).ep = EpAlloc(d.ep)
        /\ UdiEnable(allocated).num_configuration = d.num_configuration
        /\ UdiEnable(allocated).generic_enable
        /\ UdiEnable(allocated).report_in_free
    BY <2>1 DEF UdiEnable, DeviceType
  <2>5. EpAlloc(d.ep).enabled /\ ~EpAlloc(d.ep).stall /\ EpAlloc(d.ep).busy = d.ep.busy
    BY <1>1, <1>2 DEF IfaceEnableAccepts, EpAlloc, EpInit, EndpointType
  <2>6. Sound(d) => ~d.ep.busy
    BY <1>2 DEF IfaceEnableAccepts, Sound
  <2>7. QED
    BY <2>2, <2>3, <2>4, <2>5, <2>6 DEF Sound, Configured
<1>3. CASE ~IfaceEnableAccepts(d, setting)
  BY <1>3 DEF IfaceEnable
<1>4. QED
  BY <1>2, <1>3

\* After udc_reset there is no configuration, so there is no endpoint either.
LEMMA UdcResetKeeps ==
  ASSUME NEW d \in DeviceType
  PROVE  /\ UdcReset(d) \in DeviceType
         /\ Sound(d) => Sound(UdcReset(d)) /\ ~UdcReset(d).ep.enabled
<1>. DEFINE released == IF d.num_configuration # 0 THEN IfaceDisable(d) ELSE d
<1>1. released \in DeviceType
  BY IfaceDisableKeeps
<1>2. Sound(d) => Sound(released) /\ ~released.ep.enabled
  BY IfaceDisableKeeps DEF Sound, Configured
<1>3. UdcReset(d) = [released EXCEPT !.num_configuration = 0, !.remote_wakeup = FALSE]
  BY DEF UdcReset
<1>. HIDE DEF released
<1>4. UdcReset(d) \in DeviceType
  <2>1. [released EXCEPT !.num_configuration = 0] \in DeviceType
    BY <1>1 DEF DeviceType
  <2>2. QED
    BY <1>3, <2>1 DEF DeviceType
<1>5. /\ UdcReset(d).ep = released.ep
      /\ UdcReset(d).generic_enable = released.generic_enable
      /\ UdcReset(d).report_in_free = released.report_in_free
  BY <1>1, <1>3 DEF DeviceType
<1>6. QED
  BY <1>2, <1>4, <1>5 DEF Sound

LEMMA ReconfiguredKeeps ==
  ASSUME NEW d \in DeviceType, NEW n \in Nat
  PROVE  /\ Reconfigured(d, n) \in DeviceType
         /\ Reconfigured(d, n).num_configuration = n
         /\ Sound(d) => Sound(Reconfigured(d, n)) /\ ~Reconfigured(d, n).ep.enabled
<1>. DEFINE r == UdcReset(d)
<1>1. r \in DeviceType /\ (Sound(d) => Sound(r) /\ ~r.ep.enabled)
  BY UdcResetKeeps
<1>2. Reconfigured(d, n) = [r EXCEPT !.num_configuration = n]
  BY DEF Reconfigured
<1>. HIDE DEF r
<1>3. Reconfigured(d, n) \in DeviceType
  BY <1>1, <1>2 DEF DeviceType
<1>4. /\ Reconfigured(d, n).ep = r.ep
      /\ Reconfigured(d, n).num_configuration = n
      /\ Reconfigured(d, n).generic_enable = r.generic_enable
      /\ Reconfigured(d, n).report_in_free = r.report_in_free
  BY <1>1, <1>2 DEF DeviceType
<1>5. QED
  BY <1>1, <1>3, <1>4 DEF Sound

LEMMA SetConfigurationKeeps ==
  ASSUME NEW d \in DeviceType, NEW n \in Nat
  PROVE  /\ SetConfiguration(d, n) \in DeviceType
         /\ Sound(d) => Sound(SetConfiguration(d, n))
<1>1. CASE n # 0
  BY <1>1, ReconfiguredKeeps, IfaceEnableKeeps DEF SetConfiguration, Configured
<1>2. CASE n = 0
  BY <1>2, ReconfiguredKeeps DEF SetConfiguration
<1>3. QED
  BY <1>1, <1>2

LEMMA SetInterfaceKeeps ==
  ASSUME NEW d \in DeviceType, NEW setting
  PROVE  /\ SetInterface(d, setting) \in DeviceType
         /\ Sound(d) => Sound(SetInterface(d, setting))
BY IfaceDisableKeeps, IfaceEnableKeeps DEF SetInterface, Configured

-----------------------------------------------------------------------------
(***************************************************************************)
(* The control endpoint.                                                   *)
(***************************************************************************)

\* What Sound looks at; the control endpoint itself changes none of it.
SameReportPath(d, e) ==
  /\ e.ep = d.ep
  /\ e.num_configuration = d.num_configuration
  /\ e.generic_enable = d.generic_enable
  /\ e.report_in_free = d.report_in_free

LEMMA SamePathSound ==
  ASSUME NEW d, NEW e, SameReportPath(d, e), Sound(d) PROVE Sound(e)
BY DEF SameReportPath, Sound, Configured

LEMMA CtrlInitKeeps ==
  ASSUME NEW d \in DeviceType
  PROVE  CtrlInit(d) \in DeviceType /\ SameReportPath(d, CtrlInit(d))
<1>1. CtrlInit(d) \in DeviceType
  BY DEF CtrlInit, DeviceType, ControlState, Callback
<1>2. SameReportPath(d, CtrlInit(d))
  BY DEF CtrlInit, DeviceType, SameReportPath
<1>3. QED
  BY <1>1, <1>2

LEMMA EndOfRequestKeeps ==
  ASSUME NEW d \in DeviceType
  PROVE  EndOfRequest(d) \in DeviceType /\ SameReportPath(d, EndOfRequest(d))
<1>1. d.wValue % 128 \in Nat
  BY DEF DeviceType
<1>2. [d EXCEPT !.address = d.wValue % 128] \in DeviceType
  BY <1>1 DEF DeviceType
<1>3. SameReportPath(d, [d EXCEPT !.address = d.wValue % 128])
  BY DEF DeviceType, SameReportPath
<1>4. SameReportPath(d, d)
  BY DEF SameReportPath
<1>5. QED
  BY <1>2, <1>3, <1>4 DEF EndOfRequest

\* Whatever the last request left pending, it is ended before a new one starts.
LEMMA ReinitialisedKeeps ==
  ASSUME NEW d \in DeviceType
  PROVE  Reinitialised(d) \in DeviceType /\ SameReportPath(d, Reinitialised(d))
<1>1. SameReportPath(d, CtrlInit(EndOfRequest(d)))
  BY EndOfRequestKeeps, CtrlInitKeeps DEF SameReportPath
<1>2. SameReportPath(d, d)
  BY DEF SameReportPath
<1>3. CtrlInit(EndOfRequest(d)) \in DeviceType
  BY EndOfRequestKeeps, CtrlInitKeeps
<1>4. QED
  BY <1>1, <1>2, <1>3, CtrlInitKeeps DEF Reinitialised

LEMMA BytesOf == ASSUME NEW r \in Request PROVE Low(r) \in Nat /\ High(r) \in Nat
<1>1. r.wValue \in Nat
  BY DEF Request
<1>2. QED
  BY <1>1 DEF Low, High

LEMMA SettingKeeps ==
  ASSUME NEW d \in DeviceType, NEW r \in Request
  PROVE  Setting(d, r) \in DeviceType /\ SameReportPath(d, Setting(d, r))
<1>. DEFINE cb == IF r.kind = "SET_ADDRESS" THEN "udc_valid_address" ELSE d.callback
            wk == IF r.kind = "SET_FEATURE_WAKEUP" THEN TRUE
                  ELSE d.remote_wakeup /\ r.kind # "CLEAR_FEATURE_WAKEUP"
            rt == IF r.kind = "SET_IDLE" /\ Configured(d) THEN High(r) ELSE d.rate
            pr == IF r.kind = "SET_PROTOCOL" /\ Configured(d) THEN Low(r) ELSE d.protocol
<1>1. cb \in Callback /\ rt \in Nat /\ pr \in Nat
  BY BytesOf DEF DeviceType, Callback
<1>2. wk \in BOOLEAN
  BY DEF DeviceType
<1>3. Setting(d, r) = [[[[d EXCEPT !.callback = cb] EXCEPT !.remote_wakeup = wk]
                             EXCEPT !.rate = rt] EXCEPT !.protocol = pr]
  BY DEF Setting, DeviceType
<1>. HIDE DEF cb, wk, rt, pr
<1>4. Setting(d, r) \in DeviceType
  <2>1. [d EXCEPT !.callback = cb] \in DeviceType
    BY <1>1 DEF DeviceType
  <2>2. [[d EXCEPT !.callback = cb] EXCEPT !.remote_wakeup = wk] \in DeviceType
    BY <1>2, <2>1 DEF DeviceType
  <2>3. QED
    BY <1>1, <1>3, <2>2 DEF DeviceType
<1>5. SameReportPath(d, Setting(d, r))
  BY <1>3 DEF DeviceType, SameReportPath
<1>6. QED
  BY <1>4, <1>5

\* udc_process_setup: each request goes to the routine of its kind.
LEMMA ProcessedKeeps ==
  ASSUME NEW d \in DeviceType, NEW r \in Request
  PROVE  Processed(d, r) \in DeviceType /\ (Sound(d) => Sound(Processed(d, r)))
<1>1. Low(r) \in Nat
  BY BytesOf
<1>2. Setting(d, r) \in DeviceType /\ (Sound(d) => Sound(Setting(d, r)))
  BY SettingKeeps, SamePathSound
<1>3. QED
  BY <1>1, <1>2, SetConfigurationKeeps, SetInterfaceKeeps, SetHaltKeeps, ClearHaltKeeps
     DEF Processed

\* udd_ctrl_setup_received, from the request before it to the status stage.
LEMMA SetupReceivedKeeps ==
  ASSUME NEW d \in DeviceType, NEW r \in Request
  PROVE  SetupReceived(d, r) \in DeviceType /\ (Sound(d) => Sound(SetupReceived(d, r)))
<1>. DEFINE before == Reinitialised(d)
            ready == [before EXCEPT !.wValue = r.wValue, !.callback = "NULL"]
            after == Processed(ready, r)
<1>1. before \in DeviceType /\ (Sound(d) => Sound(before))
  BY ReinitialisedKeeps, SamePathSound
<1>2. ready \in DeviceType /\ SameReportPath(before, ready)
  <2>. HIDE DEF before
  <2>1. r.wValue \in Nat
    BY DEF Request
  <2>2. ready \in DeviceType
    BY <1>1, <2>1 DEF DeviceType, Callback
  <2>3. SameReportPath(before, ready)
    BY <1>1 DEF DeviceType, SameReportPath
  <2>. QED  BY <2>2, <2>3
<1>3. after \in DeviceType /\ (Sound(ready) => Sound(after))
  BY <1>2, ProcessedKeeps
<1>4. Sound(d) => Sound(after)
  BY <1>1, <1>2, <1>3, SamePathSound
<1>5. SetupReceived(d, r) = IF Accepts(ready, r)
        THEN [after EXCEPT !.control_state = "HANDSHAKE_WAIT_IN_ZLP", !.zlp_armed = TRUE]
        ELSE [after EXCEPT !.control_state = "STALL_REQ"]
  BY DEF SetupReceived
<1>. HIDE DEF after, ready
<1>6. LET w == [after EXCEPT !.control_state = "HANDSHAKE_WAIT_IN_ZLP", !.zlp_armed = TRUE]
      IN  w \in DeviceType /\ SameReportPath(after, w)
  BY <1>3 DEF DeviceType, ControlState, SameReportPath
<1>7. LET w == [after EXCEPT !.control_state = "STALL_REQ"]
      IN  w \in DeviceType /\ SameReportPath(after, w)
  BY <1>3 DEF DeviceType, ControlState, SameReportPath
<1>8. QED
  BY <1>4, <1>5, <1>6, <1>7, SamePathSound

-----------------------------------------------------------------------------
(***************************************************************************)
(* The report task and the interrupt handlers.                             *)
(***************************************************************************)

\* The flag is taken exactly when the endpoint driver has registered the job.
LEMMA SendReportInKeeps ==
  ASSUME NEW d \in DeviceType, NEW data \in Reports
  PROVE  /\ SendReportIn(d, data) \in DeviceType
         /\ d.generic_enable /\ Sound(d) => Sound(SendReportIn(d, data))
<1>. DEFINE run == EpRun(d.ep, ReportJob)
            free == ~EpRunAccepts(d.ep)
<1>1. d.ep \in EndpointType
  BY EndpointOf
<1>2. /\ ReportJob \in [size : Nat, shortpacket : BOOLEAN]
      /\ ReportJob.size # 0 /\ ReportJob.size < 65536
  BY ReportSizeAssumption, EpSizeAssumption, MaxTransAssumption DEF ReportJob
<1>3. /\ run \in EndpointType
      /\ run.enabled = d.ep.enabled /\ run.stall = d.ep.stall
      /\ run.busy <=> d.ep.busy \/ EpRunAccepts(d.ep)
  BY <1>1, <1>2, EpRunKeeps
<1>4. free \in BOOLEAN
  OBVIOUS
<1>5. CASE d.report_in_free
  <2>. DEFINE filled == [d EXCEPT !.report_in = data]
  <2>1. SendReportIn(d, data) =
          [[filled EXCEPT !.ep = run] EXCEPT !.report_in_free = free]
    BY <1>5 DEF SendReportIn, DeviceType
  <2>2. filled \in DeviceType /\ SameReportPath(d, filled)
    BY DEF DeviceType, SameReportPath
  <2>3. [filled EXCEPT !.ep = run] \in DeviceType
    <3>. HIDE DEF run, filled
    <3>. QED  BY <1>3, <2>2 DEF DeviceType
  <2>4. SendReportIn(d, data) \in DeviceType
    <3>. HIDE DEF run, filled, free
    <3>. QED  BY <1>4, <2>1, <2>3 DEF DeviceType
  <2>5. /\ SendReportIn(d, data).ep = run
        /\ SendReportIn(d, data).num_configuration = d.num_configuration
        /\ SendReportIn(d, data).generic_enable = d.generic_enable
        /\ SendReportIn(d, data).report_in_free <=> free
    <3>. HIDE DEF run, filled, free
    <3>. QED  BY <2>1, <2>2 DEF DeviceType, SameReportPath
  <2>6. EpRunAccepts(d.ep) => d.ep.enabled /\ ~d.ep.stall
    BY DEF EpRunAccepts
  <2>7. QED
    <3>. HIDE DEF run
    <3>. QED  BY <1>3, <1>5, <2>4, <2>5, <2>6 DEF Sound, Configured
<1>6. CASE ~d.report_in_free
  BY <1>6 DEF SendReportIn
<1>7. QED
  BY <1>5, <1>6

LEMMA SofActionKeeps ==
  ASSUME NEW d \in DeviceType, NEW data \in Reports, NEW normal
  PROVE  /\ SofAction(d, data, normal) \in DeviceType
         /\ Sound(d) => Sound(SofAction(d, data, normal))
<1>. DEFINE sent == SendReportIn(d, data)
            prev == IF SendAccepted(d) THEN data ELSE sent.prevReport
<1>1. sent \in DeviceType /\ (d.generic_enable /\ Sound(d) => Sound(sent))
  BY SendReportInKeeps
<1>2. UsbTask(d, data) = IF data = d.prevReport THEN d ELSE [sent EXCEPT !.prevReport = prev]
  <2>. HIDE DEF sent
  <2>1. [sent EXCEPT !.prevReport = IF SendAccepted(d) THEN data ELSE @]
          = [sent EXCEPT !.prevReport = prev]
    BY <1>1 DEF DeviceType
  <2>. QED  BY <2>1 DEF UsbTask, sent
<1>. HIDE DEF sent
<1>3. prev \in Reports
  BY <1>1 DEF DeviceType
<1>. HIDE DEF prev
<1>4. /\ [sent EXCEPT !.prevReport = prev] \in DeviceType
      /\ SameReportPath(sent, [sent EXCEPT !.prevReport = prev])
  BY <1>1, <1>3 DEF DeviceType, SameReportPath
<1>5. QED
  BY <1>1, <1>2, <1>4, SamePathSound DEF SofAction

LEMMA BusResetKeeps ==
  ASSUME NEW d \in DeviceType
  PROVE  BusReset(d) \in DeviceType /\ (Sound(d) => Sound(BusReset(d)))
<1>. DEFINE u == UdcReset(Abort(d))
            v == [u EXCEPT !.address = 0, !.control_enabled = TRUE]
<1>1. u \in DeviceType /\ (Sound(d) => Sound(u))
  BY AbortKeeps, UdcResetKeeps
<1>2. BusReset(d) = CtrlInit(v)
  BY DEF BusReset
<1>3. v \in DeviceType /\ SameReportPath(u, v)
  <2>. HIDE DEF u
  <2>. QED  BY <1>1 DEF DeviceType, SameReportPath
<1>. HIDE DEF u, v
<1>4. QED
  BY <1>1, <1>2, <1>3, CtrlInitKeeps, SamePathSound

LEMMA InSentKeeps ==
  ASSUME NEW d \in DeviceType
  PROVE  InSent(d) \in DeviceType /\ (Sound(d) => Sound(InSent(d)))
<1>1. /\ CtrlInit(EndOfRequest(d)) \in DeviceType
      /\ SameReportPath(d, CtrlInit(EndOfRequest(d)))
  BY EndOfRequestKeeps, CtrlInitKeeps DEF SameReportPath
<1>2. /\ [d EXCEPT !.zlp_done = FALSE] \in DeviceType
      /\ SameReportPath(d, [d EXCEPT !.zlp_done = FALSE])
  BY DEF DeviceType, SameReportPath
<1>3. QED
  BY <1>1, <1>2, SamePathSound DEF InSent

\* The completion of a transfer frees the report buffer exactly when it ends the job.
LEMMA TransCompletKeeps ==
  ASSUME NEW d \in DeviceType
  PROVE  TransComplet(d) \in DeviceType /\ (Sound(d) => Sound(TransComplet(d)))
<1>. DEFINE acked == EpAckTc(d.ep)
            next == TransCompletIn(acked)
            free == d.report_in_free \/ CompletionCalls(acked)
<1>1. /\ acked \in EndpointType
      /\ acked.enabled = d.ep.enabled /\ acked.stall = d.ep.stall /\ acked.busy = d.ep.busy
  BY EndpointOf, EpRoutineTypes DEF EpAckTc, EndpointType
<1>2. /\ next \in EndpointType
      /\ next.enabled = d.ep.enabled /\ next.stall = d.ep.stall
      /\ next.busy <=> d.ep.busy /\ ~CompletionCalls(acked)
  <2>. HIDE DEF acked
  <2>. QED  BY <1>1, TransCompletInKeeps
<1>3. CompletionCalls(acked) => d.ep.busy
  <2>. HIDE DEF acked
  <2>. QED  BY <1>1 DEF CompletionCalls
<1>4. free \in BOOLEAN
  OBVIOUS
<1>5. CASE d.ep.trncompl
  <2>1. TransComplet(d) = [[d EXCEPT !.report_in_free = free] EXCEPT !.ep = next]
    BY <1>5 DEF TransComplet, ReportInSent, DeviceType
  <2>2. [d EXCEPT !.report_in_free = free] \in DeviceType
    <3>. HIDE DEF free
    <3>. QED  BY <1>4 DEF DeviceType
  <2>3. TransComplet(d) \in DeviceType
    <3>. HIDE DEF free, next
    <3>. QED  BY <1>2, <2>1, <2>2 DEF DeviceType
  <2>4. /\ TransComplet(d).ep = next
        /\ TransComplet(d).num_configuration = d.num_configuration
        /\ TransComplet(d).generic_enable = d.generic_enable
        /\ TransComplet(d).report_in_free <=> free
    <3>. HIDE DEF free, next
    <3>. QED  BY <2>1 DEF DeviceType
  <2>5. QED
    <3>. HIDE DEF next, acked
    <3>. QED  BY <1>2, <1>3, <2>3, <2>4 DEF Sound, Configured
<1>6. CASE ~d.ep.trncompl
  BY <1>6 DEF TransComplet
<1>7. QED
  BY <1>5, <1>6

-----------------------------------------------------------------------------
(***************************************************************************)
(* The invariant of the specification.                                     *)
(***************************************************************************)
Inv == TypeOK /\ Sound(dev)

\* The moves of the host that finish a transaction write the endpoint table
\* and nothing that Sound looks at.
LEMMA ZlpTakenKeeps ==
  ASSUME NEW d \in DeviceType
  PROVE  LET e == [d EXCEPT !.zlp_armed = FALSE, !.zlp_done = TRUE]
         IN  e \in DeviceType /\ SameReportPath(d, e)
BY DEF DeviceType, SameReportPath

\* A SETUP on the bus only touches the status bits of endpoint 0.
LEMMA SetupSeenKeeps ==
  ASSUME NEW d \in DeviceType
  PROVE  LET seen == [d EXCEPT !.zlp_armed = FALSE, !.zlp_done = FALSE]
         IN  seen \in DeviceType /\ (Sound(d) => Sound(seen))
<1>. DEFINE seen == [d EXCEPT !.zlp_armed = FALSE, !.zlp_done = FALSE]
<1>1. seen \in DeviceType
  BY DEF DeviceType
<1>2. SameReportPath(d, seen)
  BY DEF DeviceType, SameReportPath
<1>3. QED
  BY <1>1, <1>2, SamePathSound

LEMMA CompletionKeeps ==
  ASSUME NEW d \in DeviceType
  PROVE  LET e == [d EXCEPT !.ep = EpHwComplete(@, d.ep.cnt)]
         IN  e \in DeviceType /\ (Sound(d) => Sound(e))
<1>. DEFINE done == EpHwComplete(d.ep, d.ep.cnt)
<1>1. d.ep \in EndpointType /\ d.ep.cnt \in Nat
  BY EndpointOf DEF EndpointType
<1>2. done \in EndpointType
  BY <1>1, EpHwCompleteType
<1>3. done.enabled = d.ep.enabled /\ done.stall = d.ep.stall /\ done.busy = d.ep.busy
  BY <1>1 DEF EpHwComplete, EndpointType
<1>4. [d EXCEPT !.ep = EpHwComplete(@, d.ep.cnt)] = [d EXCEPT !.ep = done]
  BY DEF DeviceType
<1>. HIDE DEF done
<1>5. [d EXCEPT !.ep = done] \in DeviceType
  BY <1>2 DEF DeviceType
<1>6. Sound(d) => Sound([d EXCEPT !.ep = done])
  BY <1>3 DEF DeviceType, Sound, Configured
<1>7. QED
  BY <1>4, <1>5, <1>6

LEMMA InitInv == Init => Inv
<1>. SUFFICES ASSUME Init PROVE Inv
  OBVIOUS
<1>1. EpOff \in EndpointType /\ ~EpOff.enabled /\ ~EpOff.busy
  BY DEF EpOff, EndpointType
<1>2. dev \in DeviceType
  <2>. HIDE DEF EpOff
  <2>. QED  BY <1>1, ReportsAssumption DEF Init, DeviceType, ControlState, Callback
<1>3. /\ flags \in [sof : BOOLEAN, reset : BOOLEAN]
      /\ setup \in Request \cup {NoRequest}
      /\ fifo \in Seq(TransferDone)
      /\ wire \in {"idle", "data", "late"}
      /\ slider \in Reports /\ testSwitch \in BOOLEAN
  BY ReportsAssumption DEF Init
<1>4. host \in [address : Nat, next : Nat, waiting : BOOLEAN, report : Reports]
  BY ReportsAssumption DEF Init
<1>5. hist \in [aborted : BOOLEAN, asked : Nat]
  BY DEF Init
<1>6. Sound(dev)
  BY <1>1 DEF Init, Sound
<1>7. QED
  BY <1>2, <1>3, <1>4, <1>5, <1>6 DEF Inv, TypeOK

\* The address a request asks for is a number.
LEMMA RequestedAddressType ==
  ASSUME NEW r \in Request, NEW n \in Nat PROVE RequestedAddress(r, n) \in Nat
BY DEF RequestedAddress, Request

\* Every interrupt handler, run from any state of the invariant.
LEMMA IsrInv == Inv /\ Isr => Inv'
<1>. SUFFICES ASSUME Inv, Isr PROVE Inv'
  OBVIOUS
<1>1. wire' \in {"idle", "data", "late"} /\ UNCHANGED <<slider, testSwitch, host>>
  BY DEF Inv, TypeOK, Isr, Handler, SofIsr, ResetIsr, TransferIsr, SetupIsr
<1>2. CASE SofIsr
  <2>1. dev' \in DeviceType /\ Sound(dev)'
    BY <1>2, SofActionKeeps DEF SofIsr, Inv, TypeOK
  <2>2. flags' \in [sof : BOOLEAN, reset : BOOLEAN]
    BY <1>2 DEF SofIsr, Inv, TypeOK
  <2>3. QED
    BY <1>1, <1>2, <2>1, <2>2 DEF SofIsr, Inv, TypeOK
<1>3. CASE ResetIsr
  <2>1. dev' \in DeviceType /\ Sound(dev)'
    BY <1>3, BusResetKeeps DEF ResetIsr, Inv, TypeOK
  <2>2. flags' \in [sof : BOOLEAN, reset : BOOLEAN]
    BY <1>3 DEF ResetIsr, Inv, TypeOK
  <2>. DEFINE aborted == hist.aborted \/ dev.ep.busy
  <2>3. hist' \in [aborted : BOOLEAN, asked : Nat]
    <3>1. aborted \in BOOLEAN
      OBVIOUS
    <3>2. hist' = [hist EXCEPT !.aborted = aborted]
      BY <1>3 DEF ResetIsr, Inv, TypeOK
    <3>. HIDE DEF aborted
    <3>. QED  BY <3>1, <3>2 DEF Inv, TypeOK
  <2>4. QED
    BY <1>1, <1>3, <2>1, <2>2, <2>3 DEF ResetIsr, Inv, TypeOK
<1>4. CASE TransferIsr
  <2>1. dev' \in DeviceType /\ Sound(dev)'
    BY <1>4, InSentKeeps, TransCompletKeeps DEF TransferIsr, Inv, TypeOK
  <2>2. fifo' \in Seq(TransferDone)
    BY <1>4 DEF TransferIsr, Inv, TypeOK
  <2>. DEFINE aborted == hist.aborted /\ ~(dev.ep.busy /\ ~dev'.ep.busy)
  <2>3. hist' \in [aborted : BOOLEAN, asked : Nat]
    <3>1. aborted \in BOOLEAN
      OBVIOUS
    <3>2. hist' = [hist EXCEPT !.aborted = aborted]
      BY <1>4 DEF TransferIsr, Inv, TypeOK
    <3>. HIDE DEF aborted
    <3>. QED  BY <3>1, <3>2 DEF Inv, TypeOK
  <2>4. QED
    BY <1>1, <1>4, <2>1, <2>2, <2>3 DEF TransferIsr, Inv, TypeOK
<1>5. CASE SetupIsr
  <2>1. setup \in Request
    BY <1>5 DEF SetupIsr, Inv, TypeOK
  <2>2. dev' \in DeviceType /\ Sound(dev)'
    BY <1>5, <2>1, SetupReceivedKeeps DEF SetupIsr, Inv, TypeOK
  <2>. DEFINE aborted == hist.aborted \/ (dev.ep.busy /\ ~dev'.ep.busy)
              asked == RequestedAddress(setup, hist.asked)
  <2>3. hist' \in [aborted : BOOLEAN, asked : Nat]
    <3>1. aborted \in BOOLEAN
      OBVIOUS
    <3>2. asked \in Nat
      BY <2>1, RequestedAddressType DEF Inv, TypeOK
    <3>3. hist' = [aborted |-> aborted, asked |-> asked]
      BY <1>5 DEF SetupIsr
    <3>. HIDE DEF aborted, asked
    <3>. QED  BY <3>1, <3>2, <3>3
  <2>4. QED
    BY <1>1, <1>5, <2>2, <2>3 DEF SetupIsr, Inv, TypeOK
<1>6. QED
  BY <1>2, <1>3, <1>4, <1>5 DEF Isr

\* Every move of the host, the bus and the user.
LEMMA EnvironmentInv == Inv /\ Environment => Inv'
<1>. SUFFICES ASSUME Inv, Environment PROVE Inv'
  OBVIOUS
<1>1. CASE HostSof
  <2>1. flags' \in [sof : BOOLEAN, reset : BOOLEAN]
    BY <1>1 DEF HostSof, Inv, TypeOK
  <2>2. QED
    BY <1>1, <2>1 DEF HostSof, Inv, TypeOK
<1>2. CASE HostReset
  <2>1. flags' \in [sof : BOOLEAN, reset : BOOLEAN]
    BY <1>2 DEF HostReset, Inv, TypeOK
  <2>2. host' \in [address : Nat, next : Nat, waiting : BOOLEAN, report : Reports]
    BY <1>2 DEF HostReset, Inv, TypeOK
  <2>3. QED
    BY <1>2, <2>1, <2>2 DEF HostReset, Inv, TypeOK
<1>3. CASE HostPoll
  BY <1>3 DEF HostPoll, Inv, TypeOK
<1>4. CASE PollAcked
  <2>1. dev' \in DeviceType /\ Sound(dev)'
    BY <1>4, CompletionKeeps DEF PollAcked, Inv, TypeOK
  <2>2. fifo' \in Seq(TransferDone)
    BY <1>4 DEF PollAcked, Inv, TypeOK, TransferDone
  <2>3. host' \in [address : Nat, next : Nat, waiting : BOOLEAN, report : Reports]
    <3>1. dev.report_in \in Reports
      BY DEF Inv, TypeOK, DeviceType
    <3>2. QED
      BY <1>4, <3>1 DEF PollAcked, Inv, TypeOK
  <2>4. QED
    BY <1>4, <2>1, <2>2, <2>3 DEF PollAcked, Inv, TypeOK
<1>5. CASE FlipSwitch
  BY <1>5 DEF FlipSwitch, Inv, TypeOK
<1>6. ASSUME NEW r \in HostRequests, HostSetup(r) PROVE Inv'
  <2>1. r \in Request
    BY RequestsAssumption
  <2>2. host' \in [address : Nat, next : Nat, waiting : BOOLEAN, report : Reports]
    <3>1. RequestedAddress(r, host.address) \in Nat
      BY <2>1, RequestedAddressType DEF Inv, TypeOK
    <3>2. QED
      BY <1>6, <3>1 DEF HostSetup, Inv, TypeOK
  <2>3. dev' \in DeviceType /\ Sound(dev)'
    BY <1>6, SetupSeenKeeps DEF HostSetup, Inv, TypeOK
  <2>4. QED
    BY <1>6, <2>1, <2>2, <2>3 DEF HostSetup, Inv, TypeOK
<1>7. ASSUME NEW acked \in BOOLEAN, HostTakesZlp(acked) PROVE Inv'
  <2>1. dev' \in DeviceType /\ Sound(dev)'
    BY <1>7, ZlpTakenKeeps, SamePathSound DEF HostTakesZlp, Inv, TypeOK
  <2>2. fifo' \in Seq(TransferDone)
    BY <1>7, SMTT(30) DEF HostTakesZlp, Inv, TypeOK, TransferDone
  <2>3. host' \in [address : Nat, next : Nat, waiting : BOOLEAN, report : Reports]
    BY <1>7 DEF HostTakesZlp, Inv, TypeOK
  <2>4. QED
    BY <1>7, <2>1, <2>2, <2>3 DEF HostTakesZlp, Inv, TypeOK
<1>8. ASSUME NEW received \in BOOLEAN, PollLost(received) PROVE Inv'
  <2>1. host' \in [address : Nat, next : Nat, waiting : BOOLEAN, report : Reports]
    <3>1. dev.report_in \in Reports
      BY DEF Inv, TypeOK, DeviceType
    <3>2. QED
      BY <1>8, <3>1 DEF PollLost, Inv, TypeOK
  <2>2. QED
    BY <1>8, <2>1 DEF PollLost, Inv, TypeOK
<1>9. ASSUME NEW p \in Reports, MoveSlider(p) PROVE Inv'
  BY <1>9 DEF MoveSlider, Inv, TypeOK
<1>10. QED
  BY <1>1, <1>2, <1>3, <1>4, <1>5, <1>6, <1>7, <1>8, <1>9 DEF Environment

LEMMA StepInv == Inv /\ [Next]_vars => Inv'
<1>1. Inv /\ UNCHANGED vars => Inv'
  BY DEF Inv, TypeOK, vars
<1>2. QED
  BY <1>1, IsrInv, EnvironmentInv DEF Next

LEMMA SpecInv == Spec => []Inv
BY InitInv, StepInv, PTL DEF Spec

-----------------------------------------------------------------------------
\* Every variable keeps its type, whatever requests the host sends.
THEOREM TypeCorrect == Spec => []TypeOK
BY SpecInv, PTL DEF Inv

\* b_report_in_free of udi_hid_generic.c is TRUE exactly when udd_ep_run would
\* find no job on the endpoint, so the interface never waits for a callback
\* that cannot come.
THEOREM NotWedged == Spec => []ReportPathNotWedged
<1>1. Inv => ReportPathNotWedged
  BY DEF Inv, Sound, ReportPathNotWedged
<1>2. QED
  BY <1>1, SpecInv, PTL

\* udd_ep_clear_halt never calls a job's call_trans through call_nohalt.
THEOREM NoJobOnHaltedEndpoint == Spec => []HaltedEndpointHasNoJob
<1>1. Inv => HaltedEndpointHasNoJob
  BY DEF Inv, Sound, HaltedEndpointHasNoJob
<1>2. QED
  BY <1>1, SpecInv, PTL

\* No path through udc.c leaves the endpoint allocated without its interface,
\* or an interface enabled without its endpoint.
THEOREM EndpointOwned == Spec => []InterfaceOwnsEndpoint
<1>1. Inv => InterfaceOwnsEndpoint
  BY DEF Inv, Sound, InterfaceOwnsEndpoint
<1>2. QED
  BY <1>1, SpecInv, PTL

\* An addressed device can be given any configuration it has, at any moment.
THEOREM ConfigurationAccepted == Spec => []ConfigurationNeverRefused
<1>1. ASSUME Inv, dev.address # 0, NEW n \in 0..NumConfig
      PROVE  Accepts(dev, [kind |-> "SET_CONFIGURATION", wValue |-> n])
  <2>1. dev \in DeviceType /\ Sound(dev) /\ n \in Nat /\ n <= NumConfig
    BY <1>1, NumConfigAssumption DEF Inv, TypeOK
  <2>2. ~Reconfigured(dev, n).ep.enabled
    BY <2>1, ReconfiguredKeeps
  <2>3. SetConfigurationAccepted(dev, n)
    BY <1>1, <2>1, <2>2 DEF SetConfigurationAccepted, ConfigurationExists, IfaceEnableAccepts
  <2>4. Low([kind |-> "SET_CONFIGURATION", wValue |-> n]) = n
    BY <1>1, NumConfigAssumption DEF Low
  <2>5. QED
    BY <2>3, <2>4 DEF Accepts, ClassRequest
<1>2. Inv => ConfigurationNeverRefused
  BY <1>1 DEF ConfigurationNeverRefused
<1>3. QED
  BY <1>2, SpecInv, PTL

-----------------------------------------------------------------------------
(***************************************************************************)
(* Transfers: what the hardware offers, what is still on the wire or in the *)
(* FIFO after an abort, and what the host has.                             *)
(*                                                                         *)
(* Two kinds of steps touch the endpoint.  Requests and resets only stop   *)
(* transfers: the relation Stopped, which composes, says what they leave   *)
(* alone.  The report task, the completion interrupt and the hardware      *)
(* advance one, and are taken one by one.                                  *)
(***************************************************************************)
\* A halted endpoint answers no token because its driver set NAK as well.
Quiet(e) == e.enabled /\ e.stall => e.nack

EpStopped(e, f) ==
  /\ f.cnt = e.cnt /\ f.aux = e.aux
  /\ f.buf_size = e.buf_size /\ f.nb_trans = e.nb_trans
  /\ f.b_shortpacket = e.b_shortpacket
  /\ f.busy => e.busy
  /\ f.trncompl => e.trncompl
  /\ Quiet(e) =>
       /\ Quiet(f)
       /\ f.enabled /\ ~f.nack => e.enabled /\ ~e.nack /\ f.busy = e.busy

Stopped(d, s) ==
  /\ EpStopped(d.ep, s.ep)
  /\ s.report_in = d.report_in
  /\ s.prevReport = d.prevReport

\* What the control endpoint remembers of the request under way.
SameRequest(d, s) ==
  /\ s.wValue = d.wValue /\ s.callback = d.callback
  /\ s.address = d.address /\ s.zlp_armed = d.zlp_armed

LEMMA StoppedReflexive ==
  ASSUME NEW d, NEW s, s.ep = d.ep, s.report_in = d.report_in, s.prevReport = d.prevReport
  PROVE  Stopped(d, s)
BY DEF Stopped, EpStopped

LEMMA StoppedTransitive ==
  ASSUME NEW d, NEW s, NEW t, Stopped(d, s), Stopped(s, t) PROVE Stopped(d, t)
BY DEF Stopped, EpStopped

-----------------------------------------------------------------------------
(***************************************************************************)
(* The routines of the driver that stop a transfer.                        *)
(***************************************************************************)
LEMMA EpRoutinesStop ==
  ASSUME NEW e \in EndpointType
  PROVE  /\ EpStopped(e, EpAbort(e))
         /\ EpStopped(e, EpFree(e))
         /\ EpStopped(e, EpSetHalt(e))
         /\ EpStopped(e, EpClearHalt(e))
         /\ EpStopped(e, EpAlloc(e))
<1>1. EpStopped(e, EpAbort(e))
  BY DEF EpStopped, Quiet, EpAbort, EndpointType
<1>2. EpStopped(e, EpFree(e))
  BY DEF EpStopped, Quiet, EpFree, EpAbort, EndpointType
<1>3. EpStopped(e, EpSetHalt(e))
  BY DEF EpStopped, Quiet, EpSetHalt, EpAbort, EndpointType
<1>4. EpStopped(e, EpClearHalt(e))
  BY DEF EpStopped, Quiet, EpClearHalt, EndpointType
<1>5. EpStopped(e, EpAlloc(e))
  BY DEF EpStopped, Quiet, EpAlloc, EpInit, EndpointType
<1>6. QED
  BY <1>1, <1>2, <1>3, <1>4, <1>5

\* A callback and a new record of the endpoint, written into the device.
LEMMA WrittenStops ==
  ASSUME NEW d \in DeviceType, NEW called, NEW f \in EndpointType, EpStopped(d.ep, f)
  PROVE  LET s == [ReportInSent(d, called) EXCEPT !.ep = f]
         IN  Stopped(d, s) /\ SameRequest(d, s)
BY DEF ReportInSent, DeviceType, Stopped, SameRequest

LEMMA HaltStops ==
  ASSUME NEW d \in DeviceType
  PROVE  /\ Stopped(d, Abort(d)) /\ SameRequest(d, Abort(d))
         /\ Stopped(d, SetHalt(d)) /\ SameRequest(d, SetHalt(d))
         /\ Stopped(d, ClearHalt(d)) /\ SameRequest(d, ClearHalt(d))
<1>1. d.ep \in EndpointType
  BY EndpointOf
<1>2. ASSUME NEW x \in DeviceType
      PROVE  Stopped(x, Abort(x)) /\ SameRequest(x, Abort(x))
  <2>1. x.ep \in EndpointType
    BY EndpointOf
  <2>2. EpAbort(x.ep) \in EndpointType /\ EpStopped(x.ep, EpAbort(x.ep))
    BY <2>1, EpRoutineTypes, EpRoutinesStop
  <2>3. Abort(x) = [ReportInSent(x, AbortCalls(x.ep)) EXCEPT !.ep = EpAbort(x.ep)]
    BY DEF Abort, ReportInSent, DeviceType
  <2>4. QED
    BY <2>2, <2>3, WrittenStops
<1>3. Stopped(d, SetHalt(d)) /\ SameRequest(d, SetHalt(d))
  <2>. DEFINE a == Abort(d)
  <2>1. a \in DeviceType /\ a.ep \in EndpointType
    BY AbortKeeps, EndpointOf
  <2>2. Stopped(d, a) /\ SameRequest(d, a)
    BY <1>2
  <2>3. SetHalt(d) = [ReportInSent(a, AbortCalls(a.ep)) EXCEPT !.ep = EpSetHalt(@)]
    BY DEF SetHalt
  <2>. HIDE DEF a
  <2>4. SetHalt(d) = [ReportInSent(a, AbortCalls(a.ep)) EXCEPT !.ep = EpSetHalt(a.ep)]
    BY <2>1, <2>3 DEF ReportInSent, DeviceType
  <2>5. EpSetHalt(a.ep) \in EndpointType /\ EpStopped(a.ep, EpSetHalt(a.ep))
    BY <2>1, EpRoutineTypes, EpRoutinesStop
  <2>6. Stopped(a, SetHalt(d)) /\ SameRequest(a, SetHalt(d))
    BY <2>1, <2>4, <2>5, WrittenStops
  <2>7. QED
    BY <2>2, <2>6, StoppedTransitive DEF SameRequest
<1>4. Stopped(d, ClearHalt(d)) /\ SameRequest(d, ClearHalt(d))
  <2>1. EpClearHalt(d.ep) \in EndpointType /\ EpStopped(d.ep, EpClearHalt(d.ep))
    BY <1>1, EpRoutineTypes, EpRoutinesStop
  <2>2. ClearHalt(d) = [ReportInSent(d, ClearHaltCalls(d.ep)) EXCEPT !.ep = EpClearHalt(d.ep)]
    BY DEF ClearHalt, ReportInSent, DeviceType
  <2>3. QED
    BY <2>1, <2>2, WrittenStops
<1>5. QED
  BY <1>2, <1>3, <1>4

-----------------------------------------------------------------------------
(***************************************************************************)
(* Interfaces and configurations.                                          *)
(***************************************************************************)
LEMMA IfaceDisableStops ==
  ASSUME NEW d \in DeviceType
  PROVE  Stopped(d, IfaceDisable(d)) /\ SameRequest(d, IfaceDisable(d))
<1>. DEFINE freed == [ReportInSent(d, AbortCalls(d.ep)) EXCEPT !.ep = EpFree(d.ep)]
<1>1. d.ep \in EndpointType
  BY EndpointOf
<1>2. EpFree(d.ep) \in EndpointType /\ EpStopped(d.ep, EpFree(d.ep))
  BY <1>1, EpRoutineTypes, EpRoutinesStop
<1>3. Stopped(d, freed) /\ SameRequest(d, freed)
  BY <1>2, WrittenStops
<1>4. IfaceDisable(d) = [freed EXCEPT !.generic_enable = FALSE]
  BY DEF IfaceDisable, UdiDisable, Free, ReportInSent, DeviceType
<1>5. Stopped(freed, [freed EXCEPT !.generic_enable = FALSE])
  <2>1. freed = [[d EXCEPT !.report_in_free = @ \/ AbortCalls(d.ep)] EXCEPT !.ep = EpFree(d.ep)]
    BY DEF ReportInSent
  <2>2. LET s == [freed EXCEPT !.generic_enable = FALSE]
        IN  s.ep = freed.ep /\ s.report_in = freed.report_in /\ s.prevReport = freed.prevReport
    BY <2>1 DEF DeviceType
  <2>. HIDE DEF freed
  <2>. QED  BY <2>2, StoppedReflexive
<1>6. SameRequest(freed, [freed EXCEPT !.generic_enable = FALSE])
  BY DEF SameRequest, ReportInSent, DeviceType
<1>. HIDE DEF freed
<1>7. QED
  BY <1>3, <1>4, <1>5, <1>6, StoppedTransitive DEF SameRequest

LEMMA IfaceEnableStops ==
  ASSUME NEW d \in DeviceType, NEW setting
  PROVE  Stopped(d, IfaceEnable(d, setting)) /\ SameRequest(d, IfaceEnable(d, setting))
<1>1. d.ep \in EndpointType
  BY EndpointOf
<1>2. EpAlloc(d.ep) \in EndpointType /\ EpStopped(d.ep, EpAlloc(d.ep))
  BY <1>1, EpRoutineTypes, EpRoutinesStop
<1>3. CASE IfaceEnableAccepts(d, setting)
  <2>. DEFINE s == UdiEnable([d EXCEPT !.ep = EpAlloc(@)])
  <2>1. /\ s.ep = EpAlloc(d.ep)
        /\ s.report_in = d.report_in /\ s.prevReport = d.prevReport
        /\ SameRequest(d, s)
    BY DEF UdiEnable, DeviceType, SameRequest
  <2>2. IfaceEnable(d, setting) = s
    BY <1>3 DEF IfaceEnable
  <2>. HIDE DEF s
  <2>. QED  BY <1>2, <2>1, <2>2 DEF Stopped
<1>4. CASE ~IfaceEnableAccepts(d, setting)
  BY <1>4, StoppedReflexive DEF IfaceEnable, SameRequest
<1>5. QED
  BY <1>3, <1>4

LEMMA UdcResetStops ==
  ASSUME NEW d \in DeviceType
  PROVE  Stopped(d, UdcReset(d)) /\ SameRequest(d, UdcReset(d))
<1>. DEFINE released == IF d.num_configuration # 0 THEN IfaceDisable(d) ELSE d
            s == [released EXCEPT !.num_configuration = 0, !.remote_wakeup = FALSE]
<1>1. released \in DeviceType /\ Stopped(d, released) /\ SameRequest(d, released)
  BY IfaceDisableKeeps, IfaceDisableStops, StoppedReflexive DEF SameRequest
<1>2. UdcReset(d) = s
  BY DEF UdcReset
<1>3. /\ s.ep = released.ep /\ s.report_in = released.report_in
      /\ s.prevReport = released.prevReport /\ SameRequest(released, s)
  <2>. HIDE DEF released
  <2>. QED  BY <1>1 DEF DeviceType, SameRequest
<1>. HIDE DEF released, s
<1>4. QED
  BY <1>1, <1>2, <1>3, StoppedReflexive, StoppedTransitive DEF SameRequest

LEMMA ReconfiguredStops ==
  ASSUME NEW d \in DeviceType, NEW n \in Nat
  PROVE  Stopped(d, Reconfigured(d, n)) /\ SameRequest(d, Reconfigured(d, n))
<1>. DEFINE u == UdcReset(d)
            s == [u EXCEPT !.num_configuration = n]
<1>1. u \in DeviceType /\ Stopped(d, u) /\ SameRequest(d, u)
  BY UdcResetKeeps, UdcResetStops
<1>2. Reconfigured(d, n) = s
  BY DEF Reconfigured
<1>3. /\ s.ep = u.ep /\ s.report_in = u.report_in
      /\ s.prevReport = u.prevReport /\ SameRequest(u, s)
  <2>. HIDE DEF u
  <2>. QED  BY <1>1 DEF DeviceType, SameRequest
<1>. HIDE DEF u, s
<1>4. QED
  BY <1>1, <1>2, <1>3, StoppedReflexive, StoppedTransitive DEF SameRequest

LEMMA SetConfigurationStops ==
  ASSUME NEW d \in DeviceType, NEW n \in Nat
  PROVE  Stopped(d, SetConfiguration(d, n)) /\ SameRequest(d, SetConfiguration(d, n))
<1>. DEFINE r == Reconfigured(d, n)
<1>1. r \in DeviceType /\ Stopped(d, r) /\ SameRequest(d, r)
  BY ReconfiguredKeeps, ReconfiguredStops
<1>2. Stopped(r, IfaceEnable(r, 0)) /\ SameRequest(r, IfaceEnable(r, 0))
  BY <1>1, IfaceEnableStops
<1>3. \/ SetConfiguration(d, n) = d
      \/ SetConfiguration(d, n) = r
      \/ SetConfiguration(d, n) = IfaceEnable(r, 0)
  BY DEF SetConfiguration
<1>4. Stopped(d, d) /\ SameRequest(d, d)
  BY StoppedReflexive DEF SameRequest
<1>5. Stopped(d, IfaceEnable(r, 0)) /\ SameRequest(d, IfaceEnable(r, 0))
  <2>. HIDE DEF r
  <2>. QED  BY <1>1, <1>2, StoppedTransitive DEF SameRequest
<1>6. QED
  BY <1>1, <1>3, <1>4, <1>5

LEMMA SetInterfaceStops ==
  ASSUME NEW d \in DeviceType, NEW setting
  PROVE  Stopped(d, SetInterface(d, setting)) /\ SameRequest(d, SetInterface(d, setting))
<1>. DEFINE i == IfaceDisable(d)
<1>1. i \in DeviceType /\ Stopped(d, i) /\ SameRequest(d, i)
  BY IfaceDisableKeeps, IfaceDisableStops
<1>2. Stopped(i, IfaceEnable(i, setting)) /\ SameRequest(i, IfaceEnable(i, setting))
  BY <1>1, IfaceEnableStops
<1>3. SetInterface(d, setting) = d \/ SetInterface(d, setting) = IfaceEnable(i, setting)
  BY DEF SetInterface
<1>4. Stopped(d, d) /\ SameRequest(d, d)
  BY StoppedReflexive DEF SameRequest
<1>. HIDE DEF i
<1>5. QED
  BY <1>1, <1>2, <1>3, <1>4, StoppedTransitive DEF SameRequest

-----------------------------------------------------------------------------
(***************************************************************************)
(* Requests and resets, whole.                                             *)
(***************************************************************************)

\* The address the device has if the callback of the request runs now.
LEMMA EndOfRequestStops ==
  ASSUME NEW d \in DeviceType
  PROVE  /\ Stopped(d, EndOfRequest(d))
         /\ EndOfRequest(d).address # d.address =>
              d.callback = "udc_valid_address" /\ EndOfRequest(d).address = d.wValue % 128
         /\ EndOfRequest(d).zlp_armed = d.zlp_armed
<1>1. LET s == [d EXCEPT !.address = d.wValue % 128]
      IN  /\ s.ep = d.ep /\ s.report_in = d.report_in /\ s.prevReport = d.prevReport
          /\ s.address = d.wValue % 128 /\ s.zlp_armed = d.zlp_armed
  BY DEF DeviceType
<1>2. QED
  BY <1>1, StoppedReflexive DEF EndOfRequest

LEMMA CtrlInitStops ==
  ASSUME NEW d \in DeviceType
  PROVE  /\ Stopped(d, CtrlInit(d))
         /\ CtrlInit(d).address = d.address
         /\ CtrlInit(d).callback = "NULL" /\ CtrlInit(d).zlp_armed = FALSE
<1>1. /\ CtrlInit(d).ep = d.ep /\ CtrlInit(d).report_in = d.report_in
      /\ CtrlInit(d).prevReport = d.prevReport /\ CtrlInit(d).address = d.address
      /\ CtrlInit(d).callback = "NULL" /\ CtrlInit(d).zlp_armed = FALSE
  BY DEF CtrlInit, DeviceType
<1>2. QED
  BY <1>1, StoppedReflexive

\* A request that is ended: both ways to it, the interrupt of its ZLP and the
\* next SETUP, take the address of the request that is still in udd_g_ctrlreq.
AddressOfRequest(d, s) ==
  s.address # d.address => d.callback = "udc_valid_address" /\ s.address = d.wValue % 128

LEMMA EndedStops ==
  ASSUME NEW d \in DeviceType
  PROVE  LET s == CtrlInit(EndOfRequest(d))
         IN  Stopped(d, s) /\ AddressOfRequest(d, s) /\ s.callback = "NULL" /\ ~s.zlp_armed
<1>. DEFINE e == EndOfRequest(d)
<1>1. /\ e \in DeviceType /\ Stopped(d, e)
      /\ e.address # d.address =>
           d.callback = "udc_valid_address" /\ e.address = d.wValue % 128
  BY EndOfRequestKeeps, EndOfRequestStops
<1>. HIDE DEF e
<1>2. QED
  BY <1>1, CtrlInitStops, StoppedTransitive DEF AddressOfRequest, e

LEMMA ReinitialisedStops ==
  ASSUME NEW d \in DeviceType
  PROVE  /\ Stopped(d, Reinitialised(d))
         /\ AddressOfRequest(d, Reinitialised(d))
<1>1. Stopped(d, d) /\ AddressOfRequest(d, d)
  BY StoppedReflexive DEF AddressOfRequest
<1>2. Stopped(d, CtrlInit(d)) /\ AddressOfRequest(d, CtrlInit(d))
  BY CtrlInitStops DEF AddressOfRequest
<1>3. QED
  BY <1>1, <1>2, EndedStops DEF Reinitialised

\* Only SET_ADDRESS leaves a callback, and none changes the address yet.
LEMMA SettingStops ==
  ASSUME NEW d \in DeviceType, NEW r \in Request
  PROVE  /\ Stopped(d, Setting(d, r))
         /\ Setting(d, r).wValue = d.wValue /\ Setting(d, r).address = d.address
         /\ Setting(d, r).callback # d.callback => r.kind = "SET_ADDRESS"
<1>1. /\ Setting(d, r).ep = d.ep /\ Setting(d, r).report_in = d.report_in
      /\ Setting(d, r).prevReport = d.prevReport
      /\ Setting(d, r).wValue = d.wValue /\ Setting(d, r).address = d.address
      /\ Setting(d, r).callback
           = IF r.kind = "SET_ADDRESS" THEN "udc_valid_address" ELSE d.callback
  BY DEF Setting, DeviceType
<1>2. QED
  BY <1>1, StoppedReflexive

LEMMA ProcessedStops ==
  ASSUME NEW d \in DeviceType, NEW r \in Request
  PROVE  /\ Stopped(d, Processed(d, r))
         /\ Processed(d, r).wValue = d.wValue /\ Processed(d, r).address = d.address
         /\ Processed(d, r).callback # d.callback => r.kind = "SET_ADDRESS"
<1>1. Low(r) \in Nat
  BY BytesOf
<1>2. Stopped(d, SetConfiguration(d, Low(r))) /\ SameRequest(d, SetConfiguration(d, Low(r)))
  BY <1>1, SetConfigurationStops
<1>3. Stopped(d, SetInterface(d, Low(r))) /\ SameRequest(d, SetInterface(d, Low(r)))
  BY SetInterfaceStops
<1>4. QED
  BY <1>2, <1>3, HaltStops, SettingStops DEF Processed, SameRequest

\* udd_ctrl_setup_received: the address is at most that of the request before,
\* and a callback that waits belongs to the request in wValue.
LEMMA SetupReceivedStops ==
  ASSUME NEW d \in DeviceType, NEW r \in Request
  PROVE  /\ Stopped(d, SetupReceived(d, r))
         /\ AddressOfRequest(d, SetupReceived(d, r))
         /\ SetupReceived(d, r).callback = "udc_valid_address" =>
              r.kind = "SET_ADDRESS" /\ SetupReceived(d, r).wValue = r.wValue
<1>. DEFINE before == Reinitialised(d)
            ready == [before EXCEPT !.wValue = r.wValue, !.callback = "NULL"]
            after == Processed(ready, r)
<1>1. /\ before \in DeviceType
      /\ Stopped(d, before) /\ AddressOfRequest(d, before)
  BY ReinitialisedKeeps, ReinitialisedStops
<1>2. /\ ready \in DeviceType
      /\ ready.ep = before.ep /\ ready.report_in = before.report_in
      /\ ready.prevReport = before.prevReport /\ ready.address = before.address
      /\ ready.wValue = r.wValue /\ ready.callback = "NULL"
  <2>. HIDE DEF before
  <2>1. r.wValue \in Nat
    BY DEF Request
  <2>2. ready \in DeviceType
    BY <1>1, <2>1 DEF DeviceType, Callback
  <2>3. /\ ready.ep = before.ep /\ ready.report_in = before.report_in
        /\ ready.prevReport = before.prevReport /\ ready.address = before.address
        /\ ready.wValue = r.wValue /\ ready.callback = "NULL"
    BY <1>1 DEF DeviceType
  <2>. QED  BY <2>2, <2>3
<1>3. /\ after \in DeviceType /\ Stopped(ready, after)
      /\ after.wValue = ready.wValue /\ after.address = ready.address
      /\ after.callback # ready.callback => r.kind = "SET_ADDRESS"
  <2>. HIDE DEF ready
  <2>. QED  BY <1>2, ProcessedKeeps, ProcessedStops
<1>4. Stopped(d, after)
  <2>. HIDE DEF before, ready, after
  <2>1. Stopped(before, ready)
    BY <1>2, StoppedReflexive
  <2>. QED  BY <1>1, <2>1, <1>3, StoppedTransitive
<1>5. SetupReceived(d, r) = IF Accepts(ready, r)
        THEN [after EXCEPT !.control_state = "HANDSHAKE_WAIT_IN_ZLP", !.zlp_armed = TRUE]
        ELSE [after EXCEPT !.control_state = "STALL_REQ"]
  BY DEF SetupReceived
<1>. HIDE DEF before, after, ready
<1>6. LET s == SetupReceived(d, r)
      IN  /\ s.ep = after.ep /\ s.report_in = after.report_in
          /\ s.prevReport = after.prevReport /\ s.address = after.address
          /\ s.wValue = after.wValue /\ s.callback = after.callback
  BY <1>3, <1>5 DEF DeviceType
<1>7. Stopped(d, SetupReceived(d, r))
  BY <1>4, <1>6, StoppedReflexive, StoppedTransitive
<1>8. QED
  BY <1>1, <1>2, <1>3, <1>6, <1>7 DEF AddressOfRequest

\* A reset leaves endpoint 0 without a packet and endpoint 1 without an entry.
LEMMA BusResetStops ==
  ASSUME NEW d \in DeviceType, Sound(d)
  PROVE  /\ Stopped(d, BusReset(d))
         /\ BusReset(d).address = 0
         /\ BusReset(d).callback = "NULL"
         /\ ~BusReset(d).zlp_armed
         /\ ~BusReset(d).ep.enabled
<1>. DEFINE a == Abort(d)
            u == UdcReset(a)
            v == [u EXCEPT !.address = 0, !.control_enabled = TRUE]
<1>1. a \in DeviceType /\ Sound(a) /\ Stopped(d, a)
  BY AbortKeeps, HaltStops
<1>2. u \in DeviceType /\ Stopped(a, u) /\ ~u.ep.enabled
  <2>. HIDE DEF a
  <2>. QED  BY <1>1, UdcResetKeeps, UdcResetStops
<1>3. BusReset(d) = CtrlInit(v)
  BY DEF BusReset
<1>4. /\ v \in DeviceType
      /\ v.ep = u.ep /\ v.report_in = u.report_in /\ v.prevReport = u.prevReport
      /\ v.address = 0
  <2>. HIDE DEF u
  <2>. QED  BY <1>2 DEF DeviceType
<1>. HIDE DEF a, u, v
<1>5. Stopped(d, v)
  BY <1>1, <1>2, <1>4, StoppedReflexive, StoppedTransitive
<1>6. CtrlInit(v).ep = v.ep
  BY CtrlInitKeeps, <1>4 DEF SameReportPath
<1>7. QED
  BY <1>2, <1>3, <1>4, <1>5, <1>6, CtrlInitStops, StoppedTransitive

\* The interrupt of a packet of endpoint 0.
LEMMA InSentStops ==
  ASSUME NEW d \in DeviceType
  PROVE  /\ Stopped(d, InSent(d)) /\ InSent(d).ep = d.ep
         /\ AddressOfRequest(d, InSent(d))
         /\ InSent(d).callback = "udc_valid_address" =>
              d.callback = "udc_valid_address" /\ InSent(d).wValue = d.wValue
         /\ InSent(d).zlp_armed => d.zlp_armed
<1>1. LET s == [d EXCEPT !.zlp_done = FALSE]
      IN  /\ s.ep = d.ep /\ s.report_in = d.report_in /\ s.prevReport = d.prevReport
          /\ s.address = d.address /\ s.callback = d.callback
          /\ s.wValue = d.wValue /\ s.zlp_armed = d.zlp_armed
  BY DEF DeviceType
<1>2. CtrlInit(EndOfRequest(d)).ep = d.ep
  BY EndOfRequestKeeps, CtrlInitKeeps DEF SameReportPath
<1>3. CASE InSent(d) = CtrlInit(EndOfRequest(d))
  BY <1>2, <1>3, EndedStops
<1>4. CASE InSent(d) = [d EXCEPT !.zlp_done = FALSE]
  BY <1>1, <1>4, StoppedReflexive DEF AddressOfRequest
<1>5. QED
  BY <1>3, <1>4 DEF InSent

-----------------------------------------------------------------------------
(***************************************************************************)
(* The routines that advance a transfer.  A report is one hardware         *)
(* transfer, so all there is to count is whether it was sent.              *)
(***************************************************************************)
ReportWhole(e) == e.nb_trans = 0 /\ e.buf_size = ReportSize
Offered(e) == e.busy /\ e.cnt = ReportSize /\ e.aux = 0 /\ ReportWhole(e)

LEMMA ReportIsOneTransfer ==
  /\ ReportSize \in Nat /\ ReportSize # 0 /\ ReportSize < 65536
  /\ ReportSize <= MaxTrans /\ MaxTrans \in Nat
BY ReportSizeAssumption, EpSizeAssumption, MaxTransAssumption

\* With nothing sent the whole report is armed (again).
LEMMA UnsentIsOffered ==
  ASSUME NEW e \in EndpointType, ReportWhole(e), e.aux = 0, ~e.b_shortpacket
  PROVE  LET f == TransCompletIn(e)
         IN  /\ ReportWhole(f) /\ f.aux = 0 /\ f.cnt = ReportSize
             /\ ~f.b_shortpacket /\ ~f.nack
             /\ f.busy = e.busy /\ f.enabled = e.enabled /\ f.stall = e.stall
             /\ f.trncompl = e.trncompl
             /\ ~CompletionCalls(e)
<1>1. Sent(e) = 0 /\ DataRemains(e)
  BY ReportIsOneTransfer DEF ReportWhole, Sent, Word, DataRemains
<1>2. NextTrans(e) = ReportSize
  BY <1>1, ReportIsOneTransfer DEF NextTrans, ReportWhole, Word
<1>. DEFINE armed == Armed(Accounted(e), NextTrans(e))
            full == armed.b_shortpacket /\ NextTrans(e) % EpSize = 0
<1>3. TransCompletIn(e) = [armed EXCEPT !.b_shortpacket = full]
  BY <1>1 DEF TransCompletIn
<1>4. /\ armed \in EndpointType
      /\ armed.nb_trans = 0 /\ armed.buf_size = ReportSize /\ armed.aux = 0
      /\ armed.cnt = ReportSize /\ ~armed.b_shortpacket /\ ~armed.nack
      /\ armed.busy = e.busy /\ armed.enabled = e.enabled /\ armed.stall = e.stall
      /\ armed.trncompl = e.trncompl
  <2>1. NextTrans(e) \in Nat
    BY NextTransType
  <2>2. Accounted(e) = [e EXCEPT !.nb_trans = 0]
    BY <1>1 DEF Accounted
  <2>. DEFINE counted == Accounted(e)
  <2>3. /\ counted \in EndpointType
        /\ counted.nb_trans = 0 /\ counted.buf_size = ReportSize
        /\ ~counted.b_shortpacket
        /\ counted.busy = e.busy /\ counted.enabled = e.enabled
        /\ counted.stall = e.stall /\ counted.trncompl = e.trncompl
    BY <2>2 DEF EndpointType, ReportWhole
  <2>4. armed = [counted EXCEPT !.aux = 0, !.cnt = ReportSize, !.nack = FALSE]
    BY <1>2 DEF Armed
  <2>. HIDE DEF armed, counted
  <2>5. ReportSize \in Nat
    BY ReportIsOneTransfer
  <2>6. armed \in EndpointType
    BY <2>3, <2>4, <2>5 DEF EndpointType
  <2>. QED  BY <2>3, <2>4, <2>6 DEF EndpointType
<1>5. ~full
  BY <1>4
<1>6. ~CompletionCalls(e)
  BY <1>1 DEF CompletionCalls
<1>. HIDE DEF armed, full
<1>7. QED
  BY <1>3, <1>4, <1>5, <1>6 DEF EndpointType, ReportWhole

\* With the report sent the job ends, and nothing is armed.
LEMMA SentIsEnded ==
  ASSUME NEW e \in EndpointType, ReportWhole(e), e.aux = ReportSize, ~e.b_shortpacket
  PROVE  LET f == TransCompletIn(e)
         IN  /\ f.aux = ReportSize /\ ~f.b_shortpacket
             /\ f.nack = e.nack /\ ~f.busy
             /\ f.enabled = e.enabled /\ f.stall = e.stall /\ f.trncompl = e.trncompl
<1>1. Sent(e) = ReportSize /\ ~DataRemains(e)
  BY ReportIsOneTransfer DEF ReportWhole, Sent, Word, DataRemains
<1>2. TransCompletIn(e) = [[e EXCEPT !.nb_trans = ReportSize] EXCEPT !.busy = FALSE]
  BY <1>1 DEF TransCompletIn, Accounted
<1>3. QED
  BY <1>2 DEF EndpointType

\* An accepted report is offered whole; a completion not yet handled stays.
LEMMA EpRunOffers ==
  ASSUME NEW e \in EndpointType, EpRunAccepts(e)
  PROVE  LET f == EpRun(e, ReportJob)
         IN  /\ Offered(f) /\ ~f.b_shortpacket /\ ~f.nack
             /\ f.enabled /\ ~f.stall /\ f.trncompl = e.trncompl
<1>. DEFINE started == JobStarted(e, ReportJob)
<1>1. /\ started \in EndpointType /\ ReportWhole(started) /\ started.aux = 0
      /\ ~started.b_shortpacket /\ started.busy
      /\ started.enabled = e.enabled /\ started.stall = e.stall
      /\ started.trncompl = e.trncompl
  <2>. DEFINE zlp == ReportJob.shortpacket \/ ReportJob.size = 0
              registered == Registered(e, ReportJob.size)
  <2>1. zlp \in BOOLEAN /\ ~zlp
    BY ReportIsOneTransfer DEF ReportJob
  <2>2. /\ registered \in EndpointType
        /\ ReportWhole(registered) /\ registered.aux = 0 /\ registered.busy
        /\ registered.enabled = e.enabled /\ registered.stall = e.stall
        /\ registered.trncompl = e.trncompl
    <3>1. ReportJob.size = ReportSize /\ ReportSize \in Nat
      BY ReportIsOneTransfer DEF ReportJob
    <3>2. /\ registered \in EndpointType
          /\ registered.busy /\ registered.buf_size = ReportSize
          /\ registered.nb_trans = 0 /\ registered.aux = 0
          /\ registered.enabled = e.enabled /\ registered.stall = e.stall
      BY <3>1, RegisteredKeeps
    <3>3. registered.trncompl = e.trncompl
      BY DEF Registered, EndpointType
    <3>. QED  BY <3>2, <3>3 DEF ReportWhole
  <2>3. started = [registered EXCEPT !.b_shortpacket = zlp]
    BY DEF JobStarted
  <2>. HIDE DEF zlp, registered, started
  <2>4. QED
    BY <2>1, <2>2, <2>3 DEF EndpointType, ReportWhole
<1>2. EpRun(e, ReportJob) = TransCompletIn(started)
  BY DEF EpRun
<1>. HIDE DEF started
<1>3. QED
  BY <1>1, <1>2, UnsentIsOffered DEF Offered, EpRunAccepts

\* The report task: it starts a report on an endpoint that accepts it, or leaves
\* the endpoint alone; it writes the buffer only while the flag says it is free.
LEMMA SofActionOffers ==
  ASSUME NEW d \in DeviceType, NEW data \in Reports, NEW normal, d.ep.busy => ~d.report_in_free
  PROVE  LET s == SofAction(d, data, normal)
         IN  /\ SameRequest(d, s)
             /\ d.ep.busy => s.ep = d.ep /\ s.report_in = d.report_in /\ s.prevReport = d.prevReport
             /\ \/ s.ep = d.ep /\ s.prevReport = d.prevReport
                \/ /\ EpRunAccepts(d.ep) /\ s.ep = EpRun(d.ep, ReportJob)
                   /\ s.report_in = s.prevReport
<1>. DEFINE s == SofAction(d, data, normal)
            run == EpRun(d.ep, ReportJob)
            free == ~EpRunAccepts(d.ep)
            sent == SendReportIn(d, data)
            prev == IF SendAccepted(d) THEN data ELSE sent.prevReport
<1>1. CASE s = d
  BY <1>1 DEF SameRequest
<1>2. CASE s # d
  <2>1. s = [sent EXCEPT !.prevReport = prev] \/ s = UsbTask(d, data)
    BY <1>2 DEF SofAction
  <2>2. d.report_in_free => sent = [d EXCEPT !.report_in = data, !.ep = run, !.report_in_free = free]
    BY DEF SendReportIn, DeviceType
  <2>3. ~d.report_in_free => sent = d
    BY DEF SendReportIn
  <2>4. sent \in DeviceType
    BY SendReportInKeeps
  <2>5. UsbTask(d, data) = IF data = d.prevReport THEN d ELSE [sent EXCEPT !.prevReport = prev]
    <3>. HIDE DEF sent
    <3>1. [sent EXCEPT !.prevReport = IF SendAccepted(d) THEN data ELSE @]
            = [sent EXCEPT !.prevReport = prev]
      BY <2>4 DEF DeviceType
    <3>. QED  BY <3>1 DEF UsbTask, sent
  <2>6. s = [sent EXCEPT !.prevReport = prev]
    BY <1>2, <2>1, <2>5
  <2>7. CASE d.report_in_free /\ EpRunAccepts(d.ep)
    <3>1. prev = data
      BY <2>7 DEF SendAccepted
    <3>2. /\ s.ep = run /\ s.report_in = data /\ s.prevReport = data
          /\ SameRequest(d, s)
      <4>. HIDE DEF run, free, prev, s
      <4>. QED  BY <2>2, <2>4, <2>6, <2>7, <3>1 DEF DeviceType, SameRequest
    <3>3. ~d.ep.busy
      BY <2>7 DEF EpRunAccepts
    <3>. QED  BY <2>7, <3>2, <3>3
  <2>8. CASE d.report_in_free /\ ~EpRunAccepts(d.ep)
    <3>1. prev = sent.prevReport
      BY <2>8 DEF SendAccepted
    <3>2. run = d.ep
      BY <2>8 DEF EpRun
    <3>3. s.ep = d.ep /\ s.prevReport = d.prevReport /\ SameRequest(d, s)
      <4>. HIDE DEF run, free, prev, s
      <4>. QED  BY <2>2, <2>4, <2>6, <2>8, <3>1, <3>2 DEF DeviceType, SameRequest
    <3>. QED  BY <2>8, <3>3
  <2>9. CASE ~d.report_in_free
    <3>1. prev = d.prevReport
      BY <2>3, <2>9 DEF SendAccepted
    <3>2. s = [d EXCEPT !.prevReport = d.prevReport]
      BY <2>3, <2>6, <2>9, <3>1
    <3>3. s = d
      <4>. HIDE DEF s
      <4>. QED  BY <3>2 DEF DeviceType
    <3>. QED  BY <1>2, <3>3
  <2>10. QED
    BY <2>7, <2>8, <2>9
<1>3. QED
  BY <1>1, <1>2

\* A completion that waits is of a transfer of the whole report, not yet
\* accounted for; a job started since then has set the count back to 0.
DoneNotAccounted(e) ==
  e.trncompl => /\ ReportWhole(e) /\ e.aux \in {0, ReportSize}
                /\ e.enabled /\ ~e.busy => e.aux = ReportSize

LEMMA TransCompletAdvances ==
  ASSUME NEW d \in DeviceType, ~d.ep.b_shortpacket, DoneNotAccounted(d.ep)
  PROVE  LET s == TransComplet(d)
         IN  /\ SameRequest(d, s)
             /\ s.report_in = d.report_in /\ s.prevReport = d.prevReport
             /\ ~d.ep.trncompl => s.ep = d.ep
             /\ d.ep.trncompl =>
                  /\ ~s.ep.trncompl /\ ~s.ep.b_shortpacket
                  /\ s.ep.enabled = d.ep.enabled /\ s.ep.stall = d.ep.stall
                  /\ \/ /\ d.ep.aux = 0 /\ s.ep.aux = 0
                        /\ ReportWhole(s.ep) /\ s.ep.cnt = ReportSize
                        /\ ~s.ep.nack /\ s.ep.busy = d.ep.busy
                     \/ /\ d.ep.aux = ReportSize /\ s.ep.aux = ReportSize
                        /\ s.ep.nack = d.ep.nack /\ ~s.ep.busy
<1>. DEFINE s == TransComplet(d)
            acked == EpAckTc(d.ep)
            next == TransCompletIn(acked)
            free == d.report_in_free \/ CompletionCalls(acked)
<1>1. CASE ~d.ep.trncompl
  BY <1>1 DEF TransComplet, SameRequest
<1>2. CASE d.ep.trncompl
  <2>1. /\ acked \in EndpointType /\ ReportWhole(acked) /\ acked.aux = d.ep.aux
        /\ ~acked.b_shortpacket /\ ~acked.trncompl
        /\ acked.enabled = d.ep.enabled /\ acked.stall = d.ep.stall
        /\ acked.nack = d.ep.nack /\ acked.busy = d.ep.busy
    BY <1>2, EndpointOf, EpRoutineTypes DEF EpAckTc, EndpointType, DoneNotAccounted, ReportWhole
  <2>2. s = [[d EXCEPT !.report_in_free = free] EXCEPT !.ep = next]
    BY <1>2 DEF TransComplet, ReportInSent, DeviceType
  <2>3. /\ s.ep = next /\ SameRequest(d, s)
        /\ s.report_in = d.report_in /\ s.prevReport = d.prevReport
    <3>. HIDE DEF next, free, s
    <3>. QED  BY <2>2 DEF DeviceType, SameRequest
  <2>4. acked.aux = 0 \/ acked.aux = ReportSize
    BY <1>2, <2>1 DEF DoneNotAccounted
  <2>. HIDE DEF acked, s
  <2>5. CASE acked.aux = 0
    <3>1. /\ ReportWhole(next) /\ next.aux = 0 /\ next.cnt = ReportSize
          /\ ~next.b_shortpacket /\ ~next.nack /\ next.busy = acked.busy
          /\ next.enabled = acked.enabled /\ next.stall = acked.stall
          /\ next.trncompl = acked.trncompl
      BY <2>1, <2>5, UnsentIsOffered
    <3>. HIDE DEF next
    <3>. QED  BY <1>2, <2>1, <2>3, <2>5, <3>1 DEF s
  <2>6. CASE acked.aux = ReportSize
    <3>1. /\ next.aux = ReportSize /\ ~next.b_shortpacket
          /\ next.nack = acked.nack /\ ~next.busy
          /\ next.enabled = acked.enabled /\ next.stall = acked.stall
          /\ next.trncompl = acked.trncompl
      BY <2>1, <2>6, SentIsEnded
    <3>. HIDE DEF next
    <3>. QED  BY <1>2, <2>1, <2>3, <2>6, <3>1 DEF s
  <2>7. QED
    BY <2>4, <2>5, <2>6
<1>3. QED
  BY <1>1, <1>2

-----------------------------------------------------------------------------
(***************************************************************************)
(* The invariants about transfers.                                         *)
(***************************************************************************)
ArmedForJob(e) == e.enabled /\ ~e.nack => Offered(e)

OnTheWire(e) == e.cnt = ReportSize /\ e.aux = 0 /\ ReportWhole(e)

Transfers ==
  /\ ~dev.ep.b_shortpacket
  /\ ArmedForJob(dev.ep)
  /\ DoneNotAccounted(dev.ep)
  /\ dev.ep.trncompl => \E i \in 1..Len(fifo) : fifo[i] = "EP1_IN"
  /\ wire = "data" => EpAnswers(dev.ep)
  /\ wire = "late" => OnTheWire(dev.ep)

\* What the host has, the buffer and the position believed sent.
Delivery ==
  /\ dev.ep.busy => dev.report_in = dev.prevReport
  /\ dev.ep.busy /\ dev.ep.aux = ReportSize => host.report = dev.report_in
  /\ ~dev.ep.busy /\ ~hist.aborted => host.report = dev.prevReport
  /\ wire # "idle" /\ ~dev.ep.busy => hist.aborted

AddressPending ==
  dev.callback = "udc_valid_address" => hist.asked = dev.wValue % 128

\* Completions that are in the FIFO, or may still get there before the handler
\* has emptied it: the ZLP of endpoint 0, a transaction of an aborted job, and
\* one of a job that is offered or may be started.
MayComplete(e) == e.enabled /\ ~e.stall /\ ~(e.busy /\ e.nack)
One(p) == IF p THEN 1 ELSE 0
FifoLoad ==
  Len(fifo) + One(dev.zlp_armed) + One(wire = "late" /\ ~EpAnswers(dev.ep))
            + One(MayComplete(dev.ep)) <= 3

TransferInv == Inv /\ Transfers /\ Delivery /\ AddressPending /\ FifoLoad

\* While a job is registered the buffer is not free, so the task leaves it.
LEMMA BusyNotFree == Inv => (dev.ep.busy => ~dev.report_in_free)
BY DEF Inv, Sound

LEMMA QuietDevice == ASSUME Inv, Transfers PROVE Quiet(dev.ep)
BY DEF Inv, Sound, Transfers, ArmedForJob, Offered, Quiet

LEMMA OfferedOnTheWire == ASSUME Transfers, wire = "data" PROVE OnTheWire(dev.ep) /\ dev.ep.busy
BY DEF Transfers, EpAnswers, ArmedForJob, Offered, OnTheWire

LEMMA InitTransferInv == Init => TransferInv
<1>. SUFFICES ASSUME Init PROVE TransferInv
  OBVIOUS
<1>1. Inv
  BY InitInv
<1>2. dev.ep = EpOff /\ wire = "idle" /\ fifo = <<>>
  BY DEF Init
<1>3. Transfers
  BY <1>2 DEF Transfers, EpOff, ArmedForJob, DoneNotAccounted
<1>4. Delivery /\ AddressPending
  BY <1>2 DEF Init, Delivery, AddressPending, EpOff
<1>5. FifoLoad
  <2>1. One(dev.zlp_armed) = 0 /\ One(MayComplete(dev.ep)) = 0
        /\ One(wire = "late" /\ ~EpAnswers(dev.ep)) = 0
    BY <1>2 DEF Init, EpOff, One, MayComplete
  <2>2. Len(fifo) = 0
    BY <1>2
  <2>. QED  BY <2>1, <2>2 DEF FifoLoad
<1>6. QED
  BY <1>1, <1>3, <1>4, <1>5 DEF TransferInv

-----------------------------------------------------------------------------
(***************************************************************************)
(* A handler that only stops transfers, whatever it does besides.          *)
(***************************************************************************)
LEMMA StopKeeps ==
  ASSUME Inv, Transfers, Delivery, Stopped(dev, dev'), Handler,
         ~dev'.ep.trncompl \/ ~dev'.ep.enabled \/ dev'.ep = dev.ep,
         dev'.ep.trncompl => \E i \in 1..Len(fifo') : fifo'[i] = "EP1_IN",
         hist'.aborted <=> hist.aborted \/ (dev.ep.busy /\ ~dev'.ep.busy)
  PROVE  Transfers' /\ Delivery'
<1>1. wire' # "data" /\ (wire' = "late" => wire = "data") /\ host' = host
  BY DEF Handler
<1>2. /\ ~dev'.ep.b_shortpacket
      /\ ReportWhole(dev.ep) => ReportWhole(dev'.ep)
      /\ dev'.ep.aux = dev.ep.aux /\ dev'.ep.cnt = dev.ep.cnt
      /\ dev'.ep.busy => dev.ep.busy
      /\ dev'.ep.trncompl => dev.ep.trncompl
      /\ dev'.report_in = dev.report_in /\ dev'.prevReport = dev.prevReport
  BY DEF Stopped, EpStopped, Transfers, ReportWhole
<1>3. ArmedForJob(dev'.ep)
  <2>1. Quiet(dev.ep)
    BY QuietDevice
  <2>2. dev'.ep.enabled /\ ~dev'.ep.nack =>
          dev.ep.enabled /\ ~dev.ep.nack /\ dev'.ep.busy = dev.ep.busy
    BY <2>1 DEF Stopped, EpStopped
  <2>3. QED
    BY <1>2, <2>2 DEF Transfers, ArmedForJob, Offered
<1>4. DoneNotAccounted(dev'.ep)
  BY <1>2 DEF Transfers, DoneNotAccounted
<1>5. wire' = "late" => OnTheWire(dev'.ep)
  BY <1>1, <1>2, OfferedOnTheWire DEF OnTheWire
<1>6. Transfers'
  BY <1>1, <1>2, <1>3, <1>4, <1>5 DEF Transfers
<1>7. Delivery'
  <2>1. wire' # "idle" => wire # "idle"
    BY DEF Handler
  <2>2. QED
    BY <1>1, <1>2, <2>1 DEF Delivery
<1>8. QED
  BY <1>6, <1>7

\* Counting: how the load of the FIFO compares before and after.
LEMMA LoadTerms ==
  /\ \A p : One(p) \in 0..1
  /\ \A p, q : (p => q) => One(p) <= One(q)
  /\ \A p : ~p => One(p) = 0
  /\ \A p : p => One(p) = 1
BY DEF One

\* A reset leaves nothing that can still complete but what is on the wire.
LEMMA ResetStep ==
  ASSUME TransferInv, ResetIsr
  PROVE  Transfers' /\ Delivery' /\ AddressPending' /\ FifoLoad'
<1>1. /\ Inv /\ Transfers /\ Delivery /\ FifoLoad /\ dev \in DeviceType /\ Sound(dev)
      /\ Handler /\ fifo' = fifo /\ dev' = BusReset(dev)
  BY DEF TransferInv, Inv, TypeOK, ResetIsr
<1>2. /\ Stopped(dev, dev') /\ dev'.callback = "NULL" /\ ~dev'.zlp_armed
      /\ ~dev'.ep.enabled /\ Sound(dev') /\ dev' \in DeviceType
  BY <1>1, BusResetStops, BusResetKeeps
<1>3. ~dev'.ep.busy
  BY <1>2 DEF Sound
<1>4. hist'.aborted <=> hist.aborted \/ (dev.ep.busy /\ ~dev'.ep.busy)
  BY <1>1, <1>3 DEF ResetIsr, Inv, TypeOK
<1>5. dev'.ep.trncompl => \E i \in 1..Len(fifo') : fifo'[i] = "EP1_IN"
  BY <1>1, <1>2 DEF Stopped, EpStopped, Transfers
<1>6. Transfers' /\ Delivery'
  BY <1>1, <1>2, <1>4, <1>5, StopKeeps
<1>7. AddressPending'
  BY <1>2 DEF AddressPending
<1>8. FifoLoad'
  <2>1. One(dev'.zlp_armed) = 0 /\ One(MayComplete(dev'.ep)) = 0
    BY <1>2, LoadTerms DEF MayComplete
  <2>2. Len(fifo') = Len(fifo) /\ Len(fifo) \in Nat
    BY <1>1 DEF Inv, TypeOK
  <2>3. One((wire = "late" /\ ~EpAnswers(dev.ep))') <= One(MayComplete(dev.ep))
    <3>1. CASE wire = "data"
      <4>1. MayComplete(dev.ep)
        BY <1>1, <3>1 DEF Transfers, EpAnswers, MayComplete
      <4>2. One(MayComplete(dev.ep)) = 1 /\ One((wire = "late" /\ ~EpAnswers(dev.ep))') \in 0..1
        BY <4>1, LoadTerms
      <4>. QED  BY <4>2
    <3>2. CASE wire # "data"
      <4>1. ~(wire = "late" /\ ~EpAnswers(dev.ep))'
        BY <1>1, <3>2 DEF Handler
      <4>2. One((wire = "late" /\ ~EpAnswers(dev.ep))') = 0 /\ One(MayComplete(dev.ep)) \in 0..1
        BY <4>1, LoadTerms
      <4>. QED  BY <4>2
    <3>. QED  BY <3>1, <3>2
  <2>4. /\ One(dev.zlp_armed) \in 0..1 /\ One(MayComplete(dev.ep)) \in 0..1
        /\ One(wire = "late" /\ ~EpAnswers(dev.ep)) \in 0..1
        /\ One((wire = "late" /\ ~EpAnswers(dev.ep))') \in 0..1
    BY LoadTerms
  <2>5. QED
    BY <1>1, <2>1, <2>2, <2>3, <2>4 DEF FifoLoad
<1>9. QED
  BY <1>6, <1>7, <1>8

\* A SETUP is handled when the FIFO is empty, so no completion of the job it may
\* stop waits there.
LEMMA SetupStep ==
  ASSUME TransferInv, SetupIsr
  PROVE  Transfers' /\ Delivery' /\ AddressPending' /\ FifoLoad'
<1>1. /\ Inv /\ Transfers /\ Delivery /\ dev \in DeviceType
      /\ Handler /\ fifo = <<>> /\ fifo' = <<>> /\ dev' = SetupReceived(dev, setup)
      /\ setup \in Request
  BY DEF TransferInv, Inv, TypeOK, SetupIsr
<1>2. /\ Stopped(dev, dev')
      /\ dev'.callback = "udc_valid_address" =>
           setup.kind = "SET_ADDRESS" /\ dev'.wValue = setup.wValue
  BY <1>1, SetupReceivedStops
<1>3. ~dev.ep.trncompl /\ ~dev'.ep.trncompl
  <2>1. \A i \in 1..Len(fifo) : FALSE
    BY <1>1
  <2>2. ~dev.ep.trncompl
    BY <1>1, <2>1 DEF Transfers
  <2>. QED  BY <1>2, <2>2 DEF Stopped, EpStopped
<1>4. hist'.aborted <=> hist.aborted \/ (dev.ep.busy /\ ~dev'.ep.busy)
  BY DEF SetupIsr
<1>5. Transfers' /\ Delivery'
  BY <1>1, <1>2, <1>3, <1>4, StopKeeps
<1>6. AddressPending'
  BY <1>2 DEF SetupIsr, AddressPending, RequestedAddress
<1>7. FifoLoad'
  <2>1. Len(fifo') = 0
    BY <1>1
  <2>2. /\ One(dev'.zlp_armed) \in 0..1 /\ One(MayComplete(dev'.ep)) \in 0..1
        /\ One((wire = "late" /\ ~EpAnswers(dev.ep))') \in 0..1
    BY LoadTerms
  <2>3. QED
    BY <2>1, <2>2 DEF FifoLoad
<1>8. QED
  BY <1>5, <1>6, <1>7

\* The report task: nothing it starts was under way, nothing under way is touched.
LEMMA SofStep ==
  ASSUME TransferInv, SofIsr
  PROVE  Transfers' /\ Delivery' /\ AddressPending' /\ FifoLoad'
<1>1. /\ Inv /\ Transfers /\ Delivery /\ AddressPending /\ FifoLoad
      /\ dev \in DeviceType /\ slider \in Reports /\ dev.ep \in EndpointType
      /\ Handler /\ fifo' = fifo /\ hist' = hist /\ dev' = SofAction(dev, slider, testSwitch)
      /\ host' = host
  BY EndpointOf DEF TransferInv, Inv, TypeOK, SofIsr, Handler
<1>2. dev.ep.busy => ~dev.report_in_free
  BY <1>1, BusyNotFree
<1>3. /\ SameRequest(dev, dev')
      /\ dev.ep.busy => /\ dev'.ep = dev.ep /\ dev'.report_in = dev.report_in
                        /\ dev'.prevReport = dev.prevReport
      /\ \/ dev'.ep = dev.ep /\ dev'.prevReport = dev.prevReport
         \/ /\ EpRunAccepts(dev.ep) /\ dev'.ep = EpRun(dev.ep, ReportJob)
            /\ dev'.report_in = dev'.prevReport
  BY <1>1, <1>2, SofActionOffers
<1>4. AddressPending'
  BY <1>1, <1>3 DEF AddressPending, SameRequest
<1>5. wire' = "late" => wire = "data" /\ dev'.ep = dev.ep /\ OnTheWire(dev.ep) /\ EpAnswers(dev.ep)
  BY <1>1, <1>3, OfferedOnTheWire DEF Handler, Transfers
<1>6. wire' # "data" /\ (wire' # "idle" => wire # "idle")
  BY <1>1 DEF Handler
<1>7. ASSUME dev'.ep = dev.ep PROVE Transfers' /\ Delivery'
  <2>1. Transfers'
    BY <1>1, <1>5, <1>6, <1>7 DEF Transfers
  <2>2. dev'.prevReport = dev.prevReport
    <3>1. EpRunAccepts(dev.ep) => EpRun(dev.ep, ReportJob) # dev.ep
      BY <1>1, EpRunOffers DEF EpRunAccepts, Offered
    <3>. QED  BY <1>3, <1>7, <3>1
  <2>3. Delivery'
    BY <1>1, <1>3, <1>6, <1>7, <2>2 DEF Delivery
  <2>4. QED
    BY <2>1, <2>3
<1>8. ASSUME dev'.ep # dev.ep PROVE Transfers' /\ Delivery'
  <2>1. /\ Offered(dev'.ep) /\ ~dev'.ep.b_shortpacket /\ ~dev'.ep.nack
        /\ dev'.ep.enabled /\ ~dev'.ep.stall /\ dev'.ep.trncompl = dev.ep.trncompl
        /\ dev'.report_in = dev'.prevReport /\ ~dev.ep.busy
    BY <1>1, <1>3, <1>8, EpRunOffers DEF EpRunAccepts
  <2>2. wire' = "idle"
    BY <1>1, <1>5, <1>6, <1>8 DEF Handler, Inv, TypeOK
  <2>3. Transfers'
    BY <1>1, <2>1, <2>2 DEF Transfers, ArmedForJob, DoneNotAccounted, Offered
  <2>4. Delivery'
    BY <2>1, <2>2, ReportIsOneTransfer DEF Delivery, Offered
  <2>5. QED
    BY <2>3, <2>4
<1>9. FifoLoad'
  <2>1. One(dev'.zlp_armed) = One(dev.zlp_armed) /\ Len(fifo') = Len(fifo) /\ Len(fifo) \in Nat
    BY <1>1, <1>3 DEF SameRequest, Inv, TypeOK
  <2>2. ~(wire = "late" /\ ~EpAnswers(dev.ep))'
    BY <1>5
  <2>3. One((wire = "late" /\ ~EpAnswers(dev.ep))') = 0
    BY <2>2, LoadTerms
  <2>4. MayComplete(dev'.ep) => MayComplete(dev.ep)
    BY <1>3 DEF MayComplete, EpRunAccepts
  <2>5. One(MayComplete(dev'.ep)) <= One(MayComplete(dev.ep))
    BY <2>4, LoadTerms
  <2>6. /\ One(dev.zlp_armed) \in 0..1 /\ One(MayComplete(dev.ep)) \in 0..1
        /\ One(wire = "late" /\ ~EpAnswers(dev.ep)) \in 0..1
        /\ One(MayComplete(dev'.ep)) \in 0..1
    BY LoadTerms
  <2>7. QED
    BY <1>1, <2>1, <2>3, <2>5, <2>6 DEF FifoLoad
<1>10. QED
  BY <1>4, <1>7, <1>8, <1>9

\* A completion of endpoint 1 that waits is not lost when another is taken.
LEMMA TailKeeps ==
  ASSUME NEW s \in Seq(TransferDone), s # <<>>, Head(s) # "EP1_IN",
         \E i \in 1..Len(s) : s[i] = "EP1_IN"
  PROVE  \E i \in 1..Len(Tail(s)) : Tail(s)[i] = "EP1_IN"
<1>1. PICK i \in 1..Len(s) : s[i] = "EP1_IN"
  OBVIOUS
<1>2. i # 1
  BY <1>1
<1>3. i - 1 \in 1..Len(Tail(s)) /\ Tail(s)[i - 1] = s[i]
  BY <1>2
<1>4. QED
  BY <1>1, <1>3

\* The completion interrupt: an entry of endpoint 0, one of endpoint 1 whose
\* completion was dropped, one that meets a new job, and one that ends the job.
LEMMA TransferStep ==
  ASSUME TransferInv, TransferIsr
  PROVE  Transfers' /\ Delivery' /\ AddressPending' /\ FifoLoad'
<1>1. /\ Inv /\ Transfers /\ Delivery /\ AddressPending /\ FifoLoad
      /\ dev \in DeviceType /\ Handler /\ fifo \in Seq(TransferDone) /\ fifo # <<>>
      /\ fifo' = Tail(fifo) /\ Len(fifo') = Len(fifo) - 1 /\ Len(fifo) \in Nat
      /\ hist.aborted \in BOOLEAN
      /\ hist'.aborted <=> hist.aborted /\ ~(dev.ep.busy /\ ~dev'.ep.busy)
      /\ hist'.asked = hist.asked
      /\ host' = host
  <2>1. /\ Inv /\ Transfers /\ Delivery /\ AddressPending /\ FifoLoad
        /\ dev \in DeviceType /\ Handler /\ fifo \in Seq(TransferDone) /\ fifo # <<>>
        /\ fifo' = Tail(fifo) /\ host' = host
    BY DEF TransferInv, Inv, TypeOK, TransferIsr, Handler
  <2>2. Len(fifo') = Len(fifo) - 1 /\ Len(fifo) \in Nat
    BY <2>1
  <2>. DEFINE aborted == hist.aborted /\ ~(dev.ep.busy /\ ~dev'.ep.busy)
  <2>3. aborted \in BOOLEAN /\ hist.aborted \in BOOLEAN
    BY <2>1 DEF Inv, TypeOK
  <2>4. hist' = [hist EXCEPT !.aborted = aborted]
    BY <2>1 DEF TransferIsr, Inv, TypeOK
  <2>5. (hist'.aborted <=> aborted) /\ hist'.asked = hist.asked
    <3>. HIDE DEF aborted
    <3>. QED  BY <2>1, <2>3, <2>4 DEF Inv, TypeOK
  <2>. QED  BY <2>1, <2>2, <2>3, <2>5
<1>. DEFINE Goal == /\ Transfers' /\ Delivery'
                    /\ AddressPending'
                    /\ dev'.zlp_armed => dev.zlp_armed
                    /\ ~(wire = "late" /\ ~EpAnswers(dev.ep))'
<1>2. ASSUME dev'.ep = dev.ep, Stopped(dev, dev'), dev.ep.trncompl => Head(fifo) # "EP1_IN"
      PROVE  Transfers' /\ Delivery' /\ ~(wire = "late" /\ ~EpAnswers(dev.ep))'
  <2>1. dev'.ep.trncompl => \E i \in 1..Len(fifo') : fifo'[i] = "EP1_IN"
    BY <1>1, <1>2, TailKeeps DEF Transfers
  <2>2. hist'.aborted <=> hist.aborted \/ (dev.ep.busy /\ ~dev'.ep.busy)
    BY <1>1, <1>2
  <2>3. ~(wire = "late" /\ ~EpAnswers(dev.ep))'
    BY <1>1, <1>2 DEF Handler, Transfers
  <2>. QED  BY <1>1, <1>2, <2>1, <2>2, <2>3, StopKeeps
<1>3. ASSUME Head(fifo) = "EP0_IN" PROVE Goal
  <2>1. dev' = InSent(dev)
    BY <1>3 DEF TransferIsr
  <2>2. /\ Stopped(dev, dev') /\ dev'.ep = dev.ep
        /\ dev'.callback = "udc_valid_address" =>
             dev.callback = "udc_valid_address" /\ dev'.wValue = dev.wValue
        /\ dev'.zlp_armed => dev.zlp_armed
    BY <1>1, <2>1, InSentStops
  <2>3. AddressPending'
    BY <1>1, <2>2 DEF AddressPending
  <2>. QED  BY <1>2, <1>3, <2>2, <2>3
<1>4. ASSUME Head(fifo) # "EP0_IN" PROVE Goal
  <2>1. /\ dev' = TransComplet(dev) /\ ~dev.ep.b_shortpacket /\ DoneNotAccounted(dev.ep)
    BY <1>1, <1>4 DEF TransferIsr, Transfers
  <2>2. /\ SameRequest(dev, dev')
        /\ dev'.report_in = dev.report_in /\ dev'.prevReport = dev.prevReport
        /\ ~dev.ep.trncompl => dev'.ep = dev.ep
        /\ dev.ep.trncompl =>
             /\ ~dev'.ep.trncompl /\ ~dev'.ep.b_shortpacket
             /\ dev'.ep.enabled = dev.ep.enabled /\ dev'.ep.stall = dev.ep.stall
             /\ \/ /\ dev.ep.aux = 0 /\ dev'.ep.aux = 0
                   /\ ReportWhole(dev'.ep) /\ dev'.ep.cnt = ReportSize
                   /\ ~dev'.ep.nack /\ dev'.ep.busy = dev.ep.busy
                \/ /\ dev.ep.aux = ReportSize /\ dev'.ep.aux = ReportSize
                   /\ dev'.ep.nack = dev.ep.nack /\ ~dev'.ep.busy
    BY <1>1, <2>1, TransCompletAdvances
  <2>3. AddressPending' /\ (dev'.zlp_armed => dev.zlp_armed)
    BY <1>1, <2>2 DEF AddressPending, SameRequest
  <2>4. CASE ~dev.ep.trncompl
    BY <1>2, <2>2, <2>3, <2>4, StoppedReflexive
  <2>5. CASE dev.ep.trncompl /\ dev.ep.aux = 0 /\ dev'.ep.aux = 0
    <3>1. /\ ~dev'.ep.trncompl /\ ~dev'.ep.b_shortpacket
          /\ dev'.ep.enabled = dev.ep.enabled /\ dev'.ep.stall = dev.ep.stall
          /\ OnTheWire(dev'.ep) /\ ~dev'.ep.nack /\ dev'.ep.busy = dev.ep.busy
      BY <2>2, <2>5, ReportIsOneTransfer DEF OnTheWire
    <3>2. dev.ep.enabled => dev.ep.busy
      BY <2>1, <2>5, ReportIsOneTransfer DEF DoneNotAccounted
    <3>3. ArmedForJob(dev'.ep) /\ DoneNotAccounted(dev'.ep)
      BY <1>1, <3>1, <3>2 DEF ArmedForJob, Offered, OnTheWire, DoneNotAccounted, Inv, TypeOK,
                              DeviceType, EndpointType
    <3>4. Transfers'
      BY <1>1, <3>1, <3>3 DEF Transfers, Handler
    <3>5. Delivery'
      BY <1>1, <2>2, <3>1, ReportIsOneTransfer DEF Delivery, Handler, OnTheWire
    <3>6. ~(wire = "late" /\ ~EpAnswers(dev.ep))'
      BY <1>1, <3>1 DEF Transfers, Handler, EpAnswers
    <3>. QED  BY <2>3, <3>4, <3>5, <3>6
  <2>6. CASE dev.ep.trncompl /\ dev.ep.aux = ReportSize /\ dev'.ep.aux = ReportSize
    <3>1. /\ ~dev'.ep.trncompl /\ ~dev'.ep.b_shortpacket
          /\ dev'.ep.enabled = dev.ep.enabled
          /\ dev'.ep.nack = dev.ep.nack /\ ~dev'.ep.busy
      BY <2>2, <2>6, ReportIsOneTransfer
    <3>2. wire' = "idle"
      BY <1>1, <2>6, OfferedOnTheWire, ReportIsOneTransfer DEF OnTheWire, Handler, Inv, TypeOK
    <3>3. ArmedForJob(dev'.ep) /\ DoneNotAccounted(dev'.ep)
      BY <1>1, <2>6, <3>1, ReportIsOneTransfer DEF Transfers, ArmedForJob, Offered, DoneNotAccounted
    <3>4. Transfers'
      BY <3>1, <3>2, <3>3 DEF Transfers
    <3>5. Delivery'
      BY <1>1, <2>2, <2>6, <3>1, <3>2 DEF Delivery
    <3>. QED  BY <2>3, <3>2, <3>4, <3>5
  <2>7. QED
    BY <2>2, <2>4, <2>5, <2>6
<1>5. Goal
  BY <1>3, <1>4
<1>6. FifoLoad'
  <2>1. One(dev'.zlp_armed) <= One(dev.zlp_armed)
    BY <1>5, LoadTerms
  <2>2. One((wire = "late" /\ ~EpAnswers(dev.ep))') = 0
    BY <1>5, LoadTerms
  <2>3. /\ One(dev.zlp_armed) \in 0..1 /\ One(MayComplete(dev.ep)) \in 0..1
        /\ One(wire = "late" /\ ~EpAnswers(dev.ep)) \in 0..1
        /\ One(MayComplete(dev'.ep)) \in 0..1 /\ One(dev'.zlp_armed) \in 0..1
    BY LoadTerms
  <2>4. One(MayComplete(dev'.ep)) <= 1
    BY <2>3
  <2>5. QED
    BY <1>1, <2>1, <2>2, <2>3, <2>4 DEF FifoLoad
<1>7. QED
  BY <1>5, <1>6

-----------------------------------------------------------------------------
(***************************************************************************)
(* The host and the bus.                                                   *)
(***************************************************************************)

\* All moves but an acknowledged poll: they leave the endpoint alone, may end or
\* begin a transaction, and take the ZLP of endpoint 0.
LEMMA BystanderStep ==
  ASSUME TransferInv,
         dev'.ep = dev.ep, dev'.report_in = dev.report_in,
         dev'.prevReport = dev.prevReport,
         dev'.callback = dev.callback, dev'.wValue = dev.wValue, hist' = hist,
         wire' = wire \/ wire' = "idle" \/ (wire' = "data" /\ EpAnswers(dev.ep)),
         \/ host'.report = host.report
         \/ host'.report = dev.report_in /\ wire # "idle",
         \/ fifo' = fifo /\ (dev'.zlp_armed => dev.zlp_armed)
         \/ fifo' = Append(fifo, "EP0_IN") /\ dev.zlp_armed /\ ~dev'.zlp_armed
  PROVE  Transfers' /\ Delivery' /\ AddressPending' /\ FifoLoad'
<1>1. /\ Transfers /\ Delivery /\ AddressPending /\ FifoLoad
      /\ fifo \in Seq(TransferDone)
  BY DEF TransferInv, Inv, TypeOK
<1>2. \/ fifo' = fifo
      \/ /\ Len(fifo') = Len(fifo) + 1
         /\ \A i \in 1..Len(fifo) : fifo'[i] = fifo[i]
  BY <1>1 DEF TransferDone
<1>3. Len(fifo) \in Nat
  BY <1>1
<1>4. (\E i \in 1..Len(fifo) : fifo[i] = "EP1_IN") => \E i \in 1..Len(fifo') : fifo'[i] = "EP1_IN"
  BY <1>2, <1>3
<1>5. Transfers'
  BY <1>1, <1>4 DEF Transfers
<1>6. EpAnswers(dev.ep) => dev.ep.busy
  BY <1>1 DEF Transfers, EpAnswers, ArmedForJob, Offered
<1>7. Delivery'
  BY <1>1, <1>6 DEF Delivery
<1>8. AddressPending'
  BY <1>1 DEF AddressPending
<1>9. FifoLoad'
  <2>1. Len(fifo') + One(dev'.zlp_armed) <= Len(fifo) + One(dev.zlp_armed)
    <3>1. CASE fifo' = fifo /\ (dev'.zlp_armed => dev.zlp_armed)
      <4>1. One(dev'.zlp_armed) <= One(dev.zlp_armed)
            /\ One(dev'.zlp_armed) \in 0..1 /\ One(dev.zlp_armed) \in 0..1
        BY <3>1, LoadTerms
      <4>. QED  BY <1>3, <3>1, <4>1
    <3>2. CASE fifo' = Append(fifo, "EP0_IN") /\ dev.zlp_armed /\ ~dev'.zlp_armed
      <4>1. One(dev'.zlp_armed) = 0 /\ One(dev.zlp_armed) = 1
        BY <3>2, LoadTerms
      <4>2. Len(fifo') = Len(fifo) + 1
        BY <1>1, <3>2 DEF TransferDone
      <4>. QED  BY <1>3, <4>1, <4>2
    <3>. QED  BY <3>1, <3>2
  <2>2. (wire = "late" /\ ~EpAnswers(dev.ep))' => (wire = "late" /\ ~EpAnswers(dev.ep))
    OBVIOUS
  <2>3. One((wire = "late" /\ ~EpAnswers(dev.ep))') <= One(wire = "late" /\ ~EpAnswers(dev.ep))
    BY <2>2, LoadTerms
  <2>4. /\ One(dev.zlp_armed) \in 0..1 /\ One(dev'.zlp_armed) \in 0..1
        /\ One(wire = "late" /\ ~EpAnswers(dev.ep)) \in 0..1
        /\ One((wire = "late" /\ ~EpAnswers(dev.ep))') \in 0..1
        /\ One(MayComplete(dev.ep)) \in 0..1
    BY LoadTerms
  <2>5. Len(fifo') \in Nat
    BY <1>2, <1>3
  <2>6. One(MayComplete(dev'.ep)) = One(MayComplete(dev.ep))
    OBVIOUS
  <2>7. QED
    BY <1>1, <1>3, <2>1, <2>3, <2>4, <2>5, <2>6 DEF FifoLoad
<1>10. QED
  BY <1>5, <1>7, <1>8, <1>9

\* The host has the report, and the hardware tells the driver so.
LEMMA AckedStep ==
  ASSUME TransferInv, PollAcked
  PROVE  Transfers' /\ Delivery' /\ AddressPending' /\ FifoLoad'
<1>1. /\ Inv /\ Transfers /\ Delivery /\ AddressPending /\ FifoLoad
      /\ dev \in DeviceType /\ fifo \in Seq(TransferDone) /\ Len(fifo) \in Nat
      /\ wire \in {"data", "late"} /\ wire' = "idle" /\ hist' = hist
      /\ dev.ep \in EndpointType /\ dev.report_in \in Reports
  BY EndpointOf DEF TransferInv, Inv, TypeOK, PollAcked, DeviceType
<1>2. OnTheWire(dev.ep)
  BY <1>1, OfferedOnTheWire DEF Transfers
<1>. DEFINE f == EpHwComplete(dev.ep, dev.ep.cnt)
<1>3. /\ f.aux = ReportSize /\ f.trncompl /\ f.nack /\ ReportWhole(f)
      /\ f.b_shortpacket = dev.ep.b_shortpacket
      /\ f.busy = dev.ep.busy /\ f.enabled = dev.ep.enabled /\ f.stall = dev.ep.stall
  BY <1>1, <1>2, ReportIsOneTransfer DEF EpHwComplete, EndpointType, OnTheWire, ReportWhole
<1>4. /\ dev' = [dev EXCEPT !.ep = f]
      /\ host' = [host EXCEPT !.report = dev.report_in]
      /\ fifo' = Append(fifo, "EP1_IN")
  BY <1>1 DEF PollAcked, DeviceType
<1>. HIDE DEF f
<1>5. /\ dev'.ep = f /\ dev'.report_in = dev.report_in /\ dev'.prevReport = dev.prevReport
      /\ dev'.callback = dev.callback /\ dev'.wValue = dev.wValue
      /\ dev'.zlp_armed = dev.zlp_armed
  BY <1>1, <1>4 DEF DeviceType
<1>6. host'.report = dev.report_in
  BY <1>1, <1>4 DEF Inv, TypeOK
<1>7. Len(fifo') = Len(fifo) + 1 /\ fifo'[Len(fifo) + 1] = "EP1_IN"
  BY <1>1, <1>4 DEF TransferDone
<1>8. \E i \in 1..Len(fifo') : fifo'[i] = "EP1_IN"
  BY <1>1, <1>7
<1>9. Transfers'
  BY <1>1, <1>3, <1>5, <1>8 DEF Transfers, ArmedForJob, DoneNotAccounted
<1>10. Delivery'
  BY <1>1, <1>3, <1>5, <1>6 DEF Delivery
<1>11. AddressPending'
  BY <1>1, <1>5 DEF AddressPending
<1>12. FifoLoad'
  <2>1. One((wire = "late" /\ ~EpAnswers(dev.ep))') = 0 /\ One(dev'.zlp_armed) = One(dev.zlp_armed)
    BY <1>1, <1>5, LoadTerms
  <2>2. /\ One(dev.zlp_armed) \in 0..1
        /\ One(wire = "late" /\ ~EpAnswers(dev.ep)) \in 0..1
        /\ One(MayComplete(dev.ep)) \in 0..1 /\ One(MayComplete(dev'.ep)) \in 0..1
    BY LoadTerms
  <2>3. CASE EpAnswers(dev.ep)
    <3>1. MayComplete(dev.ep) /\ ~MayComplete(dev'.ep)
      BY <1>1, <1>3, <1>5, <2>3 DEF MayComplete, EpAnswers, Transfers, ArmedForJob, Offered
    <3>2. One(MayComplete(dev.ep)) = 1 /\ One(MayComplete(dev'.ep)) = 0
      BY <3>1, LoadTerms
    <3>. QED  BY <1>1, <1>7, <2>1, <2>2, <3>2 DEF FifoLoad
  <2>4. CASE ~EpAnswers(dev.ep)
    <3>1. wire = "late" /\ ~EpAnswers(dev.ep)
      BY <1>1, <2>4 DEF Transfers
    <3>2. One(wire = "late" /\ ~EpAnswers(dev.ep)) = 1
      BY <3>1, LoadTerms
    <3>3. MayComplete(dev'.ep) => MayComplete(dev.ep)
      BY <1>3, <1>5 DEF MayComplete
    <3>4. One(MayComplete(dev'.ep)) <= One(MayComplete(dev.ep))
      BY <3>3, LoadTerms
    <3>. QED  BY <1>1, <1>7, <2>1, <2>2, <3>2, <3>4 DEF FifoLoad
  <2>5. QED
    BY <2>3, <2>4
<1>13. QED
  BY <1>9, <1>10, <1>11, <1>12

LEMMA EnvironmentStep ==
  ASSUME TransferInv, Environment
  PROVE  Transfers' /\ Delivery' /\ AddressPending' /\ FifoLoad'
<1>1. dev \in DeviceType /\ host \in [address : Nat, next : Nat, waiting : BOOLEAN, report : Reports]
  BY DEF TransferInv, Inv, TypeOK
<1>2. CASE HostSof
  BY <1>2, BystanderStep DEF HostSof
<1>3. CASE HostReset
  <2>1. host'.report = host.report
    BY <1>1, <1>3 DEF HostReset
  <2>. QED  BY <1>3, <2>1, BystanderStep DEF HostReset
<1>4. CASE HostPoll
  BY <1>4, BystanderStep DEF HostPoll
<1>5. CASE PollAcked
  BY <1>5, AckedStep
<1>6. CASE FlipSwitch
  BY <1>6, BystanderStep DEF FlipSwitch
<1>7. ASSUME NEW r \in HostRequests, HostSetup(r)
      PROVE  Transfers' /\ Delivery' /\ AddressPending' /\ FifoLoad'
  <2>1. /\ dev'.ep = dev.ep /\ dev'.report_in = dev.report_in
        /\ dev'.prevReport = dev.prevReport
        /\ dev'.callback = dev.callback /\ dev'.wValue = dev.wValue
        /\ ~dev'.zlp_armed
    BY <1>1, <1>7 DEF HostSetup, DeviceType
  <2>2. host'.report = host.report
    BY <1>1, <1>7 DEF HostSetup
  <2>. QED  BY <1>7, <2>1, <2>2, BystanderStep DEF HostSetup
<1>8. ASSUME NEW acked \in BOOLEAN, HostTakesZlp(acked)
      PROVE  Transfers' /\ Delivery' /\ AddressPending' /\ FifoLoad'
  <2>1. host'.report = host.report /\ wire' = wire /\ hist' = hist /\ dev.zlp_armed
    BY <1>1, <1>8 DEF HostTakesZlp
  <2>2. CASE acked
    <3>1. /\ dev'.ep = dev.ep /\ dev'.report_in = dev.report_in
          /\ dev'.prevReport = dev.prevReport
          /\ dev'.callback = dev.callback /\ dev'.wValue = dev.wValue
          /\ ~dev'.zlp_armed /\ fifo' = Append(fifo, "EP0_IN")
      BY <1>1, <1>8, <2>2 DEF HostTakesZlp, DeviceType
    <3>. QED  BY <2>1, <3>1, BystanderStep
  <2>3. CASE ~acked
    <3>1. dev' = dev /\ fifo' = fifo
      BY <1>8, <2>3 DEF HostTakesZlp
    <3>. QED  BY <2>1, <3>1, BystanderStep
  <2>4. QED
    BY <2>2, <2>3
<1>9. ASSUME NEW received \in BOOLEAN, PollLost(received)
      PROVE  Transfers' /\ Delivery' /\ AddressPending' /\ FifoLoad'
  <2>1. wire # "idle" /\ (host'.report = host.report \/ host'.report = dev.report_in)
    BY <1>1, <1>9 DEF PollLost
  <2>. QED  BY <1>9, <2>1, BystanderStep DEF PollLost
<1>10. ASSUME NEW p \in Reports, MoveSlider(p)
       PROVE  Transfers' /\ Delivery' /\ AddressPending' /\ FifoLoad'
  BY <1>10, BystanderStep DEF MoveSlider
<1>11. QED
  BY <1>2, <1>3, <1>4, <1>5, <1>6, <1>7, <1>8, <1>9, <1>10 DEF Environment

LEMMA StepTransferInv == TransferInv /\ [Next]_vars => TransferInv'
<1>1. ASSUME TransferInv, Next PROVE TransferInv'
  <2>1. Inv'
    BY <1>1, StepInv DEF TransferInv
  <2>2. Transfers' /\ Delivery' /\ AddressPending' /\ FifoLoad'
    BY <1>1, SofStep, ResetStep, TransferStep, SetupStep, EnvironmentStep DEF Next, Isr
  <2>. QED  BY <2>1, <2>2 DEF TransferInv
<1>2. ASSUME TransferInv, UNCHANGED vars PROVE TransferInv'
  <2>1. Inv'
    BY <1>2, StepInv DEF TransferInv
  <2>2. Transfers' /\ Delivery' /\ AddressPending' /\ FifoLoad'
    BY <1>2, BystanderStep DEF vars
  <2>. QED  BY <2>1, <2>2 DEF TransferInv
<1>3. QED
  BY <1>1, <1>2

LEMMA SpecTransferInv == Spec => []TransferInv
BY InitTransferInv, StepTransferInv, PTL DEF Spec

-----------------------------------------------------------------------------
\* The hardware never answers a poll for a job that is gone: udd_ep_abort sets
\* NAK, and no completion handled late clears it on an endpoint still in use.
THEOREM OnlyJobsAreOffered == Spec => []NoTransferWithoutJob
<1>1. TransferInv => NoTransferWithoutJob
  BY DEF TransferInv, Transfers, ArmedForJob, Offered, EpAnswers, NoTransferWithoutJob
<1>2. QED
  BY <1>1, SpecTransferInv, PTL

\* buf_size - nb_trans of udd_ep_trans_complet does not wrap around.
THEOREM CompletionFits == Spec => []CompletionWithinBuffer
<1>1. TransferInv => CompletionWithinBuffer
  BY ReportIsOneTransfer DEF TransferInv, Transfers, DoneNotAccounted, ReportWhole,
                             CompletionWithinBuffer, Sent, Word
<1>2. QED
  BY <1>1, SpecTransferInv, PTL

\* Three entries of the FIFO are all that can ever wait, however requests,
\* resets, aborts and late completions are ordered.
THEOREM FifoHasRoom == Spec => []FifoNeverFull
<1>1. TransferInv => FifoNeverFull
  <2>. SUFFICES ASSUME TransferInv PROVE FifoNeverFull
    OBVIOUS
  <2>1. /\ One(dev.zlp_armed) \in 0..1
        /\ One(wire = "late" /\ ~EpAnswers(dev.ep)) \in 0..1
        /\ One(MayComplete(dev.ep)) \in 0..1
    BY LoadTerms
  <2>2. Len(fifo) \in Nat
    BY DEF TransferInv, Inv, TypeOK
  <2>. QED  BY <2>1, <2>2, FifoSizeAssumption DEF TransferInv, FifoLoad, FifoNeverFull
<1>2. QED
  BY <1>1, SpecTransferInv, PTL

\* Between reports the host has what the report task believes it sent, unless a
\* report was aborted: a completion ends a job only after its packet was taken.
THEOREM HostHasReport == Spec => []DeliveredWhenIdle
<1>1. TransferInv => DeliveredWhenIdle
  BY DEF TransferInv, Delivery, DeliveredWhenIdle
<1>2. QED
  BY <1>1, SpecTransferInv, PTL

-----------------------------------------------------------------------------
(***************************************************************************)
(* What a step may never do.                                               *)
(***************************************************************************)
LEMMA EnvironmentLeaves ==
  ASSUME TransferInv, Environment
  PROVE  dev'.report_in = dev.report_in /\ dev'.address = dev.address
<1>1. dev \in DeviceType
  BY DEF TransferInv, Inv, TypeOK
<1>2. CASE PollAcked
  BY <1>1, <1>2 DEF PollAcked, DeviceType
<1>3. ASSUME NEW r \in HostRequests, HostSetup(r)
      PROVE  dev'.report_in = dev.report_in /\ dev'.address = dev.address
  BY <1>1, <1>3 DEF HostSetup, DeviceType
<1>4. ASSUME NEW acked \in BOOLEAN, HostTakesZlp(acked)
      PROVE  dev'.report_in = dev.report_in /\ dev'.address = dev.address
  BY <1>1, <1>4 DEF HostTakesZlp, DeviceType
<1>5. CASE HostSof \/ HostReset \/ HostPoll \/ FlipSwitch
  BY <1>5 DEF HostSof, HostReset, HostPoll, FlipSwitch
<1>6. ASSUME NEW received \in BOOLEAN, PollLost(received) PROVE dev' = dev
  BY <1>6 DEF PollLost
<1>7. ASSUME NEW p \in Reports, MoveSlider(p) PROVE dev' = dev
  BY <1>7 DEF MoveSlider
<1>8. QED
  BY <1>2, <1>3, <1>4, <1>5, <1>6, <1>7 DEF Environment

\* The effect of each handler on the buffer and on the address.
LEMMA IsrLeaves ==
  ASSUME TransferInv, Isr
  PROVE  /\ dev.ep.busy => dev'.report_in = dev.report_in
         /\ AddressOfRequest(dev, dev') \/ dev'.address = 0
<1>1. /\ Inv /\ Transfers /\ dev \in DeviceType /\ Sound(dev) /\ slider \in Reports
      /\ setup \in Request \cup {NoRequest}
  BY DEF TransferInv, Inv, TypeOK
<1>2. CASE SofIsr
  <2>1. dev.ep.busy => ~dev.report_in_free
    BY <1>1, BusyNotFree
  <2>. QED  BY <1>1, <1>2, <2>1, SofActionOffers DEF SofIsr, SameRequest, AddressOfRequest
<1>3. CASE ResetIsr
  BY <1>1, <1>3, BusResetStops DEF ResetIsr, Stopped
<1>4. CASE TransferIsr /\ Head(fifo) = "EP0_IN"
  BY <1>1, <1>4, InSentStops DEF TransferIsr, Stopped
<1>5. CASE TransferIsr /\ Head(fifo) # "EP0_IN"
  <2>1. ~dev.ep.b_shortpacket /\ DoneNotAccounted(dev.ep) /\ dev' = TransComplet(dev)
    BY <1>1, <1>5 DEF Transfers, TransferIsr
  <2>. QED  BY <1>1, <2>1, TransCompletAdvances DEF SameRequest, AddressOfRequest
<1>6. CASE SetupIsr
  <2>1. setup \in Request /\ dev' = SetupReceived(dev, setup)
    BY <1>1, <1>6 DEF SetupIsr
  <2>. QED  BY <1>1, <2>1, SetupReceivedStops DEF Stopped
<1>7. QED
  BY <1>2, <1>3, <1>4, <1>5, <1>6 DEF Isr

\* The buffer the hardware reads is not rewritten while it may be read.
THEOREM ReportStable == Spec => ReportStableWhileOffered
<1>1. TransferInv /\ [Next]_vars =>
        [EpAnswers(dev.ep) \/ wire = "data" => dev'.report_in = dev.report_in]_vars
  <2>. SUFFICES ASSUME TransferInv, Next, EpAnswers(dev.ep) \/ wire = "data"
                PROVE  dev'.report_in = dev.report_in
    BY DEF vars
  <2>1. dev.ep.busy
    BY DEF TransferInv, Transfers, EpAnswers, ArmedForJob, Offered
  <2>. QED  BY <2>1, IsrLeaves, EnvironmentLeaves DEF Next
<1>2. QED
  BY <1>1, SpecTransferInv, PTL DEF Spec, ReportStableWhileOffered

\* The callback that takes the address reads the request it belongs to.
THEOREM AddressWasAsked == Spec => AddressAsAsked
<1>1. TransferInv /\ [Next]_vars =>
        [dev'.address # dev.address => dev'.address \in {0, hist.asked}]_vars
  <2>. SUFFICES ASSUME TransferInv, Next, dev'.address # dev.address
                PROVE  dev'.address \in {0, hist.asked}
    BY DEF vars
  <2>1. AddressOfRequest(dev, dev') \/ dev'.address = 0
    BY IsrLeaves, EnvironmentLeaves DEF Next
  <2>. QED  BY <2>1 DEF AddressOfRequest, TransferInv, AddressPending
<1>2. QED
  BY <1>1, SpecTransferInv, PTL DEF Spec, AddressAsAsked

\* A request refused by udc_process_setup has not touched the device.
LEMMA RefusedChangesNothing ==
  ASSUME NEW d \in DeviceType, Sound(d), NEW r \in Request,
         ~Accepts(d, r), r.kind # "SET_INTERFACE"
  PROVE  Processed(d, r) = d
<1>1. Low(r) \in Nat
  BY BytesOf
<1>2. CASE r.kind = "SET_CONFIGURATION"
  <2>1. ~SetConfigurationAccepted(d, Low(r))
    BY <1>2 DEF Accepts, ClassRequest
  <2>2. ~Reconfigured(d, Low(r)).ep.enabled
    BY <1>1, ReconfiguredKeeps
  <2>3. ~ConfigurationExists(d, Low(r))
    BY <2>1, <2>2 DEF SetConfigurationAccepted, IfaceEnableAccepts
  <2>. QED  BY <1>2, <2>3 DEF Processed, SetConfiguration
<1>3. CASE r.kind # "SET_CONFIGURATION"
  <2>1. \/ r.kind = "UNSUPPORTED"
        \/ r.kind \in ClassRequest /\ ~Configured(d)
    BY <1>3 DEF Accepts, Request, RequestKind
  <2>2. Processed(d, r) = Setting(d, r)
    BY <2>1 DEF Processed, ClassRequest
  <2>. DEFINE wk == IF r.kind = "SET_FEATURE_WAKEUP" THEN TRUE
                    ELSE d.remote_wakeup /\ r.kind # "CLEAR_FEATURE_WAKEUP"
  <2>3. wk \in BOOLEAN /\ d.remote_wakeup \in BOOLEAN /\ (wk <=> d.remote_wakeup)
    BY <2>1 DEF ClassRequest, DeviceType
  <2>4. wk = d.remote_wakeup
    <3>. HIDE DEF wk
    <3>. QED  BY <2>3
  <2>5. Setting(d, r) = [d EXCEPT !.callback = d.callback, !.remote_wakeup = wk,
                                  !.rate = d.rate, !.protocol = d.protocol]
    BY <2>1 DEF Setting, ClassRequest, DeviceType
  <2>6. Setting(d, r) = d
    <3>. HIDE DEF wk
    <3>. QED  BY <2>4, <2>5 DEF DeviceType
  <2>. QED  BY <2>2, <2>6
<1>4. QED
  BY <1>2, <1>3

\* STALL means that nothing was done, but for SET_INTERFACE.
THEOREM RefusedHasNoEffect == Spec => RefusedRequestHasNoEffect
<1>1. ASSUME Inv, SetupIsr, setup.kind # "SET_INTERFACE", dev'.control_state = "STALL_REQ"
      PROVE  dev' = [Reinitialised(dev) EXCEPT
                       !.wValue = setup.wValue, !.callback = "NULL",
                       !.control_state = "STALL_REQ"]
  <2>. DEFINE before == Reinitialised(dev)
              ready == [before EXCEPT !.wValue = setup.wValue, !.callback = "NULL"]
              after == Processed(ready, setup)
  <2>1. /\ dev \in DeviceType /\ Sound(dev) /\ setup \in Request
        /\ dev' = SetupReceived(dev, setup)
    BY <1>1 DEF Inv, TypeOK, SetupIsr
  <2>2. before \in DeviceType /\ Sound(before)
    BY <2>1, ReinitialisedKeeps, SamePathSound
  <2>3. ready \in DeviceType /\ Sound(ready)
    <3>. HIDE DEF before
    <3>1. setup.wValue \in Nat
      BY <2>1 DEF Request
    <3>2. ready \in DeviceType
      BY <2>2, <3>1 DEF DeviceType, Callback
    <3>3. SameReportPath(before, ready)
      BY <2>2 DEF DeviceType, SameReportPath
    <3>. HIDE DEF ready
    <3>. QED  BY <2>2, <3>2, <3>3, SamePathSound
  <2>4. dev' = IF Accepts(ready, setup)
          THEN [after EXCEPT !.control_state = "HANDSHAKE_WAIT_IN_ZLP", !.zlp_armed = TRUE]
          ELSE [after EXCEPT !.control_state = "STALL_REQ"]
    BY <2>1 DEF SetupReceived
  <2>5. after \in DeviceType
    <3>. HIDE DEF ready
    <3>. QED  BY <2>1, <2>3, ProcessedKeeps
  <2>6. ~Accepts(ready, setup)
    <3>. HIDE DEF ready, after
    <3>. QED  BY <1>1, <2>4, <2>5 DEF DeviceType
  <2>7. after = ready
    <3>. HIDE DEF ready
    <3>. QED  BY <1>1, <2>1, <2>3, <2>6, RefusedChangesNothing DEF after
  <2>8. dev' = [ready EXCEPT !.control_state = "STALL_REQ"]
    <3>. HIDE DEF ready, after
    <3>. QED  BY <2>4, <2>6, <2>7
  <2>. QED  BY <2>8
<1>2. Inv /\ [Next]_vars =>
        [SetupIsr /\ setup.kind # "SET_INTERFACE" /\ dev'.control_state = "STALL_REQ"
         => dev' = [Reinitialised(dev) EXCEPT
                      !.wValue = setup.wValue, !.callback = "NULL",
                      !.control_state = "STALL_REQ"]]_vars
  BY <1>1
<1>3. QED
  BY <1>2, SpecInv, PTL DEF Spec, RefusedRequestHasNoEffect
=============================================================================
