---------------------------- MODULE UsbEndpoint ----------------------------
(***************************************************************************)
(* The transfer engine of usb_device.c for one bulk/interrupt endpoint: an *)
(* entry of the hardware's endpoint table (UDD_EP_t) together with the job *)
(* registered on it (udd_ep_job_t).  The routines are operators from the   *)
(* endpoint before the call to the endpoint after it, so that the layers   *)
(* above (UDC, HID) can call several of them in one interrupt.             *)
(*                                                                         *)
(* A call of the job's callback is not part of the record: AbortCalls and  *)
(* CompletionCalls say when the routine makes it, and the caller applies   *)
(* its effect.                                                             *)
(***************************************************************************)
EXTENDS Integers

CONSTANTS EpSize,     \* USB_DEVICE_EP size: bytes of one full packet
          MaxTrans    \* UDD_ENDPOINT_MAX_TRANS: bytes of one hardware transfer

ASSUME EpSizeAssumption == EpSize \in Nat \ {0}
ASSUME MaxTransAssumption == MaxTrans \in EpSize..65535

\* iram_size_t and the counters of the endpoint table are 16 bits wide.
Word(n) == n % 65536

EndpointType ==
  [enabled       : BOOLEAN,  \* CTRL.TYPE is not DISABLE
   stall         : BOOLEAN,  \* CTRL.STALL
   nack          : BOOLEAN,  \* STATUS.BUSNACK0: the hardware answers NAK
   trncompl      : BOOLEAN,  \* STATUS.TRNCOMPL0
   cnt           : Nat,      \* CNT: IN bytes to send, OUT bytes received
   aux           : Nat,      \* AUXDATA: IN bytes sent, OUT bytes requested
   busy          : BOOLEAN,
   b_shortpacket : BOOLEAN,
   buf_size      : Nat,
   nb_trans      : Nat]

\* udd_enable clears the endpoint table and the busy flags.
EpOff ==
  [enabled |-> FALSE, stall |-> FALSE, nack |-> FALSE, trncompl |-> FALSE,
   cnt |-> 0, aux |-> 0, busy |-> FALSE, b_shortpacket |-> FALSE,
   buf_size |-> 0, nb_trans |-> 0]

\* udd_ep_init: CTRL and STATUS are written whole, which drops a stall and a
\* completion not yet handled; CNT and AUXDATA keep what they held.
EpInit(e) ==
  [e EXCEPT !.enabled = TRUE, !.stall = FALSE, !.nack = TRUE, !.trncompl = FALSE]

\* udd_ep_alloc refuses (returns false) an endpoint already allocated.
EpAlloc(e) == IF e.enabled THEN e ELSE EpInit(e)

AbortCalls(e) == e.busy

\* Mutant: the job is dropped but the hardware still answers.
EpAbortStillArmed(e) == [e EXCEPT !.busy = FALSE]

EpAbort(e) == [e EXCEPT !.nack = TRUE, !.busy = FALSE]

\* Mutant: the endpoint stays allocated.
EpFreeOnlyAborts(e) == EpAbort(e)

EpFree(e) == [EpAbort(e) EXCEPT !.enabled = FALSE, !.stall = FALSE]

EpSetHalt(e) == EpAbort([e EXCEPT !.stall = TRUE])

\* A job still registered on a halted endpoint is ended through the other
\* member of the callback union, call_nohalt.
ClearHaltCalls(e) == e.stall /\ e.busy
EpClearHalt(e) ==
  IF e.stall THEN [e EXCEPT !.stall = FALSE, !.busy = FALSE] ELSE e

(***************************************************************************)
(* udd_ep_trans_complet, the IN direction: account for what the hardware   *)
(* sent, then arm the next hardware transfer, or a ZLP, or end the job.    *)
(***************************************************************************)
Sent(e) == Word(e.nb_trans + e.aux)
DataRemains(e) == Sent(e) # e.buf_size

\* Mutant: a hardware transfer of the largest size, whole packets or not.
NextTransUncut(e) ==
  LET rest == Word(e.buf_size - Sent(e))
  IN  IF MaxTrans < rest THEN MaxTrans ELSE rest

NextTrans(e) ==
  LET rest == Word(e.buf_size - Sent(e))
  IN  IF MaxTrans < rest THEN MaxTrans - (MaxTrans % EpSize) ELSE rest

\* Mutant: the callback is made only for a job that asked for a ZLP.
CompletionCallsAfterZlp(e) == ~DataRemains(e) /\ e.b_shortpacket /\ e.busy

CompletionCalls(e) == ~DataRemains(e) /\ ~e.b_shortpacket /\ e.busy

Accounted(e) == [e EXCEPT !.nb_trans = Sent(e)]
Armed(e, n) == [e EXCEPT !.aux = 0, !.cnt = n, !.nack = FALSE]

TransCompletIn(e) ==
  IF DataRemains(e)
  THEN [Armed(Accounted(e), NextTrans(e)) EXCEPT
          !.b_shortpacket = @ /\ NextTrans(e) % EpSize = 0]
  ELSE IF e.b_shortpacket
  THEN [Armed(Accounted(e), 0) EXCEPT !.b_shortpacket = FALSE]
  ELSE [Accounted(e) EXCEPT !.busy = FALSE]

\* Mutant: a halted endpoint accepts a job.
EpRunAcceptsHalted(e) == e.enabled /\ ~e.busy

\* udd_ep_run on an IN endpoint: refused when not allocated, halted or busy.
\* A job is the caller's [size, shortpacket].
EpRunAccepts(e) == e.enabled /\ ~e.stall /\ ~e.busy
Registered(e, size) ==
  [e EXCEPT !.busy = TRUE, !.buf_size = size, !.nb_trans = 0, !.aux = 0]
JobStarted(e, job) ==
  [Registered(e, job.size) EXCEPT !.b_shortpacket = job.shortpacket \/ job.size = 0]
EpRun(e, job) == IF EpRunAccepts(e) THEN TransCompletIn(JobStarted(e, job)) ELSE e

(***************************************************************************)
(* What the USB module of the XMEGA does with an IN endpoint: it answers a *)
(* token while the endpoint is enabled, not stalled and not NAKing; the    *)
(* end of the transfer writes STATUS and AUXDATA whatever CTRL has become. *)
(***************************************************************************)
EpAnswers(e) == e.enabled /\ ~e.stall /\ ~e.nack
EpHwComplete(e, sent) ==
  [e EXCEPT !.trncompl = TRUE, !.nack = TRUE, !.aux = @ + sent]

\* Mutant: TRNCOMPL0 is left set.
EpAckTcForgotten(e) == e

\* The interrupt acknowledges TRNCOMPL0 before it looks at the job.
EpAckTc(e) == [e EXCEPT !.trncompl = FALSE]
=============================================================================
