-------------------------- MODULE ControlEndpoint --------------------------
(***************************************************************************)
(* The control endpoint of usb_device.c: the state machine of SETUP, DATA  *)
(* and HANDSHAKE (udd_ep_control_state), the status bits of endpoint 0 in  *)
(* the hardware table, and the two interrupts that drive it, against a     *)
(* host that runs control transfers, loses handshakes, ends a data stage   *)
(* early, drops a transfer for another and resets the bus.                 *)
(*                                                                         *)
(* What udc_process_setup decides is in the request: whether it is         *)
(* accepted, and how many bytes are linked to udd_g_ctrlreq.payload.  No   *)
(* request of this program registers over_under_run.                       *)
(***************************************************************************)
EXTENDS Integers, Sequences

CONSTANTS CtrlSize,     \* USB_DEVICE_EP_CTRL_SIZE
          Requests,     \* the requests the host may send
          ReportPolled  \* the host also polls endpoint 1, and is NAKed

Request == [dir : {"in", "out"}, wLength : Nat, accept : BOOLEAN, payload : Nat]

ASSUME CtrlSizeAssumption == CtrlSize \in Nat \ {0}

\* udc_process_setup never links more than the host asked for, refuses an IN
\* request of length 0, and links nothing for an OUT request.
ASSUME RequestsAssumption ==
  /\ Requests \subseteq Request
  /\ \A r \in Requests : /\ r.payload <= r.wLength
                         /\ r.dir = "in" /\ r.accept => r.payload > 0
                         /\ r.dir = "out" => r.payload = 0

VARIABLES
  c,       \* the variables of the state machine (prev and trans are the two
           \* udd_ctrl_*_payload_nb_trans, error_int is BUSERRIE) and the status
           \* of endpoint 0
  flags,   \* pending interrupt flags: [setup, underflow, overflow, reset]
  fifo,    \* the transaction-complete FIFO
  buffer,  \* udd_ctrl_buffer: the SETUP packet received last
  host     \* the host: [phase, req, got, resend, stopped]

vars == <<c, flags, fifo, buffer, host>>

NoRequest == [dir |-> "out", wLength |-> 0, accept |-> FALSE, payload |-> 0]

\* The host has no transfer.
NoTransfer ==
  [phase |-> "none", req |-> NoRequest, got |-> 0, resend |-> FALSE, stopped |-> FALSE]

\* udd_ctrl_ep_state, and the stages of a transfer that the host is in.
State == {"SETUP", "DATA_IN", "DATA_OUT", "HANDSHAKE_WAIT_IN_ZLP",
          "HANDSHAKE_WAIT_OUT_ZLP", "STALL_REQ"}
Active == {"data_in", "data_out", "status_in", "status_out"}

\* The bits of udd_sram.ep_ctrl[0], OUT, and ep_ctrl[1], IN, that the state
\* machine sets and looks at, and its own variables.
ControlType ==
  [in_nack : BOOLEAN, in_tc : BOOLEAN, in_unf : BOOLEAN, in_stall : BOOLEAN, in_cnt : Nat,
   out_nack : BOOLEAN, out_tc : BOOLEAN, out_ovf : BOOLEAN, out_stall : BOOLEAN, out_cnt : Nat,
   state : State, prev : Nat, trans : Nat, b_shortpacket : BOOLEAN,
   payload_size : Nat, wLength : Nat, error_int : BOOLEAN]

TypeOK ==
  /\ c \in ControlType
  /\ flags \in [setup : BOOLEAN, underflow : BOOLEAN, overflow : BOOLEAN, reset : BOOLEAN]
  /\ fifo \in Seq({"IN", "OUT"})
  /\ buffer \in Requests \cup {NoRequest}
  /\ host \in [phase : Active \cup {"none", "done", "stalled"},
               req : Requests \cup {NoRequest},
               got : Nat, resend : BOOLEAN, stopped : BOOLEAN]

\* After the first bus reset.
Init ==
  /\ c = [in_nack |-> TRUE, in_tc |-> FALSE, in_unf |-> FALSE, in_stall |-> FALSE, in_cnt |-> 0,
          out_nack |-> TRUE, out_tc |-> FALSE, out_ovf |-> FALSE, out_stall |-> FALSE,
          out_cnt |-> 0, state |-> "SETUP", prev |-> 0, trans |-> 0, b_shortpacket |-> FALSE,
          payload_size |-> 0, wLength |-> 0, error_int |-> FALSE]
  /\ flags = [setup |-> FALSE, underflow |-> FALSE, overflow |-> FALSE, reset |-> FALSE]
  /\ fifo = <<>>
  /\ buffer = NoRequest
  /\ host = NoTransfer

-----------------------------------------------------------------------------
(***************************************************************************)
(* The routines of the state machine.                                      *)
(***************************************************************************)
CtrlInit(d) ==
  [d EXCEPT !.error_int = FALSE,
            !.in_nack = TRUE, !.in_cnt = 0, !.in_tc = FALSE, !.in_unf = FALSE,
            !.out_ovf = FALSE, !.payload_size = 0, !.state = "SETUP"]

StallData(d) ==
  [d EXCEPT !.state = "STALL_REQ", !.in_stall = TRUE, !.out_stall = TRUE]

SendZlpIn(d) ==
  [d EXCEPT !.state = "HANDSHAKE_WAIT_IN_ZLP", !.in_cnt = 0, !.in_nack = FALSE]

SendZlpOut(d) ==
  [d EXCEPT !.state = "HANDSHAKE_WAIT_OUT_ZLP", !.out_nack = FALSE]

\* Mutant: a whole packet is counted whatever was sent.
SendPacketCountsWhole(d, remain) ==
  LET n == IF remain >= CtrlSize THEN CtrlSize ELSE remain
  IN  [d EXCEPT !.b_shortpacket = remain < CtrlSize, !.in_cnt = n,
                !.trans = @ + CtrlSize, !.in_nack = FALSE]

\* The packet is full, or short and then the last.
SendPacket(d, remain) ==
  LET n == IF remain >= CtrlSize THEN CtrlSize ELSE remain
  IN  [d EXCEPT !.b_shortpacket = remain < CtrlSize, !.in_cnt = n,
                !.trans = @ + n, !.in_nack = FALSE]

\* Mutant: the data stage ends with the payload, without a short packet.
DataStageEndsWithPayload(d) == TRUE

\* The data stage is over when the host has all it asked for, or has had a
\* short packet.
DataStageEnds(d) == d.wLength = d.prev \/ d.b_shortpacket

\* Mutant: the request ends with its data, before the status stage.
InSentEndsAtOnce(d) ==
  LET remain == d.payload_size - d.trans
  IN  IF d.state = "HANDSHAKE_WAIT_IN_ZLP" THEN CtrlInit(d)
      ELSE IF remain # 0 THEN SendPacket(d, remain)
      ELSE IF DataStageEnds([d EXCEPT !.prev = @ + d.trans]) THEN CtrlInit(d)
      ELSE SendPacket(d, 0)

InSent(d) ==
  LET remain == d.payload_size - d.trans
      counted == [d EXCEPT !.prev = @ + d.trans]
  IN  IF d.state = "HANDSHAKE_WAIT_IN_ZLP" THEN CtrlInit(d)
      ELSE IF remain # 0 THEN SendPacket(d, remain)
      ELSE IF DataStageEnds(counted) THEN SendZlpOut(counted)
      ELSE SendPacket(counted, 0)   \* no over_under_run: a ZLP ends the stage

\* Bytes beyond the payload buffer are ignored.
Received(d) ==
  IF d.payload_size < d.trans + d.out_cnt THEN d.payload_size - d.trans ELSE d.out_cnt

OutReceived(d) ==
  LET n == Received(d)
      counted == [d EXCEPT !.trans = @ + n]
  IN  IF d.state = "HANDSHAKE_WAIT_OUT_ZLP" THEN CtrlInit(d)
      ELSE IF n # CtrlSize \/ d.wLength <= d.prev + counted.trans
      THEN SendZlpIn([counted EXCEPT !.payload_size = counted.trans])
      ELSE IF counted.payload_size = counted.trans THEN StallData(counted)
      ELSE [counted EXCEPT !.out_nack = FALSE, !.out_tc = FALSE]

\* Mutant: the count of the last transfer is kept.
SetupReceivedKeepsCount(d, r) ==
  LET ready == IF d.state # "SETUP" THEN CtrlInit(d) ELSE d
      known == [ready EXCEPT !.error_int = TRUE, !.wLength = r.wLength,
                             !.payload_size = r.payload]
  IN  IF ~r.accept THEN StallData(known)
      ELSE IF r.dir = "in" THEN InSent([known EXCEPT !.state = "DATA_IN"])
      ELSE IF r.wLength = 0 THEN SendZlpIn(known)
      ELSE [known EXCEPT !.state = "DATA_OUT", !.out_nack = FALSE, !.out_tc = FALSE]

\* A SETUP packet has 8 bytes.
SetupReceived(d, r) ==
  LET ready == IF d.state # "SETUP" THEN CtrlInit(d) ELSE d
      known == [ready EXCEPT !.error_int = TRUE, !.wLength = r.wLength,
                             !.payload_size = r.payload]
      data == [known EXCEPT !.prev = 0, !.trans = 0]
  IN  IF d.out_cnt # 8 THEN ready
      ELSE IF ~r.accept THEN StallData(known)
      ELSE IF r.dir = "in" THEN InSent([data EXCEPT !.state = "DATA_IN"])
      ELSE IF r.wLength = 0 THEN SendZlpIn(known)
      ELSE [data EXCEPT !.state = "DATA_OUT", !.out_nack = FALSE, !.out_tc = FALSE]

\* The host ends the OUT data stage, or wants IN data after the last.
Underflow(d) ==
  IF d.state = "DATA_OUT" THEN SendZlpIn(d)
  ELSE IF d.state = "HANDSHAKE_WAIT_OUT_ZLP"
  THEN [d EXCEPT !.in_stall = TRUE, !.out_stall = TRUE]
  ELSE d

\* Mutant: an IN data stage that the host has ended goes on.
OverflowIgnored(d) == d

\* The host ends the IN data stage, or has OUT data after the last.
Overflow(d) ==
  IF d.state = "DATA_IN" THEN SendZlpOut(d)
  ELSE IF d.state = "HANDSHAKE_WAIT_IN_ZLP"
  THEN [d EXCEPT !.in_stall = TRUE, !.out_stall = TRUE]
  ELSE d

-----------------------------------------------------------------------------
(***************************************************************************)
(* The interrupt handlers.  USB_BUSEVENT has the lower vector of the two,  *)
(* and looks at an underflow, then an overflow, then a reset.              *)
(***************************************************************************)
ErrorPending == flags.underflow \/ flags.overflow
BusEvent == flags.reset \/ (c.error_int /\ ErrorPending)

\* Mutant: an error is handled although a completed transfer waits.
ErrorHandledAtOnce(event) ==
  IF flags.setup
  THEN /\ flags' = [flags EXCEPT ![event] = FALSE, !.setup = FALSE]
       /\ c' = SetupReceived(c, buffer)
  ELSE /\ flags' = [flags EXCEPT ![event] = FALSE]
       /\ c' = IF event = "underflow" THEN Underflow(c) ELSE Overflow(c)

\* An error is ignored while a completed transfer waits, and a SETUP that
\* waits is handled in its place.
ErrorHandled(event) ==
  IF fifo = <<>> /\ flags.setup
  THEN /\ flags' = [flags EXCEPT ![event] = FALSE, !.setup = FALSE]
       /\ c' = SetupReceived(c, buffer)
  ELSE /\ flags' = [flags EXCEPT ![event] = FALSE]
       /\ c' = IF fifo # <<>> THEN c
               ELSE IF event = "underflow" THEN Underflow(c) ELSE Overflow(c)

\* UNFIF and OVFIF are raised by every endpoint; only the status bits of
\* endpoint 0 tell whose they are.
UnderflowIsr ==
  /\ BusEvent /\ flags.underflow
  /\ IF c.in_unf THEN ErrorHandled("underflow")
     ELSE flags' = [flags EXCEPT !.underflow = FALSE] /\ c' = c
  /\ UNCHANGED <<fifo, buffer, host>>

OverflowIsr ==
  /\ BusEvent /\ flags.overflow /\ ~flags.underflow
  /\ IF c.out_ovf THEN ErrorHandled("overflow")
     ELSE flags' = [flags EXCEPT !.overflow = FALSE] /\ c' = c
  /\ UNCHANGED <<fifo, buffer, host>>

\* udd_ep_init writes CTRL and STATUS of both directions whole.
ResetIsr ==
  /\ flags.reset /\ ~ErrorPending
  /\ flags' = [flags EXCEPT !.reset = FALSE]
  /\ c' = CtrlInit([c EXCEPT !.in_stall = FALSE, !.out_stall = FALSE,
                             !.out_nack = TRUE, !.out_tc = FALSE])
  /\ UNCHANGED <<fifo, buffer, host>>

\* The FIFO is drained before a SETUP is looked for; an entry whose TRNCOMPL0
\* is gone is dropped.
TransferIsr ==
  /\ ~BusEvent
  /\ fifo # <<>>
  /\ fifo' = Tail(fifo)
  /\ c' = IF Head(fifo) = "IN"
          THEN IF c.in_tc THEN InSent([c EXCEPT !.in_tc = FALSE]) ELSE c
          ELSE IF c.out_tc THEN OutReceived([c EXCEPT !.out_tc = FALSE]) ELSE c
  /\ UNCHANGED <<flags, buffer, host>>

SetupIsr ==
  /\ ~BusEvent
  /\ fifo = <<>> /\ flags.setup
  /\ flags' = [flags EXCEPT !.setup = FALSE]
  /\ c' = SetupReceived(c, buffer)
  /\ UNCHANGED <<fifo, buffer, host>>

Isr == UnderflowIsr \/ OverflowIsr \/ ResetIsr \/ TransferIsr \/ SetupIsr

-----------------------------------------------------------------------------
(***************************************************************************)
(* The host, and what the hardware does with its packets.                  *)
(***************************************************************************)
OnBus == ~flags.reset

FirstPhase(r) ==
  IF r.dir = "in" THEN "data_in" ELSE IF r.wLength > 0 THEN "data_out" ELSE "status_in"

\* A SETUP is always received.  It sets the NAK bits, clears the other status
\* bits of both directions and ends a stall.
HostSetup(r) ==
  /\ OnBus
  /\ c' = [c EXCEPT !.in_nack = TRUE, !.in_tc = FALSE, !.in_unf = FALSE, !.in_stall = FALSE,
                    !.out_nack = TRUE, !.out_tc = FALSE, !.out_ovf = FALSE,
                    !.out_stall = FALSE, !.out_cnt = 8]
  /\ buffer' = r
  /\ flags' = [flags EXCEPT !.setup = TRUE]
  /\ host' = [phase |-> FirstPhase(r), req |-> r, got |-> 0,
              resend |-> FALSE, stopped |-> FALSE]
  /\ UNCHANGED fifo

\* An IN token that is NAKed sets UNF.
HostInNaked ==
  /\ OnBus
  /\ host.phase \in {"data_in", "status_in"}
  /\ c.in_nack /\ ~c.in_stall
  /\ c' = [c EXCEPT !.in_unf = TRUE]
  /\ flags' = [flags EXCEPT !.underflow = TRUE]
  /\ UNCHANGED <<fifo, buffer, host>>

\* The host has a packet of n bytes that it has not had before.
HostTakes(n) ==
  IF host.phase = "status_in"
  THEN [host EXCEPT !.phase = IF n = 0 THEN "done" ELSE @]
  ELSE [host EXCEPT
          !.got = @ + n,
          !.phase = IF n < CtrlSize \/ host.got + n = host.req.wLength
                    THEN "status_out" ELSE @]

\* A packet is sent.  When the host's ACK is lost the hardware sends it again
\* at the next token, and the host drops it.
HostIn(acked) ==
  /\ OnBus
  /\ host.phase \in {"data_in", "status_in"}
  /\ ~c.in_nack /\ ~c.in_stall
  /\ host' = [IF host.resend THEN host ELSE HostTakes(c.in_cnt)
                EXCEPT !.resend = ~acked]
  /\ IF acked
     THEN /\ c' = [c EXCEPT !.in_tc = TRUE, !.in_nack = TRUE]
          /\ fifo' = Append(fifo, "IN")
     ELSE UNCHANGED <<c, fifo>>
  /\ UNCHANGED <<flags, buffer>>

HostOutSize ==
  IF host.phase = "status_out" THEN 0
  ELSE LET rest == host.req.wLength - host.got
       IN  IF rest < CtrlSize THEN rest ELSE CtrlSize

\* An OUT packet that is NAKed sets OVF.
HostOutNaked ==
  /\ OnBus
  /\ host.phase \in {"data_out", "status_out"}
  /\ c.out_nack /\ ~c.out_stall
  /\ c' = [c EXCEPT !.out_ovf = TRUE]
  /\ flags' = [flags EXCEPT !.overflow = TRUE]
  /\ UNCHANGED <<fifo, buffer, host>>

HostOut ==
  /\ OnBus
  /\ host.phase \in {"data_out", "status_out"}
  /\ ~c.out_nack /\ ~c.out_stall
  /\ c' = [c EXCEPT !.out_cnt = HostOutSize, !.out_tc = TRUE, !.out_nack = TRUE]
  /\ fifo' = Append(fifo, "OUT")
  /\ host' = IF host.phase = "status_out" THEN [host EXCEPT !.phase = "done"]
             ELSE [host EXCEPT !.got = @ + HostOutSize,
                               !.phase = IF host.got + HostOutSize = host.req.wLength
                                         THEN "status_in" ELSE @]
  /\ UNCHANGED <<flags, buffer>>

\* The direction the host uses is stalled.
HostStalled ==
  /\ OnBus
  /\ \/ host.phase \in {"data_in", "status_in"} /\ c.in_stall
     \/ host.phase \in {"data_out", "status_out"} /\ c.out_stall
  /\ host' = [host EXCEPT !.phase = "stalled"]
  /\ UNCHANGED <<c, flags, fifo, buffer>>

\* The host ends a data stage before the device does.
HostStops ==
  /\ OnBus
  /\ host.phase \in {"data_in", "data_out"}
  /\ host' = [host EXCEPT !.phase = IF @ = "data_in" THEN "status_out" ELSE "status_in",
                          !.resend = FALSE, !.stopped = TRUE]
  /\ UNCHANGED <<c, flags, fifo, buffer>>

HostReset ==
  /\ ~flags.reset
  /\ flags' = [flags EXCEPT !.reset = TRUE]
  /\ host' = NoTransfer
  /\ UNCHANGED <<c, fifo, buffer>>

\* Endpoint 1 has no report for the host: its NAK raises the same flag.
ReportNaked ==
  /\ OnBus /\ ReportPolled
  /\ flags' = [flags EXCEPT !.underflow = TRUE]
  /\ UNCHANGED <<c, fifo, buffer, host>>

HostTokens == HostInNaked \/ HostIn(TRUE) \/ HostOutNaked \/ HostOut \/ HostStalled

Next ==
  \/ Isr
  \/ HostTokens \/ HostIn(FALSE) \/ HostStops \/ HostReset \/ ReportNaked
  \/ \E r \in Requests : HostSetup(r)

Spec == Init /\ [][Next]_vars

\* A pending interrupt is taken before the host has sent for ever; the host
\* repeats its token until it is answered, and is not always the one that loses
\* the acknowledgement.
Fairness ==
  /\ SF_vars(UnderflowIsr) /\ SF_vars(OverflowIsr) /\ SF_vars(ResetIsr)
  /\ SF_vars(TransferIsr) /\ SF_vars(SetupIsr)
  /\ SF_vars(HostIn(TRUE)) /\ SF_vars(HostOut) /\ SF_vars(HostStalled)
  /\ WF_vars(HostInNaked) /\ WF_vars(HostOutNaked)

FairSpec == Spec /\ Fairness

-----------------------------------------------------------------------------
(***************************************************************************)
(* Safety.                                                                 *)
(***************************************************************************)
\* In the data stage of an IN request the device has counted what the host has
\* and the packet it now offers, no more: udd_ctrl_payload_nb_trans is where the
\* next packet of the payload starts, whatever handshakes were lost.
DataInOrder ==
  c.state = "DATA_IN" /\ host.phase = "data_in" /\ ~flags.setup
    => c.trans = host.got + IF c.in_nack \/ host.resend THEN 0 ELSE c.in_cnt

\* When the host ends an IN request and has not cut it short, it has the whole
\* payload that udc_process_setup linked.
WholePayload ==
  host.phase = "done" /\ host.req.dir = "in" /\ ~host.stopped
    => host.got = host.req.payload

\* The assertions of udd_ctrl_in_sent and udd_ctrl_out_received: a completion
\* that is handled belongs to the stage the state machine is in.
CompletionExpected ==
  [][TransferIsr =>
       /\ Head(fifo) = "IN" /\ c.in_tc => c.state \in {"DATA_IN", "HANDSHAKE_WAIT_IN_ZLP"}
       /\ Head(fifo) = "OUT" /\ c.out_tc => c.state \in {"DATA_OUT", "HANDSHAKE_WAIT_OUT_ZLP"}
    ]_vars

\* The device ends a request (and runs its callback) on a completed transfer
\* only if the host has been through the status stage of that request.
EndsAfterStatusStage ==
  [][TransferIsr /\ c.state # "SETUP" /\ c'.state = "SETUP" => host.phase = "done"]_vars

\* What the host sees is a control transfer as ControlTransfer describes it: the
\* payload in order, no success for a refused request, and no stall of an accepted
\* one that the host did not cut short but in the two cases it names.
SeenByHost ==
  [phase |-> IF host.phase \in {"status_in", "status_out"} THEN "status" ELSE host.phase,
   req |-> host.req, got |-> host.got, stopped |-> host.stopped]
Transfer == INSTANCE ControlTransfer WITH xfer <- SeenByHost
ImplementsTransfer == Transfer!Spec

\* A host that starts nothing new gets an answer to its last request: the
\* device neither keeps a request waiting nor waits for a stage that is past.
RequestAnswered ==
  <>[][~(HostReset \/ \E r \in Requests : HostSetup(r))]_vars
    => <>[](host.phase \notin Active)

(***************************************************************************)
(* What a comment says and the code does not do.                           *)
(***************************************************************************)

\* usb_device.c:1257, "Underflow only managed for control endpoint", and 1200-1201:
\* the status stage of a read is stalled when "host want extra IN data".  A read
\* that is accepted and not cut short asks for nothing after its data, and is not
\* stalled.
AcceptedReadNotStalled ==
  host.phase = "stalled" /\ host.req.dir = "in" => ~host.req.accept \/ host.stopped
=============================================================================
