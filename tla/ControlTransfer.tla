-------------------------- MODULE ControlTransfer --------------------------
(***************************************************************************)
(* What the control endpoint promises the host: a request that is accepted *)
(* gets its data in full packets closed by a short one, then its status    *)
(* stage; a request that is refused is stalled and never completes.  An    *)
(* accepted request is stalled only after the host has cut its data short, *)
(* or where the device falls short of the USB specification: MayStall.  It *)
(* says nothing of interrupts, NAKs, retries or lost handshakes.           *)
(***************************************************************************)
EXTENDS Integers

CONSTANTS CtrlSize,     \* USB_DEVICE_EP_CTRL_SIZE
          Requests,     \* [dir, wLength, accept, payload]
          ReportPolled  \* the host also polls endpoint 1, and is NAKed

VARIABLE xfer         \* [phase, req, got, stopped]: the transfer as the host sees it

Phase == {"none", "data_in", "data_out", "status", "done", "stalled"}
NoRequest == [dir |-> "out", wLength |-> 0, accept |-> FALSE, payload |-> 0]
NoTransfer == [phase |-> "none", req |-> NoRequest, got |-> 0, stopped |-> FALSE]
Active == xfer.phase \in {"data_in", "data_out", "status"}

FirstPhase(r) ==
  IF r.dir = "in" THEN "data_in" ELSE IF r.wLength > 0 THEN "data_out" ELSE "status"

Init == xfer = NoTransfer

\* The host may drop a transfer for a new one at any time.
Start(r) == xfer' = [phase |-> FirstPhase(r), req |-> r, got |-> 0, stopped |-> FALSE]

\* The next packet is full unless the payload ends in it.
Packet == LET rest == xfer.req.payload - xfer.got
          IN  IF rest < CtrlSize THEN rest ELSE CtrlSize

DataIn ==
  /\ xfer.phase = "data_in" /\ xfer.req.accept
  /\ LET got == xfer.got + Packet
         ends == Packet < CtrlSize \/ got = xfer.req.wLength
     IN  xfer' = [xfer EXCEPT !.got = got,
                              !.phase = IF ends THEN "status" ELSE "data_in"]

DataOut(n) ==
  /\ xfer.phase = "data_out" /\ xfer.req.accept
  /\ n \in 1..CtrlSize
  /\ xfer' = [xfer EXCEPT
       !.got = @ + n,
       !.phase = IF xfer.got + n = xfer.req.wLength THEN "status" ELSE "data_out"]

\* The host may end the data stage early.
Stop ==
  /\ xfer.phase \in {"data_in", "data_out"}
  /\ xfer' = [xfer EXCEPT !.phase = "status", !.stopped = TRUE]

Finish ==
  /\ xfer.phase = "status" /\ xfer.req.accept
  /\ xfer' = [xfer EXCEPT !.phase = "done"]

\* Two stalls are wrong, and are the device's own: of the status stage of a read,
\* when a NAK of endpoint 1 is taken for one of endpoint 0, and of OUT data beyond
\* the buffer, which is to be ignored.
MayStall ==
  \/ ~xfer.req.accept \/ xfer.stopped
  \/ ReportPolled /\ xfer.phase = "status" /\ xfer.req.dir = "in"
  \/ xfer.phase = "data_out" /\ xfer.got > xfer.req.payload

Stall ==
  /\ Active
  /\ MayStall
  /\ xfer' = [xfer EXCEPT !.phase = "stalled"]

Reset == xfer' = NoTransfer

Next ==
  \/ DataIn \/ Stop \/ Finish \/ Stall \/ Reset
  \/ \E r \in Requests : Start(r)
  \/ \E n \in 1..CtrlSize : DataOut(n)

Spec == Init /\ [][Next]_xfer
=============================================================================
