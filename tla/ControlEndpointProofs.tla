----------------------- MODULE ControlEndpointProofs -----------------------
(***************************************************************************)
(* The control endpoint for every size of its packets and every set of     *)
(* requests that satisfies RequestsAssumption.                             *)
(*                                                                         *)
(* Inv has five parts.  What the firmware and the status bits say of each  *)
(* other holds at any time (Completions, Stage).  The host keeps its own   *)
(* account of the transfer (HostAccount).  Between the two there are three *)
(* cases: the SETUP waits to be handled (Waiting), the request is under    *)
(* way and every stage of the device allows some stages of the host        *)
(* (UnderWay), or there is no transfer, and the device may do anything.    *)
(***************************************************************************)
EXTENDS ControlEndpoint, TLAPS

-----------------------------------------------------------------------------
Queued(x) == \E i \in 1..Len(fifo) : fifo[i] = x

\* A completion that waits is in the FIFO, NAKs its direction and belongs to the
\* stage; a SETUP that waits has hidden everything else.
Completions ==
  /\ c.in_tc => /\ c.in_nack /\ Queued("IN")
                /\ c.state \in {"DATA_IN", "HANDSHAKE_WAIT_IN_ZLP"}
  /\ c.out_tc => /\ c.out_nack /\ Queued("OUT")
                 /\ c.state \in {"DATA_OUT", "HANDSHAKE_WAIT_OUT_ZLP"}
  /\ flags.setup => /\ c.in_nack /\ ~c.in_tc /\ ~c.in_stall
                    /\ c.out_nack /\ ~c.out_tc /\ ~c.out_stall /\ c.out_cnt = 8
  /\ c.error_int <=> c.state # "SETUP"

\* What the firmware counts in a data stage.
Stage(d) ==
  /\ d.state = "DATA_IN" =>
       /\ d.trans <= d.payload_size /\ d.in_cnt <= d.trans /\ d.in_cnt <= CtrlSize
       /\ d.b_shortpacket <=> d.in_cnt < CtrlSize
       /\ d.b_shortpacket => d.trans = d.payload_size
       /\ ~d.b_shortpacket => d.prev = 0
       /\ d.out_nack
  /\ d.state = "DATA_OUT" => d.payload_size = 0 /\ d.trans = 0 /\ d.in_nack
  /\ d.state = "HANDSHAKE_WAIT_IN_ZLP" => d.in_cnt = 0

\* The host's own account.
HostAccount ==
  /\ host.phase \in {"data_in", "status_out"} => host.req.dir = "in"
  /\ host.phase \in {"data_out", "status_in"} => host.req.dir = "out" /\ ~host.resend
  /\ host.phase \in {"data_in", "data_out"} => ~host.stopped
  /\ host.phase = "data_out" => host.got < host.req.wLength
  /\ host.phase # "none" => host.req \in Requests
  /\ flags.reset => host.phase = "none"

\* The status bits of endpoint 0 tell which tokens were NAKed.
Naked ==
  /\ host.phase = "data_in" => ~c.out_ovf
  /\ host.phase = "data_out" => ~c.in_unf
  /\ host.phase = "status_in" /\ host.req.wLength = 0 => ~c.out_ovf

\* The whole payload before the status stage, unless the host cut it short.
Whole == /\ host.req.dir = "in" /\ ~host.stopped /\ host.phase \in {"status_out", "done"}
              => host.got = host.req.payload

Waiting ==
  /\ buffer = host.req /\ host.got = 0 /\ ~host.resend
  /\ host.phase = FirstPhase(host.req) \/ host.stopped

\* The request that the device works on is the host's, and it is accepted.
Accepted(dir) == host.req.dir = dir /\ host.req.accept

UnderWay ==
  /\ c.state # "SETUP"
  /\ c.state = "STALL_REQ" => ~host.req.accept /\ c.in_stall /\ c.out_stall
  /\ c.state = "DATA_IN" =>
       /\ Accepted("in")
       /\ c.payload_size = host.req.payload /\ c.wLength = host.req.wLength
       /\ host.phase = "data_in" =>
            /\ c.trans = host.got + IF c.in_nack \/ host.resend THEN 0 ELSE c.in_cnt
            /\ c.in_nack => ~host.resend
            /\ c.in_nack \/ host.resend => ~c.b_shortpacket /\ host.got # host.req.wLength
  /\ c.state = "HANDSHAKE_WAIT_OUT_ZLP" =>
       /\ Accepted("in") /\ host.phase = "status_out"
       /\ ~ReportPolled => ~flags.underflow
  /\ c.state = "DATA_OUT" =>
       /\ Accepted("out")
       /\ host.phase = "status_in" /\ ~host.stopped => c.out_tc
       /\ host.phase = "data_out" /\ c.out_tc => host.got > 0
  /\ c.state = "HANDSHAKE_WAIT_IN_ZLP" =>
       /\ Accepted("out")
       /\ host.phase = "data_out" => c.out_nack /\ host.got > 0
       /\ flags.overflow /\ c.out_ovf => host.stopped \/ host.phase = "data_out"
  /\ c.in_stall \/ c.out_stall =>
       \/ ~host.req.accept \/ host.stopped
       \/ ReportPolled /\ c.state = "HANDSHAKE_WAIT_OUT_ZLP"
       \/ host.phase = "data_out" /\ c.state = "HANDSHAKE_WAIT_IN_ZLP"

Ended ==
  /\ c.in_tc /\ c.state = "HANDSHAKE_WAIT_IN_ZLP" => host.phase = "done"
  /\ c.out_tc /\ c.state = "HANDSHAKE_WAIT_OUT_ZLP" => host.phase = "done"

Engaged ==
  /\ host.phase \in Active => IF flags.setup THEN Waiting ELSE UnderWay
  /\ ~flags.reset => Ended

Inv ==
  /\ TypeOK /\ Completions /\ Stage(c) /\ HostAccount /\ Naked /\ Whole /\ Engaged

-----------------------------------------------------------------------------
LEMMA RequestType ==
  ASSUME NEW r \in Requests \cup {NoRequest}
  PROVE  /\ r.dir \in {"in", "out"} /\ r.wLength \in Nat /\ r.accept \in BOOLEAN
         /\ r.payload \in Nat /\ r.payload <= r.wLength
         /\ r.dir = "out" => r.payload = 0
<1>1. CASE r = NoRequest
  BY <1>1 DEF NoRequest
<1>2. CASE r \in Requests
  <2>1. r.dir \in {"in", "out"} /\ r.wLength \in Nat /\ r.accept \in BOOLEAN /\ r.payload \in Nat
    BY <1>2, RequestsAssumption DEF Request
  <2>2. r.payload <= r.wLength /\ (r.dir = "out" => r.payload = 0)
    BY <1>2, RequestsAssumption
  <2> QED BY <2>1, <2>2
<1> QED BY <1>1, <1>2

LEMMA PayloadOfAccepted ==
  ASSUME NEW r \in Requests \cup {NoRequest}, r.accept, r.dir = "in" PROVE r.payload > 0
<1>1. r # NoRequest
  BY DEF NoRequest
<1> QED BY <1>1, RequestsAssumption

LEMMA InitInv == Init => Inv
<1>. SUFFICES ASSUME Init PROVE Inv
  OBVIOUS
<1>1. TypeOK
  <2>1. c \in ControlType
    BY DEF Init, ControlType, State
  <2>2. flags \in [setup : BOOLEAN, underflow : BOOLEAN, overflow : BOOLEAN, reset : BOOLEAN]
    BY DEF Init
  <2>3. fifo \in Seq({"IN", "OUT"}) /\ buffer \in Requests \cup {NoRequest}
    BY DEF Init
  <2>4. host \in [phase : Active \cup {"none", "done", "stalled"},
                 req : Requests \cup {NoRequest},
                 got : Nat, resend : BOOLEAN, stopped : BOOLEAN]
    BY DEF Init, NoTransfer
  <2> QED BY <2>1, <2>2, <2>3, <2>4 DEF TypeOK
<1>2. Completions /\ Stage(c)
  BY DEF Init, Completions, Stage
<1>3. HostAccount /\ Naked /\ Whole /\ Engaged
  BY DEF Init, HostAccount, Naked, Whole, Engaged, Ended, NoTransfer, Active
<1> QED BY <1>1, <1>2, <1>3 DEF Inv

-----------------------------------------------------------------------------
(***************************************************************************)
(* What the routines of the state machine leave.                           *)
(***************************************************************************)
LEMMA CtrlInitKeeps ==
  ASSUME NEW d \in ControlType
  PROVE  /\ CtrlInit(d) \in ControlType /\ Stage(CtrlInit(d))
         /\ CtrlInit(d).state = "SETUP" /\ ~CtrlInit(d).error_int
         /\ ~CtrlInit(d).in_tc /\ CtrlInit(d).in_nack
         /\ ~CtrlInit(d).in_unf /\ ~CtrlInit(d).out_ovf
         /\ CtrlInit(d).out_tc = d.out_tc /\ CtrlInit(d).out_nack = d.out_nack
         /\ CtrlInit(d).in_stall = d.in_stall /\ CtrlInit(d).out_stall = d.out_stall
         /\ CtrlInit(d).out_cnt = d.out_cnt
BY DEF CtrlInit, ControlType, Stage, State

LEMMA SendPacketKeeps ==
  ASSUME NEW d \in ControlType, NEW n \in Nat,
         d.trans + n = d.payload_size, d.state = "DATA_IN", n > 0 => d.prev = 0, d.out_nack
  PROVE  LET e == SendPacket(d, n)
         IN  /\ e \in ControlType /\ Stage(e)
             /\ e.in_cnt \in Nat /\ e.trans = d.trans + e.in_cnt
<1>. DEFINE m == IF n >= CtrlSize THEN CtrlSize ELSE n
<1>1. m \in Nat /\ m <= n /\ m <= CtrlSize
      /\ (n < CtrlSize <=> m < CtrlSize) /\ (m < CtrlSize => m = n)
      /\ (n < CtrlSize) \in BOOLEAN
  BY CtrlSizeAssumption
<1>2. d.trans \in Nat /\ d.trans + m \in Nat /\ d.prev \in Nat /\ d.payload_size \in Nat
  BY <1>1 DEF ControlType
<1>3. SendPacket(d, n) = [d EXCEPT !.b_shortpacket = n < CtrlSize, !.in_cnt = m,
                                  !.trans = @ + m, !.in_nack = FALSE]
  BY DEF SendPacket
<1> HIDE DEF m
<1>4. SendPacket(d, n) \in ControlType
  BY <1>1, <1>2, <1>3, ZenonT(30) DEF ControlType
<1>5. SendPacket(d, n).in_cnt = m /\ SendPacket(d, n).trans = d.trans + m
      /\ SendPacket(d, n).b_shortpacket = (n < CtrlSize)
      /\ SendPacket(d, n).payload_size = d.payload_size /\ SendPacket(d, n).prev = d.prev
      /\ SendPacket(d, n).state = "DATA_IN" /\ SendPacket(d, n).out_nack
  BY <1>3 DEF ControlType
<1>6. Stage(SendPacket(d, n))
  <2>1. d.trans + m <= d.payload_size /\ m <= d.trans + m
    BY <1>1, <1>2
  <2>2. n < CtrlSize => d.trans + m = d.payload_size
    BY <1>1, <1>2
  <2>3. ~(n < CtrlSize) => d.prev = 0
    BY CtrlSizeAssumption
  <2> QED BY <1>1, <1>5, <2>1, <2>2, <2>3 DEF Stage
<1> QED BY <1>1, <1>4, <1>5, <1>6

\* What a routine may not touch: completions only go away, an interrupt on
\* errors is wanted exactly while a request is under way.
Settled(d, e) ==
  /\ e \in ControlType /\ Stage(e)
  /\ ~e.in_tc /\ ~e.out_tc
  /\ e.error_int <=> e.state # "SETUP"
  /\ e.in_unf => d.in_unf
  /\ e.out_ovf => d.out_ovf

SameStalls(d, e) == e.in_stall = d.in_stall /\ e.out_stall = d.out_stall

LEMMA InSentKeeps ==
  ASSUME NEW d \in ControlType, Stage(d), ~d.in_tc, ~d.out_tc, d.error_int,
         d.state \in {"DATA_IN", "HANDSHAKE_WAIT_IN_ZLP"}
  PROVE  LET e == InSent(d)
         IN  /\ Settled(d, e) /\ SameStalls(d, e)
             /\ d.state = "HANDSHAKE_WAIT_IN_ZLP" => e.state = "SETUP"
             /\ d.state = "DATA_IN" =>
                  \/ /\ e.state = "DATA_IN" /\ ~e.in_nack
                     /\ e.payload_size = d.payload_size /\ e.wLength = d.wLength
                     /\ e.trans = d.trans + e.in_cnt
                  \/ /\ e.state = "HANDSHAKE_WAIT_OUT_ZLP"
                     /\ d.trans = d.payload_size
                     /\ d.b_shortpacket \/ d.wLength = d.prev + d.trans
<1>. DEFINE e == InSent(d)
            counted == [d EXCEPT !.prev = @ + d.trans]
            remain == d.payload_size - d.trans
<1>1. CASE d.state = "HANDSHAKE_WAIT_IN_ZLP"
  <2>1. e = CtrlInit(d)
    BY <1>1 DEF InSent
  <2> QED BY <1>1, <2>1, CtrlInitKeeps DEF Settled, SameStalls
<1>2. CASE d.state = "DATA_IN"
  <2>1. remain \in Nat /\ d.trans \in Nat /\ d.prev \in Nat /\ d.payload_size \in Nat /\ d.out_nack
        /\ d.wLength \in Nat /\ d.b_shortpacket \in BOOLEAN
    BY <1>2 DEF Stage, ControlType
  <2>2. CASE remain # 0
    <3>1. e = SendPacket(d, remain)
      BY <1>2, <2>2 DEF InSent
    <3>2. d.prev = 0
      BY <1>2, <2>1, <2>2 DEF Stage
    <3>3. /\ e \in ControlType /\ Stage(e) /\ e.trans = d.trans + e.in_cnt
      BY <1>2, <2>1, <3>1, <3>2, SendPacketKeeps
    <3>4. /\ e.state = "DATA_IN" /\ ~e.in_nack /\ e.payload_size = d.payload_size
          /\ e.wLength = d.wLength /\ ~e.in_tc /\ ~e.out_tc /\ e.error_int
          /\ e.in_unf = d.in_unf /\ e.out_ovf = d.out_ovf
          /\ e.in_stall = d.in_stall /\ e.out_stall = d.out_stall
      BY <1>2, <3>1 DEF SendPacket, ControlType
    <3> QED BY <1>2, <3>3, <3>4 DEF Settled, SameStalls
  <2>3. CASE remain = 0 /\ DataStageEnds(counted)
    <3>1. e = SendZlpOut(counted)
      BY <1>2, <2>3 DEF InSent
    <3>2. counted \in ControlType
      BY <2>1 DEF ControlType
    <3>3. /\ e \in ControlType /\ e.state = "HANDSHAKE_WAIT_OUT_ZLP" /\ ~e.in_tc /\ ~e.out_tc
          /\ e.error_int
          /\ e.in_unf = d.in_unf /\ e.out_ovf = d.out_ovf
          /\ e.in_stall = d.in_stall /\ e.out_stall = d.out_stall
      <4>1. /\ ~counted.in_tc /\ ~counted.out_tc /\ counted.error_int
            /\ counted.in_unf = d.in_unf /\ counted.out_ovf = d.out_ovf
            /\ counted.in_stall = d.in_stall /\ counted.out_stall = d.out_stall
        BY DEF ControlType
      <4> HIDE DEF counted
      <4> QED BY <3>1, <3>2, <4>1, ZenonT(30) DEF SendZlpOut, ControlType, State
    <3>4. d.trans = d.payload_size
      BY <2>1, <2>3
    <3>5. d.b_shortpacket \/ d.wLength = d.prev + d.trans
      BY <2>3 DEF DataStageEnds, ControlType
    <3>6. Stage(e)
      BY <3>3 DEF Stage
    <3> QED BY <1>2, <3>3, <3>4, <3>5, <3>6 DEF Settled, SameStalls
  <2>4. CASE remain = 0 /\ ~DataStageEnds(counted)
    <3>1. e = SendPacket(counted, 0)
      BY <1>2, <2>4 DEF InSent
    <3>2. /\ counted \in ControlType /\ counted.state = "DATA_IN" /\ counted.out_nack
          /\ counted.trans = d.trans /\ counted.payload_size = d.payload_size
      BY <1>2, <2>1 DEF ControlType
    <3>3. /\ e \in ControlType /\ Stage(e) /\ e.trans = d.trans + e.in_cnt
      <4>1. counted.trans + 0 = counted.payload_size
        BY <2>1, <2>4, <3>2
      <4> HIDE DEF counted
      <4> QED BY <3>1, <3>2, <4>1, SendPacketKeeps
    <3>4. /\ e.state = "DATA_IN" /\ ~e.in_nack /\ e.payload_size = d.payload_size
          /\ e.wLength = d.wLength /\ ~e.in_tc /\ ~e.out_tc /\ e.error_int
          /\ e.in_unf = d.in_unf /\ e.out_ovf = d.out_ovf
          /\ e.in_stall = d.in_stall /\ e.out_stall = d.out_stall
      BY <1>2, <3>1 DEF SendPacket, ControlType
    <3> QED BY <1>2, <3>3, <3>4 DEF Settled, SameStalls
  <2> QED BY <2>2, <2>3, <2>4
<1> QED BY <1>1, <1>2

\* No request links a buffer for OUT data: the first packet ends the stage.
LEMMA OutReceivedKeeps ==
  ASSUME NEW d \in ControlType, Stage(d), ~d.in_tc, ~d.out_tc, d.error_int,
         d.state \in {"DATA_OUT", "HANDSHAKE_WAIT_OUT_ZLP"}
  PROVE  LET e == OutReceived(d)
         IN  /\ Settled(d, e) /\ SameStalls(d, e) /\ e.out_nack = d.out_nack
             /\ d.state = "HANDSHAKE_WAIT_OUT_ZLP" => e.state = "SETUP"
             /\ d.state = "DATA_OUT" => e.state = "HANDSHAKE_WAIT_IN_ZLP"
<1>. DEFINE e == OutReceived(d)
<1>1. CASE d.state = "HANDSHAKE_WAIT_OUT_ZLP"
  <2>1. e = CtrlInit(d)
    BY <1>1 DEF OutReceived
  <2> QED BY <1>1, <2>1, CtrlInitKeeps DEF Settled, SameStalls
<1>2. CASE d.state = "DATA_OUT"
  <2>1. d.payload_size = 0 /\ d.trans = 0 /\ d.out_cnt \in Nat
    BY <1>2 DEF Stage, ControlType
  <2>2. Received(d) = 0
    BY <2>1 DEF Received
  <2>3. e = SendZlpIn([d EXCEPT !.trans = 0, !.payload_size = 0])
    <3>1. 0 # CtrlSize
      BY CtrlSizeAssumption
    <3>2. [d EXCEPT !.trans = @ + 0] = [d EXCEPT !.trans = 0]
      BY <2>1 DEF ControlType
    <3> QED BY <1>2, <2>1, <2>2, <3>1, <3>2 DEF OutReceived, ControlType
  <2>4. e = [d EXCEPT !.trans = 0, !.payload_size = 0, !.state = "HANDSHAKE_WAIT_IN_ZLP",
                      !.in_cnt = 0, !.in_nack = FALSE]
    BY <2>3 DEF SendZlpIn, ControlType
  <2>5. e \in ControlType
    <3>1. "HANDSHAKE_WAIT_IN_ZLP" \in State
      BY DEF State
    <3> HIDE DEF e
    <3> QED BY <2>4, <3>1 DEF ControlType
  <2>6. /\ e.state = "HANDSHAKE_WAIT_IN_ZLP" /\ ~e.in_tc /\ ~e.out_tc
        /\ e.in_cnt = 0 /\ e.error_int /\ e.out_nack = d.out_nack
        /\ e.in_unf = d.in_unf /\ e.out_ovf = d.out_ovf
        /\ e.in_stall = d.in_stall /\ e.out_stall = d.out_stall
    BY <2>4 DEF ControlType
  <2>7. Stage(e)
    BY <2>6 DEF Stage
  <2> QED BY <1>2, <2>5, <2>6, <2>7 DEF Settled, SameStalls
<1> QED BY <1>1, <1>2
\* The packet that waits is taken up, and its request started or refused.
LEMMA SetupReceivedKeeps ==
  ASSUME NEW d \in ControlType, Stage(d), d.out_cnt = 8,
         d.in_nack, ~d.in_tc, ~d.in_stall, d.out_nack, ~d.out_tc, ~d.out_stall,
         NEW r \in Requests \cup {NoRequest}
  PROVE  LET e == SetupReceived(d, r)
         IN  /\ Settled(d, e) /\ e.error_int
             /\ ~r.accept => e.state = "STALL_REQ" /\ e.in_stall /\ e.out_stall
             /\ r.accept => ~e.in_stall /\ ~e.out_stall
             /\ r.accept /\ r.dir = "in" =>
                  /\ e.state = "DATA_IN" /\ ~e.in_nack /\ e.trans = e.in_cnt
                  /\ e.payload_size = r.payload /\ e.wLength = r.wLength
             /\ r.accept /\ r.dir = "out" =>
                  e.state = IF r.wLength = 0 THEN "HANDSHAKE_WAIT_IN_ZLP" ELSE "DATA_OUT"
<1>. DEFINE ready == IF d.state # "SETUP" THEN CtrlInit(d) ELSE d
            known == [ready EXCEPT !.error_int = TRUE, !.wLength = r.wLength,
                                   !.payload_size = r.payload]
            data == [known EXCEPT !.prev = 0, !.trans = 0]
            e == SetupReceived(d, r)
            Fresh(x) == /\ x \in ControlType /\ x.error_int
                        /\ x.in_nack /\ ~x.in_tc /\ ~x.in_stall
                        /\ x.out_nack /\ ~x.out_tc /\ ~x.out_stall
                        /\ x.in_unf => d.in_unf
                        /\ x.out_ovf => d.out_ovf
                        /\ x.wLength = r.wLength /\ x.payload_size = r.payload
<1>1. /\ r.dir \in {"in", "out"} /\ r.wLength \in Nat /\ r.accept \in BOOLEAN
      /\ r.payload \in Nat /\ (r.dir = "out" => r.payload = 0)
  BY RequestType
<1>2. /\ ready \in ControlType /\ ready.in_nack /\ ~ready.in_tc /\ ~ready.in_stall
      /\ ready.out_nack /\ ~ready.out_tc /\ ~ready.out_stall
      /\ ready.in_unf => d.in_unf
      /\ ready.out_ovf => d.out_ovf
  BY CtrlInitKeeps
<1>3. e = IF ~r.accept THEN StallData(known)
          ELSE IF r.dir = "in" THEN InSent([data EXCEPT !.state = "DATA_IN"])
          ELSE IF r.wLength = 0 THEN SendZlpIn(known)
          ELSE [data EXCEPT !.state = "DATA_OUT", !.out_nack = FALSE, !.out_tc = FALSE]
  BY DEF SetupReceived
<1>. HIDE DEF ready
<1>4. Fresh(known)
  BY <1>1, <1>2 DEF ControlType
<1>. HIDE DEF known, e
<1>5. Fresh(data) /\ data.prev = 0 /\ data.trans = 0
  BY <1>4 DEF ControlType
<1>. HIDE DEF data
<1>6. CASE ~r.accept
  <2>1. e = StallData(known)
    BY <1>3, <1>6
  <2>2. e \in ControlType /\ e.state = "STALL_REQ" /\ e.in_stall /\ e.out_stall
        /\ ~e.in_tc /\ ~e.out_tc /\ e.error_int /\ e.in_unf = known.in_unf
        /\ e.out_ovf = known.out_ovf
    BY <2>1, <1>4 DEF StallData, ControlType, State
  <2>3. Stage(e)
    BY <2>2 DEF Stage
  <2> QED BY <1>4, <1>6, <2>2, <2>3 DEF Settled, e
<1>7. CASE r.accept /\ r.dir = "in"
  <2>. DEFINE x == [data EXCEPT !.state = "DATA_IN"]
  <2>1. Fresh(x) /\ x.prev = 0 /\ x.trans = 0 /\ x.state = "DATA_IN"
    BY <1>5 DEF ControlType, State
  <2>2. r.payload > 0
    BY <1>7, PayloadOfAccepted
  <2>3. e = InSent(x)
    BY <1>3, <1>7
  <2>. HIDE DEF x
  <2>4. e = SendPacket(x, r.payload)
    BY <1>1, <2>1, <2>2, <2>3 DEF InSent
  <2>5. e \in ControlType /\ Stage(e) /\ e.in_cnt \in Nat /\ e.trans = x.trans + e.in_cnt
    BY <1>1, <2>1, <2>4, SendPacketKeeps
  <2>6. e.trans = e.in_cnt
    BY <2>1, <2>5
  <2>7. /\ e.state = "DATA_IN" /\ ~e.in_nack /\ e.payload_size = x.payload_size
        /\ e.wLength = x.wLength /\ ~e.in_tc /\ ~e.out_tc /\ e.error_int
        /\ e.in_unf = x.in_unf /\ e.out_ovf = x.out_ovf
        /\ ~e.in_stall /\ ~e.out_stall
    BY <2>1, <2>4 DEF SendPacket, ControlType
  <2> QED BY <1>7, <2>1, <2>5, <2>6, <2>7 DEF Settled, e
<1>8. CASE r.accept /\ r.dir = "out" /\ r.wLength = 0
  <2>1. e = SendZlpIn(known)
    BY <1>3, <1>8
  <2>2. e \in ControlType
    BY <2>1, <1>4 DEF SendZlpIn, ControlType, State
  <2>3. /\ e.state = "HANDSHAKE_WAIT_IN_ZLP" /\ e.in_cnt = 0 /\ ~e.in_stall /\ ~e.out_stall
        /\ ~e.in_tc /\ ~e.out_tc /\ e.error_int /\ e.in_unf = known.in_unf
        /\ e.out_ovf = known.out_ovf
    BY <2>1, <1>4 DEF SendZlpIn, ControlType
  <2>4. Stage(e)
    BY <2>3 DEF Stage
  <2> QED BY <1>4, <1>8, <2>2, <2>3, <2>4 DEF Settled, e
<1>9. CASE r.accept /\ r.dir = "out" /\ r.wLength # 0
  <2>1. e = [data EXCEPT !.state = "DATA_OUT", !.out_nack = FALSE, !.out_tc = FALSE]
    BY <1>3, <1>9
  <2>2. e \in ControlType
    BY <2>1, <1>5 DEF ControlType, State
  <2>3. /\ e.state = "DATA_OUT" /\ e.payload_size = 0 /\ e.trans = 0 /\ e.in_nack
        /\ ~e.in_stall /\ ~e.out_stall
        /\ ~e.in_tc /\ ~e.out_tc /\ e.error_int /\ e.in_unf = data.in_unf
        /\ e.out_ovf = data.out_ovf
    BY <1>1, <1>9, <2>1, <1>5 DEF ControlType
  <2>4. Stage(e)
    BY <2>3 DEF Stage
  <2> QED BY <1>5, <1>9, <2>2, <2>3, <2>4 DEF Settled, e
<1> QED BY <1>1, <1>6, <1>7, <1>8, <1>9

LEMMA UnderflowKeeps ==
  ASSUME NEW d \in ControlType, Stage(d), ~d.in_tc, ~d.out_tc, d.error_int <=> d.state # "SETUP"
  PROVE  LET e == Underflow(d)
         IN  /\ Settled(d, e)
             /\ d.state = "DATA_OUT" =>
                  e.state = "HANDSHAKE_WAIT_IN_ZLP" /\ SameStalls(d, e)
             /\ d.state = "HANDSHAKE_WAIT_OUT_ZLP" => e.state = d.state
             /\ d.state \notin {"DATA_OUT", "HANDSHAKE_WAIT_OUT_ZLP"} => e = d
<1>1. CASE d.state = "DATA_OUT"
  <2>1. Underflow(d) = SendZlpIn(d)
    BY <1>1 DEF Underflow
  <2>2. SendZlpIn(d) \in ControlType
    BY DEF SendZlpIn, ControlType, State
  <2>3. /\ SendZlpIn(d).state = "HANDSHAKE_WAIT_IN_ZLP" /\ SendZlpIn(d).in_cnt = 0
        /\ SameStalls(d, SendZlpIn(d))
        /\ ~SendZlpIn(d).in_tc /\ ~SendZlpIn(d).out_tc /\ SendZlpIn(d).error_int
        /\ SendZlpIn(d).in_unf = d.in_unf /\ SendZlpIn(d).out_ovf = d.out_ovf
    BY <1>1 DEF SendZlpIn, ControlType, SameStalls
  <2> QED BY <1>1, <2>1, <2>2, <2>3 DEF Settled, Stage
<1>2. CASE d.state = "HANDSHAKE_WAIT_OUT_ZLP"
  BY <1>2 DEF Underflow, Settled, Stage, ControlType
<1>3. CASE d.state \notin {"DATA_OUT", "HANDSHAKE_WAIT_OUT_ZLP"}
  BY <1>3 DEF Underflow, Settled
<1> QED BY <1>1, <1>2, <1>3

LEMMA OverflowKeeps ==
  ASSUME NEW d \in ControlType, Stage(d), ~d.in_tc, ~d.out_tc, d.error_int <=> d.state # "SETUP"
  PROVE  LET e == Overflow(d)
         IN  /\ Settled(d, e)
             /\ d.state = "DATA_IN" =>
                  e.state = "HANDSHAKE_WAIT_OUT_ZLP" /\ SameStalls(d, e)
             /\ d.state = "HANDSHAKE_WAIT_IN_ZLP" =>
                  e.state = d.state /\ e.out_nack = d.out_nack
             /\ d.state \notin {"DATA_IN", "HANDSHAKE_WAIT_IN_ZLP"} => e = d
<1>1. CASE d.state = "DATA_IN"
  <2>1. Overflow(d) = SendZlpOut(d)
    BY <1>1 DEF Overflow
  <2>2. SendZlpOut(d) \in ControlType
    BY DEF SendZlpOut, ControlType, State
  <2>3. /\ SendZlpOut(d).state = "HANDSHAKE_WAIT_OUT_ZLP" /\ SameStalls(d, SendZlpOut(d))
        /\ ~SendZlpOut(d).in_tc /\ ~SendZlpOut(d).out_tc /\ SendZlpOut(d).error_int
        /\ SendZlpOut(d).in_unf = d.in_unf /\ SendZlpOut(d).out_ovf = d.out_ovf
    BY <1>1 DEF SendZlpOut, ControlType, SameStalls
  <2> QED BY <1>1, <2>1, <2>2, <2>3 DEF Settled, Stage
<1>2. CASE d.state = "HANDSHAKE_WAIT_IN_ZLP"
  BY <1>2 DEF Overflow, Settled, Stage, ControlType
<1>3. CASE d.state \notin {"DATA_IN", "HANDSHAKE_WAIT_IN_ZLP"}
  BY <1>3 DEF Overflow, Settled
<1> QED BY <1>1, <1>2, <1>3
-----------------------------------------------------------------------------
(***************************************************************************)
(* The handlers.                                                           *)
(***************************************************************************)
Pending == [setup : BOOLEAN, underflow : BOOLEAN, overflow : BOOLEAN, reset : BOOLEAN]

\* A handler that changes the state machine leaves it settled, with no SETUP
\* waiting; what is left to show is that the request under way is the host's.
LEMMA HandledInv ==
  ASSUME Inv, Settled(c, c'), UNCHANGED <<buffer, host>>,
         flags' \in Pending, ~flags'.setup, flags'.reset = flags.reset,
         fifo' \in Seq({"IN", "OUT"}), host.phase \in Active => UnderWay'
  PROVE  Inv'
<1>1. TypeOK'
  BY DEF Inv, TypeOK, Settled, Pending
<1>2. Completions' /\ Stage(c)'
  BY DEF Completions, Settled
<1>3. HostAccount' /\ Whole'
  BY DEF Inv, HostAccount, Whole
<1>4. Naked'
  BY DEF Inv, Naked, Settled
<1>5. Engaged'
  BY DEF Engaged, Ended, Settled
<1> QED BY <1>1, <1>2, <1>3, <1>4, <1>5 DEF Inv

\* An event is dropped.
LEMMA DroppedInv ==
  ASSUME Inv, UNCHANGED <<c, fifo, buffer, host>>,
         flags' \in Pending, flags'.setup = flags.setup, flags'.reset = flags.reset,
         flags'.underflow => flags.underflow, flags'.overflow => flags.overflow
  PROVE  Inv'
<1>1. TypeOK'
  BY DEF Inv, TypeOK, Pending
<1>2. Completions' /\ Stage(c)'
  BY DEF Inv, Completions, Queued
<1>3. HostAccount' /\ Whole' /\ Naked'
  BY DEF Inv, HostAccount, Whole, Naked
<1>4. UnderWay => UnderWay'
  BY DEF UnderWay, Accepted
<1>5. Engaged'
  BY <1>4 DEF Inv, Engaged, Ended, Waiting
<1> QED BY <1>1, <1>2, <1>3, <1>5 DEF Inv

LEMMA FlagsType ==
  ASSUME TypeOK PROVE flags \in Pending /\ c \in ControlType
BY DEF TypeOK, Pending

\* A SETUP is taken up.
LEMMA TakenUpInv ==
  ASSUME Inv, flags.setup, c' = SetupReceived(c, buffer), UNCHANGED <<fifo, buffer, host>>,
         flags' \in Pending, ~flags'.setup, flags'.reset = flags.reset
  PROVE  Inv'
<1>1. /\ c \in ControlType /\ Stage(c) /\ buffer \in Requests \cup {NoRequest}
      /\ c.out_cnt = 8 /\ c.in_nack /\ ~c.in_tc /\ ~c.in_stall
      /\ c.out_nack /\ ~c.out_tc /\ ~c.out_stall
  BY DEF Inv, TypeOK, Completions
<1>2. /\ Settled(c, c') /\ c'.error_int
      /\ ~buffer.accept => c'.state = "STALL_REQ" /\ c'.in_stall /\ c'.out_stall
      /\ buffer.accept => ~c'.in_stall /\ ~c'.out_stall
      /\ buffer.accept /\ buffer.dir = "in" =>
           /\ c'.state = "DATA_IN" /\ ~c'.in_nack /\ c'.trans = c'.in_cnt
           /\ c'.payload_size = buffer.payload /\ c'.wLength = buffer.wLength
      /\ buffer.accept /\ buffer.dir = "out" =>
           c'.state = IF buffer.wLength = 0 THEN "HANDSHAKE_WAIT_IN_ZLP" ELSE "DATA_OUT"
  BY <1>1, SetupReceivedKeeps
<1>3. ASSUME host.phase \in Active PROVE UnderWay'
  <2>1. /\ buffer = host.req /\ host.got = 0 /\ ~host.resend
        /\ host.phase = FirstPhase(host.req) \/ host.stopped
    BY <1>3 DEF Inv, Engaged, Waiting
  <2>2. /\ host.phase \in {"data_in", "status_out"} => buffer.dir = "in"
        /\ host.phase \in {"data_out", "status_in"} => buffer.dir = "out"
        /\ host.phase = "data_out" => buffer.wLength # 0
    BY <2>1, RequestType DEF Inv, HostAccount, TypeOK
  <2>3. CASE ~buffer.accept
    BY <1>2, <2>1, <2>3 DEF UnderWay, Settled
  <2>4. CASE buffer.accept /\ buffer.dir = "in"
    <3>1. c'.state = "DATA_IN" /\ ~c'.in_nack /\ c'.trans = 0 + c'.in_cnt
      BY <1>2, <2>4 DEF Settled, ControlType
    <3>2. ~c'.in_stall /\ ~c'.out_stall
      BY <1>2, <2>4
    <3> QED BY <1>2, <2>1, <2>4, <3>1, <3>2 DEF UnderWay, Accepted
  <2>5. CASE buffer.accept /\ buffer.dir = "out" /\ buffer.wLength # 0
    <3>1. host.phase # "status_in" \/ host.stopped
      BY <2>1, <2>5, RequestType DEF FirstPhase, Inv, TypeOK
    <3>2. c'.state = "DATA_OUT" /\ ~c'.in_stall /\ ~c'.out_stall /\ ~c'.out_tc
      BY <1>2, <2>5 DEF Settled
    <3> QED BY <2>1, <2>5, <3>1, <3>2 DEF UnderWay, Accepted
  <2>6. CASE buffer.accept /\ buffer.dir = "out" /\ buffer.wLength = 0
    <3>1. host.phase = "status_in"
      BY <1>3, <2>2, <2>6 DEF Active
    <3>2. ~c.out_ovf
      BY <2>1, <2>6, <3>1 DEF Inv, Naked
    <3>3. c'.state = "HANDSHAKE_WAIT_IN_ZLP" /\ ~c'.in_stall /\ ~c'.out_stall /\ ~c'.out_ovf
      BY <1>2, <2>6, <3>2 DEF Settled
    <3> QED BY <2>1, <2>6, <3>1, <3>3 DEF UnderWay, Accepted
  <2> QED BY <1>1, <2>3, <2>4, <2>5, <2>6, RequestType
<1> QED BY <1>2, <1>3, HandledInv DEF Inv, TypeOK

\* The host is through the status stage when its completion is handled, and what
\* the state machine does in a data stage fits what the host has.
LEMMA InSentInv ==
  ASSUME Inv, ~BusEvent, c.in_tc, c' = InSent([c EXCEPT !.in_tc = FALSE]),
         fifo' \in Seq({"IN", "OUT"}), UNCHANGED <<flags, buffer, host>>
  PROVE  Inv'
<1>. DEFINE d == [c EXCEPT !.in_tc = FALSE]
<1>1. /\ c \in ControlType /\ flags \in Pending /\ c.in_nack /\ ~c.out_tc /\ ~flags.setup
      /\ c.state \in {"DATA_IN", "HANDSHAKE_WAIT_IN_ZLP"} /\ c.error_int /\ Stage(c)
  BY FlagsType DEF Inv, Completions
<1>2. ~flags.reset /\ ~flags.underflow /\ ~flags.overflow
  BY <1>1 DEF BusEvent, ErrorPending
<1>3. /\ d \in ControlType /\ Stage(d) /\ ~d.in_tc /\ ~d.out_tc /\ d.error_int
      /\ d.state = c.state /\ d.in_unf = c.in_unf /\ d.out_ovf = c.out_ovf
      /\ d.in_stall = c.in_stall /\ d.out_stall = c.out_stall
      /\ d.payload_size = c.payload_size /\ d.wLength = c.wLength /\ d.trans = c.trans
      /\ d.prev = c.prev /\ d.b_shortpacket = c.b_shortpacket
  BY <1>1 DEF ControlType, Stage
<1>. HIDE DEF d
<1>4. /\ Settled(c, c') /\ SameStalls(c, c')
      /\ c.state = "HANDSHAKE_WAIT_IN_ZLP" => c'.state = "SETUP"
      /\ c.state = "DATA_IN" =>
           \/ /\ c'.state = "DATA_IN" /\ ~c'.in_nack
              /\ c'.payload_size = c.payload_size /\ c'.wLength = c.wLength
              /\ c'.trans = c.trans + c'.in_cnt
           \/ /\ c'.state = "HANDSHAKE_WAIT_OUT_ZLP"
              /\ c.trans = c.payload_size
              /\ c.b_shortpacket \/ c.wLength = c.prev + c.trans
  <2>1. c' = InSent(d)
    BY DEF d
  <2> QED BY <1>1, <1>3, <2>1, InSentKeeps DEF Settled, SameStalls
<1>5. ASSUME host.phase \in Active PROVE UnderWay'
  <2>1. UnderWay
    BY <1>1, <1>5 DEF Inv, Engaged
  <2>2. c.state = "DATA_IN"
    BY <1>1, <1>2, <1>5 DEF Inv, Engaged, Ended, Active
  <2>3. c.trans \in Nat /\ c.prev \in Nat /\ host.got \in Nat /\ c'.in_cnt \in Nat
    BY <1>1, <1>4 DEF ControlType, Settled, Inv, TypeOK
  <2>4. host.phase = "data_in" =>
          /\ ~host.resend /\ c.trans = host.got
          /\ ~c.b_shortpacket /\ host.got # host.req.wLength
    BY <1>1, <2>1, <2>2, <2>3 DEF UnderWay
  <2>5. (c'.in_stall \/ c'.out_stall) => (c.in_stall \/ c.out_stall)
    BY <1>4 DEF SameStalls
  <2>6. CASE c'.state = "DATA_IN"
    <3>1. host.phase = "data_in" => c'.trans = host.got + c'.in_cnt
      BY <1>4, <2>2, <2>4, <2>6
    <3> QED BY <1>4, <2>1, <2>2, <2>4, <2>5, <2>6, <3>1 DEF UnderWay, Accepted
  <2>7. CASE c'.state = "HANDSHAKE_WAIT_OUT_ZLP"
    <3>1. host.phase # "data_in"
      <4>1. SUFFICES ASSUME host.phase = "data_in" PROVE FALSE
        OBVIOUS
      <4>2. ~c.b_shortpacket /\ c.prev = 0 /\ c.wLength = host.req.wLength
        BY <1>1, <2>1, <2>2, <2>4, <4>1 DEF Stage, UnderWay
      <4> QED BY <1>4, <2>2, <2>3, <2>4, <2>7, <4>1, <4>2
    <3>2. Accepted("in") /\ host.phase = "status_out"
      BY <1>5, <2>1, <2>2, <3>1 DEF UnderWay, Active, Accepted, Inv, HostAccount
    <3> QED BY <1>2, <2>1, <2>5, <2>7, <3>2 DEF UnderWay, Accepted
  <2> QED BY <1>4, <2>2, <2>6, <2>7
<1> QED BY <1>1, <1>4, <1>5, HandledInv

LEMMA OutReceivedInv ==
  ASSUME Inv, ~BusEvent, c.out_tc, c' = OutReceived([c EXCEPT !.out_tc = FALSE]),
         fifo' \in Seq({"IN", "OUT"}), UNCHANGED <<flags, buffer, host>>
  PROVE  Inv'
<1>. DEFINE d == [c EXCEPT !.out_tc = FALSE]
<1>1. /\ c \in ControlType /\ flags \in Pending /\ c.out_nack /\ ~c.in_tc /\ ~flags.setup
      /\ c.state \in {"DATA_OUT", "HANDSHAKE_WAIT_OUT_ZLP"} /\ c.error_int /\ Stage(c)
  BY FlagsType DEF Inv, Completions
<1>2. ~flags.reset /\ ~flags.underflow /\ ~flags.overflow
  BY <1>1 DEF BusEvent, ErrorPending
<1>3. /\ d \in ControlType /\ Stage(d) /\ ~d.in_tc /\ ~d.out_tc /\ d.error_int
      /\ d.state = c.state /\ d.in_unf = c.in_unf /\ d.out_ovf = c.out_ovf
      /\ d.in_stall = c.in_stall /\ d.out_stall = c.out_stall /\ d.out_nack = c.out_nack
  BY <1>1 DEF ControlType, Stage
<1>. HIDE DEF d
<1>4. /\ Settled(c, c') /\ SameStalls(c, c') /\ c'.out_nack
      /\ c.state = "HANDSHAKE_WAIT_OUT_ZLP" => c'.state = "SETUP"
      /\ c.state = "DATA_OUT" => c'.state = "HANDSHAKE_WAIT_IN_ZLP"
  <2>1. c' = OutReceived(d)
    BY DEF d
  <2>2. /\ Settled(d, c') /\ SameStalls(d, c') /\ c'.out_nack = d.out_nack
        /\ d.state = "HANDSHAKE_WAIT_OUT_ZLP" => c'.state = "SETUP"
        /\ d.state = "DATA_OUT" => c'.state = "HANDSHAKE_WAIT_IN_ZLP"
    BY <1>1, <1>3, <2>1, OutReceivedKeeps
  <2>3. c'.out_nack
    BY <1>1, <1>3, <2>2
  <2>4. Settled(c, c') /\ SameStalls(c, c')
    BY <1>3, <2>2 DEF Settled, SameStalls
  <2> QED BY <1>3, <2>2, <2>3, <2>4
<1>5. ASSUME host.phase \in Active PROVE UnderWay'
  <2>1. UnderWay
    BY <1>1, <1>5 DEF Inv, Engaged
  <2>2. c.state = "DATA_OUT"
    BY <1>1, <1>2, <1>5 DEF Inv, Engaged, Ended, Active
  <2>3. (c'.in_stall \/ c'.out_stall) => (c.in_stall \/ c.out_stall)
    BY <1>4 DEF SameStalls
  <2>4. Accepted("out") /\ (host.phase = "data_out" => host.got > 0)
    BY <2>1, <2>2 DEF UnderWay, Accepted
  <2> QED BY <1>2, <1>4, <2>1, <2>2, <2>3, <2>4 DEF UnderWay, Accepted
<1> QED BY <1>1, <1>4, <1>5, HandledInv
\* With an empty FIFO nothing is complete.
LEMMA NothingComplete ==
  ASSUME Inv, fifo = <<>> PROVE ~c.in_tc /\ ~c.out_tc
BY DEF Inv, Completions, Queued

LEMMA UnderflowInv == Inv /\ UnderflowIsr => Inv'
<1>. SUFFICES ASSUME Inv, UnderflowIsr PROVE Inv'
  OBVIOUS
<1>1. flags \in Pending /\ c \in ControlType /\ flags.underflow
  BY FlagsType DEF Inv, UnderflowIsr
<1>2. UNCHANGED <<fifo, buffer, host>> /\ fifo \in Seq({"IN", "OUT"})
  BY DEF UnderflowIsr, Inv, TypeOK
<1>3. CASE ~c.in_unf \/ fifo # <<>>
  <2>1. c' = c /\ flags' = [flags EXCEPT !.underflow = FALSE]
    BY <1>3 DEF UnderflowIsr, ErrorHandled
  <2>2. /\ flags' \in Pending /\ flags'.setup = flags.setup /\ flags'.reset = flags.reset
        /\ ~flags'.underflow /\ flags'.overflow = flags.overflow
    BY <1>1, <2>1 DEF Pending
  <2> QED BY <1>2, <2>1, <2>2, DroppedInv
<1>4. CASE c.in_unf /\ fifo = <<>> /\ flags.setup
  <2>1. c' = SetupReceived(c, buffer)
        /\ flags' = [flags EXCEPT !.underflow = FALSE, !.setup = FALSE]
    BY <1>4 DEF UnderflowIsr, ErrorHandled
  <2>2. flags' \in Pending /\ ~flags'.setup /\ flags'.reset = flags.reset
    BY <1>1, <2>1 DEF Pending
  <2> QED BY <1>2, <1>4, <2>1, <2>2, TakenUpInv
<1>5. CASE c.in_unf /\ fifo = <<>> /\ ~flags.setup
  <2>1. c' = Underflow(c) /\ flags' = [flags EXCEPT !.underflow = FALSE]
    BY <1>5 DEF UnderflowIsr, ErrorHandled
  <2>2. /\ flags' \in Pending /\ ~flags'.setup /\ flags'.reset = flags.reset
        /\ ~flags'.underflow /\ flags'.overflow = flags.overflow
    BY <1>1, <1>5, <2>1 DEF Pending
  <2>3. Stage(c) /\ ~c.in_tc /\ ~c.out_tc /\ (c.error_int <=> c.state # "SETUP")
    BY <1>5, NothingComplete DEF Inv, Completions
  <2>4. /\ Settled(c, c')
        /\ c.state = "DATA_OUT" =>
             c'.state = "HANDSHAKE_WAIT_IN_ZLP" /\ SameStalls(c, c')
        /\ c.state = "HANDSHAKE_WAIT_OUT_ZLP" => c'.state = c.state
        /\ c.state \notin {"DATA_OUT", "HANDSHAKE_WAIT_OUT_ZLP"} => c' = c
    BY <1>1, <2>1, <2>3, UnderflowKeeps
  <2>5. ASSUME host.phase \in Active PROVE UnderWay'
    <3>1. UnderWay
      BY <1>5, <2>5 DEF Inv, Engaged
    <3>2. CASE c.state = "DATA_OUT"
      <4>1. Accepted("out") /\ host.phase = "status_in" /\ host.stopped
        BY <1>5, <2>3, <2>5, <3>1, <3>2
           DEF Inv, Naked, HostAccount, UnderWay, Accepted, Active
      <4> QED BY <1>2, <2>4, <3>2, <4>1 DEF UnderWay, Accepted
    <3>3. CASE c.state = "HANDSHAKE_WAIT_OUT_ZLP"
      <4>1. Accepted("in") /\ host.phase = "status_out" /\ ReportPolled
        BY <1>1, <3>1, <3>3 DEF UnderWay, Accepted
      <4> QED BY <1>2, <2>2, <2>4, <3>3, <4>1 DEF UnderWay, Accepted
    <3>4. CASE c.state \notin {"DATA_OUT", "HANDSHAKE_WAIT_OUT_ZLP"}
      BY <1>2, <2>2, <2>4, <3>1, <3>4 DEF UnderWay, Accepted
    <3> QED BY <3>2, <3>3, <3>4
  <2> QED BY <1>2, <2>2, <2>4, <2>5, HandledInv
<1> QED BY <1>3, <1>4, <1>5

LEMMA OverflowInv == Inv /\ OverflowIsr => Inv'
<1>. SUFFICES ASSUME Inv, OverflowIsr PROVE Inv'
  OBVIOUS
<1>1. flags \in Pending /\ c \in ControlType /\ flags.overflow /\ ~flags.underflow
  BY FlagsType DEF Inv, OverflowIsr
<1>2. UNCHANGED <<fifo, buffer, host>> /\ fifo \in Seq({"IN", "OUT"})
  BY DEF OverflowIsr, Inv, TypeOK
<1>3. CASE ~c.out_ovf \/ fifo # <<>>
  <2>1. c' = c /\ flags' = [flags EXCEPT !.overflow = FALSE]
    BY <1>3 DEF OverflowIsr, ErrorHandled
  <2>2. /\ flags' \in Pending /\ flags'.setup = flags.setup /\ flags'.reset = flags.reset
        /\ flags'.underflow = flags.underflow /\ ~flags'.overflow
    BY <1>1, <2>1 DEF Pending
  <2> QED BY <1>2, <2>1, <2>2, DroppedInv
<1>4. CASE c.out_ovf /\ fifo = <<>> /\ flags.setup
  <2>1. c' = SetupReceived(c, buffer)
        /\ flags' = [flags EXCEPT !.overflow = FALSE, !.setup = FALSE]
    BY <1>4 DEF OverflowIsr, ErrorHandled
  <2>2. flags' \in Pending /\ ~flags'.setup /\ flags'.reset = flags.reset
    BY <1>1, <2>1 DEF Pending
  <2> QED BY <1>2, <1>4, <2>1, <2>2, TakenUpInv
<1>5. CASE c.out_ovf /\ fifo = <<>> /\ ~flags.setup
  <2>1. c' = Overflow(c) /\ flags' = [flags EXCEPT !.overflow = FALSE]
    BY <1>5 DEF OverflowIsr, ErrorHandled
  <2>2. /\ flags' \in Pending /\ ~flags'.setup /\ flags'.reset = flags.reset
        /\ ~flags'.underflow /\ ~flags'.overflow
    BY <1>1, <1>5, <2>1 DEF Pending
  <2>3. Stage(c) /\ ~c.in_tc /\ ~c.out_tc /\ (c.error_int <=> c.state # "SETUP")
    BY <1>5, NothingComplete DEF Inv, Completions
  <2>4. /\ Settled(c, c')
        /\ c.state = "DATA_IN" =>
             c'.state = "HANDSHAKE_WAIT_OUT_ZLP" /\ SameStalls(c, c')
        /\ c.state = "HANDSHAKE_WAIT_IN_ZLP" => c'.state = c.state /\ c'.out_nack = c.out_nack
        /\ c.state \notin {"DATA_IN", "HANDSHAKE_WAIT_IN_ZLP"} => c' = c
    BY <1>1, <2>1, <2>3, OverflowKeeps
  <2>5. ASSUME host.phase \in Active PROVE UnderWay'
    <3>1. UnderWay
      BY <1>5, <2>5 DEF Inv, Engaged
    <3>2. CASE c.state = "DATA_IN"
      <4>1. Accepted("in") /\ host.phase = "status_out"
        BY <1>5, <2>5, <3>1, <3>2
           DEF Inv, Naked, HostAccount, UnderWay, Accepted, Active
      <4>2. (c'.in_stall \/ c'.out_stall) => (c.in_stall \/ c.out_stall)
        BY <2>4, <3>2 DEF SameStalls
      <4> QED BY <1>2, <2>2, <2>4, <3>1, <3>2, <4>1, <4>2 DEF UnderWay, Accepted
    <3>3. CASE c.state = "HANDSHAKE_WAIT_IN_ZLP"
      <4>1. Accepted("out") /\ (host.stopped \/ host.phase = "data_out")
        BY <1>1, <1>5, <3>1, <3>3 DEF UnderWay, Accepted
      <4>2. host.phase = "data_out" => c'.out_nack /\ host.got > 0
        BY <2>4, <3>1, <3>3 DEF UnderWay
      <4> QED BY <1>2, <2>2, <2>4, <3>3, <4>1, <4>2 DEF UnderWay, Accepted
    <3>4. CASE c.state \notin {"DATA_IN", "HANDSHAKE_WAIT_IN_ZLP"}
      BY <1>2, <2>2, <2>4, <3>1, <3>4 DEF UnderWay, Accepted
    <3> QED BY <3>2, <3>3, <3>4
  <2> QED BY <1>2, <2>2, <2>4, <2>5, HandledInv
<1> QED BY <1>3, <1>4, <1>5

LEMMA ResetInv == Inv /\ ResetIsr => Inv'
<1>. SUFFICES ASSUME Inv, ResetIsr PROVE Inv'
  OBVIOUS
<1>. DEFINE d == [c EXCEPT !.in_stall = FALSE, !.out_stall = FALSE,
                           !.out_nack = TRUE, !.out_tc = FALSE]
<1>1. flags \in Pending /\ c \in ControlType
  BY FlagsType DEF Inv
<1>2. UNCHANGED <<fifo, buffer, host>> /\ c' = CtrlInit(d)
      /\ flags' = [flags EXCEPT !.reset = FALSE]
  BY DEF ResetIsr
<1>3. /\ flags' \in Pending /\ flags'.setup = flags.setup /\ ~flags'.reset
  BY <1>1, <1>2 DEF Pending
<1>4. d \in ControlType /\ ~d.in_stall /\ ~d.out_stall /\ d.out_nack /\ ~d.out_tc
      /\ d.out_cnt = c.out_cnt
  BY <1>1 DEF ControlType
<1>. HIDE DEF d
<1>5. /\ c' \in ControlType /\ Stage(c') /\ c'.state = "SETUP" /\ ~c'.error_int
      /\ ~c'.in_tc /\ c'.in_nack /\ ~c'.in_unf /\ ~c'.out_ovf /\ ~c'.out_tc /\ c'.out_nack
      /\ ~c'.in_stall /\ ~c'.out_stall /\ c'.out_cnt = c.out_cnt
  BY <1>2, <1>4, CtrlInitKeeps
<1>6. host.phase = "none"
  BY DEF Inv, HostAccount, ResetIsr
<1>7. TypeOK'
  BY <1>2, <1>3, <1>5 DEF Inv, TypeOK, Pending
<1>8. Completions' /\ Stage(c)'
  BY <1>3, <1>5 DEF Inv, Completions
<1>9. HostAccount' /\ Naked' /\ Whole' /\ Engaged'
  BY <1>2, <1>3, <1>5, <1>6 DEF HostAccount, Naked, Whole, Engaged, Ended, Active
<1> QED BY <1>7, <1>8, <1>9 DEF Inv

\* An entry that is taken out hides no other.
LEMMA QueuedBehind ==
  ASSUME fifo \in Seq({"IN", "OUT"}), fifo # <<>>, fifo' = Tail(fifo), NEW x,
         Queued(x), Head(fifo) # x
  PROVE  Queued(x)'
<1>1. PICK i \in 1..Len(fifo) : fifo[i] = x
  BY DEF Queued
<1>2. i # 1
  BY <1>1
<1>3. i - 1 \in 1..Len(fifo') /\ fifo'[i - 1] = x
  BY <1>1, <1>2
<1> QED BY <1>3 DEF Queued

LEMMA TransferInv == Inv /\ TransferIsr => Inv'
<1>. SUFFICES ASSUME Inv, TransferIsr PROVE Inv'
  OBVIOUS
<1>1. /\ ~BusEvent /\ fifo # <<>> /\ fifo' = Tail(fifo) /\ UNCHANGED <<flags, buffer, host>>
      /\ fifo \in Seq({"IN", "OUT"})
  BY DEF TransferIsr, Inv, TypeOK
<1>2. fifo' \in Seq({"IN", "OUT"}) /\ Head(fifo) \in {"IN", "OUT"}
  BY <1>1
<1>3. CASE Head(fifo) = "IN" /\ c.in_tc
  <2>1. c' = InSent([c EXCEPT !.in_tc = FALSE])
    BY <1>3 DEF TransferIsr
  <2> QED BY <1>1, <1>2, <1>3, <2>1, InSentInv
<1>4. CASE Head(fifo) = "OUT" /\ c.out_tc
  <2>1. c' = OutReceived([c EXCEPT !.out_tc = FALSE])
    BY <1>4 DEF TransferIsr
  <2> QED BY <1>1, <1>2, <1>4, <2>1, OutReceivedInv
<1>5. CASE ~(Head(fifo) = "IN" /\ c.in_tc) /\ ~(Head(fifo) = "OUT" /\ c.out_tc)
  <2>1. c' = c
    BY <1>2, <1>5 DEF TransferIsr
  <2>2. (c.in_tc => Queued("IN")') /\ (c.out_tc => Queued("OUT")')
    <3>1. c.in_tc => Queued("IN") /\ Head(fifo) # "IN"
      BY <1>5 DEF Inv, Completions
    <3>2. c.out_tc => Queued("OUT") /\ Head(fifo) # "OUT"
      BY <1>5 DEF Inv, Completions
    <3> QED BY <1>1, <3>1, <3>2, QueuedBehind
  <2>3. TypeOK'
    BY <1>1, <1>2, <2>1 DEF Inv, TypeOK
  <2>4. Completions' /\ Stage(c)'
    BY <1>1, <2>1, <2>2 DEF Inv, Completions
  <2>5. HostAccount' /\ Naked' /\ Whole'
    BY <1>1, <2>1 DEF Inv, HostAccount, Naked, Whole
  <2>6. UnderWay => UnderWay'
    BY <1>1, <2>1 DEF UnderWay, Accepted
  <2>7. Engaged'
    BY <1>1, <2>1, <2>6 DEF Inv, Engaged, Ended, Waiting
  <2> QED BY <2>3, <2>4, <2>5, <2>7 DEF Inv
<1> QED BY <1>2, <1>3, <1>4, <1>5

LEMMA SetupInv == Inv /\ SetupIsr => Inv'
<1>. SUFFICES ASSUME Inv, SetupIsr PROVE Inv'
  OBVIOUS
<1>1. flags \in Pending
  BY FlagsType DEF Inv
<1>2. flags' \in Pending /\ ~flags'.setup /\ flags'.reset = flags.reset
  BY <1>1 DEF SetupIsr, Pending
<1> QED BY <1>2, TakenUpInv DEF SetupIsr
-----------------------------------------------------------------------------
(***************************************************************************)
(* The host and its packets.                                               *)
(***************************************************************************)
LEMMA HostSetupInv == ASSUME Inv, NEW r \in Requests, HostSetup(r) PROVE Inv'
<1>1. flags \in Pending /\ c \in ControlType
  BY FlagsType DEF Inv
<1>2. /\ c' = [c EXCEPT !.in_nack = TRUE, !.in_tc = FALSE, !.in_unf = FALSE, !.in_stall = FALSE,
                        !.out_nack = TRUE, !.out_tc = FALSE, !.out_ovf = FALSE,
                        !.out_stall = FALSE, !.out_cnt = 8]
      /\ buffer' = r /\ fifo' = fifo /\ flags' = [flags EXCEPT !.setup = TRUE]
      /\ host' = [phase |-> FirstPhase(r), req |-> r, got |-> 0, resend |-> FALSE,
                  stopped |-> FALSE]
      /\ ~flags.reset
  BY DEF HostSetup, OnBus
<1>3. flags' \in Pending /\ flags'.setup /\ ~flags'.reset
  BY <1>1, <1>2 DEF Pending
<1>4. /\ c' \in ControlType /\ c'.in_nack /\ ~c'.in_tc /\ ~c'.in_unf /\ ~c'.in_stall
      /\ c'.out_nack /\ ~c'.out_tc /\ ~c'.out_ovf /\ ~c'.out_stall /\ c'.out_cnt = 8
      /\ c'.state = c.state /\ c'.error_int = c.error_int
  BY <1>1, <1>2, ZenonT(30) DEF ControlType
<1>5. r.dir \in {"in", "out"} /\ r.wLength \in Nat
  BY RequestType
<1>6. TypeOK'
  BY <1>2, <1>3, <1>4 DEF Inv, TypeOK, Pending, FirstPhase, Active
<1>7. Completions'
  BY <1>3, <1>4 DEF Inv, Completions
<1>8. Stage(c)'
  <2>1. /\ c'.trans = c.trans /\ c'.payload_size = c.payload_size /\ c'.in_cnt = c.in_cnt
        /\ c'.b_shortpacket = c.b_shortpacket /\ c'.prev = c.prev
    BY <1>1, <1>2 DEF ControlType
  <2> QED BY <1>4, <2>1 DEF Inv, Stage
<1>9. HostAccount' /\ Naked' /\ Whole'
  BY <1>2, <1>3, <1>4, <1>5 DEF HostAccount, Naked, Whole, FirstPhase
<1>10. Engaged'
  BY <1>2, <1>3, <1>4 DEF Engaged, Ended, Waiting
<1> QED BY <1>6, <1>7, <1>8, <1>9, <1>10 DEF Inv

LEMMA InNakedInv == Inv /\ HostInNaked => Inv'
<1>. SUFFICES ASSUME Inv, HostInNaked PROVE Inv'
  OBVIOUS
<1>1. flags \in Pending /\ c \in ControlType
  BY FlagsType DEF Inv
<1>2. /\ c' = [c EXCEPT !.in_unf = TRUE] /\ flags' = [flags EXCEPT !.underflow = TRUE]
      /\ UNCHANGED <<fifo, buffer, host>> /\ host.phase \in {"data_in", "status_in"}
  BY DEF HostInNaked
<1>3. flags' \in Pending /\ flags'.setup = flags.setup /\ flags'.reset = flags.reset
      /\ flags'.overflow = flags.overflow
  BY <1>1, <1>2 DEF Pending
<1>4. /\ c' \in ControlType /\ c'.in_nack = c.in_nack /\ c'.in_tc = c.in_tc
      /\ c'.in_stall = c.in_stall /\ c'.out_nack = c.out_nack /\ c'.out_tc = c.out_tc
      /\ c'.out_ovf = c.out_ovf /\ c'.out_stall = c.out_stall /\ c'.out_cnt = c.out_cnt
      /\ c'.state = c.state /\ c'.error_int = c.error_int
      /\ c'.trans = c.trans /\ c'.payload_size = c.payload_size /\ c'.in_cnt = c.in_cnt
      /\ c'.b_shortpacket = c.b_shortpacket /\ c'.prev = c.prev /\ c'.wLength = c.wLength
  BY <1>1, <1>2 DEF ControlType
<1>5. TypeOK'
  BY <1>2, <1>3, <1>4 DEF Inv, TypeOK, Pending
<1>6. Completions' /\ Stage(c)'
  BY <1>2, <1>3, <1>4 DEF Inv, Completions, Stage, Queued
<1>7. HostAccount' /\ Naked' /\ Whole'
  BY <1>2, <1>3, <1>4 DEF Inv, HostAccount, Naked, Whole
<1>8. UnderWay => UnderWay'
  BY <1>2, <1>3, <1>4 DEF UnderWay, Accepted
<1>9. Engaged'
  BY <1>2, <1>3, <1>4, <1>8 DEF Inv, Engaged, Ended, Waiting
<1> QED BY <1>5, <1>6, <1>7, <1>9 DEF Inv

LEMMA OutNakedInv == Inv /\ HostOutNaked => Inv'
<1>. SUFFICES ASSUME Inv, HostOutNaked PROVE Inv'
  OBVIOUS
<1>1. flags \in Pending /\ c \in ControlType
  BY FlagsType DEF Inv
<1>2. /\ c' = [c EXCEPT !.out_ovf = TRUE] /\ flags' = [flags EXCEPT !.overflow = TRUE]
      /\ UNCHANGED <<fifo, buffer, host>> /\ host.phase \in {"data_out", "status_out"}
  BY DEF HostOutNaked
<1>3. flags' \in Pending /\ flags'.setup = flags.setup /\ flags'.reset = flags.reset
      /\ flags'.underflow = flags.underflow
  BY <1>1, <1>2 DEF Pending
<1>4. /\ c' \in ControlType /\ c'.in_nack = c.in_nack /\ c'.in_tc = c.in_tc
      /\ c'.in_stall = c.in_stall /\ c'.out_nack = c.out_nack /\ c'.out_tc = c.out_tc
      /\ c'.in_unf = c.in_unf /\ c'.out_stall = c.out_stall /\ c'.out_cnt = c.out_cnt
      /\ c'.state = c.state /\ c'.error_int = c.error_int
      /\ c'.trans = c.trans /\ c'.payload_size = c.payload_size /\ c'.in_cnt = c.in_cnt
      /\ c'.b_shortpacket = c.b_shortpacket /\ c'.prev = c.prev /\ c'.wLength = c.wLength
  BY <1>1, <1>2 DEF ControlType
<1>5. TypeOK'
  BY <1>2, <1>3, <1>4 DEF Inv, TypeOK, Pending
<1>6. Completions' /\ Stage(c)'
  BY <1>2, <1>3, <1>4 DEF Inv, Completions, Stage, Queued
<1>7. HostAccount' /\ Naked' /\ Whole'
  BY <1>2, <1>3, <1>4 DEF Inv, HostAccount, Naked, Whole
<1>8. UnderWay => UnderWay'
  <2>1. SUFFICES ASSUME UnderWay PROVE UnderWay'
    OBVIOUS
  <2>2. c.state = "HANDSHAKE_WAIT_IN_ZLP" => host.phase = "data_out"
    BY <1>2, <2>1 DEF UnderWay, Accepted, Inv, HostAccount
  <2> QED BY <1>2, <1>3, <1>4, <2>1, <2>2 DEF UnderWay, Accepted
<1>9. Engaged'
  BY <1>2, <1>3, <1>4, <1>8 DEF Inv, Engaged, Ended, Waiting
<1> QED BY <1>5, <1>6, <1>7, <1>9 DEF Inv

LEMMA QueuedLast ==
  ASSUME fifo \in Seq({"IN", "OUT"}), NEW y \in {"IN", "OUT"}, fifo' = Append(fifo, y)
  PROVE  /\ fifo' \in Seq({"IN", "OUT"}) /\ Queued(y)'
         /\ \A x : Queued(x) => Queued(x)'
<1>1. fifo' \in Seq({"IN", "OUT"}) /\ Len(fifo') = Len(fifo) + 1
      /\ fifo'[Len(fifo')] = y /\ \A i \in 1..Len(fifo) : fifo'[i] = fifo[i]
  OBVIOUS
<1>2. Queued(y)'
  BY <1>1 DEF Queued
<1>3. ASSUME NEW x, Queued(x) PROVE Queued(x)'
  <2>1. PICK i \in 1..Len(fifo) : fifo[i] = x
    BY <1>3 DEF Queued
  <2> QED BY <1>1, <2>1 DEF Queued
<1> QED BY <1>1, <1>2, <1>3

\* What the host takes is what the device counts.
LEMMA InStage ==
  ASSUME Inv, OnBus, host.phase \in {"data_in", "status_in"}, ~c.in_nack, ~c.in_stall
  PROVE  /\ ~flags.setup /\ UnderWay /\ ~c.in_tc /\ host.req.accept
         /\ host.phase = "data_in" =>
              /\ c.state = "DATA_IN" /\ ~c.out_tc
              /\ ~host.stopped
         /\ host.phase = "status_in" =>
              /\ c.state = "HANDSHAKE_WAIT_IN_ZLP" /\ c.in_cnt = 0 /\ ~host.resend /\ ~c.out_tc
<1>1. ~flags.setup /\ ~c.in_tc
  BY DEF Inv, Completions
<1>2. UnderWay
  BY <1>1 DEF Inv, Engaged, Active
<1>3. c.state \in State
  BY DEF Inv, TypeOK, ControlType
<1>4. CASE host.phase = "data_in"
  <2>1. host.req.dir = "in" /\ ~host.stopped
    BY <1>4 DEF Inv, HostAccount
  <2>2. c.state = "DATA_IN" /\ host.req.accept
    BY <1>2, <1>3, <1>4, <2>1 DEF UnderWay, Accepted, State
  <2>3. ~c.out_tc
    BY <2>2 DEF Inv, Completions
  <2> QED BY <1>1, <1>2, <1>4, <2>1, <2>2, <2>3
<1>5. CASE host.phase = "status_in"
  <2>1. host.req.dir = "out" /\ ~host.resend
    BY <1>5 DEF Inv, HostAccount
  <2>2. c.state = "HANDSHAKE_WAIT_IN_ZLP" /\ host.req.accept
    BY <1>2, <1>3, <1>5, <2>1 DEF UnderWay, Accepted, State, Inv, Stage
  <2>3. ~c.out_tc /\ c.in_cnt = 0
    BY <2>2 DEF Inv, Completions, Stage
  <2> QED BY <1>1, <1>2, <1>5, <2>1, <2>2, <2>3
<1> QED BY <1>4, <1>5

LEMMA OutStage ==
  ASSUME Inv, OnBus, host.phase \in {"data_out", "status_out"}, ~c.out_nack, ~c.out_stall
  PROVE  /\ ~flags.setup /\ UnderWay /\ ~c.out_tc /\ host.req.accept
         /\ host.phase = "data_out" => c.state = "DATA_OUT"
         /\ host.phase = "status_out" => c.state = "HANDSHAKE_WAIT_OUT_ZLP"
         /\ ~c.in_tc
<1>1. ~flags.setup /\ ~c.out_tc
  BY DEF Inv, Completions
<1>2. UnderWay
  BY <1>1 DEF Inv, Engaged, Active
<1>3. c.state \in State
  BY DEF Inv, TypeOK, ControlType
<1>4. CASE host.phase = "data_out"
  <2>1. host.req.dir = "out"
    BY <1>4 DEF Inv, HostAccount
  <2>2. c.state = "DATA_OUT" /\ host.req.accept
    BY <1>2, <1>3, <1>4, <2>1 DEF UnderWay, Accepted, State
  <2>3. ~c.in_tc
    BY <2>2 DEF Inv, Completions
  <2> QED BY <1>1, <1>2, <1>4, <2>2, <2>3
<1>5. CASE host.phase = "status_out"
  <2>1. host.req.dir = "in"
    BY <1>5 DEF Inv, HostAccount
  <2>2. c.state = "HANDSHAKE_WAIT_OUT_ZLP" /\ host.req.accept
    BY <1>2, <1>3, <1>5, <2>1 DEF UnderWay, Accepted, State, Inv, Stage
  <2>3. ~c.in_tc
    BY <2>2 DEF Inv, Completions
  <2> QED BY <1>1, <1>2, <1>5, <2>2, <2>3
<1> QED BY <1>4, <1>5
\* What host' is after an IN packet: the packet ends the data stage for the host
\* exactly if the device has counted the whole payload.
InTaken(acked) ==
  /\ host'.req = host.req /\ host'.stopped = host.stopped /\ host'.resend = ~acked
  /\ host.phase = "status_in" => host'.phase = "done"
  /\ host.phase = "data_in" =>
       /\ host'.phase \in {"data_in", "status_out"}
       /\ host'.got = c.trans
       /\ host'.phase = "data_in" => ~c.b_shortpacket /\ c.trans # host.req.wLength
       /\ host'.phase = "status_out" => c.trans = host.req.payload

HostType == [phase : Active \cup {"none", "done", "stalled"}, req : Requests \cup {NoRequest},
             got : Nat, resend : BOOLEAN, stopped : BOOLEAN]

LEMMA InTakes ==
  ASSUME Inv, NEW acked \in BOOLEAN, HostIn(acked)
  PROVE  InTaken(acked) /\ host' \in HostType
<1>. DEFINE n == c.in_cnt
<1>1. /\ OnBus /\ host.phase \in {"data_in", "status_in"} /\ ~c.in_nack /\ ~c.in_stall
      /\ host' = [IF host.resend THEN host ELSE HostTakes(n) EXCEPT !.resend = ~acked]
  BY DEF HostIn
<1>2. /\ ~flags.setup /\ UnderWay
      /\ host.phase = "data_in" => c.state = "DATA_IN"
      /\ host.phase = "status_in" => n = 0 /\ ~host.resend
  BY <1>1, InStage
<1>3. host \in HostType /\ c \in ControlType /\ n \in Nat /\ host.got \in Nat /\ c.trans \in Nat
  BY DEF Inv, TypeOK, HostType, ControlType
<1>4. /\ host.req.wLength \in Nat /\ host.req.payload \in Nat
      /\ host.req.payload <= host.req.wLength
  BY <1>3, RequestType DEF HostType
<1>5. CASE host.phase = "status_in"
  <2>1. host' = [host EXCEPT !.phase = "done", !.resend = ~acked]
    BY <1>1, <1>2, <1>3, <1>5 DEF HostTakes, HostType
  <2> QED BY <1>3, <1>5, <2>1 DEF InTaken, HostType
<1>6. CASE host.phase = "data_in" /\ host.resend
  <2>1. host' = [host EXCEPT !.resend = ~acked]
    BY <1>1, <1>6
  <2>2. c.trans = host.got /\ ~c.b_shortpacket /\ host.got # host.req.wLength
    BY <1>2, <1>3, <1>6 DEF UnderWay
  <2> QED BY <1>3, <1>6, <2>1, <2>2 DEF InTaken, HostType
<1>7. CASE host.phase = "data_in" /\ ~host.resend
  <2>. DEFINE ends == n < CtrlSize \/ host.got + n = host.req.wLength
  <2>1. host' = [host EXCEPT !.got = host.got + n, !.resend = ~acked,
                             !.phase = IF ends THEN "status_out" ELSE "data_in"]
    BY <1>1, <1>3, <1>7 DEF HostTakes, HostType
  <2>2. /\ c.trans = host.got + n /\ c.payload_size = host.req.payload
    BY <1>1, <1>2, <1>3, <1>7 DEF UnderWay
  <2>3. /\ c.trans <= c.payload_size /\ (c.b_shortpacket <=> n < CtrlSize)
        /\ (c.b_shortpacket => c.trans = c.payload_size)
    BY <1>2, <1>7 DEF Inv, Stage
  <2>4. ends => c.trans = host.req.payload
    BY <1>3, <1>4, <2>2, <2>3
  <2>5. ~ends => ~c.b_shortpacket /\ c.trans # host.req.wLength
    BY <2>2, <2>3
  <2>. HIDE DEF ends
  <2>6. CASE ends
    <3>1. host' = [host EXCEPT !.got = host.got + n, !.resend = ~acked, !.phase = "status_out"]
      BY <2>1, <2>6
    <3> QED BY <1>3, <1>7, <2>2, <2>4, <2>6, <3>1 DEF InTaken, HostType, Active
  <2>7. CASE ~ends
    <3>1. host' = [host EXCEPT !.got = host.got + n, !.resend = ~acked, !.phase = "data_in"]
      BY <2>1, <2>7
    <3> QED BY <1>3, <1>7, <2>2, <2>5, <2>7, <3>1 DEF InTaken, HostType, Active
  <2> QED BY <2>6, <2>7
<1> QED BY <1>1, <1>5, <1>6, <1>7

LEMMA HostInInv == ASSUME Inv, NEW acked \in BOOLEAN, HostIn(acked) PROVE Inv'
<1>1. /\ OnBus /\ host.phase \in {"data_in", "status_in"} /\ ~c.in_nack /\ ~c.in_stall
      /\ UNCHANGED <<flags, buffer>>
  BY DEF HostIn
<1>2. /\ ~flags.setup /\ UnderWay /\ ~c.in_tc /\ ~c.out_tc
      /\ host.phase = "data_in" => c.state = "DATA_IN" /\ ~host.stopped
      /\ host.phase = "status_in" => c.state = "HANDSHAKE_WAIT_IN_ZLP" /\ c.in_cnt = 0
  BY <1>1, InStage
<1>3. c \in ControlType /\ fifo \in Seq({"IN", "OUT"}) /\ ~flags.reset
  BY <1>1 DEF Inv, TypeOK, OnBus
<1>4. InTaken(acked) /\ host' \in HostType
  BY InTakes
<1>5. /\ c' \in ControlType /\ c'.in_stall = c.in_stall /\ c'.out_nack = c.out_nack
      /\ c'.out_tc = c.out_tc /\ c'.in_unf = c.in_unf
      /\ c'.out_ovf = c.out_ovf /\ c'.out_stall = c.out_stall /\ c'.out_cnt = c.out_cnt
      /\ c'.state = c.state /\ c'.error_int = c.error_int
      /\ c'.trans = c.trans /\ c'.payload_size = c.payload_size /\ c'.in_cnt = c.in_cnt
      /\ c'.b_shortpacket = c.b_shortpacket /\ c'.prev = c.prev /\ c'.wLength = c.wLength
      /\ c'.in_tc <=> acked
      /\ c'.in_nack <=> acked
  <2>1. CASE acked
    <3>1. c' = [c EXCEPT !.in_tc = TRUE, !.in_nack = TRUE]
      BY <2>1 DEF HostIn
    <3> QED BY <1>3, <2>1, <3>1 DEF ControlType
  <2>2. CASE ~acked
    <3>1. c' = c
      BY <2>2 DEF HostIn
    <3> QED BY <1>1, <1>2, <1>3, <2>2, <3>1
  <2> QED BY <2>1, <2>2
<1>6. fifo' \in Seq({"IN", "OUT"}) /\ (acked => Queued("IN")')
  <2>1. CASE acked
    BY <1>3, <2>1, QueuedLast DEF HostIn
  <2>2. CASE ~acked
    BY <1>3, <2>2 DEF HostIn
  <2> QED BY <2>1, <2>2
<1>7. TypeOK'
  BY <1>1, <1>4, <1>5, <1>6 DEF Inv, TypeOK, HostType
<1>8. Completions'
  BY <1>1, <1>2, <1>5, <1>6 DEF Inv, Completions
<1>9. Stage(c)'
  BY <1>1, <1>2, <1>5 DEF Inv, Stage
<1>10. HostAccount' /\ Naked' /\ Whole'
  BY <1>1, <1>2, <1>3, <1>4, <1>5 DEF Inv, HostAccount, Naked, Whole, InTaken
<1>11. CASE host.phase = "data_in"
  <2>1. host'.phase = "data_in" =>
          /\ c'.trans = host'.got + IF c'.in_nack \/ host'.resend THEN 0 ELSE c'.in_cnt
          /\ c'.in_nack => ~host'.resend
          /\ ~c'.b_shortpacket /\ host'.got # host'.req.wLength
    <3>1. c'.trans \in Nat /\ c'.trans = c.trans /\ c'.b_shortpacket = c.b_shortpacket
      BY <1>5 DEF ControlType
    <3>2. c'.in_nack \/ host'.resend
      BY <1>4, <1>5 DEF InTaken
    <3>3. c'.in_nack => ~host'.resend
      BY <1>4, <1>5 DEF InTaken
    <3>4. host'.got = c.trans /\ host'.req = host.req
          /\ (host'.phase = "data_in" => ~c.b_shortpacket /\ c.trans # host.req.wLength)
      BY <1>4, <1>11 DEF InTaken
    <3> QED BY <3>1, <3>2, <3>3, <3>4
  <2>2. UnderWay'
    BY <1>1, <1>2, <1>4, <1>5, <1>11, <2>1 DEF UnderWay, Accepted, InTaken
  <2>3. Ended'
    BY <1>2, <1>5, <1>11 DEF Ended
  <2> QED BY <1>1, <1>2, <1>7, <1>8, <1>9, <1>10, <2>2, <2>3 DEF Inv, Engaged
<1>12. CASE host.phase = "status_in"
  <2>1. Engaged'
    BY <1>2, <1>4, <1>5, <1>12 DEF Engaged, Ended, InTaken, Active
  <2> QED BY <1>7, <1>8, <1>9, <1>10, <2>1 DEF Inv
<1> QED BY <1>1, <1>11, <1>12

LEMMA HostOutInv == Inv /\ HostOut => Inv'
<1>. SUFFICES ASSUME Inv, HostOut PROVE Inv'
  OBVIOUS
<1>1. /\ OnBus /\ host.phase \in {"data_out", "status_out"} /\ ~c.out_nack /\ ~c.out_stall
      /\ c' = [c EXCEPT !.out_cnt = HostOutSize, !.out_tc = TRUE, !.out_nack = TRUE]
      /\ fifo' = Append(fifo, "OUT")
      /\ UNCHANGED <<flags, buffer>>
  BY DEF HostOut
<1>2. /\ ~flags.setup /\ UnderWay /\ ~c.out_tc /\ ~c.in_tc /\ host.req.accept
      /\ host.phase = "data_out" => c.state = "DATA_OUT"
      /\ host.phase = "status_out" => c.state = "HANDSHAKE_WAIT_OUT_ZLP"
  BY <1>1, OutStage
<1>3. /\ c \in ControlType /\ fifo \in Seq({"IN", "OUT"}) /\ ~flags.reset /\ host \in HostType
      /\ host.req \in Requests \cup {NoRequest} /\ host.got \in Nat
  BY <1>1 DEF Inv, TypeOK, OnBus, HostType
<1>4. host.req.wLength \in Nat
  BY <1>3, RequestType
<1>5. /\ HostOutSize \in Nat
      /\ host.phase = "data_out" =>
           HostOutSize \in 1..CtrlSize /\ host.got + HostOutSize <= host.req.wLength
  <2>1. CASE host.phase = "status_out"
    BY <2>1 DEF HostOutSize
  <2>2. CASE host.phase = "data_out"
    <3>1. host.got < host.req.wLength
      BY <2>2 DEF Inv, HostAccount
    <3>2. HostOutSize = IF host.req.wLength - host.got < CtrlSize
                        THEN host.req.wLength - host.got ELSE CtrlSize
      BY <2>2 DEF HostOutSize
    <3> QED BY <1>3, <1>4, <2>2, <3>1, <3>2, CtrlSizeAssumption
  <2> QED BY <1>1, <2>1, <2>2
<1>6. /\ c' \in ControlType /\ c'.in_stall = c.in_stall /\ c'.out_nack /\ c'.out_tc
      /\ c'.in_unf = c.in_unf /\ c'.in_nack = c.in_nack /\ ~c'.in_tc
      /\ c'.out_ovf = c.out_ovf /\ c'.out_stall = c.out_stall
      /\ c'.state = c.state /\ c'.error_int = c.error_int
      /\ c'.trans = c.trans /\ c'.payload_size = c.payload_size /\ c'.in_cnt = c.in_cnt
      /\ c'.b_shortpacket = c.b_shortpacket /\ c'.prev = c.prev /\ c'.wLength = c.wLength
  BY <1>1, <1>2, <1>3, <1>5 DEF ControlType
<1>7. fifo' \in Seq({"IN", "OUT"}) /\ Queued("OUT")'
  BY <1>1, <1>3, QueuedLast
<1>8. /\ host' \in HostType /\ host'.req = host.req /\ host'.stopped = host.stopped
      /\ host'.resend = host.resend
      /\ host.phase = "status_out" => host'.phase = "done" /\ host'.got = host.got
      /\ host.phase = "data_out" =>
           /\ host'.phase \in {"data_out", "status_in"}
           /\ host'.got > 0
           /\ host'.phase = "data_out" => host'.got < host'.req.wLength
  <2>1. CASE host.phase = "status_out"
    <3>1. host' = [host EXCEPT !.phase = "done"]
      BY <2>1 DEF HostOut
    <3> QED BY <1>3, <2>1, <3>1 DEF HostType
  <2>2. CASE host.phase = "data_out"
    <3>. DEFINE got == host.got + HostOutSize
    <3>1. host' = [host EXCEPT !.got = got,
                               !.phase = IF got = host.req.wLength THEN "status_in" ELSE "data_out"]
      BY <1>3, <2>2 DEF HostOut, HostType
    <3>2. got \in Nat /\ got <= host.req.wLength /\ got > 0
      BY <1>3, <1>5, <2>2
    <3>. HIDE DEF got
    <3>3. CASE got = host.req.wLength
      <4>1. host' = [host EXCEPT !.got = got, !.phase = "status_in"]
        BY <3>1, <3>3
      <4> QED BY <1>3, <2>2, <3>2, <4>1 DEF HostType, Active
    <3>4. CASE got # host.req.wLength
      <4>1. host' = [host EXCEPT !.got = got, !.phase = "data_out"]
        BY <3>1, <3>4
      <4>2. got < host.req.wLength
        BY <1>4, <3>2, <3>4
      <4> QED BY <1>3, <2>2, <3>2, <3>4, <4>1, <4>2 DEF HostType, Active
    <3> QED BY <3>3, <3>4
  <2> QED BY <1>1, <2>1, <2>2
<1>9. TypeOK'
  BY <1>1, <1>6, <1>7, <1>8 DEF Inv, TypeOK, HostType
<1>10. Completions' /\ Stage(c)'
  BY <1>1, <1>2, <1>6, <1>7 DEF Inv, Completions, Stage
<1>11. HostAccount' /\ Naked' /\ Whole'
  <2>1. CASE host.phase = "data_out"
    <3>1. host.req.wLength # 0 /\ host.req.dir = "out" /\ ~host.resend /\ ~host.stopped
          /\ host.req \in Requests /\ ~c.in_unf
      BY <1>3, <1>4, <2>1 DEF Inv, HostAccount, Naked
    <3> QED BY <1>1, <1>3, <1>6, <1>8, <2>1, <3>1 DEF HostAccount, Naked, Whole
  <2>2. CASE host.phase = "status_out"
    <3>1. /\ host.req \in Requests
          /\ host.req.dir = "in" /\ ~host.stopped => host.got = host.req.payload
      BY <2>2 DEF Inv, HostAccount, Whole
    <3> QED BY <1>1, <1>3, <1>6, <1>8, <2>2, <3>1 DEF HostAccount, Naked, Whole
  <2> QED BY <1>1, <2>1, <2>2
<1>12. Engaged'
  <2>1. CASE host.phase = "data_out"
    <3>1. UnderWay'
      BY <1>1, <1>2, <1>6, <1>8, <2>1 DEF UnderWay, Accepted
    <3>2. Ended'
      BY <1>2, <1>6, <2>1 DEF Ended
    <3> QED BY <1>1, <1>2, <3>1, <3>2 DEF Engaged
  <2>2. CASE host.phase = "status_out"
    BY <1>2, <1>6, <1>8, <2>2 DEF Engaged, Ended, Active
  <2> QED BY <1>1, <2>1, <2>2
<1> QED BY <1>9, <1>10, <1>11, <1>12 DEF Inv
LEMMA HostStalledInv == Inv /\ HostStalled => Inv'
<1>. SUFFICES ASSUME Inv, HostStalled PROVE Inv'
  OBVIOUS
<1>1. host.phase \in Active /\ host' = [host EXCEPT !.phase = "stalled"]
      /\ UNCHANGED <<c, flags, fifo, buffer>> /\ ~flags.reset
  BY DEF HostStalled, Active, OnBus
<1>2. host \in HostType
  BY DEF Inv, TypeOK, HostType
<1>3. host' \in HostType /\ host'.phase = "stalled" /\ host'.req = host.req
  BY <1>1, <1>2 DEF HostType
<1>4. TypeOK'
  BY <1>1, <1>3 DEF Inv, TypeOK, HostType
<1>5. Completions' /\ Stage(c)'
  BY <1>1 DEF Inv, Completions, Queued
<1>6. HostAccount' /\ Naked' /\ Whole'
  BY <1>1, <1>3 DEF Inv, HostAccount, Naked, Whole, Active
<1>7. Engaged'
  BY <1>1, <1>3 DEF Inv, Engaged, Ended, Active
<1> QED BY <1>4, <1>5, <1>6, <1>7 DEF Inv

LEMMA HostStopsInv == Inv /\ HostStops => Inv'
<1>. SUFFICES ASSUME Inv, HostStops PROVE Inv'
  OBVIOUS
<1>1. /\ host.phase \in {"data_in", "data_out"} /\ ~flags.reset
      /\ host' = [host EXCEPT !.phase = IF @ = "data_in" THEN "status_out" ELSE "status_in",
                              !.resend = FALSE, !.stopped = TRUE]
      /\ UNCHANGED <<c, flags, fifo, buffer>>
  BY DEF HostStops, OnBus
<1>2. host \in HostType
  BY DEF Inv, TypeOK, HostType
<1>3. /\ host' \in HostType /\ host'.req = host.req /\ host'.got = host.got
      /\ ~host'.resend /\ host'.stopped
      /\ host.phase = "data_in" => host'.phase = "status_out"
      /\ host.phase = "data_out" => host'.phase = "status_in"
  BY <1>1, <1>2 DEF HostType, Active
<1>4. TypeOK'
  BY <1>1, <1>3 DEF Inv, TypeOK, HostType
<1>5. Completions' /\ Stage(c)'
  BY <1>1 DEF Inv, Completions, Queued
<1>6. HostAccount' /\ Naked' /\ Whole'
  <2>1. host.req.wLength \in Nat /\ host.got \in Nat
    BY <1>2, RequestType DEF HostType
  <2>2. host.phase = "data_out" => host.req.wLength # 0
    BY <2>1 DEF Inv, HostAccount
  <2> QED BY <1>1, <1>3, <2>2 DEF Inv, HostAccount, Naked, Whole
<1>7. UnderWay => UnderWay'
  BY <1>1, <1>3 DEF UnderWay, Accepted
<1>8. Waiting => Waiting'
  BY <1>1, <1>3 DEF Waiting
<1>9. Engaged'
  BY <1>1, <1>3, <1>7, <1>8 DEF Inv, Engaged, Ended, Active
<1> QED BY <1>4, <1>5, <1>6, <1>9 DEF Inv

LEMMA HostResetInv == Inv /\ HostReset => Inv'
<1>. SUFFICES ASSUME Inv, HostReset PROVE Inv'
  OBVIOUS
<1>1. flags \in Pending
  BY FlagsType DEF Inv
<1>2. flags' = [flags EXCEPT !.reset = TRUE] /\ host' = NoTransfer /\ UNCHANGED <<c, fifo, buffer>>
  BY DEF HostReset
<1>3. flags' \in Pending /\ flags'.setup = flags.setup /\ flags'.reset
  BY <1>1, <1>2 DEF Pending
<1>4. TypeOK'
  BY <1>2, <1>3 DEF Inv, TypeOK, Pending, NoTransfer
<1>5. Completions' /\ Stage(c)'
  BY <1>2, <1>3 DEF Inv, Completions, Queued
<1>6. HostAccount' /\ Naked' /\ Whole' /\ Engaged'
  BY <1>2, <1>3 DEF HostAccount, Naked, Whole, Engaged, NoTransfer, Active
<1> QED BY <1>4, <1>5, <1>6 DEF Inv

LEMMA ReportNakedInv == Inv /\ ReportNaked => Inv'
<1>. SUFFICES ASSUME Inv, ReportNaked PROVE Inv'
  OBVIOUS
<1>1. flags \in Pending
  BY FlagsType DEF Inv
<1>2. flags' = [flags EXCEPT !.underflow = TRUE] /\ ReportPolled
      /\ UNCHANGED <<c, fifo, buffer, host>>
  BY DEF ReportNaked
<1>3. flags' \in Pending /\ flags'.setup = flags.setup /\ flags'.reset = flags.reset
      /\ flags'.overflow = flags.overflow
  BY <1>1, <1>2 DEF Pending
<1>4. TypeOK'
  BY <1>2, <1>3 DEF Inv, TypeOK, Pending
<1>5. Completions' /\ Stage(c)'
  BY <1>2, <1>3 DEF Inv, Completions, Queued
<1>6. HostAccount' /\ Naked' /\ Whole'
  BY <1>2, <1>3 DEF Inv, HostAccount, Naked, Whole
<1>7. UnderWay => UnderWay'
  BY <1>2, <1>3 DEF UnderWay, Accepted
<1>8. Engaged'
  BY <1>2, <1>3, <1>7 DEF Inv, Engaged, Ended, Waiting
<1> QED BY <1>4, <1>5, <1>6, <1>8 DEF Inv

LEMMA StutterInv == Inv /\ UNCHANGED vars => Inv'
<1>. SUFFICES ASSUME Inv, UNCHANGED vars PROVE Inv'
  OBVIOUS
<1>1. UNCHANGED <<c, flags, fifo, buffer, host>>
  BY DEF vars
<1>2. TypeOK' /\ Completions' /\ Stage(c)'
  BY <1>1 DEF Inv, TypeOK, Completions, Queued
<1>3. HostAccount' /\ Naked' /\ Whole'
  BY <1>1 DEF Inv, HostAccount, Naked, Whole
<1>4. UnderWay => UnderWay'
  BY <1>1 DEF UnderWay, Accepted
<1>5. Engaged'
  BY <1>1, <1>4 DEF Inv, Engaged, Ended, Waiting
<1> QED BY <1>2, <1>3, <1>5 DEF Inv

LEMMA StepInv == Inv /\ [Next]_vars => Inv'
<1>. SUFFICES ASSUME Inv, [Next]_vars PROVE Inv'
  OBVIOUS
<1>1. CASE Isr
  BY <1>1, UnderflowInv, OverflowInv, ResetInv, TransferInv, SetupInv DEF Isr
<1>2. CASE HostTokens
  BY <1>2, InNakedInv, HostInInv, OutNakedInv, HostOutInv, HostStalledInv DEF HostTokens
<1>3. CASE HostIn(FALSE) \/ HostStops \/ HostReset \/ ReportNaked
  BY <1>3, HostInInv, HostStopsInv, HostResetInv, ReportNakedInv
<1>4. CASE \E r \in Requests : HostSetup(r)
  BY <1>4, HostSetupInv
<1>5. CASE UNCHANGED vars
  BY <1>5, StutterInv
<1> QED BY <1>1, <1>2, <1>3, <1>4, <1>5 DEF Next

LEMMA SpecInv == Spec => []Inv
BY InitInv, StepInv, PTL DEF Spec

-----------------------------------------------------------------------------
(***************************************************************************)
(* The theorems.                                                           *)
(***************************************************************************)
\* Every variable keeps its type: the counters of a transfer never go below
\* zero, for any packet size and any requests.
THEOREM TypeCorrect == Spec => []TypeOK
BY SpecInv, PTL DEF Inv

\* udd_ctrl_payload_nb_trans is where the next packet of the payload starts,
\* whatever handshakes were lost and in whatever order the interrupts came.
THEOREM DataStaysInOrder == Spec => []DataInOrder
<1>1. Inv => DataInOrder
  <2>. SUFFICES ASSUME Inv, c.state = "DATA_IN", host.phase = "data_in", ~flags.setup
                PROVE  c.trans = host.got + IF c.in_nack \/ host.resend THEN 0 ELSE c.in_cnt
    BY DEF DataInOrder
  <2>1. UnderWay
    BY DEF Inv, Engaged, Active
  <2> QED BY <2>1 DEF UnderWay
<1> QED BY <1>1, SpecInv, PTL

\* A host that has been through an IN request it did not cut short has the whole
\* payload.
THEOREM PayloadIsWhole == Spec => []WholePayload
<1>1. Inv => WholePayload
  BY DEF Inv, Whole, WholePayload
<1> QED BY <1>1, SpecInv, PTL

\* The assertions of udd_ctrl_in_sent and udd_ctrl_out_received hold.
THEOREM CompletionBelongs == Spec => CompletionExpected
<1>1. Inv /\ [Next]_vars =>
        [TransferIsr =>
          /\ Head(fifo) = "IN" /\ c.in_tc => c.state \in {"DATA_IN", "HANDSHAKE_WAIT_IN_ZLP"}
          /\ Head(fifo) = "OUT" /\ c.out_tc =>
               c.state \in {"DATA_OUT", "HANDSHAKE_WAIT_OUT_ZLP"}]_vars
  BY DEF Inv, Completions
<1> QED BY <1>1, SpecInv, PTL DEF Spec, CompletionExpected

\* A request ends on a completion only after the host's status stage.
THEOREM EndedByStatusStage == Spec => EndsAfterStatusStage
<1>1. Inv /\ [Next]_vars =>
        [TransferIsr /\ c.state # "SETUP" /\ c'.state = "SETUP" => host.phase = "done"]_vars
  <2>. SUFFICES ASSUME Inv, TransferIsr, c.state # "SETUP", c'.state = "SETUP"
                PROVE  host.phase = "done"
    OBVIOUS
  <2>1. ~BusEvent /\ c \in ControlType /\ ~flags.reset
    BY DEF TransferIsr, BusEvent, Inv, TypeOK
  <2>2. Ended
    BY <2>1 DEF Inv, Engaged
  <2>3. CASE Head(fifo) = "IN" /\ c.in_tc
    <3>. DEFINE d == [c EXCEPT !.in_tc = FALSE]
    <3>1. c' = InSent(d)
      BY <2>3 DEF TransferIsr
    <3>2. /\ d \in ControlType /\ Stage(d) /\ ~d.in_tc /\ ~d.out_tc /\ d.error_int
          /\ d.state = c.state
          /\ c.state \in {"DATA_IN", "HANDSHAKE_WAIT_IN_ZLP"}
      BY <2>1, <2>3 DEF ControlType, Stage, Inv, Completions
    <3>. HIDE DEF d
    <3>3. c.state = "DATA_IN" => c'.state # "SETUP"
      BY <3>1, <3>2, InSentKeeps
    <3> QED BY <2>2, <2>3, <3>2, <3>3 DEF Ended
  <2>4. CASE Head(fifo) = "OUT" /\ c.out_tc
    <3>. DEFINE d == [c EXCEPT !.out_tc = FALSE]
    <3>1. c' = OutReceived(d)
      BY <2>4 DEF TransferIsr
    <3>2. /\ d \in ControlType /\ Stage(d) /\ ~d.in_tc /\ ~d.out_tc /\ d.error_int
          /\ d.state = c.state
          /\ c.state \in {"DATA_OUT", "HANDSHAKE_WAIT_OUT_ZLP"}
      BY <2>1, <2>4 DEF ControlType, Stage, Inv, Completions
    <3>. HIDE DEF d
    <3>3. c.state = "DATA_OUT" => c'.state # "SETUP"
      BY <3>1, <3>2, OutReceivedKeeps
    <3> QED BY <2>2, <2>4, <3>2, <3>3 DEF Ended
  <2>5. CASE ~(Head(fifo) = "IN" /\ c.in_tc) /\ ~(Head(fifo) = "OUT" /\ c.out_tc)
    <3>1. fifo # <<>> /\ fifo \in Seq({"IN", "OUT"})
      BY DEF TransferIsr, Inv, TypeOK
    <3>2. Head(fifo) \in {"IN", "OUT"}
      BY <3>1
    <3>3. c' = c
      BY <2>5, <3>2 DEF TransferIsr
    <3> QED BY <3>3
  <2> QED BY <2>3, <2>4, <2>5
<1> QED BY <1>1, SpecInv, PTL DEF Spec, EndsAfterStatusStage

-----------------------------------------------------------------------------
(***************************************************************************)
(* ControlTransfer is implemented.                                         *)
(***************************************************************************)
LEMMA InitRefines == Init => Transfer!Init
BY DEF Init, Transfer!Init, SeenByHost, NoTransfer, Transfer!NoTransfer, NoRequest,
       Transfer!NoRequest

LEMMA HostSetupRefines ==
  ASSUME NEW r \in Requests, HostSetup(r) PROVE Transfer!Next
<1>1. host' = [phase |-> FirstPhase(r), req |-> r, got |-> 0, resend |-> FALSE,
               stopped |-> FALSE]
  BY DEF HostSetup
<1>2. (IF FirstPhase(r) \in {"status_in", "status_out"} THEN "status" ELSE FirstPhase(r))
      = Transfer!FirstPhase(r)
  BY DEF FirstPhase, Transfer!FirstPhase
<1>3. Transfer!Start(r)
  BY <1>1, <1>2 DEF Transfer!Start, SeenByHost
<1> QED BY <1>3 DEF Transfer!Next

\* The device offers the next packet of the payload.
LEMMA PacketOffered ==
  ASSUME Inv, OnBus, host.phase = "data_in", ~host.resend, ~c.in_nack, ~c.in_stall
  PROVE  c.in_cnt = Transfer!Packet
<1>1. UnderWay /\ c.state = "DATA_IN"
  BY InStage
<1>2. c.trans = host.got + c.in_cnt /\ c.payload_size = host.req.payload
  BY <1>1 DEF UnderWay
<1>3. /\ c.trans <= c.payload_size /\ c.in_cnt <= CtrlSize
      /\ c.in_cnt < CtrlSize => c.trans = c.payload_size
  BY <1>1 DEF Inv, Stage
<1>4. /\ c.trans \in Nat /\ c.in_cnt \in Nat /\ host.got \in Nat /\ c.payload_size \in Nat
  BY DEF Inv, TypeOK, ControlType
<1>5. Transfer!Packet = IF host.req.payload - host.got < CtrlSize
                        THEN host.req.payload - host.got ELSE CtrlSize
  BY DEF Transfer!Packet, SeenByHost
<1> QED BY <1>2, <1>3, <1>4, <1>5, CtrlSizeAssumption

\* A packet moves the host's transfer on, and so does its decision to stop.
View(p, r, g, s) == [phase |-> p, req |-> r, got |-> g, stopped |-> s]
Moved(v, n, q) == [v EXCEPT !.got = n, !.phase = q]
CutShort(v, t) == [v EXCEPT !.phase = "status", !.stopped = t]

LEMMA ViewMoved ==
  ASSUME NEW p, NEW r, NEW g, NEW s, NEW q, NEW n
  PROVE  Moved(View(p, r, g, s), n, q) = View(q, r, n, s)
<1>. DEFINE v == View(p, r, g, s)
<1>1. [v EXCEPT !.got = n] = View(p, r, n, s)
  BY DEF View
<1>2. [v EXCEPT !.got = n, !.phase = q] = [[v EXCEPT !.got = n] EXCEPT !.phase = q]
  OBVIOUS
<1>3. [View(p, r, n, s) EXCEPT !.phase = q] = View(q, r, n, s)
  BY DEF View
<1> QED BY <1>1, <1>2, <1>3 DEF Moved

LEMMA ViewCutShort ==
  ASSUME NEW p, NEW r, NEW g, NEW s, NEW t
  PROVE  CutShort(View(p, r, g, s), t) = View("status", r, g, t)
<1>. DEFINE v == View(p, r, g, s)
<1>1. [v EXCEPT !.phase = "status"] = View("status", r, g, s)
  BY DEF View
<1>2. [v EXCEPT !.phase = "status", !.stopped = t]
      = [[v EXCEPT !.phase = "status"] EXCEPT !.stopped = t]
  OBVIOUS
<1>3. [View("status", r, g, s) EXCEPT !.stopped = t] = View("status", r, g, t)
  BY DEF View
<1> QED BY <1>1, <1>2, <1>3 DEF CutShort

LEMMA HostInRefines ==
  ASSUME Inv, NEW acked \in BOOLEAN, HostIn(acked)
  PROVE  Transfer!Next \/ UNCHANGED SeenByHost
<1>. DEFINE n == c.in_cnt
<1>1. /\ OnBus /\ host.phase \in {"data_in", "status_in"} /\ ~c.in_nack /\ ~c.in_stall
      /\ host' = [IF host.resend THEN host ELSE HostTakes(n) EXCEPT !.resend = ~acked]
  BY DEF HostIn
<1>2. /\ host.req.accept
      /\ host.phase = "status_in" => n = 0 /\ ~host.resend
  BY <1>1, InStage
<1>3. host \in HostType
  BY DEF Inv, TypeOK, HostType
<1>4. CASE host.resend
  <2>1. host' = [host EXCEPT !.resend = ~acked]
    BY <1>1, <1>4
  <2> QED BY <1>3, <2>1 DEF SeenByHost, HostType
<1>5. CASE host.phase = "status_in"
  <2>1. host' = [host EXCEPT !.phase = "done", !.resend = ~acked]
    BY <1>1, <1>2, <1>3, <1>5 DEF HostTakes, HostType
  <2>2. Transfer!Finish
    BY <1>2, <1>3, <1>5, <2>1 DEF Transfer!Finish, SeenByHost, HostType
  <2> QED BY <2>2 DEF Transfer!Next
<1>6. CASE host.phase = "data_in" /\ ~host.resend
  <2>. DEFINE ends == n < CtrlSize \/ host.got + n = host.req.wLength
  <2>1. host' = [host EXCEPT !.got = host.got + n, !.resend = ~acked,
                             !.phase = IF ends THEN "status_out" ELSE "data_in"]
    BY <1>1, <1>3, <1>6 DEF HostTakes, HostType
  <2>2. Transfer!Packet = n
    BY <1>1, <1>6, PacketOffered
  <2>3. SeenByHost' = Moved(SeenByHost, host.got + n,
                            IF ends THEN "status" ELSE "data_in")
    <3>. HIDE DEF ends
    <3>1. CASE ends
      <4>1. host' = [host EXCEPT !.got = host.got + n, !.resend = ~acked, !.phase = "status_out"]
        BY <2>1, <3>1
      <4>2. /\ host'.phase = "status_out" /\ host'.req = host.req
            /\ host'.got = host.got + n /\ host'.stopped = host.stopped
        BY <1>3, <4>1 DEF HostType
      <4>3. SeenByHost' = View("status", host.req, host.got + n, host.stopped)
        BY <4>2 DEF SeenByHost, View
      <4>4. SeenByHost = View("data_in", host.req, host.got, host.stopped)
        BY <1>6 DEF SeenByHost, View
      <4>5. Moved(SeenByHost, host.got + n, "status")
            = View("status", host.req, host.got + n, host.stopped)
        BY <4>4, ViewMoved
      <4> QED BY <3>1, <4>3, <4>5
    <3>2. CASE ~ends
      <4>1. host' = [host EXCEPT !.got = host.got + n, !.resend = ~acked, !.phase = "data_in"]
        BY <2>1, <3>2
      <4>2. /\ host'.phase = "data_in" /\ host'.req = host.req
            /\ host'.got = host.got + n /\ host'.stopped = host.stopped
        BY <1>3, <4>1 DEF HostType
      <4>3. SeenByHost' = View("data_in", host.req, host.got + n, host.stopped)
        BY <4>2 DEF SeenByHost, View
      <4>4. SeenByHost = View("data_in", host.req, host.got, host.stopped)
        BY <1>6 DEF SeenByHost, View
      <4>5. Moved(SeenByHost, host.got + n, "data_in")
            = View("data_in", host.req, host.got + n, host.stopped)
        BY <4>4, ViewMoved
      <4> QED BY <3>2, <4>3, <4>5
    <3> QED BY <3>1, <3>2
  <2>4. Transfer!DataIn
    BY <1>2, <1>6, <2>2, <2>3 DEF Transfer!DataIn, SeenByHost, Moved
  <2> QED BY <2>4 DEF Transfer!Next
<1> QED BY <1>1, <1>4, <1>5, <1>6

LEMMA HostOutRefines ==
  ASSUME Inv, HostOut PROVE Transfer!Next
<1>1. /\ OnBus /\ host.phase \in {"data_out", "status_out"} /\ ~c.out_nack /\ ~c.out_stall
  BY DEF HostOut
<1>2. host.req.accept
  BY <1>1, OutStage
<1>3. host \in HostType
  BY DEF Inv, TypeOK, HostType
<1>4. CASE host.phase = "status_out"
  <2>1. host' = [host EXCEPT !.phase = "done"]
    BY <1>4 DEF HostOut
  <2>2. Transfer!Finish
    BY <1>2, <1>3, <1>4, <2>1 DEF Transfer!Finish, SeenByHost, HostType
  <2> QED BY <2>2 DEF Transfer!Next
<1>5. CASE host.phase = "data_out"
  <2>1. host.got < host.req.wLength /\ host.got \in Nat /\ host.req.wLength \in Nat
    BY <1>3, <1>5, RequestType DEF Inv, HostAccount, HostType
  <2>2. HostOutSize \in 1..CtrlSize
    BY <1>5, <2>1, CtrlSizeAssumption DEF HostOutSize
  <2>3. host' = [host EXCEPT !.got = host.got + HostOutSize,
                             !.phase = IF host.got + HostOutSize = host.req.wLength
                                       THEN "status_in" ELSE "data_out"]
    BY <1>3, <1>5 DEF HostOut, HostType
  <2>4. SeenByHost' = Moved(SeenByHost, host.got + HostOutSize,
                            IF host.got + HostOutSize = host.req.wLength
                              THEN "status" ELSE "data_out")
    <3>1. CASE host.got + HostOutSize = host.req.wLength
      <4>1. host' = [host EXCEPT !.got = host.got + HostOutSize, !.phase = "status_in"]
        BY <2>3, <3>1
      <4>2. /\ host'.phase = "status_in" /\ host'.req = host.req
            /\ host'.got = host.got + HostOutSize /\ host'.stopped = host.stopped
        BY <1>3, <4>1 DEF HostType
      <4>3. SeenByHost' = View("status", host.req, host.got + HostOutSize, host.stopped)
        BY <4>2 DEF SeenByHost, View
      <4>4. SeenByHost = View("data_out", host.req, host.got, host.stopped)
        BY <1>5 DEF SeenByHost, View
      <4>5. Moved(SeenByHost, host.got + HostOutSize, "status")
            = View("status", host.req, host.got + HostOutSize, host.stopped)
        BY <4>4, ViewMoved
      <4> QED BY <3>1, <4>3, <4>5
    <3>2. CASE host.got + HostOutSize # host.req.wLength
      <4>1. host' = [host EXCEPT !.got = host.got + HostOutSize, !.phase = "data_out"]
        BY <2>3, <3>2
      <4>2. /\ host'.phase = "data_out" /\ host'.req = host.req
            /\ host'.got = host.got + HostOutSize /\ host'.stopped = host.stopped
        BY <1>3, <4>1 DEF HostType
      <4>3. SeenByHost' = View("data_out", host.req, host.got + HostOutSize, host.stopped)
        BY <4>2 DEF SeenByHost, View
      <4>4. SeenByHost = View("data_out", host.req, host.got, host.stopped)
        BY <1>5 DEF SeenByHost, View
      <4>5. Moved(SeenByHost, host.got + HostOutSize, "data_out")
            = View("data_out", host.req, host.got + HostOutSize, host.stopped)
        BY <4>4, ViewMoved
      <4> QED BY <3>2, <4>3, <4>5
    <3> QED BY <3>1, <3>2
  <2>5. Transfer!DataOut(HostOutSize)
    BY <1>2, <1>5, <2>2, <2>4 DEF Transfer!DataOut, SeenByHost, Moved
  <2> QED BY <2>2, <2>5 DEF Transfer!Next
<1> QED BY <1>1, <1>4, <1>5

LEMMA HostStalledRefines ==
  ASSUME Inv, HostStalled PROVE Transfer!Next
<1>1. /\ host.phase \in Active /\ (c.in_stall \/ c.out_stall)
      /\ host' = [host EXCEPT !.phase = "stalled"]
  BY DEF HostStalled, Active
<1>2. ~flags.setup
  BY <1>1 DEF Inv, Completions
<1>3. UnderWay
  BY <1>1, <1>2 DEF Inv, Engaged
<1>4. \/ ~host.req.accept \/ host.stopped
      \/ ReportPolled /\ host.phase = "status_out" /\ host.req.dir = "in"
      \/ host.phase = "data_out" /\ host.got > host.req.payload
  <2>1. CASE ReportPolled /\ c.state = "HANDSHAKE_WAIT_OUT_ZLP"
    BY <1>3, <2>1 DEF UnderWay, Accepted
  <2>2. CASE host.phase = "data_out" /\ c.state = "HANDSHAKE_WAIT_IN_ZLP"
    <3>1. host.got > 0 /\ host.req.dir = "out" /\ host.req \in Requests
      BY <1>3, <2>2 DEF UnderWay, Inv, HostAccount
    <3>2. host.req.payload = 0
      BY <3>1, RequestType
    <3> QED BY <2>2, <3>1, <3>2
  <2> QED BY <1>1, <1>3, <2>1, <2>2 DEF UnderWay
<1>5. host \in HostType
  BY DEF Inv, TypeOK, HostType
<1>6. Transfer!Stall
  BY <1>1, <1>4, <1>5
     DEF Transfer!Stall, Transfer!Active, Transfer!MayStall, SeenByHost, HostType, Active
<1> QED BY <1>6 DEF Transfer!Next

LEMMA HostStopsRefines == ASSUME Inv, HostStops PROVE Transfer!Next
<1>1. host \in HostType
  BY DEF Inv, TypeOK, HostType
<1>2. /\ host.phase \in {"data_in", "data_out"}
      /\ host' = [host EXCEPT !.phase = IF @ = "data_in" THEN "status_out" ELSE "status_in",
                              !.resend = FALSE, !.stopped = TRUE]
  BY DEF HostStops
<1>3. CASE host.phase = "data_in"
  <2>1. host' = [host EXCEPT !.phase = "status_out", !.resend = FALSE, !.stopped = TRUE]
    BY <1>1, <1>2, <1>3 DEF HostType
  <2>2. /\ host'.phase = "status_out" /\ host'.req = host.req
        /\ host'.got = host.got /\ host'.stopped
    BY <1>1, <2>1 DEF HostType
  <2>3. SeenByHost' = View("status", host.req, host.got, TRUE)
    BY <2>2, <1>1, <2>1 DEF SeenByHost, HostType, View
  <2>4. SeenByHost = View("data_in", host.req, host.got, host.stopped)
    BY <1>3 DEF SeenByHost, View
  <2>5. CutShort(SeenByHost, TRUE) = View("status", host.req, host.got, TRUE)
    <3>1. \A t : CutShort(SeenByHost, t) = View("status", host.req, host.got, t)
      BY <2>4, ViewCutShort
    <3> QED BY <3>1
  <2>6. Transfer!Stop
    BY <2>3, <2>4, <2>5 DEF Transfer!Stop, CutShort, View
  <2> QED BY <2>6 DEF Transfer!Next
<1>4. CASE host.phase = "data_out"
  <2>1. host' = [host EXCEPT !.phase = "status_in", !.resend = FALSE, !.stopped = TRUE]
    BY <1>1, <1>2, <1>4 DEF HostType
  <2>2. /\ host'.phase = "status_in" /\ host'.req = host.req
        /\ host'.got = host.got /\ host'.stopped
    BY <1>1, <2>1 DEF HostType
  <2>3. SeenByHost' = View("status", host.req, host.got, TRUE)
    BY <2>2, <1>1, <2>1 DEF SeenByHost, HostType, View
  <2>4. SeenByHost = View("data_out", host.req, host.got, host.stopped)
    BY <1>4 DEF SeenByHost, View
  <2>5. CutShort(SeenByHost, TRUE) = View("status", host.req, host.got, TRUE)
    <3>1. \A t : CutShort(SeenByHost, t) = View("status", host.req, host.got, t)
      BY <2>4, ViewCutShort
    <3> QED BY <3>1
  <2>6. Transfer!Stop
    BY <2>3, <2>4, <2>5 DEF Transfer!Stop, CutShort, View
  <2> QED BY <2>6 DEF Transfer!Next
<1> QED BY <1>2, <1>3, <1>4

LEMMA HostResetRefines == ASSUME HostReset PROVE Transfer!Next
<1>1. Transfer!Reset
  BY DEF HostReset, Transfer!Reset, SeenByHost, NoTransfer, Transfer!NoTransfer, NoRequest,
         Transfer!NoRequest
<1> QED BY <1>1 DEF Transfer!Next

\* For every size of the packets and every set of requests, with endpoint 1
\* polled or not: what the host sees is a control transfer.  It gets its data in
\* full packets closed by a short one, a refused request never succeeds, and an
\* accepted one that the host has not cut short is stalled in no other case than
\* the two that ControlTransfer names.
THEOREM TransferImplemented == Spec => ImplementsTransfer
<1>1. Inv /\ [Next]_vars => [Transfer!Next]_SeenByHost
  <2>. SUFFICES ASSUME Inv, [Next]_vars PROVE Transfer!Next \/ UNCHANGED SeenByHost
    OBVIOUS
  <2>1. CASE UNCHANGED host
    BY <2>1 DEF SeenByHost
  <2>2. CASE Isr
    BY <2>1, <2>2 DEF Isr, UnderflowIsr, OverflowIsr, ResetIsr, TransferIsr, SetupIsr
  <2>3. CASE HostTokens
    BY <2>1, <2>3, HostInRefines, HostOutRefines, HostStalledRefines
       DEF HostTokens, HostInNaked, HostOutNaked
  <2>4. CASE HostIn(FALSE) \/ HostStops \/ HostReset \/ ReportNaked
    BY <2>1, <2>4, HostInRefines, HostStopsRefines, HostResetRefines DEF ReportNaked
  <2>5. CASE \E r \in Requests : HostSetup(r)
    BY <2>5, HostSetupRefines
  <2>6. CASE UNCHANGED vars
    BY <2>1, <2>6 DEF vars
  <2> QED BY <2>2, <2>3, <2>4, <2>5, <2>6 DEF Next
<1> QED BY <1>1, InitRefines, SpecInv, PTL DEF Spec, ImplementsTransfer, Transfer!Spec
=============================================================================
