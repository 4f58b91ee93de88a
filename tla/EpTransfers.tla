---------------------------- MODULE EpTransfers ----------------------------
(***************************************************************************)
(* Jobs of any length on one bulk, interrupt or isochronous endpoint, IN   *)
(* or OUT: udd_ep_run cuts a job into hardware transfers, the hardware     *)
(* moves a transfer packet by packet, and udd_ep_trans_complet accounts    *)
(* for it and starts the next.  A job may be aborted, the endpoint halted  *)
(* or freed, and a completion be handled late, at any moment.  HidDevice   *)
(* has the IN endpoint of this program, whose jobs are one report.         *)
(*                                                                         *)
(* Bytes are told apart by their place in the job: i is its i-th byte.     *)
(***************************************************************************)
EXTENDS UsbEndpoint, FiniteSets

CONSTANTS MaxSize,  \* bound: bytes of a job
          MaxFifo   \* bound: completions waiting

\* A buffer lies in the RAM of the device, 16 KB: what a job has received, the
\* rest of its last packet included, is counted in 16 bits without wrapping.
ASSUME BoundsAssumption ==
  /\ MaxSize \in Nat /\ MaxSize + EpSize <= 65536
  /\ MaxFifo \in Nat

VARIABLES
  dir, iso,  \* the endpoint: "in" or "out", isochronous; never change
  ep,        \* its table entry and job
  cached,    \* b_use_out_cache_buffer
  link,      \* offset in the buffer the hardware points to, or ToCache
  buf,       \* the caller's buffer, and memory behind it
  cache,     \* udd_ep_out_cache_buffer
  fifo,      \* entries of the endpoint in the completion FIFO
  waits,     \* the job waits for the halt to be cleared
  zlp,       \* the caller asked for a short packet; history only
  wire,      \* the packets of this job; history only
  report,    \* what the callback of this job said; history only
  late       \* the job began while the completion of an aborted one waited;
             \* history only

hardware == <<ep, link, buf, cache, fifo>>
vars == <<dir, iso, hardware, cached, waits, zlp, wire, report, late>>

None == -1
ToCache == -1
Offset == 0..(MaxSize + EpSize - 1)
Fresh == [i \in Offset |-> None]
FreshCache == [i \in 0..(EpSize - 1) |-> None]
NoPackets == [bytes |-> 0, last |-> EpSize, inOrder |-> TRUE]
NoReport == [status |-> "none", count |-> 0]
Report(status, n) == [status |-> status, count |-> n]

Min2(a, b) == IF a < b THEN a ELSE b

-----------------------------------------------------------------------------
(***************************************************************************)
(* udd_ep_trans_complet, the OUT direction, on a buffer b.                 *)
(***************************************************************************)
\* The last bytes of a job that is not a multiple of the packet size.
Rest(e) == e.buf_size % EpSize

CopyFromCache(e, b, c) ==
  IF c THEN [i \in Offset |-> IF i \in e.nb_trans..(e.nb_trans + Rest(e) - 1)
                                THEN cache[i - e.nb_trans] ELSE b[i]]
       ELSE b

Received(e) == Min2(Word(e.nb_trans + e.cnt), e.buf_size)
OutContinues(e) == e.cnt = e.aux /\ Received(e) # e.buf_size

OutNextTransUncut(e) ==
  LET rest == e.buf_size - Received(e)
  IN  IF MaxTrans < rest THEN MaxTrans - (MaxTrans % EpSize) ELSE rest

\* Whole packets only; 0 if less than one is left.
OutNextTrans(e) ==
  LET rest == e.buf_size - Received(e)
  IN  IF MaxTrans < rest THEN MaxTrans - (MaxTrans % EpSize)
                         ELSE rest - (rest % EpSize)

OutArmed(e, n) == [e EXCEPT !.nb_trans = Received(e), !.cnt = 0, !.aux = n,
                            !.nack = FALSE]

\* c is b_use_out_cache_buffer and r the report, before.
Ended(e, n, c, r) == /\ ep' = [e EXCEPT !.nb_trans = n, !.busy = FALSE]
                     /\ report' = IF e.busy /\ ~waits THEN Report("ok", n)
                                                       ELSE r
                     /\ cached' = c
                     /\ UNCHANGED link

TransCompletOut(e, b, c, r) ==
  /\ buf' = CopyFromCache(e, b, c)
  /\ \/ /\ OutContinues(e) /\ OutNextTrans(e) < EpSize
        /\ ep' = OutArmed(e, EpSize)
        /\ link' = ToCache /\ cached' = TRUE /\ report' = r
     \/ /\ OutContinues(e) /\ OutNextTrans(e) >= EpSize
        /\ ep' = OutArmed(e, OutNextTrans(e))
        /\ link' = Received(e) /\ cached' = c /\ report' = r
     \/ ~OutContinues(e) /\ Ended(e, Received(e), c, r)

\* A ZLP leaves the pointer where it was.
TransCompletInLinked(e, b, c, r) ==
  /\ buf' = b
  /\ \/ /\ DataRemains(e) \/ e.b_shortpacket
        /\ ep' = TransCompletIn(e)
        /\ link' = IF DataRemains(e) THEN Sent(e) ELSE link
        /\ cached' = c /\ report' = r
     \/ ~DataRemains(e) /\ ~e.b_shortpacket /\ Ended(e, Sent(e), c, r)

TransComplet(e, b, c, r) == IF dir = "in" THEN TransCompletInLinked(e, b, c, r)
                                          ELSE TransCompletOut(e, b, c, r)

-----------------------------------------------------------------------------
(***************************************************************************)
(* The driver's routines.                                                  *)
(***************************************************************************)
Constant == UNCHANGED <<dir, iso>>
JobKept == UNCHANGED <<cached, link, buf, cache, zlp, wire, report, late>>

\* The caller has its buffer back, and nothing more is noted of the job.
JobForgotten ==
  /\ buf' = Fresh /\ cache' = FreshCache
  /\ zlp' = FALSE /\ wire' = NoPackets /\ report' = NoReport /\ late' = FALSE
  /\ UNCHANGED <<cached, link>>

Alloc == ~ep.enabled /\ ep' = EpAlloc(ep)
         /\ Constant /\ JobKept /\ UNCHANGED <<fifo, waits>>

\* A caller that waits for the halt to end is called as if it had a job.
Aborts(e) ==
  /\ ep.enabled /\ ep' = e
  /\ IF AbortCalls(ep) THEN JobForgotten ELSE JobKept
  /\ waits' = FALSE
  /\ Constant /\ UNCHANGED fifo

Free == Aborts(EpFree(ep))
Abort == Aborts(EpAbort(ep))
SetHalt == ~iso /\ Aborts(EpSetHalt(ep))

ClearHalt ==
  /\ ep.enabled /\ ep' = EpClearHalt(ep)
  /\ waits' = (waits /\ ~ClearHaltCalls(ep))
  /\ Constant /\ JobKept /\ UNCHANGED fifo

\* udd_ep_wait_stall_clear; if the endpoint is not halted it calls back at once
\* and changes nothing.
WaitStallClear ==
  /\ ep.enabled /\ ep.stall /\ ~ep.busy
  /\ ep' = [ep EXCEPT !.busy = TRUE] /\ waits' = TRUE
  /\ Constant /\ JobKept /\ UNCHANGED fifo

\* The caller's buffer: what it sends, or room for what it receives.
CallersBuffer(size) ==
  IF dir = "in" THEN [i \in Offset |-> IF i < size THEN i ELSE None] ELSE Fresh

OutJob(e, job) == [JobStarted(e, job) EXCEPT !.cnt = 0]

Refuses(size) == dir = "out" /\ iso /\ size % EpSize # 0

Run(size, shortpacket) ==
  LET job == [size |-> size, shortpacket |-> shortpacket]
  IN  /\ EpRunAccepts(ep) /\ ~Refuses(size)
      /\ zlp' = (shortpacket \/ size = 0)
      /\ wire' = NoPackets /\ late' = ep.trncompl
      /\ TransComplet(IF dir = "in" THEN JobStarted(ep, job) ELSE OutJob(ep, job),
                      CallersBuffer(size), FALSE, NoReport)
      /\ cache' = FreshCache
      /\ Constant /\ UNCHANGED <<fifo, waits>>

\* An isochronous job that is not whole packets is refused when it is already
\* registered: busy is cleared, the rest of the job stays, and the endpoint's
\* counters still count the job before.
RunRefused(size, shortpacket) ==
  /\ EpRunAccepts(ep) /\ Refuses(size)
  /\ ep' = [ep EXCEPT !.buf_size = size, !.nb_trans = 0,
                      !.b_shortpacket = shortpacket \/ size = 0]
  /\ cached' = FALSE /\ buf' = Fresh /\ cache' = FreshCache
  /\ zlp' = FALSE /\ wire' = NoPackets /\ report' = NoReport /\ late' = FALSE
  /\ Constant /\ UNCHANGED <<fifo, waits, link>>

\* The interrupt takes one entry of the FIFO; it does nothing if the completion
\* was handled or forgotten since.  It does not look at what kind of job there
\* is, or whether there is one.
Interrupt ==
  /\ fifo > 0 /\ fifo' = fifo - 1
  /\ IF ep.trncompl THEN TransComplet(EpAckTc(ep), buf, cached, report)
                    ELSE UNCHANGED <<ep, link, buf, cached, report>>
  /\ waits' = (waits /\ ep'.busy)
  /\ Constant /\ UNCHANGED <<cache, zlp, wire, late>>

-----------------------------------------------------------------------------
(***************************************************************************)
(* The hardware and the host.                                              *)
(***************************************************************************)
\* A transfer ends with a short packet or with its last byte.
AfterPacket(e, moved, n, all) ==
  IF n < EpSize \/ moved >= all
    THEN [e EXCEPT !.trncompl = TRUE, !.nack = TRUE] ELSE e

\* What moves while there is no job is not the job's.
Seen(n, inOrder) ==
  wire' = IF ~ep.busy THEN wire ELSE [bytes |-> wire.bytes + n, last |-> n,
           inOrder |-> wire.inOrder /\ inOrder]

Signalled == IF ep'.trncompl /\ ~ep.nack /\ ep'.nack
               THEN fifo < MaxFifo /\ fifo' = fifo + 1 ELSE UNCHANGED fifo

\* The next packet of the job goes out from where it should, and not after one
\* that told the host that the job is over.
InPacket ==
  /\ dir = "in" /\ EpAnswers(ep)
  /\ LET n == Min2(EpSize, ep.cnt - ep.aux)
     IN  /\ ep' = AfterPacket([ep EXCEPT !.aux = @ + n], ep.aux + n, n, ep.cnt)
         /\ Seen(n, /\ n > 0 => link + ep.aux = wire.bytes
                    /\ wire.last = EpSize
                    /\ wire.bytes + n <= ep.buf_size)
  /\ Signalled
  /\ Constant /\ UNCHANGED <<link, buf, cache, cached, waits, zlp, report, late>>

OutPacket(n) ==
  /\ dir = "out" /\ EpAnswers(ep)
  /\ ep' = AfterPacket([ep EXCEPT !.cnt = @ + n], ep.cnt + n, n, ep.aux)
  /\ IF ~ep.busy THEN UNCHANGED <<buf, cache>>
     ELSE IF link = ToCache
       THEN /\ cache' = [i \in DOMAIN cache |->
                          IF i < n THEN wire.bytes + i ELSE cache[i]]
            /\ UNCHANGED buf
       ELSE /\ buf' = [i \in Offset |->
                        IF i \in (link + ep.cnt)..(link + ep.cnt + n - 1)
                          THEN wire.bytes + (i - link - ep.cnt) ELSE buf[i]]
            /\ UNCHANGED cache
  /\ Seen(n, TRUE)
  /\ Signalled
  /\ Constant /\ UNCHANGED <<link, cached, waits, zlp, report, late>>

-----------------------------------------------------------------------------
Init ==
  /\ dir \in {"in", "out"} /\ iso \in BOOLEAN
  /\ ep = EpOff /\ cached = FALSE /\ link = 0
  /\ buf = Fresh /\ cache = FreshCache /\ fifo = 0 /\ waits = FALSE
  /\ zlp = FALSE /\ wire = NoPackets /\ report = NoReport /\ late = FALSE

Next ==
  \/ Alloc \/ Free \/ Abort \/ SetHalt \/ ClearHalt \/ WaitStallClear
  \/ \E size \in 0..MaxSize, shortpacket \in BOOLEAN :
       Run(size, shortpacket) \/ RunRefused(size, shortpacket)
  \/ Interrupt \/ InPacket
  \/ \E n \in 0..EpSize : OutPacket(n)

Spec == Init /\ [][Next]_vars

-----------------------------------------------------------------------------
(***************************************************************************)
(* Properties                                                              *)
(***************************************************************************)
\* When an IN job is reported complete the host has had all its bytes, once and
\* in order, and a packet shorter than full ended it if and only if the caller
\* asked for one or the size makes it so; never does the hardware send for a job
\* a byte that is not the caller's.  A job started while the completion of an
\* aborted one waits (late) may take it for its own.
InJobWhole ==
  dir = "in" =>
    /\ wire.inOrder
    /\ (report.status = "ok" /\ ~late) =>
         /\ report.count = ep.buf_size /\ wire.bytes = ep.buf_size
         /\ (wire.last < EpSize) <=> (zlp \/ ep.buf_size % EpSize # 0)

\* An OUT job never writes past the caller's buffer, whatever the host sends;
\* complete, it has the bytes the host sent, in order, up to the short packet
\* that ended it or to the size of the buffer, with the same exception.
OutJobHoldsStream ==
  dir = "out" =>
    /\ \A i \in Offset : i >= ep.buf_size => buf[i] = None
    /\ (report.status = "ok" /\ ~late) =>
         /\ report.count = Min2(wire.bytes, ep.buf_size)
         /\ report.count = ep.buf_size \/ wire.last < EpSize
         /\ \A i \in 0..(report.count - 1) : buf[i] = i

\* udd_ep_abort "stops" a transfer and udd_ep_run calls back when it "is
\* finished": the hardware then does not move data for the caller any more.
NoTransferWithoutJob == EpAnswers(ep) => ep.busy
=============================================================================
