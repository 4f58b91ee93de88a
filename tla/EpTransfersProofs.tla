------------------------- MODULE EpTransfersProofs -------------------------
(***************************************************************************)
(* Jobs of any length on one endpoint, for every packet size and every     *)
(* size of a hardware transfer.                                            *)
(*                                                                         *)
(* The measure is the place in the job: what udd_ep_trans_complet has      *)
(* accounted for and what the counters of the endpoint add to it are the   *)
(* bytes the host has seen.  Once a job has ended nothing touches its      *)
(* account, and a buffer is written again only by a completion that still  *)
(* waits; KeptOut says that there is none after a job that received.       *)
(***************************************************************************)
EXTENDS EpTransfers, TLAPS

-----------------------------------------------------------------------------
Slot == 0..(EpSize - 1)
Packets == [bytes : Nat, last : Nat, inOrder : BOOLEAN]
Reported == [status : {"none", "ok"}, count : Nat]

Typed ==
  /\ dir \in {"in", "out"} /\ iso \in BOOLEAN
  /\ ep \in EndpointType /\ ep.buf_size <= MaxSize
  /\ cached \in BOOLEAN /\ link \in Int
  /\ buf \in [Offset -> Int] /\ cache \in [Slot -> Int]
  /\ fifo \in Nat /\ waits \in BOOLEAN /\ zlp \in BOOLEAN
  /\ wire \in Packets /\ wire.last <= EpSize
  /\ report \in Reported /\ late \in BOOLEAN

\* A job that waits for the end of a halt is one on a halted endpoint.
Registration ==
  /\ ep.busy => ep.enabled
  /\ waits <=> ep.busy /\ ep.stall
  /\ dir = "in" /\ ~ep.nack => ep.aux <= ep.cnt

\* A job that moves data.
Working(e) == e.busy /\ ~e.stall

InUnderWay ==
  /\ ep.nb_trans % EpSize = 0
  /\ ep.nb_trans + ep.aux = wire.bytes
  /\ ep.aux <= ep.cnt
  /\ ep.nb_trans + ep.cnt <= ep.buf_size
  /\ ep.cnt > 0 => link = ep.nb_trans
  /\ ep.cnt = 0 => ep.nb_trans = ep.buf_size /\ zlp /\ ~ep.b_shortpacket
  /\ ep.cnt % EpSize # 0 =>
       ep.nb_trans + ep.cnt = ep.buf_size /\ ~ep.b_shortpacket
  /\ ep.b_shortpacket => zlp
  /\ zlp /\ ep.buf_size % EpSize = 0 => ep.b_shortpacket \/ ep.cnt = 0
  /\ ~ep.nack => /\ ep.aux % EpSize = 0
                 /\ ep.aux < ep.cnt \/ ep.cnt = 0
                 /\ wire.last = EpSize
                 /\ ep.trncompl => late
  /\ ep.nack => /\ ep.trncompl /\ ep.aux = ep.cnt
                /\ wire.last < EpSize <=> ep.cnt = 0 \/ ep.cnt % EpSize # 0

\* The hardware writes the caller's buffer, or the cache for the rest of it.
ToBuffer ==
  /\ link = ep.nb_trans /\ ~cached
  /\ ep.aux % EpSize = 0 /\ ep.aux > 0 /\ ep.nb_trans + ep.aux <= ep.buf_size
  /\ cache = FreshCache
  /\ buf = [i \in Offset |-> IF i < ep.nb_trans + ep.cnt THEN i ELSE None]

ToCacheBuffer ==
  /\ link = ToCache /\ cached
  /\ ep.aux = EpSize
  /\ ep.nb_trans < ep.buf_size /\ ep.nb_trans + Rest(ep) = ep.buf_size
  /\ cache = [i \in Slot |-> IF i < ep.cnt THEN ep.nb_trans + i ELSE None]
  /\ buf = [i \in Offset |-> IF i < ep.nb_trans THEN i ELSE None]

OutUnderWay ==
  /\ ep.nb_trans % EpSize = 0
  /\ ep.nb_trans + ep.cnt = wire.bytes
  /\ ep.cnt <= ep.aux
  /\ ToBuffer \/ ToCacheBuffer
  /\ ~ep.nack => /\ ep.cnt % EpSize = 0 /\ ep.cnt < ep.aux
                 /\ wire.last = EpSize
                 /\ ep.trncompl => late
  /\ ep.nack => ep.trncompl /\ (ep.cnt < ep.aux <=> wire.last < EpSize)

UnderWay ==
  Working(ep) => /\ report = NoReport
                 /\ dir = "in" => InUnderWay
                 /\ dir = "out" => OutUnderWay

\* No completion waits, and none will come before the next job.
Quiet == ep.nack /\ ~ep.trncompl

KeptOut ==
  dir = "out" /\ ~Working(ep) =>
    /\ cache = FreshCache \/ Quiet
    /\ report.status = "ok" /\ ~late => ep.buf_size = 0 \/ Quiet

Inv == Typed /\ Registration /\ UnderWay /\ KeptOut /\ InJobWhole /\ OutJobHoldsStream

-----------------------------------------------------------------------------
(***************************************************************************)
(* Whole packets: multiples of the packet size.                            *)
(***************************************************************************)
LEMMA Division ==
  \A n \in Nat : /\ n \div EpSize \in Nat /\ n % EpSize \in Slot
                 /\ n = (EpSize * (n \div EpSize)) + (n % EpSize)
BY EpSizeAssumption DEF Slot

LEMMA Remainder ==
  \A q \in Nat, r \in Slot : (EpSize * q + r) % EpSize = r
BY EpSizeAssumption DEF Slot

\* Whole packets in front do not change the rest.
LEMMA WholeInFront ==
  ASSUME NEW a \in Nat, NEW b \in Nat, a % EpSize = 0
  PROVE  (a + b) % EpSize = b % EpSize
<1> DEFINE p == a \div EpSize
           q == b \div EpSize
           r == b % EpSize
<1>1. /\ p \in Nat /\ q \in Nat /\ r \in Slot
      /\ a = EpSize * p /\ b = (EpSize * q) + r
  BY Division, EpSizeAssumption
<1>2. p + q \in Nat /\ (EpSize * (p + q) + r) % EpSize = r
  BY <1>1, Remainder
<1> HIDE DEF p, q, r
<1>3. a + b = EpSize * (p + q) + r
  BY <1>1, EpSizeAssumption DEF Slot
<1>4. (a + b) % EpSize = r
  BY <1>2, <1>3
<1> QED BY <1>4 DEF r

LEMMA WholePlusOne ==
  ASSUME NEW a \in Nat, a % EpSize = 0
  PROVE  (a + EpSize) % EpSize = 0
<1>1. EpSize % EpSize = 0
  BY EpSizeAssumption
<1> QED BY <1>1, WholeInFront, EpSizeAssumption

\* Between two numbers of whole packets there is at least one packet.
LEMMA NextWhole ==
  ASSUME NEW a \in Nat, NEW b \in Nat, a % EpSize = 0, b % EpSize = 0, a < b
  PROVE  a + EpSize <= b
<1> DEFINE p == a \div EpSize
           q == b \div EpSize
<1>1. p \in Nat /\ q \in Nat /\ a = EpSize * p /\ b = EpSize * q
  BY Division, EpSizeAssumption
<1> HIDE DEF p, q
<1>2. p < q
  BY <1>1, EpSizeAssumption
<1>3. EpSize * (p + 1) <= EpSize * q
  BY <1>1, <1>2, EpSizeAssumption
<1> QED BY <1>1, <1>3, EpSizeAssumption

LEMMA LessThanPacket ==
  /\ \A n \in Nat : n < EpSize => n % EpSize = n
  /\ \A n \in Nat : n % EpSize = 0 /\ n < EpSize => n = 0
BY EpSizeAssumption

\* Cutting off the rest leaves whole packets.
LEMMA CutToWhole ==
  ASSUME NEW n \in Nat
  PROVE  /\ n - (n % EpSize) \in 0..n
         /\ (n - (n % EpSize)) % EpSize = 0
         /\ n >= EpSize => n - (n % EpSize) > 0
<1> DEFINE q == n \div EpSize
           r == n % EpSize
<1>1. q \in Nat /\ r \in Slot /\ n = (EpSize * q) + r
  BY Division
<1>2. (EpSize * q + 0) % EpSize = 0
  BY <1>1, Remainder, EpSizeAssumption DEF Slot
<1> HIDE DEF q
<1>3. n - r = EpSize * q + 0 /\ n - r \in 0..n
  BY <1>1, EpSizeAssumption DEF Slot
<1>4. n >= EpSize => n - r > 0
  BY <1>1, EpSizeAssumption DEF Slot
<1> QED BY <1>2, <1>3, <1>4 DEF r

LEMMA WordType == \A n \in Int : Word(n) \in Nat
BY DEF Word

LEMMA WordExact == \A n \in Nat : n <= 65535 => Word(n) = n
BY DEF Word

\* The largest transfer of whole packets.
LEMMA LargestTransfer ==
  LET n == MaxTrans - (MaxTrans % EpSize)
  IN  n \in 1..MaxTrans /\ n % EpSize = 0 /\ n >= EpSize
<1> DEFINE n == MaxTrans - (MaxTrans % EpSize)
<1>1. MaxTrans \in Nat /\ MaxTrans >= EpSize
  BY MaxTransAssumption, EpSizeAssumption
<1>2. n \in 0..MaxTrans /\ n % EpSize = 0 /\ n > 0
  BY <1>1, CutToWhole
<1> HIDE DEF n
<1>3. n >= EpSize
  BY <1>1, <1>2, LessThanPacket, EpSizeAssumption
<1> QED BY <1>1, <1>2, <1>3 DEF n

-----------------------------------------------------------------------------
(***************************************************************************)
(* udd_ep_trans_complet, the IN direction.                                 *)
(***************************************************************************)
LEMMA EndpointFields ==
  ASSUME NEW e \in EndpointType
  PROVE  /\ e.enabled \in BOOLEAN /\ e.stall \in BOOLEAN /\ e.nack \in BOOLEAN
         /\ e.trncompl \in BOOLEAN /\ e.busy \in BOOLEAN
         /\ e.b_shortpacket \in BOOLEAN
         /\ e.cnt \in Nat /\ e.aux \in Nat /\ e.buf_size \in Nat /\ e.nb_trans \in Nat
BY DEF EndpointType

LEMMA NextTransType ==
  ASSUME NEW e \in EndpointType
  PROVE  Sent(e) \in Nat /\ NextTrans(e) \in Nat
<1>1. Sent(e) \in Nat
  BY EndpointFields, WordType DEF Sent
<1>2. Word(e.buf_size - Sent(e)) \in Nat
  BY <1>1, EndpointFields, WordType
<1> QED BY <1>1, <1>2, LargestTransfer DEF NextTrans

\* What it leaves alone, and its three outcomes.
LEMMA InFields ==
  ASSUME NEW e \in EndpointType
  PROVE  LET f == TransCompletIn(e)
         IN  /\ f \in EndpointType
             /\ f.enabled = e.enabled /\ f.stall = e.stall
             /\ f.trncompl = e.trncompl /\ f.buf_size = e.buf_size
             /\ f.nb_trans = Sent(e)
             /\ DataRemains(e) =>
                  /\ f.cnt = NextTrans(e) /\ f.aux = 0 /\ f.nack = FALSE /\ f.busy = e.busy
                  /\ f.b_shortpacket = (e.b_shortpacket /\ NextTrans(e) % EpSize = 0)
             /\ ~DataRemains(e) /\ e.b_shortpacket =>
                  /\ f.cnt = 0 /\ f.aux = 0 /\ f.nack = FALSE /\ f.busy = e.busy
                  /\ f.b_shortpacket = FALSE
             /\ ~DataRemains(e) /\ ~e.b_shortpacket =>
                  /\ f = [e EXCEPT !.nb_trans = Sent(e), !.busy = FALSE]
                  /\ f.cnt = e.cnt /\ f.aux = e.aux /\ f.nack = e.nack /\ f.busy = FALSE
<1> DEFINE f == TransCompletIn(e)
<1>1. CASE DataRemains(e)
  <2> DEFINE full == e.b_shortpacket /\ NextTrans(e) % EpSize = 0
             n == NextTrans(e)
             sent == Sent(e)
  <2>1. f = [e EXCEPT !.nb_trans = sent, !.aux = 0, !.cnt = n, !.nack = FALSE,
                      !.b_shortpacket = full]
    BY <1>1 DEF TransCompletIn, Armed, Accounted, EndpointType
  <2>2. full \in BOOLEAN /\ n \in Nat /\ sent \in Nat
    BY NextTransType
  <2> HIDE DEF full, n, sent, f
  <2>3. /\ f \in EndpointType
        /\ f.enabled = e.enabled /\ f.stall = e.stall /\ f.trncompl = e.trncompl
        /\ f.busy = e.busy /\ f.buf_size = e.buf_size /\ f.nb_trans = sent
        /\ f.cnt = n /\ f.aux = 0 /\ f.nack = FALSE /\ f.b_shortpacket = full
    BY <2>1, <2>2 DEF EndpointType
  <2> QED BY <1>1, <2>3 DEF full, n, sent, f
<1>2. CASE ~DataRemains(e) /\ e.b_shortpacket
  <2> DEFINE sent == Sent(e)
  <2>1. f = [e EXCEPT !.nb_trans = sent, !.aux = 0, !.cnt = 0, !.nack = FALSE,
                      !.b_shortpacket = FALSE]
    BY <1>2 DEF TransCompletIn, Armed, Accounted, EndpointType
  <2>2. sent \in Nat
    BY NextTransType
  <2> HIDE DEF sent, f
  <2>3. /\ f \in EndpointType
        /\ f.enabled = e.enabled /\ f.stall = e.stall /\ f.trncompl = e.trncompl
        /\ f.busy = e.busy /\ f.buf_size = e.buf_size /\ f.nb_trans = sent
        /\ f.cnt = 0 /\ f.aux = 0 /\ f.nack = FALSE /\ f.b_shortpacket = FALSE
    BY <2>1, <2>2 DEF EndpointType
  <2> QED BY <1>2, <2>3 DEF sent, f
<1>3. CASE ~DataRemains(e) /\ ~e.b_shortpacket
  <2>1. TransCompletIn(e) = [e EXCEPT !.nb_trans = Sent(e), !.busy = FALSE]
    BY <1>3 DEF TransCompletIn, Accounted, EndpointType
  <2> QED BY <1>3, <2>1, NextTransType DEF EndpointType
<1> QED BY <1>1, <1>2, <1>3

\* The length of the next transfer, when whole packets have been sent: something
\* of what is left, and whole packets unless it is all that is left.
LEMMA InNext ==
  ASSUME NEW e \in EndpointType, e.buf_size <= 65535,
         e.nb_trans + e.aux <= e.buf_size
  PROVE  /\ Sent(e) = e.nb_trans + e.aux
         /\ DataRemains(e) =>
              /\ NextTrans(e) > 0 /\ Sent(e) + NextTrans(e) <= e.buf_size
              /\ NextTrans(e) % EpSize # 0 => Sent(e) + NextTrans(e) = e.buf_size
<1>1. /\ e.nb_trans \in Nat /\ e.aux \in Nat /\ e.buf_size \in Nat
      /\ e.nb_trans + e.aux \in Nat
      /\ e.nb_trans + e.aux <= 65535
  BY EndpointFields
<1>2. Sent(e) = e.nb_trans + e.aux
  BY <1>1, WordExact DEF Sent
<1>3. ASSUME DataRemains(e)
      PROVE  /\ NextTrans(e) > 0 /\ Sent(e) + NextTrans(e) <= e.buf_size
             /\ NextTrans(e) % EpSize # 0 => Sent(e) + NextTrans(e) = e.buf_size
  <2> DEFINE rest == e.buf_size - Sent(e)
             largest == MaxTrans - (MaxTrans % EpSize)
  <2>1. rest \in Nat /\ rest > 0 /\ rest <= 65535 /\ Sent(e) + rest = e.buf_size
    BY <1>1, <1>2, <1>3 DEF DataRemains
  <2>2. Word(rest) = rest
    BY <2>1, WordExact
  <2>3. NextTrans(e) = IF MaxTrans < rest THEN largest ELSE rest
    BY <2>2 DEF NextTrans
  <2>4. /\ largest \in Nat /\ largest > 0 /\ largest <= MaxTrans
        /\ largest % EpSize = 0 /\ MaxTrans \in Nat
    BY LargestTransfer, MaxTransAssumption, EpSizeAssumption
  <2> HIDE DEF rest, largest
  <2>5. /\ NextTrans(e) \in Nat /\ NextTrans(e) > 0 /\ NextTrans(e) <= rest
        /\ NextTrans(e) % EpSize # 0 => NextTrans(e) = rest
    BY <2>1, <2>3, <2>4
  <2> QED BY <1>1, <1>2, <2>1, <2>5
<1> QED BY <1>2, <1>3

\* With the primes of a step: c is b_use_out_cache_buffer, r the report before.
LEMMA InCompletion ==
  ASSUME NEW e \in EndpointType, NEW b, NEW c, NEW r, dir = "in",
         TransComplet(e, b, c, r)
  PROVE  /\ ep' = TransCompletIn(e) /\ buf' = b /\ cached' = c
         /\ link' = IF DataRemains(e) THEN Sent(e) ELSE link
         /\ report' = IF ~DataRemains(e) /\ ~e.b_shortpacket /\ e.busy /\ ~waits
                        THEN Report("ok", Sent(e)) ELSE r
<1>1. TransCompletInLinked(e, b, c, r)
  BY DEF TransComplet
<1> QED BY <1>1, InFields DEF TransCompletInLinked, Ended

-----------------------------------------------------------------------------
(***************************************************************************)
(* udd_ep_trans_complet, the OUT direction.                                *)
(***************************************************************************)
LEMMA ReceivedType ==
  ASSUME NEW e \in EndpointType
  PROVE  Received(e) \in Nat /\ Received(e) <= e.buf_size
<1>1. Word(e.nb_trans + e.cnt) \in Nat
  BY EndpointFields, WordType
<1> QED BY <1>1, EndpointFields DEF Received, Min2

LEMMA RestType ==
  ASSUME NEW e \in EndpointType
  PROVE  Rest(e) \in Nat /\ Rest(e) < EpSize
BY EndpointFields, Division, EpSizeAssumption DEF Rest, Slot

\* The next transfer into the buffer: whole packets of what is left, or none if
\* less than one is left.
LEMMA OutNext ==
  ASSUME NEW e \in EndpointType
  PROVE  LET n == OutNextTrans(e)
         IN  /\ n \in Nat /\ n <= e.buf_size - Received(e)
             /\ n % EpSize = 0
             /\ n < EpSize => n = 0 /\ e.buf_size - Received(e) < EpSize
<1> DEFINE rest == e.buf_size - Received(e)
           largest == MaxTrans - (MaxTrans % EpSize)
           cut == rest - (rest % EpSize)
<1>1. rest \in Nat
  BY ReceivedType, EndpointFields
<1>2. /\ largest \in Nat /\ largest >= EpSize /\ largest <= MaxTrans /\ largest % EpSize = 0
      /\ MaxTrans \in Nat
  BY LargestTransfer, MaxTransAssumption, EpSizeAssumption
<1>3. cut \in Nat /\ cut <= rest /\ cut % EpSize = 0 /\ (rest >= EpSize => cut > 0)
  BY <1>1, CutToWhole
<1>4. OutNextTrans(e) = IF MaxTrans < rest THEN largest ELSE cut
  BY DEF OutNextTrans
<1> HIDE DEF rest, largest, cut
<1>5. cut < EpSize => cut = 0
  BY <1>3, LessThanPacket
<1>6. /\ OutNextTrans(e) \in Nat /\ OutNextTrans(e) <= rest /\ OutNextTrans(e) % EpSize = 0
      /\ OutNextTrans(e) < EpSize => OutNextTrans(e) = 0 /\ rest < EpSize
  BY <1>1, <1>2, <1>3, <1>4, <1>5, EpSizeAssumption
<1> QED BY <1>6 DEF rest

LEMMA OutArmedFields ==
  ASSUME NEW e \in EndpointType, NEW n \in Nat
  PROVE  LET f == OutArmed(e, n)
         IN  /\ f \in EndpointType
             /\ f.enabled = e.enabled /\ f.stall = e.stall /\ f.trncompl = e.trncompl
             /\ f.busy = e.busy /\ f.buf_size = e.buf_size
             /\ f.nb_trans = Received(e) /\ f.cnt = 0 /\ f.aux = n /\ f.nack = FALSE
<1> DEFINE received == Received(e)
           f == OutArmed(e, n)
<1>1. f = [e EXCEPT !.nb_trans = received, !.cnt = 0, !.aux = n, !.nack = FALSE]
  BY DEF OutArmed
<1>2. received \in Nat
  BY ReceivedType
<1> HIDE DEF received, f
<1>3. /\ f \in EndpointType
      /\ f.enabled = e.enabled /\ f.stall = e.stall /\ f.trncompl = e.trncompl
      /\ f.busy = e.busy /\ f.buf_size = e.buf_size
      /\ f.nb_trans = received /\ f.cnt = 0 /\ f.aux = n /\ f.nack = FALSE
  BY <1>1, <1>2 DEF EndpointType
<1> QED BY <1>3 DEF f, received

LEMMA EndedFields ==
  ASSUME NEW e \in EndpointType, NEW n \in Nat
  PROVE  LET f == [e EXCEPT !.nb_trans = n, !.busy = FALSE]
         IN  /\ f \in EndpointType
             /\ f.enabled = e.enabled /\ f.stall = e.stall /\ f.trncompl = e.trncompl
             /\ f.nack = e.nack /\ f.buf_size = e.buf_size /\ f.nb_trans = n
             /\ f.cnt = e.cnt /\ f.aux = e.aux /\ f.busy = FALSE
BY DEF EndpointType

\* The three outcomes, and what each leaves alone.
LEMMA OutCompletion ==
  ASSUME NEW e \in EndpointType, NEW b, NEW c, NEW r, dir # "in",
         TransComplet(e, b, c, r)
  PROVE  /\ ep' \in EndpointType
         /\ ep'.enabled = e.enabled /\ ep'.stall = e.stall
         /\ ep'.trncompl = e.trncompl /\ ep'.buf_size = e.buf_size
         /\ ep'.nb_trans = Received(e)
         /\ buf' = CopyFromCache(e, b, c)
         /\ OutContinues(e) =>
              ep'.cnt = 0 /\ ep'.nack = FALSE /\ ep'.busy = e.busy /\ report' = r
         /\ OutContinues(e) /\ OutNextTrans(e) < EpSize =>
              ep'.aux = EpSize /\ link' = ToCache /\ cached' = TRUE
         /\ OutContinues(e) /\ OutNextTrans(e) >= EpSize =>
              ep'.aux = OutNextTrans(e) /\ link' = Received(e) /\ cached' = c
         /\ ~OutContinues(e) =>
              /\ ep'.cnt = e.cnt /\ ep'.aux = e.aux /\ ep'.nack = e.nack
              /\ ep'.busy = FALSE
              /\ link' = link /\ cached' = c
              /\ report' = IF e.busy /\ ~waits THEN Report("ok", Received(e)) ELSE r
<1>1. TransCompletOut(e, b, c, r)
  BY DEF TransComplet
<1>2. EpSize \in Nat /\ OutNextTrans(e) \in Nat /\ Received(e) \in Nat
  BY EpSizeAssumption, OutNext, ReceivedType
<1>3. CASE OutContinues(e) /\ OutNextTrans(e) < EpSize
  <2>1. /\ ep' = OutArmed(e, EpSize) /\ buf' = CopyFromCache(e, b, c)
        /\ link' = ToCache /\ cached' = TRUE /\ report' = r
    BY <1>1, <1>2, <1>3 DEF TransCompletOut
  <2>2. LET f == OutArmed(e, EpSize)
        IN  /\ f \in EndpointType
            /\ f.enabled = e.enabled /\ f.stall = e.stall /\ f.trncompl = e.trncompl
            /\ f.busy = e.busy /\ f.buf_size = e.buf_size
            /\ f.nb_trans = Received(e) /\ f.cnt = 0 /\ f.aux = EpSize /\ f.nack = FALSE
    BY <1>2, OutArmedFields
  <2>3. ~(OutNextTrans(e) >= EpSize)
    BY <1>2, <1>3
  <2> QED BY <1>3, <2>1, <2>2, <2>3, Zenon
<1>4. CASE OutContinues(e) /\ OutNextTrans(e) >= EpSize
  <2>1. /\ ep' = OutArmed(e, OutNextTrans(e)) /\ buf' = CopyFromCache(e, b, c)
        /\ link' = Received(e) /\ cached' = c /\ report' = r
    BY <1>1, <1>2, <1>4 DEF TransCompletOut
  <2>2. LET f == OutArmed(e, OutNextTrans(e))
        IN  /\ f \in EndpointType
            /\ f.enabled = e.enabled /\ f.stall = e.stall /\ f.trncompl = e.trncompl
            /\ f.busy = e.busy /\ f.buf_size = e.buf_size
            /\ f.nb_trans = Received(e) /\ f.cnt = 0 /\ f.aux = OutNextTrans(e)
            /\ f.nack = FALSE
    BY <1>2, OutArmedFields
  <2> QED BY <1>2, <1>4, <2>1, <2>2
<1>5. CASE ~OutContinues(e)
  <2>1. /\ ep' = [e EXCEPT !.nb_trans = Received(e), !.busy = FALSE]
        /\ buf' = CopyFromCache(e, b, c) /\ link' = link /\ cached' = c
        /\ report' = IF e.busy /\ ~waits THEN Report("ok", Received(e)) ELSE r
    BY <1>1, <1>5 DEF TransCompletOut, Ended
  <2> QED BY <1>2, <1>5, <2>1, EndedFields
<1>6. OutNextTrans(e) < EpSize \/ OutNextTrans(e) >= EpSize
  BY <1>2
<1> QED BY <1>3, <1>4, <1>5, <1>6, Zenon

-----------------------------------------------------------------------------
(***************************************************************************)
(* The routines that give a job up, and those that do not touch one.       *)
(***************************************************************************)
LEMMA Typing ==
  /\ Slot = 0..(EpSize - 1)
  /\ Fresh \in [Offset -> Int] /\ FreshCache \in [Slot -> Int]
  /\ NoPackets \in Packets /\ NoPackets.last <= EpSize /\ NoReport \in Reported
  /\ \A n \in Nat : Report("ok", n) \in Reported
BY EpSizeAssumption
   DEF Slot, Fresh, FreshCache, NoPackets, NoReport, Packets, Reported, Report, None

\* What the routines do to the entry: a job at rest stays so.
LEMMA EntryAtRest ==
  ASSUME NEW e \in EndpointType
  PROVE  /\ EpFree(e) \in EndpointType
         /\ EpFree(e).busy = FALSE /\ EpFree(e).nack = TRUE
         /\ EpFree(e).trncompl = e.trncompl /\ EpFree(e).buf_size = e.buf_size
         /\ EpAbort(e) \in EndpointType
         /\ EpAbort(e).busy = FALSE /\ EpAbort(e).nack = TRUE
         /\ EpAbort(e).trncompl = e.trncompl /\ EpAbort(e).buf_size = e.buf_size
         /\ EpSetHalt(e) \in EndpointType
         /\ EpSetHalt(e).busy = FALSE /\ EpSetHalt(e).nack = TRUE
         /\ EpSetHalt(e).trncompl = e.trncompl /\ EpSetHalt(e).buf_size = e.buf_size
BY DEF EndpointType, EpFree, EpSetHalt, EpAbort

\* When the job is no longer one that moves data, nothing is left that could
\* break its account: either the caller has its buffer back, or it was so before.
LEMMA Stops ==
  ASSUME Inv, Typed', dir' = dir, ~Working(ep)', ep'.buf_size = ep.buf_size,
         Quiet => Quiet',
         JobForgotten \/ (JobKept /\ ~Working(ep))
  PROVE  UnderWay' /\ KeptOut' /\ InJobWhole' /\ OutJobHoldsStream'
<1>1. UnderWay'
  BY DEF UnderWay
<1>2. CASE JobForgotten
  <2>1. /\ buf' = Fresh /\ cache' = FreshCache /\ wire' = NoPackets
        /\ report' = NoReport
    BY <1>2 DEF JobForgotten
  <2>2. KeptOut'
    BY <2>1 DEF KeptOut, NoReport
  <2>3. InJobWhole'
    BY <2>1 DEF InJobWhole, NoReport, NoPackets
  <2>4. OutJobHoldsStream'
    BY <2>1 DEF OutJobHoldsStream, NoReport, Fresh
  <2> QED BY <1>1, <2>2, <2>3, <2>4
<1>3. CASE JobKept /\ ~Working(ep)
  <2>1. /\ buf' = buf /\ cache' = cache /\ wire' = wire /\ report' = report
        /\ late' = late /\ zlp' = zlp
    BY <1>3 DEF JobKept
  <2>2. KeptOut'
    BY <1>3, <2>1 DEF Inv, KeptOut
  <2>3. InJobWhole'
    BY <2>1 DEF Inv, InJobWhole
  <2>4. OutJobHoldsStream'
    BY <2>1 DEF Inv, OutJobHoldsStream
  <2> QED BY <1>1, <2>2, <2>3, <2>4
<1> QED BY <1>2, <1>3

LEMMA KeptTyped ==
  ASSUME Inv, ep' \in EndpointType, ep'.buf_size <= MaxSize, Constant,
         JobForgotten \/ JobKept, waits' \in BOOLEAN, fifo' \in Nat
  PROVE  Typed'
<1>1. CASE JobForgotten
  BY <1>1, Typing DEF Inv, Typed, Constant, JobForgotten
<1>2. CASE JobKept
  BY <1>2 DEF Inv, Typed, Constant, JobKept
<1> QED BY <1>1, <1>2

LEMMA AllocKeeps ==
  ASSUME Inv, Alloc
  PROVE  Inv'
<1>1. /\ ep \in EndpointType /\ ~ep.enabled /\ ep' = EpInit(ep)
      /\ Constant /\ JobKept /\ fifo' = fifo /\ waits' = waits
  BY DEF Inv, Typed, Alloc, EpAlloc
<1>2. /\ ep' \in EndpointType /\ ep'.enabled = TRUE /\ ep'.stall = FALSE
      /\ ep'.nack = TRUE /\ ep'.trncompl = FALSE /\ ep'.busy = ep.busy
      /\ ep'.buf_size = ep.buf_size
  BY <1>1 DEF EndpointType, EpInit
<1>3. ~ep.busy /\ ~waits
  BY <1>1 DEF Inv, Registration
<1>4. Typed'
  BY <1>1, <1>2, KeptTyped DEF Inv, Typed
<1>5. Registration'
  BY <1>1, <1>2, <1>3 DEF Registration
<1>6. UnderWay' /\ KeptOut' /\ InJobWhole' /\ OutJobHoldsStream'
  BY <1>1, <1>2, <1>3, <1>4, Stops DEF Working, Quiet, Constant
<1> QED BY <1>4, <1>5, <1>6 DEF Inv

LEMMA AbortsKeeps ==
  ASSUME Inv, NEW e \in EndpointType, Aborts(e),
         e.busy = FALSE, e.nack = TRUE, e.trncompl = ep.trncompl,
         e.buf_size = ep.buf_size
  PROVE  Inv'
<1>1. /\ ep' = e /\ Constant /\ fifo' = fifo /\ waits' = FALSE
      /\ JobForgotten \/ (JobKept /\ ~ep.busy)
  BY DEF Aborts, AbortCalls
<1>2. Typed'
  BY <1>1, KeptTyped DEF Inv, Typed
<1>3. Registration'
  BY <1>1 DEF Registration
<1>4. UnderWay' /\ KeptOut' /\ InJobWhole' /\ OutJobHoldsStream'
  BY <1>1, <1>2, Stops DEF Working, Quiet, Constant
<1> QED BY <1>2, <1>3, <1>4 DEF Inv

LEMMA GivingUpKeeps ==
  ASSUME Inv, Free \/ Abort \/ SetHalt
  PROVE  Inv'
<1>1. ep \in EndpointType
  BY DEF Inv, Typed
<1>2. CASE Free
  BY <1>1, <1>2, EntryAtRest, AbortsKeeps DEF Free
<1>3. CASE Abort
  BY <1>1, <1>3, EntryAtRest, AbortsKeeps DEF Abort
<1>4. CASE SetHalt
  BY <1>1, <1>4, EntryAtRest, AbortsKeeps DEF SetHalt
<1> QED BY <1>2, <1>3, <1>4

LEMMA WaitStallClearKeeps ==
  ASSUME Inv, WaitStallClear
  PROVE  Inv'
<1>1. /\ ep \in EndpointType /\ ep.enabled /\ ep.stall /\ ~ep.busy
      /\ ep' = [ep EXCEPT !.busy = TRUE] /\ waits' = TRUE
      /\ Constant /\ JobKept /\ fifo' = fifo
  BY DEF Inv, Typed, WaitStallClear
<1>2. /\ ep' \in EndpointType /\ ep'.enabled = ep.enabled /\ ep'.stall = ep.stall
      /\ ep'.nack = ep.nack /\ ep'.trncompl = ep.trncompl /\ ep'.busy = TRUE
      /\ ep'.cnt = ep.cnt /\ ep'.aux = ep.aux /\ ep'.buf_size = ep.buf_size
  BY <1>1 DEF EndpointType
<1>3. Typed'
  BY <1>1, <1>2, KeptTyped DEF Inv, Typed
<1>4. Registration'
  BY <1>1, <1>2 DEF Inv, Registration, Constant
<1>5. UnderWay' /\ KeptOut' /\ InJobWhole' /\ OutJobHoldsStream'
  BY <1>1, <1>2, <1>3, Stops DEF Working, Quiet, Constant
<1> QED BY <1>3, <1>4, <1>5 DEF Inv

LEMMA ClearHaltKeeps ==
  ASSUME Inv, ClearHalt
  PROVE  Inv'
<1>1. /\ ep \in EndpointType /\ ep.enabled /\ ep' = EpClearHalt(ep)
      /\ waits' = (waits /\ ~(ep.stall /\ ep.busy))
      /\ Constant /\ JobKept /\ fifo' = fifo
  BY DEF Inv, Typed, ClearHalt, ClearHaltCalls
<1>2. CASE ep.stall
  <2>1. /\ ep' \in EndpointType /\ ep'.enabled = ep.enabled /\ ep'.stall = FALSE
        /\ ep'.nack = ep.nack /\ ep'.trncompl = ep.trncompl /\ ep'.busy = FALSE
        /\ ep'.cnt = ep.cnt /\ ep'.aux = ep.aux /\ ep'.buf_size = ep.buf_size
    BY <1>1, <1>2 DEF EndpointType, EpClearHalt
  <2>2. waits' = FALSE
    BY <1>1, <1>2 DEF Inv, Typed, Registration
  <2>3. Typed'
    BY <1>1, <2>1, <2>2, KeptTyped DEF Inv, Typed
  <2>4. Registration'
    BY <1>1, <2>1, <2>2 DEF Inv, Registration, Constant
  <2>5. UnderWay' /\ KeptOut' /\ InJobWhole' /\ OutJobHoldsStream'
    BY <1>1, <1>2, <2>1, <2>3, Stops DEF Working, Quiet, Constant
  <2> QED BY <2>3, <2>4, <2>5 DEF Inv
<1>3. CASE ~ep.stall
  <2>1. /\ ep' = ep /\ waits' = waits
    BY <1>1, <1>3 DEF EpClearHalt, Inv, Typed
  <2>2. UNCHANGED vars
    BY <1>1, <2>1 DEF Constant, JobKept, vars, hardware
  <2> QED BY <2>2 DEF Inv, Typed, Registration, UnderWay, Working, InUnderWay, OutUnderWay,
      ToBuffer, ToCacheBuffer, KeptOut, Quiet, InJobWhole, OutJobHoldsStream, vars, hardware
<1> QED BY <1>2, <1>3

LEMMA InitInv == Init => Inv
<1> SUFFICES ASSUME Init PROVE Inv
  OBVIOUS
<1>1. /\ dir \in {"in", "out"} /\ iso \in BOOLEAN
      /\ ep = EpOff /\ cached = FALSE /\ link = 0
      /\ buf = Fresh /\ cache = FreshCache /\ fifo = 0 /\ waits = FALSE
      /\ zlp = FALSE /\ wire = NoPackets /\ report = NoReport /\ late = FALSE
  BY DEF Init
<1>2. /\ ep \in EndpointType /\ ep.busy = FALSE /\ ep.aux = 0 /\ ep.cnt = 0
      /\ ep.buf_size = 0
  BY <1>1 DEF EpOff, EndpointType
<1>3. Typed
  <2>1. wire \in Packets /\ wire.last <= EpSize
    BY <1>1, Typing, EpSizeAssumption DEF NoPackets
  <2>2. buf \in [Offset -> Int] /\ cache \in [Slot -> Int] /\ report \in Reported
    BY <1>1, Typing
  <2>3. ep \in EndpointType /\ ep.buf_size <= MaxSize
    BY <1>2, BoundsAssumption
  <2>4. /\ dir \in {"in", "out"} /\ iso \in BOOLEAN /\ cached \in BOOLEAN
        /\ waits \in BOOLEAN /\ zlp \in BOOLEAN /\ late \in BOOLEAN
    BY <1>1, Zenon
  <2>5. link \in Int /\ fifo \in Nat
    BY <1>1
  <2> QED BY <2>1, <2>2, <2>3, <2>4, <2>5 DEF Typed
<1>4. Registration
  BY <1>1, <1>2 DEF Registration
<1>5. UnderWay /\ KeptOut
  BY <1>1, <1>2 DEF UnderWay, Working, KeptOut, NoReport
<1>6. InJobWhole /\ OutJobHoldsStream
  BY <1>1 DEF InJobWhole, OutJobHoldsStream, NoReport, NoPackets, Fresh
<1> QED BY <1>3, <1>4, <1>5, <1>6 DEF Inv

-----------------------------------------------------------------------------
(***************************************************************************)
(* IN.                                                                     *)
(***************************************************************************)
\* A job that begins.
LEMMA StartedFields ==
  ASSUME NEW e \in EndpointType, NEW job \in [size : Nat, shortpacket : BOOLEAN]
  PROVE  LET f == JobStarted(e, job)
         IN  /\ f \in EndpointType
             /\ f.enabled = e.enabled /\ f.stall = e.stall /\ f.nack = e.nack
             /\ f.trncompl = e.trncompl /\ f.cnt = e.cnt /\ f.aux = 0
             /\ f.busy = TRUE /\ f.buf_size = job.size /\ f.nb_trans = 0
             /\ f.b_shortpacket <=> job.shortpacket \/ job.size = 0
<1> DEFINE full == job.shortpacket \/ job.size = 0
           f == [e EXCEPT !.busy = TRUE, !.buf_size = job.size, !.nb_trans = 0, !.aux = 0,
                          !.b_shortpacket = full]
<1>1. JobStarted(e, job) = f
  BY DEF JobStarted, Registered, EndpointType
<1>2. full \in BOOLEAN /\ job.size \in Nat
  OBVIOUS
<1> HIDE DEF full
<1>3. /\ f \in EndpointType
      /\ f.enabled = e.enabled /\ f.stall = e.stall /\ f.nack = e.nack
      /\ f.trncompl = e.trncompl /\ f.cnt = e.cnt /\ f.aux = 0
      /\ f.busy = TRUE /\ f.buf_size = job.size /\ f.nb_trans = 0
      /\ f.b_shortpacket = full
  BY <1>2 DEF EndpointType
<1> QED BY <1>1, <1>3 DEF full

LEMMA RunIn ==
  ASSUME Inv, dir = "in", NEW size \in 0..MaxSize, NEW shortpacket \in BOOLEAN,
         Run(size, shortpacket)
  PROVE  Inv'
<1> DEFINE job == [size |-> size, shortpacket |-> shortpacket]
           e == JobStarted(ep, job)
           b == CallersBuffer(size)
<1>1. /\ ep \in EndpointType /\ ep.enabled /\ ~ep.stall /\ ~ep.busy /\ ~waits
      /\ zlp' = (shortpacket \/ size = 0) /\ wire' = NoPackets
      /\ late' = ep.trncompl /\ TransComplet(e, b, FALSE, NoReport)
      /\ cache' = FreshCache /\ dir' = dir /\ iso' = iso
      /\ fifo' = fifo /\ waits' = waits
  BY DEF Run, EpRunAccepts, Constant, Inv, Typed, Registration
<1>2. /\ size \in Nat /\ size <= MaxSize /\ size <= 65535 /\ MaxSize \in Nat
      /\ EpSize \in Nat /\ EpSize > 0 /\ 0 % EpSize = 0
  BY BoundsAssumption, EpSizeAssumption
<1>3. /\ e \in EndpointType
      /\ e.enabled = ep.enabled /\ e.stall = ep.stall
      /\ e.trncompl = ep.trncompl /\ e.aux = 0
      /\ e.busy = TRUE /\ e.buf_size = size /\ e.nb_trans = 0
      /\ e.b_shortpacket <=> shortpacket \/ size = 0
  <2>1. /\ job \in [size : Nat, shortpacket : BOOLEAN]
        /\ job.size = size /\ job.shortpacket = shortpacket
    BY <1>2
  <2> HIDE DEF job
  <2> QED BY <1>1, <2>1, StartedFields
<1>4. b \in [Offset -> Int]
  BY <1>1, Typing DEF CallersBuffer, None, Offset
<1> HIDE DEF e, b
<1>5. Sent(e) = 0 /\ (DataRemains(e) <=> size # 0)
  BY <1>2, <1>3, InNext DEF DataRemains
<1>6. /\ ep' = TransCompletIn(e) /\ buf' = b /\ cached' = FALSE
      /\ link' = IF DataRemains(e) THEN Sent(e) ELSE link
      /\ report' = IF ~DataRemains(e) /\ ~e.b_shortpacket /\ e.busy /\ ~waits
                     THEN Report("ok", Sent(e)) ELSE NoReport
  BY <1>1, <1>3, InCompletion
<1>7. /\ ep' \in EndpointType /\ ep'.enabled = ep.enabled /\ ep'.stall = ep.stall
      /\ ep'.trncompl = ep.trncompl /\ ep'.buf_size = size /\ ep'.nb_trans = 0
      /\ report' = NoReport
      /\ ep'.aux = 0 /\ ep'.nack = FALSE /\ ep'.busy = TRUE
  BY <1>3, <1>5, <1>6, InFields
<1>8. /\ ep'.cnt \in Nat
      /\ ep'.cnt <= size
      /\ ep'.cnt > 0 => link' = 0
      /\ ep'.cnt = 0 => size = 0 /\ ep'.b_shortpacket = FALSE
      /\ ep'.cnt % EpSize # 0 => ep'.cnt = size /\ ep'.b_shortpacket = FALSE
      /\ ep'.b_shortpacket => shortpacket \/ size = 0
      /\ (shortpacket \/ size = 0) /\ size % EpSize = 0 => ep'.b_shortpacket \/ ep'.cnt = 0
  <2>1. CASE size # 0
    <3>1. /\ ep'.cnt = NextTrans(e) /\ link' = 0
          /\ ep'.b_shortpacket = (e.b_shortpacket /\ NextTrans(e) % EpSize = 0)
      BY <1>3, <1>5, <1>6, <2>1, InFields
    <3>2. /\ NextTrans(e) > 0 /\ NextTrans(e) <= size
          /\ NextTrans(e) % EpSize # 0 => NextTrans(e) = size
          /\ NextTrans(e) \in Nat
      BY <1>2, <1>3, <1>5, <2>1, InNext, NextTransType
    <3>3. ep'.b_shortpacket <=> shortpacket /\ ep'.cnt % EpSize = 0
      BY <1>3, <2>1, <3>1
    <3>4. /\ ep'.cnt \in Nat /\ ep'.cnt > 0 /\ ep'.cnt <= size
          /\ ep'.cnt % EpSize # 0 => ep'.cnt = size
      BY <3>1, <3>2
    <3>5. ep'.b_shortpacket \in BOOLEAN
      BY <1>7, EndpointFields
    <3>6. ep'.cnt % EpSize # 0 => ep'.b_shortpacket = FALSE
      BY <3>3, <3>5
    <3>7. shortpacket /\ size % EpSize = 0 => ep'.b_shortpacket
      BY <3>3, <3>4
    <3> QED BY <2>1, <3>1, <3>3, <3>4, <3>6, <3>7
  <2>2. CASE size = 0
    <3>1. /\ ep'.cnt = 0 /\ ep'.b_shortpacket = FALSE
      BY <1>3, <1>5, <1>6, <2>2, InFields
    <3> QED BY <1>2, <2>2, <3>1
  <2> QED BY <2>1, <2>2
<1>9. /\ zlp' <=> shortpacket \/ size = 0
      /\ late' <=> ep'.trncompl
      /\ wire'.bytes = 0 /\ wire'.last = EpSize /\ wire'.inOrder = TRUE
  BY <1>1, <1>7 DEF NoPackets
<1>10. InUnderWay'
  <2>1. /\ ep'.nb_trans % EpSize = 0
        /\ ep'.nb_trans + ep'.aux = wire'.bytes
        /\ ep'.aux <= ep'.cnt
        /\ ep'.nb_trans + ep'.cnt <= ep'.buf_size
        /\ ep'.cnt > 0 => link' = ep'.nb_trans
    BY <1>2, <1>7, <1>8, <1>9
  <2>2. /\ ep'.cnt = 0 => ep'.nb_trans = ep'.buf_size /\ zlp' /\ ~ep'.b_shortpacket
        /\ ep'.cnt % EpSize # 0 =>
             ep'.nb_trans + ep'.cnt = ep'.buf_size /\ ~ep'.b_shortpacket
        /\ ep'.b_shortpacket => zlp'
        /\ zlp' /\ ep'.buf_size % EpSize = 0 => ep'.b_shortpacket \/ ep'.cnt = 0
    BY <1>2, <1>7, <1>8, <1>9
  <2>3. /\ ep'.aux % EpSize = 0
        /\ ep'.aux < ep'.cnt \/ ep'.cnt = 0
        /\ wire'.last = EpSize
        /\ ep'.trncompl => late'
        /\ ~ep'.nack
    BY <1>2, <1>7, <1>8, <1>9
  <2> QED BY <2>1, <2>2, <2>3 DEF InUnderWay
<1>11. Typed'
  <2>1. /\ link' \in Int /\ fifo' \in Nat /\ dir' \in {"in", "out"}
        /\ ep' \in EndpointType /\ ep'.buf_size <= MaxSize
    BY <1>1, <1>2, <1>5, <1>6, <1>7 DEF Inv, Typed
  <2>2. /\ buf' \in [Offset -> Int] /\ cache' \in [Slot -> Int]
        /\ wire' \in Packets /\ wire'.last <= EpSize /\ report' \in Reported
    BY <1>1, <1>4, <1>6, <1>7, Typing
  <2>3. /\ iso' \in BOOLEAN /\ waits' \in BOOLEAN /\ cached' \in BOOLEAN
        /\ ep.trncompl \in BOOLEAN
    BY <1>1, <1>6, EndpointFields DEF Inv, Typed
  <2>4. zlp' \in BOOLEAN /\ late' \in BOOLEAN
    BY <1>1, <2>3
  <2> QED BY <2>1, <2>2, <2>3, <2>4 DEF Typed
<1>12. Registration'
  BY <1>1, <1>7, <1>8 DEF Registration
<1>13. UnderWay' /\ KeptOut' /\ OutJobHoldsStream'
  BY <1>1, <1>7, <1>10 DEF UnderWay, KeptOut, OutJobHoldsStream
<1>14. InJobWhole'
  BY <1>1, <1>7 DEF InJobWhole, NoPackets, NoReport
<1> QED BY <1>11, <1>12, <1>13, <1>14 DEF Inv

LEMMA AckTcFields ==
  ASSUME NEW e \in EndpointType
  PROVE  /\ EpAckTc(e) \in EndpointType /\ EpAckTc(e).trncompl = FALSE
         /\ EpAckTc(e).enabled = e.enabled /\ EpAckTc(e).stall = e.stall
         /\ EpAckTc(e).nack = e.nack /\ EpAckTc(e).cnt = e.cnt
         /\ EpAckTc(e).aux = e.aux /\ EpAckTc(e).busy = e.busy
         /\ EpAckTc(e).b_shortpacket = e.b_shortpacket
         /\ EpAckTc(e).buf_size = e.buf_size /\ EpAckTc(e).nb_trans = e.nb_trans
BY DEF EpAckTc, EndpointType

\* An entry of the FIFO whose completion was handled or forgotten since.
LEMMA InterruptIdle ==
  ASSUME Inv, Interrupt, ~ep.trncompl
  PROVE  Inv'
<1>1. /\ ep' = ep /\ link' = link /\ buf' = buf /\ cached' = cached /\ report' = report
      /\ waits' = (waits /\ ep.busy) /\ cache' = cache /\ zlp' = zlp /\ wire' = wire
      /\ late' = late /\ dir' = dir /\ iso' = iso /\ fifo' = fifo - 1 /\ fifo > 0
  BY DEF Interrupt, Constant
<1>2. waits' = waits /\ fifo' \in Nat
  BY <1>1 DEF Inv, Typed, Registration
<1>3. Typed' /\ Registration'
  BY <1>1, <1>2 DEF Inv, Typed, Registration
<1>4. UnderWay' /\ KeptOut'
  BY <1>1 DEF Inv, UnderWay, Working, InUnderWay, OutUnderWay, ToBuffer,
              ToCacheBuffer, KeptOut, Quiet, Rest
<1>5. InJobWhole' /\ OutJobHoldsStream'
  BY <1>1 DEF Inv, InJobWhole, OutJobHoldsStream
<1> QED BY <1>3, <1>4, <1>5 DEF Inv

\* What is common to the completions on an IN endpoint.
LEMMA InterruptIn ==
  ASSUME Inv, Interrupt, ep.trncompl, dir = "in"
  PROVE  LET e == EpAckTc(ep)
         IN  /\ ep' = TransCompletIn(e)
             /\ link' = IF DataRemains(e) THEN Sent(e) ELSE link
             /\ report' = IF ~DataRemains(e) /\ ~e.b_shortpacket /\ e.busy /\ ~waits
                            THEN Report("ok", Sent(e)) ELSE report
             /\ ep'.enabled = ep.enabled /\ ep'.stall = ep.stall
             /\ ep'.trncompl = FALSE /\ ep'.buf_size = ep.buf_size
             /\ wire' = wire /\ late' = late /\ zlp' = zlp /\ dir' = dir
             /\ waits' = (waits /\ ep'.busy)
             /\ Typed' /\ Registration'
<1> DEFINE e == EpAckTc(ep)
<1>1. /\ TransComplet(e, buf, cached, report)
      /\ waits' = (waits /\ ep'.busy) /\ cache' = cache /\ zlp' = zlp /\ wire' = wire
      /\ late' = late /\ dir' = dir /\ iso' = iso /\ fifo' = fifo - 1 /\ fifo > 0
  BY DEF Interrupt, Constant
<1>2. /\ ep \in EndpointType
      /\ e \in EndpointType /\ e.trncompl = FALSE
      /\ e.enabled = ep.enabled /\ e.stall = ep.stall /\ e.busy = ep.busy
      /\ e.cnt = ep.cnt /\ e.aux = ep.aux /\ e.nack = ep.nack
      /\ e.buf_size = ep.buf_size
  BY AckTcFields DEF Inv, Typed
<1> HIDE DEF e
<1>3. /\ ep' = TransCompletIn(e) /\ buf' = buf /\ cached' = cached
      /\ link' = IF DataRemains(e) THEN Sent(e) ELSE link
      /\ report' = IF ~DataRemains(e) /\ ~e.b_shortpacket /\ e.busy /\ ~waits
                     THEN Report("ok", Sent(e)) ELSE report
  BY <1>1, <1>2, InCompletion
<1>4. /\ ep' \in EndpointType
      /\ ep'.enabled = ep.enabled /\ ep'.stall = ep.stall
      /\ ep'.trncompl = FALSE /\ ep'.buf_size = ep.buf_size
  BY <1>2, <1>3, InFields
<1>10. /\ ep'.busy => ep.busy
       /\ ep'.aux = 0 \/ (ep'.aux = ep.aux /\ ep'.cnt = ep.cnt /\ ep'.nack = ep.nack)
  <2>1. CASE DataRemains(e)
    BY <1>2, <1>3, <2>1, InFields
  <2>2. CASE ~DataRemains(e) /\ e.b_shortpacket
    BY <1>2, <1>3, <2>2, InFields
  <2>3. CASE ~DataRemains(e) /\ ~e.b_shortpacket
    BY <1>2, <1>3, <2>3, InFields
  <2> QED BY <2>1, <2>2, <2>3
<1>5. Sent(e) \in Nat
  BY <1>2, NextTransType
<1>6. /\ link' \in Int /\ report' \in Reported /\ fifo' \in Nat /\ waits' \in BOOLEAN
  BY <1>1, <1>3, <1>4, <1>5, Typing, EndpointFields DEF Inv, Typed
<1>7. Typed'
  BY <1>1, <1>3, <1>4, <1>6 DEF Inv, Typed
<1>8. /\ ep'.aux \in Nat /\ ep'.cnt \in Nat /\ ep'.busy \in BOOLEAN
      /\ ep.stall \in BOOLEAN
  BY <1>2, <1>4, EndpointFields
<1>9. Registration'
  <2>1. ep.busy => ep.enabled
    BY DEF Inv, Registration
  <2>2. waits' <=> ep'.busy /\ ep'.stall
    BY <1>1, <1>4, <1>8, <1>10 DEF Inv, Registration
  <2>3. ~ep.nack => ep.aux <= ep.cnt
    BY DEF Inv, Registration
  <2>4. dir' = "in" /\ ~ep'.nack => ep'.aux <= ep'.cnt
    BY <1>8, <1>10, <2>3
  <2> QED BY <1>4, <1>10, <2>1, <2>2, <2>4 DEF Registration
<1> QED BY <1>1, <1>3, <1>4, <1>7, <1>9 DEF e

\* A completion of a job that moves data.
LEMMA InterruptInWorking ==
  ASSUME Inv, Interrupt, ep.trncompl, dir = "in", Working(ep)
  PROVE  Inv'
<1> DEFINE e == EpAckTc(ep)
<1>1. /\ ep' = TransCompletIn(e)
      /\ link' = IF DataRemains(e) THEN Sent(e) ELSE link
      /\ report' = IF ~DataRemains(e) /\ ~e.b_shortpacket /\ e.busy /\ ~waits
                     THEN Report("ok", Sent(e)) ELSE report
      /\ ep'.trncompl = FALSE /\ ep'.buf_size = ep.buf_size
      /\ wire' = wire /\ late' = late /\ zlp' = zlp /\ dir' = dir
      /\ Typed' /\ Registration'
  BY InterruptIn
<1>2. /\ ep \in EndpointType
      /\ e \in EndpointType /\ e.nack = ep.nack /\ e.cnt = ep.cnt
      /\ e.aux = ep.aux /\ e.busy = ep.busy /\ e.b_shortpacket = ep.b_shortpacket
      /\ e.buf_size = ep.buf_size /\ e.nb_trans = ep.nb_trans
  BY AckTcFields DEF Inv, Typed
<1> HIDE DEF e
<1>3. /\ InUnderWay /\ report = NoReport /\ ep.busy /\ ~waits
      /\ wire.inOrder
  BY DEF Inv, UnderWay, Working, Registration, InJobWhole
<1>4. /\ ep.nb_trans \in Nat /\ ep.aux \in Nat /\ ep.cnt \in Nat /\ ep.buf_size \in Nat
      /\ ep.buf_size <= 65535 /\ wire.last \in Nat /\ wire.last <= EpSize
      /\ ep.nb_trans % EpSize = 0
      /\ ep.aux <= ep.cnt /\ ep.nb_trans + ep.cnt <= ep.buf_size
      /\ ep.nb_trans + ep.aux = wire.bytes
      /\ EpSize \in Nat /\ EpSize > 0 /\ 0 % EpSize = 0
  BY <1>2, <1>3, BoundsAssumption, EpSizeAssumption, EndpointFields
  DEF Inv, Typed, InUnderWay, Packets
<1>5. /\ Sent(e) = wire.bytes
      /\ DataRemains(e) =>
           /\ NextTrans(e) > 0 /\ Sent(e) + NextTrans(e) <= ep.buf_size
           /\ NextTrans(e) % EpSize # 0 => Sent(e) + NextTrans(e) = ep.buf_size
      /\ NextTrans(e) \in Nat
  BY <1>2, <1>4, InNext, NextTransType
\* With more to come, what has been sent is whole packets.
<1>6. ASSUME DataRemains(e) \/ ep.b_shortpacket
      PROVE  /\ wire.bytes \in Nat /\ wire.bytes % EpSize = 0 /\ wire.last = EpSize
  <2>1. ep.cnt % EpSize # 0 => ep.nb_trans + ep.cnt = ep.buf_size /\ ~ep.b_shortpacket
    BY <1>3 DEF InUnderWay
  <2>2. ep.cnt = 0 => ep.nb_trans = ep.buf_size /\ ~ep.b_shortpacket
    BY <1>3 DEF InUnderWay
  <2>3. DataRemains(e) => ep.nb_trans + ep.aux # ep.buf_size
    BY <1>2, <1>4, <1>5 DEF DataRemains
  <2>4. CASE ~ep.nack
    <3>1. ep.aux % EpSize = 0 /\ wire.last = EpSize
      BY <1>3, <2>4 DEF InUnderWay
    <3>2. (ep.nb_trans + ep.aux) % EpSize = ep.aux % EpSize
      <4>1. /\ ep.nb_trans \in Nat /\ ep.aux \in Nat
            /\ ep.nb_trans % EpSize = 0
        BY <1>4
      <4> QED BY <4>1, WholeInFront
    <3>3. wire.bytes \in Nat /\ wire.bytes = ep.nb_trans + ep.aux
      BY <1>4
    <3> QED BY <3>1, <3>2, <3>3
  <2>5. CASE ep.nack
    <3>1. /\ ep.aux = ep.cnt
          /\ wire.last < EpSize <=> ep.cnt = 0 \/ ep.cnt % EpSize # 0
      BY <1>3, <2>5 DEF InUnderWay
    <3>2. ep.cnt # 0 /\ ep.cnt % EpSize = 0
      BY <1>4, <1>6, <2>1, <2>2, <2>3, <3>1
    <3>3. (ep.nb_trans + ep.cnt) % EpSize = ep.cnt % EpSize
      <4>1. ep.nb_trans \in Nat /\ ep.cnt \in Nat /\ ep.nb_trans % EpSize = 0
        BY <1>4
      <4> QED BY <4>1, WholeInFront
    <3>4. wire.bytes \in Nat /\ wire.bytes = ep.nb_trans + ep.cnt
      BY <1>4, <3>1
    <3>5. ~(wire.last < EpSize)
      BY <3>1, <3>2
    <3>6. wire.last = EpSize
      BY <1>4, <3>5
    <3> QED BY <3>2, <3>3, <3>4, <3>6
  <2> QED BY <2>4, <2>5
<1>7. CASE DataRemains(e)
  <2>1. /\ ep'.nb_trans = wire.bytes /\ link' = wire.bytes /\ report' = NoReport
        /\ ep'.cnt = NextTrans(e) /\ ep'.aux = 0 /\ ep'.nack = FALSE
        /\ ep'.b_shortpacket = (ep.b_shortpacket /\ NextTrans(e) % EpSize = 0)
    BY <1>1, <1>2, <1>3, <1>5, <1>7, InFields
  <2>2. /\ ep'.cnt \in Nat /\ ep'.cnt > 0 /\ wire.bytes + ep'.cnt <= ep.buf_size
        /\ ep'.cnt % EpSize # 0 => wire.bytes + ep'.cnt = ep.buf_size
    BY <1>5, <1>7, <2>1
  <2>3. /\ wire.bytes \in Nat /\ wire.bytes % EpSize = 0 /\ wire.last = EpSize
    BY <1>6, <1>7
  <2>4. ep'.b_shortpacket <=> ep.b_shortpacket /\ ep'.cnt % EpSize = 0
    BY <1>2, <2>1, EndpointFields
  <2>5. ep.b_shortpacket => zlp
    BY <1>3 DEF InUnderWay
  <2>6. zlp /\ ep.buf_size % EpSize = 0 => ep.b_shortpacket
    <3>1. ep.cnt # 0
      <4>1. ep.cnt = 0 => ep.nb_trans = ep.buf_size
        BY <1>3 DEF InUnderWay
      <4>2. ep.nb_trans + ep.aux # ep.buf_size
        BY <1>2, <1>4, <1>5, <1>7 DEF DataRemains
      <4>3. /\ ep.nb_trans \in Nat /\ ep.aux \in Nat /\ ep.cnt \in Nat
            /\ ep.aux <= ep.cnt
        BY <1>4
      <4> QED BY <4>1, <4>2, <4>3
    <3> QED BY <1>3, <3>1 DEF InUnderWay
  <2>7. ep'.cnt % EpSize # 0 => ep.buf_size % EpSize # 0
    BY <2>2, <2>3, WholeInFront
  <2>8. InUnderWay'
    <3>1. /\ ep'.nb_trans % EpSize = 0
          /\ ep'.nb_trans + ep'.aux = wire'.bytes
          /\ ep'.aux <= ep'.cnt
          /\ ep'.nb_trans + ep'.cnt <= ep'.buf_size
          /\ link' = ep'.nb_trans
      BY <1>1, <2>1, <2>2, <2>3
    <3>2. /\ ep'.cnt # 0
          /\ ep'.cnt % EpSize # 0 =>
               ep'.nb_trans + ep'.cnt = ep'.buf_size /\ ~ep'.b_shortpacket
          /\ ep'.b_shortpacket => zlp'
          /\ zlp' /\ ep'.buf_size % EpSize = 0 => ep'.b_shortpacket
      BY <1>1, <2>1, <2>2, <2>4, <2>5, <2>6, <2>7
    <3>3. /\ ep'.aux % EpSize = 0
          /\ ep'.aux < ep'.cnt
          /\ wire'.last = EpSize
          /\ ~ep'.trncompl
          /\ ~ep'.nack
      BY <1>1, <1>4, <2>1, <2>2, <2>3
    <3> QED BY <3>1, <3>2, <3>3 DEF InUnderWay
  <2>9. UnderWay' /\ KeptOut' /\ OutJobHoldsStream'
    BY <1>1, <2>1, <2>8 DEF UnderWay, KeptOut, OutJobHoldsStream
  <2>10. InJobWhole'
    BY <1>1, <1>3, <2>1 DEF InJobWhole, NoReport
  <2> QED BY <1>1, <2>9, <2>10 DEF Inv
<1>8. CASE ~DataRemains(e) /\ e.b_shortpacket
  <2>1. /\ ep'.nb_trans = wire.bytes /\ report' = NoReport
        /\ ep'.cnt = 0 /\ ep'.aux = 0 /\ ep'.nack = FALSE /\ ep'.b_shortpacket = FALSE
    BY <1>1, <1>2, <1>3, <1>5, <1>8, InFields
  <2>2. /\ wire.bytes \in Nat /\ wire.bytes % EpSize = 0 /\ wire.last = EpSize
        /\ wire.bytes = ep.buf_size /\ ep.b_shortpacket
    BY <1>2, <1>5, <1>6, <1>8 DEF DataRemains
  <2>3. zlp
    BY <1>3, <2>2 DEF InUnderWay
  <2>4. InUnderWay'
    <3>1. /\ ep'.nb_trans % EpSize = 0
          /\ ep'.nb_trans + ep'.aux = wire'.bytes
          /\ ep'.nb_trans = ep'.buf_size /\ ep'.aux = 0 /\ ep'.cnt = 0
          /\ ep'.aux <= ep'.cnt
          /\ ep'.nb_trans + ep'.cnt <= ep'.buf_size
      BY <1>1, <2>1, <2>2
    <3>2. /\ ep'.cnt % EpSize = 0 /\ ~ep'.b_shortpacket /\ zlp'
      BY <1>1, <1>4, <2>1, <2>3
    <3>3. /\ ep'.aux % EpSize = 0
          /\ wire'.last = EpSize
          /\ ~ep'.trncompl
          /\ ~ep'.nack
      BY <1>1, <1>4, <2>1, <2>2
    <3> QED BY <3>1, <3>2, <3>3 DEF InUnderWay
  <2>5. UnderWay' /\ KeptOut' /\ OutJobHoldsStream'
    BY <1>1, <2>1, <2>4 DEF UnderWay, KeptOut, OutJobHoldsStream
  <2>6. InJobWhole'
    BY <1>1, <1>3, <2>1 DEF InJobWhole, NoReport
  <2> QED BY <1>1, <2>5, <2>6 DEF Inv
<1>9. CASE ~DataRemains(e) /\ ~e.b_shortpacket
  <2>1. /\ ep'.busy = FALSE /\ report' = Report("ok", wire.bytes)
        /\ wire.bytes = ep.buf_size /\ ~ep.b_shortpacket
    BY <1>1, <1>2, <1>3, <1>5, <1>9, InFields DEF DataRemains
  <2>2. UnderWay' /\ KeptOut' /\ OutJobHoldsStream'
    BY <1>1, <2>1 DEF UnderWay, Working, KeptOut, OutJobHoldsStream
  <2>3. ASSUME ~late PROVE wire.last < EpSize <=> zlp \/ ep.buf_size % EpSize # 0
    <3>1. /\ ep.aux = ep.cnt
          /\ wire.last < EpSize <=> ep.cnt = 0 \/ ep.cnt % EpSize # 0
      BY <1>3, <2>3 DEF InUnderWay
    <3>2. ep.nb_trans + ep.cnt = ep.buf_size
      BY <1>4, <2>1, <3>1
    <3>3. ep.buf_size % EpSize = ep.cnt % EpSize
      <4>1. (ep.nb_trans + ep.cnt) % EpSize = ep.cnt % EpSize
        <5>1. /\ ep.nb_trans \in Nat /\ ep.cnt \in Nat
              /\ ep.nb_trans % EpSize = 0
          BY <1>4
        <5> QED BY <5>1, WholeInFront
      <4> QED BY <3>2, <4>1
    <3>4. ep.cnt = 0 => zlp
      BY <1>3 DEF InUnderWay
    <3>5. zlp /\ ep.buf_size % EpSize = 0 => ep.cnt = 0
      BY <1>3, <2>1 DEF InUnderWay
    <3> QED BY <1>4, <3>1, <3>3, <3>4, <3>5
  <2>4. InJobWhole'
    <3>1. report'.count = wire.bytes
      BY <2>1 DEF Report
    <3> QED BY <1>1, <1>3, <2>1, <2>3, <3>1 DEF InJobWhole
  <2> QED BY <1>1, <2>2, <2>4 DEF Inv
<1> QED BY <1>7, <1>8, <1>9

\* A completion that finds no job, or one that waits for the end of a halt.
LEMMA InterruptInResting ==
  ASSUME Inv, Interrupt, ep.trncompl, dir = "in", ~Working(ep)
  PROVE  Inv'
<1> DEFINE e == EpAckTc(ep)
<1>1. /\ ep' = TransCompletIn(e)
      /\ report' = IF ~DataRemains(e) /\ ~e.b_shortpacket /\ e.busy /\ ~waits
                     THEN Report("ok", Sent(e)) ELSE report
      /\ ep'.stall = ep.stall /\ ep'.buf_size = ep.buf_size
      /\ wire' = wire /\ late' = late /\ zlp' = zlp /\ dir' = dir
      /\ waits' = (waits /\ ep'.busy)
      /\ Typed' /\ Registration'
  BY InterruptIn
<1>2. e \in EndpointType /\ e.busy = ep.busy
  BY AckTcFields DEF Inv, Typed
<1> HIDE DEF e
<1>3. ep'.busy => ep.busy
  BY <1>1, <1>2, InFields
<1>4. report' = report
  BY <1>1, <1>2 DEF Inv, Registration, Working
<1>5. UnderWay' /\ KeptOut' /\ OutJobHoldsStream'
  BY <1>1, <1>3 DEF UnderWay, Working, KeptOut, OutJobHoldsStream
<1>6. InJobWhole'
  BY <1>1, <1>4 DEF Inv, InJobWhole
<1> QED BY <1>1, <1>5, <1>6 DEF Inv

\* A packet, after which the transfer goes on or has ended.
LEMMA MovedFields ==
  ASSUME NEW e \in EndpointType, NEW moved \in Nat, NEW n \in Nat, NEW all \in Nat
  PROVE  LET f == AfterPacket(e, moved, n, all)
         IN  /\ f \in EndpointType
             /\ f.enabled = e.enabled /\ f.stall = e.stall /\ f.busy = e.busy
             /\ f.cnt = e.cnt /\ f.aux = e.aux /\ f.b_shortpacket = e.b_shortpacket
             /\ f.buf_size = e.buf_size /\ f.nb_trans = e.nb_trans
             /\ n < EpSize \/ moved >= all => f.trncompl = TRUE /\ f.nack = TRUE
             /\ ~(n < EpSize \/ moved >= all) =>
                  f.trncompl = e.trncompl /\ f.nack = e.nack
<1>1. CASE n < EpSize \/ moved >= all
  BY <1>1 DEF AfterPacket, EndpointType
<1>2. CASE ~(n < EpSize \/ moved >= all)
  BY <1>2 DEF AfterPacket, EndpointType
<1> QED BY <1>1, <1>2

LEMMA InMoved ==
  ASSUME Inv, InPacket
  PROVE  LET n == Min2(EpSize, ep.cnt - ep.aux)
         IN  /\ n \in Nat /\ n <= EpSize /\ ep.aux + n <= ep.cnt
             /\ n < EpSize => ep.aux + n = ep.cnt
             /\ ep' \in EndpointType
             /\ ep'.enabled = ep.enabled /\ ep'.stall = ep.stall /\ ep'.busy = ep.busy
             /\ ep'.cnt = ep.cnt /\ ep'.aux = ep.aux + n
             /\ ep'.b_shortpacket = ep.b_shortpacket
             /\ ep'.buf_size = ep.buf_size /\ ep'.nb_trans = ep.nb_trans
             /\ n < EpSize \/ ep.aux + n >= ep.cnt =>
                  ep'.trncompl = TRUE /\ ep'.nack = TRUE
             /\ ~(n < EpSize \/ ep.aux + n >= ep.cnt) =>
                  ep'.trncompl = ep.trncompl /\ ep'.nack = FALSE
<1> DEFINE n == Min2(EpSize, ep.cnt - ep.aux)
           e == [ep EXCEPT !.aux = @ + n]
<1>1. /\ ep \in EndpointType /\ dir = "in" /\ ep.nack = FALSE
      /\ ep' = AfterPacket(e, ep.aux + n, n, ep.cnt)
  BY EndpointFields DEF Inv, Typed, InPacket, EpAnswers
<1>2. /\ ep.aux <= ep.cnt /\ ep.aux \in Nat /\ ep.cnt \in Nat
      /\ EpSize \in Nat /\ EpSize > 0
  BY <1>1, EndpointFields, EpSizeAssumption DEF Inv, Registration
<1>3. /\ n \in Nat /\ n <= EpSize /\ ep.aux + n <= ep.cnt
      /\ n < EpSize => ep.aux + n = ep.cnt
  BY <1>2 DEF Min2
<1> HIDE DEF n
<1>4. /\ e \in EndpointType
      /\ e.enabled = ep.enabled /\ e.stall = ep.stall /\ e.busy = ep.busy
      /\ e.cnt = ep.cnt /\ e.aux = ep.aux + n /\ e.b_shortpacket = ep.b_shortpacket
      /\ e.buf_size = ep.buf_size /\ e.nb_trans = ep.nb_trans
      /\ e.trncompl = ep.trncompl /\ e.nack = FALSE
  BY <1>1, <1>2, <1>3 DEF EndpointType
<1> HIDE DEF e
<1>5. ep.aux + n \in Nat
  BY <1>2, <1>3
<1>6. /\ ep' \in EndpointType
      /\ ep'.enabled = ep.enabled /\ ep'.stall = ep.stall /\ ep'.busy = ep.busy
      /\ ep'.cnt = ep.cnt /\ ep'.aux = ep.aux + n
      /\ ep'.b_shortpacket = ep.b_shortpacket
      /\ ep'.buf_size = ep.buf_size /\ ep'.nb_trans = ep.nb_trans
      /\ n < EpSize \/ ep.aux + n >= ep.cnt => ep'.trncompl = TRUE /\ ep'.nack = TRUE
      /\ ~(n < EpSize \/ ep.aux + n >= ep.cnt) =>
           ep'.trncompl = ep.trncompl /\ ep'.nack = FALSE
  <2> DEFINE moved == ep.aux + n
             f == AfterPacket(e, moved, n, ep.cnt)
  <2>1. moved \in Nat /\ ep.cnt \in Nat /\ n \in Nat /\ e \in EndpointType
    BY <1>2, <1>3, <1>4, <1>5
  <2>2. moved = ep.aux + n /\ ep' = f
    BY <1>1
  <2> HIDE DEF moved
  <2>3. /\ f \in EndpointType
        /\ f.enabled = e.enabled /\ f.stall = e.stall /\ f.busy = e.busy
        /\ f.cnt = e.cnt /\ f.aux = e.aux /\ f.b_shortpacket = e.b_shortpacket
        /\ f.buf_size = e.buf_size /\ f.nb_trans = e.nb_trans
        /\ n < EpSize \/ moved >= ep.cnt => f.trncompl = TRUE /\ f.nack = TRUE
        /\ ~(n < EpSize \/ moved >= ep.cnt) =>
             f.trncompl = e.trncompl /\ f.nack = e.nack
    BY <2>1, MovedFields
  <2> HIDE DEF f
  <2> QED BY <1>4, <2>2, <2>3
<1> QED BY <1>3, <1>6 DEF n

LEMMA InPacketKeeps ==
  ASSUME Inv, InPacket
  PROVE  Inv'
<1> DEFINE n == Min2(EpSize, ep.cnt - ep.aux)
           inOrder == /\ n > 0 => link + ep.aux = wire.bytes
                      /\ wire.last = EpSize
                      /\ wire.bytes + n <= ep.buf_size
<1>1. /\ dir = "in" /\ ep.enabled /\ ~ep.stall /\ ~ep.nack
      /\ wire' = IF ~ep.busy THEN wire
                 ELSE [bytes |-> wire.bytes + n, last |-> n,
                       inOrder |-> wire.inOrder /\ inOrder]
      /\ dir' = dir /\ iso' = iso
      /\ link' = link /\ buf' = buf /\ cache' = cache /\ cached' = cached
      /\ waits' = waits /\ zlp' = zlp /\ report' = report /\ late' = late
  BY DEF InPacket, Seen, EpAnswers, Constant
<1>2. /\ n \in Nat /\ n <= EpSize /\ ep.aux + n <= ep.cnt
      /\ n < EpSize => ep.aux + n = ep.cnt
      /\ ep' \in EndpointType
      /\ ep'.enabled = ep.enabled /\ ep'.stall = ep.stall /\ ep'.busy = ep.busy
      /\ ep'.cnt = ep.cnt /\ ep'.aux = ep.aux + n
      /\ ep'.b_shortpacket = ep.b_shortpacket
      /\ ep'.buf_size = ep.buf_size /\ ep'.nb_trans = ep.nb_trans
      /\ n < EpSize \/ ep.aux + n >= ep.cnt => ep'.trncompl = TRUE /\ ep'.nack = TRUE
      /\ ~(n < EpSize \/ ep.aux + n >= ep.cnt) =>
           ep'.trncompl = ep.trncompl /\ ep'.nack = FALSE
  BY InMoved
<1> HIDE DEF n, inOrder
<1>3. fifo' \in Nat
  BY DEF InPacket, Signalled, Inv, Typed
<1>4. inOrder \in BOOLEAN /\ wire \in Packets /\ wire.last <= EpSize
  BY DEF inOrder, Inv, Typed
<1>5. wire' \in Packets /\ wire'.last <= EpSize
  <2>1. CASE ~ep.busy
    BY <1>1, <1>4, <2>1
  <2>2. CASE ep.busy
    <3> DEFINE ordered == wire.inOrder /\ inOrder
    <3>1. ordered \in BOOLEAN /\ wire.bytes + n \in Nat
      BY <1>2, <1>4 DEF Packets
    <3> HIDE DEF ordered
    <3>2. wire' = [bytes |-> wire.bytes + n, last |-> n, inOrder |-> ordered]
      BY <1>1, <2>2 DEF ordered
    <3> QED BY <1>2, <3>1, <3>2 DEF Packets
  <2> QED BY <2>1, <2>2
<1>6. Typed'
  BY <1>1, <1>2, <1>3, <1>5 DEF Inv, Typed
<1>7. Registration'
  <2>1. /\ ep.busy => ep.enabled
        /\ waits <=> ep.busy /\ ep.stall
    BY DEF Inv, Registration
  <2>2. ep'.aux <= ep'.cnt
    BY <1>2
  <2> QED BY <1>1, <1>2, <2>1, <2>2 DEF Registration
<1>8. KeptOut' /\ OutJobHoldsStream'
  BY <1>1 DEF KeptOut, OutJobHoldsStream
<1>9. CASE ~ep.busy
  <2>1. wire' = wire
    BY <1>1, <1>9
  <2>2. UnderWay'
    BY <1>2, <1>9 DEF UnderWay, Working
  <2>3. InJobWhole'
    BY <1>1, <1>2, <2>1 DEF Inv, InJobWhole
  <2> QED BY <1>6, <1>7, <1>8, <2>2, <2>3 DEF Inv
<1>10. CASE ep.busy
  <2>1. /\ wire'.bytes = wire.bytes + n /\ wire'.last = n
        /\ wire'.inOrder = (wire.inOrder /\ inOrder)
    BY <1>1, <1>10
  <2>2. InUnderWay /\ report = NoReport
    BY <1>1, <1>10 DEF Inv, UnderWay, Working
  <2>3. /\ ep.nb_trans \in Nat /\ ep.aux \in Nat /\ ep.cnt \in Nat /\ ep.buf_size \in Nat
        /\ wire.bytes \in Nat
        /\ EpSize \in Nat /\ EpSize > 0 /\ 0 % EpSize = 0
    BY <1>4, EpSizeAssumption, EndpointFields DEF Inv, Typed, Packets
  <2>4. /\ ep.nb_trans + ep.aux = wire.bytes
        /\ ep.nb_trans + ep.cnt <= ep.buf_size
        /\ ep.cnt > 0 => link = ep.nb_trans
        /\ ep.aux % EpSize = 0
        /\ ep.aux < ep.cnt \/ ep.cnt = 0
        /\ wire.last = EpSize
        /\ ep.trncompl => late
    BY <1>1, <2>2 DEF InUnderWay
  <2>5. inOrder
    <3>1. n > 0 => link + ep.aux = wire.bytes
      BY <1>2, <2>3, <2>4
    <3>2. wire.bytes + n <= ep.buf_size
      BY <1>2, <2>3, <2>4
    <3> QED BY <2>4, <3>1, <3>2 DEF inOrder
  <2>6. (ep.aux + n) % EpSize = n % EpSize
    <3>1. ep.aux \in Nat /\ n \in Nat /\ ep.aux % EpSize = 0
      BY <1>2, <2>3, <2>4
    <3> QED BY <3>1, WholeInFront
  <2>7. n < EpSize => n % EpSize = n
    BY <1>2, LessThanPacket
  <2>8. ep'.nack => /\ ep'.trncompl /\ ep'.aux = ep'.cnt
                    /\ wire'.last < EpSize <=> ep'.cnt = 0 \/ ep'.cnt % EpSize # 0
    <3>1. CASE n < EpSize
      <4>1. ep.aux + n = ep.cnt /\ ep.cnt % EpSize = n
        BY <1>2, <2>6, <2>7, <3>1
      <4>2. n = 0 <=> ep.cnt = 0
        BY <1>2, <2>3, <2>4, <4>1
      <4> QED BY <1>2, <2>1, <2>3, <3>1, <4>1, <4>2
    <3>2. CASE n = EpSize /\ ep.aux + n >= ep.cnt
      <4>1. ep.aux + n = ep.cnt /\ ep.cnt > 0
        BY <1>2, <2>3, <3>2
      <4>2. n % EpSize = 0
        BY <2>3, <3>2
      <4>3. ep.cnt % EpSize = 0
        BY <2>6, <4>1, <4>2
      <4> QED BY <1>2, <2>1, <2>3, <3>2, <4>1, <4>3
    <3>3. CASE n = EpSize /\ ep.aux + n < ep.cnt
      BY <1>2, <2>3, <3>3
    <3> QED BY <1>2, <2>3, <3>1, <3>2, <3>3
  <2>9. ~ep'.nack => /\ ep'.aux % EpSize = 0
                     /\ ep'.aux < ep'.cnt \/ ep'.cnt = 0
                     /\ wire'.last = EpSize
                     /\ ep'.trncompl => late'
    <3> SUFFICES ASSUME ~ep'.nack
                 PROVE  /\ ep'.aux % EpSize = 0
                        /\ ep'.aux < ep'.cnt
                        /\ wire'.last = EpSize
                        /\ ep'.trncompl => late'
      OBVIOUS
    <3>1. ~(n < EpSize \/ ep.aux + n >= ep.cnt)
      BY <1>2
    <3>2. n = EpSize /\ ep.aux + n < ep.cnt
      BY <1>2, <2>3, <3>1
    <3>3. n % EpSize = 0
      BY <2>3, <3>2
    <3>4. ep'.trncompl => late'
      BY <1>1, <1>2, <2>4, <3>1
    <3> QED BY <1>2, <2>1, <2>6, <3>2, <3>3, <3>4
  <2>10. InUnderWay'
    <3>1. /\ ep'.nb_trans % EpSize = 0
          /\ ep'.nb_trans + ep'.aux = wire'.bytes
          /\ ep'.aux <= ep'.cnt
          /\ ep'.nb_trans + ep'.cnt <= ep'.buf_size
          /\ ep'.cnt > 0 => link' = ep'.nb_trans
      <4>1. ep.nb_trans % EpSize = 0
        BY <2>2 DEF InUnderWay
      <4> QED BY <1>1, <1>2, <2>1, <2>3, <2>4, <4>1
    <3>2. /\ ep'.cnt = 0 => ep'.nb_trans = ep'.buf_size /\ zlp' /\ ~ep'.b_shortpacket
          /\ ep'.cnt % EpSize # 0 =>
               ep'.nb_trans + ep'.cnt = ep'.buf_size /\ ~ep'.b_shortpacket
          /\ ep'.b_shortpacket => zlp'
          /\ zlp' /\ ep'.buf_size % EpSize = 0 => ep'.b_shortpacket \/ ep'.cnt = 0
      BY <1>1, <1>2, <2>2 DEF InUnderWay
    <3> QED BY <2>8, <2>9, <3>1, <3>2 DEF InUnderWay
  <2>11. UnderWay'
    BY <1>1, <2>2, <2>10 DEF UnderWay
  <2>12. InJobWhole'
    <3>1. wire'.inOrder
      BY <1>1, <2>1, <2>5 DEF Inv, InJobWhole
    <3>2. report'.status # "ok"
      BY <1>1, <2>2 DEF NoReport
    <3> QED BY <3>1, <3>2 DEF InJobWhole
  <2> QED BY <1>6, <1>7, <1>8, <2>11, <2>12 DEF Inv
<1> QED BY <1>9, <1>10

-----------------------------------------------------------------------------
(***************************************************************************)
(* OUT.                                                                    *)
(***************************************************************************)
LEMMA OutJobFields ==
  ASSUME NEW e \in EndpointType, NEW job \in [size : Nat, shortpacket : BOOLEAN]
  PROVE  LET f == OutJob(e, job)
         IN  /\ f \in EndpointType
             /\ f.enabled = e.enabled /\ f.stall = e.stall /\ f.nack = e.nack
             /\ f.trncompl = e.trncompl /\ f.cnt = 0 /\ f.aux = 0
             /\ f.busy = TRUE /\ f.buf_size = job.size /\ f.nb_trans = 0
<1> DEFINE s == JobStarted(e, job)
           f == [s EXCEPT !.cnt = 0]
<1>1. /\ s \in EndpointType
      /\ s.enabled = e.enabled /\ s.stall = e.stall /\ s.nack = e.nack
      /\ s.trncompl = e.trncompl /\ s.aux = 0
      /\ s.busy = TRUE /\ s.buf_size = job.size /\ s.nb_trans = 0
  BY StartedFields
<1>2. OutJob(e, job) = f
  BY DEF OutJob
<1> HIDE DEF s
<1>3. /\ f \in EndpointType
      /\ f.enabled = s.enabled /\ f.stall = s.stall /\ f.nack = s.nack
      /\ f.trncompl = s.trncompl /\ f.cnt = 0 /\ f.aux = s.aux
      /\ f.busy = s.busy /\ f.buf_size = s.buf_size /\ f.nb_trans = s.nb_trans
  BY <1>1 DEF EndpointType
<1> QED BY <1>1, <1>2, <1>3

LEMMA RunRefusedKeeps ==
  ASSUME Inv, NEW size \in 0..MaxSize, NEW shortpacket \in BOOLEAN,
         RunRefused(size, shortpacket)
  PROVE  Inv'
<1> DEFINE full == shortpacket \/ size = 0
<1>1. /\ ep \in EndpointType /\ ep.enabled /\ ~ep.stall /\ ~ep.busy /\ ~waits
      /\ dir = "out"
      /\ ep' = [ep EXCEPT !.buf_size = size, !.nb_trans = 0, !.b_shortpacket = full]
      /\ cached' = FALSE /\ buf' = Fresh /\ cache' = FreshCache
      /\ zlp' = FALSE /\ wire' = NoPackets /\ report' = NoReport /\ late' = FALSE
      /\ dir' = dir /\ iso' = iso /\ fifo' = fifo /\ waits' = waits /\ link' = link
  BY DEF RunRefused, Refuses, EpRunAccepts, Constant, Inv, Typed, Registration
<1>2. size \in Nat /\ size <= MaxSize
  BY BoundsAssumption
<1>3. full \in BOOLEAN
  OBVIOUS
<1> HIDE DEF full
<1>4. /\ ep' \in EndpointType /\ ep'.busy = ep.busy /\ ep'.stall = ep.stall
      /\ ep'.enabled = ep.enabled /\ ep'.buf_size = size
  BY <1>1, <1>2, <1>3 DEF EndpointType
<1>5. Typed'
  <2>1. /\ link' \in Int /\ fifo' \in Nat /\ dir' \in {"in", "out"}
        /\ ep' \in EndpointType /\ ep'.buf_size <= MaxSize
        /\ iso' \in BOOLEAN /\ waits' \in BOOLEAN
    BY <1>1, <1>2, <1>4 DEF Inv, Typed
  <2>2. /\ buf' \in [Offset -> Int] /\ cache' \in [Slot -> Int]
        /\ wire' \in Packets /\ wire'.last <= EpSize /\ report' \in Reported
    BY <1>1, Typing
  <2>3. zlp' \in BOOLEAN /\ late' \in BOOLEAN /\ cached' \in BOOLEAN
    BY <1>1
  <2> QED BY <2>1, <2>2, <2>3 DEF Typed
<1>6. Registration'
  BY <1>1, <1>4 DEF Registration
<1>7. UnderWay' /\ InJobWhole'
  BY <1>1, <1>4 DEF UnderWay, Working, InJobWhole
<1>8. KeptOut'
  BY <1>1 DEF KeptOut, NoReport
<1>9. OutJobHoldsStream'
  BY <1>1 DEF OutJobHoldsStream, NoReport, Fresh
<1> QED BY <1>5, <1>6, <1>7, <1>8, <1>9 DEF Inv

LEMMA RunOut ==
  ASSUME Inv, dir = "out", NEW size \in 0..MaxSize, NEW shortpacket \in BOOLEAN,
         Run(size, shortpacket)
  PROVE  Inv'
<1> DEFINE job == [size |-> size, shortpacket |-> shortpacket]
           e == OutJob(ep, job)
<1>1. /\ ep \in EndpointType /\ ep.enabled /\ ~ep.stall /\ ~ep.busy /\ ~waits
      /\ zlp' = (shortpacket \/ size = 0) /\ wire' = NoPackets
      /\ late' = ep.trncompl /\ TransComplet(e, Fresh, FALSE, NoReport)
      /\ cache' = FreshCache /\ dir' = dir /\ iso' = iso
      /\ fifo' = fifo /\ waits' = waits
  BY DEF Run, EpRunAccepts, Constant, Inv, Typed, Registration, CallersBuffer
<1>2. /\ size \in Nat /\ size <= MaxSize /\ size <= 65535 /\ MaxSize \in Nat
      /\ EpSize \in Nat /\ EpSize > 0 /\ 0 % EpSize = 0
  BY BoundsAssumption, EpSizeAssumption
<1>3. /\ e \in EndpointType
      /\ e.enabled = ep.enabled /\ e.stall = ep.stall
      /\ e.trncompl = ep.trncompl /\ e.aux = 0 /\ e.cnt = 0
      /\ e.busy = TRUE /\ e.buf_size = size /\ e.nb_trans = 0
  <2>1. /\ job \in [size : Nat, shortpacket : BOOLEAN]
        /\ job.size = size
    BY <1>2
  <2> HIDE DEF job
  <2> QED BY <1>1, <2>1, OutJobFields
<1> HIDE DEF e
<1>4. Received(e) = 0 /\ (OutContinues(e) <=> size # 0)
  <2>1. Word(0) = 0
    BY WordExact
  <2>2. Received(e) = 0
    BY <1>2, <1>3, <2>1 DEF Received, Min2
  <2> QED BY <1>3, <2>2 DEF OutContinues
<1>5. /\ ep' \in EndpointType
      /\ ep'.enabled = ep.enabled /\ ep'.stall = ep.stall
      /\ ep'.trncompl = ep.trncompl /\ ep'.buf_size = size
      /\ ep'.nb_trans = 0 /\ buf' = Fresh
  BY <1>1, <1>3, <1>4, OutCompletion DEF CopyFromCache
<1>6. ASSUME size # 0
      PROVE  /\ ep'.cnt = 0 /\ ep'.nack = FALSE /\ ep'.busy = TRUE
             /\ report' = NoReport
  BY <1>1, <1>3, <1>4, <1>6, OutCompletion
<1>7. /\ wire'.bytes = 0 /\ wire'.last = EpSize /\ (late' <=> ep'.trncompl)
  BY <1>1, <1>5 DEF NoPackets
<1>8. /\ Fresh = [i \in Offset |-> IF i < 0 THEN i ELSE None]
      /\ FreshCache = [i \in Slot |-> IF i < 0 THEN 0 + i ELSE None]
  BY EpSizeAssumption, BoundsAssumption DEF Fresh, FreshCache, Offset, Slot
<1>9. ASSUME size # 0
      PROVE  (ToBuffer \/ ToCacheBuffer)' /\ ep'.aux > 0 /\ link' \in Int /\ cached' \in BOOLEAN
  <2>1. /\ OutNextTrans(e) \in Nat /\ OutNextTrans(e) <= size
        /\ OutNextTrans(e) % EpSize = 0
        /\ OutNextTrans(e) < EpSize => size < EpSize
    BY <1>2, <1>3, <1>4, OutNext
  <2>2. CASE OutNextTrans(e) < EpSize
    <3>1. ep'.aux = EpSize /\ link' = ToCache /\ cached' = TRUE
      BY <1>1, <1>3, <1>4, <1>9, <2>2, OutCompletion
    <3>2. Rest(ep)' = size
      BY <1>2, <1>5, <2>1, <2>2, LessThanPacket DEF Rest
    <3>3. ToCacheBuffer'
      BY <1>1, <1>2, <1>5, <1>6, <1>8, <1>9, <3>1, <3>2 DEF ToCacheBuffer
    <3> QED BY <1>2, <3>1, <3>3 DEF ToCache
  <2>3. CASE OutNextTrans(e) >= EpSize
    <3>1. ep'.aux = OutNextTrans(e) /\ link' = 0 /\ cached' = FALSE
      BY <1>1, <1>3, <1>4, <1>9, <2>3, OutCompletion
    <3>2. ep'.nb_trans + ep'.cnt = 0 /\ ep'.aux > 0 /\ ep'.nb_trans + ep'.aux <= size
      <4>1. ep'.nb_trans = 0 /\ ep'.cnt = 0
        BY <1>5, <1>6, <1>9
      <4>2. /\ OutNextTrans(e) \in Nat /\ OutNextTrans(e) <= size
            /\ EpSize \in Nat /\ EpSize > 0 /\ size \in Nat
        BY <1>2, <2>1
      <4> QED BY <2>3, <3>1, <4>1, <4>2
    <3>3. ToBuffer'
      BY <1>1, <1>5, <1>8, <2>1, <3>1, <3>2 DEF ToBuffer
    <3>4. link' \in Int
      BY <3>1
    <3>5. cached' \in BOOLEAN
      BY <3>1, Zenon
    <3> QED BY <3>2, <3>3, <3>4, <3>5, Zenon
  <2> QED BY <1>2, <2>1, <2>2, <2>3
<1>10. ASSUME size = 0
       PROVE  /\ ep'.busy = FALSE /\ report' = Report("ok", 0)
              /\ link' = link /\ cached' = FALSE
  BY <1>1, <1>3, <1>4, <1>10, OutCompletion
<1>11. Typed'
  <2>1. /\ fifo' \in Nat /\ dir' \in {"in", "out"}
        /\ ep' \in EndpointType /\ ep'.buf_size <= MaxSize
    BY <1>1, <1>2, <1>5 DEF Inv, Typed
  <2>2. /\ buf' \in [Offset -> Int] /\ cache' \in [Slot -> Int]
        /\ wire' \in Packets /\ wire'.last <= EpSize
    BY <1>1, <1>5, Typing
  <2>3. /\ iso' \in BOOLEAN /\ waits' \in BOOLEAN /\ ep.trncompl \in BOOLEAN
    BY <1>1, EndpointFields DEF Inv, Typed
  <2>4. zlp' \in BOOLEAN /\ late' \in BOOLEAN
    BY <1>1, <2>3
  <2>5. report' \in Reported /\ link' \in Int /\ cached' \in BOOLEAN
    <3>1. CASE size = 0
      BY <1>10, <3>1, Typing DEF Inv, Typed
    <3>2. CASE size # 0
      BY <1>6, <1>9, <3>2, Typing
    <3> QED BY <3>1, <3>2
  <2> QED BY <2>1, <2>2, <2>3, <2>4, <2>5 DEF Typed
<1>12. Registration'
  BY <1>1, <1>5 DEF Registration
<1>13. InJobWhole'
  BY <1>1 DEF InJobWhole
<1>14. CASE size # 0
  <2>1. OutUnderWay'
    <3>1. /\ ep'.nb_trans % EpSize = 0 /\ ep'.nb_trans + ep'.cnt = wire'.bytes
          /\ ep'.cnt < ep'.aux /\ ep'.cnt <= ep'.aux
          /\ ep'.cnt % EpSize = 0 /\ ~ep'.nack
      <4>1. /\ ep'.nb_trans = 0 /\ ep'.cnt = 0 /\ wire'.bytes = 0 /\ ep'.nack = FALSE
            /\ ep'.aux > 0
        BY <1>5, <1>6, <1>7, <1>9, <1>14
      <4>2. ep'.aux \in Nat
        BY <1>5, EndpointFields
      <4> QED BY <1>2, <4>1, <4>2
    <3>2. wire'.last = EpSize /\ (ep'.trncompl => late')
      BY <1>7
    <3> QED BY <1>9, <1>14, <3>1, <3>2 DEF OutUnderWay
  <2>2. UnderWay' /\ KeptOut'
    BY <1>1, <1>5, <1>6, <1>14, <2>1 DEF UnderWay, KeptOut, Working
  <2>3. OutJobHoldsStream'
    BY <1>5, <1>6, <1>14 DEF OutJobHoldsStream, NoReport, Fresh
  <2> QED BY <1>11, <1>12, <1>13, <2>2, <2>3 DEF Inv
<1>15. CASE size = 0
  <2>1. UnderWay' /\ KeptOut'
    BY <1>1, <1>5, <1>10, <1>15 DEF UnderWay, KeptOut, Working
  <2>2. OutJobHoldsStream'
    BY <1>5, <1>7, <1>10, <1>15 DEF OutJobHoldsStream, Report, Fresh, Min2
  <2> QED BY <1>11, <1>12, <1>13, <2>1, <2>2 DEF Inv
<1> QED BY <1>14, <1>15

LEMMA OutMoved ==
  ASSUME Inv, NEW n \in 0..EpSize, OutPacket(n)
  PROVE  /\ ep' \in EndpointType
         /\ ep'.enabled = ep.enabled /\ ep'.stall = ep.stall /\ ep'.busy = ep.busy
         /\ ep'.cnt = ep.cnt + n /\ ep'.aux = ep.aux
         /\ ep'.buf_size = ep.buf_size /\ ep'.nb_trans = ep.nb_trans
         /\ n < EpSize \/ ep.cnt + n >= ep.aux =>
              ep'.trncompl = TRUE /\ ep'.nack = TRUE
         /\ ~(n < EpSize \/ ep.cnt + n >= ep.aux) =>
              ep'.trncompl = ep.trncompl /\ ep'.nack = FALSE
<1> DEFINE e == [ep EXCEPT !.cnt = @ + n]
           moved == ep.cnt + n
           f == AfterPacket(e, moved, n, ep.aux)
<1>1. /\ ep \in EndpointType /\ ep.nack = FALSE /\ ep' = f
  BY EndpointFields DEF Inv, Typed, OutPacket, EpAnswers
<1>2. /\ n \in Nat /\ moved \in Nat /\ ep.aux \in Nat
  BY <1>1, EndpointFields, EpSizeAssumption
<1>3. /\ e \in EndpointType
      /\ e.enabled = ep.enabled /\ e.stall = ep.stall /\ e.busy = ep.busy
      /\ e.cnt = ep.cnt + n /\ e.aux = ep.aux
      /\ e.buf_size = ep.buf_size /\ e.nb_trans = ep.nb_trans
      /\ e.trncompl = ep.trncompl /\ e.nack = FALSE
  BY <1>1, <1>2 DEF EndpointType
<1>4. moved = ep.cnt + n
  OBVIOUS
<1> HIDE DEF e, moved
<1>5. /\ f \in EndpointType
      /\ f.enabled = e.enabled /\ f.stall = e.stall /\ f.busy = e.busy
      /\ f.cnt = e.cnt /\ f.aux = e.aux
      /\ f.buf_size = e.buf_size /\ f.nb_trans = e.nb_trans
      /\ n < EpSize \/ moved >= ep.aux => f.trncompl = TRUE /\ f.nack = TRUE
      /\ ~(n < EpSize \/ moved >= ep.aux) =>
           f.trncompl = e.trncompl /\ f.nack = e.nack
  <2>1. e \in EndpointType /\ moved \in Nat /\ n \in Nat /\ ep.aux \in Nat
    BY <1>2, <1>3
  <2>2. /\ f \in EndpointType
        /\ f.enabled = e.enabled /\ f.stall = e.stall /\ f.busy = e.busy
        /\ f.cnt = e.cnt /\ f.aux = e.aux /\ f.b_shortpacket = e.b_shortpacket
        /\ f.buf_size = e.buf_size /\ f.nb_trans = e.nb_trans
        /\ n < EpSize \/ moved >= ep.aux => f.trncompl = TRUE /\ f.nack = TRUE
        /\ ~(n < EpSize \/ moved >= ep.aux) =>
             f.trncompl = e.trncompl /\ f.nack = e.nack
    BY <2>1, MovedFields
  <2> QED BY <2>2, Zenon
<1> HIDE DEF f
<1> QED BY <1>1, <1>3, <1>4, <1>5

LEMMA OutPacketKeeps ==
  ASSUME Inv, NEW n \in 0..EpSize, OutPacket(n)
  PROVE  Inv'
<1>1. /\ dir = "out" /\ ep.enabled /\ ~ep.stall /\ ~ep.nack
      /\ IF ~ep.busy THEN buf' = buf /\ cache' = cache
         ELSE IF link = ToCache
           THEN /\ cache' = [i \in DOMAIN cache |->
                              IF i < n THEN wire.bytes + i ELSE cache[i]]
                /\ buf' = buf
           ELSE /\ buf' = [i \in Offset |->
                            IF i \in (link + ep.cnt)..(link + ep.cnt + n - 1)
                              THEN wire.bytes + (i - link - ep.cnt) ELSE buf[i]]
                /\ cache' = cache
      /\ wire' = IF ~ep.busy THEN wire
                 ELSE [bytes |-> wire.bytes + n, last |-> n,
                       inOrder |-> wire.inOrder /\ TRUE]
      /\ dir' = dir /\ iso' = iso
      /\ link' = link /\ cached' = cached
      /\ waits' = waits /\ zlp' = zlp /\ report' = report /\ late' = late
  BY DEF OutPacket, Seen, EpAnswers, Constant
<1>2. /\ n \in Nat /\ n <= EpSize /\ EpSize \in Nat /\ EpSize > 0
  BY EpSizeAssumption
<1>3. /\ ep' \in EndpointType
      /\ ep'.enabled = ep.enabled /\ ep'.stall = ep.stall /\ ep'.busy = ep.busy
      /\ ep'.cnt = ep.cnt + n /\ ep'.aux = ep.aux
      /\ ep'.buf_size = ep.buf_size /\ ep'.nb_trans = ep.nb_trans
      /\ n < EpSize \/ ep.cnt + n >= ep.aux => ep'.trncompl = TRUE /\ ep'.nack = TRUE
      /\ ~(n < EpSize \/ ep.cnt + n >= ep.aux) =>
           ep'.trncompl = ep.trncompl /\ ep'.nack = FALSE
  BY OutMoved
<1>4. fifo' \in Nat
  BY DEF OutPacket, Signalled, Inv, Typed
<1>5. /\ ep.nb_trans \in Nat /\ ep.aux \in Nat /\ ep.cnt \in Nat /\ ep.buf_size \in Nat
      /\ wire.bytes \in Nat /\ wire.last \in Nat /\ wire.last <= EpSize
      /\ wire.inOrder \in BOOLEAN
      /\ buf \in [Offset -> Int] /\ cache \in [Slot -> Int] /\ link \in Int
  BY EndpointFields DEF Inv, Typed, Packets
<1>6. /\ wire' \in Packets /\ wire'.last <= EpSize
      /\ buf' \in [Offset -> Int] /\ cache' \in [Slot -> Int]
  <2>1. CASE ~ep.busy
    BY <1>1, <2>1 DEF Inv, Typed
  <2>2. CASE ep.busy
    <3>1. /\ wire' = [bytes |-> wire.bytes + n, last |-> n, inOrder |-> wire.inOrder]
      BY <1>1, <1>5, <2>2
    <3>2. wire' \in Packets /\ wire'.last <= EpSize
      BY <1>2, <1>5, <3>1 DEF Packets
    <3>3. buf' \in [Offset -> Int] /\ cache' \in [Slot -> Int]
      <4>1. CASE link = ToCache
        <5>1. /\ cache' = [i \in Slot |-> IF i < n THEN wire.bytes + i ELSE cache[i]]
              /\ buf' = buf
          BY <1>1, <1>5, <2>2, <4>1
        <5>2. \A i \in Slot : (IF i < n THEN wire.bytes + i ELSE cache[i]) \in Int
          BY <1>2, <1>5 DEF Slot
        <5> QED BY <1>5, <5>1, <5>2
      <4>2. CASE link # ToCache
        <5>1. /\ buf' = [i \in Offset |->
                           IF i \in (link + ep.cnt)..(link + ep.cnt + n - 1)
                             THEN wire.bytes + (i - link - ep.cnt) ELSE buf[i]]
              /\ cache' = cache
          BY <1>1, <2>2, <4>2
        <5>2. \A i \in Offset : wire.bytes + (i - link - ep.cnt) \in Int /\ buf[i] \in Int
          BY <1>5 DEF Offset
        <5> QED BY <1>5, <5>1, <5>2
      <4> QED BY <4>1, <4>2
    <3> QED BY <3>2, <3>3
  <2> QED BY <2>1, <2>2
<1>7. Typed'
  BY <1>1, <1>3, <1>4, <1>6 DEF Inv, Typed
<1>8. Registration'
  <2>1. /\ ep.busy => ep.enabled
        /\ waits <=> ep.busy /\ ep.stall
    BY DEF Inv, Registration
  <2> QED BY <1>1, <1>3, <2>1 DEF Registration
<1>9. InJobWhole'
  BY <1>1 DEF InJobWhole
<1>10. CASE ~ep.busy
  <2>1. wire' = wire /\ buf' = buf /\ cache' = cache
    BY <1>1, <1>10
  <2>2. UnderWay'
    BY <1>3, <1>10 DEF UnderWay, Working
  <2>3. cache = FreshCache /\ (report.status = "ok" /\ ~late => ep.buf_size = 0)
    BY <1>1, <1>10 DEF Inv, KeptOut, Working, Quiet
  <2>4. KeptOut'
    BY <1>1, <1>3, <2>1, <2>3 DEF KeptOut
  <2>5. OutJobHoldsStream'
    BY <1>1, <1>3, <2>1 DEF Inv, OutJobHoldsStream
  <2> QED BY <1>7, <1>8, <1>9, <2>2, <2>4, <2>5 DEF Inv
<1>11. CASE ep.busy
  <2>1. OutUnderWay /\ report = NoReport
    BY <1>1, <1>11 DEF Inv, UnderWay, Working
  <2>2. /\ ep.nb_trans % EpSize = 0
        /\ ep.nb_trans + ep.cnt = wire.bytes
        /\ ToBuffer \/ ToCacheBuffer
        /\ ep.cnt % EpSize = 0 /\ ep.cnt < ep.aux
        /\ ep.trncompl => late
    BY <1>1, <2>1 DEF OutUnderWay
  <2>3. ep.aux % EpSize = 0
    BY <1>2, <2>2 DEF ToBuffer, ToCacheBuffer
  <2>4. ep.cnt + EpSize <= ep.aux
    BY <1>5, <2>2, <2>3, NextWhole
  <2>5. wire'.bytes = wire.bytes + n /\ wire'.last = n
    BY <1>1, <1>11
  <2>6. (ToBuffer \/ ToCacheBuffer)'
    <3>1. CASE ToBuffer
      <4>1. /\ link = ep.nb_trans /\ ~cached
            /\ ep.aux % EpSize = 0 /\ ep.aux > 0 /\ ep.nb_trans + ep.aux <= ep.buf_size
            /\ cache = FreshCache
            /\ buf = [i \in Offset |-> IF i < ep.nb_trans + ep.cnt THEN i ELSE None]
        BY <3>1 DEF ToBuffer
      <4>2. /\ cache' = cache
            /\ buf' = [i \in Offset |->
                            IF i \in (link + ep.cnt)..(link + ep.cnt + n - 1)
                              THEN wire.bytes + (i - link - ep.cnt) ELSE buf[i]]
        BY <1>1, <1>5, <1>11, <4>1 DEF ToCache
      <4>3. buf' = [i \in Offset |-> IF i < ep.nb_trans + ep.cnt + n THEN i ELSE None]
        <5> DEFINE at == ep.nb_trans + ep.cnt
        <5>1. at \in Nat /\ at = wire.bytes /\ at = link + ep.cnt /\ at = ep.nb_trans + ep.cnt
          BY <1>5, <2>2, <4>1
        <5>2. \A i \in Offset : i \in Nat /\ buf[i] = IF i < at THEN i ELSE None
          BY <4>1 DEF Offset
        <5> HIDE DEF at
        <5>3. ASSUME NEW i \in Offset
              PROVE  (IF i \in (link + ep.cnt)..(link + ep.cnt + n - 1)
                        THEN wire.bytes + (i - link - ep.cnt) ELSE buf[i])
                     = IF i < ep.nb_trans + ep.cnt + n THEN i ELSE None
          <6>1. i \in Nat /\ buf[i] = IF i < at THEN i ELSE None
            BY <5>2
          <6>2. /\ link + ep.cnt + n - 1 = at + n - 1
                /\ ep.nb_trans + ep.cnt + n = at + n
                /\ wire.bytes + (i - link - ep.cnt) = i
            BY <1>2, <1>5, <5>1, <6>1
          <6>3. i \in at..(at + n - 1) <=> at <= i /\ i < at + n
            BY <1>2, <5>1, <6>1
          <6> QED BY <1>2, <5>1, <6>1, <6>2, <6>3
        <5> QED BY <4>2, <5>3
      <4>4. ep'.nb_trans + ep'.cnt = ep.nb_trans + ep.cnt + n
        BY <1>2, <1>3, <1>5
      <4>5. ToBuffer'
        BY <1>1, <1>3, <4>1, <4>2, <4>3, <4>4 DEF ToBuffer
      <4> QED BY <4>5
    <3>2. CASE ToCacheBuffer
      <4>1. /\ link = ToCache /\ cached
            /\ ep.aux = EpSize
            /\ ep.nb_trans < ep.buf_size /\ ep.nb_trans + Rest(ep) = ep.buf_size
            /\ cache = [i \in Slot |-> IF i < ep.cnt THEN ep.nb_trans + i ELSE None]
            /\ buf = [i \in Offset |-> IF i < ep.nb_trans THEN i ELSE None]
        BY <3>2 DEF ToCacheBuffer
      <4>2. ep.cnt = 0 /\ wire.bytes = ep.nb_trans /\ ep'.cnt = n
        BY <1>2, <1>3, <1>5, <2>2, <2>4, <4>1
      <4>3. /\ cache' = [i \in Slot |-> IF i < n THEN ep.nb_trans + i ELSE cache[i]]
            /\ buf' = buf
        BY <1>1, <1>5, <1>11, <4>1, <4>2
      <4>4. \A i \in Slot : cache[i] = None
        BY <4>1, <4>2 DEF Slot
      <4>5. cache' = [i \in Slot |-> IF i < n THEN ep.nb_trans + i ELSE None]
        BY <4>3, <4>4
      <4>6. Rest(ep)' = Rest(ep)
        BY <1>3 DEF Rest
      <4>7. ToCacheBuffer'
        BY <1>1, <1>3, <4>1, <4>2, <4>3, <4>5, <4>6 DEF ToCacheBuffer
      <4> QED BY <4>7
    <3> QED BY <2>2, <3>1, <3>2
  <2>7. ep'.nack => ep'.trncompl /\ (ep'.cnt < ep'.aux <=> wire'.last < EpSize)
    <3>1. CASE n < EpSize
      <4>1. ep.cnt + n < ep.aux
        BY <1>2, <1>5, <2>4, <3>1
      <4> QED BY <1>3, <2>5, <3>1, <4>1
    <3>2. CASE n = EpSize /\ ep.cnt + n >= ep.aux
      <4>1. ~(ep'.cnt < ep'.aux) /\ ~(wire'.last < EpSize)
        BY <1>2, <1>3, <1>5, <2>5, <3>2
      <4> QED BY <1>3, <3>2, <4>1
    <3>3. CASE n = EpSize /\ ep.cnt + n < ep.aux
      <4>1. ~(n < EpSize \/ ep.cnt + n >= ep.aux)
        BY <1>2, <1>5, <3>3
      <4> QED BY <1>3, <4>1
    <3> QED BY <1>2, <1>5, <3>1, <3>2, <3>3
  <2>8. ~ep'.nack => /\ ep'.cnt % EpSize = 0 /\ ep'.cnt < ep'.aux
                     /\ wire'.last = EpSize
                     /\ ep'.trncompl => late'
    <3> SUFFICES ASSUME ~ep'.nack
                 PROVE  /\ ep'.cnt % EpSize = 0 /\ ep'.cnt < ep'.aux
                        /\ wire'.last = EpSize
                        /\ ep'.trncompl => late'
      OBVIOUS
    <3>1. ~(n < EpSize \/ ep.cnt + n >= ep.aux)
      BY <1>3
    <3>2. n = EpSize /\ ep.cnt + n < ep.aux
      BY <1>2, <1>5, <3>1
    <3>3. (ep.cnt + EpSize) % EpSize = 0
      BY <1>5, <2>2, WholePlusOne
    <3>4. ep'.trncompl => late'
      BY <1>1, <1>3, <2>2, <3>1
    <3> QED BY <1>3, <2>5, <3>2, <3>3, <3>4
  <2>9. OutUnderWay'
    <3>1. /\ ep'.nb_trans % EpSize = 0
          /\ ep'.nb_trans + ep'.cnt = wire'.bytes
          /\ ep'.cnt <= ep'.aux
      BY <1>2, <1>3, <1>5, <2>2, <2>4, <2>5
    <3> QED BY <2>6, <2>7, <2>8, <3>1 DEF OutUnderWay
  <2>10. UnderWay' /\ KeptOut'
    BY <1>1, <1>3, <1>11, <2>1, <2>9 DEF UnderWay, KeptOut, Working
  <2>11. \A i \in Offset : i >= ep.buf_size => buf'[i] = None
    <3>1. CASE ToBuffer'
      <4>1. /\ ep.nb_trans + ep.aux <= ep.buf_size
            /\ buf' = [i \in Offset |-> IF i < ep.nb_trans + ep'.cnt THEN i ELSE None]
            /\ ep'.cnt <= ep.aux
        BY <1>2, <1>3, <1>5, <2>4, <3>1 DEF ToBuffer
      <4>2. ep'.cnt \in Nat
        BY <1>3, EndpointFields
      <4> QED BY <1>5, <4>1, <4>2 DEF Offset
    <3>2. CASE ToCacheBuffer'
      <4>1. /\ ep.nb_trans < ep.buf_size
            /\ buf' = [i \in Offset |-> IF i < ep.nb_trans THEN i ELSE None]
        BY <1>3, <3>2 DEF ToCacheBuffer
      <4> QED BY <1>5, <4>1 DEF Offset
    <3> QED BY <2>6, <3>1, <3>2
  <2>12. OutJobHoldsStream'
    BY <1>1, <1>3, <2>1, <2>11 DEF OutJobHoldsStream, NoReport
  <2> QED BY <1>7, <1>8, <1>9, <2>10, <2>12 DEF Inv
<1> QED BY <1>10, <1>11

\* What the cache holds goes to the caller's buffer, in front of its end.
LEMMA CopyTyped ==
  ASSUME NEW e \in EndpointType, NEW b \in [Offset -> Int], NEW c \in BOOLEAN,
         cache \in [Slot -> Int]
  PROVE  CopyFromCache(e, b, c) \in [Offset -> Int]
<1>1. Rest(e) \in Nat /\ Rest(e) < EpSize /\ e.nb_trans \in Nat
  BY RestType, EndpointFields
<1>2. ASSUME NEW i \in Offset, i \in e.nb_trans..(e.nb_trans + Rest(e) - 1)
      PROVE  i - e.nb_trans \in Slot
  BY <1>1, <1>2, EpSizeAssumption DEF Offset, Slot
<1> QED BY <1>2 DEF CopyFromCache

\* What is common to the completions on an OUT endpoint.
LEMMA InterruptOut ==
  ASSUME Inv, Interrupt, ep.trncompl, dir = "out"
  PROVE  LET e == EpAckTc(ep)
         IN  /\ e \in EndpointType /\ e.cnt = ep.cnt /\ e.aux = ep.aux
             /\ e.busy = ep.busy /\ e.nack = ep.nack
             /\ e.buf_size = ep.buf_size /\ e.nb_trans = ep.nb_trans
             /\ TransComplet(e, buf, cached, report)
             /\ ep'.enabled = ep.enabled /\ ep'.stall = ep.stall
             /\ ep'.trncompl = FALSE /\ ep'.buf_size = ep.buf_size
             /\ ep'.busy => ep.busy
             /\ buf' = CopyFromCache(e, buf, cached)
             /\ wire' = wire /\ late' = late /\ dir' = dir /\ cache' = cache
             /\ Typed' /\ Registration' /\ InJobWhole'
<1> DEFINE e == EpAckTc(ep)
<1>1. /\ TransComplet(e, buf, cached, report)
      /\ waits' = (waits /\ ep'.busy) /\ cache' = cache /\ zlp' = zlp /\ wire' = wire
      /\ late' = late /\ dir' = dir /\ iso' = iso /\ fifo' = fifo - 1 /\ fifo > 0
  BY DEF Interrupt, Constant
<1>2. /\ ep \in EndpointType
      /\ e \in EndpointType /\ e.trncompl = FALSE
      /\ e.enabled = ep.enabled /\ e.stall = ep.stall /\ e.busy = ep.busy
      /\ e.cnt = ep.cnt /\ e.aux = ep.aux /\ e.nack = ep.nack
      /\ e.buf_size = ep.buf_size /\ e.nb_trans = ep.nb_trans
  BY AckTcFields DEF Inv, Typed
<1> HIDE DEF e
<1>3. /\ ep' \in EndpointType
      /\ ep'.enabled = ep.enabled /\ ep'.stall = ep.stall
      /\ ep'.trncompl = FALSE /\ ep'.buf_size = ep.buf_size
      /\ buf' = CopyFromCache(e, buf, cached)
  BY <1>1, <1>2, OutCompletion
<1>4. Received(e) \in Nat /\ buf' \in [Offset -> Int]
  BY <1>2, <1>3, ReceivedType, CopyTyped DEF Inv, Typed
<1>5. /\ ep'.busy => ep.busy
      /\ link' \in Int /\ cached' \in BOOLEAN /\ report' \in Reported
  <2>1. link \in Int /\ cached \in BOOLEAN /\ report \in Reported
    BY DEF Inv, Typed
  <2>2. OutNextTrans(e) < EpSize \/ OutNextTrans(e) >= EpSize
    BY <1>2, OutNext, EpSizeAssumption
  <2>3. CASE OutContinues(e) /\ OutNextTrans(e) < EpSize
    <3>1. /\ ep'.busy = ep.busy /\ link' = ToCache /\ cached' = TRUE /\ report' = report
      BY <1>1, <1>2, <2>3, OutCompletion
    <3>2. link' \in Int
      BY <3>1 DEF ToCache
    <3>3. cached' \in BOOLEAN
      BY <3>1, Zenon
    <3> QED BY <2>1, <3>1, <3>2, <3>3, Zenon
  <2>4. CASE OutContinues(e) /\ OutNextTrans(e) >= EpSize
    <3>1. /\ ep'.busy = ep.busy /\ link' = Received(e) /\ cached' = cached
          /\ report' = report
      BY <1>1, <1>2, <2>4, OutCompletion
    <3> QED BY <1>4, <2>1, <3>1
  <2>5. CASE ~OutContinues(e)
    <3>1. /\ ep'.busy = FALSE /\ link' = link /\ cached' = cached
          /\ report' \in {report, Report("ok", Received(e))}
      BY <1>1, <1>2, <2>5, OutCompletion
    <3> QED BY <1>4, <2>1, <3>1, Typing
  <2> QED BY <2>2, <2>3, <2>4, <2>5
<1>6. Typed'
  <2>1. fifo' \in Nat
    BY <1>1 DEF Inv, Typed
  <2>2. waits' \in BOOLEAN
    BY <1>1, <1>3, EndpointFields DEF Inv, Typed
  <2> QED BY <1>1, <1>3, <1>4, <1>5, <2>1, <2>2 DEF Inv, Typed
<1>7. Registration'
  <2>1. ep.busy => ep.enabled
    BY DEF Inv, Registration
  <2>2. ep'.busy \in BOOLEAN /\ ep.stall \in BOOLEAN
    BY <1>2, <1>3, EndpointFields
  <2>3. waits' <=> ep'.busy /\ ep'.stall
    BY <1>1, <1>3, <1>5, <2>2 DEF Inv, Registration
  <2> QED BY <1>1, <1>3, <1>5, <2>1, <2>3 DEF Registration
<1>8. InJobWhole'
  BY <1>1 DEF InJobWhole
<1> QED BY <1>1, <1>2, <1>3, <1>5, <1>6, <1>7, <1>8 DEF e

\* A completion that finds no job, or one that waits for the end of a halt:
\* what it copies is the cache as udd_ep_run left it.
LEMMA InterruptOutResting ==
  ASSUME Inv, Interrupt, ep.trncompl, dir = "out", ~Working(ep)
  PROVE  Inv'
<1> DEFINE e == EpAckTc(ep)
<1>1. /\ e \in EndpointType /\ e.busy = ep.busy
      /\ e.buf_size = ep.buf_size /\ e.nb_trans = ep.nb_trans
      /\ TransComplet(e, buf, cached, report)
      /\ ep'.stall = ep.stall /\ ep'.buf_size = ep.buf_size
      /\ ep'.busy => ep.busy
      /\ buf' = CopyFromCache(e, buf, cached)
      /\ wire' = wire /\ late' = late /\ dir' = dir /\ cache' = cache
      /\ Typed' /\ Registration' /\ InJobWhole'
  BY InterruptOut
<1> HIDE DEF e
<1>2. report' = report
  <2>1. e.busy => waits
    BY <1>1 DEF Inv, Registration, Working
  <2>2. CASE OutContinues(e)
    BY <1>1, <2>2, OutCompletion
  <2>3. CASE ~OutContinues(e)
    BY <1>1, <2>1, <2>3, OutCompletion
  <2> QED BY <2>2, <2>3
<1>3. cache = FreshCache /\ (report.status = "ok" /\ ~late => ep.buf_size = 0)
  BY DEF Inv, KeptOut, Quiet
<1>4. UnderWay' /\ KeptOut'
  BY <1>1, <1>2, <1>3 DEF UnderWay, Working, KeptOut
<1>5. /\ Rest(e) \in Nat /\ Rest(e) < EpSize /\ e.nb_trans \in Nat /\ ep.buf_size \in Nat
  BY <1>1, RestType, EndpointFields
<1>6. \A i \in Offset : buf'[i] = buf[i] \/ buf'[i] = None
  <2> SUFFICES ASSUME NEW i \in Offset, i \in e.nb_trans..(e.nb_trans + Rest(e) - 1)
               PROVE  cache[i - e.nb_trans] = None
    BY <1>1 DEF CopyFromCache
  <2>1. i - e.nb_trans \in Slot
    BY <1>5, EpSizeAssumption DEF Slot, Offset
  <2> QED BY <1>3, <2>1 DEF FreshCache, Slot
<1>7. ep.buf_size = 0 => \A i \in Offset : buf'[i] = buf[i]
  <2> SUFFICES ASSUME ep.buf_size = 0, NEW i \in Offset
               PROVE  buf'[i] = buf[i]
    OBVIOUS
  <2>1. Rest(e) = 0
    BY <1>1, LessThanPacket, EpSizeAssumption DEF Rest
  <2>2. ~(i \in e.nb_trans..(e.nb_trans + Rest(e) - 1))
    BY <1>5, <2>1 DEF Offset
  <2> QED BY <1>1, <2>2 DEF CopyFromCache
<1>8. OutJobHoldsStream'
  <2>1. /\ \A i \in Offset : i >= ep.buf_size => buf[i] = None
        /\ (report.status = "ok" /\ ~late) =>
             /\ report.count = Min2(wire.bytes, ep.buf_size)
             /\ report.count = ep.buf_size \/ wire.last < EpSize
             /\ \A i \in 0..(report.count - 1) : buf[i] = i
    BY DEF Inv, OutJobHoldsStream
  <2>2. \A i \in Offset : i >= ep.buf_size => buf'[i] = None
    BY <1>6, <2>1
  <2>3. ASSUME report.status = "ok", ~late
        PROVE  \A i \in 0..(report.count - 1) : buf'[i] = i
    <3>1. ep.buf_size = 0 /\ report.count = Min2(wire.bytes, 0) /\ wire.bytes \in Nat
      BY <1>3, <2>1, <2>3 DEF Inv, Typed, Packets
    <3> QED BY <3>1 DEF Min2
  <2> QED BY <1>1, <1>2, <2>1, <2>2, <2>3 DEF OutJobHoldsStream
<1> QED BY <1>1, <1>4, <1>8 DEF Inv

\* A completion of a job that moves data.
LEMMA InterruptOutWorking ==
  ASSUME Inv, Interrupt, ep.trncompl, dir = "out", Working(ep)
  PROVE  Inv'
<1> DEFINE e == EpAckTc(ep)
<1>1. /\ e \in EndpointType /\ e.cnt = ep.cnt /\ e.aux = ep.aux
      /\ e.busy = ep.busy /\ e.nack = ep.nack
      /\ e.buf_size = ep.buf_size /\ e.nb_trans = ep.nb_trans
      /\ TransComplet(e, buf, cached, report)
      /\ ep'.trncompl = FALSE /\ ep'.buf_size = ep.buf_size
      /\ buf' = CopyFromCache(e, buf, cached)
      /\ wire' = wire /\ late' = late /\ dir' = dir /\ cache' = cache
      /\ Typed' /\ Registration' /\ InJobWhole'
  BY InterruptOut
<1> HIDE DEF e
<1>2. /\ OutUnderWay /\ report = NoReport /\ ep.busy /\ ~waits
  BY DEF Inv, UnderWay, Working, Registration
<1>3. /\ ep.nb_trans \in Nat /\ ep.aux \in Nat /\ ep.cnt \in Nat /\ ep.buf_size \in Nat
      /\ wire.bytes \in Nat /\ wire.last \in Nat /\ wire.last <= EpSize
      /\ EpSize \in Nat /\ EpSize > 0
      /\ ep.buf_size + EpSize <= 65536
  BY EndpointFields, EpSizeAssumption, BoundsAssumption DEF Inv, Typed, Packets
<1>4. /\ ep.nb_trans % EpSize = 0
      /\ ep.nb_trans + ep.cnt = wire.bytes
      /\ ep.cnt <= ep.aux
      /\ ToBuffer \/ ToCacheBuffer
  BY <1>2 DEF OutUnderWay
<1>5. Rest(e) = Rest(ep) /\ Rest(ep) \in Nat /\ Rest(ep) < EpSize
  BY <1>1, RestType DEF Rest
<1>6. Received(e) = Min2(wire.bytes, ep.buf_size)
  <2>1. wire.bytes <= 65535
    <3>1. CASE ToBuffer
      <4>1. ep.nb_trans + ep.aux <= ep.buf_size
        BY <3>1 DEF ToBuffer
      <4> QED BY <1>3, <1>4, <4>1
    <3>2. CASE ToCacheBuffer
      <4>1. ep.aux = EpSize /\ ep.nb_trans < ep.buf_size
        BY <3>2 DEF ToCacheBuffer
      <4> QED BY <1>3, <1>4, <4>1
    <3> QED BY <1>4, <3>1, <3>2
  <2>2. Word(wire.bytes) = wire.bytes
    BY <1>3, <2>1, WordExact
  <2> QED BY <1>1, <1>4, <2>2 DEF Received
<1>7. ep.aux % EpSize = 0
  BY <1>3, <1>4 DEF ToBuffer, ToCacheBuffer
<1>8. CASE OutContinues(e)
  <2>1. /\ ep.cnt = ep.aux /\ Received(e) # ep.buf_size
        /\ wire.bytes < ep.buf_size /\ Received(e) = wire.bytes
    BY <1>1, <1>3, <1>6, <1>8 DEF OutContinues, Min2
  <2>2. ~ToCacheBuffer
    <3> SUFFICES ASSUME ToCacheBuffer PROVE FALSE
      OBVIOUS
    <3>1. ep.aux = EpSize /\ ep.nb_trans + Rest(ep) = ep.buf_size
      BY DEF ToCacheBuffer
    <3> QED BY <1>3, <1>4, <1>5, <2>1, <3>1
  <2>3. /\ link = ep.nb_trans /\ cached = FALSE
        /\ ep.aux % EpSize = 0
        /\ cache = FreshCache
        /\ buf = [i \in Offset |-> IF i < ep.nb_trans + ep.cnt THEN i ELSE None]
    <3>1. ToBuffer
      BY <1>4, <2>2
    <3> QED BY <3>1 DEF ToBuffer, Inv, Typed
  <2>4. buf' = buf
    BY <1>1, <2>3 DEF CopyFromCache
  <2>5. wire.bytes % EpSize = 0
    <3>1. /\ ep.nb_trans \in Nat /\ ep.cnt \in Nat /\ ep.nb_trans % EpSize = 0
          /\ ep.cnt % EpSize = 0
      BY <1>3, <1>4, <1>7, <2>1
    <3>2. (ep.nb_trans + ep.cnt) % EpSize = ep.cnt % EpSize
      BY <3>1, WholeInFront
    <3> QED BY <1>4, <3>1, <3>2
  <2>6. wire.last = EpSize
    BY <1>2, <1>3, <2>1 DEF OutUnderWay
  <2>7. /\ ep' \in EndpointType /\ ep'.nb_trans = wire.bytes
        /\ ep'.cnt = 0 /\ ep'.nack = FALSE /\ ep'.busy = ep.busy
        /\ report' = NoReport
    BY <1>1, <1>2, <1>8, <2>1, OutCompletion
  <2>8. /\ OutNextTrans(e) \in Nat /\ wire.bytes + OutNextTrans(e) <= ep.buf_size
        /\ OutNextTrans(e) % EpSize = 0
        /\ OutNextTrans(e) < EpSize => ep.buf_size - wire.bytes < EpSize
    <3>1. /\ OutNextTrans(e) \in Nat /\ OutNextTrans(e) <= ep.buf_size - wire.bytes
          /\ OutNextTrans(e) % EpSize = 0
          /\ OutNextTrans(e) < EpSize => ep.buf_size - wire.bytes < EpSize
      BY <1>1, <2>1, OutNext
    <3>2. wire.bytes + OutNextTrans(e) <= ep.buf_size
      BY <1>3, <3>1
    <3> QED BY <3>1, <3>2
  <2>9. (ToBuffer \/ ToCacheBuffer)' /\ ep'.aux > 0
    <3>1. CASE OutNextTrans(e) < EpSize
      <4>1. ep'.aux = EpSize /\ link' = ToCache /\ cached' = TRUE
        BY <1>1, <1>8, <3>1, OutCompletion
      <4>2. Rest(ep)' = ep.buf_size - wire.bytes
        <5> DEFINE rest == ep.buf_size - wire.bytes
        <5>1. rest \in Nat /\ rest < EpSize /\ wire.bytes + rest = ep.buf_size
          BY <1>3, <2>1, <2>8, <3>1
        <5> HIDE DEF rest
        <5>2. (wire.bytes + rest) % EpSize = rest % EpSize
          <6>1. wire.bytes \in Nat /\ rest \in Nat /\ wire.bytes % EpSize = 0
            BY <1>3, <2>5, <5>1
          <6> QED BY <6>1, WholeInFront
        <5>3. rest % EpSize = rest
          BY <5>1, LessThanPacket
        <5> QED BY <1>1, <5>1, <5>2, <5>3 DEF Rest, rest
      <4>3. wire.bytes + Rest(ep)' = ep.buf_size
        BY <1>3, <4>2
      <4>4. cache = [i \in Slot |-> IF i < 0 THEN wire.bytes + i ELSE None]
        BY <1>3, <2>3 DEF FreshCache, Slot
      <4>5. ToCacheBuffer'
        BY <1>1, <1>4, <2>1, <2>3, <2>4, <2>7, <4>1, <4>3, <4>4 DEF ToCacheBuffer
      <4> QED BY <1>3, <4>1, <4>5
    <3>2. CASE OutNextTrans(e) >= EpSize
      <4>1. ep'.aux = OutNextTrans(e) /\ link' = wire.bytes /\ cached' = FALSE
        BY <1>1, <1>8, <2>1, <2>3, <3>2, OutCompletion
      <4>2. OutNextTrans(e) > 0
        BY <1>3, <2>8, <3>2
      <4>3. ep'.nb_trans + ep'.cnt = wire.bytes
        BY <1>3, <2>7
      <4>4. ToBuffer'
        BY <1>1, <1>4, <2>3, <2>4, <2>7, <2>8, <4>1, <4>2, <4>3 DEF ToBuffer
      <4> QED BY <4>1, <4>2, <4>4
    <3> QED BY <1>3, <2>8, <3>1, <3>2
  <2>10. OutUnderWay'
    <3>1. ep'.aux \in Nat
      BY <2>7, EndpointFields
    <3>2. /\ ep'.nb_trans % EpSize = 0 /\ ep'.nb_trans + ep'.cnt = wire'.bytes
          /\ ep'.cnt < ep'.aux /\ ep'.cnt <= ep'.aux
      <4>1. /\ ep'.nb_trans = wire.bytes /\ ep'.cnt = 0 /\ ep'.aux > 0
            /\ wire'.bytes = wire.bytes /\ wire.bytes \in Nat
        BY <1>1, <1>3, <2>7, <2>9
      <4>2. ep'.nb_trans % EpSize = 0
        BY <2>5, <4>1
      <4> QED BY <3>1, <4>1, <4>2
    <3>3. ep'.cnt % EpSize = 0
      BY <1>3, <2>7
    <3>4. wire'.last = EpSize /\ ~ep'.trncompl /\ ~ep'.nack
      BY <1>1, <2>6, <2>7
    <3> QED BY <2>9, <3>2, <3>3, <3>4 DEF OutUnderWay
  <2>11. UnderWay' /\ KeptOut'
    BY <1>1, <2>3, <2>7, <2>10 DEF UnderWay, KeptOut, NoReport
  <2>12. OutJobHoldsStream'
    BY <1>1, <2>4, <2>7 DEF Inv, OutJobHoldsStream, NoReport
  <2> QED BY <1>1, <2>11, <2>12 DEF Inv
<1>9. CASE ~OutContinues(e)
  <2> DEFINE count == Min2(wire.bytes, ep.buf_size)
  <2>1. /\ ep'.nack = ep.nack /\ ep'.busy = FALSE
        /\ report' = Report("ok", count)
    BY <1>1, <1>2, <1>6, <1>9, OutCompletion
  <2>2. count \in Nat /\ count <= wire.bytes /\ count <= ep.buf_size
    BY <1>3 DEF Min2
  <2>3. cache = FreshCache \/ ep.nack
    <3> SUFFICES ASSUME ~ep.nack, ToCacheBuffer PROVE cache = FreshCache
      BY <1>4 DEF ToBuffer
    <3>1. ep.cnt % EpSize = 0 /\ ep.cnt < ep.aux /\ ep.aux = EpSize
      BY <1>2 DEF OutUnderWay, ToCacheBuffer
    <3>2. ep.cnt = 0
      <4>1. ep.cnt \in Nat /\ ep.cnt < EpSize /\ ep.cnt % EpSize = 0
        BY <1>3, <3>1
      <4> QED BY <4>1, LessThanPacket
    <3>3. cache = [i \in Slot |-> IF i < 0 THEN ep.nb_trans + i ELSE None]
      BY <3>2 DEF ToCacheBuffer
    <3> QED BY <1>3, <3>3 DEF FreshCache, Slot
  <2>4. ~ep.nack => late
    BY <1>2 DEF OutUnderWay
  <2>5. UnderWay'
    BY <2>1 DEF UnderWay, Working
  <2>6. KeptOut'
    BY <1>1, <2>1, <2>3, <2>4 DEF KeptOut, Quiet
  <2>7. ~late => count = ep.buf_size \/ wire.last < EpSize
    <3> SUFFICES ASSUME ~late, count # ep.buf_size PROVE wire.last < EpSize
      OBVIOUS
    <3>1. ep.cnt # ep.aux
      BY <1>1, <1>6, <1>9 DEF OutContinues
    <3>2. ep.cnt < ep.aux /\ ep.nack
      <4>1. ep.cnt \in Nat /\ ep.aux \in Nat /\ ep.cnt <= ep.aux
        BY <1>3, <1>4
      <4> QED BY <2>4, <3>1, <4>1
    <3> QED BY <1>2, <3>2 DEF OutUnderWay
  <2> HIDE DEF count
  <2>8. /\ \A i \in Offset : i >= ep.buf_size => buf'[i] = None
        /\ \A i \in Offset : i < count => buf'[i] = i
    <3>1. CASE ToBuffer
      <4>1. /\ cached = FALSE
            /\ buf = [i \in Offset |-> IF i < wire.bytes THEN i ELSE None]
        BY <1>4, <3>1 DEF ToBuffer, Inv, Typed
      <4>2. buf' = buf
        BY <1>1, <4>1 DEF CopyFromCache
      <4>3. wire.bytes <= ep.buf_size
        <5>1. ep.nb_trans + ep.aux <= ep.buf_size
          BY <3>1 DEF ToBuffer
        <5> QED BY <1>3, <1>4, <5>1
      <4> QED BY <1>3, <2>2, <4>1, <4>2, <4>3 DEF Offset
    <3>2. CASE ToCacheBuffer
      <4>1. /\ cached = TRUE
            /\ ep.nb_trans < ep.buf_size /\ ep.nb_trans + Rest(ep) = ep.buf_size
            /\ cache = [i \in Slot |-> IF i < ep.cnt THEN ep.nb_trans + i ELSE None]
            /\ buf = [i \in Offset |-> IF i < ep.nb_trans THEN i ELSE None]
        BY <3>2 DEF ToCacheBuffer, Inv, Typed
      <4>2. buf' = [i \in Offset |->
                      IF i \in ep.nb_trans..(ep.nb_trans + Rest(ep) - 1)
                        THEN cache[i - ep.nb_trans] ELSE buf[i]]
        BY <1>1, <1>5, <4>1 DEF CopyFromCache
      <4>3. ASSUME NEW i \in Offset, i < ep.nb_trans
            PROVE  buf'[i] = i
        <5>1. i \in Nat /\ ~(i \in ep.nb_trans..(ep.nb_trans + Rest(ep) - 1))
          BY <1>3, <1>5, <4>3 DEF Offset
        <5>2. buf'[i] = buf[i]
          BY <4>2, <5>1
        <5> QED BY <4>1, <4>3, <5>2
      <4>4. ASSUME NEW i \in Offset, i >= ep.nb_trans, i < ep.buf_size
            PROVE  buf'[i] = IF i < wire.bytes THEN i ELSE None
        <5>1. i \in Nat /\ i \in ep.nb_trans..(ep.nb_trans + Rest(ep) - 1)
          BY <1>3, <1>5, <4>1, <4>4 DEF Offset
        <5>2. i - ep.nb_trans \in Slot
          <6> DEFINE j == i - ep.nb_trans
          <6>1. j \in Nat
            BY <1>3, <4>4, <5>1
          <6>2. j < EpSize
            BY <1>3, <1>5, <4>1, <4>4, <5>1
          <6> QED BY <1>3, <6>1, <6>2 DEF Slot
        <5>3. buf'[i] = IF i - ep.nb_trans < ep.cnt
                          THEN ep.nb_trans + (i - ep.nb_trans) ELSE None
          BY <4>1, <4>2, <5>1, <5>2
        <5>4. /\ ep.nb_trans + (i - ep.nb_trans) = i
              /\ i - ep.nb_trans < ep.cnt <=> i < wire.bytes
          BY <1>3, <1>4, <5>1
        <5> QED BY <5>3, <5>4
      <4>5. ASSUME NEW i \in Offset, i >= ep.buf_size
            PROVE  buf'[i] = None
        <5>1. /\ i \in Nat /\ ~(i \in ep.nb_trans..(ep.nb_trans + Rest(ep) - 1))
              /\ ~(i < ep.nb_trans)
          BY <1>3, <1>5, <4>1, <4>5 DEF Offset
        <5>2. buf'[i] = buf[i]
          BY <4>2, <5>1
        <5> QED BY <4>1, <5>1, <5>2
      <4>6. ASSUME NEW i \in Offset, i < count
            PROVE  buf'[i] = i
        <5>1. i \in Nat /\ i < wire.bytes /\ i < ep.buf_size
          BY <1>3, <2>2, <4>6 DEF Offset
        <5> QED BY <1>3, <4>3, <4>4, <5>1
      <4> QED BY <4>5, <4>6
    <3> QED BY <1>4, <3>1, <3>2
  <2>9. \A i \in 0..(count - 1) : i \in Offset /\ i < count
    BY <1>3, <2>2, BoundsAssumption DEF Offset, Inv, Typed
  <2>10. OutJobHoldsStream'
    <3>1. report'.count = count /\ count = Min2(wire.bytes, ep.buf_size)
      BY <2>1 DEF Report, count
    <3>2. \A i \in 0..(report'.count - 1) : buf'[i] = i
      BY <2>8, <2>9, <3>1
    <3> QED BY <1>1, <2>7, <2>8, <3>1, <3>2 DEF OutJobHoldsStream
  <2> QED BY <1>1, <2>5, <2>6, <2>10 DEF Inv
<1> QED BY <1>8, <1>9

-----------------------------------------------------------------------------
LEMMA InvStep == Inv /\ [Next]_vars => Inv'
<1> SUFFICES ASSUME Inv, [Next]_vars PROVE Inv'
  OBVIOUS
<1>1. dir = "in" \/ dir = "out"
  BY DEF Inv, Typed
<1>2. CASE Alloc
  BY <1>2, AllocKeeps
<1>3. CASE Free \/ Abort \/ SetHalt
  BY <1>3, GivingUpKeeps
<1>4. CASE ClearHalt
  BY <1>4, ClearHaltKeeps
<1>5. CASE WaitStallClear
  BY <1>5, WaitStallClearKeeps
<1>6. ASSUME NEW size \in 0..MaxSize, NEW shortpacket \in BOOLEAN,
             Run(size, shortpacket) \/ RunRefused(size, shortpacket)
      PROVE  Inv'
  BY <1>1, <1>6, RunIn, RunOut, RunRefusedKeeps
<1>7. CASE Interrupt
  BY <1>1, <1>7, InterruptIdle, InterruptInWorking, InterruptInResting,
     InterruptOutWorking, InterruptOutResting
<1>8. CASE InPacket
  BY <1>8, InPacketKeeps
<1>9. ASSUME NEW n \in 0..EpSize, OutPacket(n)
      PROVE  Inv'
  BY <1>9, OutPacketKeeps
<1>10. CASE UNCHANGED vars
  BY <1>10 DEF Inv, Typed, Registration, UnderWay, Working, InUnderWay, OutUnderWay,
     ToBuffer, ToCacheBuffer, Rest, KeptOut, Quiet, InJobWhole, OutJobHoldsStream,
     vars, hardware
<1> QED
  BY <1>2, <1>3, <1>4, <1>5, <1>6, <1>7, <1>8, <1>9, <1>10 DEF Next

THEOREM TransfersInvariant == Spec => []Inv
<1> QED BY InitInv, InvStep, PTL DEF Spec

\* For every packet size, every size of a hardware transfer and of a job, and
\* whenever jobs are aborted, endpoints halted and completions handled late: an
\* IN job that udd_ep_trans_complet reports complete was sent whole, once and in
\* order, with a short packet at its end if and only if one was due.
THEOREM InJobSentWhole == Spec => []InJobWhole
<1>1. Inv => InJobWhole
  BY DEF Inv
<1> QED BY <1>1, TransfersInvariant, PTL

\* Likewise an OUT job: the bytes the host sent are in the caller's buffer, in
\* order and up to where the job ended, those that passed through
\* udd_ep_out_cache_buffer too, and none is behind its end.
THEOREM OutJobReceivedWhole == Spec => []OutJobHoldsStream
<1>1. Inv => OutJobHoldsStream
  BY DEF Inv
<1> QED BY <1>1, TransfersInvariant, PTL
=============================================================================
