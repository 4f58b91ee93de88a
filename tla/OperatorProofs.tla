--------------------------- MODULE OperatorProofs ---------------------------
(***************************************************************************)
(* Facts about the parts of the firmware that are modelled as operators:   *)
(* the tables of the endpoint driver (EndpointTable), the answers to SETUP *)
(* packets (SetupRequests) and the calls of the pin service (IoPort), for  *)
(* every value of their arguments and of the constants; and of the         *)
(* sequences of packets in MCSetupRequests, for descriptors of any length. *)
(***************************************************************************)
EXTENDS EndpointTable, MCSetupRequests, IoPort, TLAPS

-----------------------------------------------------------------------------
(***************************************************************************)
(* The arithmetic by which a completed transaction finds its endpoint, for *)
(* every number of endpoints and every place of the tables.                *)
(***************************************************************************)
DirectionBit == {0, 128}
AnEndpoint == {n + d : n \in 0..MaxEp, d \in DirectionBit}

\* An address taken apart.
LEMMA EndpointParts ==
  ASSUME NEW n \in 0..MaxEp, NEW d \in DirectionBit
  PROVE  /\ n + d \in Nat
         /\ Number(n + d) = n
         /\ IsIn(n + d) <=> d = 128
         /\ CtrlIndex(n + d) = 2 * n + (IF d = 128 THEN 1 ELSE 0)
<1>1. n \in 0..15
  BY MaxEpAssumption
<1>2. \A k \in 0..15 : k % 16 = k /\ (k + 128) % 16 = k
  OBVIOUS
<1>3. (d = 0 \/ d = 128) /\ n + d \in Nat
  BY <1>1 DEF DirectionBit
<1>4. Number(n + d) = n
  BY <1>1, <1>2, <1>3 DEF Number
<1>5. IsIn(n + d) <=> d = 128
  BY <1>1, <1>3 DEF IsIn
<1> QED BY <1>3, <1>4, <1>5 DEF CtrlIndex

\* The address of its table entry, which is what the hardware reports, leads
\* back to the endpoint (ISR(USB_TRNCOMPL_vect), udd_ep_get_ctrl).
THEOREM CompletionFindsItsEndpoint ==
  ASSUME NEW ep \in AnEndpoint
  PROVE  EndpointOf(CtrlAddress(ep)) = ep
<1>1. PICK n \in 0..MaxEp, d \in DirectionBit : ep = n + d
  BY DEF AnEndpoint
<1>2. n \in 0..15
  BY MaxEpAssumption
<1>3. CtrlIndex(ep) = 2 * n + (IF d = 128 THEN 1 ELSE 0)
  BY <1>1, EndpointParts
<1>4. CtrlAddress(ep) - TableAt = 8 * CtrlIndex(ep)
  BY <1>2, <1>3, MaxEpAssumption, TableAssumption DEF CtrlAddress, EntryBytes
<1>5. (CtrlAddress(ep) - TableAt) \div 8 = CtrlIndex(ep)
  <2>1. \A k \in 0..31 : (8 * k) \div 8 = k
    OBVIOUS
  <2>2. CtrlIndex(ep) \in 0..31
    BY <1>2, <1>3
  <2> QED BY <1>4, <2>1, <2>2
<1>6. \A k \in 0..15 : /\ (2 * k) \div 2 = k /\ (2 * k + 1) \div 2 = k
                       /\ (2 * k) % 2 = 0 /\ (2 * k + 1) % 2 = 1
  OBVIOUS
<1>7. CASE d = 0
  <2>1. CtrlIndex(ep) = 2 * n
    BY <1>2, <1>3, <1>7
  <2> QED BY <1>1, <1>2, <1>5, <1>6, <1>7, <2>1 DEF EndpointOf, EntryBytes
<1>8. CASE d = 128
  <2>1. CtrlIndex(ep) = 2 * n + 1
    BY <1>2, <1>3, <1>8
  <2> QED BY <1>1, <1>2, <1>5, <1>6, <1>8, <2>1 DEF EndpointOf, EntryBytes
<1> QED BY <1>7, <1>8 DEF DirectionBit

\* No two endpoints share a table entry or a job, and the jobs of the valid
\* endpoints are those of udd_ep_job.
THEOREM EndpointsHaveOwnEntries ==
  ASSUME NEW a \in AnEndpoint, NEW b \in AnEndpoint
  PROVE  /\ CtrlAddress(a) = CtrlAddress(b) => a = b
         /\ JobIndex(a) = JobIndex(b) => a = b
         /\ IsValid(a) <=> JobIndex(a) \in 0..(2 * MaxEp - 1)
<1>1. PICK n \in 0..MaxEp, d \in DirectionBit : a = n + d
  BY DEF AnEndpoint
<1>2. PICK m \in 0..MaxEp, e \in DirectionBit : b = m + e
  BY DEF AnEndpoint
<1>3. /\ n \in 0..15 /\ m \in 0..15 /\ MaxEp \in Nat /\ n <= MaxEp /\ m <= MaxEp
      /\ d = 0 \/ d = 128
      /\ e = 0 \/ e = 128
  BY MaxEpAssumption DEF DirectionBit
<1>4. /\ CtrlIndex(a) = 2 * n + (IF d = 128 THEN 1 ELSE 0)
      /\ CtrlIndex(b) = 2 * m + (IF e = 128 THEN 1 ELSE 0)
      /\ Number(a) = n
  BY <1>1, <1>2, EndpointParts
<1>5. CtrlIndex(a) = CtrlIndex(b) => a = b
  BY <1>1, <1>2, <1>3, <1>4
<1>6. /\ CtrlIndex(a) \in Nat /\ CtrlIndex(b) \in Nat /\ TableAt \in Nat
      /\ 4 * (MaxEp + 1) \in Nat
  BY <1>3, <1>4, TableAssumption
<1>7. CtrlAddress(a) = CtrlAddress(b) => CtrlIndex(a) = CtrlIndex(b)
  BY <1>6 DEF CtrlAddress, EntryBytes
<1>8. JobIndex(a) = JobIndex(b) => CtrlIndex(a) = CtrlIndex(b)
  BY <1>6 DEF JobIndex
<1>9. IsValid(a) <=> JobIndex(a) \in 0..(2 * MaxEp - 1)
  BY <1>3, <1>4 DEF IsValid, JobIndex
<1> QED BY <1>5, <1>7, <1>8, <1>9

\* The FIFO of completed transactions lies right below the table: every value
\* of its read pointer is a word of udd_sram.fifo, and no two the same.
THEOREM FifoIsBelowTable ==
  ASSUME NEW p \in (-FifoWords)..(-1), NEW q \in (-FifoWords)..(-1)
  PROVE  /\ FifoAddress(p) \in (TableAt - 4 * (MaxEp + 1))..(TableAt - 2)
         /\ FifoAddress(p) = FifoAddress(q) => p = q
<1>1. /\ MaxEp \in Int /\ 0 <= MaxEp /\ MaxEp <= 15
      /\ TableAt \in Int /\ 4 * (MaxEp + 1) <= TableAt /\ TableAt <= 65535
  BY MaxEpAssumption, TableAssumption
<1>2. FifoWords \in Int /\ FifoWords = 2 * (MaxEp + 1)
  BY <1>1 DEF FifoWords
<1>3. ASSUME NEW r \in (-FifoWords)..(-1)
      PROVE  /\ r \in Int /\ -FifoWords <= r /\ r <= -1
             /\ FifoAddress(r) = TableAt + 2 * r
  <2>1. r \in Int /\ -FifoWords <= r /\ r <= -1
    BY <1>2
  <2>2. TableAt - 2 * (1 + (-r - 1)) = TableAt + 2 * r
    BY <1>1, <2>1
  <2>3. -(2 * (MaxEp + 1)) <= r
    BY <1>1, <1>2, <2>1
  <2>4. 0 <= TableAt + 2 * r /\ TableAt + 2 * r < 65536
    BY <1>1, <2>1, <2>3
  <2>5. (TableAt + 2 * r) % 65536 = TableAt + 2 * r
    BY <1>1, <2>1, <2>4
  <2>6. FifoAddress(r) = (TableAt + 2 * r) % 65536
    BY <2>2 DEF FifoAddress
  <2> QED BY <2>1, <2>5, <2>6
<1>4. /\ p \in Int /\ -FifoWords <= p /\ p <= -1 /\ FifoAddress(p) = TableAt + 2 * p
      /\ q \in Int /\ FifoAddress(q) = TableAt + 2 * q
  BY <1>3
<1> QED BY <1>1, <1>2, <1>4

-----------------------------------------------------------------------------
(***************************************************************************)
(* udc_process_setup, for every packet, every state of the device and every *)
(* length of its descriptors.                                              *)
(***************************************************************************)
\* Answer of a routine for the packet p that links no more than the host asked
\* for, and something only for an accepted IN request.
Fits(a, p) ==
  /\ a.accept \in BOOLEAN
  /\ a.size \in Nat /\ a.size <= p.wLength
  /\ a.accept /\ p.dir = "in" => a.size > 0
  /\ ~(a.accept /\ p.dir = "in") => a.size = 0

\* The fields of a packet that the proofs need.
LEMMA PacketFields ==
  ASSUME NEW p \in Packet
  PROVE  p.wLength \in Nat /\ p.dir \in {"in", "out"}
BY DEF Packet

\* The size of a string descriptor fits its bLength byte and is not zero.
LEMMA StringLengthPositive ==
  ASSUME NEW i \in {0} \cup DOMAIN TextLength
  PROVE  StringLength(i) \in Nat \ {0}
<1>1. CASE i = 0
  BY <1>1 DEF StringLength
<1>2. CASE i # 0
  <2>1. TextLength[i] \in 1..126
    BY <1>2, TextAssumption
  <2>2. \A n \in 1..126 : (2 + 2 * n) % 256 = 2 + 2 * n
    OBVIOUS
  <2>3. StringLength(i) = 2 + 2 * TextLength[i]
    BY <1>2, <2>1, <2>2 DEF StringLength
  <2> QED BY <2>1, <2>3
<1> QED BY <1>1, <1>2

\* Reducing a size that is not zero to a wLength that is not zero.
LEMMA ClippedFits ==
  ASSUME NEW n \in Nat \ {0}, NEW p \in Packet, p.wLength # 0
  PROVE  Clipped(n, p) \in Nat \ {0} /\ Clipped(n, p) <= p.wLength
BY PacketFields DEF Clipped

\* A descriptor is linked, reduced to what is asked for.
LEMMA GetDescriptorFits ==
  ASSUME NEW p \in Packet, p.dir = "in", p.wLength # 0
  PROVE  Fits(GetDescriptor(p), p)
<1>1. CASE p.high = DescriptorType.DEVICE
  <2>1. Clipped(Length.DEVICE, p) \in Nat \ {0} /\ Clipped(Length.DEVICE, p) <= p.wLength
    BY LengthAssumption, ClippedFits
  <2> QED BY <1>1, <2>1 DEF GetDescriptor, Linked, Fits
<1>2. CASE p.high # DescriptorType.DEVICE /\ p.high = DescriptorType.CONFIGURATION
           /\ p.low < NumConfig
  <2>1. /\ Clipped(Length.CONFIGURATION, p) \in Nat \ {0}
        /\ Clipped(Length.CONFIGURATION, p) <= p.wLength
    BY LengthAssumption, ClippedFits
  <2> QED BY <1>2, <2>1 DEF GetDescriptor, Linked, Fits
<1>3. CASE /\ p.high # DescriptorType.DEVICE
           /\ ~(p.high = DescriptorType.CONFIGURATION /\ p.low < NumConfig)
           /\ p.high = DescriptorType.STRING /\ p.low \in {0} \cup DOMAIN TextLength
  <2>1. /\ Clipped(StringLength(p.low), p) \in Nat \ {0}
        /\ Clipped(StringLength(p.low), p) <= p.wLength
    BY <1>3, StringLengthPositive, ClippedFits
  <2> QED BY <1>3, <2>1 DEF GetDescriptor, Linked, Fits
<1>4. CASE GetDescriptor(p) = Refused
  BY <1>4, PacketFields DEF Refused, Fits
<1> QED BY <1>1, <1>2, <1>3, <1>4 DEF GetDescriptor

\* The same of the descriptors of the interface.
LEMMA GetHidDescriptorFits ==
  ASSUME NEW p \in Packet, p.dir = "in", p.wLength # 0
  PROVE  Fits(GetHidDescriptor(p), p)
<1>1. /\ Clipped(Length.HID, p) \in Nat \ {0} /\ Clipped(Length.HID, p) <= p.wLength
      /\ Clipped(Length.REPORT, p) \in Nat \ {0} /\ Clipped(Length.REPORT, p) <= p.wLength
  BY LengthAssumption, ClippedFits
<1> QED BY <1>1, PacketFields DEF GetHidDescriptor, Linked, Refused, Fits

\* What udc.c answers to a standard request.
LEMMA ReqStdFits ==
  ASSUME NEW d, NEW p \in Packet, p.dir = "in" => p.wLength # 0
  PROVE  Fits(ReqStd(d, p), p)
<1>1. CASE p.dir = "in"
  <2>1. Fits(GetDescriptor(p), p)
    BY <1>1, GetDescriptorFits
  <2>2. Fits(Refused, p)
    BY <1>1, PacketFields DEF Refused, Fits
  <2>3. Fits(GetStatus(p), p) /\ Fits(GetConfiguration(p), p) /\ Fits(GetInterface(d, p), p)
    BY <1>1, PacketFields DEF GetStatus, GetConfiguration, GetInterface, Linked, Refused, Fits
  <2> QED BY <1>1, <2>1, <2>2, <2>3 DEF ReqStd, GetStandard
<1>2. CASE p.dir # "in"
  <2>1. \A b \in BOOLEAN : Fits([accept |-> b, size |-> 0], p)
    BY <1>2, PacketFields DEF Fits
  <2> QED BY <1>2, <2>1 DEF ReqStd, SetStandard, AcceptIf
<1> QED BY <1>1, <1>2

\* What the HID interface answers.  A feature report has no bytes, so that an
\* IN request for it, whose wLength is not 0, is refused.
LEMMA HidSetupFits ==
  ASSUME NEW p \in Packet, p.dir = "in" => p.wLength # 0
  PROVE  Fits(HidSetup(p), p)
<1>1. CASE p.dir = "in"
  <2>1. Fits(GetHidDescriptor(p), p)
    BY <1>1, GetHidDescriptorFits
  <2>2. Fits(Linked(1), p) /\ Fits(Refused, p)
    BY <1>1, PacketFields DEF Linked, Refused, Fits
  <2>3. Fits(SetReport(p), p)
    <3>1. ~(p.high = 3 /\ p.low = 0 /\ p.wLength = 0)
      BY <1>1
    <3>2. SetReport(p) = Refused
      BY <3>1 DEF SetReport, AcceptIf, Refused
    <3> QED BY <2>2, <3>2
  <2> QED BY <1>1, <2>1, <2>2, <2>3 DEF HidSetup
<1>2. CASE p.dir # "in"
  <2>1. \A b \in BOOLEAN : Fits([accept |-> b, size |-> 0], p)
    BY <1>2, PacketFields DEF Fits
  <2>2. Fits(Refused, p)
    BY <1>2, PacketFields DEF Refused, Fits
  <2> QED BY <1>2, <2>1, <2>2 DEF HidSetup, SetReport, AcceptIf
<1> QED BY <1>1, <1>2

\* Every answer of udc_process_setup fits its request: this is what the state
\* machine of the control endpoint relies on when it counts payload bytes.
THEOREM EveryAnswerFitsItsRequest ==
  ASSUME NEW d, NEW p \in Packet
  PROVE  Fits(ProcessSetup(d, p), p) /\ AnswerFits(d, p)
<1>1. Fits(Refused, p)
  BY PacketFields DEF Refused, Fits
<1> SUFFICES Fits(ProcessSetup(d, p), p)
  BY PacketFields DEF AnswerFits, Fits
<1>2. CASE p.dir = "in" /\ p.wLength = 0
  BY <1>1, <1>2 DEF ProcessSetup
<1>3. CASE ~(p.dir = "in" /\ p.wLength = 0)
  <2>1. Fits(ReqStd(d, p), p)
    BY <1>3, ReqStdFits
  <2>2. Fits(HidSetup(p), p)
    BY <1>3, HidSetupFits
  <2> QED BY <1>1, <1>3, <2>1, <2>2 DEF ProcessSetup, ReqUdi
<1> QED BY <1>2, <1>3

\* Asking for fewer bytes gives fewer bytes of the same.
LEMMA ClippedInPieces ==
  ASSUME NEW s \in Nat \ {0}, NEW p, NEW q, p.wLength \in Nat \ {0}, q.wLength \in Nat \ {0}
  PROVE  p.wLength <= q.wLength => Clipped(s, p) = Clipped(Clipped(s, q), p)
BY DEF Clipped

\* Two answers to one question for two lengths.
Agree(a, b, p, q) ==
  /\ a.accept = b.accept
  /\ p.wLength <= q.wLength => a.size = Clipped(b.size, p)

LEMMA LinkedAgree ==
  ASSUME NEW s \in Nat \ {0}, NEW p, NEW q, p.wLength \in Nat \ {0}, q.wLength \in Nat \ {0}
  PROVE  Agree(Linked(Clipped(s, p)), Linked(Clipped(s, q)), p, q)
BY ClippedInPieces DEF Agree, Linked

LEMMA RefusedAgree ==
  ASSUME NEW p, NEW q, p.wLength \in Nat \ {0}
  PROVE  Agree(Refused, Refused, p, q)
BY DEF Agree, Refused, Clipped

\* The descriptors, of the device and of its interface.
LEMMA DescriptorsAgree ==
  ASSUME NEW p, NEW q, p.high = q.high, p.low = q.low,
         p.wLength \in Nat \ {0}, q.wLength \in Nat \ {0}
  PROVE  /\ Agree(GetDescriptor(p), GetDescriptor(q), p, q)
         /\ Agree(GetHidDescriptor(p), GetHidDescriptor(q), p, q)
<1>1. Agree(Refused, Refused, p, q)
  BY RefusedAgree
<1>2. /\ Agree(Linked(Clipped(Length.DEVICE, p)), Linked(Clipped(Length.DEVICE, q)), p, q)
      /\ Agree(Linked(Clipped(Length.CONFIGURATION, p)),
               Linked(Clipped(Length.CONFIGURATION, q)), p, q)
      /\ Agree(Linked(Clipped(Length.HID, p)), Linked(Clipped(Length.HID, q)), p, q)
      /\ Agree(Linked(Clipped(Length.REPORT, p)), Linked(Clipped(Length.REPORT, q)), p, q)
  BY LengthAssumption, LinkedAgree
<1>3. p.low \in {0} \cup DOMAIN TextLength =>
        Agree(Linked(Clipped(StringLength(p.low), p)),
              Linked(Clipped(StringLength(q.low), q)), p, q)
  <2>1. p.low \in {0} \cup DOMAIN TextLength => StringLength(p.low) \in Nat \ {0}
    BY StringLengthPositive
  <2> QED BY <2>1, LinkedAgree
<1>4. Agree(GetDescriptor(p), GetDescriptor(q), p, q)
  <2> HIDE DEF DescriptorType
  <2> QED BY <1>1, <1>2, <1>3 DEF GetDescriptor
<1>5. Agree(GetHidDescriptor(p), GetHidDescriptor(q), p, q)
  BY <1>1, <1>2 DEF GetHidDescriptor
<1> QED BY <1>4, <1>5

\* A host that asks for any length of a descriptor gets that much of what it
\* gets for any greater length, or is refused for both (the clipping of
\* payload_size in udc_req_std_dev_get_descriptor and udi_hid_setup).
THEOREM DescriptorsReadableInPieces ==
  ASSUME NEW d, NEW p \in Packet, NEW lengths \in SUBSET Nat
  PROVE  ReadableInPieces(d, p, lengths)
<1> SUFFICES ASSUME IsGetDescriptor(p), p.wLength > 0, NEW n \in lengths \ {0}
             PROVE  LET longer == [p EXCEPT !.wLength = n]
                    IN  Agree(ProcessSetup(d, p), ProcessSetup(d, longer), p, longer)
  BY PacketFields DEF ReadableInPieces, Agree, Packet
<1> DEFINE q == [p EXCEPT !.wLength = n]
<1>1. /\ q.wLength = n /\ q.wLength \in Nat \ {0} /\ p.wLength \in Nat \ {0}
      /\ q.dir = p.dir /\ q.type = p.type /\ q.recipient = p.recipient
      /\ q.bRequest = p.bRequest /\ q.high = p.high /\ q.low = p.low
      /\ q.interface = p.interface
  BY PacketFields DEF Packet
<1>2. p.dir = "in" /\ p.type = "STANDARD" /\ p.bRequest = Std.GET_DESCRIPTOR
  BY DEF IsGetDescriptor
<1> HIDE DEF q
<1>3. Agree(ReqStd(d, p), ReqStd(d, q), p, q)
  <2>1. /\ ReqStd(d, p) = IF p.recipient = "DEVICE" THEN GetDescriptor(p) ELSE Refused
        /\ ReqStd(d, q) = IF p.recipient = "DEVICE" THEN GetDescriptor(q) ELSE Refused
    BY <1>1, <1>2 DEF ReqStd, GetStandard, Std
  <2> QED BY <1>1, <2>1, DescriptorsAgree, RefusedAgree
<1>4. Agree(ReqUdi(d, p), ReqUdi(d, q), p, q)
  <2>1. HidSetup(p) = GetHidDescriptor(p) /\ HidSetup(q) = GetHidDescriptor(q)
    BY <1>1, <1>2 DEF HidSetup
  <2>2. ForInterface(p) <=> ForInterface(q)
    BY <1>1 DEF ForInterface
  <2>3. Agree(GetHidDescriptor(p), GetHidDescriptor(q), p, q) /\ Agree(Refused, Refused, p, q)
    BY <1>1, DescriptorsAgree, RefusedAgree
  <2> QED BY <2>1, <2>2, <2>3 DEF ReqUdi
<1>5. Agree(ProcessSetup(d, p), ProcessSetup(d, q), p, q)
  <2>1. ReqStd(d, p).accept = ReqStd(d, q).accept
    BY <1>3 DEF Agree
  <2>2. /\ ProcessSetup(d, p) = IF ReqStd(d, p).accept THEN ReqStd(d, p) ELSE ReqUdi(d, p)
        /\ ProcessSetup(d, q) = IF ReqStd(d, q).accept THEN ReqStd(d, q) ELSE ReqUdi(d, q)
    BY <1>1, <1>2 DEF ProcessSetup
  <2> QED BY <1>3, <1>4, <2>1, <2>2
<1> QED BY <1>5 DEF q

\* The eight bytes of every packet of the runs are a packet.
LEMMA PacketsArePackets == Packets \subseteq Packet
<1> SUFFICES ASSUME NEW bytes \in PacketBytes
             PROVE  SetupPacket(bytes) \in Packet
  BY DEF Packets
<1>1. /\ bytes[1] \in Nat /\ bytes[2] \in Nat /\ bytes[3] \in Nat /\ bytes[4] \in Nat
      /\ bytes[5] \in Nat /\ bytes[7] \in Nat /\ bytes[8] \in Nat
  BY DEF PacketBytes
<1>2. /\ Direction(bytes[1]) \in {"in", "out"}
      /\ RequestType(bytes[1]) \in {"STANDARD", "CLASS", "VENDOR", "RESERVED"}
      /\ Recipient(bytes[1]) \in {"DEVICE", "INTERFACE", "ENDPOINT", "OTHER"}
  BY DEF Direction, RequestType, Recipient
<1> QED BY <1>1, <1>2 DEF SetupPacket, Packet

\* In every sequence of packets and resets, whatever was selected before, no more
\* is linked than the host asked for (udc_process_setup).
THEOREM AnswersFit == Spec => []EveryAnswerFits
<1>1. EveryAnswerFits
  BY PacketsArePackets, EveryAnswerFitsItsRequest DEF EveryAnswerFits
<1> QED BY <1>1, PTL

\* In every sequence of packets and resets each descriptor can be read in pieces
\* (payload_size in udc_req_std_dev_get_descriptor).
THEOREM DescriptorsReadable == Spec => []EveryDescriptorReadableInPieces
<1>1. Lengths \in SUBSET Nat
  BY DEF Lengths
<1>2. EveryDescriptorReadableInPieces
  BY <1>1, PacketsArePackets, DescriptorsReadableInPieces DEF EveryDescriptorReadableInPieces
<1> QED BY <1>2, PTL

\* The transfers that this code asks of the control endpoint are all requests
\* of the kind that ControlEndpoint assumes (its RequestsAssumption).
THEOREM TransfersSuitControlEndpoint ==
  ASSUME NEW d, NEW p \in Packet
  PROVE  LET r == Transfer(d, p)
         IN  /\ r \in [dir : {"in", "out"}, wLength : Nat, accept : BOOLEAN, payload : Nat]
             /\ r.payload <= r.wLength
             /\ r.dir = "in" /\ r.accept => r.payload > 0
             /\ r.dir = "out" => r.payload = 0
<1>1. Fits(ProcessSetup(d, p), p)
  BY EveryAnswerFitsItsRequest
<1> QED BY <1>1, PacketFields DEF Fits, Transfer

\* A device that is not configured accepts nothing for its interface and no
\* class request.
THEOREM UnconfiguredInterfaceIsSilent ==
  ASSUME NEW d, NEW p \in Packet
  PROVE  InterfaceNeedsConfiguration(d, p)
<1>1. SUFFICES ASSUME ~d.configured, p.recipient = "INTERFACE" \/ p.type = "CLASS"
               PROVE  ~ProcessSetup(d, p).accept
  BY DEF InterfaceNeedsConfiguration, Device
<1>2. ReqUdi(d, p) = Refused
  BY <1>1 DEF ReqUdi
<1>3. p.type = "STANDARD" => ReqStd(d, p).accept = FALSE
  <2>1. SUFFICES ASSUME p.recipient = "INTERFACE", p.type = "STANDARD"
                 PROVE  ReqStd(d, p).accept = FALSE
    BY <1>1
  <2>2. GetStandard(d, p) = Refused
    BY <1>1, <2>1 DEF GetStandard, GetStatus, GetConfiguration, GetInterface
  <2>3. SetStandard(d, p).accept = FALSE
    BY <1>1, <2>1 DEF SetStandard, AcceptIf
  <2> QED BY <2>2, <2>3 DEF ReqStd, Refused
<1> QED BY <1>2, <1>3 DEF ProcessSetup, Refused

-----------------------------------------------------------------------------
(***************************************************************************)
(* Which pins a call of the I/O port service changes, for every state of   *)
(* the ports and every mask.                                               *)
(***************************************************************************)
\* All calls that go by the set, clear and toggle registers or by the control
\* registers leave the pins that the mask does not name as they were.
THEOREM CallsKeepOtherPins ==
  ASSUME NEW io \in [PortId -> Port], NEW port \in PortId, NEW mask \in SUBSET Pin,
         NEW bits \in SUBSET Pin, NEW level \in BOOLEAN, NEW flags
  PROVE  /\ KeepsOtherPins(io, EnablePort(io, port, mask), port, mask)
         /\ KeepsOtherPins(io, DisablePort(io, port, mask), port, mask)
         /\ KeepsOtherPins(io, SetPortMode(io, port, mask, bits), port, mask)
         /\ KeepsOtherPins(io, SetPortSenseMode(io, port, mask, bits), port, mask)
         /\ KeepsOtherPins(io, SetPortDir(io, port, mask, level), port, mask)
         /\ KeepsOtherPins(io, TogglePortLevel(io, port, mask), port, mask)
         /\ KeepsOtherPins(io, ConfigurePortPin(io, port, mask, flags), port, mask)
<1>1. ASSUME NEW ctrl
      PROVE  /\ SetCtrl(io, port, mask, ctrl)
                  = [io EXCEPT ![port] =
                       [io[port] EXCEPT !.ctrl =
                          [i \in Pin |-> IF i \in mask THEN ctrl[i] ELSE io[port].ctrl[i]]]]
             /\ KeepsOtherPins(io, SetCtrl(io, port, mask, ctrl), port, mask)
  BY DEF SetCtrl, KeepsOtherPins, Port
<1>2. KeepsOtherPins(io, EnablePort(io, port, mask), port, mask)
  BY <1>1 DEF EnablePort
<1>3. KeepsOtherPins(io, DisablePort(io, port, mask), port, mask)
  BY <1>1 DEF DisablePort
<1>4. KeepsOtherPins(io, SetPortMode(io, port, mask, bits), port, mask)
  BY <1>1 DEF SetPortMode
<1>5. KeepsOtherPins(io, SetPortSenseMode(io, port, mask, bits), port, mask)
  BY <1>1 DEF SetPortSenseMode
<1>6. KeepsOtherPins(io, SetPortDir(io, port, mask, level), port, mask)
  BY DEF SetPortDir, DirSet, DirClr, KeepsOtherPins, Port
<1>7. KeepsOtherPins(io, TogglePortLevel(io, port, mask), port, mask)
  BY DEF TogglePortLevel, OutTgl, KeepsOtherPins, Port
<1>8. KeepsOtherPins(io, ConfigurePortPin(io, port, mask, flags), port, mask)
  <2> DEFINE ctrl == [i \in Pin |-> {b \in Pin : b + 8 \in flags}]
             set == SetCtrl(io, port, mask, ctrl)
  <2>1. /\ set = [io EXCEPT ![port] =
                    [io[port] EXCEPT !.ctrl =
                       [i \in Pin |-> IF i \in mask THEN ctrl[i] ELSE io[port].ctrl[i]]]]
        /\ KeepsOtherPins(io, set, port, mask)
    BY <1>1
  <2>2. set \in [PortId -> Port]
    <3>1. [i \in Pin |-> IF i \in mask THEN ctrl[i] ELSE io[port].ctrl[i]] \in [Pin -> SUBSET Pin]
      BY DEF Port
    <3>2. \A f \in [Pin -> SUBSET Pin] : [io[port] EXCEPT !.ctrl = f] \in Port
      BY DEF Port
    <3> QED BY <2>1, <3>1, <3>2
  <2> HIDE DEF set
  <2>3. \A x \in [PortId -> Port] :
          /\ KeepsOtherPins(x, OutSet(x, port, mask), port, mask)
          /\ KeepsOtherPins(x, OutClr(x, port, mask), port, mask)
          /\ KeepsOtherPins(x, DirSet(x, port, mask), port, mask)
          /\ KeepsOtherPins(x, DirClr(x, port, mask), port, mask)
          /\ OutSet(x, port, mask) \in [PortId -> Port]
          /\ OutClr(x, port, mask) \in [PortId -> Port]
    BY DEF OutSet, OutClr, DirSet, DirClr, KeepsOtherPins, Port
  <2>4. \A x, y, z : KeepsOtherPins(x, y, port, mask) /\ KeepsOtherPins(y, z, port, mask)
                       => KeepsOtherPins(x, z, port, mask)
    BY DEF KeepsOtherPins
  <2>5. \/ ConfigurePortPin(io, port, mask, flags) = DirSet(OutSet(set, port, mask), port, mask)
        \/ ConfigurePortPin(io, port, mask, flags) = DirSet(OutClr(set, port, mask), port, mask)
        \/ ConfigurePortPin(io, port, mask, flags) = DirClr(set, port, mask)
    BY DEF ConfigurePortPin, set
  <2>6. /\ KeepsOtherPins(io, OutSet(set, port, mask), port, mask)
        /\ KeepsOtherPins(io, OutClr(set, port, mask), port, mask)
        /\ KeepsOtherPins(io, DirClr(set, port, mask), port, mask)
        /\ OutSet(set, port, mask) \in [PortId -> Port]
        /\ OutClr(set, port, mask) \in [PortId -> Port]
    BY <2>1, <2>2, <2>3, <2>4
  <2>7. /\ KeepsOtherPins(io, DirSet(OutSet(set, port, mask), port, mask), port, mask)
        /\ KeepsOtherPins(io, DirSet(OutClr(set, port, mask), port, mask), port, mask)
    BY <2>3, <2>4, <2>6
  <2> QED BY <2>5, <2>6, <2>7
<1> QED BY <1>2, <1>3, <1>4, <1>5, <1>6, <1>7, <1>8

\* Not so the level of a group: whatever the other pins of the port were, driving
\* a group high leaves it the only one that is high, and driving it low leaves
\* none (arch_ioport_set_port_level reads OUT from both registers).
THEOREM GroupLevelForgetsOthers ==
  ASSUME NEW io \in [PortId -> Port], NEW port \in PortId, NEW mask \in SUBSET Pin
  PROVE  /\ SetPortLevel(io, port, mask, TRUE)[port].out = mask
         /\ SetPortLevel(io, port, mask, FALSE)[port].out = {}
<1>1. \A x \in [PortId -> Port], b \in SUBSET Pin :
        /\ OutSet(x, port, b) \in [PortId -> Port]
        /\ OutSet(x, port, b)[port].out = x[port].out \cup b
        /\ OutClr(x, port, b)[port].out = x[port].out \ b
  <2> SUFFICES ASSUME NEW x \in [PortId -> Port], NEW b \in SUBSET Pin
               PROVE  /\ OutSet(x, port, b) \in [PortId -> Port]
                      /\ OutSet(x, port, b)[port].out = x[port].out \cup b
                      /\ OutClr(x, port, b)[port].out = x[port].out \ b
    OBVIOUS
  <2>1. x[port] \in Port /\ x[port].out \in SUBSET Pin
    BY DEF Port
  <2>2. [x[port] EXCEPT !.out = @ \cup b] \in Port
    BY <2>1 DEF Port
  <2>3. OutSet(x, port, b) \in [PortId -> Port]
    BY <2>2 DEF OutSet
  <2>4. /\ OutSet(x, port, b)[port].out = x[port].out \cup b
        /\ OutClr(x, port, b)[port].out = x[port].out \ b
    BY <2>1 DEF OutSet, OutClr, Port
  <2> QED BY <2>3, <2>4
<1>2. io[port].out \in SUBSET Pin
  BY DEF Port
<1>3. SetPortLevel(io, port, mask, TRUE)[port].out = mask
  <2> DEFINE high == OutSet(io, port, io[port].out \cup mask)
  <2>1. high \in [PortId -> Port] /\ high[port].out = io[port].out \cup mask
    BY <1>1, <1>2
  <2> HIDE DEF high
  <2>2. OutClr(high, port, high[port].out \ mask)[port].out
          = high[port].out \ (high[port].out \ mask)
    BY <1>1, <1>2, <2>1
  <2>3. SetPortLevel(io, port, mask, TRUE) = OutClr(high, port, high[port].out \ mask)
    BY DEF SetPortLevel, high
  <2> QED BY <2>1, <2>2, <2>3
<1>4. SetPortLevel(io, port, mask, FALSE)[port].out = {}
  <2> DEFINE low == OutSet(io, port, io[port].out \ mask)
  <2>1. low \in [PortId -> Port] /\ low[port].out = io[port].out
    <3>1. io[port].out \ mask \in SUBSET Pin
      BY <1>2
    <3>2. io[port].out \cup (io[port].out \ mask) = io[port].out
      OBVIOUS
    <3> QED BY <1>1, <3>1, <3>2
  <2> HIDE DEF low
  <2>2. OutClr(low, port, low[port].out \cup mask)[port].out
          = low[port].out \ (low[port].out \cup mask)
    BY <1>1, <1>2, <2>1
  <2>3. SetPortLevel(io, port, mask, FALSE) = OutClr(low, port, low[port].out \cup mask)
    BY DEF SetPortLevel, low
  <2> QED BY <2>1, <2>2, <2>3
<1> QED BY <1>3, <1>4
=============================================================================
