--------------------------- MODULE SetupRequests ---------------------------
(***************************************************************************)
(* udc_process_setup, udi_hid_setup and what they call, as a function of   *)
(* the SETUP packet and the state of the device: which packets are         *)
(* accepted, and how many bytes are linked to udd_g_ctrlreq.payload.  What *)
(* an accepted OUT request does to the device is in HidDevice, and what    *)
(* the control endpoint does with the answer is in ControlEndpoint.        *)
(*                                                                         *)
(* The device has one interface, number 0, with alternate setting 0 only,  *)
(* and no feature report: UDI_HID_REPORT_FEATURE_SIZE is 0.                *)
(***************************************************************************)
EXTENDS Integers

CONSTANTS Length,      \* bytes of the DEVICE, CONFIGURATION, HID and REPORT descriptors
          TextLength,  \* TextLength[i]: characters of string i
          NumConfig    \* bNumConfigurations

ASSUME LengthAssumption ==
  Length \in [{"DEVICE", "CONFIGURATION", "HID", "REPORT"} -> Nat \ {0}]

\* bLength of the longest string fits its byte.
ASSUME TextAssumption ==
  /\ DOMAIN TextLength \subseteq 1..255
  /\ \A i \in DOMAIN TextLength : TextLength[i] \in 1..126

\* bRequest: one number is a standard request and a class request.
Std == [GET_STATUS |-> 0, CLEAR_FEATURE |-> 1, SET_FEATURE |-> 3, SET_ADDRESS |-> 5,
        GET_DESCRIPTOR |-> 6, GET_CONFIGURATION |-> 8, SET_CONFIGURATION |-> 9,
        GET_INTERFACE |-> 10, SET_INTERFACE |-> 11]
Feature == [HALT |-> 0, REMOTE_WAKEUP |-> 1]   \* of an endpoint, of the device
Hid == [GET_REPORT |-> 1, GET_IDLE |-> 2, GET_PROTOCOL |-> 3,
        SET_REPORT |-> 9, SET_IDLE |-> 10, SET_PROTOCOL |-> 11]
DescriptorType ==
  [DEVICE |-> 1, CONFIGURATION |-> 2, STRING |-> 3, HID |-> 33, REPORT |-> 34]

\* wValue is given as its two bytes; wIndex is the interface, or names endpoint
\* 1.  No answer depends on how wide the fields are.
Packet ==
  [dir       : {"in", "out"},
   type      : {"STANDARD", "CLASS", "VENDOR", "RESERVED"},
   recipient : {"DEVICE", "INTERFACE", "ENDPOINT", "OTHER"},
   bRequest  : Nat,
   high      : Nat,
   low       : Nat,
   interface : Nat,
   wLength   : Nat]

\* bmRequestType: bit 7, bits 5 and 6, bits 0 to 4.
Direction(bmRequestType) == IF bmRequestType \div 128 = 1 THEN "in" ELSE "out"
RequestType(bmRequestType) ==
  CASE (bmRequestType \div 32) % 4 = 0 -> "STANDARD"
    [] (bmRequestType \div 32) % 4 = 1 -> "CLASS"
    [] (bmRequestType \div 32) % 4 = 2 -> "VENDOR"
    [] OTHER -> "RESERVED"
Recipient(bmRequestType) ==
  CASE bmRequestType % 32 = 0 -> "DEVICE"
    [] bmRequestType % 32 = 1 -> "INTERFACE"
    [] bmRequestType % 32 = 2 -> "ENDPOINT"
    [] OTHER -> "OTHER"

\* The eight bytes of a SETUP packet, the 16-bit fields low byte first.
SetupPacket(bytes) ==
  [dir |-> Direction(bytes[1]), type |-> RequestType(bytes[1]),
   recipient |-> Recipient(bytes[1]), bRequest |-> bytes[2],
   low |-> bytes[3], high |-> bytes[4], interface |-> bytes[5],
   wLength |-> bytes[7] + 256 * bytes[8]]

\* What of the device the answer depends on.
Device == [configured : BOOLEAN, addressed : BOOLEAN]

Refused == [accept |-> FALSE, size |-> 0]
Linked(n) == [accept |-> TRUE, size |-> n]
AcceptIf(condition) == [accept |-> condition, size |-> 0]

-----------------------------------------------------------------------------
\* The size is reduced to what the request asks for.
Clipped(n, p) == IF p.wLength < n THEN p.wLength ELSE n

\* Two bytes for each character, in a byte.
StringLength(i) == IF i = 0 THEN 4 ELSE (2 + 2 * TextLength[i]) % 256

\* Mutant: the size that was linked is not reduced.
GetDescriptorWhole(p) ==
  IF p.high = DescriptorType.DEVICE THEN Linked(Length.DEVICE)
  ELSE IF p.high = DescriptorType.CONFIGURATION /\ p.low < NumConfig
  THEN Linked(Length.CONFIGURATION)
  ELSE IF p.high = DescriptorType.STRING /\ p.low \in {0} \cup DOMAIN TextLength
  THEN Linked(StringLength(p.low))
  ELSE Refused

\* There is no BOS descriptor.
GetDescriptor(p) ==
  IF p.high = DescriptorType.DEVICE THEN Linked(Clipped(Length.DEVICE, p))
  ELSE IF p.high = DescriptorType.CONFIGURATION /\ p.low < NumConfig
  THEN Linked(Clipped(Length.CONFIGURATION, p))
  ELSE IF p.high = DescriptorType.STRING /\ p.low \in {0} \cup DOMAIN TextLength
  THEN Linked(Clipped(StringLength(p.low), p))
  ELSE Refused

\* The status of the device or of an endpoint, in two bytes.
GetStatus(p) ==
  IF p.recipient \in {"DEVICE", "ENDPOINT"} /\ p.wLength = 2 THEN Linked(2) ELSE Refused

GetConfiguration(p) ==
  IF p.recipient = "DEVICE" /\ p.wLength = 1 THEN Linked(1) ELSE Refused

GetInterface(d, p) ==
  IF p.recipient = "INTERFACE" /\ p.wLength = 1 /\ d.configured /\ p.interface = 0
  THEN Linked(1) ELSE Refused

GetStandard(d, p) ==
  CASE p.recipient = "DEVICE" /\ p.bRequest = Std.GET_DESCRIPTOR -> GetDescriptor(p)
    [] p.bRequest = Std.GET_STATUS -> GetStatus(p)
    [] p.bRequest = Std.GET_CONFIGURATION -> GetConfiguration(p)
    [] p.bRequest = Std.GET_INTERFACE -> GetInterface(d, p)
    [] OTHER -> Refused

\* No data stage; the endpoint of the interface can always be allocated again
\* (HidDevice!ConfigurationNeverRefused).
SetStandard(d, p) ==
  AcceptIf(
    /\ p.wLength = 0
    /\ \/ p.recipient = "DEVICE" /\ p.bRequest = Std.SET_ADDRESS
       \/ /\ p.recipient = "DEVICE" /\ p.bRequest \in {Std.CLEAR_FEATURE, Std.SET_FEATURE}
          /\ p.high = 0 /\ p.low = Feature.REMOTE_WAKEUP
       \/ /\ p.recipient = "DEVICE" /\ p.bRequest = Std.SET_CONFIGURATION
          /\ d.addressed /\ p.low <= NumConfig
       \/ /\ p.recipient = "INTERFACE" /\ p.bRequest = Std.SET_INTERFACE
          /\ d.configured /\ p.interface = 0 /\ p.low = 0
       \/ /\ p.recipient = "ENDPOINT" /\ p.bRequest \in {Std.CLEAR_FEATURE, Std.SET_FEATURE}
          /\ p.high = 0 /\ p.low = Feature.HALT)

ReqStd(d, p) == IF p.dir = "in" THEN GetStandard(d, p) ELSE SetStandard(d, p)

\* udi_hid_generic_setreport, with no bytes in a feature report.
SetReport(p) == AcceptIf(p.high = 3 /\ p.low = 0 /\ p.wLength = 0)

GetHidDescriptor(p) ==
  IF p.high = DescriptorType.HID THEN Linked(Clipped(Length.HID, p))
  ELSE IF p.high = DescriptorType.REPORT THEN Linked(Clipped(Length.REPORT, p))
  ELSE Refused

\* udi_hid_setup looks at the direction, the type and the request only.
HidSetup(p) ==
  IF p.type = "STANDARD" /\ p.dir = "in" /\ p.bRequest = Std.GET_DESCRIPTOR
  THEN GetHidDescriptor(p)
  ELSE IF p.type # "CLASS" THEN Refused
  ELSE IF p.dir = "in"
  THEN IF p.bRequest = Hid.GET_REPORT THEN SetReport(p)
       ELSE IF p.bRequest \in {Hid.GET_IDLE, Hid.GET_PROTOCOL} THEN Linked(1)
       ELSE Refused
  ELSE IF p.bRequest = Hid.SET_REPORT THEN SetReport(p)
  ELSE AcceptIf(\/ p.bRequest = Hid.SET_IDLE          \* whatever wLength is
                \/ p.bRequest = Hid.SET_PROTOCOL /\ p.wLength = 0)

\* The interface 0, or an endpoint: those requests are offered to every interface.
ForInterface(p) == p.recipient = "ENDPOINT" \/ (p.recipient = "INTERFACE" /\ p.interface = 0)

\* Mutant: the requests of the interface are decoded before it is enabled.
ReqUdiUnconfigured(d, p) == IF ForInterface(p) THEN HidSetup(p) ELSE Refused

ReqUdi(d, p) == IF d.configured /\ ForInterface(p) THEN HidSetup(p) ELSE Refused

\* A standard request that udc_reqstd refuses is still offered to the interface.
ProcessSetup(d, p) ==
  IF p.dir = "in" /\ p.wLength = 0 THEN Refused
  ELSE IF p.type = "STANDARD" /\ ReqStd(d, p).accept THEN ReqStd(d, p)
  ELSE ReqUdi(d, p)

\* The transfer that the control endpoint runs for the packet.
Transfer(d, p) ==
  [dir |-> p.dir, wLength |-> p.wLength,
   accept |-> ProcessSetup(d, p).accept, payload |-> ProcessSetup(d, p).size]
-----------------------------------------------------------------------------
(***************************************************************************)
(* Properties of an answer.                                                *)
(***************************************************************************)

\* What ControlEndpoint assumes of every request: no more is linked than the
\* host asked for, something is linked for an IN request that is accepted, and
\* nothing for any other.
AnswerFits(d, p) ==
  LET a == ProcessSetup(d, p)
  IN  /\ a.size \in Nat /\ a.size <= p.wLength
      /\ a.accept /\ p.dir = "in" <=> a.size > 0

\* A host may read a descriptor in pieces: whatever length it asks for, it gets
\* that much of the same descriptor.
IsGetDescriptor(p) ==
  p.dir = "in" /\ p.type = "STANDARD" /\ p.bRequest = Std.GET_DESCRIPTOR
ReadableInPieces(d, p, lengths) ==
  IsGetDescriptor(p) /\ p.wLength > 0 =>
    \A n \in lengths \ {0} :
      LET longer == [p EXCEPT !.wLength = n]
      IN  /\ ProcessSetup(d, longer).accept = ProcessSetup(d, p).accept
          /\ n >= p.wLength => ProcessSetup(d, p).size = Clipped(ProcessSetup(d, longer).size, p)

\* Until it is configured the device accepts nothing that is meant for its
\* interface, and no class request.
InterfaceNeedsConfiguration(d, p) ==
  ProcessSetup(d, p).accept /\ (p.recipient = "INTERFACE" \/ p.type = "CLASS") => d.configured
=============================================================================
