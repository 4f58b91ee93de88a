------------------------- MODULE MCControlEndpoint -------------------------
EXTENDS ControlEndpoint

Req(d, len, ok, n) == [dir |-> d, wLength |-> len, accept |-> ok, payload |-> n]

\* A request of every shape the state machine has a branch for: all that was
\* asked for in full packets; more than a packet and ended by a short one; less
\* than asked for, ended by a short packet or, at a multiple of the packet size,
\* by a ZLP; no data; data there is no buffer for, in one packet and in two;
\* refused in both directions.
AllRequests ==
  {Req("in", 8, TRUE, 8), Req("in", 64, TRUE, 18), Req("in", 18, TRUE, 18),
   Req("in", 255, TRUE, 16), Req("in", 2, FALSE, 0),
   Req("out", 0, TRUE, 0), Req("out", 1, TRUE, 0), Req("out", 16, TRUE, 0),
   Req("out", 0, FALSE, 0), Req("out", 16, FALSE, 0)}

\* What this device makes of the packets below.
Setup == INSTANCE SetupRequests WITH
  Length <- [DEVICE |-> 18, CONFIGURATION |-> 34, HID |-> 9, REPORT |-> 27],
  TextLength <- <<9, 12>>, NumConfig <- 1

Pkt(dir, type, recipient, request, high, len) ==
  [dir |-> dir, type |-> type, recipient |-> recipient, bRequest |-> request,
   high |-> high, low |-> 0, interface |-> 0, wLength |-> len]

\* The device descriptor, the report descriptor (refused before it is
\* configured), SET_CONFIGURATION(0), SET_IDLE without a data stage and with one
\* of one packet and of two.
DevicePackets ==
  {Pkt("in", "STANDARD", "DEVICE", Setup!Std.GET_DESCRIPTOR, 1, 64),
   Pkt("in", "STANDARD", "INTERFACE", Setup!Std.GET_DESCRIPTOR, 34, 64),
   Pkt("out", "STANDARD", "DEVICE", Setup!Std.SET_CONFIGURATION, 0, 0),
   Pkt("out", "CLASS", "INTERFACE", Setup!Hid.SET_IDLE, 0, 0),
   Pkt("out", "CLASS", "INTERFACE", Setup!Hid.SET_IDLE, 0, 1),
   Pkt("out", "CLASS", "INTERFACE", Setup!Hid.SET_IDLE, 0, 16)}

DeviceRequests == {Setup!Transfer(d, p) : d \in Setup!Device, p \in DevicePackets}
=============================================================================
