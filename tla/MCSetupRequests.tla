-------------------------- MODULE MCSetupRequests --------------------------
(***************************************************************************)
(* SETUP packets one after the other: what SetupRequests answers, and what *)
(* Interfaces, which goes by the bytes of the descriptors, does.  A        *)
(* request runs to its end before the next.  The device is this one, with  *)
(* every packet, or one with other interfaces, with the requests that      *)
(* select them.                                                            *)
(***************************************************************************)
EXTENDS SetupRequests, Interfaces

VARIABLES layout, addressed, udc, packet, answer

vars == <<layout, addressed, udc, packet, answer>>

Device0 == [configured |-> udc.configured, addressed |-> addressed]

\* Interface 0 with one or two settings, interface 1 with none, one or two; at
\* most two endpoints, which the settings of one interface may share.
Endpoint(a) == [bEndpointAddress |-> a, bmAttributes |-> 3, wMaxPacketSize |-> 8, bInterval |-> 4]
Setting(i, s, h, eps) == [number |-> i, alternate |-> s, hid |-> h, endpoints |-> eps]
Some(i, s, h, E) == {<<>>} \cup {<<Setting(i, s, h, e)>> : e \in E}
OtherLayouts ==
  LET E == [a \in {129, 2, 131} |-> <<Endpoint(a)>>]
  IN  {<<Setting(0, 0, TRUE, e)>> \o b \o <<Setting(1, 0, FALSE, c)>> \o d :
         e \in {<<>>, E[129], E[129] \o E[2]},
         b \in Some(0, 1, TRUE, {<<>>, E[129], E[2] \o E[129]}),
         c \in {<<>>, E[131]},
         d \in Some(1, 1, FALSE, {E[131]})}
      \cup {<<Setting(0, 1, FALSE, E[2]), Setting(0, 0, TRUE, E[129])>>}
Layouts == {DeviceLayout} \cup OtherLayouts
ConfOf == [l \in Layouts |-> UdcDesc(l)]
conf == ConfOf[layout]

\* Every request number the code knows and one it does not; every descriptor
\* type and two that are absent; the first and the second configuration, string
\* and interface; lengths around each limit.
Lengths == {0, 1, 2, 3, 4, 8, 9, 10, 18, 26, 27, 28, 34, 64, 255}
PacketBytes ==
  {d + t + r : d \in {0, 128}, t \in {0, 32, 64, 96}, r \in 0..3}   \* bmRequestType
    \X {0, 1, 2, 3, 5, 6, 8, 9, 10, 11, 12}                          \* bRequest
    \X (0..3) \X {0, 1, 2, 3, 15, 33, 34}                            \* wValue
    \X {0, 1} \X {0}                                                \* wIndex
    \X {0, 1, 2, 9, 64} \X {0, 1}                                   \* wLength
Packets == {SetupPacket(bytes) : bytes \in PacketBytes}
Selecting ==
  [dir : {"out"}, type : {"STANDARD"}, recipient : {"DEVICE", "INTERFACE"},
   bRequest : {5, 9, 11}, high : {0}, low : 0..2, interface : 0..2, wLength : {0}]

NoPacket == [dir |-> "none"]
NoAnswer == [accept |-> FALSE, size |-> -1]

Is(p, dir, recipient, request) ==
  p.type = "STANDARD" /\ p.dir = dir /\ p.recipient = recipient /\ p.bRequest = request

\* The requests that go by the descriptors.
Handled(p) ==
  CASE Is(p, "out", "DEVICE", Std.SET_CONFIGURATION) ->
         IF addressed /\ p.wLength = 0 /\ p.low <= NumConfig
         THEN SetConfiguration(conf, udc, p.low) ELSE Result(FALSE, udc)
    [] Is(p, "out", "INTERFACE", Std.SET_INTERFACE) ->
         IF p.wLength = 0 THEN SetInterface(conf, udc, p.interface, p.low)
         ELSE Result(FALSE, udc)
    [] Is(p, "in", "INTERFACE", Std.GET_INTERFACE) ->
         Result(p.wLength = 1 /\ GetInterfaceDone(conf, udc, p.interface), udc)
    [] Is(p, "in", "INTERFACE", Std.GET_DESCRIPTOR) ->
         LET at == HidDescriptorAt(conf, udc, p.interface)
         IN  Result(p.wLength > 0 /\ at # 0 /\ HidDescriptorSize(conf, at, p.high) > 0, udc)
    [] OTHER -> Result(ProcessSetup(Device0, p).accept, udc)

Init ==
  /\ layout \in Layouts
  /\ addressed = FALSE
  /\ udc = Unconfigured
  /\ packet = NoPacket
  /\ answer = NoAnswer

\* A request of this device, or of one with another layout.
Setup ==
  /\ packet = NoPacket
  /\ \E p \in IF layout = DeviceLayout THEN Packets ELSE Selecting :
       /\ packet' = p
       /\ answer' = IF layout = DeviceLayout THEN ProcessSetup(Device0, p)
                    ELSE [accept |-> Handled(p).done, size |-> 0]
  /\ UNCHANGED <<layout, addressed, udc>>

\* The request takes effect, or what it does before it is refused.
Done ==
  /\ packet # NoPacket
  /\ udc' = Handled(packet).device
  /\ addressed' = IF Is(packet, "out", "DEVICE", Std.SET_ADDRESS) /\ answer.accept
                  THEN packet.low # 0 ELSE addressed
  /\ packet' = NoPacket /\ answer' = NoAnswer
  /\ UNCHANGED layout

BusReset ==
  /\ packet = NoPacket
  /\ udc' = UdcReset(conf, udc)
  /\ addressed' = FALSE
  /\ UNCHANGED <<layout, packet, answer>>

Next == Setup \/ Done \/ BusReset

Spec == Init /\ [][Next]_vars

\* The string descriptors, from their characters, have the length that
\* udc_req_std_dev_get_str_desc computes.
ASSUME StringLengthsAgree ==
  /\ Len(UsbStrDesc(<<1033>>)) = StringLength(0)
  /\ \A i \in DOMAIN TextLength :
       Len(UsbStrDesc([k \in 1..TextLength[i] |-> 65])) = StringLength(i)

-----------------------------------------------------------------------------
\* Every packet has an answer that the control endpoint can carry out: no more
\* is linked than the host asked for (udc_process_setup).
EveryAnswerFits == packet \in Packets => AnswerFits(Device0, packet)

\* Every descriptor can be read in pieces, as hosts do to learn its length
\* (the clipping of payload_size in udc_req_std_dev_get_descriptor).
EveryDescriptorReadableInPieces ==
  packet \in Packets => ReadableInPieces(Device0, packet, Lengths)

\* Whatever the host selects, and whatever is refused halfway, the endpoints
\* allocated are those that the descriptor gives the settings in use, a
\* configuration is never refused, and the answers are those of SetupRequests
\* (udc_iface_enable, udc_iface_disable and their walks over the bytes).
SelectedEndpoints(i) ==
  UNION {{layout[k].endpoints[e].bEndpointAddress : e \in DOMAIN layout[k].endpoints} :
           k \in {j \in DOMAIN layout :
                    layout[j].number = i /\ layout[j].alternate = udc.setting[i]}}
InterfacesAsDescribed ==
  /\ ~udc.configured => udc.enabled = {}
  /\ udc.allocated = UNION {SelectedEndpoints(i) : i \in udc.enabled}
  /\ packet # NoPacket =>
       /\ Is(packet, "out", "DEVICE", Std.SET_CONFIGURATION) /\ addressed /\ packet.low = 1
            /\ packet.wLength = 0 => Handled(packet).done
       /\ answer.accept = Handled(packet).done
       /\ answer.accept /\ Is(packet, "in", "INTERFACE", Std.GET_DESCRIPTOR) =>
            answer.size = Clipped(HidDescriptorSize(conf, HidDescriptorAt(conf, udc, 0),
                                                    packet.high), packet)
=============================================================================
