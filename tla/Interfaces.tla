----------------------------- MODULE Interfaces -----------------------------
(***************************************************************************)
(* udc.c on the bytes of a configuration descriptor: how it finds an       *)
(* interface and its endpoints, and which endpoints are allocated as the   *)
(* host selects the configuration and alternate settings.  The code serves *)
(* any configuration; this program has one interface with one setting.     *)
(*                                                                         *)
(* A position is the index of the first byte of a descriptor; 0 is NULL.   *)
(* The routines are operators on the state of the device                   *)
(*   [configured : BOOLEAN,   udc_num_configuration # 0                    *)
(*    setting,                what getsetting() of each interface returns  *)
(*    enabled,                the interfaces that are enabled              *)
(*    allocated]              the endpoints that are allocated             *)
(***************************************************************************)
EXTENDS UsbDescriptors

Unconfigured == [configured |-> FALSE, setting |-> [i \in 0..3 |-> 0],
                 enabled |-> {}, allocated |-> {}]

\* The result of a routine: what it returns, and the device after it.
Result(done, u) == [done |-> done, device |-> u]

\* wTotalLength bytes after the start.
EofConf(conf) == 1 + conf[3] + 256 * conf[4]

NumberOfInterfaces(conf) == conf[5]

\* The positions that are reached from one by steps of bLength.
Following(conf, from) ==
  LET walk[at \in 1..(EofConf(conf) + 255)] ==
        IF at >= EofConf(conf) THEN {} ELSE {at} \cup walk[at + conf[at]]
  IN  walk[from]

TypeAt(conf, at) == conf[at + 1]
FirstOf(S) == IF S = {} THEN 0 ELSE Min(S)

\* Mutant: the search runs into the next interface.
NextDescInIfaceOpen(conf, from, type) ==
  FirstOf({at \in Following(conf, from + conf[from]) : TypeAt(conf, at) = type})

\* udc_next_desc_in_iface: an interface descriptor ends the search.
NextDescInIface(conf, from, type) ==
  LET rest == Following(conf, from + conf[from])
  IN  FirstOf({at \in rest :
                 /\ TypeAt(conf, at) = type
                 /\ \A b \in rest : b <= at => TypeAt(conf, b) # DT.INTERFACE})

\* udc_update_iface_desc: the first descriptor of that interface and setting.
UpdateIfaceDesc(conf, u, iface, setting) ==
  IF ~u.configured \/ iface >= NumberOfInterfaces(conf) THEN 0
  ELSE FirstOf({at \in Following(conf, 1) :
                  /\ TypeAt(conf, at) = DT.INTERFACE
                  /\ conf[at + 2] = iface /\ conf[at + 3] = setting})

\* The endpoint addresses of the setting at a position, in the order found.
EndpointsFrom(conf, from) ==
  LET found[at \in 1..Len(conf)] ==
        LET ep == NextDescInIface(conf, at, DT.ENDPOINT)
        IN  IF ep = 0 THEN <<>> ELSE <<conf[ep + 2]>> \o found[ep]
  IN  found[from]

\* Mutant: the endpoints of the first setting are freed.
IfaceDisableFirst(conf, u, iface) ==
  LET at == UpdateIfaceDesc(conf, u, iface, 0)
  IN  IF at = 0 THEN Result(FALSE, u)
      ELSE Result(TRUE, [u EXCEPT !.allocated = @ \ Range(EndpointsFrom(conf, at)),
                                  !.enabled = @ \ {iface}])

\* udc_iface_disable frees the endpoints of the setting the interface says it
\* has, then calls its disable().
IfaceDisable(conf, u, iface) ==
  LET at == UpdateIfaceDesc(conf, u, iface, u.setting[iface])
  IN  IF UpdateIfaceDesc(conf, u, iface, 0) = 0 \/ at = 0 THEN Result(FALSE, u)
      ELSE Result(TRUE, [u EXCEPT !.allocated = @ \ Range(EndpointsFrom(conf, at)),
                                  !.enabled = @ \ {iface}])

\* udd_ep_alloc for each, until one is refused because it is in use.
AllocEndpoints(u, endpoints) ==
  FoldLeft(LAMBDA r, ep :
             IF ~r.done \/ ep \in r.device.allocated THEN [r EXCEPT !.done = FALSE]
             ELSE [r EXCEPT !.device.allocated = @ \cup {ep}],
           Result(TRUE, u), endpoints)

\* udc_iface_enable: enable() of the interface takes the setting selected.
IfaceEnable(conf, u, iface, setting) ==
  LET at == UpdateIfaceDesc(conf, u, iface, setting)
      r  == AllocEndpoints(u, EndpointsFrom(conf, at))
  IN  IF at = 0 THEN Result(FALSE, u)
      ELSE IF ~r.done THEN r
      ELSE Result(TRUE, [r.device EXCEPT !.setting[iface] = setting,
                                         !.enabled = @ \cup {iface}])

InterfaceNumbers(conf) == [i \in 1..NumberOfInterfaces(conf) |-> i - 1]

\* udc_reset: every interface of a configuration, then none.
UdcReset(conf, u) ==
  IF ~u.configured THEN u
  ELSE [FoldLeft(LAMBDA v, i : IfaceDisable(conf, v, i).device, u, InterfaceNumbers(conf))
          EXCEPT !.configured = FALSE]

\* SET_CONFIGURATION of a number that exists: the old one is left whatever
\* comes, the interfaces are enabled until one fails.
SetConfiguration(conf, u, n) ==
  LET reset == UdcReset(conf, u)
  IN  IF n = 0 THEN Result(TRUE, reset)
      ELSE FoldLeft(LAMBDA r, i : IF r.done THEN IfaceEnable(conf, r.device, i, 0) ELSE r,
                    Result(TRUE, [reset EXCEPT !.configured = TRUE]), InterfaceNumbers(conf))

\* SET_INTERFACE: the present setting is disabled before the new one is looked
\* for.
SetInterface(conf, u, iface, setting) ==
  LET off == IfaceDisable(conf, u, iface)
  IN  IF ~u.configured \/ ~off.done THEN Result(FALSE, u)
      ELSE IfaceEnable(conf, off.device, iface, setting)

\* GET_INTERFACE finds the interface, or refuses.
GetInterfaceDone(conf, u, iface) == UpdateIfaceDesc(conf, u, iface, 0) # 0

\* udc_req_iface and udi_hid_reqstdifaceget_descriptor: the descriptor after
\* the selected setting must be the HID descriptor; where it is.
HidDescriptorAt(conf, u, iface) ==
  LET at == UpdateIfaceDesc(conf, u, iface, u.setting[iface])
  IN  IF UpdateIfaceDesc(conf, u, iface, 0) = 0 \/ at = 0 THEN 0
      ELSE IF TypeAt(conf, at + 9) = DT_HID.HID THEN at + 9 ELSE 0

\* What it links of the HID descriptor itself or, by wDescriptorLength, of the
\* report descriptor.
HidDescriptorSize(conf, at, type) ==
  IF type = DT_HID.HID THEN conf[at]
  ELSE IF type = conf[at + 6] THEN conf[at + 7] + 256 * conf[at + 8]
  ELSE 0
=============================================================================
