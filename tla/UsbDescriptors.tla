--------------------------- MODULE UsbDescriptors ---------------------------
(***************************************************************************)
(* The descriptors of the device as the bytes the host reads: the packed   *)
(* structures of usb_protocol.h and usb_protocol_hid.h, the values that    *)
(* udi_hid_generic_desc.c, udi_hid_generic.h and conf_usb.h give them, and *)
(* the configuration descriptor of any interfaces and alternate settings.  *)
(***************************************************************************)
EXTENDS Integers, SequencesExt, FiniteSetsExt

Byte(n) == <<n % 256>>

\* LE16: the AVR stores the low byte first, as USB sends it.
LE16(n) == <<n % 256, (n \div 256) % 256>>

\* A packed structure: bLength is its sizeof.
Descriptor(type, fields) ==
  LET body == FlattenSeq(fields) IN <<2 + Len(body), type>> \o body

DT == [DEVICE |-> 1, CONFIGURATION |-> 2, STRING |-> 3, INTERFACE |-> 4, ENDPOINT |-> 5]
DT_HID == [HID |-> 33, REPORT |-> 34]

UsbDevDesc(d) ==
  Descriptor(DT.DEVICE,
    <<LE16(d.bcdUSB), Byte(d.bDeviceClass), Byte(d.bDeviceSubClass), Byte(d.bDeviceProtocol),
      Byte(d.bMaxPacketSize0), LE16(d.idVendor), LE16(d.idProduct), LE16(d.bcdDevice),
      Byte(d.iManufacturer), Byte(d.iProduct), Byte(d.iSerialNumber), Byte(d.bNumConfigurations)>>)

UsbConfDesc(c) ==
  Descriptor(DT.CONFIGURATION,
    <<LE16(c.wTotalLength), Byte(c.bNumInterfaces), Byte(c.bConfigurationValue),
      Byte(c.iConfiguration), Byte(c.bmAttributes), Byte(c.bMaxPower)>>)

UsbIfaceDesc(i) ==
  Descriptor(DT.INTERFACE,
    <<Byte(i.bInterfaceNumber), Byte(i.bAlternateSetting), Byte(i.bNumEndpoints),
      Byte(i.bInterfaceClass), Byte(i.bInterfaceSubClass), Byte(i.bInterfaceProtocol),
      Byte(i.iInterface)>>)

UsbEpDesc(e) ==
  Descriptor(DT.ENDPOINT,
    <<Byte(e.bEndpointAddress), Byte(e.bmAttributes), LE16(e.wMaxPacketSize), Byte(e.bInterval)>>)

UsbHidDescriptor(h) ==
  Descriptor(DT_HID.HID,
    <<LE16(h.bcdHID), Byte(h.bCountryCode), Byte(h.bNumDescriptors),
      Byte(h.bRDescriptorType), LE16(h.wDescriptorLength)>>)

\* usb_str_lgid_desc_t, and usb_str_desc_t with two bytes for each character.
UsbStrDesc(characters) ==
  Descriptor(DT.STRING, [i \in DOMAIN characters |-> LE16(characters[i])])

-----------------------------------------------------------------------------
(***************************************************************************)
(* This build.                                                             *)
(***************************************************************************)
USB_DEVICE_EP_CTRL_SIZE == 8
UDI_HID_GENERIC_EP_IN == 1 + 128      \* 1 | USB_EP_DIR_IN
UDI_HID_REPORT_IN_SIZE == 2
UDI_HID_GENERIC_EP_SIZE == 8
USB_EP_TYPE_INTERRUPT == 3

\* USB_DEVICE_MANUFACTURE_NAME and USB_DEVICE_PRODUCT_NAME; no serial name.
Names == <<"ATMEL ASF", "HID Joystick">>

\* USB_CONFIG_ATTR_MUST_SET | REMOTE_WAKEUP | BUS_POWERED, and 100 mA.
USB_DEVICE_ATTR == 128 + 32 + 0
USB_CONFIG_MAX_POWER(ma) == (ma + 1) \div 2

UdcDeviceDesc ==
  [bcdUSB |-> 512, bDeviceClass |-> 0, bDeviceSubClass |-> 0, bDeviceProtocol |-> 0,
   bMaxPacketSize0 |-> USB_DEVICE_EP_CTRL_SIZE, idVendor |-> 1003, idProduct |-> 8498,
   bcdDevice |-> 256, iManufacturer |-> 1, iProduct |-> 2, iSerialNumber |-> 0,
   bNumConfigurations |-> 1]

\* Usage page and usage, collections, axes X and Y from 0 to 255, two fields of
\* eight bits, input, and the ends of the collections.
UdiHidGenericReportDesc ==
  <<5, 1, 9, 4, 161, 1, 161, 0, 5, 1, 9, 48, 9, 49,
    21, 0, 38, 255, 0, 117, 8, 149, 2, 129, 2, 192, 192>>

\* One setting of an interface: its number, its alternate setting, whether an
\* HID descriptor follows, and its endpoints.
UdiHidGenericDesc ==
  [number |-> 0, alternate |-> 0, hid |-> TRUE,
   endpoints |-> <<[bEndpointAddress |-> UDI_HID_GENERIC_EP_IN,
                    bmAttributes |-> USB_EP_TYPE_INTERRUPT,
                    wMaxPacketSize |-> UDI_HID_GENERIC_EP_SIZE, bInterval |-> 4]>>]
DeviceLayout == <<UdiHidGenericDesc>>

\* HID_CLASS, no boot protocol, no string; V1.11, no country, one descriptor.
HidDescriptor ==
  UsbHidDescriptor([bcdHID |-> 273, bCountryCode |-> 0, bNumDescriptors |-> 1,
                    bRDescriptorType |-> DT_HID.REPORT,
                    wDescriptorLength |-> Len(UdiHidGenericReportDesc)])
SettingBytes(s) ==
  UsbIfaceDesc([bInterfaceNumber |-> s.number, bAlternateSetting |-> s.alternate,
                bNumEndpoints |-> Len(s.endpoints), bInterfaceClass |-> 3,
                bInterfaceSubClass |-> 0, bInterfaceProtocol |-> 0, iInterface |-> 0])
  \o (IF s.hid THEN HidDescriptor ELSE <<>>)
  \o FlattenSeq([i \in DOMAIN s.endpoints |-> UsbEpDesc(s.endpoints[i])])

\* The configuration descriptor of the settings in a layout: wTotalLength is
\* the sizeof of all.
NumInterfaces(layout) == Cardinality({layout[i].number : i \in DOMAIN layout})
UdcDesc(layout) ==
  LET interfaces == FlattenSeq([i \in DOMAIN layout |-> SettingBytes(layout[i])])
  IN  UsbConfDesc([wTotalLength |-> 9 + Len(interfaces),
                   bNumInterfaces |-> NumInterfaces(layout), bConfigurationValue |-> 1,
                   iConfiguration |-> 0, bmAttributes |-> USB_DEVICE_ATTR,
                   bMaxPower |-> USB_CONFIG_MAX_POWER(100)])
      \o interfaces

\* What the model of SETUP packets takes of the descriptors.
DeviceLength ==
  [DEVICE |-> Len(UsbDevDesc(UdcDeviceDesc)), CONFIGURATION |-> Len(UdcDesc(DeviceLayout)),
   HID |-> Len(HidDescriptor), REPORT |-> Len(UdiHidGenericReportDesc)]
DeviceTexts == [i \in DOMAIN Names |-> Len(Names[i])]

-----------------------------------------------------------------------------
\* The host's reading of a report descriptor: an item is a prefix byte with its
\* kind and the number of its data bytes; Report Size and Report Count hold
\* until they are changed, and each Input item has that many bits.
InputBits(report) ==
  LET after(at) == at + 1 + <<0, 1, 2, 4>>[(report[at] % 4) + 1]
      bits[at \in 1..(Len(report) + 5), size \in 0..255, count \in 0..255] ==
        IF at > Len(report) THEN 0
        ELSE CASE report[at] \div 4 = 29 -> bits[after(at), report[at + 1], count]
               [] report[at] \div 4 = 37 -> bits[after(at), size, report[at + 1]]
               [] report[at] \div 4 = 32 -> size * count + bits[after(at), size, count]
               [] OTHER -> bits[after(at), size, count]
  IN  bits[1, 0, 0]

\* The report that the host expects is the report that is sent, and it is sent
\* in one packet; the strings that are named exist; the control endpoint has a
\* size the hardware has.
ASSUME DescriptorsConsistent ==
  /\ InputBits(UdiHidGenericReportDesc) = 8 * UDI_HID_REPORT_IN_SIZE
  /\ UDI_HID_REPORT_IN_SIZE <= UDI_HID_GENERIC_EP_SIZE
  /\ {UdcDeviceDesc.iManufacturer, UdcDeviceDesc.iProduct, UdcDeviceDesc.iSerialNumber}
       \subseteq {0} \cup DOMAIN Names
  /\ UdcDeviceDesc.bMaxPacketSize0 \in {8, 16, 32, 64}
=============================================================================
