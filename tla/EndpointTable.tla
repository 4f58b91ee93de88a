--------------------------- MODULE EndpointTable ---------------------------
(***************************************************************************)
(* How usb_device.c finds an endpoint in its tables: the entry in the      *)
(* hardware's endpoint table, the job, and from an entry of the FIFO of    *)
(* completed transactions back to the endpoint; and how it codes the type  *)
(* and the size of an endpoint in the entry.  An endpoint is its address,  *)
(* number and direction in one byte.                                       *)
(***************************************************************************)
EXTENDS Integers, Sequences

CONSTANTS MaxEp,    \* USB_DEVICE_MAX_EP: the highest endpoint number
          TableAt   \* address of udd_sram.ep_ctrl

ASSUME MaxEpAssumption == MaxEp \in 0..15
ASSUME TableAssumption == TableAt \in (4 * (MaxEp + 1))..(65535 - 16 * (MaxEp + 1))

EntryBytes == 8   \* USB_EP_t
IsIn(ep) == ep >= 128
Number(ep) == ep % 16

\* udd_ep_get_ctrl
CtrlIndex(ep) == 2 * Number(ep) + (IF IsIn(ep) THEN 1 ELSE 0)
CtrlAddress(ep) == TableAt + EntryBytes * CtrlIndex(ep)

\* udd_ep_get_job: endpoint 0 has none.
JobIndex(ep) == CtrlIndex(ep) - 2
IsValid(ep) == Number(ep) # 0 /\ Number(ep) <= MaxEp

\* The hardware counts down from -1 and wraps after the last word of
\* udd_sram.fifo, which lies right below the table; rp is FIFORP as an int8_t.
FifoWords == 2 * (MaxEp + 1)
FifoAddress(rp) == (TableAt - 2 * (1 + (-rp - 1))) % 65536

\* The hardware writes the address of the entry; the endpoint it means.
EndpointOf(address) ==
  LET index == (address - TableAt) \div EntryBytes
  IN  index \div 2 + (IF index % 2 = 1 THEN 128 ELSE 0)

-----------------------------------------------------------------------------
\* USB_EP_BUFSIZE_*: a field of three bits.
BufSize == <<8, 16, 32, 64, 128, 256, 512, 1023>>
\* What udd_ep_init does not know it takes for 8, and udd_ep_get_size too.
SizeField(n) ==
  IF \E i \in DOMAIN BufSize : BufSize[i] = n
  THEN (CHOOSE i \in DOMAIN BufSize : BufSize[i] = n) - 1 ELSE 0
EpGetSize(field) == BufSize[field + 1]

\* bmAttributes % 4; an interrupt endpoint is a bulk one for the hardware.
EpType(bmAttributes) ==
  CASE bmAttributes % 4 = 0 -> "CONTROL"
    [] bmAttributes % 4 = 1 -> "ISOCHRONOUS"
    [] OTHER -> "BULK"

\* udd_ep_alloc: not for the largest isochronous endpoint.
Multipacket(type, field) == ~(type = "ISOCHRONOUS" /\ EpGetSize(field) = 1023)
=============================================================================
