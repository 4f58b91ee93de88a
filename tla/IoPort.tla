------------------------------- MODULE IoPort -------------------------------
(***************************************************************************)
(* The pin services of ioport.h, xmega/ioport.h and ioport_compat, and the *)
(* pins that board_init sets with them.  A register or mask of eight bits  *)
(* is the set of the bits that are one; a call is an operator from the     *)
(* registers of all ports before it to those after it.  A call on one pin  *)
(* is the call on its port with a mask of that pin.                        *)
(*                                                                         *)
(* The DIRSET, DIRCLR, OUTSET, OUTCLR and OUTTGL registers of the hardware *)
(* set, clear or toggle the bits written as one, and read as DIR or OUT.   *)
(***************************************************************************)
EXTENDS Integers

PortId == 0..15
Pin == 0..7      \* bits of a mask, and PIN0CTRL to PIN7CTRL
Port == [dir : SUBSET Pin, out : SUBSET Pin, ctrl : [Pin -> SUBSET Pin]]

\* A pin of the device is a number of seven bits.
PortOf(pin) == pin \div 8
MaskOf(pin) == {pin % 8}

\* PINnCTRL: the input sense is its low three bits.
ISC == {0, 1, 2}
Sense == [BOTHEDGES |-> {}, RISING |-> {0}, FALLING |-> {1}, LEVEL |-> {0, 1},
          INPUT_DISABLE |-> {0, 1, 2}]
Pull == [TOTEM |-> {}, BUSKEEPER |-> {3}, PULLDOWN |-> {4}, PULLUP |-> {3, 4},
         WIREDOR |-> {5}, WIREDAND |-> {3, 5}, WIREDORPULL |-> {4, 5},
         WIREDANDPULL |-> {3, 4, 5}, INVERT_PIN |-> {6}, SLEW_RATE_LIMIT |-> {7}]

\* The control registers of the pins in the mask get the values ctrl[i].
SetCtrl(io, port, mask, ctrl) ==
  [io EXCEPT ![port].ctrl = [i \in Pin |-> IF i \in mask THEN ctrl[i] ELSE @[i]]]

EnablePort(io, port, mask) ==
  SetCtrl(io, port, mask, [i \in Pin |-> io[port].ctrl[i] \ ISC])
DisablePort(io, port, mask) ==
  SetCtrl(io, port, mask, [i \in Pin |-> io[port].ctrl[i] \cup ISC])

\* The mode of a group is kept off the sense bits; that of a single pin is not.
SetPortMode(io, port, mask, mode) ==
  SetCtrl(io, port, mask, [i \in Pin |-> (io[port].ctrl[i] \cap ISC) \cup (mode \ ISC)])
SetPinMode(io, pin, mode) ==
  LET port == PortOf(pin)
  IN  SetCtrl(io, port, MaskOf(pin), [i \in Pin |-> (io[port].ctrl[i] \cap ISC) \cup mode])

SetPortSenseMode(io, port, mask, sense) ==
  SetCtrl(io, port, mask, [i \in Pin |-> (io[port].ctrl[i] \ ISC) \cup (sense \cap ISC)])

-----------------------------------------------------------------------------
DirSet(io, port, bits) == [io EXCEPT ![port].dir = @ \cup bits]
DirClr(io, port, bits) == [io EXCEPT ![port].dir = @ \ bits]
OutSet(io, port, bits) == [io EXCEPT ![port].out = @ \cup bits]
OutClr(io, port, bits) == [io EXCEPT ![port].out = @ \ bits]
OutTgl(io, port, bits) == [io EXCEPT ![port].out = (@ \ bits) \cup (bits \ @)]

SetPortDir(io, port, mask, output) ==
  IF output THEN DirSet(io, port, mask) ELSE DirClr(io, port, mask)

SetPinLevel(io, pin, level) ==
  IF level THEN OutSet(io, PortOf(pin), MaskOf(pin)) ELSE OutClr(io, PortOf(pin), MaskOf(pin))

\* Each register is read, as OUT, changed and written back.
SetPortLevel(io, port, mask, level) ==
  LET high == OutSet(io, port, io[port].out \cup mask)
      low == OutSet(io, port, io[port].out \ mask)
  IN  IF level THEN OutClr(high, port, high[port].out \ mask)
      ELSE OutClr(low, port, low[port].out \cup mask)

\* The level is the mask itself: an empty group is driven low.
SetGroupHigh(io, port, mask) == SetPortLevel(io, port, mask, mask # {})
SetGroupLow(io, port, mask) == SetPortLevel(io, port, mask, FALSE)

TogglePortLevel(io, port, mask) == OutTgl(io, port, mask)

\* What the pins show is in the IN registers.
GetPortLevel(in, port, mask) == in[port] \cap mask
GetPinLevel(in, pin) == GetPortLevel(in, PortOf(pin), MaskOf(pin)) # {}

-----------------------------------------------------------------------------
\* The flags of ioport_compat.h: bits 0 and 1, and PINnCTRL in the high byte.
Flags(output, high, ctrl) ==
  (IF output THEN {0} ELSE {}) \cup (IF high THEN {1} ELSE {}) \cup {8 + b : b \in ctrl}

\* The level is set before the direction; an input keeps its level.
ConfigurePortPin(io, port, mask, flags) ==
  LET set == SetCtrl(io, port, mask, [i \in Pin |-> {b \in Pin : b + 8 \in flags}])
      driven == IF 1 \in flags THEN OutSet(set, port, mask) ELSE OutClr(set, port, mask)
  IN  IF 0 \in flags THEN DirSet(driven, port, mask) ELSE DirClr(set, port, mask)
ConfigurePin(io, pin, flags) == ConfigurePortPin(io, PortOf(pin), MaskOf(pin), flags)

\* The pins of the STK600 board: LEDs that light when low, and push buttons.
LedPin == 0..7
ButtonPin == 8..11
LedOn(io, pin) == SetPinLevel(io, pin, FALSE)
LedOff(io, pin) == SetPinLevel(io, pin, TRUE)

\* Each pin by a call of its own.
Configured(io, pins, flags) ==
  LET done[n \in 0..128] ==
        IF n = 0 THEN io
        ELSE IF n - 1 \in pins THEN ConfigurePin(done[n - 1], n - 1, flags) ELSE done[n - 1]
  IN  done[128]
BoardInit(io) ==
  Configured(Configured(io, LedPin, Flags(TRUE, TRUE, Pull.TOTEM)),
             ButtonPin, Flags(FALSE, FALSE, Pull.PULLUP))

-----------------------------------------------------------------------------
\* From io to io2 no pin has changed but those of the mask.
KeepsOtherPins(io, io2, port, mask) ==
  \A q \in PortId, i \in Pin : ~(q = port /\ i \in mask) =>
    /\ (i \in io2[q].dir) = (i \in io[q].dir)
    /\ (i \in io2[q].out) = (i \in io[q].out)
    /\ io2[q].ctrl[i] = io[q].ctrl[i]
=============================================================================
