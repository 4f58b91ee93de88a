----------------------------- MODULE MCStartup -----------------------------
EXTENDS Startup

OnlyThisBuild == {ThisBuild}

\* The alternative in conf_clock.h: the USB clock and the CPU's from the PLL.
OnlyAlternative ==
  {[source |-> "PLL", usb |-> "PLL", xosc |-> BoardXosc,
    pll |-> [source |-> "XOSC", mul |-> 6], rc32 |-> 32000000, ref |-> "none",
    row |-> "factory", psa |-> 1, psbc |-> 1]}
ASSUME AlternativeIsSound == OnlyAlternative \subseteq SoundConfigs

\* The pins: ports in a few states, and every call with masks of no pin, some
\* and all.  A call changes only the pins it names, with the registers that this
\* hardware has; but the level of a group does not (ioport.h).
Io == INSTANCE IoPort
Ports ==
  {[p \in Io!PortId |-> [dir |-> d, out |-> o, ctrl |-> [i \in Io!Pin |-> c]]] :
     d \in {{}, {0, 3}}, o \in {{}, {0, 5, 7}, Io!Pin}, c \in {{}, {0, 3, 4}, Io!ISC}}
Masks == {{}, {0}, {3, 5}, Io!Pin}
Bits == {Io!Pull[m] : m \in DOMAIN Io!Pull} \cup {Io!Sense[m] : m \in DOMAIN Io!Sense}
GroupCalls(io, port, mask) ==
  {Io!EnablePort(io, port, mask), Io!DisablePort(io, port, mask),
   Io!TogglePortLevel(io, port, mask)}
  \cup {Io!SetPortMode(io, port, mask, b) : b \in Bits}
  \cup {Io!SetPortSenseMode(io, port, mask, b) : b \in Bits}
  \cup {Io!SetPortDir(io, port, mask, d) : d \in BOOLEAN}
  \cup {Io!ConfigurePortPin(io, port, mask, Io!Flags(d, h, b)) :
           d \in BOOLEAN, h \in BOOLEAN, b \in Bits}
PinCalls(io, pin) ==
  {Io!LedOn(io, pin), Io!LedOff(io, pin)}
  \cup {Io!SetPinMode(io, pin, b) : b \in Bits}

ASSUME CallsKeepOtherPins ==
  \A io \in Ports, port \in {0, 15}, mask \in Masks :
    /\ \A r \in GroupCalls(io, port, mask) : Io!KeepsOtherPins(io, r, port, mask)
    /\ \A i \in mask : \A r \in PinCalls(io, 8 * port + i) :
         Io!KeepsOtherPins(io, r, port, {i})
ASSUME GroupLevelForgetsOthers ==
  \A io \in Ports, mask \in Masks :
    /\ Io!SetGroupHigh(io, 0, mask)[0].out = mask
    /\ Io!SetGroupLow(io, 0, mask)[0].out = {}

\* A pin mode leaves the sense alone, a sense the mode, and board_init drives the
\* LEDs high and pulls the buttons up, and nothing else; what it configures is
\* what the pins then read as.
ASSUME PinsAsConfigured ==
  \A io \in Ports :
    LET b == Io!BoardInit(io)
        driven == [q \in Io!PortId |-> b[q].out \cap b[q].dir]
    IN  /\ b[0].dir = Io!Pin /\ b[0].out = Io!Pin
        /\ b[1].dir = io[1].dir \ {0, 1, 2, 3} /\ b[1].out = io[1].out
        /\ \A i \in 0..3 : b[1].ctrl[i] = Io!Pull.PULLUP
        /\ \A q \in 2..15 : b[q] = io[q]
        /\ \A pin \in Io!LedPin : Io!GetPinLevel(driven, pin)
        /\ \A m \in DOMAIN Io!Pull, s \in DOMAIN Io!Sense :
             Io!SetPortSenseMode(Io!SetPinMode(b, 9, Io!Pull[m]), 1, {1}, Io!Sense[s])[1].ctrl[1]
               = Io!Pull[m] \cup Io!Sense[s]
=============================================================================
