---------------------------- MODULE ClockTables ----------------------------
(***************************************************************************)
(* The clock tree of the ATxmega256A3U as ASF computes it: a configuration *)
(* (conf_clock.h), the rates it gives (sysclk.h, pll.h, osc.h), and the    *)
(* tables from a peripheral to its power-reduction bit and to its bus.     *)
(* Frequencies are in Hz.                                                  *)
(***************************************************************************)
EXTENDS Integers

(***************************************************************************)
(* The external oscillator of a board (BOARD_XOSC_TYPE, _HZ, _STARTUP_US): *)
(* a clock signal or a crystal.  From that osc.h works out how many cycles *)
(* the hardware waits for a crystal and its frequency range, with the      *)
(* divisions of the preprocessor, and refuses a crystal that is too slow,  *)
(* too fast or too long to start.                                          *)
(***************************************************************************)
BoardXosc == [type |-> "EXTERNAL", hz |-> 8000000, us |-> 500000]

StartupCycles(x) == (x.hz \div 1000000) * x.us

\* CONFIG_XOSC_STARTUP, in cycles
XoscStartup(x) ==
  IF x.type = "EXTERNAL" THEN 256
  ELSE IF StartupCycles(x) > 1024 THEN 16384
  ELSE IF StartupCycles(x) > 256 THEN 1024 ELSE 256

\* XOSC_STARTUP_TIMEOUT; 0 where it is not defined.
XoscStartupTimeout(x) ==
  IF x.type = "EXTERNAL" THEN 0 ELSE XoscStartup(x) * (1000000 \div x.hz)

\* CONFIG_XOSC_RANGE: the field and the range of the hardware, in Hz.
XoscRange(x) ==
  IF x.type = "EXTERNAL" \/ x.hz < 2000000 THEN "04TO2"
  ELSE IF x.hz < 9000000 THEN "2TO9"
  ELSE IF x.hz < 12000000 THEN "9TO12" ELSE "12TO16"

\* The crystals that osc.h does not refuse.
XoscAllowed(x) ==
  x.type = "XTAL" => 400000 <= x.hz /\ x.hz <= 16000000 /\ StartupCycles(x) <= 16384

\* Oscillators and the PLL: bits of OSC.CTRL and OSC.STATUS.
Oscillator == {"RC2MHZ", "RC32MHZ", "RC32KHZ", "XOSC", "PLL"}

NoPll == [source |-> "none", mul |-> 1]

(***************************************************************************)
(* A configuration: the source of the system clock and of the USB clock,   *)
(* the PLL, the frequency RC32MHZ is calibrated for, the reference that    *)
(* tunes it ("none" without CONFIG_OSC_AUTOCAL), and the two prescaler     *)
(* fields as they are written to CLK.PSCTRL: A divides by 2^n for the      *)
(* field 2n - 1, B and C have the fields 0..3 for 1_1, 1_2, 4_1 and 2_2;   *)
(* and the chip, whose production signature row may be blank.              *)
(***************************************************************************)
PsaField == {0, 1, 3, 5, 7}

Configuration ==
  [source : Oscillator,
   usb    : {"RCOSC", "PLL"},
   xosc   : {BoardXosc, [type |-> "XTAL", hz |-> 8000000, us |-> 1000],
             [type |-> "XTAL", hz |-> 2000000, us |-> 500]},
   pll    : {NoPll, [source |-> "RC2MHZ", mul |-> 24],
             [source |-> "RC32MHZ", mul |-> 4], [source |-> "XOSC", mul |-> 6],
             [source |-> "XOSC", mul |-> 24]},
   rc32   : {32000000, 48000000},
   ref    : {"none", "USBSOF", "RC32KHZ"},
   row    : {"factory", "blank"},
   psa    : PsaField,
   psbc   : 0..3]

\* conf_clock.h
ThisBuild ==
  [source |-> "RC32MHZ", usb |-> "RCOSC", xosc |-> BoardXosc,
   pll |-> NoPll, rc32 |-> 48000000, ref |-> "USBSOF", row |-> "factory",
   psa |-> 1, psbc |-> 1]

-----------------------------------------------------------------------------
\* The rate before the multiplier: RC32MHZ is divided by 4 in hardware.
PllReference(c) ==
  CASE c.pll.source = "RC2MHZ" -> 2000000
    [] c.pll.source = "RC32MHZ" -> c.rc32 \div 4
    [] c.pll.source = "XOSC" -> c.xosc.hz
    [] OTHER -> 0

PllRate(c) == PllReference(c) * c.pll.mul

PllMinHz == 10000000
PllMaxHz == 200000000

\* The assertions of pll_get_default_rate_priv and pll_config_init.
PllAllowed(c) ==
  /\ PllReference(c) >= 440000
  /\ PllRate(c) \in PllMinHz..PllMaxHz
  /\ c.pll.mul \in 1..31

OscRate(c, id) ==
  CASE id = "RC2MHZ" -> 2000000
    [] id = "RC32MHZ" -> c.rc32
    [] id = "RC32KHZ" -> 32768
    [] id = "XOSC" -> c.xosc.hz

\* sysclk_get_main_hz
MainHz(c) == IF c.source = "PLL" THEN PllRate(c) ELSE OscRate(c, c.source)

\* sysclk_get_per4_hz
Per4Hz(c) ==
  LET shift == IF c.psa % 2 = 1 THEN c.psa \div 2 + 1 ELSE 0
  IN  MainHz(c) \div 2 ^ shift

Per2Hz(c) ==
  CASE c.psbc \in {0, 1} -> Per4Hz(c)
    [] c.psbc = 2 -> Per4Hz(c) \div 4
    [] c.psbc = 3 -> Per4Hz(c) \div 2

PerHz(c) == IF c.psbc % 2 = 1 THEN Per2Hz(c) \div 2 ELSE Per2Hz(c)

CpuHz(c) == PerHz(c)

\* USBCLK_STARTUP_TIMEOUT, in microseconds
UsbclkStartupTimeout(c) ==
  IF c.usb = "PLL" /\ c.pll.source = "XOSC" THEN XoscStartupTimeout(c.xosc) ELSE 1

\* USBC_SLEEP_MODE_USB_SUSPEND
UsbSuspendMode(c) == IF UsbclkStartupTimeout(c) > 10000 THEN "IDLE" ELSE "PDOWN"

\* The oscillator behind a source of the RTC; ULP always runs.
RtcOscillator ==
  [ULP |-> "ULP", RCOSC |-> "RC32KHZ", RCOSC32 |-> "RC32KHZ", TOSC |-> "XOSC",
   TOSC32 |-> "XOSC", EXTCLK |-> "XOSC"]

-----------------------------------------------------------------------------
(***************************************************************************)
(* Peripherals of the device and their bits in the power-reduction         *)
(* registers, one register for the general ones and one for each port.     *)
(***************************************************************************)
EnableGeneral ==
  [AES |-> <<"GEN", "AES">>, RTC |-> <<"GEN", "RTC">>, EVSYS |-> <<"GEN", "EVSYS">>,
   DMA |-> <<"GEN", "DMA">>]

EnableAnalog ==
  [ACA |-> <<"A", "AC">>, ACB |-> <<"B", "AC">>, ADCA |-> <<"A", "ADC">>,
   ADCB |-> <<"B", "ADC">>, DACB |-> <<"B", "DAC">>]

\* Mutant: a line of the table copied without its port.
EnableTimersCopied ==
  [TCC0 |-> <<"C", "TC0">>, TCD0 |-> <<"D", "TC0">>, TCE0 |-> <<"E", "TC0">>,
   TCF0 |-> <<"E", "TC0">>, TCC1 |-> <<"C", "TC1">>, TCD1 |-> <<"D", "TC1">>,
   TCE1 |-> <<"E", "TC1">>, HIRESC |-> <<"C", "HIRES">>,
   HIRESD |-> <<"D", "HIRES">>, HIRESE |-> <<"E", "HIRES">>,
   HIRESF |-> <<"F", "HIRES">>]

EnableTimers ==
  [TCC0 |-> <<"C", "TC0">>, TCD0 |-> <<"D", "TC0">>, TCE0 |-> <<"E", "TC0">>,
   TCF0 |-> <<"F", "TC0">>, TCC1 |-> <<"C", "TC1">>, TCD1 |-> <<"D", "TC1">>,
   TCE1 |-> <<"E", "TC1">>, HIRESC |-> <<"C", "HIRES">>,
   HIRESD |-> <<"D", "HIRES">>, HIRESE |-> <<"E", "HIRES">>,
   HIRESF |-> <<"F", "HIRES">>]

EnableSerial ==
  [SPIC |-> <<"C", "SPI">>, SPID |-> <<"D", "SPI">>, SPIE |-> <<"E", "SPI">>,
   USARTC0 |-> <<"C", "USART0">>, USARTD0 |-> <<"D", "USART0">>,
   USARTE0 |-> <<"E", "USART0">>, USARTF0 |-> <<"F", "USART0">>,
   USARTC1 |-> <<"C", "USART1">>, USARTD1 |-> <<"D", "USART1">>,
   USARTE1 |-> <<"E", "USART1">>, TWIC |-> <<"C", "TWI">>, TWIE |-> <<"E", "TWI">>]

Peripheral ==
  DOMAIN EnableGeneral \cup DOMAIN EnableAnalog \cup DOMAIN EnableTimers
  \cup DOMAIN EnableSerial

\* sysclk_enable_peripheral_clock
EnableGate ==
  [m \in Peripheral |->
     CASE m \in DOMAIN EnableGeneral -> EnableGeneral[m]
       [] m \in DOMAIN EnableAnalog -> EnableAnalog[m]
       [] m \in DOMAIN EnableTimers -> EnableTimers[m]
       [] m \in DOMAIN EnableSerial -> EnableSerial[m]]

(***************************************************************************)
(* sysclk_disable_peripheral_clock is a table of its own, here one         *)
(* register after the other.                                               *)
(***************************************************************************)
DisableGeneral ==
  [DMA |-> <<"GEN", "DMA">>, EVSYS |-> <<"GEN", "EVSYS">>, RTC |-> <<"GEN", "RTC">>,
   AES |-> <<"GEN", "AES">>]

DisableAnalog ==
  [ACA |-> <<"A", "AC">>, ADCA |-> <<"A", "ADC">>, ACB |-> <<"B", "AC">>,
   ADCB |-> <<"B", "ADC">>, DACB |-> <<"B", "DAC">>]

DisableTimers ==
  [TCC0 |-> <<"C", "TC0">>, TCC1 |-> <<"C", "TC1">>, TCD0 |-> <<"D", "TC0">>,
   TCD1 |-> <<"D", "TC1">>, TCE0 |-> <<"E", "TC0">>, TCE1 |-> <<"E", "TC1">>,
   TCF0 |-> <<"F", "TC0">>, HIRESC |-> <<"C", "HIRES">>,
   HIRESD |-> <<"D", "HIRES">>, HIRESE |-> <<"E", "HIRES">>,
   HIRESF |-> <<"F", "HIRES">>]

DisableSerial ==
  [SPIC |-> <<"C", "SPI">>, USARTC0 |-> <<"C", "USART0">>,
   USARTC1 |-> <<"C", "USART1">>, TWIC |-> <<"C", "TWI">>, SPID |-> <<"D", "SPI">>,
   USARTD0 |-> <<"D", "USART0">>, USARTD1 |-> <<"D", "USART1">>,
   SPIE |-> <<"E", "SPI">>, USARTE0 |-> <<"E", "USART0">>,
   USARTE1 |-> <<"E", "USART1">>, TWIE |-> <<"E", "TWI">>,
   USARTF0 |-> <<"F", "USART0">>]

DisableGate ==
  [m \in Peripheral |->
     CASE m \in DOMAIN DisableGeneral -> DisableGeneral[m]
       [] m \in DOMAIN DisableAnalog -> DisableAnalog[m]
       [] m \in DOMAIN DisableTimers -> DisableTimers[m]
       [] m \in DOMAIN DisableSerial -> DisableSerial[m]]

\* The peripherals on the fast bus.
HighResolution == {"HIRESC", "HIRESD", "HIRESE", "HIRESF"}

\* sysclk_get_peripheral_bus_hz
PeripheralBusHz(c, m) == IF m \in HighResolution THEN Per4Hz(c) ELSE PerHz(c)
=============================================================================
