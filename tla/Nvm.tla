-------------------------------- MODULE Nvm --------------------------------
(***************************************************************************)
(* The driver of the non-volatile memories: EEPROM, flash, the user        *)
(* signature row and the lock bits, with the two page buffers of the       *)
(* controller, its command register and its busy flag, and a power supply  *)
(* that may fail at any moment.  A function waits until the controller is  *)
(* ready and returns while the last command still runs; one that issues    *)
(* several commands takes a step for each.                                 *)
(*                                                                         *)
(* Cell contents are sets of the bits that are one, so that erasing sets   *)
(* all of them and writing without erasing can only clear some.            *)
(***************************************************************************)
EXTENDS Integers, Sequences, FiniteSets, Functions

CONSTANTS Bits,
          EepromPages, EepromPage,  \* number of pages and EEPROM_PAGE_SIZE
          AppPages, BootPages,      \* numbers of pages
          FlashPage,                \* FLASH_PAGE_SIZE in bytes
          Buffers,                  \* what callers write: sequences of bytes
          MaxCalls                  \* bound: calls in a behaviour

ASSUME SizesAssumption ==
  /\ EepromPages \in Nat /\ EepromPage \in Nat \ {0} /\ 256 % EepromPage = 0
  /\ AppPages \in Nat /\ BootPages \in Nat
  /\ FlashPage \in Nat /\ FlashPage % 2 = 0 /\ FlashPage > 0
  /\ Buffers \subseteq Seq(SUBSET Bits) \ {<<>>} /\ MaxCalls \in Nat

VARIABLES
  nvm,       \* contents of every cell
  busy,      \* what the command under way will leave in its cells
  eeBuffer,  \* loaded locations of the EEPROM page buffer
  flBuffer,  \* flash page buffer
  cmd,       \* NVM.CMD between calls
  call,      \* the call with commands still to issue
  calls,     \* calls so far; bound only
  eeLoads,   \* bytes the caller has loaded since it flushed; history only
  flLoads,   \* the same for flash; history only
  cmdLost,   \* a call that may not preserve NVM.CMD was made; history only
  pending,   \* values the current call has still to give; history only
  oldRow,    \* the row before the call that rewrites it; history only
  got        \* what the last read returned; history only

controller == <<nvm, busy, eeBuffer, flBuffer, cmd>>
history == <<eeLoads, flLoads, cmdLost, pending, oldRow, got>>
vars == <<controller, call, calls, history>>

-----------------------------------------------------------------------------
Byte == SUBSET Bits
Erased == Bits
NoBytes == [c \in {} |-> {}]
Span(m, first, n) == {<<m, a>> : a \in first..(first + n - 1)}
\* Some values replaced by new ones.
Over(new, old) == [x \in DOMAIN new \cup DOMAIN old |->
                     IF x \in DOMAIN new THEN new[x] ELSE old[x]]

EepromSize == EepromPages * EepromPage
AppSize == AppPages * FlashPage
EepromCells == Span("EEPROM", 0, EepromSize)
AppCells == Span("FLASH", 0, AppSize)
FlashCells == Span("FLASH", 0, AppSize + BootPages * FlashPage)
RowCells == Span("ROW", 0, FlashPage)
\* Boot loader, application, application table, and reading from outside
LockCells == Span("LOCK", 0, 4)
\* Only read: the fuse bytes, of which two are enough to tell them apart, and
\* of the production signature row the bytes of the serial number, as one.
FuseCells == Span("FUSE", 0, 2)
SerialCells == Span("PRODUCTION", 0, 1)
Cell == EepromCells \cup FlashCells \cup RowCells \cup LockCells
          \cup FuseCells \cup SerialCells

\* Both page buffers are as large as a page and ignore the rest of an address.
Offsets(size) == 0..(size - 1)
CleanFlashBuffer == [o \in Offsets(FlashPage) |-> Erased]
PageOf(m, page, size) == Span(m, page * size, size)

\* The values b has for the cells of a page that it has a value for.
AtPage(cells, size, b) ==
  [c \in {d \in cells : d[2] % size \in DOMAIN b} |-> b[c[2] % size]]
ErasedCells(cells) == [c \in cells |-> Erased]
\* Writing without erasing only clears bits.
Programmed(values) == [c \in DOMAIN values |-> nvm[c] \cap values[c]]

-----------------------------------------------------------------------------
(***************************************************************************)
(* The controller.                                                         *)
(***************************************************************************)
NoOperation == "NO_OPERATION"
NoClear == "none"
NotBusy == [new |-> NoBytes, clears |-> NoClear]
Ready == busy = NotBusy

\* nvm_exec, nvm_issue_command or nvm_common_spm
Exec(new, clears) == busy' = [new |-> new, clears |-> clears]
NoCall == [op |-> "none", at |-> 0, data |-> <<>>]

\* A command of the row's two leaves the row half done.
Complete ==
  /\ ~Ready
  /\ nvm' = Over(busy.new, nvm)
  /\ busy' = NotBusy
  /\ eeBuffer' = IF busy.clears = "EEPROM" THEN NoBytes ELSE eeBuffer
  /\ flBuffer' = IF busy.clears = "FLASH" THEN CleanFlashBuffer ELSE flBuffer
  /\ IF call.op = "writeRow"
       THEN UNCHANGED <<pending, oldRow>>
       ELSE /\ pending' = Restrict(pending, DOMAIN pending \ DOMAIN busy.new)
            /\ oldRow' = Restrict(nvm', RowCells)
  /\ UNCHANGED <<cmd, call, calls, eeLoads, flLoads, cmdLost, got>>

\* The program starts over; what it was programming may hold anything.
PowerFails ==
  /\ \E left \in [DOMAIN busy.new -> Byte] : nvm' = Over(left, nvm)
  /\ busy' = NotBusy /\ eeBuffer' = NoBytes /\ flBuffer' = CleanFlashBuffer
  /\ cmd' = NoOperation /\ call' = NoCall
  /\ eeLoads' = NoBytes /\ flLoads' = CleanFlashBuffer /\ cmdLost' = FALSE
  /\ pending' = NoBytes /\ oldRow' = Restrict(nvm', RowCells)
  /\ UNCHANGED <<calls, got>>

-----------------------------------------------------------------------------
(***************************************************************************)
(* Calls.  Each starts with nvm_wait_until_ready, except the reads and     *)
(* writes of the user row, before which callers wait.  asked is what the   *)
(* documentation says the call does.                                       *)
(***************************************************************************)
Starts(asked) ==
  /\ Ready /\ call = NoCall
  /\ calls < MaxCalls /\ calls' = calls + 1
  /\ pending' = asked
  /\ got' = NoBytes
  /\ UNCHANGED <<nvm, oldRow>>

EepromUnused == UNCHANGED <<eeBuffer, eeLoads>>
FlashUnused == UNCHANGED <<flBuffer, flLoads>>
Returns == call' = NoCall

\* nvm_eeprom_flush_buffer executes a command only if a byte is loaded, and
\* leaves it in NVM.CMD.
CmdOfFlush == IF eeBuffer # NoBytes THEN "ERASE_EEPROM_BUFFER" ELSE cmd

EepromFlush ==
  /\ Starts(NoBytes) /\ Returns
  /\ eeBuffer' = NoBytes /\ eeLoads' = NoBytes
  /\ cmd' = CmdOfFlush /\ cmdLost' = TRUE
  /\ UNCHANGED busy /\ FlashUnused

\* The program's own NVM.CMD = NVM_CMD_NO_OPERATION_gc after such a call.
RestoreCmd ==
  /\ cmdLost /\ call = NoCall
  /\ cmd' = NoOperation /\ cmdLost' = FALSE
  /\ UNCHANGED <<nvm, busy, eeBuffer, flBuffer, call, calls, eeLoads, flLoads,
                 pending, oldRow, got>>

\* A location loaded twice holds the AND of both.
Loaded(b, values) ==
  [o \in DOMAIN b \cup DOMAIN values |->
     IF o \notin DOMAIN b THEN values[o]
     ELSE IF o \notin DOMAIN values THEN b[o] ELSE b[o] \cap values[o]]

\* byte_addr has 8 bits, a multiple of the page.
OneByte(a, v) == [o \in {(a % 256) % EepromPage} |-> v]

\* Callers load into a buffer they have flushed, or go on loading it.
LoadEeprom(values) ==
  /\ eeLoads = eeBuffer
  /\ Starts(NoBytes) /\ Returns
  /\ eeBuffer' = Loaded(eeBuffer, values) /\ eeLoads' = Over(values, eeLoads)
  /\ UNCHANGED <<busy, cmd, cmdLost>> /\ FlashUnused

LoadByte(a, v) == a \notin DOMAIN eeLoads /\ LoadEeprom(OneByte(a, v))

LoadPage(values) == eeLoads = NoBytes /\ LoadEeprom(values)

FillBuffer(v) ==
  LET all == [o \in Offsets(EepromPage) |-> v]
  IN  /\ Starts(NoBytes) /\ Returns
      /\ eeBuffer' = Loaded(NoBytes, all) /\ eeLoads' = all
      /\ cmd' = CmdOfFlush /\ cmdLost' = TRUE
      /\ UNCHANGED busy /\ FlashUnused

\* Callers write what they have loaded themselves.  A page command does nothing
\* without a loaded byte.
EepromPageCommand(asked, new, clears) ==
  /\ eeLoads = eeBuffer
  /\ Starts(asked) /\ Returns
  /\ IF eeBuffer = NoBytes THEN UNCHANGED busy ELSE Exec(new, clears)
  /\ eeLoads' = IF clears = "EEPROM" THEN NoBytes ELSE eeLoads
  /\ UNCHANGED <<eeBuffer, cmd, cmdLost>> /\ FlashUnused

EepromValues(page, b) ==
  AtPage(PageOf("EEPROM", page, EepromPage), EepromPage, b)

EepromAtomicWrite(page) ==
  EepromPageCommand(EepromValues(page, eeLoads), EepromValues(page, eeBuffer),
                    "EEPROM")

EepromSplitWrite(page) ==
  EepromPageCommand(Programmed(EepromValues(page, eeLoads)),
                    Programmed(EepromValues(page, eeBuffer)), "EEPROM")

EepromEraseBytes(page) ==
  EepromPageCommand(ErasedCells(DOMAIN EepromValues(page, eeLoads)),
                    ErasedCells(DOMAIN EepromValues(page, eeBuffer)), NoClear)

EepromEraseBytesInAllPages ==
  LET cells(b) == UNION {DOMAIN EepromValues(p, b) : p \in 0..(EepromPages - 1)}
  IN  EepromPageCommand(ErasedCells(cells(eeLoads)), ErasedCells(cells(eeBuffer)),
                        NoClear)

\* nvm_eeprom_fill_buffer_with_value(0xff), then the erase command.
EepromErase(cells) ==
  LET marked == [o \in Offsets(EepromPage) |-> Erased]
  IN  /\ Starts(ErasedCells(cells)) /\ Returns
      /\ eeBuffer' = Loaded(NoBytes, marked) /\ eeLoads' = NoBytes
      /\ cmd' = CmdOfFlush /\ cmdLost' = TRUE
      /\ Exec(ErasedCells({c \in cells : c[2] % EepromPage \in DOMAIN marked}),
              NoClear)
      /\ FlashUnused

EepromErasePage(page) == EepromErase(PageOf("EEPROM", page, EepromPage))
EepromEraseAll == EepromErase(EepromCells)

\* nvm_eeprom_write_byte flushes before it loads, and restores NVM.CMD.
ByteBufferUnflushed(a, v) == Loaded(eeBuffer, OneByte(a, v))

ByteBuffer(a, v) == Loaded(NoBytes, OneByte(a, v))

CmdOfWriteByteSavedLate == CmdOfFlush

CmdOfWriteByte == cmd

IsFullPage(at, data) == at % EepromPage = 0 /\ Len(data) >= EepromPage

\* One round of nvm_eeprom_erase_and_write_buffer.
EepromUnit(at, data) ==
  LET full == IsFullPage(at, data)
      n == IF full THEN EepromPage ELSE 1
  IN  /\ eeBuffer' = IF full
                       THEN Loaded(eeBuffer,
                                   [o \in Offsets(EepromPage) |-> data[o + 1]])
                       ELSE ByteBuffer(at, data[1])
      /\ cmd' = IF full THEN cmd ELSE CmdOfWriteByte
      /\ Exec(EepromValues(at \div EepromPage, eeBuffer'), "EEPROM")
      /\ IF Len(data) > n
           THEN call' = [op |-> "writeEeprom", at |-> at + n,
                         data |-> SubSeq(data, n + 1, Len(data))]
           ELSE Returns

Asked(m, at, data) ==
  [c \in Span(m, at, Len(data)) |-> data[c[2] - at + 1]]

WriteByte(a, v) ==
  /\ Starts(Asked("EEPROM", a, <<v>>)) /\ Returns
  /\ eeBuffer' = ByteBuffer(a, v) /\ eeLoads' = NoBytes
  /\ Exec(EepromValues(a \div EepromPage, eeBuffer'), "EEPROM")
  /\ cmd' = CmdOfWriteByte
  /\ UNCHANGED cmdLost /\ FlashUnused

\* A first round that writes a full page does not flush: the caller must have,
\* or have erased a page, which leaves only ones in the buffer.
EepromEraseAndWriteBuffer(at, data) ==
  /\ at + Len(data) <= EepromSize
  /\ IsFullPage(at, data) => \A o \in DOMAIN eeBuffer : eeBuffer[o] = Erased
  /\ Starts(Asked("EEPROM", at, data))
  /\ EepromUnit(at, data)
  /\ eeLoads' = NoBytes
  /\ UNCHANGED cmdLost /\ FlashUnused

EepromNextUnit ==
  /\ call.op = "writeEeprom" /\ Ready
  /\ EepromUnit(call.at, call.data)
  /\ UNCHANGED <<nvm, flBuffer, calls, history>>

-----------------------------------------------------------------------------
(***************************************************************************)
(* Flash and the user signature row, which share a page buffer.            *)
(***************************************************************************)
\* LPM reads flash only while NVM.CMD says so.
SeenByLpm(cells) ==
  IF cmd = NoOperation THEN {Restrict(nvm, cells)} ELSE [cells -> Byte]

FlashPageOf(page) == PageOf("FLASH", page, FlashPage)
FlashValues(cells, b) == AtPage(cells, FlashPage, b)

FlashFlush ==
  /\ Starts(NoBytes) /\ Returns
  /\ flBuffer' = CleanFlashBuffer /\ flLoads' = CleanFlashBuffer
  /\ UNCHANGED <<busy, cmd, cmdLost>> /\ EepromUnused

\* word_addr is even; the bits above the page are ignored.
FlashLoadWord(a, lsb, msb) ==
  LET o == a % FlashPage
      word == [p \in {o, o + 1} |-> IF p = o THEN lsb ELSE msb]
  IN  /\ flLoads = flBuffer /\ flLoads[o] = Erased /\ flLoads[o + 1] = Erased
      /\ Starts(NoBytes) /\ Returns
      /\ flBuffer' = Loaded(flBuffer, word) /\ flLoads' = Over(word, flLoads)
      /\ UNCHANGED <<busy, cmd, cmdLost>> /\ EepromUnused

\* nvm_common_spm for a page or more of flash or the row.
FlashCommand(asked, new, clears) ==
  /\ flLoads = flBuffer
  /\ Starts(asked) /\ Returns
  /\ Exec(new, clears)
  /\ flLoads' = IF clears = "FLASH" THEN CleanFlashBuffer ELSE flLoads
  /\ UNCHANGED <<flBuffer, cmd, cmdLost>> /\ EepromUnused

\* For cells of the application section, the boot section or the row.
ErasePage(cells) == FlashCommand(ErasedCells(cells), ErasedCells(cells), NoClear)

SplitWritePage(cells) ==
  FlashCommand(Programmed(FlashValues(cells, flLoads)),
               Programmed(FlashValues(cells, flBuffer)), "FLASH")

AtomicWritePage(cells) ==
  FlashCommand(FlashValues(cells, flLoads), FlashValues(cells, flBuffer), "FLASH")

EraseApp == FlashCommand(ErasedCells(AppCells), ErasedCells(AppCells), NoClear)

\* Each section has commands of its own for its pages.
InApp(page) == page < AppPages
EraseAppPage(page) == InApp(page) /\ ErasePage(FlashPageOf(page))
SplitWriteAppPage(page) == InApp(page) /\ SplitWritePage(FlashPageOf(page))
AtomicWriteAppPage(page) == InApp(page) /\ AtomicWritePage(FlashPageOf(page))
EraseBootPage(page) == ~InApp(page) /\ ErasePage(FlashPageOf(page))
SplitWriteBootPage(page) == ~InApp(page) /\ SplitWritePage(FlashPageOf(page))
AtomicWriteBootPage(page) == ~InApp(page) /\ AtomicWritePage(FlashPageOf(page))
EraseUserSection == ErasePage(RowCells)
WriteUserPage == SplitWritePage(RowCells)

\* Keeps the controller busy and changes nothing.  It does not wait until the
\* controller is ready: its callers do.  NVM.CMD is restored.
IssueFlashRangeCrc ==
  /\ Starts(NoBytes) /\ Returns
  /\ Exec(NoBytes, "CRC")
  /\ UNCHANGED <<cmd, cmdLost>> /\ EepromUnused /\ FlashUnused

\* The new contents of a page: what is written, what is there if it was read,
\* else ones, which change nothing.
PageImage(cells, at, data, check, seen) ==
  [c \in cells |-> IF c[2] \in at..(at + Len(data) - 1) THEN data[c[2] - at + 1]
                   ELSE IF check THEN seen[c] ELSE Erased]

LoadImage(image) ==
  flBuffer' = [o \in Offsets(FlashPage) |->
                 flBuffer[o] \cap
                   image[CHOOSE c \in DOMAIN image : c[2] % FlashPage = o]]

\* Whether the page must be erased: it was read and is not blank.
MustErase(check, seen) == check /\ \E c \in DOMAIN seen : seen[c] # Erased

\* One round of nvm_flash_erase_and_write_buffer; data is what is left.
FlashUnit(at, data, check) ==
  LET page == at \div FlashPage
      cells == FlashPageOf(page)
      n == (page + 1) * FlashPage - at
  IN  /\ \E seen \in IF check THEN SeenByLpm(cells) ELSE {NoBytes} :
           /\ LoadImage(PageImage(cells, at, data, check, seen))
           /\ LET new == FlashValues(cells, flBuffer')
              IN  Exec(IF MustErase(check, seen) THEN new ELSE Programmed(new),
                       "FLASH")
      /\ IF Len(data) > n
           THEN call' = [op |-> IF check THEN "checkFlash" ELSE "writeFlash",
                         at |-> at + n, data |-> SubSeq(data, n + 1, Len(data))]
           ELSE Returns

\* Callers flush the page buffer, and say that flash need not be checked only
\* if what they write is erased.
MayWrite(m, at, data, check) ==
  /\ flBuffer = CleanFlashBuffer
  /\ ~check => \A c \in Span(m, at, Len(data)) : nvm[c] = Erased

FlashEraseAndWriteBuffer(at, data, check) ==
  /\ at + Len(data) <= AppSize
  /\ MayWrite("FLASH", at, data, check) /\ ~(check /\ cmdLost)
  /\ Starts(Asked("FLASH", at, data))
  /\ FlashUnit(at, data, check)
  /\ flLoads' = CleanFlashBuffer
  /\ UNCHANGED <<cmd, cmdLost>> /\ EepromUnused

FlashNextUnit ==
  /\ call.op \in {"checkFlash", "writeFlash"} /\ Ready
  /\ FlashUnit(call.at, call.data, call.op = "checkFlash")
  /\ UNCHANGED <<nvm, eeBuffer, cmd, calls, history>>

\* The whole row is loaded; it is erased if it must be, and then written.  The
\* call would not return for an address past the row.
WriteRowCommand ==
  Exec(Programmed(FlashValues(RowCells, flBuffer')), "FLASH") /\ Returns

UserSigWriteBuffer(at, data, check) ==
  LET seen == Restrict(nvm, RowCells)
  IN  /\ at + Len(data) <= FlashPage
      /\ MayWrite("ROW", at, data, check)
      /\ Starts(Asked("ROW", at, data))
      /\ LoadImage(PageImage(RowCells, at, data, check, seen))
      /\ IF MustErase(check, seen)
           THEN /\ Exec(ErasedCells(RowCells), NoClear)
                /\ call' = [NoCall EXCEPT !.op = "writeRow"]
           ELSE WriteRowCommand
      /\ flLoads' = CleanFlashBuffer
      /\ UNCHANGED <<cmd, cmdLost>> /\ EepromUnused

UserSigWritePage ==
  /\ call.op = "writeRow" /\ Ready
  /\ UNCHANGED flBuffer
  /\ WriteRowCommand
  /\ UNCHANGED <<nvm, eeBuffer, cmd, calls, history>>

\* A field that is not to change is written as not locked, all ones.
LockBitsWrite(field, v) ==
  LET data == [c \in LockCells |-> IF c[2] = field THEN v ELSE Erased]
  IN  /\ Starts([c \in {<<"LOCK", field>>} |-> nvm[c] \cap v]) /\ Returns
      /\ Exec(Programmed(data), NoClear)
      /\ UNCHANGED <<cmd, cmdLost>> /\ EepromUnused /\ FlashUnused

-----------------------------------------------------------------------------
(***************************************************************************)
(* Reading.  nvm_user_sig_read_buffer and nvm_read_byte do not wait: their *)
(* callers do.  Both, and nvm_fuses_read, set NVM.CMD for the byte that    *)
(* they read and put it back.                                              *)
(***************************************************************************)
Reads(cells) ==
  /\ Ready /\ call = NoCall
  /\ UNCHANGED <<controller, call, calls, eeLoads, flLoads, cmdLost, pending,
                 oldRow>>

EepromRead(at, n) == LET cells == Span("EEPROM", at, n)
                     IN  Reads(cells) /\ got' = Restrict(nvm, cells)

FlashRead(at, n) == LET cells == Span("FLASH", at, n)
                    IN  ~cmdLost /\ Reads(cells) /\ got' \in SeenByLpm(cells)

\* Only the first address is taken modulo the page.
UserSigRead(at, n) == LET cells == Span("ROW", (at % FlashPage), n)
                      IN  /\ (at % FlashPage) + n <= FlashPage
                          /\ Reads(cells) /\ got' = Restrict(nvm, cells)

FusesRead(fuse) == LET cells == Span("FUSE", fuse, 1)
                   IN  Reads(cells) /\ got' = Restrict(nvm, cells)

ReadDeviceSerial == Reads(SerialCells) /\ got' = Restrict(nvm, SerialCells)

-----------------------------------------------------------------------------
Init ==
  /\ nvm \in {[c \in Cell |-> v] : v \in {Erased, {}}}
  /\ busy = NotBusy /\ eeBuffer = NoBytes /\ flBuffer = CleanFlashBuffer
  /\ cmd = NoOperation /\ call = NoCall /\ calls = 0
  /\ eeLoads = NoBytes /\ flLoads = CleanFlashBuffer /\ cmdLost = FALSE
  /\ pending = NoBytes /\ oldRow = Restrict(nvm, RowCells) /\ got = NoBytes

EepromCall ==
  \/ EepromFlush \/ EepromEraseAll \/ EepromEraseBytesInAllPages
  \/ \E v \in Byte : FillBuffer(v)
  \/ \E a \in Offsets(EepromSize), v \in Byte : WriteByte(a, v)
  \/ \E a \in Offsets(EepromPage), v \in Byte : LoadByte(a, v)
  \/ \E b \in Buffers : /\ Len(b) = EepromPage
                        /\ LoadPage([o \in Offsets(EepromPage) |-> b[o + 1]])
  \/ \E page \in Offsets(EepromPages) :
       \/ EepromAtomicWrite(page) \/ EepromSplitWrite(page)
       \/ EepromEraseBytes(page) \/ EepromErasePage(page)
  \/ \E at \in Offsets(EepromSize), b \in Buffers :
       EepromEraseAndWriteBuffer(at, b)

FlashCall ==
  \/ FlashFlush \/ EraseApp \/ IssueFlashRangeCrc
  \/ \E o \in Offsets(FlashPage), lsb, msb \in Byte :
       o % 2 = 0 /\ FlashLoadWord(o, lsb, msb)
  \/ \E page \in Offsets(AppPages + BootPages) :
       \/ EraseAppPage(page) \/ SplitWriteAppPage(page) \/ AtomicWriteAppPage(page)
       \/ EraseBootPage(page) \/ SplitWriteBootPage(page) \/ AtomicWriteBootPage(page)
  \/ \E at \in Offsets(AppSize), b \in Buffers, check \in BOOLEAN :
       FlashEraseAndWriteBuffer(at, b, check)
  \/ EraseUserSection \/ WriteUserPage
  \/ \E at \in Offsets(FlashPage), b \in Buffers, check \in BOOLEAN :
       UserSigWriteBuffer(at, b, check)
  \/ \E field \in Offsets(4), v \in Byte : LockBitsWrite(field, v)

\* Each memory as a whole; UserSigRead is given an address past the row;
\* of the fuse bytes the last.
Read ==
  \/ EepromRead(0, EepromSize) \/ FlashRead(0, AppSize)
  \/ UserSigRead(FlashPage, FlashPage)
  \/ ReadDeviceSerial \/ FusesRead(1)

Next ==
  \/ EepromCall \/ FlashCall \/ Read \/ RestoreCmd
  \/ EepromNextUnit \/ FlashNextUnit \/ UserSigWritePage
  \/ Complete \/ PowerFails

Spec == Init /\ [][Next]_vars

-----------------------------------------------------------------------------
(***************************************************************************)
(* Properties                                                              *)
(***************************************************************************)
\* A page of flash and the row are rewritten as a whole; the lock bits share a
\* byte.
Mates == [c \in Cell |->
            CASE c \in EepromCells -> {c}
              [] c \in FlashCells -> FlashPageOf(c[2] \div FlashPage)
              [] c \in RowCells -> RowCells
              [] OTHER -> LockCells]

InProgress == IF call.op = "writeRow" THEN RowCells ELSE DOMAIN busy.new

Store == INSTANCE ByteStore WITH
  mem <- Over(oldRow, nvm), want <- pending, programming <- InProgress

\* Whatever was loaded, left behind or cut short before, a call changes the
\* bytes it is asked to change, in order, and no others; only what is being
\* programmed when the power fails may be lost.
ImplementsStore == Store!Spec

\* What a read returns is what the memory holds: the command register never
\* comes back from a write other than it was.
ReadsWhatIsStored == \A c \in DOMAIN got : got[c] = nvm[c]
=============================================================================
