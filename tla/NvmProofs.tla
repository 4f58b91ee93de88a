------------------------------ MODULE NvmProofs ------------------------------
(***************************************************************************)
(* The memory driver for every size of the pages and of the memories, and  *)
(* for everything its callers may write: what a read returns is what is    *)
(* stored, and a call changes what it was asked to change and nothing else *)
(* (ByteStore).                                                            *)
(*                                                                         *)
(* The account is kept by cell: a command under way gives each of its      *)
(* cells the value the call was asked to give, or the one the cell has,    *)
(* and a call with commands still to issue has exactly the rest of its     *)
(* bytes left to give.                                                     *)
(***************************************************************************)
EXTENDS Nvm, TLAPS

-----------------------------------------------------------------------------
\* Values for some of the elements of a set.
Gives(f, S) == DOMAIN f \subseteq S /\ f \in [DOMAIN f -> Byte]

\* What the store holds for a reader of the specification ByteStore.
Mem == Over(oldRow, nvm)

Typed ==
  /\ nvm \in [Cell -> Byte] /\ oldRow \in [RowCells -> Byte]
  /\ busy = [new |-> busy.new, clears |-> busy.clears]
  /\ Gives(busy.new, Cell) /\ Gives(pending, Cell)
  /\ Gives(eeBuffer, Offsets(EepromPage))
  /\ flBuffer \in [Offsets(FlashPage) -> Byte]
  /\ call.op \in {"none", "writeEeprom", "checkFlash", "writeFlash", "writeRow"}

\* Only a call that may not preserve NVM.CMD leaves another command in it.
Register == ~cmdLost => cmd = NoOperation

\* The memory has not changed since it was read.
ReadKept ==
  /\ got # NoBytes => Ready /\ call = NoCall
  /\ DOMAIN got \subseteq Cell
  /\ ReadsWhatIsStored

\* But for the row while it is rewritten, the store is the memory.
RowSettled ==
  call.op # "writeRow" /\ ~(RowCells \subseteq DOMAIN busy.new) =>
    oldRow = Restrict(nvm, RowCells)

\* What is being programmed gets the value it was asked to get, or the one it has.
Giving ==
  call.op # "writeRow" =>
    \A c \in DOMAIN busy.new :
      busy.new[c] = IF c \in DOMAIN pending THEN pending[c] ELSE Mem[c]

AllBegun == call.op = "none" => call = NoCall /\ DOMAIN pending \subseteq DOMAIN busy.new

\* A call that has more to write has all of the rest still to give.
RestLeft(m, size) ==
  /\ call.data \in Seq(Byte) /\ Len(call.data) > 0
  /\ call.at \in Nat /\ call.at + Len(call.data) <= size
  /\ DOMAIN pending \ DOMAIN busy.new = Span(m, call.at, Len(call.data))
  /\ \A c \in Span(m, call.at, Len(call.data)) :
       pending[c] = call.data[c[2] - call.at + 1]
  /\ DOMAIN busy.new \subseteq Span(m, 0, call.at)

EepromLeft ==
  call.op = "writeEeprom" =>
    /\ RestLeft("EEPROM", EepromSize)
    /\ IF Ready THEN eeBuffer = NoBytes ELSE busy.clears = "EEPROM"

FlashLeft ==
  call.op \in {"checkFlash", "writeFlash"} =>
    /\ RestLeft("FLASH", AppSize)
    /\ call.at % FlashPage = 0
    /\ IF Ready THEN flBuffer = CleanFlashBuffer ELSE busy.clears = "FLASH"
    /\ call.op = "checkFlash" => cmd = NoOperation
    /\ call.op = "writeFlash" =>
         \A c \in Span("FLASH", call.at, Len(call.data)) : nvm[c] = Erased

\* While the row is erased the page buffer has what it will hold.
RowLeft ==
  call.op = "writeRow" =>
    /\ DOMAIN pending \subseteq RowCells /\ DOMAIN pending # {}
    /\ \A c \in RowCells :
         flBuffer[c[2]] = IF c \in DOMAIN pending THEN pending[c] ELSE oldRow[c]
    /\ IF Ready THEN \A c \in RowCells : nvm[c] = Erased
                ELSE busy = [new |-> ErasedCells(RowCells), clears |-> NoClear]

Inv == /\ Typed /\ Register /\ ReadKept
       /\ RowSettled /\ Giving /\ AllBegun
       /\ EepromLeft /\ FlashLeft /\ RowLeft

-----------------------------------------------------------------------------
(***************************************************************************)
(* Functions over cells.                                                   *)
(***************************************************************************)
LEMMA OverValues ==
  ASSUME NEW f, NEW g
  PROVE  /\ DOMAIN Over(f, g) = DOMAIN f \cup DOMAIN g
         /\ Over(f, g) = [x \in DOMAIN Over(f, g) |-> Over(f, g)[x]]
         /\ \A x \in DOMAIN f : Over(f, g)[x] = f[x]
         /\ \A x \in DOMAIN g \ DOMAIN f : Over(f, g)[x] = g[x]
BY DEF Over

LEMMA OverType ==
  ASSUME NEW S, NEW f, Gives(f, S), NEW g \in [S -> Byte]
  PROVE  Over(f, g) \in [S -> Byte]
BY DEF Over, Gives

LEMMA RestrictValues2 ==
  ASSUME NEW f, NEW S
  PROVE  /\ DOMAIN Restrict(f, S) = S
         /\ \A x \in S : Restrict(f, S)[x] = f[x]
BY DEF Restrict

LEMMA NoBytesEmpty ==
  /\ DOMAIN NoBytes = {}
  /\ \A S, f : DOMAIN f = {} /\ f \in [DOMAIN f -> S] => f = NoBytes
  /\ \A S : Gives(NoBytes, S)
BY DEF NoBytes, Gives

\* Equal on the same domain.
LEMMA SameFunction ==
  ASSUME NEW S, NEW f, NEW g, f = [x \in S |-> f[x]], g = [x \in S |-> g[x]],
         \A x \in S : f[x] = g[x]
  PROVE  f = g
<1>1. [x \in S |-> f[x]] = [x \in S |-> g[x]]
  OBVIOUS
<1> QED BY <1>1

-----------------------------------------------------------------------------
(***************************************************************************)
(* Cells, pages and offsets.                                               *)
(***************************************************************************)
LEMMA Sizes ==
  /\ EepromPages \in Nat /\ EepromPage \in Nat /\ EepromPage > 0
  /\ AppPages \in Nat /\ BootPages \in Nat
  /\ FlashPage \in Nat /\ FlashPage > 0
  /\ EepromSize \in Nat /\ AppSize \in Nat /\ BootPages * FlashPage \in Nat
BY SizesAssumption DEF EepromSize, AppSize

LEMMA InSpan ==
  ASSUME NEW m, NEW first \in Int, NEW n \in Int
  PROVE  /\ \A a : <<m, a>> \in Span(m, first, n) <=> a \in first..(first + n - 1)
         /\ \A c \in Span(m, first, n) :
              /\ c = <<m, c[2]>> /\ c[1] = m
              /\ c[2] \in Int /\ first <= c[2] /\ c[2] < first + n
         /\ \A k, a : <<k, a>> \in Span(m, first, n) => k = m
BY DEF Span

\* The place of an address in its page.
LEMMA InPage ==
  ASSUME NEW size \in Nat, size > 0, NEW a \in Nat
  PROVE  /\ a \div size \in Nat /\ a % size \in Nat /\ a % size < size
         /\ a = (size * (a \div size)) + (a % size)
OBVIOUS

LEMMA PageOfAddress ==
  ASSUME NEW size \in Nat, size > 0, NEW a \in Nat, NEW page \in Nat
  PROVE  page * size <= a /\ a < page * size + size
           <=> a \div size = page
<1> DEFINE q == a \div size
           r == a % size
<1>1. q \in Nat /\ r \in Nat /\ r < size /\ a = (size * q) + r
  BY InPage
<1> HIDE DEF q, r
<1>2. ASSUME q = page
      PROVE  page * size <= a /\ a < page * size + size
  BY <1>1, <1>2
<1>3. ASSUME q < page
      PROVE  ~(page * size <= a)
  <2>1. size * (q + 1) <= size * page
    BY <1>1, <1>3
  <2> QED BY <1>1, <2>1
<1>4. ASSUME q > page
      PROVE  ~(a < page * size + size)
  <2>1. size * (page + 1) <= size * q
    BY <1>1, <1>4
  <2> QED BY <1>1, <2>1
<1> QED BY <1>1, <1>2, <1>3, <1>4 DEF q

LEMMA OffsetInPage ==
  ASSUME NEW size \in Nat, size > 0, NEW a \in Nat, NEW page \in Nat,
         page * size <= a, a < page * size + size
  PROVE  a % size = a - page * size
<1>1. a \div size = page
  BY PageOfAddress
<1>2. a = (size * (a \div size)) + (a % size) /\ a % size \in Nat
  BY InPage
<1> QED BY <1>1, <1>2

\* The cells of page p, and of a range of pages.
LEMMA PageCells ==
  ASSUME NEW m, NEW size \in Nat, size > 0, NEW page \in Nat
  PROVE  \A c \in PageOf(m, page, size) :
           /\ c = <<m, c[2]>> /\ c[1] = m /\ c[2] \in Nat
           /\ page * size <= c[2] /\ c[2] < page * size + size
           /\ c[2] \div size = page /\ c[2] % size = c[2] - page * size
           /\ c[2] % size \in Offsets(size)
<1>1. page * size \in Nat
  OBVIOUS
<1> SUFFICES ASSUME NEW c \in PageOf(m, page, size)
             PROVE  /\ c = <<m, c[2]>> /\ c[1] = m /\ c[2] \in Nat
                    /\ page * size <= c[2] /\ c[2] < page * size + size
                    /\ c[2] \div size = page /\ c[2] % size = c[2] - page * size
                    /\ c[2] % size \in Offsets(size)
  OBVIOUS
<1>2. /\ c = <<m, c[2]>> /\ c[1] = m
      /\ c[2] \in Int /\ page * size <= c[2] /\ c[2] < page * size + size
  BY <1>1, InSpan DEF PageOf
<1>3. c[2] \in Nat
  BY <1>1, <1>2
<1>4. c[2] \div size = page
  BY <1>2, <1>3, PageOfAddress
<1>5. c[2] % size = c[2] - page * size
  BY <1>2, <1>3, OffsetInPage
<1>6. c[2] % size \in Offsets(size)
  BY <1>3, InPage DEF Offsets
<1> QED BY <1>2, <1>3, <1>4, <1>5, <1>6

LEMMA OwnPage ==
  ASSUME NEW m, NEW size \in Nat, size > 0, NEW a \in Nat
  PROVE  <<m, a>> \in PageOf(m, a \div size, size)
<1>1. a \div size \in Nat
  BY InPage
<1>2. (a \div size) * size <= a /\ a < (a \div size) * size + size
  BY <1>1, PageOfAddress
<1>3. a \in ((a \div size) * size)..((a \div size) * size + size - 1)
  BY <1>1, <1>2
<1> QED BY <1>3 DEF PageOf, Span

LEMMA PagesWithin ==
  ASSUME NEW m, NEW size \in Nat, size > 0, NEW pages \in Nat, NEW page \in Offsets(pages)
  PROVE  PageOf(m, page, size) \subseteq Span(m, 0, pages * size)
<1>1. page \in Nat /\ page + 1 <= pages
  BY DEF Offsets
<1>2. page * size + size <= pages * size
  <2>1. (page + 1) * size <= pages * size
    BY <1>1
  <2> QED BY <1>1, <2>1
<1>3. pages * size \in Nat
  OBVIOUS
<1> SUFFICES ASSUME NEW c \in PageOf(m, page, size)
             PROVE  c \in Span(m, 0, pages * size)
  OBVIOUS
<1>4. /\ c = <<m, c[2]>> /\ c[2] \in Nat /\ c[2] < page * size + size
  BY <1>1, PageCells
<1>5. c[2] \in 0..(0 + pages * size - 1)
  BY <1>1, <1>2, <1>3, <1>4
<1> QED BY <1>4, <1>5 DEF Span

LEMMA Memories ==
  /\ \A c \in EepromCells : c \in Cell /\ c[1] = "EEPROM" /\ c = <<"EEPROM", c[2]>>
  /\ \A c \in FlashCells : c \in Cell /\ c[1] = "FLASH" /\ c = <<"FLASH", c[2]>>
  /\ \A c \in RowCells : c \in Cell /\ c[1] = "ROW" /\ c = <<"ROW", c[2]>>
  /\ \A c \in LockCells : c \in Cell /\ c[1] = "LOCK" /\ c = <<"LOCK", c[2]>>
  /\ FuseCells \subseteq Cell /\ SerialCells \subseteq Cell
BY DEF EepromCells, FlashCells, RowCells, LockCells, FuseCells, SerialCells, Span, Cell

LEMMA AppInFlash == AppCells \subseteq FlashCells
<1> SUFFICES ASSUME NEW c \in AppCells PROVE c \in FlashCells
  OBVIOUS
<1>1. c = <<"FLASH", c[2]>> /\ c[2] \in 0..(0 + AppSize - 1)
  BY DEF AppCells, Span
<1>2. c[2] \in 0..(0 + (AppSize + BootPages * FlashPage) - 1)
  <2> DEFINE boot == BootPages * FlashPage
  <2>1. boot \in Nat /\ AppSize \in Nat
    BY Sizes
  <2> HIDE DEF boot
  <2>2. c[2] \in 0..(0 + (AppSize + boot) - 1)
    BY <1>1, <2>1
  <2> QED BY <2>2 DEF boot
<1> QED BY <1>1, <1>2 DEF FlashCells, Span

LEMMA PagesOfMemories ==
  /\ \A page \in Offsets(EepromPages) : PageOf("EEPROM", page, EepromPage) \subseteq EepromCells
  /\ \A page \in Offsets(AppPages) : FlashPageOf(page) \subseteq AppCells
  /\ \A page \in Offsets(AppPages + BootPages) : FlashPageOf(page) \subseteq FlashCells
  /\ RowCells = PageOf("ROW", 0, FlashPage)
<1>1. \A page \in Offsets(EepromPages) : PageOf("EEPROM", page, EepromPage) \subseteq EepromCells
  BY Sizes, PagesWithin DEF EepromCells, EepromSize
<1>2. \A page \in Offsets(AppPages) : FlashPageOf(page) \subseteq AppCells
  BY Sizes, PagesWithin DEF AppCells, AppSize, FlashPageOf
<1>3. \A page \in Offsets(AppPages + BootPages) : FlashPageOf(page) \subseteq FlashCells
  <2>1. (AppPages + BootPages) * FlashPage = AppSize + BootPages * FlashPage
    BY Sizes DEF AppSize
  <2>2. AppPages + BootPages \in Nat
    BY Sizes
  <2>3. \A page \in Offsets(AppPages + BootPages) :
          FlashPageOf(page) \subseteq Span("FLASH", 0, (AppPages + BootPages) * FlashPage)
    BY Sizes, <2>2, PagesWithin DEF FlashPageOf
  <2> QED BY <2>1, <2>3 DEF FlashCells
<1>4. RowCells = PageOf("ROW", 0, FlashPage)
  <2>1. 0 * FlashPage = 0
    BY Sizes
  <2> QED BY <2>1 DEF RowCells, PageOf
<1> QED BY <1>1, <1>2, <1>3, <1>4

\* The mates of a cell, memory by memory; it is one of them itself.
LEMMA MatesOfCells ==
  /\ \A c \in EepromCells : Mates[c] = {c}
  /\ \A c \in FlashCells : /\ Mates[c] = FlashPageOf(c[2] \div FlashPage)
                           /\ c \in Mates[c]
  /\ \A c \in RowCells : Mates[c] = RowCells
  /\ \A c \in LockCells : Mates[c] = LockCells
<1>1. ASSUME NEW c \in EepromCells PROVE Mates[c] = {c}
  BY <1>1, Memories DEF Mates
<1>2. ASSUME NEW c \in FlashCells
      PROVE  Mates[c] = FlashPageOf(c[2] \div FlashPage) /\ c \in Mates[c]
  <2>1. c \in Cell /\ c \notin EepromCells /\ c \notin RowCells /\ c = <<"FLASH", c[2]>>
    BY <1>2, Memories
  <2>2. Mates[c] = FlashPageOf(c[2] \div FlashPage)
    BY <1>2, <2>1 DEF Mates
  <2>3. c[2] \in Nat
    BY <1>2 DEF FlashCells, Span
  <2>4. <<"FLASH", c[2]>> \in FlashPageOf(c[2] \div FlashPage)
    BY <2>3, Sizes, OwnPage DEF FlashPageOf
  <2> QED BY <2>1, <2>2, <2>4
<1>3. ASSUME NEW c \in RowCells PROVE Mates[c] = RowCells
  <2>1. c \in Cell /\ c \notin EepromCells /\ c \notin FlashCells
    BY <1>3, Memories
  <2> QED BY <1>3, <2>1 DEF Mates
<1>4. ASSUME NEW c \in LockCells PROVE Mates[c] = LockCells
  <2>1. c \in Cell /\ c \notin EepromCells /\ c \notin FlashCells /\ c \notin RowCells
    BY <1>4, Memories
  <2> QED BY <1>4, <2>1 DEF Mates
<1> QED BY <1>1, <1>2, <1>3, <1>4

\* All the mates of a cell on a page.
LEMMA MatesOnPage ==
  ASSUME NEW page \in Offsets(AppPages + BootPages), NEW c \in FlashPageOf(page)
  PROVE  Mates[c] = FlashPageOf(page)
<1>1. page \in Nat
  BY DEF Offsets
<1>2. c[2] \div FlashPage = page
  BY <1>1, Sizes, PageCells DEF FlashPageOf
<1> QED BY <1>2, PagesOfMemories, MatesOfCells

-----------------------------------------------------------------------------
(***************************************************************************)
(* What commands leave in their cells.                                     *)
(***************************************************************************)
LEMMA ErasedIsByte == Erased \in Byte /\ \A v \in Byte : Erased \cap v = v /\ v \cap Erased = v
BY DEF Erased, Byte

LEMMA AtPageValues ==
  ASSUME NEW cells, NEW size, NEW b, Gives(b, Offsets(size))
  PROVE  /\ Gives(AtPage(cells, size, b), cells)
         /\ DOMAIN AtPage(cells, size, b) = {c \in cells : c[2] % size \in DOMAIN b}
         /\ \A c \in DOMAIN AtPage(cells, size, b) :
              AtPage(cells, size, b)[c] = b[c[2] % size]
BY DEF AtPage, Gives

LEMMA ErasedCellsValues ==
  ASSUME NEW cells
  PROVE  /\ Gives(ErasedCells(cells), cells)
         /\ DOMAIN ErasedCells(cells) = cells
         /\ \A c \in cells : ErasedCells(cells)[c] = Erased
BY ErasedIsByte DEF ErasedCells, Gives

LEMMA ProgrammedValues ==
  ASSUME NEW values, NEW S, Gives(values, S)
  PROVE  /\ Gives(Programmed(values), S)
         /\ DOMAIN Programmed(values) = DOMAIN values
         /\ \A c \in DOMAIN values : Programmed(values)[c] = nvm[c] \cap values[c]
BY DEF Programmed, Gives, Byte

LEMMA LoadedValues ==
  ASSUME NEW S, NEW b, NEW values, Gives(b, S), Gives(values, S)
  PROVE  /\ Gives(Loaded(b, values), S)
         /\ DOMAIN Loaded(b, values) = DOMAIN b \cup DOMAIN values
         /\ \A o \in DOMAIN values :
              (o \in DOMAIN b => b[o] = Erased) => Loaded(b, values)[o] = values[o]
<1>1. \A o \in DOMAIN values : values[o] \in Byte
  BY DEF Gives
<1>2. \A o \in DOMAIN b : b[o] \in Byte
  BY DEF Gives
<1>3. DOMAIN Loaded(b, values) = DOMAIN b \cup DOMAIN values
  BY DEF Loaded
<1>4. \A o \in DOMAIN Loaded(b, values) : Loaded(b, values)[o] \in Byte
  BY <1>1, <1>2 DEF Loaded, Byte
<1>5. Loaded(b, values) \in [DOMAIN Loaded(b, values) -> Byte]
  BY <1>4 DEF Loaded
<1>6. ASSUME NEW o \in DOMAIN values, o \in DOMAIN b => b[o] = Erased
      PROVE  Loaded(b, values)[o] = values[o]
  BY <1>1, <1>6, ErasedIsByte DEF Loaded
<1> QED BY <1>3, <1>5, <1>6 DEF Gives

LEMMA WidenGives ==
  ASSUME NEW S, NEW T, S \subseteq T, NEW f, Gives(f, S)
  PROVE  Gives(f, T)
BY DEF Gives

-----------------------------------------------------------------------------
(***************************************************************************)
(* Calls that issue all their commands at once.                            *)
(***************************************************************************)
\* new gives the cells asked for the values asked for, their mates what they
\* hold, and no other cell anything.
Answers(new, asked) ==
  /\ DOMAIN asked \subseteq DOMAIN new
  /\ DOMAIN new \subseteq UNION {Mates[c] : c \in DOMAIN asked}
  /\ \A c \in DOMAIN new : new[c] = IF c \in DOMAIN asked THEN asked[c] ELSE nvm[c]

StoreStep == Store!Next \/ UNCHANGED Store!vars

LEMMA Settled ==
  ASSUME Inv, Ready, call.op # "writeRow"
  PROVE  /\ DOMAIN busy.new = {} /\ busy = NotBusy
         /\ oldRow = Restrict(nvm, RowCells) /\ Mem = nvm /\ InProgress = {}
<1>1. DOMAIN busy.new = {}
  BY NoBytesEmpty DEF Ready, NotBusy
<1>2. ~(RowCells \subseteq DOMAIN busy.new)
  <2>1. 0 \in 0..(0 + FlashPage - 1)
    BY Sizes
  <2>2. <<"ROW", 0>> \in RowCells
    BY <2>1 DEF RowCells, Span
  <2> QED BY <1>1, <2>2
<1>3. oldRow = Restrict(nvm, RowCells)
  BY <1>2 DEF Inv, RowSettled
<1>4. Mem = nvm
  <2>1. nvm \in [Cell -> Byte] /\ DOMAIN nvm = Cell
    BY DEF Inv, Typed
  <2>2. RowCells \subseteq Cell
    BY Memories
  <2> QED BY <1>3, <2>1, <2>2 DEF Mem, Over, Restrict
<1> QED BY <1>1, <1>3, <1>4 DEF Ready, InProgress

LEMMA ReadyState ==
  ASSUME Inv, Ready, call = NoCall
  PROVE  /\ DOMAIN busy.new = {} /\ busy = NotBusy
         /\ pending = NoBytes /\ oldRow = Restrict(nvm, RowCells)
         /\ Mem = nvm /\ InProgress = {}
         /\ call.op = "none"
<1>1. call.op = "none"
  BY DEF NoCall
<1>2. /\ DOMAIN busy.new = {} /\ busy = NotBusy
      /\ oldRow = Restrict(nvm, RowCells) /\ Mem = nvm /\ InProgress = {}
  BY <1>1, Settled
<1>3. pending = NoBytes
  <2>1. DOMAIN pending = {} /\ pending \in [DOMAIN pending -> Byte]
    BY <1>1, <1>2 DEF Inv, AllBegun, Typed, Gives
  <2> QED BY <2>1, NoBytesEmpty
<1> QED BY <1>1, <1>2, <1>3

\* The part of the invariant about reads, while nothing is kept from one.
LEMMA NothingRead ==
  ASSUME got' = NoBytes
  PROVE  ReadKept'
BY NoBytesEmpty DEF ReadKept, ReadsWhatIsStored

LEMMA CallStarts ==
  ASSUME Inv, NEW asked, Starts(asked), Returns, Gives(asked, Cell),
         busy' = [new |-> busy'.new, clears |-> busy'.clears],
         Gives(busy'.new, Cell), Answers(busy'.new, asked),
         Gives(eeBuffer', Offsets(EepromPage)),
         flBuffer' \in [Offsets(FlashPage) -> Byte],
         ~cmdLost' => cmd' = NoOperation
  PROVE  Inv' /\ StoreStep
<1>1. /\ Ready /\ call = NoCall /\ pending' = asked /\ got' = NoBytes
      /\ nvm' = nvm /\ oldRow' = oldRow
      /\ call' = NoCall /\ call'.op = "none"
  BY DEF Starts, Returns, NoCall
<1>2. /\ pending = NoBytes /\ oldRow = Restrict(nvm, RowCells)
      /\ Mem = nvm /\ InProgress = {} /\ call.op = "none"
  BY <1>1, ReadyState
<1>3. Mem' = nvm
  BY <1>1, <1>2 DEF Mem
<1>4. Typed'
  BY <1>1 DEF Inv, Typed
<1>5. ReadKept'
  BY <1>1, NothingRead
<1>6. RowSettled'
  BY <1>1, <1>2 DEF RowSettled
<1>7. Giving'
  BY <1>1, <1>3 DEF Giving, Answers
<1>8. AllBegun'
  BY <1>1 DEF AllBegun, Answers
<1>9. EepromLeft' /\ FlashLeft' /\ RowLeft'
  BY <1>1 DEF EepromLeft, FlashLeft, RowLeft
<1>10. Inv'
  BY <1>4, <1>5, <1>6, <1>7, <1>8, <1>9 DEF Inv, Register
<1>11. Store!Call
  <2>1. InProgress' = DOMAIN busy'.new
    BY <1>1 DEF InProgress
  <2>2. pending = Store!Nothing
    BY <1>2 DEF NoBytes, Store!Nothing
  <2>3. /\ DOMAIN pending' \subseteq Cell
        /\ \A c \in DOMAIN pending' : pending'[c] \in Byte
    BY <1>1 DEF Gives
  <2>4. InProgress' # {} => Store!Program(pending', InProgress')
    <3> SUFFICES ASSUME DOMAIN busy'.new # {}
                 PROVE  Store!Program(asked, DOMAIN busy'.new)
      BY <1>1, <2>1
    <3>1. DOMAIN busy'.new \cap DOMAIN asked = DOMAIN asked
      BY DEF Answers
    <3>2. DOMAIN asked # {}
      BY DEF Answers
    <3>3. DOMAIN asked \ DOMAIN busy'.new = {}
      BY DEF Answers
    <3> QED BY <3>1, <3>2, <3>3 DEF Answers, Store!Program
  <2>5. UNCHANGED Over(oldRow, nvm)
    BY <1>1
  <2> QED BY <1>2, <2>2, <2>3, <2>4, <2>5 DEF Store!Call
<1> QED BY <1>10, <1>11 DEF StoreStep, Store!Next

Writable == EepromCells \cup FlashCells \cup RowCells \cup LockCells

LEMMA OwnAnswers ==
  ASSUME NEW asked, Gives(asked, Writable)
  PROVE  Gives(asked, Cell) /\ Answers(asked, asked)
<1>1. Writable \subseteq Cell /\ \A c \in Writable : c \in Mates[c]
  BY Memories, MatesOfCells DEF Writable
<1>2. Gives(asked, Cell)
  BY <1>1, WidenGives
<1>3. DOMAIN asked \subseteq UNION {Mates[c] : c \in DOMAIN asked}
  BY <1>1 DEF Gives
<1> QED BY <1>2, <1>3 DEF Answers

\* A call that programs nothing.
LEMMA QuietCall ==
  ASSUME Inv, Starts(NoBytes), Returns,
         busy' = busy \/ \E clears : Exec(NoBytes, clears),
         Gives(eeBuffer', Offsets(EepromPage)),
         flBuffer' \in [Offsets(FlashPage) -> Byte],
         ~cmdLost' => cmd' = NoOperation
  PROVE  Inv' /\ StoreStep
<1>1. Gives(NoBytes, Writable) /\ Gives(NoBytes, Cell)
  BY NoBytesEmpty
<1>2. busy = NotBusy
  BY DEF Starts, Ready
<1>3. /\ busy'.new = NoBytes
      /\ busy' = [new |-> busy'.new, clears |-> busy'.clears]
  BY <1>2 DEF Exec, NotBusy
<1>4. Answers(NoBytes, NoBytes)
  BY <1>1, OwnAnswers
<1> QED BY <1>1, <1>3, <1>4, CallStarts

LEMMA Kept ==
  ASSUME Inv
  PROVE  /\ Gives(eeBuffer, Offsets(EepromPage))
         /\ flBuffer \in [Offsets(FlashPage) -> Byte]
         /\ ~cmdLost => cmd = NoOperation
         /\ nvm \in [Cell -> Byte]
BY DEF Inv, Typed, Register

LEMMA EepromFlushKeeps ==
  ASSUME Inv, EepromFlush
  PROVE  Inv' /\ StoreStep
<1>1. /\ Starts(NoBytes) /\ Returns /\ eeBuffer' = NoBytes /\ cmdLost' = TRUE
      /\ busy' = busy /\ flBuffer' = flBuffer
  BY DEF EepromFlush, FlashUnused
<1> QED BY <1>1, Kept, NoBytesEmpty, QuietCall

LEMMA LoadEepromKeeps ==
  ASSUME Inv, NEW values, Gives(values, Offsets(EepromPage)), LoadEeprom(values)
  PROVE  Inv' /\ StoreStep
<1>1. /\ Starts(NoBytes) /\ Returns /\ eeBuffer' = Loaded(eeBuffer, values)
      /\ cmdLost' = cmdLost /\ cmd' = cmd
      /\ busy' = busy /\ flBuffer' = flBuffer
  BY DEF LoadEeprom, FlashUnused
<1>2. Gives(eeBuffer', Offsets(EepromPage))
  BY <1>1, Kept, LoadedValues
<1> QED BY <1>1, <1>2, Kept, QuietCall

LEMMA OneByteValues ==
  ASSUME NEW a \in Nat, NEW v \in Byte
  PROVE  /\ Gives(OneByte(a, v), Offsets(EepromPage))
         /\ DOMAIN OneByte(a, v) = {a % EepromPage}
         /\ OneByte(a, v)[a % EepromPage] = v
<1>1. (a % 256) % EepromPage = a % EepromPage
  <2> DEFINE p == EepromPage
             k == 256 \div p
             q == a \div 256
             r == a % 256
             s == r \div p
             o == r % p
  <2>1. p \in Nat /\ p > 0 /\ 256 % p = 0
    BY SizesAssumption
  <2>2. k \in Nat /\ 256 = p * k
    <3>1. 256 = (p * k) + (256 % p) /\ k \in Nat
      BY <2>1, InPage
    <3> QED BY <2>1, <3>1
  <2>3. q \in Nat /\ r \in Nat /\ a = (256 * q) + r
    BY InPage
  <2>4. s \in Nat /\ o \in Nat /\ o < p /\ r = (p * s) + o
    BY <2>1, <2>3, InPage
  <2> HIDE DEF p, k, q, r, s, o
  <2>5. 256 * q = p * (k * q)
    BY <2>1, <2>2, <2>3
  <2>6. p * (k * q) + p * s = p * (k * q + s)
    BY <2>1, <2>2, <2>3, <2>4
  <2>7. k * q + s \in Nat /\ a = p * (k * q + s) + o
    BY <2>1, <2>2, <2>3, <2>4, <2>5, <2>6
  <2>8. \A n \in Nat : (p * n + o) % p = o
    BY <2>1, <2>4
  <2>9. a % p = o
    BY <2>7, <2>8
  <2> QED BY <2>9 DEF p, o, r
<1>2. a % EepromPage \in Offsets(EepromPage)
  BY Sizes, InPage DEF Offsets
<1> QED BY <1>1, <1>2 DEF OneByte, Gives

LEMMA LoadByteKeeps ==
  ASSUME Inv, NEW a \in Offsets(EepromPage), NEW v \in Byte, LoadByte(a, v)
  PROVE  Inv' /\ StoreStep
<1>1. a \in Nat
  BY DEF Offsets
<1> QED BY <1>1, OneByteValues, LoadEepromKeeps DEF LoadByte

LEMMA BufferBytes ==
  ASSUME NEW b \in Buffers
  PROVE  b \in Seq(Byte) /\ Len(b) \in Nat /\ Len(b) > 0 /\ \A i \in 1..Len(b) : b[i] \in Byte
<1>1. b \in Seq(Byte) /\ b # <<>>
  BY SizesAssumption DEF Byte
<1> QED BY <1>1

LEMMA PageOfBuffer ==
  ASSUME NEW b \in Seq(Byte), NEW size \in Nat, Len(b) >= size
  PROVE  Gives([o \in Offsets(size) |-> b[o + 1]], Offsets(size))
<1>1. \A o \in Offsets(size) : b[o + 1] \in Byte
  BY DEF Offsets
<1> QED BY <1>1 DEF Gives

LEMMA LoadPageKeeps ==
  ASSUME Inv, NEW b \in Buffers, Len(b) = EepromPage,
         LoadPage([o \in Offsets(EepromPage) |-> b[o + 1]])
  PROVE  Inv' /\ StoreStep
BY BufferBytes, Sizes, PageOfBuffer, LoadEepromKeeps DEF LoadPage

LEMMA FillBufferKeeps ==
  ASSUME Inv, NEW v \in Byte, FillBuffer(v)
  PROVE  Inv' /\ StoreStep
<1> DEFINE all == [o \in Offsets(EepromPage) |-> v]
<1>1. /\ Starts(NoBytes) /\ Returns /\ eeBuffer' = Loaded(NoBytes, all)
      /\ cmdLost' = TRUE /\ busy' = busy /\ flBuffer' = flBuffer
  BY DEF FillBuffer, FlashUnused
<1>2. Gives(all, Offsets(EepromPage))
  BY DEF Gives
<1>3. Gives(eeBuffer', Offsets(EepromPage))
  BY <1>1, <1>2, NoBytesEmpty, LoadedValues
<1> QED BY <1>1, <1>3, Kept, QuietCall

LEMMA CleanType == CleanFlashBuffer \in [Offsets(FlashPage) -> Byte]
BY ErasedIsByte DEF CleanFlashBuffer

LEMMA FlashFlushKeeps ==
  ASSUME Inv, FlashFlush
  PROVE  Inv' /\ StoreStep
<1>1. /\ Starts(NoBytes) /\ Returns /\ flBuffer' = CleanFlashBuffer
      /\ cmdLost' = cmdLost /\ cmd' = cmd /\ busy' = busy /\ eeBuffer' = eeBuffer
  BY DEF FlashFlush, EepromUnused
<1> QED BY <1>1, Kept, CleanType, QuietCall

LEMMA FlashLoadWordKeeps ==
  ASSUME Inv, NEW a \in Offsets(FlashPage), NEW lsb \in Byte, NEW msb \in Byte,
         a % 2 = 0, FlashLoadWord(a, lsb, msb)
  PROVE  Inv' /\ StoreStep
<1> DEFINE o == a % FlashPage
           word == [p \in {o, o + 1} |-> IF p = o THEN lsb ELSE msb]
<1>1. /\ Starts(NoBytes) /\ Returns /\ flBuffer' = Loaded(flBuffer, word)
      /\ cmdLost' = cmdLost /\ cmd' = cmd /\ busy' = busy /\ eeBuffer' = eeBuffer
  BY DEF FlashLoadWord, EepromUnused
<1>2. o \in Offsets(FlashPage) /\ o + 1 \in Offsets(FlashPage)
  <2>1. a \in Nat /\ a < FlashPage /\ FlashPage \in Nat /\ FlashPage % 2 = 0
    BY SizesAssumption DEF Offsets
  <2>2. o = a
    BY <2>1
  <2>3. a + 1 < FlashPage
    BY <2>1
  <2> QED BY <2>1, <2>2, <2>3 DEF Offsets
<1> HIDE DEF o
<1>3. Gives(word, Offsets(FlashPage))
  BY <1>2 DEF Gives
<1> HIDE DEF word
<1>4. Gives(flBuffer, Offsets(FlashPage))
  BY Kept DEF Gives
<1>5. flBuffer' \in [Offsets(FlashPage) -> Byte]
  <2> DEFINE loaded == Loaded(flBuffer, word)
  <2>1. Gives(loaded, Offsets(FlashPage))
    BY <1>3, <1>4, LoadedValues
  <2>2. DOMAIN flBuffer = Offsets(FlashPage)
    BY Kept
  <2>3. DOMAIN loaded = Offsets(FlashPage)
    BY <1>3, <2>2 DEF Gives, Loaded
  <2>4. flBuffer' = loaded
    BY <1>1
  <2> HIDE DEF loaded
  <2> QED BY <2>1, <2>3, <2>4 DEF Gives
<1> QED BY <1>1, <1>5, Kept, QuietCall

LEMMA CrcKeeps ==
  ASSUME Inv, IssueFlashRangeCrc
  PROVE  Inv' /\ StoreStep
<1>1. /\ Starts(NoBytes) /\ Returns /\ Exec(NoBytes, "CRC")
      /\ cmdLost' = cmdLost /\ cmd' = cmd /\ eeBuffer' = eeBuffer
      /\ flBuffer' = flBuffer
  BY DEF IssueFlashRangeCrc, EepromUnused, FlashUnused
<1> QED BY <1>1, Kept, QuietCall

-----------------------------------------------------------------------------
(***************************************************************************)
(* Page commands of the EEPROM.                                            *)
(***************************************************************************)
LEMMA EepromPageCommandKeeps ==
  ASSUME Inv, NEW asked, Gives(asked, EepromCells), NEW clears,
         EepromPageCommand(asked, asked, clears),
         eeBuffer = NoBytes => DOMAIN asked = {}
  PROVE  Inv' /\ StoreStep
<1>1. /\ Starts(asked) /\ Returns /\ eeBuffer' = eeBuffer
      /\ cmd' = cmd /\ cmdLost' = cmdLost /\ flBuffer' = flBuffer
      /\ IF eeBuffer = NoBytes THEN busy' = busy ELSE Exec(asked, clears)
  BY DEF EepromPageCommand, FlashUnused
<1>2. Gives(asked, Writable)
  BY WidenGives DEF Writable
<1>3. Gives(asked, Cell) /\ Answers(asked, asked)
  BY <1>2, OwnAnswers
<1>4. CASE eeBuffer = NoBytes
  <2>1. asked = NoBytes
    BY <1>4, NoBytesEmpty DEF Gives
  <2> QED BY <1>1, <1>4, <2>1, Kept, QuietCall
<1>5. CASE eeBuffer # NoBytes
  <2>1. /\ busy' = [new |-> busy'.new, clears |-> busy'.clears]
        /\ busy'.new = asked
    BY <1>1, <1>5 DEF Exec
  <2> QED BY <1>1, <1>3, <2>1, Kept, CallStarts
<1> QED BY <1>4, <1>5

LEMMA EepromValuesOfPage ==
  ASSUME Inv, NEW page \in Offsets(EepromPages)
  PROVE  /\ Gives(EepromValues(page, eeBuffer), EepromCells)
         /\ eeBuffer = NoBytes => DOMAIN EepromValues(page, eeBuffer) = {}
<1> DEFINE cells == PageOf("EEPROM", page, EepromPage)
<1>1. cells \subseteq EepromCells
  BY PagesOfMemories
<1>2. Gives(eeBuffer, Offsets(EepromPage))
  BY Kept
<1>3. Gives(AtPage(cells, EepromPage, eeBuffer), cells)
  BY <1>2, AtPageValues
<1>4. Gives(AtPage(cells, EepromPage, eeBuffer), EepromCells)
  BY <1>1, <1>3, WidenGives
<1>5. eeBuffer = NoBytes => DOMAIN AtPage(cells, EepromPage, eeBuffer) = {}
  BY NoBytesEmpty DEF AtPage
<1> QED BY <1>4, <1>5 DEF EepromValues

LEMMA EepromAtomicWriteKeeps ==
  ASSUME Inv, NEW page \in Offsets(EepromPages), EepromAtomicWrite(page)
  PROVE  Inv' /\ StoreStep
<1>1. eeLoads = eeBuffer
  BY DEF EepromAtomicWrite, EepromPageCommand
<1>2. EepromPageCommand(EepromValues(page, eeBuffer), EepromValues(page, eeBuffer), "EEPROM")
  BY <1>1 DEF EepromAtomicWrite
<1> QED BY <1>2, EepromValuesOfPage, EepromPageCommandKeeps

LEMMA EepromSplitWriteKeeps ==
  ASSUME Inv, NEW page \in Offsets(EepromPages), EepromSplitWrite(page)
  PROVE  Inv' /\ StoreStep
<1> DEFINE asked == Programmed(EepromValues(page, eeBuffer))
<1>1. eeLoads = eeBuffer
  BY DEF EepromSplitWrite, EepromPageCommand
<1>2. EepromPageCommand(asked, asked, "EEPROM")
  BY <1>1 DEF EepromSplitWrite
<1>3. Gives(asked, EepromCells) /\ (eeBuffer = NoBytes => DOMAIN asked = {})
  BY EepromValuesOfPage, ProgrammedValues
<1> QED BY <1>2, <1>3, EepromPageCommandKeeps

LEMMA EepromEraseBytesKeeps ==
  ASSUME Inv, NEW page \in Offsets(EepromPages), EepromEraseBytes(page)
  PROVE  Inv' /\ StoreStep
<1> DEFINE asked == ErasedCells(DOMAIN EepromValues(page, eeBuffer))
<1>1. eeLoads = eeBuffer
  BY DEF EepromEraseBytes, EepromPageCommand
<1>2. EepromPageCommand(asked, asked, NoClear)
  BY <1>1 DEF EepromEraseBytes
<1>3. /\ Gives(asked, DOMAIN EepromValues(page, eeBuffer))
      /\ DOMAIN asked = DOMAIN EepromValues(page, eeBuffer)
  BY ErasedCellsValues
<1>4. Gives(asked, EepromCells) /\ (eeBuffer = NoBytes => DOMAIN asked = {})
  BY <1>3, EepromValuesOfPage DEF Gives
<1> QED BY <1>2, <1>4, EepromPageCommandKeeps

LEMMA EepromEraseBytesInAllPagesKeeps ==
  ASSUME Inv, EepromEraseBytesInAllPages
  PROVE  Inv' /\ StoreStep
<1> DEFINE cells == UNION {DOMAIN EepromValues(p, eeBuffer) : p \in 0..(EepromPages - 1)}
           asked == ErasedCells(cells)
<1>1. eeLoads = eeBuffer
  BY DEF EepromEraseBytesInAllPages, EepromPageCommand
<1>2. EepromPageCommand(asked, asked, NoClear)
  BY <1>1 DEF EepromEraseBytesInAllPages
<1>3. cells \subseteq EepromCells /\ (eeBuffer = NoBytes => cells = {})
  BY EepromValuesOfPage DEF Offsets, Gives
<1>4. Gives(asked, cells) /\ DOMAIN asked = cells
  BY ErasedCellsValues
<1>5. Gives(asked, EepromCells) /\ (eeBuffer = NoBytes => DOMAIN asked = {})
  BY <1>3, <1>4 DEF Gives
<1> QED BY <1>2, <1>5, EepromPageCommandKeeps

LEMMA EepromEraseKeeps ==
  ASSUME Inv, NEW cells, cells \subseteq EepromCells, EepromErase(cells)
  PROVE  Inv' /\ StoreStep
<1> DEFINE marked == [o \in Offsets(EepromPage) |-> Erased]
           asked == ErasedCells(cells)
<1>1. {c \in cells : c[2] % EepromPage \in DOMAIN marked} = cells
  <2>1. \A c \in cells : c[2] \in Nat
    BY DEF EepromCells, Span
  <2>2. \A c \in cells : c[2] % EepromPage \in Offsets(EepromPage)
    BY <2>1, Sizes, InPage DEF Offsets
  <2> QED BY <2>2
<1>2. /\ Starts(asked) /\ Returns /\ Exec(asked, NoClear) /\ flBuffer' = flBuffer
      /\ eeBuffer' = Loaded(NoBytes, marked) /\ cmdLost' = TRUE
  BY <1>1 DEF EepromErase, FlashUnused
<1>3. Gives(marked, Offsets(EepromPage))
  BY ErasedIsByte DEF Gives
<1>4. Gives(eeBuffer', Offsets(EepromPage))
  BY <1>2, <1>3, NoBytesEmpty, LoadedValues
<1>5. Gives(asked, Writable)
  BY ErasedCellsValues, WidenGives DEF Writable
<1>6. Gives(asked, Cell) /\ Answers(asked, asked)
  BY <1>5, OwnAnswers
<1>7. /\ busy' = [new |-> busy'.new, clears |-> busy'.clears]
      /\ busy'.new = asked
  BY <1>2 DEF Exec
<1> QED BY <1>2, <1>4, <1>6, <1>7, Kept, CallStarts

LEMMA EepromErasePageKeeps ==
  ASSUME Inv, NEW page \in Offsets(EepromPages), EepromErasePage(page)
  PROVE  Inv' /\ StoreStep
BY PagesOfMemories, EepromEraseKeeps DEF EepromErasePage

LEMMA EepromEraseAllKeeps ==
  ASSUME Inv, EepromEraseAll
  PROVE  Inv' /\ StoreStep
BY EepromEraseKeeps DEF EepromEraseAll

\* A byte by itself: the buffer has its value, and only that cell is programmed.
LEMMA ByteUnitValues ==
  ASSUME NEW a \in Nat, a < EepromSize, NEW v \in Byte
  PROVE  /\ Gives(ByteBuffer(a, v), Offsets(EepromPage))
         /\ Gives(EepromValues(a \div EepromPage, ByteBuffer(a, v)), EepromCells)
         /\ DOMAIN EepromValues(a \div EepromPage, ByteBuffer(a, v)) = {<<"EEPROM", a>>}
         /\ EepromValues(a \div EepromPage, ByteBuffer(a, v))[<<"EEPROM", a>>] = v
<1> DEFINE page == a \div EepromPage
           cells == PageOf("EEPROM", page, EepromPage)
           b == ByteBuffer(a, v)
           new == AtPage(cells, EepromPage, b)
<1>1. /\ Gives(OneByte(a, v), Offsets(EepromPage))
      /\ DOMAIN OneByte(a, v) = {a % EepromPage}
      /\ OneByte(a, v)[a % EepromPage] = v
  BY OneByteValues
<1>2. Gives(NoBytes, Offsets(EepromPage)) /\ DOMAIN NoBytes = {}
  BY NoBytesEmpty
<1>3. /\ Gives(b, Offsets(EepromPage))
      /\ DOMAIN b = {a % EepromPage} /\ b[a % EepromPage] = v
  <2>1. Gives(b, Offsets(EepromPage))
    BY <1>1, <1>2, LoadedValues DEF ByteBuffer
  <2> DEFINE o == a % EepromPage
  <2> HIDE DEF o
  <2>2. DOMAIN b = {o} /\ b[o] = v
    BY <1>1, <1>2 DEF ByteBuffer, Loaded, o
  <2> QED BY <2>1, <2>2 DEF o
<1>4. page \in Nat /\ <<"EEPROM", a>> \in cells
  BY Sizes, InPage, OwnPage
<1>5. \A c \in cells : c[2] % EepromPage = a % EepromPage => c = <<"EEPROM", a>>
  <2>1. \A c \in cells : c = <<"EEPROM", c[2]>> /\ c[2] % EepromPage = c[2] - page * EepromPage
    BY <1>4, Sizes, PageCells
  <2>2. \A c \in cells : c[2] \in Nat
    BY <1>4, Sizes, PageCells
  <2>3. a % EepromPage = a - page * EepromPage
    BY <1>4, <2>1
  <2>4. page * EepromPage \in Nat
    BY <1>4, Sizes
  <2> DEFINE base == page * EepromPage
  <2> HIDE DEF base
  <2>5. ASSUME NEW c \in cells, c[2] - base = a - base
        PROVE  c[2] = a
    BY <2>2, <2>4, <2>5 DEF base
  <2> QED BY <2>1, <2>3, <2>5 DEF base
<1>6. cells \subseteq EepromCells
  <2>1. page < EepromPages
    <3>1. page * EepromPage <= a
      BY <1>4, Sizes, PageOfAddress
    <3>2. ASSUME page >= EepromPages PROVE FALSE
      <4>1. EepromPages * EepromPage <= page * EepromPage
        BY <3>2, <1>4, Sizes
      <4>2. EepromPages * EepromPage \in Nat /\ page * EepromPage \in Nat
        BY <1>4, Sizes
      <4> QED BY <3>1, <4>1, <4>2 DEF EepromSize
    <3> QED BY <1>4, <3>2, Sizes
  <2> QED BY <1>4, <2>1, Sizes, PagesOfMemories DEF Offsets
<1> HIDE DEF b, cells
<1>7. /\ Gives(new, cells)
      /\ DOMAIN new = {c \in cells : c[2] % EepromPage \in DOMAIN b}
      /\ \A c \in DOMAIN new : new[c] = b[c[2] % EepromPage]
  <2>1. Gives(new, cells)
    BY <1>3, AtPageValues
  <2> QED BY <2>1 DEF AtPage
<1>8. DOMAIN new = {<<"EEPROM", a>>} /\ new[<<"EEPROM", a>>] = v
  BY <1>3, <1>4, <1>5, <1>7
<1>9. Gives(new, EepromCells)
  BY <1>6, <1>7, WidenGives
<1> QED BY <1>3, <1>8, <1>9 DEF b, cells, EepromValues

\* What a call that writes data from at on is asked to give.
LEMMA AskedValues ==
  ASSUME NEW m, NEW at \in Nat, NEW data \in Seq(Byte)
  PROVE  /\ DOMAIN Asked(m, at, data) = Span(m, at, Len(data))
         /\ \A c \in Span(m, at, Len(data)) :
              Asked(m, at, data)[c] = data[c[2] - at + 1] /\ data[c[2] - at + 1] \in Byte
         /\ Gives(Asked(m, at, data), Span(m, at, Len(data)))
<1>1. \A c \in Span(m, at, Len(data)) : c[2] - at + 1 \in 1..Len(data)
  BY DEF Span
<1>2. \A c \in Span(m, at, Len(data)) : data[c[2] - at + 1] \in Byte
  BY <1>1
<1> QED BY <1>2 DEF Asked, Gives

LEMMA WriteByteKeeps ==
  ASSUME Inv, NEW a \in Offsets(EepromSize), NEW v \in Byte, WriteByte(a, v)
  PROVE  Inv' /\ StoreStep
<1> DEFINE asked == Asked("EEPROM", a, <<v>>)
           new == EepromValues(a \div EepromPage, ByteBuffer(a, v))
<1>1. a \in Nat /\ a < EepromSize
  BY Sizes DEF Offsets
<1>2. /\ Starts(asked) /\ Returns /\ eeBuffer' = ByteBuffer(a, v) /\ Exec(new, "EEPROM")
      /\ cmd' = cmd /\ cmdLost' = cmdLost /\ flBuffer' = flBuffer
  BY DEF WriteByte, FlashUnused, CmdOfWriteByte
<1>3. /\ Gives(ByteBuffer(a, v), Offsets(EepromPage))
      /\ Gives(new, EepromCells)
      /\ DOMAIN new = {<<"EEPROM", a>>} /\ new[<<"EEPROM", a>>] = v
  BY <1>1, ByteUnitValues
<1>4. /\ DOMAIN asked = {<<"EEPROM", a>>} /\ asked[<<"EEPROM", a>>] = v
      /\ Gives(asked, EepromCells)
  <2> DEFINE data == <<v>>
             wanted == Asked("EEPROM", a, data)
  <2>1. Span("EEPROM", a, 1) = {<<"EEPROM", a>>}
    BY <1>1 DEF Span
  <2>2. data \in Seq(Byte) /\ Len(data) = 1 /\ data[1] = v
    OBVIOUS
  <2>3. a - a + 1 = 1
    BY <1>1
  <2> HIDE DEF data
  <2>4. /\ DOMAIN wanted = Span("EEPROM", a, Len(data))
        /\ \A c \in Span("EEPROM", a, Len(data)) :
             wanted[c] = data[c[2] - a + 1] /\ data[c[2] - a + 1] \in Byte
        /\ Gives(wanted, Span("EEPROM", a, Len(data)))
    BY <1>1, <2>2, AskedValues
  <2>5. wanted = asked
    BY DEF data
  <2> HIDE DEF wanted, asked
  <2>6. DOMAIN wanted = {<<"EEPROM", a>>} /\ wanted[<<"EEPROM", a>>] = v
    BY <2>1, <2>2, <2>3, <2>4
  <2>7. Gives(wanted, EepromCells)
    BY <1>3, <2>4, <2>6 DEF Gives
  <2> QED BY <2>5, <2>6, <2>7
<1> HIDE DEF asked, new
<1>6. Gives(asked, Writable)
  BY <1>4, WidenGives DEF Writable
<1>7. Gives(asked, Cell) /\ Answers(asked, asked)
  BY <1>6, OwnAnswers
<1>8. Gives(new, Cell) /\ Answers(new, asked)
  BY <1>3, <1>4, <1>7, WidenGives, Memories DEF Answers
<1>9. /\ busy' = [new |-> busy'.new, clears |-> busy'.clears]
      /\ busy'.new = new
  BY <1>2 DEF Exec
<1> QED BY <1>2, <1>3, <1>7, <1>8, <1>9, Kept, CallStarts

-----------------------------------------------------------------------------
(***************************************************************************)
(* Page commands of flash and the row, and the lock bits.                  *)
(***************************************************************************)
LEMMA FlashCommandKeeps ==
  ASSUME Inv, NEW asked, Gives(asked, Writable), NEW clears,
         FlashCommand(asked, asked, clears)
  PROVE  Inv' /\ StoreStep
<1>1. /\ Starts(asked) /\ Returns /\ Exec(asked, clears) /\ flBuffer' = flBuffer
      /\ cmd' = cmd /\ cmdLost' = cmdLost /\ eeBuffer' = eeBuffer
  BY DEF FlashCommand, EepromUnused
<1>2. Gives(asked, Cell) /\ Answers(asked, asked)
  BY OwnAnswers
<1>3. /\ busy' = [new |-> busy'.new, clears |-> busy'.clears]
      /\ busy'.new = asked
  BY <1>1 DEF Exec
<1> QED BY <1>1, <1>2, <1>3, Kept, CallStarts

LEMMA ErasePageKeeps ==
  ASSUME Inv, NEW cells, cells \subseteq Writable,
         FlashCommand(ErasedCells(cells), ErasedCells(cells), NoClear)
  PROVE  Inv' /\ StoreStep
<1>1. Gives(ErasedCells(cells), cells)
  BY ErasedCellsValues
<1>2. Gives(ErasedCells(cells), Writable)
  BY <1>1, WidenGives
<1> QED BY <1>2, FlashCommandKeeps

LEMMA FlashValuesOfCells ==
  ASSUME Inv, NEW cells, cells \subseteq Writable
  PROVE  Gives(FlashValues(cells, flBuffer), Writable)
<1>1. Gives(flBuffer, Offsets(FlashPage))
  BY Kept DEF Gives
<1>2. Gives(AtPage(cells, FlashPage, flBuffer), cells)
  BY <1>1, AtPageValues
<1> QED BY <1>2, WidenGives DEF FlashValues

LEMMA SplitWritePageKeeps ==
  ASSUME Inv, NEW cells, cells \subseteq Writable, SplitWritePage(cells)
  PROVE  Inv' /\ StoreStep
<1> DEFINE asked == Programmed(FlashValues(cells, flBuffer))
<1>1. flLoads = flBuffer
  BY DEF SplitWritePage, FlashCommand
<1>2. FlashCommand(asked, asked, "FLASH")
  BY <1>1 DEF SplitWritePage
<1>3. Gives(asked, Writable)
  BY FlashValuesOfCells, ProgrammedValues
<1> QED BY <1>2, <1>3, FlashCommandKeeps

LEMMA AtomicWritePageKeeps ==
  ASSUME Inv, NEW cells, cells \subseteq Writable, AtomicWritePage(cells)
  PROVE  Inv' /\ StoreStep
<1> DEFINE asked == FlashValues(cells, flBuffer)
<1>1. flLoads = flBuffer
  BY DEF AtomicWritePage, FlashCommand
<1>2. FlashCommand(asked, asked, "FLASH")
  BY <1>1 DEF AtomicWritePage
<1> QED BY <1>2, FlashValuesOfCells, FlashCommandKeeps

LEMMA FlashPageKeeps ==
  ASSUME Inv, NEW page \in Offsets(AppPages + BootPages),
         \/ EraseAppPage(page) \/ SplitWriteAppPage(page) \/ AtomicWriteAppPage(page)
         \/ EraseBootPage(page) \/ SplitWriteBootPage(page) \/ AtomicWriteBootPage(page)
  PROVE  Inv' /\ StoreStep
<1>1. FlashPageOf(page) \subseteq Writable
  BY PagesOfMemories DEF Writable
<1>2. \/ ErasePage(FlashPageOf(page)) \/ SplitWritePage(FlashPageOf(page))
      \/ AtomicWritePage(FlashPageOf(page))
  BY DEF EraseAppPage, SplitWriteAppPage, AtomicWriteAppPage,
         EraseBootPage, SplitWriteBootPage, AtomicWriteBootPage
<1>3. CASE ErasePage(FlashPageOf(page))
  BY <1>1, <1>3, ErasePageKeeps DEF ErasePage
<1>4. CASE SplitWritePage(FlashPageOf(page))
  BY <1>1, <1>4, SplitWritePageKeeps
<1>5. CASE AtomicWritePage(FlashPageOf(page))
  BY <1>1, <1>5, AtomicWritePageKeeps
<1> QED BY <1>2, <1>3, <1>4, <1>5

LEMMA WholeSectionKeeps ==
  ASSUME Inv, EraseApp \/ EraseUserSection \/ WriteUserPage
  PROVE  Inv' /\ StoreStep
<1>1. AppCells \subseteq Writable /\ RowCells \subseteq Writable
  BY AppInFlash DEF Writable
<1>2. CASE EraseApp
  BY <1>1, <1>2, ErasePageKeeps DEF EraseApp
<1>3. CASE EraseUserSection
  BY <1>1, <1>3, ErasePageKeeps DEF EraseUserSection, ErasePage
<1>4. CASE WriteUserPage
  BY <1>1, <1>4, SplitWritePageKeeps DEF WriteUserPage
<1> QED BY <1>2, <1>3, <1>4

LEMMA LockBitsWriteKeeps ==
  ASSUME Inv, NEW field \in Offsets(4), NEW v \in Byte, LockBitsWrite(field, v)
  PROVE  Inv' /\ StoreStep
<1> DEFINE data == [c \in LockCells |-> IF c[2] = field THEN v ELSE Erased]
           own == <<"LOCK", field>>
           asked == [c \in {own} |-> nvm[c] \cap v]
           new == Programmed(data)
<1>1. /\ Starts(asked) /\ Returns /\ Exec(new, NoClear) /\ flBuffer' = flBuffer
      /\ cmd' = cmd /\ cmdLost' = cmdLost /\ eeBuffer' = eeBuffer
  BY DEF LockBitsWrite, EepromUnused, FlashUnused
<1>2. own \in LockCells /\ LockCells \subseteq Cell /\ own[2] = field
  BY Memories DEF LockCells, Span, Offsets
<1>3. \A c \in LockCells : c[2] = field => c = own
  BY Memories
<1> HIDE DEF own
<1>4. \A c \in LockCells : nvm[c] \in Byte /\ nvm[c] \cap Erased = nvm[c]
  BY <1>2, Kept, ErasedIsByte
<1>5. Gives(asked, Cell)
  BY <1>2, <1>4 DEF Gives, Byte
<1>6. Gives(data, LockCells) /\ DOMAIN data = LockCells
  BY ErasedIsByte DEF Gives
<1>7. DOMAIN new = LockCells /\ \A c \in LockCells : new[c] = nvm[c] \cap data[c]
  BY DEF Programmed
<1>8. Gives(new, LockCells)
  BY <1>6, ProgrammedValues
<1>9. Gives(new, Cell)
  BY <1>2, <1>8, WidenGives
<1>10. Answers(new, asked)
  <2>1. DOMAIN asked = {own} /\ asked[own] = nvm[own] \cap v
    OBVIOUS
  <2>2. DOMAIN new \subseteq UNION {Mates[c] : c \in DOMAIN asked}
    BY <1>2, <1>7, <2>1, MatesOfCells
  <2>3. new[own] = asked[own]
    BY <1>2, <1>7, <2>1
  <2>4. \A c \in LockCells : c # own => new[c] = nvm[c]
    BY <1>3, <1>4, <1>7
  <2> HIDE DEF asked, new
  <2> QED BY <1>2, <1>7, <2>1, <2>2, <2>3, <2>4 DEF Answers
<1>11. /\ busy' = [new |-> busy'.new, clears |-> busy'.clears]
       /\ busy'.new = new
  BY <1>1 DEF Exec
<1> HIDE DEF asked, new
<1> QED BY <1>1, <1>5, <1>9, <1>10, <1>11, Kept, CallStarts

-----------------------------------------------------------------------------
(***************************************************************************)
(* Calls that write a buffer, a unit at a time.                            *)
(***************************************************************************)
\* The command under way gives the bytes of data below at + n, and nothing but
\* what is there to the other cells of their pages.
Unit(m, at, data, n) ==
  /\ busy' = [new |-> busy'.new, clears |-> busy'.clears]
  /\ Gives(busy'.new, Cell)
  /\ \A c \in Span(m, at, Len(data)) : c \in DOMAIN busy'.new <=> c[2] < at + n
  /\ DOMAIN busy'.new
       \subseteq UNION {Mates[c] : c \in Span(m, at, Len(data)) \cap DOMAIN busy'.new}
  /\ DOMAIN busy'.new \subseteq Span(m, 0, at + n)
  /\ \A c \in DOMAIN busy'.new :
       busy'.new[c] = IF c \in Span(m, at, Len(data)) THEN data[c[2] - at + 1] ELSE nvm[c]

\* The call goes on with the data behind the first n bytes, or it is over.
Passes(op, at, data, n) ==
  IF Len(data) > n
    THEN call' = [op |-> op, at |-> at + n, data |-> SubSeq(data, n + 1, Len(data))]
    ELSE Returns

\* What a unit of a call does for the store, and what it leaves to the next.
UnitMeets(m, size, at, data, n, op) ==
  /\ Store!Program(pending', InProgress') /\ InProgress' = DOMAIN busy'.new
  /\ Gives(pending', Cell)
  /\ (RowSettled /\ Giving /\ AllBegun /\ RowLeft)'
  /\ call'.op \in {"none", op}
  /\ call'.op = op => call'.at = at + n /\ RestLeft(m, size)'
  /\ call'.op = op =>
       Span(m, call'.at, Len(call'.data)) \subseteq Span(m, at, Len(data))

LEMMA UnitKeeps ==
  ASSUME Inv, Ready, call.op # "writeRow",
         NEW m, NEW size \in Nat, m # "ROW", Span(m, 0, size) \subseteq Cell,
         NEW at \in Nat, NEW data \in Seq(Byte), NEW n \in Nat, n > 0, Len(data) > 0,
         at + Len(data) <= size,
         pending' = Asked(m, at, data), Unit(m, at, data, n),
         UNCHANGED <<nvm, oldRow>>,
         NEW op \in {"writeEeprom", "checkFlash", "writeFlash"}, Passes(op, at, data, n)
  PROVE  UnitMeets(m, size, at, data, n, op)
<1> DEFINE cells == Span(m, at, Len(data))
           new == busy'.new
           rest == Span(m, at + n, Len(data) - n)
           data2 == SubSeq(data, n + 1, Len(data))
<1>1. /\ DOMAIN pending' = cells
      /\ \A c \in cells : pending'[c] = data[c[2] - at + 1]
      /\ Gives(pending', cells)
  <2>1. /\ DOMAIN Asked(m, at, data) = cells
        /\ \A c \in cells :
             Asked(m, at, data)[c] = data[c[2] - at + 1] /\ data[c[2] - at + 1] \in Byte
        /\ Gives(Asked(m, at, data), cells)
    BY AskedValues
  <2> QED BY <2>1
<1>2. /\ \A c \in cells : c = <<m, c[2]>> /\ c[2] \in Nat /\ at <= c[2] /\ c[2] < at + Len(data)
      /\ <<m, at>> \in cells /\ <<m, at>>[2] = at
  BY DEF Span
<1>3. cells \subseteq Cell
  <2>1. cells \subseteq Span(m, 0, size)
    BY DEF Span
  <2> QED BY <2>1
<1>4. Gives(pending', Cell)
  BY <1>1, <1>3, WidenGives
<1>5. call'.op \in {"none", op} /\ call'.op # "writeRow"
  BY DEF Passes, Returns, NoCall
<1>6. InProgress' = DOMAIN new
  BY <1>5 DEF InProgress
<1>7. /\ \A c \in cells : c \in DOMAIN new <=> c[2] < at + n
      /\ DOMAIN new \subseteq UNION {Mates[c] : c \in cells \cap DOMAIN new}
      /\ DOMAIN new \subseteq Span(m, 0, at + n)
      /\ \A c \in DOMAIN new : new[c] = IF c \in cells THEN data[c[2] - at + 1] ELSE nvm[c]
  BY DEF Unit
<1>8. oldRow = Restrict(nvm, RowCells) /\ Mem = nvm
  BY Settled
<1>9. Mem' = nvm
  BY <1>8 DEF Mem
<1> HIDE DEF cells, new, rest, data2
<1>10. Store!Program(pending', InProgress')
  <2>1. <<m, at>> \in DOMAIN new \cap cells
    BY <1>2, <1>7
  <2>2. \A c \in cells \ DOMAIN new, d \in cells \cap DOMAIN new : ~Store!Before(c, d)
    BY <1>2, <1>7 DEF Store!Before
  <2>3. {Mates[c] : c \in DOMAIN new \cap cells} = {Mates[c] : c \in cells \cap DOMAIN new}
    OBVIOUS
  <2> QED BY <1>1, <1>6, <1>7, <2>1, <2>2, <2>3 DEF Store!Program
<1>11. RowSettled' /\ RowLeft'
  BY <1>5, <1>8 DEF RowSettled, RowLeft
<1>12. Giving'
  BY <1>1, <1>7, <1>9 DEF Giving, new
<1>13. AllBegun'
  <2> SUFFICES ASSUME call'.op = "none"
               PROVE  call' = NoCall /\ DOMAIN pending' \subseteq DOMAIN new
    BY DEF AllBegun, new
  <2>1. Len(data) <= n /\ call' = NoCall
    BY DEF Passes, Returns
  <2> QED BY <1>1, <1>2, <1>7, <2>1
<1>14. ASSUME call'.op = op
       PROVE  /\ call'.at = at + n /\ RestLeft(m, size)'
              /\ Span(m, call'.at, Len(call'.data)) \subseteq cells
  <2>1. /\ Len(data) > n /\ call'.at = at + n /\ call'.data = data2
    BY <1>14 DEF Passes, Returns, NoCall, data2
  <2>2. /\ data2 \in Seq(Byte) /\ Len(data2) = Len(data) - n
        /\ \A i \in 1..(Len(data) - n) : data2[i] = data[n + i]
    BY <2>1 DEF data2
  <2>3. rest = Span(m, call'.at, Len(call'.data))
    BY <2>1, <2>2 DEF rest
  <2>4. rest \subseteq cells
    BY <2>1 DEF rest, cells, Span
  <2>5. \A c \in cells : c \in rest <=> ~(c[2] < at + n)
    <3>1. \A c \in cells : ~(c[2] < at + n) => c[2] \in (at + n)..(at + n + (Len(data) - n) - 1)
      BY <1>2, <2>1
    <3>2. \A c \in cells : ~(c[2] < at + n) => c \in rest
      BY <1>2, <3>1 DEF rest, Span
    <3>3. \A c \in rest : ~(c[2] < at + n)
      BY <2>1 DEF rest, Span
    <3> QED BY <3>2, <3>3
  <2>6. DOMAIN pending' \ DOMAIN new = rest
    BY <1>1, <1>7, <2>4, <2>5
  <2>7. \A c \in rest : pending'[c] = data2[c[2] - (at + n) + 1]
    <3> SUFFICES ASSUME NEW c \in rest PROVE pending'[c] = data2[c[2] - (at + n) + 1]
      OBVIOUS
    <3>1. c \in cells /\ c[2] \in Nat /\ at + n <= c[2] /\ c[2] < at + Len(data)
      BY <1>2, <2>4, <2>5
    <3>2. c[2] - (at + n) + 1 \in 1..(Len(data) - n)
          /\ n + (c[2] - (at + n) + 1) = c[2] - at + 1
      BY <2>1, <3>1
    <3> QED BY <1>1, <2>2, <3>1, <3>2
  <2>8. RestLeft(m, size)'
    BY <1>7, <2>1, <2>2, <2>3, <2>6, <2>7 DEF RestLeft, new
  <2> QED BY <2>1, <2>3, <2>4, <2>8
<1> QED BY <1>4, <1>5, <1>6, <1>10, <1>11, <1>12, <1>13, <1>14 DEF UnitMeets, cells, new

-----------------------------------------------------------------------------
(***************************************************************************)
(* nvm_eeprom_erase_and_write_buffer.                                      *)
(***************************************************************************)
\* A unit whose cells are exactly n of the bytes still to be written.
LEMMA ExactUnit ==
  ASSUME NEW at \in Nat, NEW data \in Seq(Byte), NEW n \in Nat, n > 0, n <= Len(data),
         at + Len(data) <= EepromSize,
         NEW new, Exec(new, "EEPROM"), Gives(new, EepromCells),
         DOMAIN new = Span("EEPROM", at, n),
         \A c \in DOMAIN new : new[c] = data[c[2] - at + 1]
  PROVE  Unit("EEPROM", at, data, n) /\ busy'.clears = "EEPROM"
<1>1. /\ busy' = [new |-> busy'.new, clears |-> busy'.clears]
      /\ busy'.new = new /\ busy'.clears = "EEPROM"
  BY DEF Exec
<1> DEFINE cells == Span("EEPROM", at, Len(data))
<1>2. Gives(new, Cell)
  BY WidenGives, Memories
<1>3. DOMAIN new \subseteq cells
  BY DEF Span
<1>4. \A c \in cells : c \in DOMAIN new <=> c[2] < at + n
  <2>1. \A c \in cells : c = <<"EEPROM", c[2]>> /\ c[2] \in Nat /\ at <= c[2]
    BY DEF Span
  <2>2. \A a \in Nat : at <= a => (a \in at..(at + n - 1) <=> a < at + n)
    OBVIOUS
  <2>3. \A a : <<"EEPROM", a>> \in DOMAIN new <=> a \in at..(at + n - 1)
    BY DEF Span
  <2> HIDE DEF cells
  <2> QED BY <2>1, <2>2, <2>3
<1>5. DOMAIN new \subseteq UNION {Mates[c] : c \in cells \cap DOMAIN new}
  <2>1. \A c \in DOMAIN new : c \in Mates[c]
    BY MatesOfCells DEF Gives
  <2> QED BY <1>3, <2>1
<1>6. DOMAIN new \subseteq Span("EEPROM", 0, at + n)
  BY DEF Span
<1> HIDE DEF cells
<1> QED BY <1>1, <1>2, <1>3, <1>4, <1>5, <1>6 DEF Unit, cells

\* A whole page from the start of the page on, loaded over bytes that are ones.
LEMMA FullPageValues ==
  ASSUME NEW b, Gives(b, Offsets(EepromPage)), \A o \in DOMAIN b : b[o] = Erased,
         NEW at \in Nat, at % EepromPage = 0,
         NEW data \in Seq(Byte), Len(data) >= EepromPage, at + Len(data) <= EepromSize,
         NEW b2, b2 = Loaded(b, [o \in Offsets(EepromPage) |-> data[o + 1]])
  PROVE  /\ Gives(b2, Offsets(EepromPage))
         /\ Gives(EepromValues(at \div EepromPage, b2), EepromCells)
         /\ DOMAIN EepromValues(at \div EepromPage, b2) = Span("EEPROM", at, EepromPage)
         /\ \A c \in Span("EEPROM", at, EepromPage) :
              EepromValues(at \div EepromPage, b2)[c] = data[c[2] - at + 1]
<1> DEFINE page == at \div EepromPage
           cells == Span("EEPROM", at, EepromPage)
           values == [o \in Offsets(EepromPage) |-> data[o + 1]]
           new == AtPage(cells, EepromPage, b2)
<1>1. page \in Nat /\ page * EepromPage = at
  <2>1. page \in Nat /\ at = (EepromPage * page) + (at % EepromPage)
    BY Sizes, InPage
  <2> HIDE DEF page
  <2> QED BY <2>1, Sizes
<1>2. cells = PageOf("EEPROM", page, EepromPage)
  BY <1>1 DEF PageOf
<1>3. cells \subseteq EepromCells
  BY Sizes DEF Span, EepromCells
<1>4. \A c \in cells : c[2] % EepromPage \in Offsets(EepromPage) /\ c[2] % EepromPage = c[2] - at
  BY <1>1, <1>2, Sizes, PageCells
<1>5. Gives(values, Offsets(EepromPage)) /\ DOMAIN values = Offsets(EepromPage)
  BY Sizes, PageOfBuffer
<1>6. Gives(b2, Offsets(EepromPage))
  BY <1>5, LoadedValues
<1>7. \A o \in Offsets(EepromPage) : data[o + 1] \in Byte
  BY <1>5 DEF Gives
<1>8. DOMAIN b2 = Offsets(EepromPage) /\ \A o \in Offsets(EepromPage) : b2[o] = data[o + 1]
  <2>1. DOMAIN b \subseteq Offsets(EepromPage)
    BY DEF Gives
  <2> HIDE DEF values
  <2>2. b2 = Loaded(b, values) /\ DOMAIN values = Offsets(EepromPage)
    BY <1>5 DEF values
  <2>3. \A o \in Offsets(EepromPage) : values[o] = data[o + 1] /\ values[o] \in Byte
    BY <1>7 DEF values
  <2>4. DOMAIN b2 = Offsets(EepromPage)
    BY <2>1, <2>2 DEF Loaded
  <2>5. \A o \in Offsets(EepromPage) : b2[o] = values[o]
    <3>1. ASSUME NEW o \in Offsets(EepromPage), o \in DOMAIN b
          PROVE  b2[o] = values[o]
      <4>1. b2[o] = b[o] \cap values[o]
        BY <2>2, <3>1 DEF Loaded
      <4> QED BY <2>3, <3>1, <4>1, ErasedIsByte
    <3>2. ASSUME NEW o \in Offsets(EepromPage), o \notin DOMAIN b
          PROVE  b2[o] = values[o]
      BY <2>2, <3>2 DEF Loaded
    <3> QED BY <3>1, <3>2
  <2> QED BY <2>3, <2>4, <2>5
<1> HIDE DEF page, cells
<1>9. Gives(new, cells)
  BY <1>6, AtPageValues
<1>10. DOMAIN new = cells /\ \A c \in cells : new[c] = b2[c[2] % EepromPage]
  BY <1>4, <1>8 DEF AtPage
<1>11. \A c \in cells : new[c] = data[c[2] - at + 1]
  BY <1>4, <1>8, <1>10
<1>12. Gives(new, EepromCells)
  BY <1>3, <1>9, WidenGives
<1>13. EepromValues(page, b2) = new
  BY <1>2 DEF EepromValues
<1> HIDE DEF new
<1> QED BY <1>6, <1>10, <1>11, <1>12, <1>13 DEF page, cells

LEMMA EepromUnitStarts ==
  ASSUME Inv, NEW at \in Nat, NEW data \in Seq(Byte), Len(data) > 0,
         at + Len(data) <= EepromSize, EepromUnit(at, data),
         IsFullPage(at, data) => \A o \in DOMAIN eeBuffer : eeBuffer[o] = Erased
  PROVE  /\ Gives(eeBuffer', Offsets(EepromPage)) /\ cmd' = cmd
         /\ busy'.clears = "EEPROM"
         /\ \E n \in Nat :
              n > 0 /\ Unit("EEPROM", at, data, n) /\ Passes("writeEeprom", at, data, n)
<1> DEFINE new == EepromValues(at \div EepromPage, eeBuffer')
<1>1. Gives(eeBuffer, Offsets(EepromPage))
  BY Kept
<1>2. CASE IsFullPage(at, data)
  <2>1. /\ eeBuffer' = Loaded(eeBuffer, [o \in Offsets(EepromPage) |-> data[o + 1]])
        /\ cmd' = cmd /\ Exec(new, "EEPROM")
        /\ Passes("writeEeprom", at, data, EepromPage)
    BY <1>2 DEF EepromUnit, Passes
  <2>2. at % EepromPage = 0 /\ Len(data) >= EepromPage
    BY <1>2 DEF IsFullPage
  <2>3. /\ Gives(eeBuffer', Offsets(EepromPage))
        /\ Gives(new, EepromCells)
        /\ DOMAIN new = Span("EEPROM", at, EepromPage)
        /\ \A c \in Span("EEPROM", at, EepromPage) : new[c] = data[c[2] - at + 1]
    BY <1>1, <1>2, <2>1, <2>2, FullPageValues
  <2> HIDE DEF new
  <2>4. Unit("EEPROM", at, data, EepromPage) /\ busy'.clears = "EEPROM"
    BY <2>1, <2>2, <2>3, Sizes, ExactUnit
  <2> QED BY <2>1, <2>3, <2>4, Sizes
<1>3. CASE ~IsFullPage(at, data)
  <2>1. /\ eeBuffer' = ByteBuffer(at, data[1])
        /\ cmd' = cmd /\ Exec(new, "EEPROM")
        /\ Passes("writeEeprom", at, data, 1)
    BY <1>3 DEF EepromUnit, CmdOfWriteByte, Passes
  <2>2. at < EepromSize /\ data[1] \in Byte
    BY Sizes
  <2>3. /\ Gives(eeBuffer', Offsets(EepromPage))
        /\ Gives(new, EepromCells)
        /\ DOMAIN new = {<<"EEPROM", at>>} /\ new[<<"EEPROM", at>>] = data[1]
    BY <2>1, <2>2, ByteUnitValues
  <2> HIDE DEF new
  <2>4. Span("EEPROM", at, 1) = {<<"EEPROM", at>>}
    BY DEF Span
  <2>5. \A c \in DOMAIN new : new[c] = data[c[2] - at + 1]
    BY <2>3
  <2>6. Unit("EEPROM", at, data, 1) /\ busy'.clears = "EEPROM"
    <3> DEFINE n == 1
    <3>1. n \in Nat /\ n > 0 /\ n <= Len(data)
      OBVIOUS
    <3>2. DOMAIN new = Span("EEPROM", at, n)
      BY <2>3, <2>4
    <3>3. Gives(new, EepromCells) /\ Exec(new, "EEPROM")
      BY <2>1, <2>3
    <3> HIDE DEF n
    <3>4. Unit("EEPROM", at, data, n) /\ busy'.clears = "EEPROM"
      BY <2>5, <3>1, <3>2, <3>3, ExactUnit
    <3> QED BY <3>4 DEF n
  <2> QED BY <2>1, <2>3, <2>6
<1> QED BY <1>2, <1>3

LEMMA EepromSpan ==
  "EEPROM" # "ROW" /\ Span("EEPROM", 0, EepromSize) \subseteq Cell
BY Memories DEF EepromCells

LEMMA EepromEraseAndWriteBufferKeeps ==
  ASSUME Inv, NEW at \in Offsets(EepromSize), NEW data \in Buffers,
         EepromEraseAndWriteBuffer(at, data)
  PROVE  Inv' /\ StoreStep
<1>1. /\ at \in Nat /\ data \in Seq(Byte) /\ Len(data) > 0 /\ at + Len(data) <= EepromSize
  BY BufferBytes DEF Offsets, EepromEraseAndWriteBuffer
<1>2. /\ Starts(Asked("EEPROM", at, data)) /\ EepromUnit(at, data)
      /\ IsFullPage(at, data) => \A o \in DOMAIN eeBuffer : eeBuffer[o] = Erased
      /\ cmdLost' = cmdLost /\ flBuffer' = flBuffer
  BY DEF EepromEraseAndWriteBuffer, FlashUnused
<1>3. /\ Ready /\ call = NoCall /\ pending' = Asked("EEPROM", at, data) /\ got' = NoBytes
      /\ nvm' = nvm /\ oldRow' = oldRow
  BY <1>2 DEF Starts
<1>4. /\ call.op # "writeRow" /\ pending = NoBytes /\ InProgress = {}
  BY <1>3, ReadyState
<1>5. /\ Gives(eeBuffer', Offsets(EepromPage)) /\ cmd' = cmd
      /\ busy'.clears = "EEPROM"
  BY <1>1, <1>2, EepromUnitStarts
<1>6. PICK n \in Nat :
        n > 0 /\ Unit("EEPROM", at, data, n) /\ Passes("writeEeprom", at, data, n)
  BY <1>1, <1>2, EepromUnitStarts
<1>7. /\ Store!Program(pending', InProgress') /\ InProgress' = DOMAIN busy'.new
      /\ Gives(pending', Cell)
      /\ (RowSettled /\ Giving /\ AllBegun /\ RowLeft)'
      /\ call'.op \in {"none", "writeEeprom"}
      /\ call'.op = "writeEeprom" => RestLeft("EEPROM", EepromSize)'
  <2>1. /\ EepromSize \in Nat /\ "EEPROM" # "ROW"
        /\ Span("EEPROM", 0, EepromSize) \subseteq Cell
        /\ "writeEeprom" \in {"writeEeprom", "checkFlash", "writeFlash"}
        /\ UNCHANGED <<nvm, oldRow>>
    BY <1>3, Sizes, EepromSpan
  <2>2. UnitMeets("EEPROM", EepromSize, at, data, n, "writeEeprom")
    BY <1>1, <1>3, <1>4, <1>6, <2>1, UnitKeeps
  <2> QED BY <2>2 DEF UnitMeets
<1>8. EepromLeft' /\ FlashLeft'
  BY <1>5, <1>7 DEF EepromLeft, FlashLeft, Ready, NotBusy, NoClear
<1>9. Typed'
  BY <1>3, <1>5, <1>6, <1>7, <1>2 DEF Inv, Typed, Unit
<1>10. Inv'
  BY <1>2, <1>3, <1>5, <1>7, <1>8, <1>9, NothingRead, Kept DEF Inv, Register
<1>11. Store!Call
  BY <1>3, <1>4, <1>7 DEF Store!Call, Store!Nothing, NoBytes, Gives
<1> QED BY <1>10, <1>11 DEF StoreStep, Store!Next

\* What a waiting call still has to give, when the controller is ready.
LEMMA RestIsAsked ==
  ASSUME Inv, Ready, NEW m, NEW size \in Nat, RestLeft(m, size)
  PROVE  pending = Asked(m, call.at, call.data)
<1>1. DOMAIN busy.new = {}
  BY NoBytesEmpty DEF Ready, NotBusy
<1>2. /\ DOMAIN pending = Span(m, call.at, Len(call.data))
      /\ \A c \in Span(m, call.at, Len(call.data)) : pending[c] = call.data[c[2] - call.at + 1]
  BY <1>1 DEF RestLeft
<1>3. pending = [c \in DOMAIN pending |-> pending[c]]
  BY DEF Inv, Typed, Gives
<1> QED BY <1>2, <1>3 DEF Asked

LEMMA EepromNextUnitKeeps ==
  ASSUME Inv, EepromNextUnit
  PROVE  Inv' /\ StoreStep
<1> DEFINE at == call.at
           data == call.data
<1>1. /\ call.op = "writeEeprom" /\ Ready /\ EepromUnit(at, data)
      /\ nvm' = nvm /\ flBuffer' = flBuffer /\ cmdLost' = cmdLost
      /\ pending' = pending /\ oldRow' = oldRow /\ got' = got
  BY DEF EepromNextUnit, history
<1>2. RestLeft("EEPROM", EepromSize) /\ eeBuffer = NoBytes
  BY <1>1 DEF Inv, EepromLeft
<1>3. /\ at \in Nat /\ data \in Seq(Byte) /\ Len(data) > 0 /\ at + Len(data) <= EepromSize
  BY <1>2 DEF RestLeft
<1>4. pending = Asked("EEPROM", at, data)
  BY <1>1, <1>2, Sizes, RestIsAsked
<1>5. InProgress = {}
  BY <1>1, Settled
<1>6. got = NoBytes
  BY <1>1 DEF Inv, ReadKept, NoCall
<1> HIDE DEF at, data
<1>7. \A o \in DOMAIN eeBuffer : eeBuffer[o] = Erased
  BY <1>2, NoBytesEmpty
<1>8. /\ Gives(eeBuffer', Offsets(EepromPage)) /\ cmd' = cmd
      /\ busy'.clears = "EEPROM"
  BY <1>1, <1>3, <1>7, EepromUnitStarts
<1>9. PICK n \in Nat :
        n > 0 /\ Unit("EEPROM", at, data, n) /\ Passes("writeEeprom", at, data, n)
  BY <1>1, <1>3, <1>7, EepromUnitStarts
<1>10. /\ Store!Program(pending', InProgress') /\ InProgress' = DOMAIN busy'.new
       /\ Gives(pending', Cell)
       /\ (RowSettled /\ Giving /\ AllBegun /\ RowLeft)'
       /\ call'.op \in {"none", "writeEeprom"}
       /\ call'.op = "writeEeprom" => RestLeft("EEPROM", EepromSize)'
  <2>1. /\ EepromSize \in Nat /\ "EEPROM" # "ROW"
        /\ Span("EEPROM", 0, EepromSize) \subseteq Cell
        /\ "writeEeprom" \in {"writeEeprom", "checkFlash", "writeFlash"}
        /\ UNCHANGED <<nvm, oldRow>>
    BY <1>1, Sizes, EepromSpan
  <2>2. pending' = Asked("EEPROM", at, data) /\ call.op # "writeRow"
    BY <1>1, <1>4
  <2>3. UnitMeets("EEPROM", EepromSize, at, data, n, "writeEeprom")
    BY <1>1, <1>3, <1>4, <1>9, <2>1, <2>2, UnitKeeps
  <2> QED BY <2>3 DEF UnitMeets
<1>11. EepromLeft' /\ FlashLeft'
  BY <1>8, <1>10 DEF EepromLeft, FlashLeft, Ready, NotBusy, NoClear
<1>12. Typed'
  BY <1>1, <1>8, <1>9, <1>10 DEF Inv, Typed, Unit
<1>13. Inv'
  BY <1>1, <1>6, <1>8, <1>10, <1>11, <1>12, NothingRead, Kept DEF Inv, Register
<1>14. Store!Continue
  BY <1>1, <1>5, <1>10 DEF Store!Continue
<1> QED BY <1>13, <1>14 DEF StoreStep, Store!Next

-----------------------------------------------------------------------------
(***************************************************************************)
(* nvm_flash_erase_and_write_buffer.                                       *)
(***************************************************************************)
LEMMA PageInside ==
  ASSUME NEW size \in Nat, size > 0, NEW pages \in Nat, NEW a \in Nat, a < pages * size
  PROVE  a \div size \in Offsets(pages)
<1> DEFINE page == a \div size
<1>1. page \in Nat
  BY InPage
<1>2. page * size <= a
  BY <1>1, PageOfAddress
<1> HIDE DEF page
<1>3. ASSUME page >= pages PROVE FALSE
  <2>1. pages * size <= page * size
    BY <1>1, <1>3
  <2>2. pages * size \in Nat /\ page * size \in Nat
    BY <1>1
  <2> QED BY <1>2, <2>1, <2>2
<1> QED BY <1>1, <1>3 DEF Offsets, page

\* A page image loaded into a clean buffer is the page that will be written.
LEMMA ImageLoaded ==
  ASSUME NEW m, NEW page \in Nat, NEW image, Gives(image, PageOf(m, page, FlashPage)),
         DOMAIN image = PageOf(m, page, FlashPage),
         flBuffer = CleanFlashBuffer, LoadImage(image)
  PROVE  /\ flBuffer' \in [Offsets(FlashPage) -> Byte]
         /\ \A c \in DOMAIN image : flBuffer'[c[2] % FlashPage] = image[c]
         /\ FlashValues(PageOf(m, page, FlashPage), flBuffer') = image
<1> DEFINE cells == PageOf(m, page, FlashPage)
           At(o) == CHOOSE c \in DOMAIN image : c[2] % FlashPage = o
<1>1. \A c \in cells : /\ c = <<m, c[2]>> /\ c[2] \in Nat
                       /\ c[2] % FlashPage = c[2] - page * FlashPage
                       /\ c[2] % FlashPage \in Offsets(FlashPage)
  BY Sizes, PageCells
<1>2. page * FlashPage \in Nat
  BY Sizes
<1>3. \A o \in Offsets(FlashPage) : \E c \in cells : c[2] % FlashPage = o
  <2> SUFFICES ASSUME NEW o \in Offsets(FlashPage)
               PROVE  \E c \in cells : c[2] % FlashPage = o
    OBVIOUS
  <2> DEFINE base == page * FlashPage
  <2>1. base + o \in base..(base + FlashPage - 1)
    BY <1>2, Sizes DEF Offsets
  <2>2. <<m, base + o>> \in cells
    BY <2>1 DEF PageOf, Span
  <2>3. <<m, base + o>>[2] % FlashPage = (base + o) - base
    BY <1>1, <2>2
  <2>4. (base + o) - base = o
    BY <1>2 DEF Offsets
  <2> QED BY <2>2, <2>3, <2>4
<1>4. \A o \in Offsets(FlashPage) : At(o) \in cells /\ At(o)[2] % FlashPage = o
  BY <1>3
<1>5. ASSUME NEW c \in cells, NEW d \in cells, c[2] % FlashPage = d[2] % FlashPage
      PROVE  c = d
  <2> DEFINE base == page * FlashPage
  <2>1. c[2] - base = d[2] - base /\ c[2] \in Nat /\ d[2] \in Nat /\ base \in Nat
    BY <1>1, <1>2, <1>5
  <2> HIDE DEF base
  <2>2. c[2] = d[2]
    BY <2>1
  <2> QED BY <1>1, <2>2
<1>6. \A c \in cells : At(c[2] % FlashPage) = c
  BY <1>1, <1>4, <1>5
<1>7. flBuffer' = [o \in Offsets(FlashPage) |-> Erased \cap image[At(o)]]
  BY DEF LoadImage, CleanFlashBuffer
<1> HIDE DEF cells, At
<1>8. \A c \in cells : image[c] \in Byte
  BY DEF Gives, cells
<1>9. flBuffer' \in [Offsets(FlashPage) -> Byte]
  <2>1. \A o \in Offsets(FlashPage) : Erased \cap image[At(o)] \in Byte
    <3> SUFFICES ASSUME NEW o \in Offsets(FlashPage) PROVE Erased \cap image[At(o)] \in Byte
      OBVIOUS
    <3>1. image[At(o)] \in Byte
      BY <1>4, <1>8
    <3> QED BY <3>1, ErasedIsByte
  <2> QED BY <1>7, <2>1
<1>10. \A c \in cells : flBuffer'[c[2] % FlashPage] = image[c]
  <2> SUFFICES ASSUME NEW c \in cells PROVE flBuffer'[c[2] % FlashPage] = image[c]
    OBVIOUS
  <2>1. flBuffer'[c[2] % FlashPage] = Erased \cap image[At(c[2] % FlashPage)]
    BY <1>1, <1>7
  <2>2. flBuffer'[c[2] % FlashPage] = Erased \cap image[c]
    BY <1>6, <2>1
  <2> QED BY <1>8, <2>2, ErasedIsByte
<1>11. FlashValues(cells, flBuffer') = image
  <2>1. DOMAIN flBuffer' = Offsets(FlashPage)
    BY <1>9
  <2>2. {d \in cells : d[2] % FlashPage \in DOMAIN flBuffer'} = cells
    BY <1>1, <2>1
  <2>3. FlashValues(cells, flBuffer') = [c \in cells |-> flBuffer'[c[2] % FlashPage]]
    BY <2>2 DEF FlashValues, AtPage
  <2>4. image = [c \in cells |-> image[c]]
    BY DEF Gives, cells
  <2> QED BY <1>10, <2>3, <2>4
<1> QED BY <1>9, <1>10, <1>11 DEF cells

LEMMA PageUnitStarts ==
  ASSUME Inv, NEW at \in Nat, NEW data \in Seq(Byte), Len(data) > 0,
         at + Len(data) <= AppSize, NEW check \in BOOLEAN,
         flBuffer = CleanFlashBuffer, check => cmd = NoOperation,
         ~check => \A c \in Span("FLASH", at, Len(data)) : nvm[c] = Erased,
         FlashUnit(at, data, check)
  PROVE  /\ flBuffer' \in [Offsets(FlashPage) -> Byte] /\ busy'.clears = "FLASH"
         /\ \E n \in Nat :
              /\ n > 0 /\ (at + n) % FlashPage = 0 /\ Unit("FLASH", at, data, n)
              /\ Passes(IF check THEN "checkFlash" ELSE "writeFlash", at, data, n)
<1> DEFINE page == at \div FlashPage
           cells == FlashPageOf(page)
           base == page * FlashPage
           n == (page + 1) * FlashPage - at
           span == Span("FLASH", at, Len(data))
<1>1. /\ page \in Offsets(AppPages) /\ page \in Nat
      /\ base \in Nat /\ base <= at /\ at < base + FlashPage
  <2>1. page \in Nat
    BY Sizes, InPage
  <2>2. page * FlashPage <= at /\ at < page * FlashPage + FlashPage
    BY <2>1, Sizes, PageOfAddress
  <2>3. at < AppPages * FlashPage
    BY Sizes DEF AppSize
  <2>4. page \in Offsets(AppPages)
    BY <2>3, Sizes, PageInside
  <2>5. page * FlashPage \in Nat
    BY <2>1, Sizes
  <2> QED BY <2>1, <2>2, <2>4, <2>5
<1>2. (page + 1) * FlashPage = base + FlashPage /\ (base + FlashPage) % FlashPage = 0
  <2>1. \A k \in Nat : (FlashPage * k + 0) % FlashPage = 0
    BY Sizes
  <2>2. (FlashPage * (page + 1) + 0) % FlashPage = 0
    BY <1>1, <2>1
  <2>3. FlashPage * (page + 1) + 0 = base + FlashPage /\ (page + 1) * FlashPage = base + FlashPage
    BY <1>1, Sizes
  <2> QED BY <2>2, <2>3
<1>3. PICK seen \in IF check THEN SeenByLpm(cells) ELSE {NoBytes} :
        /\ LoadImage(PageImage(cells, at, data, check, seen))
        /\ LET new == FlashValues(cells, flBuffer')
           IN  Exec(IF MustErase(check, seen) THEN new ELSE Programmed(new), "FLASH")
  BY DEF FlashUnit
<1>4. Passes(IF check THEN "checkFlash" ELSE "writeFlash", at, data, n)
  BY DEF FlashUnit, Passes
<1>5. cells \subseteq AppCells /\ cells \subseteq Cell
  BY <1>1, PagesOfMemories, AppInFlash, Memories
<1>6. \A c \in cells : /\ c = <<"FLASH", c[2]>> /\ c[2] \in Nat
                       /\ base <= c[2] /\ c[2] < base + FlashPage
  <2> HIDE DEF page
  <2> QED BY <1>1, Sizes, PageCells DEF FlashPageOf
<1> DEFINE image == PageImage(cells, at, data, check, seen)
           new == FlashValues(cells, flBuffer')
<1>7. check => seen = Restrict(nvm, cells)
  BY DEF SeenByLpm
<1> HIDE DEF cells
<1>8. /\ DOMAIN image = cells /\ Gives(image, cells)
      /\ \A c \in cells :
           image[c] = IF c \in span THEN data[c[2] - at + 1]
                      ELSE IF check THEN nvm[c] ELSE Erased
  <2>1. \A c \in cells : c \in span <=> c[2] \in at..(at + Len(data) - 1)
    BY <1>6 DEF Span
  <2>2. \A c \in cells : c \in span => data[c[2] - at + 1] \in Byte
    <3>1. \A c \in cells : c \in span => c[2] - at + 1 \in 1..Len(data)
      BY <2>1
    <3> QED BY <3>1
  <2> HIDE DEF span, page
  <2>3. \A c \in cells : check => seen[c] = nvm[c]
    BY <1>7 DEF Restrict
  <2>4. /\ DOMAIN image = cells /\ image = [c \in cells |-> image[c]]
        /\ \A c \in cells :
             image[c] = IF c \in span THEN data[c[2] - at + 1]
                        ELSE IF check THEN nvm[c] ELSE Erased
    BY <2>1, <2>3 DEF PageImage
  <2> HIDE DEF image
  <2>5. \A c \in cells : image[c] \in Byte
    BY <1>5, <2>2, <2>4, Kept, ErasedIsByte
  <2>6. Gives(image, cells)
    BY <2>4, <2>5 DEF Gives
  <2> QED BY <2>4, <2>6
<1>9. flBuffer' \in [Offsets(FlashPage) -> Byte] /\ new = image
  <2>1. cells = PageOf("FLASH", page, FlashPage)
    BY DEF cells, FlashPageOf
  <2> HIDE DEF image, page
  <2>2. LoadImage(image) /\ page \in Nat
    BY <1>1, <1>3 DEF image
  <2> QED BY <1>8, <2>1, <2>2, ImageLoaded
<1>10. /\ busy' = [new |-> busy'.new, clears |-> "FLASH"] /\ busy'.clears = "FLASH"
       /\ busy'.new = IF MustErase(check, seen) THEN image ELSE Programmed(image)
  BY <1>3, <1>9 DEF Exec
<1> HIDE DEF image, new, span
<1>11. /\ DOMAIN busy'.new = cells /\ Gives(busy'.new, cells)
       /\ \A c \in cells :
            busy'.new[c] = IF MustErase(check, seen) THEN image[c] ELSE nvm[c] \cap image[c]
  <2>1. CASE MustErase(check, seen)
    BY <1>8, <1>10, <2>1
  <2>2. CASE ~MustErase(check, seen)
    <3>1. /\ Gives(Programmed(image), cells)
          /\ DOMAIN Programmed(image) = DOMAIN image
          /\ \A c \in DOMAIN image : Programmed(image)[c] = nvm[c] \cap image[c]
      BY <1>8, ProgrammedValues
    <3> QED BY <1>8, <1>10, <2>2, <3>1
  <2> QED BY <2>1, <2>2
<1>12. ASSUME NEW c \in cells
       PROVE  busy'.new[c] = IF c \in span THEN data[c[2] - at + 1] ELSE nvm[c]
  <2>1. nvm[c] \in Byte /\ image[c] \in Byte
    BY <1>5, <1>8, Kept DEF Gives
  <2>2. CASE MustErase(check, seen)
    BY <1>8, <1>11, <2>2 DEF MustErase
  <2>3. CASE ~MustErase(check, seen)
    <3>1. c \in span => nvm[c] = Erased
      <4>1. check => seen[c] = nvm[c] /\ c \in DOMAIN seen
        BY <1>7 DEF Restrict
      <4> QED BY <2>3, <4>1 DEF MustErase, span
    <3>2. busy'.new[c] = nvm[c] \cap image[c]
      BY <1>11, <2>3
    <3>3. c \in span => image[c] = data[c[2] - at + 1]
      BY <1>8
    <3>4. c \notin span => image[c] = nvm[c] \/ image[c] = Erased
      BY <1>8
    <3> QED BY <2>1, <3>1, <3>2, <3>3, <3>4, ErasedIsByte
  <2> QED BY <2>2, <2>3
<1> HIDE DEF base
<1>13. n \in Nat /\ n > 0 /\ at + n = base + FlashPage
  <2> DEFINE end == (page + 1) * FlashPage
  <2>1. n = end - at
    OBVIOUS
  <2>2. end = base + FlashPage
    BY <1>2
  <2> HIDE DEF end
  <2> HIDE DEF n
  <2> QED BY <1>1, <2>1, <2>2, Sizes
<1> HIDE DEF n, page
<1>14. \A c \in span : c = <<"FLASH", c[2]>> /\ c[2] \in Nat /\ at <= c[2]
  BY DEF span, Span
<1>15. \A c \in span : c \in cells <=> c[2] < at + n
  <2>1. ASSUME NEW c \in span, c[2] < at + n
        PROVE  c \in cells
    <3>1. c[2] \in base..(base + FlashPage - 1)
      BY <1>1, <1>13, <1>14, <2>1, Sizes
    <3> QED BY <1>14, <3>1 DEF cells, FlashPageOf, PageOf, Span, base
  <2> QED BY <1>6, <1>13, <2>1
<1>16. cells \subseteq UNION {Mates[c] : c \in span \cap cells}
  <2> DEFINE first == <<"FLASH", at>>
  <2>1. first \in span /\ first[2] = at
    BY DEF span, Span
  <2>2. first \in cells
    BY <1>13, <1>15, <2>1
  <2>3. Mates[first] = FlashPageOf(at \div FlashPage)
    BY <1>5, <2>1, <2>2, AppInFlash, MatesOfCells
  <2> HIDE DEF first
  <2> QED BY <2>1, <2>2, <2>3 DEF cells, page
<1>17. cells \subseteq Span("FLASH", 0, at + n)
  <2>1. ASSUME NEW c \in cells PROVE c \in Span("FLASH", 0, at + n)
    <3>1. c[2] \in 0..(0 + (at + n) - 1) /\ c = <<"FLASH", c[2]>>
      BY <1>1, <1>6, <1>13, Sizes
    <3> QED BY <3>1 DEF Span
  <2> QED BY <2>1
<1>18. Gives(busy'.new, Cell)
  BY <1>5, <1>11, WidenGives
<1>19. Unit("FLASH", at, data, n)
  BY <1>10, <1>11, <1>12, <1>15, <1>16, <1>17, <1>18 DEF Unit, span
<1>20. (at + n) % FlashPage = 0
  BY <1>2, <1>13 DEF base
<1> QED BY <1>4, <1>9, <1>10, <1>13, <1>19, <1>20

LEMMA FlashSpan ==
  "FLASH" # "ROW" /\ Span("FLASH", 0, AppSize) \subseteq Cell
BY AppInFlash, Memories DEF AppCells

\* A page unit keeps the invariant, in the first step of a call or a later one.
LEMMA PageUnitKeeps ==
  ASSUME Inv, Ready, call.op # "writeRow", got' = NoBytes,
         NEW at \in Nat, NEW data \in Seq(Byte), Len(data) > 0,
         at + Len(data) <= AppSize, NEW check \in BOOLEAN,
         flBuffer = CleanFlashBuffer, check => cmd = NoOperation,
         ~check => \A c \in Span("FLASH", at, Len(data)) : nvm[c] = Erased,
         pending' = Asked("FLASH", at, data), FlashUnit(at, data, check),
         UNCHANGED <<nvm, oldRow, cmd, cmdLost, eeBuffer>>
  PROVE  /\ Inv' /\ Gives(pending', Cell)
         /\ Store!Program(pending', InProgress')
<1> DEFINE op == IF check THEN "checkFlash" ELSE "writeFlash"
<1>1. flBuffer' \in [Offsets(FlashPage) -> Byte] /\ busy'.clears = "FLASH"
  BY PageUnitStarts
<1>2. PICK n \in Nat :
        /\ n > 0 /\ (at + n) % FlashPage = 0 /\ Unit("FLASH", at, data, n)
        /\ Passes(op, at, data, n)
  BY PageUnitStarts
<1>3. op \in {"writeEeprom", "checkFlash", "writeFlash"} /\ op # "writeEeprom"
  OBVIOUS
<1>4. /\ check <=> op = "checkFlash"
      /\ ~check <=> op = "writeFlash"
  OBVIOUS
<1> HIDE DEF op
<1>5. /\ Store!Program(pending', InProgress') /\ InProgress' = DOMAIN busy'.new
      /\ Gives(pending', Cell)
      /\ (RowSettled /\ Giving /\ AllBegun /\ RowLeft)'
      /\ call'.op \in {"none", op}
      /\ call'.op = op => call'.at = at + n /\ RestLeft("FLASH", AppSize)'
      /\ call'.op = op =>
           Span("FLASH", call'.at, Len(call'.data)) \subseteq Span("FLASH", at, Len(data))
  <2>1. op \in {"writeEeprom", "checkFlash", "writeFlash"}
    BY <1>3
  <2>2. UNCHANGED <<nvm, oldRow>>
    OBVIOUS
  <2>3. n > 0 /\ Unit("FLASH", at, data, n) /\ Passes(op, at, data, n)
    BY <1>2
  <2>4. /\ AppSize \in Nat /\ "FLASH" # "ROW" /\ Span("FLASH", 0, AppSize) \subseteq Cell
    BY Sizes, FlashSpan
  <2>5. UnitMeets("FLASH", AppSize, at, data, n, op)
    BY <2>1, <2>2, <2>3, <2>4, UnitKeeps
  <2> QED BY <2>5 DEF UnitMeets
<1>6. FlashLeft'
  <2> SUFFICES ASSUME call'.op \in {"checkFlash", "writeFlash"}
               PROVE  FlashLeft'
    BY DEF FlashLeft
  <2>1. call'.op = op
    BY <1>5
  <2>2. RestLeft("FLASH", AppSize)' /\ call'.at % FlashPage = 0
    BY <1>2, <1>5, <2>1
  <2>3. ~Ready'
    BY <1>1 DEF Ready, NotBusy, NoClear
  <2>4. op = "checkFlash" => cmd' = NoOperation
    BY <1>4
  <2>5. op = "writeFlash" =>
          \A c \in Span("FLASH", call'.at, Len(call'.data)) : nvm'[c] = Erased
    BY <1>4, <1>5, <2>1
  <2> QED BY <1>1, <2>1, <2>2, <2>3, <2>4, <2>5 DEF FlashLeft
<1>7. EepromLeft'
  BY <1>3, <1>5 DEF EepromLeft
<1>8. Typed'
  <2>1. nvm' \in [Cell -> Byte] /\ oldRow' \in [RowCells -> Byte]
    BY DEF Inv, Typed
  <2>2. busy' = [new |-> busy'.new, clears |-> busy'.clears] /\ Gives(busy'.new, Cell)
    BY <1>2 DEF Unit
  <2>3. call'.op \in {"none", "writeEeprom", "checkFlash", "writeFlash", "writeRow"}
    BY <1>3, <1>5
  <2>4. Gives(eeBuffer', Offsets(EepromPage))
    BY Kept
  <2> QED BY <1>1, <1>5, <2>1, <2>2, <2>3, <2>4 DEF Typed
<1>9. Inv'
  BY <1>5, <1>6, <1>7, <1>8, NothingRead, Kept DEF Inv, Register
<1> QED BY <1>5, <1>9

LEMMA FlashEraseAndWriteBufferKeeps ==
  ASSUME Inv, NEW at \in Offsets(AppSize), NEW data \in Buffers, NEW check \in BOOLEAN,
         FlashEraseAndWriteBuffer(at, data, check)
  PROVE  Inv' /\ StoreStep
<1>1. /\ at \in Nat /\ data \in Seq(Byte) /\ Len(data) > 0 /\ at + Len(data) <= AppSize
  BY BufferBytes DEF Offsets, FlashEraseAndWriteBuffer
<1>2. /\ Starts(Asked("FLASH", at, data)) /\ FlashUnit(at, data, check)
      /\ flBuffer = CleanFlashBuffer
      /\ ~check => \A c \in Span("FLASH", at, Len(data)) : nvm[c] = Erased
      /\ ~(check /\ cmdLost)
      /\ UNCHANGED <<cmd, cmdLost, eeBuffer>>
  BY DEF FlashEraseAndWriteBuffer, MayWrite, EepromUnused
<1>3. check => cmd = NoOperation
  BY <1>2, Kept
<1>4. /\ Ready /\ call = NoCall /\ pending' = Asked("FLASH", at, data) /\ got' = NoBytes
      /\ UNCHANGED <<nvm, oldRow>>
  BY <1>2 DEF Starts
<1>5. /\ call.op # "writeRow" /\ pending = NoBytes /\ InProgress = {}
  BY <1>4, ReadyState
<1>6. UNCHANGED <<nvm, oldRow, cmd, cmdLost, eeBuffer>>
  BY <1>2, <1>4
<1>7. /\ Inv' /\ Gives(pending', Cell)
      /\ Store!Program(pending', InProgress')
  BY <1>1, <1>2, <1>3, <1>4, <1>5, <1>6, PageUnitKeeps
<1>8. Store!Call
  BY <1>4, <1>5, <1>7 DEF Store!Call, Store!Nothing, NoBytes, Gives
<1> QED BY <1>7, <1>8 DEF StoreStep, Store!Next

LEMMA FlashNextUnitKeeps ==
  ASSUME Inv, FlashNextUnit
  PROVE  Inv' /\ StoreStep
<1> DEFINE at == call.at
           data == call.data
           check == (call.op = "checkFlash")
<1>1. /\ call.op \in {"checkFlash", "writeFlash"} /\ Ready /\ FlashUnit(at, data, check)
      /\ pending' = pending /\ got' = got
      /\ UNCHANGED <<nvm, oldRow, cmd, cmdLost, eeBuffer>>
  BY DEF FlashNextUnit, history
<1>2. /\ RestLeft("FLASH", AppSize) /\ flBuffer = CleanFlashBuffer
      /\ check => cmd = NoOperation
      /\ ~check => \A c \in Span("FLASH", at, Len(data)) : nvm[c] = Erased
  BY <1>1 DEF Inv, FlashLeft
<1>3. /\ at \in Nat /\ data \in Seq(Byte) /\ Len(data) > 0 /\ at + Len(data) <= AppSize
  BY <1>2 DEF RestLeft
<1>4. pending' = Asked("FLASH", at, data)
  BY <1>1, <1>2, Sizes, RestIsAsked
<1>5. InProgress = {} /\ call.op # "writeRow"
  BY <1>1, Settled
<1>6. got' = NoBytes
  BY <1>1 DEF Inv, ReadKept, NoCall
<1>7. check \in BOOLEAN
  OBVIOUS
<1> HIDE DEF at, data, check
<1>8. /\ Inv' /\ Gives(pending', Cell)
      /\ Store!Program(pending', InProgress')
  BY <1>1, <1>2, <1>3, <1>4, <1>5, <1>6, <1>7, PageUnitKeeps
<1>9. UNCHANGED Over(oldRow, nvm)
  BY <1>1
<1>10. Store!Continue
  BY <1>1, <1>5, <1>8, <1>9 DEF Store!Continue
<1> QED BY <1>8, <1>10 DEF StoreStep, Store!Next

-----------------------------------------------------------------------------
(***************************************************************************)
(* nvm_user_sig_write_buffer.                                              *)
(***************************************************************************)
LEMMA RowCellsValues ==
  /\ RowCells = PageOf("ROW", 0, FlashPage) /\ RowCells \subseteq Cell /\ RowCells # {}
  /\ \A c \in RowCells : c = <<"ROW", c[2]>> /\ c[2] \in Nat
                         /\ c[2] % FlashPage = c[2] /\ c[2] \in Offsets(FlashPage)
<1>1. RowCells = PageOf("ROW", 0, FlashPage) /\ RowCells \subseteq Cell
  BY PagesOfMemories, Memories
<1>2. <<"ROW", 0>> \in RowCells
  <2>1. 0 \in 0..(0 + FlashPage - 1)
    BY Sizes
  <2> QED BY <2>1 DEF RowCells, Span
<1>3. \A c \in RowCells : c = <<"ROW", c[2]>> /\ c[2] \in Nat /\ c[2] \in Offsets(FlashPage)
  BY Sizes DEF RowCells, Span, Offsets
<1>4. \A c \in RowCells : c[2] % FlashPage = c[2]
  <2>1. \A a \in Offsets(FlashPage) : a % FlashPage = a
    BY Sizes DEF Offsets
  <2> QED BY <1>3, <2>1
<1> QED BY <1>1, <1>2, <1>3, <1>4

LEMMA UserSigWriteBufferKeeps ==
  ASSUME Inv, NEW at \in Offsets(FlashPage), NEW data \in Buffers, NEW check \in BOOLEAN,
         UserSigWriteBuffer(at, data, check)
  PROVE  Inv' /\ StoreStep
<1> DEFINE seen == Restrict(nvm, RowCells)
           span == Span("ROW", at, Len(data))
           asked == Asked("ROW", at, data)
           image == PageImage(RowCells, at, data, check, seen)
<1>1. /\ at \in Nat /\ data \in Seq(Byte) /\ Len(data) > 0 /\ at + Len(data) <= FlashPage
  BY BufferBytes DEF Offsets, UserSigWriteBuffer
<1>2. /\ flBuffer = CleanFlashBuffer
      /\ ~check => \A c \in span : nvm[c] = Erased
      /\ Starts(asked) /\ LoadImage(image)
      /\ UNCHANGED <<cmd, cmdLost, eeBuffer>>
  BY DEF UserSigWriteBuffer, MayWrite, EepromUnused
<1>3. IF MustErase(check, seen)
        THEN /\ Exec(ErasedCells(RowCells), NoClear)
             /\ call' = [NoCall EXCEPT !.op = "writeRow"]
        ELSE WriteRowCommand
  BY DEF UserSigWriteBuffer
<1>4. span \subseteq RowCells /\ <<"ROW", at>> \in span
  BY <1>1, Sizes DEF RowCells, Span
<1>5. \A c \in RowCells : seen[c] = nvm[c]
  BY DEF Restrict
<1>6. /\ DOMAIN asked = span
      /\ \A c \in span : asked[c] = data[c[2] - at + 1] /\ data[c[2] - at + 1] \in Byte
      /\ Gives(asked, span)
  BY <1>1, AskedValues
<1>7. DOMAIN seen = RowCells
  BY DEF Restrict
<1>8. \A c \in RowCells : c \in span <=> c[2] \in at..(at + Len(data) - 1)
  BY RowCellsValues DEF Span
<1> HIDE DEF span, asked, seen
<1>9. /\ DOMAIN image = RowCells /\ image = [c \in RowCells |-> image[c]]
      /\ \A c \in RowCells :
           image[c] = IF c \in span THEN data[c[2] - at + 1]
                      ELSE IF check THEN nvm[c] ELSE Erased
  BY <1>5, <1>8 DEF PageImage
<1> HIDE DEF image
<1>10. \A c \in RowCells : nvm[c] \in Byte /\ nvm[c] \cap Erased = nvm[c]
  BY RowCellsValues, Kept, ErasedIsByte
<1>11. Gives(image, RowCells)
  <2>1. \A c \in RowCells : image[c] \in Byte
    BY <1>6, <1>9, <1>10, ErasedIsByte
  <2> QED BY <1>9, <2>1 DEF Gives
<1>12. /\ flBuffer' \in [Offsets(FlashPage) -> Byte]
       /\ \A c \in RowCells : flBuffer'[c[2]] = image[c]
       /\ FlashValues(RowCells, flBuffer') = image
  <2> DEFINE page == 0
  <2>1. page \in Nat /\ RowCells = PageOf("ROW", page, FlashPage)
    BY RowCellsValues
  <2> HIDE DEF page
  <2>2. /\ flBuffer' \in [Offsets(FlashPage) -> Byte]
        /\ \A c \in DOMAIN image : flBuffer'[c[2] % FlashPage] = image[c]
        /\ FlashValues(PageOf("ROW", page, FlashPage), flBuffer') = image
    BY <1>2, <1>9, <1>11, <2>1, ImageLoaded
  <2> QED BY <1>9, <2>1, <2>2, RowCellsValues
<1>13. Gives(asked, Cell)
  BY <1>4, <1>6, RowCellsValues, WidenGives
<1>14. \A c \in span : Mates[c] = RowCells
  BY <1>4, MatesOfCells
<1>15. CASE ~MustErase(check, seen)
  <2> DEFINE new == Programmed(image)
  <2>1. Returns /\ Exec(new, "FLASH")
    BY <1>3, <1>12, <1>15 DEF WriteRowCommand
  <2>2. /\ Gives(new, RowCells) /\ DOMAIN new = RowCells
        /\ \A c \in RowCells : new[c] = nvm[c] \cap image[c]
    <3>1. Gives(new, RowCells)
      BY <1>11, ProgrammedValues
    <3> QED BY <1>9, <3>1 DEF Programmed
  <2>3. /\ busy' = [new |-> busy'.new, clears |-> busy'.clears]
        /\ busy'.new = new
    BY <2>1 DEF Exec
  <2> HIDE DEF new
  <2>4. \A c \in span : new[c] = asked[c]
    <3> SUFFICES ASSUME NEW c \in span PROVE new[c] = asked[c]
      OBVIOUS
    <3>1. c \in RowCells /\ image[c] = asked[c] /\ asked[c] \in Byte
      BY <1>4, <1>6, <1>9
    <3>2. nvm[c] = Erased
      BY <1>2, <1>5, <1>7, <1>15, <3>1 DEF MustErase
    <3> QED BY <2>2, <3>1, <3>2, ErasedIsByte
  <2>5. \A c \in RowCells : c \notin span => new[c] = nvm[c]
    <3>1. ASSUME NEW c \in RowCells, c \notin span
          PROVE  new[c] = nvm[c]
      <4>1. image[c] = nvm[c] \/ image[c] = Erased
        BY <1>9, <3>1
      <4>2. nvm[c] \cap nvm[c] = nvm[c]
        OBVIOUS
      <4> QED BY <1>10, <2>2, <3>1, <4>1, <4>2
    <3> QED BY <3>1
  <2>6. Answers(new, asked)
    <3>1. DOMAIN new \subseteq UNION {Mates[c] : c \in DOMAIN asked}
      BY <1>4, <1>6, <1>14, <2>2
    <3> QED BY <1>4, <1>6, <2>2, <2>4, <2>5, <3>1 DEF Answers
  <2>7. Gives(new, Cell)
    BY <2>2, RowCellsValues, WidenGives
  <2> QED BY <1>2, <1>12, <1>13, <2>1, <2>3, <2>6, <2>7, Kept, CallStarts
<1>16. CASE MustErase(check, seen)
  <2>1. /\ busy' = [new |-> ErasedCells(RowCells), clears |-> NoClear]
        /\ call' = [NoCall EXCEPT !.op = "writeRow"] /\ call'.op = "writeRow"
        /\ check
    BY <1>3, <1>16 DEF Exec, NoCall, MustErase
  <2>2. /\ Ready /\ call = NoCall /\ pending' = asked /\ got' = NoBytes
        /\ UNCHANGED <<nvm, oldRow>>
    BY <1>2 DEF Starts
  <2>3. pending = NoBytes /\ oldRow = Restrict(nvm, RowCells) /\ InProgress = {}
    BY <2>2, ReadyState
  <2>4. ErasedCells(RowCells) # NoBytes
    BY RowCellsValues, ErasedCellsValues, NoBytesEmpty
  <2>5. ~Ready'
    BY <2>1, <2>4 DEF Ready, NotBusy
  <2>6. Typed'
    <3>1. Gives(ErasedCells(RowCells), RowCells)
      BY ErasedCellsValues
    <3>2. Gives(ErasedCells(RowCells), Cell)
      BY <3>1, RowCellsValues, WidenGives
    <3> QED BY <1>2, <1>12, <1>13, <2>1, <2>2, <3>2 DEF Inv, Typed
  <2>7. RowLeft'
    <3>1. \A c \in RowCells : flBuffer'[c[2]] = IF c \in span THEN asked[c] ELSE oldRow[c]
      BY <1>6, <1>9, <1>12, <2>1, <2>3, RestrictValues2
    <3> QED BY <1>4, <1>6, <2>1, <2>2, <2>5, <3>1 DEF RowLeft
  <2>8. Inv'
    BY <1>2, <2>1, <2>2, <2>6, <2>7, NothingRead, Kept
    DEF Inv, Register, RowSettled, Giving, AllBegun, EepromLeft, FlashLeft
  <2>9. InProgress' = RowCells
    BY <2>1 DEF InProgress
  <2>10. Store!Program(asked, RowCells)
    <3>1. <<"ROW", at>> \in RowCells \cap DOMAIN asked
      BY <1>4, <1>6
    <3>2. RowCells \subseteq UNION {Mates[c] : c \in RowCells \cap DOMAIN asked}
      BY <1>6, <1>14, <3>1
    <3> QED BY <1>4, <1>6, <3>1, <3>2 DEF Store!Program
  <2>11. Store!Call
    BY <1>13, <2>2, <2>3, <2>9, <2>10 DEF Store!Call, Store!Nothing, NoBytes, Gives
  <2> QED BY <2>8, <2>11 DEF StoreStep, Store!Next
<1> QED BY <1>15, <1>16

\* The second command of the row: no step of the store.
LEMMA UserSigWritePageKeeps ==
  ASSUME Inv, UserSigWritePage
  PROVE  Inv' /\ StoreStep
<1> DEFINE values == FlashValues(RowCells, flBuffer)
           new == Programmed(values)
<1>1. /\ call.op = "writeRow" /\ Ready /\ Returns /\ Exec(new, "FLASH")
      /\ UNCHANGED <<nvm, eeBuffer, flBuffer, cmd, cmdLost, pending, oldRow, got>>
  BY DEF UserSigWritePage, WriteRowCommand, history
<1>2. /\ DOMAIN pending \subseteq RowCells
      /\ \A c \in RowCells :
           /\ flBuffer[c[2]] = IF c \in DOMAIN pending THEN pending[c] ELSE oldRow[c]
           /\ nvm[c] = Erased
  BY <1>1 DEF Inv, RowLeft
<1>3. /\ DOMAIN values = RowCells
      /\ \A c \in RowCells : values[c] = flBuffer[c[2]] /\ flBuffer[c[2]] \in Byte
  BY Kept, RowCellsValues DEF FlashValues, AtPage
<1>4. Gives(values, RowCells)
  BY <1>3 DEF Gives, FlashValues, AtPage
<1> HIDE DEF values
<1>5. /\ Gives(new, RowCells) /\ DOMAIN new = RowCells
      /\ \A c \in RowCells : new[c] = flBuffer[c[2]]
  <2>1. Gives(new, RowCells)
    BY <1>4, ProgrammedValues
  <2>2. DOMAIN new = RowCells /\ \A c \in RowCells : new[c] = nvm[c] \cap values[c]
    BY <1>3 DEF Programmed
  <2>3. ASSUME NEW c \in RowCells PROVE new[c] = flBuffer[c[2]]
    <3>1. new[c] = Erased \cap flBuffer[c[2]] /\ flBuffer[c[2]] \in Byte
      BY <1>2, <1>3, <2>2
    <3> QED BY <3>1, ErasedIsByte
  <2> QED BY <2>1, <2>2, <2>3
<1>6. Gives(new, Cell)
  BY <1>5, RowCellsValues, WidenGives
<1> HIDE DEF new
<1>7. /\ busy' = [new |-> busy'.new, clears |-> busy'.clears]
      /\ busy'.new = new /\ call' = NoCall /\ call'.op = "none"
  BY <1>1 DEF Exec, Returns, NoCall
<1>8. got' = NoBytes
  BY <1>1 DEF Inv, ReadKept, NoCall
<1>9. Typed'
  BY <1>1, <1>6, <1>7 DEF Inv, Typed
<1>10. \A c \in RowCells : Mem[c] = oldRow[c]
  BY DEF Inv, Typed, Mem, Over
<1>11. Mem' = Mem
  BY <1>1 DEF Mem
<1>12. Giving'
  BY <1>1, <1>2, <1>5, <1>7, <1>10, <1>11 DEF Giving
<1>13. RowSettled' /\ AllBegun' /\ EepromLeft' /\ FlashLeft' /\ RowLeft'
  BY <1>1, <1>2, <1>5, <1>7 DEF RowSettled, AllBegun, EepromLeft, FlashLeft, RowLeft
<1>14. Inv'
  BY <1>1, <1>8, <1>9, <1>12, <1>13, NothingRead DEF Inv, Register
<1>15. InProgress = RowCells /\ InProgress' = RowCells
  BY <1>1, <1>5, <1>7 DEF InProgress
<1>16. UNCHANGED Store!vars
  BY <1>1, <1>15 DEF Store!vars
<1> QED BY <1>14, <1>16 DEF StoreStep

-----------------------------------------------------------------------------
(***************************************************************************)
(* A command ends, the power fails, a memory is read.                      *)
(***************************************************************************)
\* While the row is erased or about to be written, the store has it as it was.
LEMMA ErasedRowCompletes ==
  ASSUME Inv, Complete, call.op = "writeRow"
  PROVE  Inv' /\ StoreStep
<1>1. /\ ~Ready /\ nvm' = Over(busy.new, nvm) /\ busy' = NotBusy
      /\ eeBuffer' = IF busy.clears = "EEPROM" THEN NoBytes ELSE eeBuffer
      /\ flBuffer' = IF busy.clears = "FLASH" THEN CleanFlashBuffer ELSE flBuffer
      /\ UNCHANGED <<pending, oldRow, cmd, call, cmdLost, got>>
  BY DEF Complete
<1>2. busy = [new |-> ErasedCells(RowCells), clears |-> NoClear]
  BY <1>1 DEF Inv, RowLeft
<1>3. eeBuffer' = eeBuffer /\ flBuffer' = flBuffer /\ busy.new = ErasedCells(RowCells)
  BY <1>1, <1>2 DEF NoClear
<1>4. /\ DOMAIN ErasedCells(RowCells) = RowCells
      /\ \A c \in RowCells : ErasedCells(RowCells)[c] = Erased
  BY DEF ErasedCells
<1>5. /\ nvm' \in [Cell -> Byte]
      /\ \A c \in RowCells : nvm'[c] = Erased
      /\ \A c \in Cell \ RowCells : nvm'[c] = nvm[c]
  <2>1. nvm' \in [Cell -> Byte]
    BY <1>1, OverType DEF Inv, Typed
  <2> QED BY <1>1, <1>3, <1>4, <2>1, Kept DEF Over
<1>6. Ready' /\ busy'.new = NoBytes /\ busy' = [new |-> busy'.new, clears |-> busy'.clears]
  BY <1>1 DEF Ready, NotBusy
<1>7. got = NoBytes
  BY <1>1 DEF Inv, ReadKept
<1>8. Typed'
  BY <1>1, <1>3, <1>5, <1>6, NoBytesEmpty DEF Inv, Typed
<1>9. RowLeft'
  BY <1>1, <1>3, <1>5, <1>6 DEF Inv, RowLeft
<1>10. Inv'
  BY <1>1, <1>7, <1>8, <1>9, NothingRead
  DEF Inv, Register, RowSettled, Giving, AllBegun, EepromLeft, FlashLeft
<1>11. InProgress' = InProgress
  BY <1>1 DEF InProgress
<1>12. Over(oldRow, nvm') = Over(oldRow, nvm)
  <2>1. DOMAIN oldRow = RowCells /\ DOMAIN nvm = Cell
    BY DEF Inv, Typed
  <2> QED BY <1>5, <2>1 DEF Over
<1>13. UNCHANGED Store!vars
  BY <1>1, <1>11, <1>12 DEF Store!vars
<1> QED BY <1>10, <1>13 DEF StoreStep

\* But for the row while it is rewritten, the store is the memory wherever
\* nothing is being programmed.
LEMMA StoreElsewhere ==
  ASSUME Inv, NEW c \in Cell \ InProgress
  PROVE  Mem[c] = nvm[c]
<1>1. DOMAIN oldRow = RowCells /\ DOMAIN nvm = Cell
  BY DEF Inv, Typed
<1>2. CASE call.op = "writeRow"
  BY <1>1, <1>2 DEF InProgress, Mem, Over
<1>3. CASE call.op # "writeRow" /\ c \in RowCells
  <2>1. oldRow = Restrict(nvm, RowCells)
    BY <1>3 DEF Inv, RowSettled, InProgress
  <2>2. oldRow[c] = nvm[c]
    BY <1>3, <2>1, RestrictValues2
  <2> QED BY <1>1, <1>3, <2>2 DEF Mem, Over
<1>4. CASE c \notin RowCells
  BY <1>1, <1>4 DEF Mem, Over
<1> QED BY <1>2, <1>3, <1>4

LEMMA SettledAnew ==
  ASSUME nvm' \in [Cell -> Byte], oldRow' = Restrict(nvm', RowCells)
  PROVE  /\ Mem' = nvm' /\ RowSettled' /\ oldRow' \in [RowCells -> Byte]
<1>1. RowCells \subseteq Cell
  BY RowCellsValues
<1>2. oldRow' \in [RowCells -> Byte]
  BY <1>1 DEF Restrict
<1>3. Mem' = nvm'
  BY <1>1 DEF Mem, Over, Restrict
<1> QED BY <1>2, <1>3 DEF RowSettled

LEMMA CommandCompletes ==
  ASSUME Inv, Complete, call.op # "writeRow"
  PROVE  Inv' /\ StoreStep
<1> DEFINE left == DOMAIN pending \ DOMAIN busy.new
<1>1. /\ ~Ready /\ nvm' = Over(busy.new, nvm) /\ busy' = NotBusy
      /\ eeBuffer' = IF busy.clears = "EEPROM" THEN NoBytes ELSE eeBuffer
      /\ flBuffer' = IF busy.clears = "FLASH" THEN CleanFlashBuffer ELSE flBuffer
      /\ pending' = Restrict(pending, left) /\ oldRow' = Restrict(nvm', RowCells)
      /\ UNCHANGED <<cmd, call, cmdLost, got>>
  BY DEF Complete
<1>2. Ready' /\ busy'.new = NoBytes /\ busy' = [new |-> busy'.new, clears |-> busy'.clears]
  BY <1>1 DEF Ready, NotBusy
<1>3. got = NoBytes
  BY <1>1 DEF Inv, ReadKept
<1>4. nvm' \in [Cell -> Byte]
  BY <1>1, OverType DEF Inv, Typed
<1>5. /\ \A c \in DOMAIN busy.new : nvm'[c] = busy.new[c]
      /\ \A c \in Cell \ DOMAIN busy.new : nvm'[c] = nvm[c]
  <2>1. DOMAIN nvm = Cell
    BY DEF Inv, Typed
  <2> QED BY <1>1, <2>1 DEF Over
<1>6. Mem' = nvm' /\ RowSettled' /\ oldRow' \in [RowCells -> Byte]
  BY <1>1, <1>4, SettledAnew
<1>7. /\ DOMAIN pending' = left /\ \A c \in left : pending'[c] = pending[c]
      /\ Gives(pending', Cell)
  <2>1. DOMAIN pending' = left /\ \A c \in left : pending'[c] = pending[c]
    BY <1>1, RestrictValues2
  <2>2. \A c \in left : pending[c] \in Byte /\ c \in Cell
    BY DEF Inv, Typed, Gives
  <2>3. pending' = [c \in left |-> pending'[c]]
    BY <1>1, <2>1 DEF Restrict
  <2> HIDE DEF left
  <2>4. pending' \in [left -> Byte] /\ left \subseteq Cell
    BY <2>1, <2>2, <2>3
  <2> QED BY <2>1, <2>4 DEF Gives
<1>8. /\ Gives(eeBuffer', Offsets(EepromPage))
      /\ flBuffer' \in [Offsets(FlashPage) -> Byte]
  BY <1>1, Kept, NoBytesEmpty, CleanType
<1>9. Typed'
  BY <1>1, <1>2, <1>4, <1>6, <1>7, <1>8, NoBytesEmpty DEF Inv, Typed
<1>10. DOMAIN busy'.new = {}
  BY <1>2, NoBytesEmpty
<1>11. Giving' /\ RowLeft'
  BY <1>1, <1>10 DEF Giving, RowLeft
<1>12. AllBegun'
  BY <1>1, <1>7 DEF Inv, AllBegun
<1>13. ASSUME NEW m, NEW size, RestLeft(m, size)
       PROVE  RestLeft(m, size)'
  <2>1. DOMAIN pending' \ DOMAIN busy'.new = left
    BY <1>7, <1>10
  <2>2. left = Span(m, call.at, Len(call.data))
    BY <1>13 DEF RestLeft
  <2>3. \A c \in left : pending'[c] = pending[c]
    BY <1>7
  <2> HIDE DEF left
  <2> QED BY <1>1, <1>10, <1>13, <2>1, <2>2, <2>3 DEF RestLeft
<1>14. EepromLeft'
  BY <1>1, <1>2, <1>13 DEF Inv, EepromLeft
<1>15. FlashLeft'
  <2> SUFFICES ASSUME call.op \in {"checkFlash", "writeFlash"} PROVE FlashLeft'
    BY <1>1 DEF FlashLeft
  <2>1. /\ RestLeft("FLASH", AppSize) /\ call.at % FlashPage = 0 /\ busy.clears = "FLASH"
        /\ call.op = "checkFlash" => cmd = NoOperation
        /\ call.op = "writeFlash" =>
             \A c \in Span("FLASH", call.at, Len(call.data)) : nvm[c] = Erased
    BY <1>1 DEF Inv, FlashLeft
  <2>2. RestLeft("FLASH", AppSize)'
    BY <1>13, <2>1
  <2>3. flBuffer' = CleanFlashBuffer
    BY <1>1, <2>1
  <2>4. \A c \in Span("FLASH", call.at, Len(call.data)) : nvm'[c] = nvm[c]
    <3>1. \A c \in Span("FLASH", call.at, Len(call.data)) : c \in DOMAIN pending \ DOMAIN busy.new
      BY <2>1 DEF RestLeft
    <3>2. DOMAIN pending \subseteq Cell
      BY DEF Inv, Typed, Gives
    <3> QED BY <1>5, <3>1, <3>2
  <2> QED BY <1>1, <1>2, <2>1, <2>2, <2>3, <2>4 DEF FlashLeft
<1>16. Inv'
  BY <1>1, <1>3, <1>6, <1>9, <1>11, <1>12, <1>14, <1>15, NothingRead DEF Inv, Register
<1>17. InProgress = DOMAIN busy.new /\ InProgress' = {}
  BY <1>1, <1>10 DEF InProgress
<1>18. DOMAIN busy.new \subseteq Cell
  BY DEF Inv, Typed, Gives
<1>19. CASE DOMAIN busy.new = {}
  <2>1. \A c \in Cell : Mem[c] = nvm[c]
    BY <1>17, <1>19, StoreElsewhere
  <2>2. Mem \in [Cell -> Byte] /\ nvm \in [Cell -> Byte]
    <3>1. RowCells \subseteq Cell
      BY RowCellsValues
    <3>2. nvm \in [Cell -> Byte] /\ oldRow \in [RowCells -> Byte]
      BY DEF Inv, Typed
    <3>3. Gives(oldRow, Cell)
      BY <3>1, <3>2 DEF Gives
    <3> QED BY <3>2, <3>3, OverType DEF Mem
  <2>3. nvm' = nvm
    BY <1>4, <1>5, <1>19, <2>2
  <2>4. Mem' = Mem
    BY <1>6, <2>1, <2>2, <2>3
  <2>5. pending' = pending
    <3>1. pending = [c \in DOMAIN pending |-> pending[c]]
      BY DEF Inv, Typed, Gives
    <3> QED BY <1>1, <1>19, <3>1 DEF Restrict
  <2>6. UNCHANGED Store!vars
    BY <1>17, <1>19, <2>4, <2>5 DEF Store!vars, Mem
  <2> QED BY <1>16, <2>6 DEF StoreStep
<1>20. CASE DOMAIN busy.new # {}
  <2> DEFINE given == [c \in Cell |-> IF c \in InProgress \cap DOMAIN pending
                                        THEN pending[c] ELSE Mem[c]]
  <2>1. \A c \in Cell : nvm'[c] = given[c]
    <3> SUFFICES ASSUME NEW c \in Cell PROVE nvm'[c] = given[c]
      OBVIOUS
    <3>1. CASE c \in DOMAIN busy.new
      <4>1. nvm'[c] = IF c \in DOMAIN pending THEN pending[c] ELSE Mem[c]
        BY <1>5, <3>1 DEF Inv, Giving
      <4> QED BY <1>17, <3>1, <4>1
    <3>2. CASE c \notin DOMAIN busy.new
      BY <1>5, <1>17, <3>2, StoreElsewhere
    <3> QED BY <3>1, <3>2
  <2>2. nvm' = [c \in Cell |-> nvm'[c]]
    BY <1>4
  <2>3. Mem' = given
    BY <1>6, <2>1, <2>2
  <2>4. pending' = Restrict(pending, DOMAIN pending \ InProgress)
    BY <1>1, <1>17
  <2>5. Over(oldRow', nvm') = [c \in Cell |-> IF c \in InProgress \cap DOMAIN pending
                                               THEN pending[c] ELSE Over(oldRow, nvm)[c]]
    BY <2>3 DEF Mem
  <2>6. InProgress # {} /\ InProgress' = {}
    BY <1>17, <1>20
  <2>7. Store!Done
    <3>1. Over(oldRow, nvm)' = [c \in Cell |-> IF c \in InProgress \cap DOMAIN pending
                                                THEN pending[c] ELSE Over(oldRow, nvm)[c]]
      BY <2>5
    <3>2. pending' = Store!Restrict(pending, DOMAIN pending \ InProgress)
      BY <2>4 DEF Restrict, Store!Restrict
    <3> QED BY <2>6, <3>1, <3>2 DEF Store!Done
  <2> QED BY <1>16, <2>7 DEF StoreStep, Store!Next
<1> QED BY <1>19, <1>20

LEMMA PowerFailsKeeps ==
  ASSUME Inv, PowerFails
  PROVE  Inv' /\ StoreStep
<1>1. PICK left \in [DOMAIN busy.new -> Byte] : nvm' = Over(left, nvm)
  BY DEF PowerFails
<1>2. /\ busy' = NotBusy /\ eeBuffer' = NoBytes /\ flBuffer' = CleanFlashBuffer
      /\ cmd' = NoOperation /\ call' = NoCall
      /\ pending' = NoBytes /\ oldRow' = Restrict(nvm', RowCells) /\ got' = got
  BY DEF PowerFails
<1>3. DOMAIN left = DOMAIN busy.new /\ Gives(left, Cell)
  BY DEF Inv, Typed, Gives
<1>4. nvm' \in [Cell -> Byte]
  BY <1>1, <1>3, OverType DEF Inv, Typed
<1>5. \A c \in Cell \ DOMAIN busy.new : nvm'[c] = nvm[c]
  <2>1. DOMAIN nvm = Cell
    BY DEF Inv, Typed
  <2> QED BY <1>1, <1>3, <2>1 DEF Over
<1>6. Mem' = nvm' /\ RowSettled' /\ oldRow' \in [RowCells -> Byte]
  BY <1>2, <1>4, SettledAnew
<1>7. /\ Ready' /\ busy'.new = NoBytes /\ busy' = [new |-> busy'.new, clears |-> busy'.clears]
      /\ call'.op = "none" /\ DOMAIN NoBytes = {}
  BY <1>2, NoBytesEmpty DEF Ready, NotBusy, NoCall
<1>8. Typed'
  BY <1>2, <1>4, <1>6, <1>7, NoBytesEmpty, CleanType DEF Typed
<1>9. ReadKept'
  <2>1. CASE got = NoBytes
    BY <1>2, <2>1, NothingRead
  <2>2. CASE got # NoBytes
    <3>1. DOMAIN busy.new = {}
      BY <2>2, NoBytesEmpty DEF Inv, ReadKept, Ready, NotBusy
    <3> QED BY <1>2, <1>5, <1>7, <3>1 DEF Inv, ReadKept, ReadsWhatIsStored
  <2> QED BY <2>1, <2>2
<1>10. Giving' /\ AllBegun' /\ EepromLeft' /\ FlashLeft' /\ RowLeft'
  BY <1>2, <1>7 DEF Giving, AllBegun, EepromLeft, FlashLeft, RowLeft
<1>11. Inv'
  BY <1>2, <1>6, <1>8, <1>9, <1>10 DEF Inv, Register
<1>12. DOMAIN busy.new \subseteq InProgress
  <2>1. CASE call.op = "writeRow"
    <3>1. Ready \/ busy.new = ErasedCells(RowCells)
      BY <2>1 DEF Inv, RowLeft
    <3>2. DOMAIN busy.new = {} \/ DOMAIN busy.new = RowCells
      BY <3>1, NoBytesEmpty DEF Ready, NotBusy, ErasedCells
    <3> QED BY <2>1, <3>2 DEF InProgress
  <2>2. CASE call.op # "writeRow"
    BY <2>2 DEF InProgress
  <2> QED BY <2>1, <2>2
<1>13. \A c \in Cell \ InProgress : nvm'[c] = Mem[c]
  BY <1>5, <1>12, StoreElsewhere
<1>14. InProgress' = {}
  BY <1>7 DEF InProgress
<1>15. Store!PowerCut
  BY <1>2, <1>4, <1>6, <1>13, <1>14 DEF Store!PowerCut, Store!Nothing, NoBytes, Mem
<1> QED BY <1>11, <1>15 DEF StoreStep, Store!Next

LEMMA RestoreCmdKeeps ==
  ASSUME Inv, RestoreCmd
  PROVE  Inv' /\ StoreStep
<1>1. /\ cmd' = NoOperation
      /\ UNCHANGED <<nvm, busy, eeBuffer, flBuffer, call, pending, oldRow, got>>
  BY DEF RestoreCmd
<1>2. Typed' /\ Register' /\ ReadKept'
  BY <1>1 DEF Inv, Typed, Register, ReadKept, ReadsWhatIsStored, Ready
<1>3. Mem' = Mem
  BY <1>1 DEF Mem
<1>4. RowSettled' /\ Giving' /\ AllBegun'
  BY <1>1, <1>3 DEF Inv, RowSettled, Giving, AllBegun
<1>5. EepromLeft' /\ FlashLeft' /\ RowLeft'
  BY <1>1 DEF Inv, EepromLeft, FlashLeft, RowLeft, RestLeft, Ready
<1>6. UNCHANGED Store!vars
  BY <1>1 DEF Store!vars, InProgress
<1> QED BY <1>2, <1>4, <1>5, <1>6 DEF Inv, StoreStep

LEMMA ReadKeeps ==
  ASSUME Inv, Read
  PROVE  Inv' /\ StoreStep
<1>1. PICK cells \in SUBSET Cell : Reads(cells) /\ got' = Restrict(nvm, cells)
  <2>1. CASE EepromRead(0, EepromSize)
    BY <2>1, EepromSpan DEF EepromRead
  <2>2. CASE FlashRead(0, AppSize)
    <3>1. cmd = NoOperation
      BY <2>2, Kept DEF FlashRead
    <3> QED BY <2>2, <3>1, FlashSpan DEF FlashRead, SeenByLpm
  <2>3. CASE UserSigRead(FlashPage, FlashPage)
    <3>1. FlashPage % FlashPage = 0
      BY Sizes
    <3>2. Span("ROW", (FlashPage % FlashPage), FlashPage) \subseteq Cell
      BY <3>1, RowCellsValues DEF RowCells
    <3> QED BY <2>3, <3>2 DEF UserSigRead
  <2>4. CASE ReadDeviceSerial
    BY <2>4, Memories DEF ReadDeviceSerial
  <2>5. CASE FusesRead(1)
    <3>1. Span("FUSE", 1, 1) \subseteq FuseCells
      BY DEF Span, FuseCells
    <3> QED BY <2>5, <3>1, Memories DEF FusesRead
  <2> QED BY <2>1, <2>2, <2>3, <2>4, <2>5 DEF Read
<1>2. /\ Ready /\ call = NoCall
      /\ UNCHANGED <<nvm, busy, eeBuffer, flBuffer, cmd, call, cmdLost, pending, oldRow>>
  BY <1>1 DEF Reads, controller
<1>3. Typed' /\ Register'
  BY <1>2 DEF Inv, Typed, Register
<1>4. ReadKept'
  BY <1>1, <1>2, RestrictValues2 DEF ReadKept, ReadsWhatIsStored, Ready
<1>5. Mem' = Mem
  BY <1>2 DEF Mem
<1>6. RowSettled' /\ Giving' /\ AllBegun'
  BY <1>2, <1>5 DEF Inv, RowSettled, Giving, AllBegun
<1>7. EepromLeft' /\ FlashLeft' /\ RowLeft'
  BY <1>2 DEF Inv, EepromLeft, FlashLeft, RowLeft, RestLeft, Ready
<1>8. UNCHANGED Store!vars
  BY <1>2 DEF Store!vars, InProgress
<1> QED BY <1>3, <1>4, <1>6, <1>7, <1>8 DEF Inv, StoreStep

-----------------------------------------------------------------------------
(***************************************************************************)
(* The results.                                                            *)
(***************************************************************************)
LEMMA InitInv ==
  ASSUME Init
  PROVE  Inv /\ Store!Init
<1>1. /\ busy = NotBusy /\ eeBuffer = NoBytes /\ flBuffer = CleanFlashBuffer
      /\ cmd = NoOperation /\ call = NoCall
      /\ pending = NoBytes /\ oldRow = Restrict(nvm, RowCells) /\ got = NoBytes
  BY DEF Init
<1>2. nvm \in [Cell -> Byte]
  <2>1. {} \in Byte /\ Erased \in Byte
    BY ErasedIsByte DEF Byte
  <2> QED BY <2>1 DEF Init
<1>3. RowCells \subseteq Cell
  BY RowCellsValues
<1>4. oldRow \in [RowCells -> Byte]
  BY <1>1, <1>2, <1>3 DEF Restrict
<1>5. Mem = nvm
  BY <1>1, <1>2, <1>3 DEF Mem, Over, Restrict
<1>6. /\ Ready /\ busy.new = NoBytes /\ busy = [new |-> busy.new, clears |-> busy.clears]
      /\ call.op = "none" /\ DOMAIN NoBytes = {}
  BY <1>1, NoBytesEmpty DEF Ready, NotBusy, NoCall
<1>7. Typed
  BY <1>1, <1>2, <1>4, <1>6, NoBytesEmpty, CleanType DEF Typed
<1>8. ReadKept
  BY <1>1, <1>6 DEF ReadKept, ReadsWhatIsStored
<1>9. RowSettled /\ Giving /\ AllBegun /\ EepromLeft /\ FlashLeft /\ RowLeft
  BY <1>1, <1>6 DEF RowSettled, Giving, AllBegun, EepromLeft, FlashLeft, RowLeft
<1>10. Inv
  BY <1>1, <1>7, <1>8, <1>9 DEF Inv, Register
<1>11. Store!Init
  BY <1>1, <1>2, <1>5, <1>6 DEF Store!Init, Store!Nothing, NoBytes, InProgress, Mem
<1> QED BY <1>10, <1>11

LEMMA EepromCallKeeps ==
  ASSUME Inv, EepromCall
  PROVE  Inv' /\ StoreStep
<1>1. CASE EepromFlush
  BY <1>1, EepromFlushKeeps
<1>2. CASE EepromEraseAll
  BY <1>2, EepromEraseAllKeeps
<1>3. CASE EepromEraseBytesInAllPages
  BY <1>3, EepromEraseBytesInAllPagesKeeps
<1>4. CASE \E v \in Byte : FillBuffer(v)
  BY <1>4, FillBufferKeeps
<1>5. CASE \E a \in Offsets(EepromSize), v \in Byte : WriteByte(a, v)
  BY <1>5, WriteByteKeeps
<1>6. CASE \E a \in Offsets(EepromPage), v \in Byte : LoadByte(a, v)
  BY <1>6, LoadByteKeeps
<1>7. CASE \E b \in Buffers : /\ Len(b) = EepromPage
                              /\ LoadPage([o \in Offsets(EepromPage) |-> b[o + 1]])
  BY <1>7, LoadPageKeeps
<1>8. CASE \E page \in Offsets(EepromPages) :
             \/ EepromAtomicWrite(page) \/ EepromSplitWrite(page)
             \/ EepromEraseBytes(page) \/ EepromErasePage(page)
  BY <1>8, EepromAtomicWriteKeeps, EepromSplitWriteKeeps, EepromEraseBytesKeeps,
     EepromErasePageKeeps
<1>9. CASE \E at \in Offsets(EepromSize), b \in Buffers : EepromEraseAndWriteBuffer(at, b)
  BY <1>9, EepromEraseAndWriteBufferKeeps
<1> QED BY <1>1, <1>2, <1>3, <1>4, <1>5, <1>6, <1>7, <1>8, <1>9 DEF EepromCall

LEMMA FlashCallKeeps ==
  ASSUME Inv, FlashCall
  PROVE  Inv' /\ StoreStep
<1>1. CASE FlashFlush
  BY <1>1, FlashFlushKeeps
<1>2. CASE EraseApp \/ EraseUserSection \/ WriteUserPage
  BY <1>2, WholeSectionKeeps
<1>3. CASE IssueFlashRangeCrc
  BY <1>3, CrcKeeps
<1>4. CASE \E o \in Offsets(FlashPage), lsb, msb \in Byte :
             o % 2 = 0 /\ FlashLoadWord(o, lsb, msb)
  BY <1>4, FlashLoadWordKeeps
<1>5. CASE \E page \in Offsets(AppPages + BootPages) :
             \/ EraseAppPage(page) \/ SplitWriteAppPage(page) \/ AtomicWriteAppPage(page)
             \/ EraseBootPage(page) \/ SplitWriteBootPage(page) \/ AtomicWriteBootPage(page)
  BY <1>5, FlashPageKeeps
<1>6. CASE \E at \in Offsets(AppSize), b \in Buffers, check \in BOOLEAN :
             FlashEraseAndWriteBuffer(at, b, check)
  BY <1>6, FlashEraseAndWriteBufferKeeps
<1>7. CASE \E at \in Offsets(FlashPage), b \in Buffers, check \in BOOLEAN :
             UserSigWriteBuffer(at, b, check)
  BY <1>7, UserSigWriteBufferKeeps
<1>8. CASE \E field \in Offsets(4), v \in Byte : LockBitsWrite(field, v)
  BY <1>8, LockBitsWriteKeeps
<1> QED BY <1>1, <1>2, <1>3, <1>4, <1>5, <1>6, <1>7, <1>8 DEF FlashCall

LEMMA NextKeeps ==
  ASSUME Inv, Next
  PROVE  Inv' /\ StoreStep
<1>1. CASE Complete
  BY <1>1, ErasedRowCompletes, CommandCompletes
<1> QED BY <1>1, EepromCallKeeps, FlashCallKeeps, ReadKeeps, RestoreCmdKeeps,
           EepromNextUnitKeeps, FlashNextUnitKeeps, UserSigWritePageKeeps, PowerFailsKeeps
        DEF Next

LEMMA StutterKeeps ==
  ASSUME Inv, UNCHANGED vars
  PROVE  Inv' /\ StoreStep
<1>1. UNCHANGED <<nvm, busy, eeBuffer, flBuffer, cmd, call, cmdLost, pending, oldRow, got>>
  BY DEF vars, controller, history
<1>2. Typed' /\ Register' /\ ReadKept'
  BY <1>1 DEF Inv, Typed, Register, ReadKept, ReadsWhatIsStored, Ready
<1>3. Mem' = Mem
  BY <1>1 DEF Mem
<1>4. RowSettled' /\ Giving' /\ AllBegun'
  BY <1>1, <1>3 DEF Inv, RowSettled, Giving, AllBegun
<1>5. EepromLeft' /\ FlashLeft' /\ RowLeft'
  BY <1>1 DEF Inv, EepromLeft, FlashLeft, RowLeft, RestLeft, Ready
<1>6. UNCHANGED Store!vars
  BY <1>1 DEF Store!vars, InProgress
<1> QED BY <1>2, <1>4, <1>5, <1>6 DEF Inv, StoreStep

\* The account of every cell holds in every state.
THEOREM MemoryInvariant == Spec => []Inv
<1>1. Inv /\ [Next]_vars => Inv'
  BY NextKeeps, StutterKeeps
<1> QED BY <1>1, InitInv, PTL DEF Spec

\* What a read returns is what the memory holds, whatever was written, erased
\* or cut short before it: nothing is read while a command is under way, and a
\* call that changes the command register says so or puts it back
\* (nvm_eeprom_read_byte to nvm_fuses_read).
THEOREM ReadsReturnMemory == Spec => []ReadsWhatIsStored
<1>1. Inv => ReadsWhatIsStored
  BY DEF Inv, ReadKept
<1> QED BY <1>1, MemoryInvariant, PTL

\* The driver implements the store that its callers are promised: of every call
\* each cell gets the value asked for, once and in order, its neighbours on the
\* page keep theirs, and a power failure costs no more than what is being
\* programmed.
THEOREM StoreImplemented == Spec => ImplementsStore
<1>1. Inv /\ [Next]_vars => Inv' /\ [Store!Next]_(Store!vars)
  BY NextKeeps, StutterKeeps DEF StoreStep
<1> QED BY <1>1, InitInv, PTL DEF Spec, ImplementsStore, Store!Spec
=============================================================================
