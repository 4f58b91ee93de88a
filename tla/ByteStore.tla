----------------------------- MODULE ByteStore -----------------------------
(***************************************************************************)
(* What the memory driver promises its callers: a call names cells and the *)
(* values they shall have; the cells get them, lower addresses first, and  *)
(* no other cell changes; only the cells being programmed when the power   *)
(* fails may be left with any value.  It says nothing of page buffers,     *)
(* commands, erasing or the busy flag.                                     *)
(***************************************************************************)
EXTENDS Integers, FiniteSets, Functions

CONSTANTS Cell,   \* <<memory, address>>
          Byte,
          Mates   \* [Cell -> SUBSET Cell]: the cells rewritten with a cell

VARIABLES mem,          \* [Cell -> Byte]
          want,         \* the values still to be given, by cell
          programming   \* the cells being programmed

vars == <<mem, want, programming>>
Nothing == [c \in {} |-> {}]
Before(c, d) == c[1] = d[1] /\ c[2] < d[2]

Init == /\ mem \in [Cell -> Byte]
        /\ want = Nothing
        /\ programming = {}

\* Some of the cells wanted next, and none but their mates besides.
Program(w, cells) ==
  /\ cells \cap DOMAIN w # {}
  /\ cells \subseteq UNION {Mates[c] : c \in cells \cap DOMAIN w}
  /\ \A c \in DOMAIN w \ cells, d \in DOMAIN w \cap cells : ~Before(c, d)

\* A call may start to program at once, or find that it need not.
Call == /\ want = Nothing /\ programming = {}
        /\ DOMAIN want' \subseteq Cell
        /\ \A c \in DOMAIN want' : want'[c] \in Byte
        /\ programming' # {} => Program(want', programming')
        /\ UNCHANGED mem

Continue == /\ programming = {}
            /\ Program(want, programming')
            /\ UNCHANGED <<mem, want>>

Done == /\ programming # {}
        /\ mem' = [c \in Cell |-> IF c \in programming \cap DOMAIN want
                                    THEN want[c] ELSE mem[c]]
        /\ want' = Restrict(want, DOMAIN want \ programming)
        /\ programming' = {}

PowerCut == /\ mem' \in [Cell -> Byte]
            /\ \A c \in Cell \ programming : mem'[c] = mem[c]
            /\ want' = Nothing
            /\ programming' = {}

Next == Call \/ Continue \/ Done \/ PowerCut
Spec == Init /\ [][Next]_vars
=============================================================================
