--------------------------- MODULE StartupProofs ---------------------------
(***************************************************************************)
(* What the interrupt handlers of the USB driver find whenever they may    *)
(* run, and how deep the CPU sleeps, for every set of configurations and   *)
(* every number of peripherals in use; and that the clocks are right, for  *)
(* every set of configurations that the data sheets and headers allow.     *)
(*                                                                         *)
(* The program is the sequence todo, and no bound on its length is known.  *)
(* The argument is a Hoare logic for such sequences: a label says what the *)
(* firmware has set up so far, Runs(p, x, y) that the program p takes it   *)
(* from label x to label y whatever the hardware answers, and there is a   *)
(* rule for the empty program, one instruction, two programs in sequence,  *)
(* and each construct of Startup.  The invariant is that what is still to  *)
(* do runs from a label that agrees with the state to one of main's loop.  *)
(*                                                                         *)
(* The second half does the same for the clocks, with assertions on the    *)
(* registers and oscillators in place of labels: Triple(c, P, p, Q) says   *)
(* that p, started in a state of P, keeps the clocks good in every state   *)
(* between its instructions, whatever the oscillators do, and ends in Q.   *)
(***************************************************************************)
EXTENDS Startup, SequenceTheorems, TLAPS

-----------------------------------------------------------------------------
(***************************************************************************)
(* Labels.  depth is the number of critical sections entered, down and     *)
(* active the locks of the modes PDOWN and ACTIVE; the driver is off, set  *)
(* up, attached ("up") or detached but not yet quiet ("leaving"); and the  *)
(* CPU runs, has its interrupts disabled outside of critical sections      *)
(* ("masked"), or is on its way to sleep in the mode with number mode.     *)
(***************************************************************************)
Visible(x) == x.driver = "off" \/ (x.driver = "up" /\ x.down = 2)

Label ==
  {x \in [depth : Nat, driver : {"off", "set", "up", "leaving"},
          down : Nat, active : Nat,
          cpu : {"runs", "masked", "chosen", "loaded", "armed", "entered"},
          mode : 1..6] :
     /\ x.depth = 0 => Visible(x)
     /\ x.cpu # "runs" => x.depth = 0
     /\ x.cpu \in {"runs", "masked"} => x.mode = 1}

\* What sleepmgr_enter_sleep does for the mode with number k.
SleepIn(k) ==
  Do("sleepMode", SleepmgrConfigs[k - 1]) \o Do("sleepEnabled", TRUE)
  \o Do("sleepEnter", "SREG") \o Do("sleepEnabled", FALSE)

\* Instructions that no label is about.
Plain == {"gateAll", "prescale", "calibrate", "oscOn", "oscOff", "xoscConfig", "waitReady",
          "unlessReady", "reference", "dfll", "pllConfig", "select", "usbClock", "rtcClock",
          "ungate", "gate", "port"}

\* The instruction i takes the label x to z when it does not branch.
StepIrq(x, i, z) ==
  \/ i[1] = "irqOn" /\ x.cpu = "masked" /\ z = [x EXCEPT !.cpu = "runs"]
  \/ i[1] = "irqOff" /\ x.cpu = "runs" /\ x.depth = 0 /\ z = [x EXCEPT !.cpu = "masked"]
  \/ i[1] = "save" /\ x.cpu = "runs" /\ z = [x EXCEPT !.depth = @ + 1]
  \/ i[1] = "restore" /\ x.cpu = "runs" /\ x.depth > 0 /\ z = [x EXCEPT !.depth = @ - 1]

StepLocks(x, i, z) ==
  /\ x.cpu = "runs"
  /\ \/ /\ i[1] = "locksInit" /\ x.driver = "off"
        /\ z = [x EXCEPT !.down = 1, !.active = 0]
     \/ i[1] = "lock" /\ i[2] = "PDOWN" /\ x.depth > 0 /\ z = [x EXCEPT !.down = @ + 1]
     \/ i[1] = "lock" /\ i[2] = "ACTIVE" /\ z = [x EXCEPT !.active = @ + 1]
     \/ i[1] = "mustBeLocked" /\ z = x
     \/ /\ i[1] = "unlock" /\ i[2] = "PDOWN" /\ x.depth > 0 /\ x.down > 0
        /\ z = [x EXCEPT !.down = @ - 1]
     \/ i[1] = "unlock" /\ i[2] = "ACTIVE" /\ x.active > 0 /\ z = [x EXCEPT !.active = @ - 1]

StepDriver(x, i, z) ==
  /\ x.depth > 0
  /\ \/ i[1] = "driverReset" /\ x.driver = "off" /\ z = [x EXCEPT !.driver = "set"]
     \/ i[1] = "uddSleepMode" /\ i[2] = TRUE /\ x.driver \in {"set", "up"} /\ z = x
     \/ i[1] = "attach" /\ x.driver = "set" /\ z = [x EXCEPT !.driver = "up"]
     \/ i[1] = "detach" /\ x.driver = "up" /\ z = [x EXCEPT !.driver = "leaving"]
     \/ /\ i[1] = "uddSleepMode" /\ i[2] = FALSE /\ x.driver = "leaving"
        /\ z = [x EXCEPT !.driver = "off"]

StepSleep(x, i, z) ==
  \/ /\ i[1] = "sleepMode" /\ i[2] = Mode[x.mode] /\ x.cpu = "chosen"
     /\ z = [x EXCEPT !.cpu = "loaded"]
  \/ /\ i[1] = "sleepEnabled" /\ i[2] = TRUE /\ x.cpu = "loaded"
     /\ z = [x EXCEPT !.cpu = "armed"]
  \/ i[1] = "sleepEnter" /\ x.cpu = "armed" /\ z = [x EXCEPT !.cpu = "entered"]
  \/ /\ i[1] = "sleepEnabled" /\ i[2] = FALSE /\ x.cpu = "entered"
     /\ z = [x EXCEPT !.cpu = "runs", !.mode = 1]

Step(x, i, z) ==
  /\ z \in Label
  /\ \/ i[1] \in Plain /\ x.cpu = "runs" /\ z = x
     \/ StepIrq(x, i, z) \/ StepLocks(x, i, z)
     \/ StepDriver(x, i, z) \/ StepSleep(x, i, z)

\* The instruction i may go on with the instructions b at the label z.
Branch(x, i, b, z) ==
  \/ i[1] = "unlessReady" /\ b = i[2][2] /\ z = x
  \/ i[1] = "chooseMode" /\ b = Do("irqOn", "SREG") /\ z = x
  \/ /\ i[1] = "chooseMode"
     /\ \E k \in 2..6 : b = SleepIn(k) /\ z = [x EXCEPT !.cpu = "chosen", !.mode = k]

\* chooseMode only branches; it finds a lock.
Chooses(x, i) == i[1] = "chooseMode" /\ x.cpu = "masked" /\ x.down > 0

\* A set of programs with their labels that has what is left of each after its
\* first instruction.
Closed(R, U) ==
  \A p, x, y : <<p, x, y>> \in R =>
    /\ p \in Seq(U) /\ x \in Label
    /\ \/ p = <<>> /\ x = y
       \/ /\ p # <<>>
          /\ \/ Chooses(x, Head(p))
             \/ \E z : Step(x, Head(p), z) /\ <<Tail(p), z, y>> \in R
          /\ \A b, z : Branch(x, Head(p), b, z) =>
               b \in Seq(U) /\ <<b \o Tail(p), z, y>> \in R

Runs(p, x, y) == \E R, U : <<p, x, y>> \in R /\ Closed(R, U)

-----------------------------------------------------------------------------
(***************************************************************************)
(* Rules for programs.                                                     *)
(***************************************************************************)
LEMMA ClosedMonotonic ==
  ASSUME NEW R, NEW U, NEW V, U \subseteq V, Closed(R, U)
  PROVE  Closed(R, V)
<1>1. \A p \in Seq(U) : p \in Seq(V)
  BY SeqMonotonic
<1> QED BY <1>1 DEF Closed

\* The first instruction of two programs in sequence, and the rest.
LEMMA HeadTailOfConcat ==
  ASSUME NEW U, NEW p \in Seq(U), NEW q \in Seq(U), p # <<>>
  PROVE  /\ p \o q # <<>>
         /\ Head(p \o q) = Head(p)
         /\ Tail(p \o q) = Tail(p) \o q
         /\ Tail(p) \in Seq(U)
<1>1. Len(p) \in Nat \ {0} /\ Len(q) \in Nat
  BY EmptySeq, LenProperties
<1>2. /\ p \o q \in Seq(U) /\ Len(p \o q) = Len(p) + Len(q)
      /\ \A i \in 1..(Len(p) + Len(q)) :
           (p \o q)[i] = IF i <= Len(p) THEN p[i] ELSE q[i - Len(p)]
  BY ConcatProperties
<1>3. p \o q # <<>>
  BY <1>1, <1>2, EmptySeq
<1>4. Head(p \o q) = Head(p)
  <2>1. (p \o q)[1] = p[1]
    BY <1>1, <1>2
  <2> QED BY <2>1 DEF Head
<1>5. /\ Tail(p) \in Seq(U) /\ Len(Tail(p)) = Len(p) - 1
      /\ \A i \in 1..Len(Tail(p)) : Tail(p)[i] = p[i + 1]
  BY HeadTailProperties
<1>6. /\ Tail(p \o q) \in Seq(U) /\ Len(Tail(p \o q)) = Len(p \o q) - 1
      /\ \A i \in 1..Len(Tail(p \o q)) : Tail(p \o q)[i] = (p \o q)[i + 1]
  BY <1>2, <1>3, HeadTailProperties
<1>7. /\ Tail(p) \o q \in Seq(U) /\ Len(Tail(p) \o q) = Len(Tail(p)) + Len(q)
      /\ \A i \in 1..(Len(Tail(p)) + Len(q)) :
           (Tail(p) \o q)[i] = IF i <= Len(Tail(p)) THEN Tail(p)[i] ELSE q[i - Len(Tail(p))]
  BY <1>5, ConcatProperties
<1>8. \A i \in 1..Len(Tail(p \o q)) : Tail(p \o q)[i] = (Tail(p) \o q)[i]
  <2> SUFFICES ASSUME NEW i \in 1..Len(Tail(p \o q))
               PROVE  Tail(p \o q)[i] = (Tail(p) \o q)[i]
    OBVIOUS
  <2>1. /\ i + 1 \in 1..(Len(p) + Len(q)) /\ i \in 1..(Len(Tail(p)) + Len(q))
        /\ i + 1 <= Len(p) <=> i <= Len(Tail(p))
        /\ (i + 1) - Len(p) = i - Len(Tail(p))
        /\ i <= Len(Tail(p)) => i \in 1..Len(Tail(p))
    BY <1>1, <1>2, <1>5, <1>6
  <2>2. Tail(p \o q)[i] = IF i + 1 <= Len(p) THEN p[i + 1] ELSE q[(i + 1) - Len(p)]
    BY <1>2, <1>6, <2>1
  <2>3. (Tail(p) \o q)[i] = IF i <= Len(Tail(p)) THEN Tail(p)[i] ELSE q[i - Len(Tail(p))]
    BY <1>7, <2>1
  <2> QED BY <1>5, <2>1, <2>2, <2>3
<1>9. Len(Tail(p \o q)) = Len(Tail(p) \o q)
  BY <1>1, <1>2, <1>5, <1>6, <1>7
<1>10. Tail(p \o q) = Tail(p) \o q
  BY <1>6, <1>7, <1>8, <1>9, SeqEqual
<1> QED BY <1>3, <1>4, <1>5, <1>10

\* Two programs in sequence.
LEMMA RunsConcat ==
  ASSUME NEW p, NEW q, NEW x, NEW y, NEW z, Runs(p, x, y), Runs(q, y, z)
  PROVE  Runs(p \o q, x, z)
<1>1. PICK R1, U1 : <<p, x, y>> \in R1 /\ Closed(R1, U1)
  BY DEF Runs
<1>2. PICK R2, U2 : <<q, y, z>> \in R2 /\ Closed(R2, U2)
  BY DEF Runs
<1> DEFINE U == U1 \cup U2
<1>3. Closed(R1, U) /\ Closed(R2, U)
  BY <1>1, <1>2, ClosedMonotonic
<1> DEFINE Rest == {s \in R1 : \E r, w : s = <<r, w, y>>}
           R == {<<s[1] \o q, s[2], z>> : s \in Rest} \cup R2
<1> HIDE DEF U
<1>4. q \in Seq(U)
  BY <1>2, <1>3 DEF Closed
<1>5. ASSUME NEW r, NEW w, <<r, w, y>> \in R1 PROVE <<r \o q, w, z>> \in R
  <2>1. <<r, w, y>> \in Rest
    BY <1>5
  <2>2. <<r, w, y>>[1] = r /\ <<r, w, y>>[2] = w
    OBVIOUS
  <2> QED BY <2>1, <2>2
<1>6. <<p \o q, x, z>> \in R
  BY <1>1, <1>5
<1>7. ASSUME NEW t, NEW w, NEW v, <<t, w, v>> \in R, <<t, w, v>> \notin R2
      PROVE  v = z /\ \E r : t = r \o q /\ <<r, w, y>> \in R1
  <2>1. PICK s \in Rest : <<t, w, v>> = <<s[1] \o q, s[2], z>>
    BY <1>7
  <2>2. PICK r, u : s = <<r, u, y>>
    OBVIOUS
  <2>3. s[1] = r /\ s[2] = u
    BY <2>2
  <2> QED BY <2>1, <2>2, <2>3
<1> HIDE DEF R, Rest
<1>8. R2 \subseteq R
  BY DEF R
<1>9. ASSUME NEW t, NEW w, NEW v, <<t, w, v>> \in R
      PROVE  /\ t \in Seq(U) /\ w \in Label
             /\ \/ t = <<>> /\ w = v
                \/ /\ t # <<>>
                   /\ \/ Chooses(w, Head(t))
                      \/ \E u : Step(w, Head(t), u) /\ <<Tail(t), u, v>> \in R
                   /\ \A b, u : Branch(w, Head(t), b, u) =>
                        b \in Seq(U) /\ <<b \o Tail(t), u, v>> \in R
  <2>1. CASE <<t, w, v>> \in R2
    BY <1>3, <1>8, <2>1 DEF Closed
  <2>2. CASE <<t, w, v>> \notin R2
    <3>1. PICK r : v = z /\ t = r \o q /\ <<r, w, y>> \in R1
      BY <1>7, <1>9, <2>2
    <3>2. r \in Seq(U) /\ w \in Label
      BY <1>3, <3>1 DEF Closed
    <3>3. t \in Seq(U)
      BY <1>4, <3>1, <3>2, ConcatProperties
    <3>4. CASE r = <<>>
      <4>1. w = y
        BY <1>3, <3>1, <3>4 DEF Closed
      <4>2. t = q
        BY <1>4, <3>1, <3>4, ConcatEmptySeq
      <4> QED BY <1>2, <2>2, <3>1, <4>1, <4>2
    <3>5. CASE r # <<>>
      <4>1. /\ t # <<>> /\ Head(t) = Head(r) /\ Tail(t) = Tail(r) \o q
            /\ Tail(r) \in Seq(U)
        BY <1>4, <3>1, <3>2, <3>5, HeadTailOfConcat
      <4>2. /\ \/ Chooses(w, Head(r))
               \/ \E u : Step(w, Head(r), u) /\ <<Tail(r), u, y>> \in R1
            /\ \A b, u : Branch(w, Head(r), b, u) =>
                 b \in Seq(U) /\ <<b \o Tail(r), u, y>> \in R1
        BY <1>3, <3>1, <3>5 DEF Closed
      <4>3. \/ Chooses(w, Head(t))
            \/ \E u : Step(w, Head(t), u) /\ <<Tail(t), u, v>> \in R
        BY <1>5, <3>1, <4>1, <4>2
      <4>4. ASSUME NEW b, NEW u, Branch(w, Head(t), b, u)
            PROVE  b \in Seq(U) /\ <<b \o Tail(t), u, v>> \in R
        <5>1. b \in Seq(U) /\ <<b \o Tail(r), u, y>> \in R1
          BY <4>1, <4>2, <4>4
        <5>2. b \in Seq(U) /\ Tail(r) \in Seq(U) /\ q \in Seq(U)
          BY <1>4, <4>1, <5>1
        <5>3. (b \o Tail(r)) \o q = b \o (Tail(r) \o q)
          BY <5>2, ConcatAssociative
        <5>4. <<(b \o Tail(r)) \o q, u, z>> \in R
          BY <1>5, <5>1
        <5> QED BY <3>1, <4>1, <5>1, <5>3, <5>4
      <4> QED BY <3>2, <3>3, <4>1, <4>3, <4>4
    <3> QED BY <3>4, <3>5
  <2> QED BY <2>1, <2>2
<1>10. Closed(R, U)
  BY <1>9 DEF Closed
<1> QED BY <1>6, <1>10 DEF Runs

\* A program that has ended.
LEMMA RunsNothing ==
  ASSUME NEW x \in Label PROVE Runs(<<>>, x, x)
<1> DEFINE R == {<< <<>>, x, x>>}
<1>1. <<>> \in Seq({})
  BY EmptySeq
<1>2. Closed(R, {})
  BY <1>1 DEF Closed
<1> QED BY <1>2 DEF Runs

LEMMA NothingRuns ==
  ASSUME NEW x, NEW y, Runs(<<>>, x, y) PROVE x = y /\ x \in Label
BY DEF Runs, Closed

\* One instruction.
LEMMA OneInstruction ==
  ASSUME NEW i
  PROVE  /\ <<i>> \in Seq({i}) /\ <<i>> # <<>>
         /\ Head(<<i>>) = i /\ Tail(<<i>>) = <<>>
<1>1. <<i>> \in Seq({i}) /\ <<i>> # <<>> /\ Head(<<i>>) = i
  OBVIOUS
<1>2. Tail(<<i>>) \in Seq({i}) /\ Len(Tail(<<i>>)) = 0
  BY <1>1, HeadTailProperties
<1> QED BY <1>1, <1>2, EmptySeq

LEMMA RunsDo ==
  ASSUME NEW op, NEW arg, op \notin {"unlessReady", "chooseMode"},
         NEW x \in Label, NEW z, Step(x, <<op, arg>>, z)
  PROVE  Runs(Do(op, arg), x, z)
<1> DEFINE i == <<op, arg>>
           R == {<< <<i>>, x, z>>, << <<>>, z, z>>}
<1>1. <<i>> \in Seq({i}) /\ <<i>> # <<>> /\ Head(<<i>>) = i /\ Tail(<<i>>) = <<>>
  BY OneInstruction
<1>2. <<>> \in Seq({i}) /\ z \in Label
  BY EmptySeq DEF Step
<1>3. \A b, u : ~Branch(x, i, b, u)
  BY DEF Branch
<1>4. Step(x, i, z)
  OBVIOUS
<1> HIDE DEF i
<1>5. Closed(R, {i})
  <2> SUFFICES ASSUME NEW t, NEW w, NEW v, <<t, w, v>> \in R
               PROVE  /\ t \in Seq({i}) /\ w \in Label
                      /\ \/ t = <<>> /\ w = v
                         \/ /\ t # <<>>
                            /\ \/ Chooses(w, Head(t))
                               \/ \E u : Step(w, Head(t), u) /\ <<Tail(t), u, v>> \in R
                            /\ \A b, u : Branch(w, Head(t), b, u) =>
                                 b \in Seq({i}) /\ <<b \o Tail(t), u, v>> \in R
    BY DEF Closed
  <2>1. CASE t = <<i>> /\ w = x /\ v = z
    BY <1>1, <1>3, <1>4, <2>1
  <2>2. CASE t = <<>> /\ w = z /\ v = z
    BY <1>2, <2>2
  <2> QED BY <2>1, <2>2
<1> QED BY <1>5 DEF Runs, Do, i

\* A program that no label is about.
Silent(p) == \A x \in Label : x.cpu = "runs" => Runs(p, x, x)

LEMMA SilentNothing == Silent(<<>>)
BY RunsNothing DEF Silent

LEMMA SilentDo ==
  ASSUME NEW op \in Plain \ {"unlessReady"}, NEW arg PROVE Silent(Do(op, arg))
<1> SUFFICES ASSUME NEW x \in Label, x.cpu = "runs" PROVE Runs(Do(op, arg), x, x)
  BY DEF Silent
<1>1. op # "chooseMode"
  BY DEF Plain
<1>2. Step(x, <<op, arg>>, x)
  BY DEF Step
<1> QED BY <1>1, <1>2, RunsDo

LEMMA SilentConcat ==
  ASSUME NEW p, NEW q, Silent(p), Silent(q) PROVE Silent(p \o q)
BY RunsConcat DEF Silent

\* if (!ready) { p }
LEMMA SilentUnlessReady ==
  ASSUME NEW id, NEW p, Silent(p) PROVE Silent(UnlessReady(id, p))
<1> SUFFICES ASSUME NEW x \in Label, x.cpu = "runs"
             PROVE  Runs(UnlessReady(id, p), x, x)
  BY DEF Silent
<1>1. PICK R1, U1 : <<p, x, x>> \in R1 /\ Closed(R1, U1)
  BY DEF Silent, Runs
<1> DEFINE i == <<"unlessReady", <<id, p>>>>
           U == U1 \cup {i}
           R == R1 \cup {<< <<i>>, x, x>>, << <<>>, x, x>>}
<1>2. Closed(R1, U)
  BY <1>1, ClosedMonotonic
<1>3. <<i>> \in Seq(U) /\ <<i>> # <<>> /\ Head(<<i>>) = i /\ Tail(<<i>>) = <<>>
  BY OneInstruction, SeqMonotonic
<1>4. <<>> \in Seq(U)
  BY EmptySeq
<1>5. i[1] = "unlessReady" /\ i[2][2] = p
  OBVIOUS
<1> HIDE DEF U, i
<1>6. p \in Seq(U) /\ p \o <<>> = p
  BY <1>1, <1>2, ConcatEmptySeq DEF Closed
<1>7. \A b, z : Branch(x, i, b, z) => b = p /\ z = x
  BY <1>5 DEF Branch
<1>8. Step(x, i, x)
  BY <1>5 DEF Step, Plain
<1>9. Closed(R, U)
  <2> SUFFICES ASSUME NEW t, NEW w, NEW v, <<t, w, v>> \in R
               PROVE  /\ t \in Seq(U) /\ w \in Label
                      /\ \/ t = <<>> /\ w = v
                         \/ /\ t # <<>>
                            /\ \/ Chooses(w, Head(t))
                               \/ \E u : Step(w, Head(t), u) /\ <<Tail(t), u, v>> \in R
                            /\ \A b, u : Branch(w, Head(t), b, u) =>
                                 b \in Seq(U) /\ <<b \o Tail(t), u, v>> \in R
    BY DEF Closed
  <2>1. CASE <<t, w, v>> \in R1
    BY <1>2, <2>1 DEF Closed
  <2>2. CASE t = <<>> /\ w = x /\ v = x
    BY <1>4, <2>2
  <2>3. CASE t = <<i>> /\ w = x /\ v = x
    BY <1>1, <1>3, <1>6, <1>7, <1>8, <2>3
  <2> QED BY <2>1, <2>2, <2>3
<1> QED BY <1>9 DEF Runs, UnlessReady, Do, i

\* Between cpu_irq_save and cpu_irq_restore.
Entered(x) == [x EXCEPT !.depth = @ + 1]

LEMMA EnteredLabel ==
  ASSUME NEW x \in Label, x.cpu = "runs"
  PROVE  /\ Entered(x) \in Label /\ Entered(x).depth > 0 /\ Entered(x).cpu = "runs"
         /\ Entered(x).driver = x.driver
         /\ Entered(x).down = x.down /\ Entered(x).active = x.active
BY DEF Label, Entered

LEMMA RunsCritical ==
  ASSUME NEW p, NEW x \in Label, NEW y \in Label, x.cpu = "runs", y.cpu = "runs",
         Runs(p, Entered(x), Entered(y))
  PROVE  Runs(Critical(p), x, y)
<1>1. Entered(x) \in Label /\ Entered(y) \in Label
  BY EnteredLabel
<1>2. Step(x, <<"save", "SREG">>, Entered(x))
  BY <1>1 DEF Step, StepIrq, Entered
<1>3. Runs(Do("save", "SREG"), x, Entered(x))
  BY <1>2, RunsDo
<1>4. Step(Entered(y), <<"restore", "SREG">>, y)
  <2>1. Entered(y).cpu = "runs" /\ Entered(y).depth > 0
    BY DEF Entered, Label
  <2>2. y = [Entered(y) EXCEPT !.depth = @ - 1]
    <3>1. y.depth \in Nat /\ (y.depth + 1) - 1 = y.depth
      BY DEF Label
    <3>2. y = [[y EXCEPT !.depth = y.depth + 1] EXCEPT !.depth = (y.depth + 1) - 1]
      BY <3>1 DEF Label
    <3> QED BY <3>2 DEF Entered, Label
  <2> QED BY <2>1, <2>2 DEF Step, StepIrq
<1>5. Runs(Do("restore", "SREG"), Entered(y), y)
  BY <1>1, <1>4, RunsDo
<1> QED BY <1>3, <1>5, RunsConcat DEF Critical

LEMMA SilentCritical ==
  ASSUME NEW p, Silent(p) PROVE Silent(Critical(p))
<1> SUFFICES ASSUME NEW x \in Label, x.cpu = "runs" PROVE Runs(Critical(p), x, x)
  BY DEF Silent
<1>1. Entered(x) \in Label /\ Entered(x).cpu = "runs"
  BY DEF Entered, Label
<1>2. Runs(p, Entered(x), Entered(x))
  BY <1>1 DEF Silent
<1> QED BY <1>2, RunsCritical

-----------------------------------------------------------------------------
(***************************************************************************)
(* A label and the state that it describes.                                *)
(***************************************************************************)
\* The mode with number k is no deeper than any lock.
Allowed(k) == k \in 2..6 /\ \A m \in 1..6 : locks[m] > 0 => k <= m

Typed ==
  /\ cfg \in Configs
  /\ irq \in [on : BOOLEAN, saved : Seq(BOOLEAN)]
  /\ usb \in [interrupts : BOOLEAN, reset : BOOLEAN, idle : BOOLEAN,
              pads : {"reset", "factory", "typical"}]
  /\ locks \in [1..6 -> Nat]
  /\ sleep \in [mode : {Mode[k] : k \in 2..6}, enabled : BOOLEAN, asleep : BOOLEAN]

\* Interrupts are enabled outside of critical sections, and the last restore
\* enables them again.
IrqAgrees(x) ==
  /\ irq.on <=> x.depth = 0 /\ x.cpu \in {"runs", "entered"}
  /\ Len(irq.saved) = x.depth
  /\ \A i \in 1..x.depth : irq.saved[i] <=> i = x.depth

DriverAgrees(x) ==
  /\ usb.interrupts <=> x.driver = "up"
  /\ usb.reset <=> x.driver \in {"set", "up"}
  /\ usb.reset => usb.pads \in {"factory", "typical"}
  /\ x.driver = "off" => ~usb.idle

LocksAgree(x) ==
  /\ locks[1] = x.active /\ locks[6] = x.down
  /\ locks[2] = IF usb.idle THEN 1 ELSE 0
  /\ locks[3] = 0 /\ locks[4] = 0 /\ locks[5] = 0

SleepAgrees(x) ==
  /\ sleep.asleep => x.cpu = "entered"
  /\ sleep.asleep \/ x.cpu \in {"chosen", "loaded", "armed"} => Allowed(x.mode)
  /\ x.cpu \in {"loaded", "armed", "entered"} => sleep.mode = Mode[x.mode]

Agrees(x) == IrqAgrees(x) /\ DriverAgrees(x) /\ LocksAgree(x) /\ SleepAgrees(x)

\* main's loop: the device is attached or the stack is stopped.
InMainLoop(x) ==
  /\ x.depth = 0 /\ x.cpu = "runs"
  /\ (x.driver = "off" /\ x.down = 1) \/ (x.driver = "up" /\ x.down = 2)

Inv == Typed /\ \E x, y : Runs(todo, x, y) /\ Agrees(x) /\ InMainLoop(y)

-----------------------------------------------------------------------------
(***************************************************************************)
(* What the parts of main and of the services do to a label.               *)
(***************************************************************************)
LEMMA SilentOsc ==
  ASSUME NEW id PROVE Silent(OscEnable(id)) /\ Silent(OscDisable(id)) /\ Silent(OscStart(id))
<1>1. /\ Silent(Do("xoscConfig", "XOSC")) /\ Silent(Do("oscOn", id))
      /\ Silent(Do("oscOff", id)) /\ Silent(Do("waitReady", id))
  BY SilentDo DEF Plain
<1>2. Silent(Critical(Do("oscOn", id))) /\ Silent(OscDisable(id))
  BY <1>1, SilentCritical DEF OscDisable
<1>3. Silent(When(id = "XOSC", Do("xoscConfig", "XOSC")))
  BY <1>1, SilentNothing DEF When
<1>4. Silent(OscEnable(id))
  BY <1>2, <1>3, SilentConcat DEF OscEnable
<1> QED BY <1>1, <1>2, <1>4, SilentConcat DEF OscStart

LEMMA SilentRc32Start ==
  ASSUME NEW c PROVE Silent(Rc32Start(c))
<1>1. Silent(Do("reference", "ref")) /\ Silent(Do("dfll", TRUE))
  BY SilentDo DEF Plain
<1>2. Silent(Do("reference", "ref") \o Do("dfll", TRUE))
  BY <1>1, SilentConcat
<1>3. Silent(OscEnableAutocalibration)
  BY <1>2, SilentCritical DEF OscEnableAutocalibration
<1>4. Silent(When(c.ref # "USBSOF", OscStart(c.ref)))
  BY SilentOsc, SilentNothing DEF When
<1>5. Silent(When(c.ref # "USBSOF", OscStart(c.ref)) \o OscEnableAutocalibration)
  BY <1>3, <1>4, SilentConcat
<1>6. Silent(When(c.ref # "none",
                  When(c.ref # "USBSOF", OscStart(c.ref)) \o OscEnableAutocalibration))
  <2> DEFINE p == When(c.ref # "USBSOF", OscStart(c.ref)) \o OscEnableAutocalibration
  <2>1. Silent(p)
    BY <1>5
  <2> HIDE DEF p
  <2>2. Silent(When(c.ref # "none", p))
    BY <2>1, SilentNothing DEF When
  <2> QED BY <2>2 DEF p
<1>7. Silent(OscStart("RC32MHZ"))
  BY SilentOsc
<1> QED BY <1>6, <1>7, SilentConcat DEF Rc32Start

\* The configurations of the program.
LEMMA ConfigOfProgram ==
  ASSUME NEW c \in Configs
  PROVE  /\ c \in Configuration
         /\ "PLL" \in {c.source, c.usb} => c.pll.source \in {"RC2MHZ", "RC32MHZ", "XOSC"}
<1>1. c \in Configuration /\ ("PLL" \in {c.source, c.usb} => c.pll # NoPll)
  BY ConfigsAssumption
<1> QED BY <1>1 DEF Configuration, NoPll

LEMMA SilentPll ==
  ASSUME NEW c, c.pll.source \in {"RC2MHZ", "RC32MHZ", "XOSC"}
  PROVE  Silent(PllEnableConfigDefaults(c))
<1>1. Silent(PllEnableSource(c))
  <2>1. CASE c.pll.source = "RC2MHZ"
    BY <2>1, SilentNothing DEF PllEnableSource
  <2>2. CASE c.pll.source = "RC32MHZ"
    <3>1. Silent(UnlessReady("RC32MHZ", Rc32Start(c)))
      BY SilentRc32Start, SilentUnlessReady
    <3> QED BY <2>2, <3>1 DEF PllEnableSource
  <2>3. CASE c.pll.source = "XOSC"
    <3>1. Silent(UnlessReady("XOSC", OscStart("XOSC")))
      BY SilentOsc, SilentUnlessReady
    <3> QED BY <2>3, <3>1 DEF PllEnableSource
  <2> QED BY <2>1, <2>2, <2>3
<1>2. /\ Silent(Do("pllConfig", "PLL0")) /\ Silent(Do("oscOn", "PLL"))
      /\ Silent(Do("waitReady", "PLL"))
  BY SilentDo DEF Plain
<1>3. Silent(Critical(Do("pllConfig", "PLL0") \o Do("oscOn", "PLL")))
  BY <1>2, SilentConcat, SilentCritical
<1>4. Silent(PllEnableSource(c) \o Critical(Do("pllConfig", "PLL0") \o Do("oscOn", "PLL")))
  BY <1>1, <1>3, SilentConcat
<1>5. Silent(PllEnableSource(c) \o Critical(Do("pllConfig", "PLL0") \o Do("oscOn", "PLL"))
             \o Do("waitReady", "PLL"))
  BY <1>2, <1>4, SilentConcat
<1> QED BY <1>5, SilentUnlessReady DEF PllEnableConfigDefaults

LEMMA SilentSysclkInit ==
  ASSUME NEW c \in Configs PROVE Silent(SysclkInit(c))
<1>1. /\ Silent(Do("gateAll", "PR")) /\ Silent(Do("prescale", "PSCTRL"))
      /\ Silent(Do("calibrate", "RC32MHZ")) /\ Silent(Do("select", "CTRL"))
  BY SilentDo DEF Plain
<1>2. Silent(StartSource(c))
  <2>1. c \in Configuration
    BY ConfigOfProgram
  <2>2. c.source \in Oscillator
    BY <2>1 DEF Configuration
  <2>3. CASE c.source = "RC2MHZ"
    BY <2>3, SilentNothing DEF StartSource
  <2>4. CASE c.source = "RC32MHZ"
    BY <2>4, SilentRc32Start DEF StartSource
  <2>5. CASE c.source \in {"RC32KHZ", "XOSC"}
    BY <2>5, SilentOsc DEF StartSource
  <2>6. CASE c.source = "PLL"
    <3>1. c.pll.source \in {"RC2MHZ", "RC32MHZ", "XOSC"}
      BY <2>6, ConfigOfProgram
    <3>2. Silent(PllEnableConfigDefaults(c))
      BY <3>1, SilentPll
    <3> QED BY <2>6, <3>2 DEF StartSource
  <2> QED BY <2>2, <2>3, <2>4, <2>5, <2>6 DEF Oscillator
<1>3. Silent(When(c.psa # 0 \/ c.psbc # 0, Do("prescale", "PSCTRL")))
  BY <1>1, SilentNothing DEF When
<1>4. Silent(When(c.rc32 = 48000000, Do("calibrate", "RC32MHZ")))
  BY <1>1, SilentNothing DEF When
<1>5. Silent(When(c.source # "RC2MHZ", Do("select", "CTRL")))
  BY <1>1, SilentNothing DEF When
<1>6. Silent(When(~NeedRc2Mhz(c), OscDisable("RC2MHZ")))
  BY SilentOsc, SilentNothing DEF When
<1> DEFINE p1 == Do("gateAll", "PR") \o When(c.psa # 0 \/ c.psbc # 0, Do("prescale", "PSCTRL"))
           p2 == p1 \o When(c.rc32 = 48000000, Do("calibrate", "RC32MHZ"))
           p3 == p2 \o StartSource(c)
           p4 == p3 \o When(c.source # "RC2MHZ", Do("select", "CTRL"))
<1>7. Silent(p1)
  BY <1>1, <1>3, SilentConcat
<1>8. Silent(p2)
  <2> HIDE DEF p1
  <2> QED BY <1>4, <1>7, SilentConcat
<1>9. Silent(p3)
  <2> HIDE DEF p2
  <2> QED BY <1>2, <1>8, SilentConcat
<1>10. Silent(p4)
  <2> HIDE DEF p3
  <2> QED BY <1>5, <1>9, SilentConcat
<1>11. Silent(p4 \o When(~NeedRc2Mhz(c), OscDisable("RC2MHZ")))
  <2> HIDE DEF p4
  <2> QED BY <1>6, <1>10, SilentConcat
<1> QED BY <1>11 DEF SysclkInit

LEMMA SilentModule ==
  ASSUME NEW gate
  PROVE  Silent(SysclkEnableModule(gate)) /\ Silent(SysclkDisableModule(gate))
<1>1. Silent(Do("ungate", gate)) /\ Silent(Do("gate", gate))
  BY SilentDo DEF Plain
<1> QED BY <1>1, SilentCritical DEF SysclkEnableModule, SysclkDisableModule

LEMMA SilentUsbClock ==
  ASSUME NEW c \in Configs PROVE Silent(SysclkEnableUsb(c)) /\ Silent(SysclkDisableUsb)
<1>1. \A id : Silent(Do("usbClock", id))
  BY SilentDo DEF Plain
<1> DEFINE p == IF c.usb = "RCOSC" THEN UnlessReady("RC32MHZ", Rc32Start(c))
                                   ELSE PllEnableConfigDefaults(c)
           id == IF c.usb = "RCOSC" THEN "RC32MHZ" ELSE "PLL"
<1>2. Silent(p)
  <2>1. CASE c.usb = "RCOSC"
    BY <2>1, SilentRc32Start, SilentUnlessReady
  <2>2. CASE c.usb # "RCOSC"
    <3>1. c \in Configuration
      BY ConfigOfProgram
    <3>2. c.usb = "PLL"
      BY <2>2, <3>1 DEF Configuration
    <3>3. c.pll.source \in {"RC2MHZ", "RC32MHZ", "XOSC"}
      BY <3>2, ConfigOfProgram
    <3>4. Silent(PllEnableConfigDefaults(c))
      BY <3>3, SilentPll
    <3> QED BY <2>2, <3>4
  <2> QED BY <2>1, <2>2
<1>3. Silent(p \o Do("usbClock", id))
  <2> HIDE DEF p, id
  <2> QED BY <1>1, <1>2, SilentConcat
<1>4. Silent(p \o Do("usbClock", id) \o SysclkEnableModule(UsbGate))
  <2> HIDE DEF p, id
  <2> QED BY <1>3, SilentModule, SilentConcat
<1> QED BY <1>1, <1>4, SilentModule, SilentConcat DEF SysclkEnableUsb, SysclkDisableUsb

LEMMA SilentRtc ==
  ASSUME NEW id PROVE Silent(SysclkRtcsrcEnable(id)) /\ Silent(SysclkRtcsrcDisable)
<1>1. Silent(Do("rtcClock", id)) /\ Silent(Do("rtcClock", "off"))
  BY SilentDo DEF Plain
<1>2. Silent(When(RtcOscillator[id] # "ULP", OscStart(RtcOscillator[id])))
  BY SilentOsc, SilentNothing DEF When
<1> QED BY <1>1, <1>2, SilentConcat DEF SysclkRtcsrcEnable, SysclkRtcsrcDisable

LEMMA SilentIoInit == Silent(IoInit)
<1>1. \A p : Silent(Do("port", p))
  BY SilentDo DEF Plain
<1> QED BY <1>1, SilentConcat DEF IoInit

\* No configuration lets the USB clock take longer than 10 ms to start, by the
\* arithmetic of the preprocessor.
LEMMA SuspendMode ==
  ASSUME NEW c \in Configs PROVE UsbSuspendMode(c) = "PDOWN"
<1>1. c \in Configuration
  BY ConfigOfProgram
<1>2. c.xosc \in {BoardXosc, [type |-> "XTAL", hz |-> 8000000, us |-> 1000],
                  [type |-> "XTAL", hz |-> 2000000, us |-> 500]}
  BY <1>1 DEF Configuration
<1>3. XoscStartupTimeout(c.xosc) = 0
  <2>1. CASE c.xosc = BoardXosc
    BY <2>1 DEF XoscStartupTimeout, BoardXosc
  <2>2. ASSUME c.xosc.type = "XTAL", c.xosc.hz \in {8000000, 2000000}
        PROVE  XoscStartupTimeout(c.xosc) = 0
    <3>1. 1000000 \div c.xosc.hz = 0
      BY <2>2
    <3>2. XoscStartup(c.xosc) \in Nat
      BY DEF XoscStartup
    <3>3. XoscStartupTimeout(c.xosc) = XoscStartup(c.xosc) * (1000000 \div c.xosc.hz)
      BY <2>2 DEF XoscStartupTimeout
    <3> QED BY <3>1, <3>2, <3>3
  <2> QED BY <1>2, <2>1, <2>2
<1> QED BY <1>3 DEF UsbSuspendMode, UsbclkStartupTimeout

LEMMA RunsLockPdown ==
  ASSUME NEW x \in Label, x.cpu = "runs", x.depth > 0
  PROVE  Runs(SleepmgrLockMode("PDOWN"), x, [x EXCEPT !.down = @ + 1])
<1> DEFINE y == [x EXCEPT !.down = @ + 1]
<1>1. y \in Label /\ y.cpu = "runs" /\ Entered(x) \in Label /\ Entered(y) \in Label
  <2>1. y \in Label
    BY DEF Label
  <2>2. y.cpu = "runs"
    BY DEF Label
  <2> HIDE DEF y
  <2> QED BY <2>1, <2>2, EnteredLabel
<1>2. Entered(y) = [Entered(x) EXCEPT !.down = @ + 1] /\ Entered(x).depth > 0
  <2>1. Entered(y) = [Entered(x) EXCEPT !.down = @ + 1]
    BY DEF Label, Entered
  <2> QED BY <2>1, EnteredLabel
<1>3. Step(Entered(x), <<"lock", "PDOWN">>, Entered(y))
  BY <1>1, <1>2, EnteredLabel DEF Step, StepLocks
<1>4. Runs(Do("lock", "PDOWN"), Entered(x), Entered(y))
  BY <1>1, <1>3, RunsDo
<1> QED BY <1>1, <1>4, RunsCritical DEF SleepmgrLockMode

LEMMA RunsUnlockPdown ==
  ASSUME NEW x \in Label, x.cpu = "runs", x.depth > 0, x.down > 0
  PROVE  Runs(SleepmgrUnlockMode("PDOWN"), x, [x EXCEPT !.down = @ - 1])
<1> DEFINE y == [x EXCEPT !.down = @ - 1]
<1>1. y \in Label /\ y.cpu = "runs" /\ Entered(x) \in Label /\ Entered(y) \in Label
  <2>1. y \in Label
    BY DEF Label
  <2>2. y.cpu = "runs"
    BY DEF Label
  <2> HIDE DEF y
  <2> QED BY <2>1, <2>2, EnteredLabel
<1>2. /\ Entered(y) = [Entered(x) EXCEPT !.down = @ - 1]
      /\ Entered(x).depth > 0 /\ Entered(x).down > 0
  <2>1. Entered(y) = [Entered(x) EXCEPT !.down = @ - 1]
    BY DEF Label, Entered
  <2> QED BY <2>1, EnteredLabel
<1>3. Step(Entered(x), <<"unlock", "PDOWN">>, Entered(y))
  BY <1>1, <1>2, EnteredLabel DEF Step, StepLocks
<1>4. Runs(Do("unlock", "PDOWN"), Entered(x), Entered(y))
  BY <1>1, <1>3, RunsDo
<1>5. Runs(Critical(Do("unlock", "PDOWN")), x, y)
  BY <1>1, <1>4, RunsCritical
<1>6. Step(x, <<"mustBeLocked", "PDOWN">>, x)
  BY DEF Step, StepLocks
<1>7. Runs(Do("mustBeLocked", "PDOWN"), x, x)
  BY <1>6, RunsDo
<1> QED BY <1>5, <1>7, RunsConcat DEF SleepmgrUnlockMode

LEMMA RunsLockActive ==
  ASSUME NEW x \in Label, x.cpu = "runs"
  PROVE  Runs(SleepmgrLockMode("ACTIVE"), x, [x EXCEPT !.active = @ + 1])
<1> DEFINE y == [x EXCEPT !.active = @ + 1]
<1>1. y \in Label /\ y.cpu = "runs" /\ Entered(x) \in Label /\ Entered(y) \in Label
  <2>1. y \in Label
    BY DEF Label, Visible
  <2>2. y.cpu = "runs"
    BY DEF Label
  <2> HIDE DEF y
  <2> QED BY <2>1, <2>2, EnteredLabel
<1>2. Entered(y) = [Entered(x) EXCEPT !.active = @ + 1]
  BY DEF Label, Entered
<1>3. Step(Entered(x), <<"lock", "ACTIVE">>, Entered(y))
  BY <1>1, <1>2, EnteredLabel DEF Step, StepLocks
<1>4. Runs(Do("lock", "ACTIVE"), Entered(x), Entered(y))
  BY <1>1, <1>3, RunsDo
<1> QED BY <1>1, <1>4, RunsCritical DEF SleepmgrLockMode

LEMMA RunsUnlockActive ==
  ASSUME NEW x \in Label, x.cpu = "runs", x.active > 0
  PROVE  Runs(SleepmgrUnlockMode("ACTIVE"), x, [x EXCEPT !.active = @ - 1])
<1> DEFINE y == [x EXCEPT !.active = @ - 1]
<1>1. y \in Label /\ y.cpu = "runs" /\ Entered(x) \in Label /\ Entered(y) \in Label
  <2>1. y \in Label
    BY DEF Label, Visible
  <2>2. y.cpu = "runs"
    BY DEF Label
  <2> HIDE DEF y
  <2> QED BY <2>1, <2>2, EnteredLabel
<1>2. Entered(y) = [Entered(x) EXCEPT !.active = @ - 1] /\ Entered(x).active > 0
  <2>1. Entered(y) = [Entered(x) EXCEPT !.active = @ - 1]
    BY DEF Label, Entered
  <2> QED BY <2>1, EnteredLabel
<1>3. Step(Entered(x), <<"unlock", "ACTIVE">>, Entered(y))
  BY <1>1, <1>2, EnteredLabel DEF Step, StepLocks
<1>4. Runs(Do("unlock", "ACTIVE"), Entered(x), Entered(y))
  BY <1>1, <1>3, RunsDo
<1>5. Runs(Critical(Do("unlock", "ACTIVE")), x, y)
  BY <1>1, <1>4, RunsCritical
<1>6. Step(x, <<"mustBeLocked", "ACTIVE">>, x)
  BY DEF Step, StepLocks
<1>7. Runs(Do("mustBeLocked", "ACTIVE"), x, x)
  BY <1>6, RunsDo
<1> QED BY <1>5, <1>7, RunsConcat DEF SleepmgrUnlockMode

LEMMA RunsUddAttach ==
  ASSUME NEW x \in Label, x.cpu = "runs", x.depth > 0, x.driver = "set"
  PROVE  Runs(UddAttach, x, [x EXCEPT !.driver = "up"])
<1> DEFINE y == [x EXCEPT !.driver = "up"]
<1>1. y \in Label /\ y.cpu = "runs" /\ Entered(x) \in Label /\ Entered(y) \in Label
  <2>1. y \in Label
    BY DEF Label
  <2>2. y.cpu = "runs"
    BY DEF Label
  <2> HIDE DEF y
  <2> QED BY <2>1, <2>2, EnteredLabel
<1>2. /\ Entered(y) = [Entered(x) EXCEPT !.driver = "up"]
      /\ Entered(x).driver = "set" /\ Entered(x).depth > 0
  <2>1. Entered(y) = [Entered(x) EXCEPT !.driver = "up"]
    BY DEF Label, Entered
  <2> QED BY <2>1, EnteredLabel
<1>3. Step(Entered(x), <<"uddSleepMode", TRUE>>, Entered(x))
  BY <1>1, <1>2 DEF Step, StepDriver
<1>4. Step(Entered(x), <<"attach", "USB">>, Entered(y))
  BY <1>1, <1>2 DEF Step, StepDriver
<1>5. Runs(Do("uddSleepMode", TRUE), Entered(x), Entered(x))
  BY <1>1, <1>3, RunsDo
<1>6. Runs(Do("attach", "USB"), Entered(x), Entered(y))
  BY <1>1, <1>4, RunsDo
<1>7. Runs(Do("uddSleepMode", TRUE) \o Do("attach", "USB"), Entered(x), Entered(y))
  BY <1>5, <1>6, RunsConcat
<1> QED BY <1>1, <1>7, RunsCritical DEF UddAttach

\* udd_enable on a stopped driver attaches it, in one critical section.
LEMMA RunsUddEnable ==
  ASSUME NEW c \in Configs, NEW x \in Label,
         x.cpu = "runs", x.depth = 0, x.driver = "off", x.down = 1
  PROVE  Runs(UddEnable(c), x, [x EXCEPT !.driver = "up", !.down = 2])
<1> DEFINE y == [x EXCEPT !.driver = "up", !.down = 2]
           x0 == Entered(x)
           x1 == [x0 EXCEPT !.driver = "set"]
           x2 == [x1 EXCEPT !.down = @ + 1]
           x3 == [x2 EXCEPT !.driver = "up"]
<1>1. y \in Label /\ y.cpu = "runs"
  BY DEF Label, Visible
<1>2. /\ x0 \in Label /\ x0.depth > 0 /\ x0.cpu = "runs" /\ x0.driver = "off"
      /\ x1 \in Label /\ x1.depth > 0 /\ x1.cpu = "runs"
      /\ x2 \in Label /\ x2.depth > 0 /\ x2.cpu = "runs" /\ x2.driver = "set"
      /\ x3 = Entered(y)
  <2>1. x0 \in Label /\ x0.depth > 0 /\ x0.cpu = "runs" /\ x0.driver = "off"
    BY EnteredLabel
  <2>2. x3 = Entered(y)
    <3> DEFINE d == x.depth + 1
    <3>1. x.down + 1 = 2
      OBVIOUS
    <3>2. x3 = [x EXCEPT !.depth = d, !.driver = "up", !.down = x.down + 1]
      BY DEF Label, Entered
    <3>3. Entered(y) = [x EXCEPT !.depth = d, !.driver = "up", !.down = 2]
      BY DEF Label, Entered
    <3> QED BY <3>1, <3>2, <3>3
  <2> HIDE DEF x0
  <2>3. x1 \in Label /\ x1.depth > 0 /\ x1.cpu = "runs" /\ x1.driver = "set"
    BY <2>1 DEF Label
  <2> HIDE DEF x1
  <2>4. x2 \in Label /\ x2.depth > 0 /\ x2.cpu = "runs" /\ x2.driver = "set"
    BY <2>3 DEF Label
  <2> QED BY <2>1, <2>2, <2>3, <2>4
<1> HIDE DEF x0
<1>3. Runs(Do("driverReset", "USB"), x0, x1)
  <2>1. Step(x0, <<"driverReset", "USB">>, x1)
    BY <1>2 DEF Step, StepDriver
  <2> QED BY <1>2, <2>1, RunsDo
<1>4. Runs(SleepmgrLockMode(UsbSuspendMode(c)), x1, x2)
  <2> HIDE DEF x1
  <2>1. Runs(SleepmgrLockMode("PDOWN"), x1, x2)
    BY <1>2, RunsLockPdown
  <2> QED BY <2>1, SuspendMode
<1>5. Runs(UddAttach, x2, x3)
  <2> HIDE DEF x2
  <2> QED BY <1>2, RunsUddAttach
<1> HIDE DEF x1, x2, x3, y
<1>6. Runs(Do("driverReset", "USB") \o SleepmgrLockMode(UsbSuspendMode(c)), x0, x2)
  BY <1>3, <1>4, RunsConcat
<1>7. Runs(Do("driverReset", "USB") \o SleepmgrLockMode(UsbSuspendMode(c)) \o UddAttach,
           Entered(x), Entered(y))
  BY <1>2, <1>5, <1>6, RunsConcat DEF x0
<1>8. Runs(Critical(Do("driverReset", "USB") \o SleepmgrLockMode(UsbSuspendMode(c))
                    \o UddAttach), x, y)
  BY <1>1, <1>7, RunsCritical
<1>9. Silent(Do("dfll", FALSE)) /\ Silent(Do("dfll", TRUE))
  BY SilentDo DEF Plain
<1>10. /\ Silent(When(c.ref = "USBSOF", Do("dfll", FALSE)))
       /\ Silent(When(c.ref = "USBSOF", Do("dfll", TRUE)))
  BY <1>9, SilentNothing DEF When
<1> DEFINE p == When(c.ref = "USBSOF", Do("dfll", FALSE)) \o SysclkEnableUsb(c)
                \o When(c.ref = "USBSOF", Do("dfll", TRUE))
<1>11. Silent(p)
  <2>1. Silent(When(c.ref = "USBSOF", Do("dfll", FALSE)) \o SysclkEnableUsb(c))
    BY <1>10, SilentUsbClock, SilentConcat
  <2> QED BY <1>10, <2>1, SilentConcat
<1>12. Runs(p, x, x)
  BY <1>11 DEF Silent
<1>13. Runs(p \o Critical(Do("driverReset", "USB") \o SleepmgrLockMode(UsbSuspendMode(c))
                         \o UddAttach), x, y)
  <2> HIDE DEF p
  <2> QED BY <1>8, <1>12, RunsConcat
<1> QED BY <1>13 DEF UddEnable, y

\* udd_disable detaches the driver and gives its locks back.
LEMMA RunsUddDisable ==
  ASSUME NEW c \in Configs, NEW x \in Label,
         x.cpu = "runs", x.depth = 0, x.driver = "up", x.down = 2
  PROVE  Runs(UddDisable(c), x, [x EXCEPT !.driver = "off", !.down = 1])
<1> DEFINE y == [x EXCEPT !.driver = "off", !.down = 1]
           x0 == Entered(x)
           x1 == [x0 EXCEPT !.driver = "leaving"]
           x2 == [x1 EXCEPT !.driver = "off"]
           x3 == [x2 EXCEPT !.down = @ - 1]
<1>1. y \in Label /\ y.cpu = "runs"
  BY DEF Label, Visible
<1>2. /\ x0 \in Label /\ x0.depth > 0 /\ x0.cpu = "runs" /\ x0.driver = "up"
      /\ x1 \in Label /\ x1.depth > 0 /\ x1.cpu = "runs" /\ x1.driver = "leaving"
      /\ x2 \in Label /\ x2.depth > 0 /\ x2.cpu = "runs" /\ x2.down > 0
      /\ x3 = Entered(y)
  <2>1. /\ x0 \in Label /\ x0.depth > 0 /\ x0.cpu = "runs" /\ x0.driver = "up"
        /\ x0.down = 2
    BY EnteredLabel
  <2>2. x3 = Entered(y)
    <3> DEFINE d == x.depth + 1
    <3>1. x.down - 1 = 1
      OBVIOUS
    <3>2. x3 = [x EXCEPT !.depth = d, !.driver = "off", !.down = x.down - 1]
      BY DEF Label, Entered
    <3>3. Entered(y) = [x EXCEPT !.depth = d, !.driver = "off", !.down = 1]
      BY DEF Label, Entered
    <3> QED BY <3>1, <3>2, <3>3
  <2> HIDE DEF x0
  <2>3. /\ x1 \in Label /\ x1.depth > 0 /\ x1.cpu = "runs" /\ x1.driver = "leaving"
        /\ x1.down = 2
    BY <2>1 DEF Label
  <2> HIDE DEF x1
  <2>4. x2 \in Label /\ x2.depth > 0 /\ x2.cpu = "runs" /\ x2.down = 2
    BY <2>3 DEF Label
  <2> QED BY <2>1, <2>2, <2>3, <2>4
<1> HIDE DEF x0
<1>3. Runs(Do("detach", "USB"), x0, x1)
  <2>1. Step(x0, <<"detach", "USB">>, x1)
    BY <1>2 DEF Step, StepDriver
  <2> QED BY <1>2, <2>1, RunsDo
<1>4. Runs(SysclkDisableUsb, x1, x1)
  BY <1>2, SilentUsbClock DEF Silent
<1>5. Runs(Do("uddSleepMode", FALSE), x1, x2)
  <2> HIDE DEF x1
  <2>1. Step(x1, <<"uddSleepMode", FALSE>>, x2)
    BY <1>2 DEF Step, StepDriver
  <2> QED BY <1>2, <2>1, RunsDo
<1>6. Runs(SleepmgrUnlockMode(UsbSuspendMode(c)), x2, x3)
  <2> HIDE DEF x2
  <2>1. Runs(SleepmgrUnlockMode("PDOWN"), x2, x3)
    BY <1>2, RunsUnlockPdown
  <2> QED BY <2>1, SuspendMode
<1> HIDE DEF x1, x2, x3, y
<1>7. Runs(Do("detach", "USB") \o SysclkDisableUsb, x0, x1)
  BY <1>3, <1>4, RunsConcat
<1>8. Runs(Do("detach", "USB") \o SysclkDisableUsb \o Do("uddSleepMode", FALSE), x0, x2)
  BY <1>5, <1>7, RunsConcat
<1>9. Runs(Do("detach", "USB") \o SysclkDisableUsb \o Do("uddSleepMode", FALSE)
           \o SleepmgrUnlockMode(UsbSuspendMode(c)), Entered(x), Entered(y))
  BY <1>2, <1>6, <1>8, RunsConcat DEF x0
<1>10. Runs(UddDisable(c), x, y)
  BY <1>1, <1>9, RunsCritical DEF UddDisable
<1> QED BY <1>10 DEF y

\* The way to sleep in the mode with number k, and back.
LEMMA RunsSleepIn ==
  ASSUME NEW x \in Label, x.cpu = "runs", x.depth = 0, NEW k \in 2..6
  PROVE  Runs(SleepIn(k), [x EXCEPT !.cpu = "chosen", !.mode = k], x)
<1> DEFINE x1 == [x EXCEPT !.cpu = "chosen", !.mode = k]
           x2 == [x1 EXCEPT !.cpu = "loaded"]
           x3 == [x2 EXCEPT !.cpu = "armed"]
           x4 == [x3 EXCEPT !.cpu = "entered"]
<1>1. x1 \in Label /\ x1.cpu = "chosen" /\ x1.mode = k
  <2>1. x1.cpu = "chosen" /\ x1.mode = k /\ x1.depth = 0
    BY DEF Label
  <2>2. x1.driver = x.driver /\ x1.down = x.down /\ Visible(x)
    BY DEF Label
  <2>3. x1 \in [depth : Nat, driver : {"off", "set", "up", "leaving"},
                down : Nat, active : Nat,
                cpu : {"runs", "masked", "chosen", "loaded", "armed", "entered"},
                mode : 1..6]
    <3>1. k \in 1..6
      OBVIOUS
    <3>2. [x EXCEPT !.mode = k] \in [depth : Nat, driver : {"off", "set", "up", "leaving"},
            down : Nat, active : Nat,
            cpu : {"runs", "masked", "chosen", "loaded", "armed", "entered"}, mode : 1..6]
      BY <3>1 DEF Label
    <3>3. x1 = [[x EXCEPT !.mode = k] EXCEPT !.cpu = "chosen"]
      BY DEF Label
    <3> QED BY <3>2, <3>3
  <2> HIDE DEF x1
  <2> QED BY <2>1, <2>2, <2>3 DEF Label, Visible
<1>2. x2 \in Label /\ x2.cpu = "loaded"
  <2> HIDE DEF x1
  <2> QED BY <1>1 DEF Label, Visible
<1>3. x3 \in Label /\ x3.cpu = "armed"
  <2> HIDE DEF x2
  <2> QED BY <1>2 DEF Label, Visible
<1>4. x4 \in Label /\ x4.cpu = "entered"
  <2> HIDE DEF x3
  <2> QED BY <1>3 DEF Label, Visible
<1>5. x = [x4 EXCEPT !.cpu = "runs", !.mode = 1]
  <2>1. [x4 EXCEPT !.cpu = "runs", !.mode = 1] = [x EXCEPT !.cpu = "runs", !.mode = 1]
    BY DEF Label
  <2>2. x = [x EXCEPT !.cpu = "runs", !.mode = 1]
    BY DEF Label
  <2> QED BY <2>1, <2>2
<1> HIDE DEF x1, x4
<1>6. SleepmgrConfigs[k - 1] = Mode[k]
  BY DEF SleepmgrConfigs, Mode
<1>7. Runs(Do("sleepMode", SleepmgrConfigs[k - 1]), x1, x2)
  <2>1. Step(x1, <<"sleepMode", Mode[k]>>, x2)
    BY <1>1, <1>2 DEF Step, StepSleep
  <2> HIDE DEF x2
  <2>2. Runs(Do("sleepMode", Mode[k]), x1, x2)
    BY <1>1, <2>1, RunsDo
  <2> QED BY <1>6, <2>2
<1> HIDE DEF x2
<1>8. Runs(Do("sleepEnabled", TRUE), x2, x3)
  <2>1. Step(x2, <<"sleepEnabled", TRUE>>, x3)
    BY <1>2, <1>3 DEF Step, StepSleep
  <2> HIDE DEF x3
  <2> QED BY <1>2, <2>1, RunsDo
<1> HIDE DEF x3
<1>9. Runs(Do("sleepEnter", "SREG"), x3, x4)
  <2>1. Step(x3, <<"sleepEnter", "SREG">>, x4)
    BY <1>3, <1>4 DEF Step, StepSleep, x4
  <2> QED BY <1>3, <2>1, RunsDo
<1>10. Runs(Do("sleepEnabled", FALSE), x4, x)
  <2>1. Step(x4, <<"sleepEnabled", FALSE>>, x)
    BY <1>4, <1>5 DEF Step, StepSleep
  <2> QED BY <1>4, <2>1, RunsDo
<1> DEFINE p == Do("sleepMode", SleepmgrConfigs[k - 1])
<1>11. Runs(p \o Do("sleepEnabled", TRUE), x1, x3)
  <2> HIDE DEF p
  <2> QED BY <1>7, <1>8, RunsConcat DEF p
<1>12. Runs(p \o Do("sleepEnabled", TRUE) \o Do("sleepEnter", "SREG"), x1, x4)
  <2> HIDE DEF p
  <2> QED BY <1>9, <1>11, RunsConcat
<1>13. Runs(p \o Do("sleepEnabled", TRUE) \o Do("sleepEnter", "SREG")
            \o Do("sleepEnabled", FALSE), x1, x)
  <2> HIDE DEF p
  <2> QED BY <1>10, <1>12, RunsConcat
<1> QED BY <1>13 DEF SleepIn, x1

\* The choice of a mode, of which each has a way back.
LEMMA RunsChoose ==
  ASSUME NEW m \in Label, m.cpu = "masked", m.down > 0, NEW y,
         Runs(Do("irqOn", "SREG"), m, y),
         \A k \in 2..6 : Runs(SleepIn(k), [m EXCEPT !.cpu = "chosen", !.mode = k], y)
  PROVE  Runs(Do("chooseMode", "SLEEP"), m, y)
<1> DEFINE i == <<"chooseMode", "SLEEP">>
           At(k) == [m EXCEPT !.cpu = "chosen", !.mode = k]
           RU(k) == CHOOSE w : <<SleepIn(k), At(k), y>> \in w[1] /\ Closed(w[1], w[2])
<1>1. PICK R0, U0 : <<Do("irqOn", "SREG"), m, y>> \in R0 /\ Closed(R0, U0)
  BY DEF Runs
<1>2. ASSUME NEW k \in 2..6
      PROVE  <<SleepIn(k), At(k), y>> \in RU(k)[1] /\ Closed(RU(k)[1], RU(k)[2])
  <2>1. PICK R, U : <<SleepIn(k), At(k), y>> \in R /\ Closed(R, U)
    BY DEF Runs
  <2>2. <<R, U>>[1] = R /\ <<R, U>>[2] = U
    OBVIOUS
  <2>3. \E w : <<SleepIn(k), At(k), y>> \in w[1] /\ Closed(w[1], w[2])
    <3> HIDE DEF At
    <3> WITNESS <<R, U>>
    <3> QED BY <2>1, <2>2
  <2> QED BY <2>3
<1> HIDE DEF RU
<1> DEFINE US == U0 \cup UNION {RU(k)[2] : k \in 2..6}
           U == US \cup {i}
           RC == R0 \cup UNION {RU(k)[1] : k \in 2..6}
           R == RC \cup {<< <<i>>, m, y>>}
<1>3. \A k \in 2..6 : RU(k)[2] \subseteq U
  OBVIOUS
<1>4. Closed(R0, U) /\ \A k \in 2..6 : Closed(RU(k)[1], U)
  <2> HIDE DEF U
  <2>1. U0 \subseteq U
    BY DEF U
  <2> QED BY <1>1, <1>2, <1>3, <2>1, ClosedMonotonic
<1>5. <<i>> \in Seq(U) /\ <<i>> # <<>> /\ Head(<<i>>) = i /\ Tail(<<i>>) = <<>>
  <2> HIDE DEF i, US
  <2>1. {i} \subseteq U
    OBVIOUS
  <2> HIDE DEF U
  <2> QED BY <2>1, OneInstruction, SeqMonotonic
<1>6. i[1] = "chooseMode"
  OBVIOUS
<1>7. /\ R0 \subseteq RC /\ \A k \in 2..6 : RU(k)[1] \subseteq RC
      /\ RC \subseteq R
  OBVIOUS
<1>8. \A s \in RC : s \in R0 \/ \E k \in 2..6 : s \in RU(k)[1]
  OBVIOUS
<1> HIDE DEF U, i, RC
<1>9. ASSUME NEW b, NEW z, Branch(m, i, b, z)
      PROVE  b \in Seq(U) /\ <<b \o <<>>, z, y>> \in RC
  <2>1. CASE b = Do("irqOn", "SREG") /\ z = m
    <3>1. b \in Seq(U)
      BY <1>1, <1>4, <2>1 DEF Closed
    <3>2. b \o <<>> = b
      BY <3>1, ConcatEmptySeq
    <3> QED BY <1>1, <1>7, <2>1, <3>1, <3>2
  <2>2. ASSUME NEW k \in 2..6, b = SleepIn(k), z = At(k)
        PROVE  b \in Seq(U) /\ <<b \o <<>>, z, y>> \in RC
    <3> HIDE DEF At
    <3>1. <<b, z, y>> \in RU(k)[1] /\ Closed(RU(k)[1], U)
      BY <1>2, <1>4, <2>2
    <3>2. b \in Seq(U)
      BY <3>1 DEF Closed
    <3>3. b \o <<>> = b
      BY <3>2, ConcatEmptySeq
    <3> QED BY <1>7, <3>1, <3>2, <3>3
  <2>3. \/ b = Do("irqOn", "SREG") /\ z = m
        \/ \E k \in 2..6 : b = SleepIn(k) /\ z = At(k)
    BY <1>6, <1>9 DEF Branch
  <2> QED BY <2>1, <2>2, <2>3
<1>10. Chooses(m, i)
  BY <1>6 DEF Chooses
<1> HIDE DEF At
<1>11. ASSUME NEW S, S \in {R0} \cup {RU(k)[1] : k \in 2..6},
              NEW t, NEW w, NEW v, <<t, w, v>> \in S
       PROVE  /\ t \in Seq(U) /\ w \in Label
              /\ \/ t = <<>> /\ w = v
                 \/ /\ t # <<>>
                    /\ \/ Chooses(w, Head(t))
                       \/ \E u : Step(w, Head(t), u) /\ <<Tail(t), u, v>> \in R
                    /\ \A b, u : Branch(w, Head(t), b, u) =>
                         b \in Seq(U) /\ <<b \o Tail(t), u, v>> \in R
  <2>1. Closed(S, U)
    BY <1>4, <1>11
  <2>2. S \subseteq R
    BY <1>7, <1>11
  <2> HIDE DEF R
  <2> QED BY <1>11, <2>1, <2>2 DEF Closed
<1>12. Closed(R, U)
  <2> SUFFICES ASSUME NEW t, NEW w, NEW v, <<t, w, v>> \in R
               PROVE  /\ t \in Seq(U) /\ w \in Label
                      /\ \/ t = <<>> /\ w = v
                         \/ /\ t # <<>>
                            /\ \/ Chooses(w, Head(t))
                               \/ \E u : Step(w, Head(t), u) /\ <<Tail(t), u, v>> \in R
                            /\ \A b, u : Branch(w, Head(t), b, u) =>
                                 b \in Seq(U) /\ <<b \o Tail(t), u, v>> \in R
    BY DEF Closed
  <2>1. CASE <<t, w, v>> \in RC
    <3>1. PICK S \in {R0} \cup {RU(k)[1] : k \in 2..6} : <<t, w, v>> \in S
      BY <1>8, <2>1
    <3> HIDE DEF R
    <3> QED BY <1>11, <3>1
  <2>2. CASE t = <<i>> /\ w = m /\ v = y
    BY <1>5, <1>7, <1>9, <1>10, <2>2
  <2> QED BY <2>1, <2>2
<1> QED BY <1>12 DEF Runs, Do, i

\* sleepmgr_enter_sleep with a lock taken.
LEMMA RunsEnterSleep ==
  ASSUME NEW x \in Label, x.cpu = "runs", x.depth = 0, x.down > 0
  PROVE  Runs(SleepmgrEnterSleep, x, x)
<1> DEFINE m == [x EXCEPT !.cpu = "masked"]
<1>1. m \in Label /\ m.cpu = "masked" /\ m.down > 0
  BY DEF Label, Visible
<1>2. x = [m EXCEPT !.cpu = "runs"]
  BY DEF Label
<1>3. \A k \in 2..6 : [m EXCEPT !.cpu = "chosen", !.mode = k]
                         = [x EXCEPT !.cpu = "chosen", !.mode = k]
  BY DEF Label
<1>4. Runs(Do("irqOff", "SREG"), x, m)
  <2>1. Step(x, <<"irqOff", "SREG">>, m)
    BY <1>1 DEF Step, StepIrq
  <2> HIDE DEF m
  <2> QED BY <2>1, RunsDo
<1> HIDE DEF m
<1>5. Runs(Do("irqOn", "SREG"), m, x)
  <2>1. Step(m, <<"irqOn", "SREG">>, x)
    BY <1>1, <1>2 DEF Step, StepIrq
  <2> QED BY <1>1, <2>1, RunsDo
<1>6. \A k \in 2..6 : Runs(SleepIn(k), [m EXCEPT !.cpu = "chosen", !.mode = k], x)
  BY <1>3, RunsSleepIn
<1>7. Runs(Do("chooseMode", "SLEEP"), m, x)
  BY <1>1, <1>5, <1>6, RunsChoose
<1> QED BY <1>4, <1>7, RunsConcat DEF SleepmgrEnterSleep

LEMMA SameLabel ==
  ASSUME NEW x \in Label, NEW y \in Label, x.depth = y.depth, x.driver = y.driver,
         x.down = y.down, x.active = y.active, x.cpu = y.cpu, x.mode = y.mode
  PROVE  x = y
BY DEF Label

\* The labels of a reset and of the loop that main reaches.
AtReset == [depth |-> 0, driver |-> "off", down |-> 0, active |-> 0, cpu |-> "masked",
            mode |-> 1]
Attached == [depth |-> 0, driver |-> "up", down |-> 2, active |-> 0, cpu |-> "runs",
             mode |-> 1]

LEMMA RunsMain ==
  ASSUME NEW c \in Configs PROVE Runs(Main(c), AtReset, Attached)
<1> DEFINE x1 == [AtReset EXCEPT !.cpu = "runs"]
           x2 == [x1 EXCEPT !.down = 1, !.active = 0]
<1>1. /\ AtReset \in Label
      /\ x1 \in Label /\ x1.cpu = "runs" /\ x1.driver = "off"
      /\ x2 \in Label /\ x2.cpu = "runs" /\ x2.driver = "off" /\ x2.depth = 0 /\ x2.down = 1
      /\ [x2 EXCEPT !.driver = "up", !.down = 2] = Attached
  <2>1. AtReset \in Label
    BY DEF AtReset, Label, Visible
  <2>2. x1 = [depth |-> 0, driver |-> "off", down |-> 0, active |-> 0, cpu |-> "runs",
              mode |-> 1]
    BY DEF AtReset
  <2> HIDE DEF x1
  <2>3. x1 \in Label /\ x1.cpu = "runs" /\ x1.driver = "off"
    BY <2>2 DEF Label, Visible
  <2>4. /\ x2.depth = 0 /\ x2.driver = "off" /\ x2.down = 1 /\ x2.active = 0
        /\ x2.cpu = "runs" /\ x2.mode = 1
    BY <2>2
  <2>5. x2 \in Label
    BY <2>3, <2>4 DEF Label, Visible
  <2> HIDE DEF x2
  <2> DEFINE y == [x2 EXCEPT !.driver = "up", !.down = 2]
  <2>6. /\ y.depth = 0 /\ y.driver = "up" /\ y.down = 2 /\ y.active = 0
        /\ y.cpu = "runs" /\ y.mode = 1
    BY <2>4, <2>5 DEF Label
  <2>7. y \in Label
    BY <2>5, <2>6 DEF Label, Visible
  <2>8. Attached \in Label
    BY DEF Attached, Label, Visible
  <2> HIDE DEF y
  <2>9. y = Attached
    BY <2>6, <2>7, <2>8, SameLabel DEF Attached
  <2> QED BY <2>1, <2>3, <2>4, <2>5, <2>9 DEF y
<1>2. Attached \in Label /\ Attached.cpu = "runs"
  BY DEF Attached, Label, Visible
<1>3. Runs(Do("irqOn", "SREG"), AtReset, x1)
  <2>1. Step(AtReset, <<"irqOn", "SREG">>, x1)
    BY <1>1 DEF Step, StepIrq, AtReset
  <2> HIDE DEF x1
  <2> QED BY <1>1, <2>1, RunsDo
<1> HIDE DEF x1
<1>4. Runs(Do("locksInit", "locks"), x1, x2)
  <2>1. Step(x1, <<"locksInit", "locks">>, x2)
    BY <1>1 DEF Step, StepLocks
  <2> HIDE DEF x2
  <2> QED BY <1>1, <2>1, RunsDo
<1> HIDE DEF x2
<1>5. Runs(SysclkInit(c), x2, x2)
  BY <1>1, SilentSysclkInit DEF Silent
<1>6. Runs(UddEnable(c), x2, Attached)
  <2>1. Runs(UddEnable(c), x2, [x2 EXCEPT !.driver = "up", !.down = 2])
    BY <1>1, RunsUddEnable
  <2> QED BY <1>1, <2>1
<1>7. Runs(IoInit, Attached, Attached)
  BY <1>2, SilentIoInit DEF Silent
<1>8. Runs(Do("irqOn", "SREG") \o Do("locksInit", "locks"), AtReset, x2)
  BY <1>3, <1>4, RunsConcat
<1>9. Runs(Do("irqOn", "SREG") \o Do("locksInit", "locks") \o SysclkInit(c), AtReset, x2)
  BY <1>5, <1>8, RunsConcat
<1>10. Runs(Do("irqOn", "SREG") \o Do("locksInit", "locks") \o SysclkInit(c) \o UddEnable(c),
            AtReset, Attached)
  BY <1>6, <1>9, RunsConcat
<1>11. Runs(Do("irqOn", "SREG") \o Do("locksInit", "locks") \o SysclkInit(c) \o UddEnable(c)
            \o IoInit, AtReset, Attached)
  BY <1>7, <1>10, RunsConcat
<1> QED BY <1>11 DEF Main

-----------------------------------------------------------------------------
(***************************************************************************)
(* Each instruction takes the state to one that agrees with the next       *)
(* label.                                                                  *)
(***************************************************************************)
LEMMA RunsAfter ==
  ASSUME NEW p, NEW x, NEW y, Runs(p, x, y), p # <<>>
  PROVE  /\ x \in Label
         /\ Chooses(x, Head(p)) \/ \E z : Step(x, Head(p), z) /\ Runs(Tail(p), z, y)
         /\ \A b, z : Branch(x, Head(p), b, z) => Runs(b \o Tail(p), z, y)
<1>1. PICK R, U : <<p, x, y>> \in R /\ Closed(R, U)
  BY DEF Runs
<1>2. /\ x \in Label
      /\ Chooses(x, Head(p)) \/ \E z : Step(x, Head(p), z) /\ <<Tail(p), z, y>> \in R
      /\ \A b, z : Branch(x, Head(p), b, z) => <<b \o Tail(p), z, y>> \in R
  BY <1>1 DEF Closed
<1>3. \A q, z : <<q, z, y>> \in R => Runs(q, z, y)
  BY <1>1 DEF Runs
<1> QED BY <1>2, <1>3

LEMMA Modes ==
  /\ DOMAIN Mode = 1..6
  /\ \A k \in 1..6 : Level(Mode[k]) = k
  /\ Level("ACTIVE") = 1 /\ Level("IDLE") = 2 /\ Level("PDOWN") = 6
<1>1. /\ DOMAIN Mode = 1..6
      /\ Mode[1] = "ACTIVE" /\ Mode[2] = "IDLE" /\ Mode[3] = "ESTDBY"
      /\ Mode[4] = "PSAVE" /\ Mode[5] = "STDBY" /\ Mode[6] = "PDOWN"
  BY DEF Mode
<1> HIDE DEF Mode
<1>2. \A k \in 1..6, i \in 1..6 : Mode[i] = Mode[k] => i = k
  <2> SUFFICES ASSUME NEW k \in 1..6, NEW i \in 1..6, Mode[i] = Mode[k] PROVE i = k
    OBVIOUS
  <2>1. k = 1 \/ k = 2 \/ k = 3 \/ k = 4 \/ k = 5 \/ k = 6
    OBVIOUS
  <2>2. i = 1 \/ i = 2 \/ i = 3 \/ i = 4 \/ i = 5 \/ i = 6
    OBVIOUS
  <2> QED BY <1>1, <2>1, <2>2
<1>3. \A k \in 1..6 : Level(Mode[k]) = k
  BY <1>1, <1>2 DEF Level
<1> QED BY <1>1, <1>3

\* sleepmgr_get_sleep_mode finds the shallowest mode with a lock.
LEMMA SleepModeFound ==
  ASSUME Typed, NEW x \in Label, LocksAgree(x), x.down > 0
  PROVE  /\ GetSleepMode \in 1..6
         /\ \A m \in 1..6 : locks[m] > 0 => GetSleepMode <= m
<1> DEFINE First(i) == locks[i] > 0 /\ \A j \in 1..(i - 1) : locks[j] = 0
<1>1. \A m \in 1..6 : locks[m] \in Nat
  BY DEF Typed
<1>2. \E i \in 1..6 : First(i)
  <2>1. CASE locks[1] > 0
    <3>1. First(1)
      BY <2>1
    <3> QED BY <3>1
  <2>2. CASE locks[1] = 0 /\ locks[2] > 0
    <3>1. \A j \in 1..(2 - 1) : j = 1
      OBVIOUS
    <3>2. First(2)
      BY <2>2, <3>1
    <3> QED BY <3>2
  <2>3. CASE locks[1] = 0 /\ locks[2] = 0
    <3>1. \A j \in 1..(6 - 1) : j = 1 \/ j = 2 \/ j = 3 \/ j = 4 \/ j = 5
      OBVIOUS
    <3>2. First(6)
      BY <2>3, <3>1 DEF LocksAgree
    <3> QED BY <3>2
  <2> QED BY <1>1, <2>1, <2>2, <2>3
<1>3. GetSleepMode \in 1..6 /\ First(GetSleepMode)
  BY <1>2, Modes DEF GetSleepMode
<1>4. ASSUME NEW m \in 1..6, locks[m] > 0, ~(GetSleepMode <= m) PROVE FALSE
  <2>1. m \in 1..(GetSleepMode - 1)
    BY <1>3, <1>4
  <2> QED BY <1>3, <1>4, <2>1
<1> QED BY <1>3, <1>4

\* Most instructions touch nothing that a label describes.
LEMMA AgreesUnchanged ==
  ASSUME Typed, NEW x, Agrees(x), UNCHANGED <<cfg, irq, usb, locks, sleep>>
  PROVE  Typed' /\ Agrees(x)'
<1>1. Typed'
  BY DEF Typed
<1>2. IrqAgrees(x)'
  BY DEF Agrees, IrqAgrees
<1>3. DriverAgrees(x)'
  BY DEF Agrees, DriverAgrees
<1>4. LocksAgree(x)'
  BY DEF Agrees, LocksAgree
<1>5. SleepAgrees(x)'
  BY DEF Agrees, SleepAgrees, Allowed
<1> QED BY <1>1, <1>2, <1>3, <1>4, <1>5 DEF Agrees

LEMMA IrqOnKeeps ==
  ASSUME Typed, NEW x \in Label, NEW z, Agrees(x), Step(x, Head(todo), z), IrqOn
  PROVE  Typed' /\ Agrees(z)'
<1> USE DEF Agrees
<1>1. Head(todo)[1] = "irqOn" /\ irq' = [irq EXCEPT !.on = TRUE]
      /\ UNCHANGED <<cfg, usb, locks, sleep>>
  BY DEF IrqOn, Now, OtherThanIrq
<1>2. x.cpu = "masked" /\ z = [x EXCEPT !.cpu = "runs"] /\ x.depth = 0
  BY <1>1 DEF Step, StepIrq, StepLocks, StepDriver, StepSleep, Plain, Label
<1>3. /\ z.depth = 0 /\ z.cpu = "runs" /\ z.driver = x.driver
      /\ z.down = x.down /\ z.active = x.active
  BY <1>2 DEF Label
<1>4. Typed'
  BY <1>1 DEF Typed
<1>5. IrqAgrees(z)'
  <2>1. irq'.on /\ irq'.saved = irq.saved
    BY <1>1 DEF Typed
  <2> QED BY <1>2, <1>3, <2>1 DEF IrqAgrees
<1>6. DriverAgrees(z)'
  BY <1>1, <1>3 DEF DriverAgrees
<1>7. LocksAgree(z)'
  BY <1>1, <1>3 DEF LocksAgree
<1>8. SleepAgrees(z)'
  BY <1>1, <1>2, <1>3 DEF SleepAgrees
<1> QED BY <1>4, <1>5, <1>6, <1>7, <1>8

LEMMA IrqOffKeeps ==
  ASSUME Typed, NEW x \in Label, NEW z, Agrees(x), Step(x, Head(todo), z), IrqOff
  PROVE  Typed' /\ Agrees(z)'
<1> USE DEF Agrees
<1>1. Head(todo)[1] = "irqOff" /\ irq' = [irq EXCEPT !.on = FALSE]
      /\ UNCHANGED <<cfg, usb, locks, sleep>>
  BY DEF IrqOff, Now, OtherThanIrq
<1>2. x.cpu = "runs" /\ z = [x EXCEPT !.cpu = "masked"] /\ x.depth = 0
  BY <1>1 DEF Step, StepIrq, StepLocks, StepDriver, StepSleep, Plain
<1>3. /\ z.depth = 0 /\ z.cpu = "masked" /\ z.driver = x.driver
      /\ z.down = x.down /\ z.active = x.active
  BY <1>2 DEF Label
<1>4. Typed'
  BY <1>1 DEF Typed
<1>5. IrqAgrees(z)'
  <2>1. ~irq'.on /\ irq'.saved = irq.saved
    BY <1>1 DEF Typed
  <2> QED BY <1>2, <1>3, <2>1 DEF IrqAgrees
<1>6. DriverAgrees(z)'
  BY <1>1, <1>3 DEF DriverAgrees
<1>7. LocksAgree(z)'
  BY <1>1, <1>3 DEF LocksAgree
<1>8. SleepAgrees(z)'
  BY <1>1, <1>2, <1>3 DEF SleepAgrees
<1> QED BY <1>4, <1>5, <1>6, <1>7, <1>8

LEMMA IrqSaveKeeps ==
  ASSUME Typed, NEW x \in Label, NEW z, Agrees(x), Step(x, Head(todo), z), IrqSave
  PROVE  Typed' /\ Agrees(z)'
<1> USE DEF Agrees
<1>1. /\ Head(todo)[1] = "save" /\ irq' = [on |-> FALSE, saved |-> <<irq.on>> \o irq.saved]
      /\ UNCHANGED <<cfg, usb, locks, sleep>>
  BY DEF IrqSave, Now, OtherThanIrq
<1>2. x.cpu = "runs" /\ z = [x EXCEPT !.depth = @ + 1]
  BY <1>1 DEF Step, StepIrq, StepLocks, StepDriver, StepSleep, Plain
<1>3. /\ x.depth \in Nat /\ z.depth = x.depth + 1 /\ z.cpu = "runs" /\ z.driver = x.driver
      /\ z.down = x.down /\ z.active = x.active
  BY <1>2 DEF Label
<1>4. irq.on \in BOOLEAN /\ irq.saved \in Seq(BOOLEAN) /\ Len(irq.saved) = x.depth
  BY DEF Typed, IrqAgrees
<1>5. <<irq.on>> \in Seq(BOOLEAN) /\ Len(<<irq.on>>) = 1 /\ <<irq.on>>[1] = irq.on
  BY <1>4
<1>6. /\ irq'.saved \in Seq(BOOLEAN) /\ Len(irq'.saved) = 1 + x.depth
      /\ \A i \in 1..(1 + x.depth) :
           irq'.saved[i] = IF i <= 1 THEN <<irq.on>>[i] ELSE irq.saved[i - 1]
  <2>1. irq'.saved = <<irq.on>> \o irq.saved
    BY <1>1
  <2> QED BY <1>4, <1>5, <2>1, ConcatProperties
<1>7. Typed'
  BY <1>1, <1>6 DEF Typed
<1>8. IrqAgrees(z)'
  <2>1. ~irq'.on
    BY <1>1
  <2>2. ASSUME NEW i \in 1..z.depth PROVE irq'.saved[i] <=> i = z.depth
    <3>1. CASE i = 1
      <4>1. irq'.saved[1] = irq.on
        BY <1>3, <1>5, <1>6
      <4>2. irq.on <=> x.depth = 0
        BY <1>2 DEF IrqAgrees
      <4> QED BY <1>3, <3>1, <4>1, <4>2
    <3>2. CASE i # 1
      <4>1. i - 1 \in 1..x.depth /\ i \in 1..(1 + x.depth) /\ ~(i <= 1)
        BY <1>3, <3>2
      <4>2. irq'.saved[i] = irq.saved[i - 1]
        BY <1>6, <4>1
      <4>3. irq.saved[i - 1] <=> i - 1 = x.depth
        BY <4>1 DEF IrqAgrees
      <4>4. i - 1 = x.depth <=> i = z.depth
        BY <1>3, <4>1
      <4> QED BY <4>2, <4>3, <4>4
    <3> QED BY <3>1, <3>2
  <2>3. Len(irq'.saved) = z.depth /\ z.depth # 0
    BY <1>3, <1>6
  <2> QED BY <2>1, <2>2, <2>3 DEF IrqAgrees
<1>9. DriverAgrees(z)'
  BY <1>1, <1>3 DEF DriverAgrees
<1>10. LocksAgree(z)'
  BY <1>1, <1>3 DEF LocksAgree
<1>11. SleepAgrees(z)'
  BY <1>1, <1>2, <1>3 DEF SleepAgrees
<1> QED BY <1>7, <1>8, <1>9, <1>10, <1>11

LEMMA IrqRestoreKeeps ==
  ASSUME Typed, NEW x \in Label, NEW z, Agrees(x), Step(x, Head(todo), z), IrqRestore
  PROVE  Typed' /\ Agrees(z)'
<1> USE DEF Agrees
<1>1. /\ Head(todo)[1] = "restore"
      /\ irq' = [on |-> Head(irq.saved), saved |-> Tail(irq.saved)]
      /\ UNCHANGED <<cfg, usb, locks, sleep>>
  BY DEF IrqRestore, Now, OtherThanIrq
<1>2. x.cpu = "runs" /\ x.depth > 0 /\ z = [x EXCEPT !.depth = @ - 1]
  BY <1>1 DEF Step, StepIrq, StepLocks, StepDriver, StepSleep, Plain
<1>3. /\ x.depth \in Nat /\ z.depth = x.depth - 1 /\ z.cpu = "runs" /\ z.driver = x.driver
      /\ z.down = x.down /\ z.active = x.active
  BY <1>2 DEF Label
<1>4. /\ irq.saved \in Seq(BOOLEAN) /\ Len(irq.saved) = x.depth /\ irq.saved # <<>>
  BY <1>2, EmptySeq DEF Typed, IrqAgrees
<1>5. /\ Head(irq.saved) = irq.saved[1] /\ Head(irq.saved) \in BOOLEAN
      /\ Tail(irq.saved) \in Seq(BOOLEAN) /\ Len(Tail(irq.saved)) = x.depth - 1
      /\ \A i \in 1..(x.depth - 1) : Tail(irq.saved)[i] = irq.saved[i + 1]
  <2>1. /\ Head(irq.saved) \in BOOLEAN /\ Tail(irq.saved) \in Seq(BOOLEAN)
        /\ Len(Tail(irq.saved)) = Len(irq.saved) - 1
        /\ \A i \in 1..Len(Tail(irq.saved)) : Tail(irq.saved)[i] = irq.saved[i + 1]
    BY <1>4, HeadTailProperties
  <2>2. Head(irq.saved) = irq.saved[1]
    BY <1>4
  <2> QED BY <1>4, <2>1, <2>2
<1>6. irq'.on = irq.saved[1] /\ irq'.saved = Tail(irq.saved)
  BY <1>1, <1>5
<1>7. Typed'
  BY <1>1, <1>5 DEF Typed
<1>8. IrqAgrees(z)'
  <2>1. irq.saved[1] <=> 1 = x.depth
    <3>1. 1 \in 1..x.depth
      BY <1>2, <1>3
    <3> QED BY <3>1 DEF IrqAgrees
  <2>2. irq'.on <=> z.depth = 0
    BY <1>3, <1>6, <2>1
  <2>3. ASSUME NEW i \in 1..z.depth PROVE irq'.saved[i] <=> i = z.depth
    <3>1. i + 1 \in 1..x.depth /\ i \in 1..(x.depth - 1) /\ (i + 1 = x.depth <=> i = z.depth)
      BY <1>3
    <3>2. irq'.saved[i] = irq.saved[i + 1]
      BY <1>5, <1>6, <3>1
    <3>3. irq.saved[i + 1] <=> i + 1 = x.depth
      BY <3>1 DEF IrqAgrees
    <3> QED BY <3>1, <3>2, <3>3
  <2>4. Len(irq'.saved) = z.depth
    BY <1>3, <1>5, <1>6
  <2> QED BY <1>3, <2>2, <2>3, <2>4 DEF IrqAgrees
<1>9. DriverAgrees(z)'
  BY <1>1, <1>3 DEF DriverAgrees
<1>10. LocksAgree(z)'
  BY <1>1, <1>3 DEF LocksAgree
<1>11. SleepAgrees(z)'
  BY <1>1, <1>2, <1>3 DEF SleepAgrees
<1> QED BY <1>7, <1>8, <1>9, <1>10, <1>11

LEMMA LocksInitKeeps ==
  ASSUME Typed, NEW x \in Label, NEW z, Agrees(x), Step(x, Head(todo), z), LocksInit
  PROVE  Typed' /\ Agrees(z)'
<1> USE DEF Agrees
<1>1. /\ Head(todo)[1] = "locksInit"
      /\ locks' = [m \in DOMAIN Mode |-> IF Mode[m] = "PDOWN" THEN 1 ELSE 0]
      /\ UNCHANGED <<cfg, irq, usb, sleep>>
  BY DEF LocksInit, Now, OtherThanUsb
<1>2. x.driver = "off" /\ x.cpu = "runs" /\ z = [x EXCEPT !.down = 1, !.active = 0]
  BY <1>1 DEF Step, StepIrq, StepLocks, StepDriver, StepSleep, Plain
<1>3. /\ z.depth = x.depth /\ z.cpu = "runs" /\ z.driver = "off"
      /\ z.down = 1 /\ z.active = 0
  BY <1>2 DEF Label
<1>4. /\ locks' \in [1..6 -> Nat] /\ locks'[1] = 0 /\ locks'[2] = 0 /\ locks'[3] = 0
      /\ locks'[4] = 0 /\ locks'[5] = 0 /\ locks'[6] = 1
  <2>1. locks' = [m \in 1..6 |-> IF Mode[m] = "PDOWN" THEN 1 ELSE 0]
    BY <1>1, Modes
  <2>2. /\ Mode[1] # "PDOWN" /\ Mode[2] # "PDOWN" /\ Mode[3] # "PDOWN"
        /\ Mode[4] # "PDOWN" /\ Mode[5] # "PDOWN" /\ Mode[6] = "PDOWN"
    BY DEF Mode
  <2> QED BY <2>1, <2>2
<1>5. Typed'
  BY <1>1, <1>4 DEF Typed
<1>6. IrqAgrees(z)'
  BY <1>1, <1>2, <1>3 DEF IrqAgrees
<1>7. DriverAgrees(z)'
  BY <1>1, <1>2, <1>3 DEF DriverAgrees
<1>8. LocksAgree(z)'
  BY <1>1, <1>2, <1>3, <1>4 DEF LocksAgree, DriverAgrees
<1>9. SleepAgrees(z)'
  BY <1>1, <1>2, <1>3 DEF SleepAgrees
<1> QED BY <1>5, <1>6, <1>7, <1>8, <1>9

LEMMA LockKeeps ==
  ASSUME Typed, NEW x \in Label, NEW z, Agrees(x), Step(x, Head(todo), z), Lock
  PROVE  Typed' /\ Agrees(z)'
<1> USE DEF Agrees
<1>1. /\ Head(todo)[1] = "lock" /\ locks' = [locks EXCEPT ![Level(Head(todo)[2])] = @ + 1]
      /\ UNCHANGED <<cfg, irq, usb, sleep>>
  BY DEF Lock, Now, Arg, OtherThanUsb
<1>2. /\ x.cpu = "runs"
      /\ \/ Head(todo)[2] = "PDOWN" /\ z = [x EXCEPT !.down = @ + 1]
         \/ Head(todo)[2] = "ACTIVE" /\ z = [x EXCEPT !.active = @ + 1]
  BY <1>1 DEF Step, StepIrq, StepLocks, StepDriver, StepSleep, Plain
<1>3. z.depth = x.depth /\ z.cpu = "runs" /\ z.driver = x.driver
  BY <1>2 DEF Label
<1>4. LocksAgree(z)' /\ locks' \in [1..6 -> Nat]
  <2>1. CASE Head(todo)[2] = "PDOWN" /\ z = [x EXCEPT !.down = @ + 1]
    <3>1. locks' = [locks EXCEPT ![6] = @ + 1]
      BY <1>1, <2>1, Modes
    <3>2. z.down = x.down + 1 /\ z.active = x.active
      BY <2>1 DEF Label
    <3> QED BY <1>1, <3>1, <3>2 DEF LocksAgree, Typed
  <2>2. CASE Head(todo)[2] = "ACTIVE" /\ z = [x EXCEPT !.active = @ + 1]
    <3>1. locks' = [locks EXCEPT ![1] = @ + 1]
      BY <1>1, <2>2, Modes
    <3>2. z.down = x.down /\ z.active = x.active + 1
      BY <2>2 DEF Label
    <3> QED BY <1>1, <3>1, <3>2 DEF LocksAgree, Typed
  <2> QED BY <1>2, <2>1, <2>2
<1>5. Typed'
  BY <1>1, <1>4 DEF Typed
<1>6. IrqAgrees(z)'
  BY <1>1, <1>2, <1>3 DEF IrqAgrees
<1>7. DriverAgrees(z)'
  BY <1>1, <1>3 DEF DriverAgrees
<1>8. SleepAgrees(z)'
  BY <1>1, <1>2, <1>3 DEF SleepAgrees
<1> QED BY <1>4, <1>5, <1>6, <1>7, <1>8

LEMMA MustBeLockedKeeps ==
  ASSUME Typed, NEW x \in Label, NEW z, Agrees(x), Step(x, Head(todo), z), MustBeLocked
  PROVE  Typed' /\ Agrees(z)'
<1>1. Head(todo)[1] = "mustBeLocked" /\ UNCHANGED <<cfg, irq, usb, locks, sleep>>
  BY DEF MustBeLocked, Now, OtherThanUsb
<1>2. z = x
  BY <1>1 DEF Step, StepIrq, StepLocks, StepDriver, StepSleep, Plain
<1> QED BY <1>1, <1>2, AgreesUnchanged

LEMMA UnlockKeeps ==
  ASSUME Typed, NEW x \in Label, NEW z, Agrees(x), Step(x, Head(todo), z), Unlock
  PROVE  Typed' /\ Agrees(z)'
<1> USE DEF Agrees
<1>1. /\ Head(todo)[1] = "unlock" /\ locks' = [locks EXCEPT ![Level(Head(todo)[2])] = @ - 1]
      /\ UNCHANGED <<cfg, irq, usb, sleep>>
  BY DEF Unlock, Now, Arg, OtherThanUsb
<1>2. /\ x.cpu = "runs"
      /\ \/ Head(todo)[2] = "PDOWN" /\ x.down > 0 /\ z = [x EXCEPT !.down = @ - 1]
         \/ Head(todo)[2] = "ACTIVE" /\ x.active > 0 /\ z = [x EXCEPT !.active = @ - 1]
  BY <1>1 DEF Step, StepIrq, StepLocks, StepDriver, StepSleep, Plain
<1>3. z.depth = x.depth /\ z.cpu = "runs" /\ z.driver = x.driver
  BY <1>2 DEF Label
<1>4. LocksAgree(z)' /\ locks' \in [1..6 -> Nat]
  <2>1. CASE Head(todo)[2] = "PDOWN" /\ x.down > 0 /\ z = [x EXCEPT !.down = @ - 1]
    <3>1. locks' = [locks EXCEPT ![6] = @ - 1]
      BY <1>1, <2>1, Modes
    <3>2. z.down = x.down - 1 /\ z.active = x.active /\ x.down - 1 \in Nat
      BY <2>1 DEF Label
    <3> QED BY <1>1, <3>1, <3>2 DEF LocksAgree, Typed
  <2>2. CASE Head(todo)[2] = "ACTIVE" /\ x.active > 0 /\ z = [x EXCEPT !.active = @ - 1]
    <3>1. locks' = [locks EXCEPT ![1] = @ - 1]
      BY <1>1, <2>2, Modes
    <3>2. z.down = x.down /\ z.active = x.active - 1 /\ x.active - 1 \in Nat
      BY <2>2 DEF Label
    <3> QED BY <1>1, <3>1, <3>2 DEF LocksAgree, Typed
  <2> QED BY <1>2, <2>1, <2>2
<1>5. Typed'
  BY <1>1, <1>4 DEF Typed
<1>6. IrqAgrees(z)'
  BY <1>1, <1>2, <1>3 DEF IrqAgrees
<1>7. DriverAgrees(z)'
  BY <1>1, <1>3 DEF DriverAgrees
<1>8. SleepAgrees(z)'
  BY <1>1, <1>2, <1>3 DEF SleepAgrees
<1> QED BY <1>4, <1>5, <1>6, <1>7, <1>8

\* udd_sleep_mode keeps its lock and udd_b_idle together.
LEMMA UddSleepModeKeeps ==
  ASSUME Typed, NEW x, LocksAgree(x), NEW b_idle \in BOOLEAN, UddSleepMode(b_idle)
  PROVE  /\ LocksAgree(x)' /\ locks' \in [1..6 -> Nat]
         /\ usb' = [usb EXCEPT !.idle = b_idle]
<1>1. /\ usb' = [usb EXCEPT !.idle = b_idle]
      /\ locks' = [locks EXCEPT ![2] = IF b_idle /\ ~usb.idle THEN @ + 1
                                       ELSE IF ~b_idle /\ usb.idle THEN @ - 1 ELSE @]
  BY Modes DEF UddSleepMode
<1>2. usb'.idle = b_idle
  BY <1>1 DEF Typed
<1>3. locks'[2] = IF b_idle THEN 1 ELSE 0
  BY <1>1 DEF LocksAgree, Typed
<1>4. locks' \in [1..6 -> Nat] /\ \A m \in 1..6 : m # 2 => locks'[m] = locks[m]
  <2>1. locks' = [locks EXCEPT ![2] = locks'[2]]
    BY <1>1 DEF Typed
  <2>2. locks'[2] \in Nat
    BY <1>3
  <2> HIDE <1>1
  <2> QED BY <2>1, <2>2 DEF Typed
<1> QED BY <1>1, <1>2, <1>3, <1>4 DEF LocksAgree

LEMMA UddSleepModeCallKeeps ==
  ASSUME Typed, NEW x \in Label, NEW z, Agrees(x), Step(x, Head(todo), z), UddSleepModeCall
  PROVE  Typed' /\ Agrees(z)'
<1> USE DEF Agrees
<1>1. /\ Head(todo)[1] = "uddSleepMode" /\ UddSleepMode(Head(todo)[2])
      /\ UNCHANGED <<cfg, irq, sleep>>
  BY DEF UddSleepModeCall, Now, Arg, OtherThanUsb
<1>2. /\ x.depth > 0
      /\ \/ Head(todo)[2] = TRUE /\ x.driver \in {"set", "up"} /\ z = x
         \/ Head(todo)[2] = FALSE /\ x.driver = "leaving" /\ z = [x EXCEPT !.driver = "off"]
  BY <1>1 DEF Step, StepIrq, StepLocks, StepDriver, StepSleep, Plain
<1>3. Head(todo)[2] \in BOOLEAN
  BY <1>2
<1>4. /\ LocksAgree(x)' /\ locks' \in [1..6 -> Nat]
      /\ usb' = [usb EXCEPT !.idle = Head(todo)[2]]
  BY <1>1, <1>3, UddSleepModeKeeps
<1>5. /\ z.depth = x.depth /\ z.cpu = x.cpu /\ z.mode = x.mode
      /\ z.down = x.down /\ z.active = x.active
  BY <1>2 DEF Label
<1>6. Typed'
  BY <1>1, <1>3, <1>4 DEF Typed
<1>7. IrqAgrees(z)'
  BY <1>1, <1>5 DEF IrqAgrees
<1>8. DriverAgrees(z)'
  <2>1. /\ usb'.interrupts = usb.interrupts /\ usb'.reset = usb.reset /\ usb'.pads = usb.pads
        /\ usb'.idle = Head(todo)[2]
    BY <1>4 DEF Typed
  <2>2. CASE Head(todo)[2] = TRUE /\ x.driver \in {"set", "up"} /\ z = x
    BY <2>1, <2>2 DEF DriverAgrees
  <2>3. CASE Head(todo)[2] = FALSE /\ x.driver = "leaving" /\ z = [x EXCEPT !.driver = "off"]
    <3>1. z.driver = "off"
      BY <2>3 DEF Label
    <3> QED BY <2>1, <2>3, <3>1 DEF DriverAgrees
  <2> QED BY <1>2, <2>2, <2>3
<1>9. LocksAgree(z)'
  BY <1>4, <1>5 DEF LocksAgree
<1>10. SleepAgrees(z)'
  <2>1. x.cpu = "runs"
    BY <1>2 DEF Label
  <2> QED BY <1>1, <1>5, <2>1 DEF SleepAgrees
<1> QED BY <1>6, <1>7, <1>8, <1>9, <1>10

\* A step of the driver alone, whose locks and idle flag stay.
LEMMA DriverStep ==
  ASSUME Typed, NEW x \in Label, NEW z, Agrees(x),
         UNCHANGED <<cfg, irq, locks, sleep>>, x.depth > 0,
         z.depth = x.depth, z.cpu = x.cpu, z.down = x.down, z.active = x.active,
         usb'.idle = usb.idle
  PROVE  IrqAgrees(z)' /\ LocksAgree(z)' /\ SleepAgrees(z)'
<1> USE DEF Agrees
<1>1. x.cpu = "runs"
  BY DEF Label
<1>2. IrqAgrees(z)'
  BY DEF IrqAgrees
<1>3. LocksAgree(z)'
  BY DEF LocksAgree
<1>4. SleepAgrees(z)'
  BY <1>1 DEF SleepAgrees
<1> QED BY <1>2, <1>3, <1>4

LEMMA DriverResetKeeps ==
  ASSUME Typed, NEW x \in Label, NEW z, Agrees(x), Step(x, Head(todo), z), DriverReset
  PROVE  Typed' /\ Agrees(z)'
<1>1. /\ Head(todo)[1] = "driverReset"
      /\ usb' = [usb EXCEPT !.reset = TRUE, !.idle = FALSE, !.pads = UsbPadInit]
      /\ UNCHANGED <<cfg, irq, locks, sleep>>
  BY DEF DriverReset, Now, OtherThanUsb
<1>2. x.depth > 0 /\ x.driver = "off" /\ z = [x EXCEPT !.driver = "set"]
  BY <1>1 DEF Step, StepIrq, StepLocks, StepDriver, StepSleep, Plain
<1>3. /\ z.depth = x.depth /\ z.cpu = x.cpu /\ z.down = x.down /\ z.active = x.active
      /\ z.driver = "set"
  BY <1>2 DEF Label
<1>4. UsbPadInit \in {"factory", "typical"}
  <2>1. cfg \in Configuration
    BY ConfigOfProgram DEF Typed
  <2> QED BY <2>1 DEF Configuration, UsbPadInit
<1>5. /\ usb'.reset = TRUE /\ usb'.idle = FALSE /\ usb'.interrupts = usb.interrupts
      /\ usb'.pads = UsbPadInit
  BY <1>1 DEF Typed
<1>6. ~usb.idle /\ ~usb.interrupts /\ usb.idle \in BOOLEAN
  BY <1>2 DEF Agrees, DriverAgrees, Typed
<1>7. Typed'
  BY <1>1, <1>4 DEF Typed
<1>8. DriverAgrees(z)'
  BY <1>3, <1>4, <1>5, <1>6 DEF DriverAgrees
<1>9. usb'.idle = usb.idle
  BY <1>5, <1>6
<1> QED BY <1>1, <1>2, <1>3, <1>7, <1>8, <1>9, DriverStep DEF Agrees

LEMMA AttachKeeps ==
  ASSUME Typed, NEW x \in Label, NEW z, Agrees(x), Step(x, Head(todo), z), Attach
  PROVE  Typed' /\ Agrees(z)'
<1>1. /\ Head(todo)[1] = "attach" /\ usb' = [usb EXCEPT !.interrupts = TRUE]
      /\ UNCHANGED <<cfg, irq, locks, sleep>>
  BY DEF Attach, Now, OtherThanUsb
<1>2. x.depth > 0 /\ x.driver = "set" /\ z = [x EXCEPT !.driver = "up"]
  BY <1>1 DEF Step, StepIrq, StepLocks, StepDriver, StepSleep, Plain
<1>3. /\ z.depth = x.depth /\ z.cpu = x.cpu /\ z.down = x.down /\ z.active = x.active
      /\ z.driver = "up"
  BY <1>2 DEF Label
<1>4. /\ usb'.reset = usb.reset /\ usb'.idle = usb.idle /\ usb'.interrupts = TRUE
      /\ usb'.pads = usb.pads
  BY <1>1 DEF Typed
<1>5. Typed'
  BY <1>1 DEF Typed
<1>6. DriverAgrees(z)'
  BY <1>2, <1>3, <1>4 DEF Agrees, DriverAgrees
<1> QED BY <1>1, <1>2, <1>3, <1>4, <1>5, <1>6, DriverStep DEF Agrees

LEMMA DetachKeeps ==
  ASSUME Typed, NEW x \in Label, NEW z, Agrees(x), Step(x, Head(todo), z), Detach
  PROVE  Typed' /\ Agrees(z)'
<1>1. /\ Head(todo)[1] = "detach" /\ usb' = [usb EXCEPT !.interrupts = FALSE, !.reset = FALSE]
      /\ UNCHANGED <<cfg, irq, locks, sleep>>
  BY DEF Detach, Now, OtherThanUsb
<1>2. x.depth > 0 /\ x.driver = "up" /\ z = [x EXCEPT !.driver = "leaving"]
  BY <1>1 DEF Step, StepIrq, StepLocks, StepDriver, StepSleep, Plain
<1>3. /\ z.depth = x.depth /\ z.cpu = x.cpu /\ z.down = x.down /\ z.active = x.active
      /\ z.driver = "leaving"
  BY <1>2 DEF Label
<1>4. usb'.reset = FALSE /\ usb'.idle = usb.idle /\ usb'.interrupts = FALSE
  BY <1>1 DEF Typed
<1>5. Typed'
  BY <1>1 DEF Typed
<1>6. DriverAgrees(z)'
  BY <1>3, <1>4 DEF DriverAgrees
<1> QED BY <1>1, <1>2, <1>3, <1>4, <1>5, <1>6, DriverStep DEF Agrees

\* A step on the way to sleep and back: its label leaves the depth, the driver and
\* the locks as they are.
LEMMA SleepStep ==
  ASSUME Typed, NEW x \in Label, NEW z, Agrees(x), UNCHANGED <<cfg, usb, locks>>,
         z.depth = x.depth, z.driver = x.driver, z.down = x.down, z.active = x.active
  PROVE  DriverAgrees(z)' /\ LocksAgree(z)' /\ (Allowed(x.mode) => Allowed(x.mode)')
<1>1. DriverAgrees(z)'
  BY DEF Agrees, DriverAgrees
<1>2. LocksAgree(z)'
  BY DEF Agrees, LocksAgree
<1>3. Allowed(x.mode) => Allowed(x.mode)'
  BY DEF Allowed
<1> QED BY <1>1, <1>2, <1>3

LEMMA SleepSetModeKeeps ==
  ASSUME Typed, NEW x \in Label, NEW z, Agrees(x), Step(x, Head(todo), z), SleepSetMode
  PROVE  Typed' /\ Agrees(z)'
<1>1. /\ Head(todo)[1] = "sleepMode" /\ sleep' = [sleep EXCEPT !.mode = Head(todo)[2]]
      /\ ~sleep.asleep /\ UNCHANGED <<cfg, irq, usb, locks>>
  BY DEF SleepSetMode, Now, Arg
<1>2. /\ x.cpu = "chosen" /\ Head(todo)[2] = Mode[x.mode]
      /\ z = [x EXCEPT !.cpu = "loaded"]
  BY <1>1 DEF Step, StepIrq, StepLocks, StepDriver, StepSleep, Plain
<1>3. /\ z.depth = x.depth /\ z.driver = x.driver /\ z.down = x.down /\ z.active = x.active
      /\ z.cpu = "loaded" /\ z.mode = x.mode
  BY <1>2 DEF Label
<1>4. Allowed(x.mode)
  BY <1>2 DEF Agrees, SleepAgrees
<1>5. DriverAgrees(z)' /\ LocksAgree(z)' /\ Allowed(x.mode)'
  BY <1>1, <1>3, <1>4, SleepStep
<1>6. sleep'.mode = Mode[x.mode] /\ ~sleep'.asleep
  BY <1>1, <1>2 DEF Typed
<1>7. Typed'
  <2>1. x.mode \in 2..6
    BY <1>4 DEF Allowed
  <2>2. Mode[x.mode] \in {Mode[k] : k \in 2..6}
    BY <2>1
  <2> HIDE DEF Mode
  <2>3. sleep \in [mode : {Mode[k] : k \in 2..6}, enabled : BOOLEAN, asleep : BOOLEAN]
    BY DEF Inv, Typed
  <2> QED BY <1>1, <1>2, <2>2 DEF Typed
<1>8. IrqAgrees(z)'
  BY <1>1, <1>2, <1>3 DEF Agrees, IrqAgrees
<1>9. SleepAgrees(z)'
  BY <1>3, <1>5, <1>6 DEF SleepAgrees
<1> QED BY <1>5, <1>7, <1>8, <1>9 DEF Agrees

LEMMA SleepEnabledKeeps ==
  ASSUME Typed, NEW x \in Label, NEW z, Agrees(x), Step(x, Head(todo), z), SleepEnabled
  PROVE  Typed' /\ Agrees(z)'
<1>1. /\ Head(todo)[1] = "sleepEnabled" /\ sleep' = [sleep EXCEPT !.enabled = Head(todo)[2]]
      /\ ~sleep.asleep /\ UNCHANGED <<cfg, irq, usb, locks>>
  BY DEF SleepEnabled, Now, Arg
<1>2. \/ Head(todo)[2] = TRUE /\ x.cpu = "loaded" /\ z = [x EXCEPT !.cpu = "armed"]
      \/ /\ Head(todo)[2] = FALSE /\ x.cpu = "entered"
         /\ z = [x EXCEPT !.cpu = "runs", !.mode = 1]
  BY <1>1 DEF Step, StepIrq, StepLocks, StepDriver, StepSleep, Plain
<1>3. z.depth = x.depth /\ z.driver = x.driver /\ z.down = x.down /\ z.active = x.active
  BY <1>2 DEF Label
<1>4. DriverAgrees(z)' /\ LocksAgree(z)' /\ (Allowed(x.mode) => Allowed(x.mode)')
  BY <1>1, <1>3, SleepStep
<1>5. sleep'.mode = sleep.mode /\ ~sleep'.asleep
  BY <1>1 DEF Typed
<1>6. Typed'
  <2>1. Head(todo)[2] \in BOOLEAN
    BY <1>2
  <2> QED BY <1>1, <2>1 DEF Typed
<1>7. CASE Head(todo)[2] = TRUE /\ x.cpu = "loaded" /\ z = [x EXCEPT !.cpu = "armed"]
  <2>1. z.cpu = "armed" /\ z.mode = x.mode
    BY <1>7 DEF Label
  <2>2. IrqAgrees(z)'
    BY <1>1, <1>3, <1>7, <2>1 DEF Agrees, IrqAgrees
  <2>3. Allowed(x.mode) /\ sleep.mode = Mode[x.mode]
    BY <1>7 DEF Agrees, SleepAgrees
  <2>4. SleepAgrees(z)'
    BY <1>4, <1>5, <2>1, <2>3 DEF SleepAgrees
  <2> QED BY <1>4, <1>6, <2>2, <2>4 DEF Agrees
<1>8. CASE /\ Head(todo)[2] = FALSE /\ x.cpu = "entered"
           /\ z = [x EXCEPT !.cpu = "runs", !.mode = 1]
  <2>1. z.cpu = "runs" /\ z.mode = 1
    BY <1>8 DEF Label
  <2>2. IrqAgrees(z)'
    BY <1>1, <1>3, <1>8, <2>1 DEF Agrees, IrqAgrees
  <2>3. SleepAgrees(z)'
    BY <1>5, <2>1 DEF SleepAgrees
  <2> QED BY <1>4, <1>6, <2>2, <2>3 DEF Agrees
<1> QED BY <1>2, <1>7, <1>8

LEMMA SleepEnterKeeps ==
  ASSUME Typed, NEW x \in Label, NEW z, Agrees(x), Step(x, Head(todo), z), SleepEnter
  PROVE  Typed' /\ Agrees(z)'
<1>1. /\ Head(todo)[1] = "sleepEnter" /\ irq' = [irq EXCEPT !.on = TRUE]
      /\ sleep' = [sleep EXCEPT !.asleep = sleep.enabled]
      /\ UNCHANGED <<cfg, usb, locks>>
  BY DEF SleepEnter, Now
<1>2. x.cpu = "armed" /\ z = [x EXCEPT !.cpu = "entered"] /\ x.depth = 0
  BY <1>1 DEF Step, StepIrq, StepLocks, StepDriver, StepSleep, Plain, Label
<1>3. /\ z.depth = x.depth /\ z.driver = x.driver /\ z.down = x.down /\ z.active = x.active
      /\ z.cpu = "entered" /\ z.mode = x.mode
  BY <1>2 DEF Label
<1>4. Allowed(x.mode) /\ sleep.mode = Mode[x.mode]
  BY <1>2 DEF Agrees, SleepAgrees
<1>5. DriverAgrees(z)' /\ LocksAgree(z)' /\ Allowed(x.mode)'
  BY <1>1, <1>3, <1>4, SleepStep
<1>6. Typed'
  BY <1>1 DEF Typed
<1>7. IrqAgrees(z)'
  <2>1. irq'.on /\ irq'.saved = irq.saved
    BY <1>1 DEF Typed
  <2> QED BY <1>2, <1>3, <2>1 DEF Agrees, IrqAgrees
<1>8. SleepAgrees(z)'
  <2>1. sleep'.mode = sleep.mode
    BY <1>1 DEF Typed
  <2> QED BY <1>3, <1>4, <1>5, <2>1 DEF SleepAgrees
<1> QED BY <1>5, <1>6, <1>7, <1>8 DEF Agrees

\* sleepmgr_enter_sleep goes on in the shallowest mode with a lock.
LEMMA ChooseModeKeeps ==
  ASSUME Typed, NEW x, NEW y, Runs(todo, x, y), Agrees(x), ChooseMode
  PROVE  Typed' /\ \E z : Runs(todo', z, y) /\ Agrees(z)'
<1>1. /\ todo # <<>> /\ Head(todo)[1] = "chooseMode" /\ ~sleep.asleep
      /\ UNCHANGED <<cfg, irq, usb, locks, sleep>>
  BY DEF ChooseMode, Now, OtherThanUsb
<1>2. todo' = (IF Mode[GetSleepMode] = "ACTIVE" THEN Do("irqOn", "SREG")
               ELSE SleepIn(GetSleepMode)) \o Tail(todo)
  BY DEF ChooseMode, Goto, SleepIn
<1>3. /\ x \in Label
      /\ Chooses(x, Head(todo)) \/ \E z : Step(x, Head(todo), z) /\ Runs(Tail(todo), z, y)
      /\ \A b, z : Branch(x, Head(todo), b, z) => Runs(b \o Tail(todo), z, y)
  BY <1>1, RunsAfter
<1>4. \A z : ~Step(x, Head(todo), z)
  BY <1>1 DEF Step, StepIrq, StepLocks, StepDriver, StepSleep, Plain
<1>5. x.cpu = "masked" /\ x.down > 0
  BY <1>3, <1>4 DEF Chooses
<1>6. GetSleepMode \in 1..6 /\ \A m \in 1..6 : locks[m] > 0 => GetSleepMode <= m
  BY <1>3, <1>5, SleepModeFound DEF Agrees
<1>7. Typed' /\ Agrees(x)'
  BY <1>1, AgreesUnchanged
<1>8. CASE Mode[GetSleepMode] = "ACTIVE"
  <2>1. Branch(x, Head(todo), Do("irqOn", "SREG"), x)
    BY <1>1 DEF Branch
  <2>2. Runs(Do("irqOn", "SREG") \o Tail(todo), x, y)
    BY <1>3, <2>1
  <2> QED BY <1>2, <1>7, <1>8, <2>2
<1>9. CASE Mode[GetSleepMode] # "ACTIVE"
  <2>1. PICK k : k = GetSleepMode
    OBVIOUS
  <2> DEFINE z == [x EXCEPT !.cpu = "chosen", !.mode = k]
  <2>2. k \in 2..6
    <3>1. Mode[1] = "ACTIVE"
      BY DEF Mode
    <3> QED BY <1>6, <1>9, <2>1, <3>1
  <2>3. Allowed(k)
    BY <1>6, <2>1, <2>2 DEF Allowed
  <2>4. Branch(x, Head(todo), SleepIn(k), z)
    BY <1>1, <2>2 DEF Branch
  <2>5. /\ z.cpu = "chosen" /\ z.mode = k
        /\ z.depth = x.depth /\ z.driver = x.driver /\ z.down = x.down /\ z.active = x.active
    BY <1>3 DEF Label
  <2> HIDE DEF z
  <2>6. Runs(SleepIn(k) \o Tail(todo), z, y)
    BY <1>3, <2>4
  <2>7. IrqAgrees(z)'
    BY <1>1, <1>5, <2>5 DEF Agrees, IrqAgrees
  <2>8. DriverAgrees(z)' /\ LocksAgree(z)'
    BY <1>1, <1>3, <2>5, SleepStep
  <2>9. SleepAgrees(z)'
    <3>1. Allowed(k)'
      BY <1>1, <2>3 DEF Allowed
    <3> QED BY <1>1, <2>5, <3>1 DEF SleepAgrees
  <2>10. todo' = SleepIn(k) \o Tail(todo)
    BY <1>2, <1>9, <2>1
  <2> QED BY <1>7, <2>6, <2>7, <2>8, <2>9, <2>10 DEF Agrees
<1> QED BY <1>8, <1>9

\* An instruction that no label is about: it may be over, or wait.
LEMMA PlainKeeps ==
  ASSUME Typed, NEW x, NEW y, Runs(todo, x, y), Agrees(x),
         todo # <<>>, Head(todo)[1] \in Plain, todo' = Tail(todo),
         UNCHANGED <<cfg, irq, usb, locks, sleep>>
  PROVE  Typed' /\ \E z : Runs(todo', z, y) /\ Agrees(z)'
<1>1. Chooses(x, Head(todo)) \/ \E z : Step(x, Head(todo), z) /\ Runs(Tail(todo), z, y)
  BY RunsAfter
<1>2. ~Chooses(x, Head(todo))
  BY DEF Chooses, Plain
<1>3. PICK z : Step(x, Head(todo), z) /\ Runs(Tail(todo), z, y)
  BY <1>1, <1>2
<1>4. z = x
  BY <1>3 DEF Step, StepIrq, StepLocks, StepDriver, StepSleep, Plain
<1> QED BY <1>3, <1>4, AgreesUnchanged

\* One of the other instructions, which are over in one step.
LEMMA InstructionKeeps ==
  ASSUME NEW x, NEW y, Runs(todo, x, y), todo # <<>>, Head(todo)[1] # "chooseMode",
         todo' = Tail(todo),
         ASSUME NEW z, x \in Label, Step(x, Head(todo), z) PROVE Typed' /\ Agrees(z)'
  PROVE  Typed' /\ \E z : Runs(todo', z, y) /\ Agrees(z)'
<1>1. /\ x \in Label
      /\ Chooses(x, Head(todo)) \/ \E z : Step(x, Head(todo), z) /\ Runs(Tail(todo), z, y)
  BY RunsAfter
<1>2. PICK z : Step(x, Head(todo), z) /\ Runs(Tail(todo), z, y)
  BY <1>1 DEF Chooses
<1> QED BY <1>1, <1>2

LEMMA MainStepKeeps ==
  ASSUME Typed, NEW x, NEW y, Runs(todo, x, y), Agrees(x), MainStep
  PROVE  Typed' /\ \E z : Runs(todo', z, y) /\ Agrees(z)'
<1>1. CASE \/ GateAll \/ Prescale \/ Calibrate \/ OscOn \/ OscOff \/ XoscConfig
           \/ Reference \/ DfllSwitch \/ PllConfig \/ Select \/ UsbClock \/ RtcClock
           \/ Ungate \/ Gate \/ PortInit
  <2>1. /\ todo # <<>> /\ Head(todo)[1] \in Plain /\ todo' = Tail(todo)
        /\ UNCHANGED <<cfg, irq, usb, locks, sleep>>
    BY <1>1 DEF GateAll, Prescale, Calibrate, OscOn, OscOff, XoscConfig, Reference, DfllSwitch,
       PllConfig, Select, UsbClock, RtcClock, Ungate, Gate, PortInit, Now, Done, Goto,
       OtherThanClocks, OtherThanGates, Plain
  <2> QED BY <2>1, PlainKeeps
<1>2. CASE WaitReady
  <2>1. /\ todo # <<>> /\ Head(todo)[1] \in Plain /\ todo' \in {todo, Tail(todo)}
        /\ UNCHANGED <<cfg, irq, usb, locks, sleep>>
    BY <1>2 DEF WaitReady, Now, Goto, OtherThanClocks, Plain
  <2>2. CASE todo' = todo
    BY <2>1, <2>2, AgreesUnchanged
  <2>3. CASE todo' = Tail(todo)
    BY <2>1, <2>3, PlainKeeps
  <2> QED BY <2>1, <2>2, <2>3
<1>3. CASE IsReady
  <2>1. /\ todo # <<>> /\ Head(todo)[1] = "unlessReady"
        /\ todo' = Tail(todo) \/ todo' = Head(todo)[2][2] \o Tail(todo)
        /\ UNCHANGED <<cfg, irq, usb, locks, sleep>>
    BY <1>3 DEF IsReady, Now, Goto, Arg, OtherThanClocks
  <2>2. CASE todo' = Tail(todo)
    <3>1. Head(todo)[1] \in Plain
      BY <2>1 DEF Plain
    <3> QED BY <2>1, <2>2, <3>1, PlainKeeps
  <2>3. CASE todo' = Head(todo)[2][2] \o Tail(todo)
    <3>1. Branch(x, Head(todo), Head(todo)[2][2], x)
      BY <2>1 DEF Branch
    <3>2. Runs(Head(todo)[2][2] \o Tail(todo), x, y)
      BY <2>1, <3>1, RunsAfter
    <3> QED BY <2>1, <2>3, <3>2, AgreesUnchanged
  <2> QED BY <2>1, <2>2, <2>3
<1>4. CASE ChooseMode
  BY <1>4, ChooseModeKeeps
<1>5. CASE \/ IrqOn \/ IrqOff \/ IrqSave \/ IrqRestore
           \/ LocksInit \/ Lock \/ MustBeLocked \/ Unlock \/ UddSleepModeCall
           \/ DriverReset \/ Attach \/ Detach \/ SleepSetMode \/ SleepEnabled \/ SleepEnter
  <2>1. todo # <<>> /\ Head(todo)[1] # "chooseMode" /\ todo' = Tail(todo)
    BY <1>5 DEF IrqOn, IrqOff, IrqSave, IrqRestore, LocksInit, Lock, MustBeLocked, Unlock,
       UddSleepModeCall, DriverReset, Attach, Detach, SleepSetMode, SleepEnabled, SleepEnter,
       Now, Done, Goto
  <2>2. ASSUME NEW z, x \in Label, Step(x, Head(todo), z) PROVE Typed' /\ Agrees(z)'
    BY <1>5, <2>2, IrqOnKeeps, IrqOffKeeps, IrqSaveKeeps, IrqRestoreKeeps, LocksInitKeeps,
       LockKeeps, MustBeLockedKeeps, UnlockKeeps, UddSleepModeCallKeeps, DriverResetKeeps,
       AttachKeeps, DetachKeeps, SleepSetModeKeeps, SleepEnabledKeeps, SleepEnterKeeps
  <2> QED BY <2>1, <2>2, InstructionKeeps
<1> QED BY <1>1, <1>2, <1>3, <1>4, <1>5 DEF MainStep

\* The interrupts of the driver change its lock only where a label allows it.
LEMMA UsbIsrKeeps ==
  ASSUME Typed, NEW x \in Label, Agrees(x), UsbIsr
  PROVE  Typed' /\ Agrees(x)'
<1>1. PICK b_idle \in BOOLEAN : UddSleepMode(b_idle)
  BY DEF UsbIsr
<1>2. /\ irq.on /\ usb.interrupts /\ sleep' = [sleep EXCEPT !.asleep = FALSE]
      /\ UNCHANGED <<cfg, irq>>
  BY DEF UsbIsr
<1>3. /\ LocksAgree(x)' /\ locks' \in [1..6 -> Nat] /\ usb' = [usb EXCEPT !.idle = b_idle]
  BY <1>1, UddSleepModeKeeps DEF Agrees
<1>4. x.cpu \in {"runs", "entered"} /\ x.driver = "up"
  BY <1>2 DEF Agrees, IrqAgrees, DriverAgrees
<1>5. Typed'
  BY <1>2, <1>3 DEF Typed
<1>6. IrqAgrees(x)'
  BY <1>2 DEF Agrees, IrqAgrees
<1>7. DriverAgrees(x)'
  <2>1. usb'.interrupts = usb.interrupts /\ usb'.reset = usb.reset /\ usb'.pads = usb.pads
    BY <1>3 DEF Typed
  <2> QED BY <1>4, <2>1 DEF Agrees, DriverAgrees
<1>8. SleepAgrees(x)'
  <2>1. ~sleep'.asleep /\ sleep'.mode = sleep.mode
    BY <1>2 DEF Typed
  <2> QED BY <1>4, <2>1 DEF Agrees, SleepAgrees
<1> QED BY <1>3, <1>5, <1>6, <1>7, <1>8 DEF Agrees

-----------------------------------------------------------------------------
(***************************************************************************)
(* The invariant.                                                          *)
(***************************************************************************)
LEMMA InitInv == Init => Inv
<1> SUFFICES ASSUME Init PROVE Inv
  OBVIOUS
<1>1. Typed
  <2>1. "IDLE" = Mode[2]
    BY DEF Mode
  <2>2. <<>> \in Seq(BOOLEAN)
    BY EmptySeq
  <2>3. irq \in [on : BOOLEAN, saved : Seq(BOOLEAN)]
    BY <2>2 DEF Init
  <2>4. locks \in [1..6 -> Nat]
    BY Modes DEF Init
  <2>5. sleep \in [mode : {Mode[k] : k \in 2..6}, enabled : BOOLEAN, asleep : BOOLEAN]
    BY <2>1 DEF Init
  <2>6. usb \in [interrupts : BOOLEAN, reset : BOOLEAN, idle : BOOLEAN,
                 pads : {"reset", "factory", "typical"}]
    BY DEF Init
  <2> QED BY <2>3, <2>4, <2>5, <2>6 DEF Init, Typed
<1>2. Runs(todo, AtReset, Attached)
  BY RunsMain DEF Init
<1>3. InMainLoop(Attached)
  BY DEF InMainLoop, Attached
<1>4. /\ AtReset.depth = 0 /\ AtReset.driver = "off" /\ AtReset.down = 0
      /\ AtReset.active = 0 /\ AtReset.cpu = "masked"
  BY DEF AtReset
<1>5. IrqAgrees(AtReset)
  <2>1. Len(irq.saved) = 0
    BY EmptySeq DEF Init
  <2> QED BY <1>4, <2>1 DEF Init, IrqAgrees
<1>6. DriverAgrees(AtReset)
  BY <1>4 DEF Init, DriverAgrees
<1>7. LocksAgree(AtReset)
  <2>1. \A m \in 1..6 : locks[m] = 0
    BY Modes DEF Init
  <2> QED BY <1>4, <2>1 DEF Init, LocksAgree
<1>8. SleepAgrees(AtReset)
  BY <1>4 DEF Init, SleepAgrees
<1> QED BY <1>1, <1>2, <1>3, <1>5, <1>6, <1>7, <1>8 DEF Inv, Agrees

\* In the loop of main the state agrees with a label of the loop.
LEMMA LoopLabel ==
  ASSUME Inv, todo = <<>>
  PROVE  Typed /\ \E x \in Label : Agrees(x) /\ InMainLoop(x)
<1>1. PICK x, y : Runs(todo, x, y) /\ Agrees(x) /\ InMainLoop(y)
  BY DEF Inv
<1>2. x = y /\ x \in Label
  BY <1>1, NothingRuns
<1> QED BY <1>1, <1>2 DEF Inv

\* A call from the loop that comes back to it.
LEMMA CallKeeps ==
  ASSUME Typed, NEW x, Agrees(x), NEW y, InMainLoop(y), Runs(todo', x, y),
         UNCHANGED <<cfg, irq, usb, locks, sleep>>
  PROVE  Inv'
<1>1. Typed' /\ Agrees(x)'
  BY AgreesUnchanged
<1> QED BY <1>1 DEF Inv

LEMMA ServicesKeep ==
  ASSUME Inv,
         \/ EnterSleep \/ UdcStop \/ UdcStart \/ LockActive \/ UnlockActive
         \/ RtcStart \/ RtcStop \/ StartPeripheral \/ StopPeripheral
  PROVE  Inv'
<1>1. todo = <<>> /\ UNCHANGED <<cfg, irq, usb, locks, sleep>>
  BY DEF EnterSleep, UdcStop, UdcStart, LockActive, UnlockActive, RtcStart, RtcStop,
     StartPeripheral, StopPeripheral, Call, InLoop, OtherThanUsb
<1>2. Typed
  BY DEF Inv
<1>3. PICK x \in Label : Agrees(x) /\ InMainLoop(x)
  BY <1>1, LoopLabel
<1>4. x.depth = 0 /\ x.cpu = "runs" /\ x.down > 0 /\ cfg \in Configs
  BY <1>2, <1>3 DEF InMainLoop, Typed
<1>5. \A p : Silent(p) /\ todo' = p => Inv'
  BY <1>1, <1>2, <1>3, <1>4, CallKeeps DEF Silent
<1>6. CASE EnterSleep
  <2>1. todo' = SleepmgrEnterSleep
    BY <1>6 DEF EnterSleep, Call, Goto
  <2>2. Runs(SleepmgrEnterSleep, x, x)
    BY <1>4, RunsEnterSleep
  <2> QED BY <1>1, <1>2, <1>3, <2>1, <2>2, CallKeeps
<1>7. CASE UdcStop
  <2> DEFINE y == [x EXCEPT !.driver = "off", !.down = 1]
  <2>1. todo' = UddDisable(cfg) /\ usb.reset
    BY <1>7 DEF UdcStop, Call, Goto
  <2>2. x.driver = "up" /\ x.down = 2
    BY <1>3, <2>1 DEF InMainLoop, Agrees, DriverAgrees
  <2>3. InMainLoop(y)
    BY <1>4 DEF InMainLoop, Label
  <2>4. Runs(UddDisable(cfg), x, y)
    BY <1>4, <2>2, RunsUddDisable
  <2> QED BY <1>1, <1>2, <1>3, <2>1, <2>3, <2>4, CallKeeps
<1>8. CASE UdcStart
  <2> DEFINE y == [x EXCEPT !.driver = "up", !.down = 2]
  <2>1. todo' = UddEnable(cfg) /\ ~usb.reset
    BY <1>8 DEF UdcStart, Call, Goto
  <2>2. x.driver = "off" /\ x.down = 1
    BY <1>3, <2>1 DEF InMainLoop, Agrees, DriverAgrees
  <2>3. InMainLoop(y)
    BY <1>4 DEF InMainLoop, Label
  <2>4. Runs(UddEnable(cfg), x, y)
    BY <1>4, <2>2, RunsUddEnable
  <2> QED BY <1>1, <1>2, <1>3, <2>1, <2>3, <2>4, CallKeeps
<1>9. CASE LockActive
  <2> DEFINE y == [x EXCEPT !.active = @ + 1]
  <2>1. todo' = SleepmgrLockMode("ACTIVE")
    BY <1>9 DEF LockActive, Call, Goto
  <2>2. InMainLoop(y)
    BY <1>3 DEF InMainLoop, Label
  <2>3. Runs(SleepmgrLockMode("ACTIVE"), x, y)
    BY <1>4, RunsLockActive
  <2> QED BY <1>1, <1>2, <1>3, <2>1, <2>2, <2>3, CallKeeps
<1>10. CASE UnlockActive
  <2> DEFINE y == [x EXCEPT !.active = @ - 1]
  <2>1. todo' = SleepmgrUnlockMode("ACTIVE") /\ locks[1] > 0
    BY <1>10 DEF UnlockActive, Call, Goto
  <2>2. x.active > 0
    BY <1>3, <2>1 DEF Agrees, LocksAgree
  <2>3. InMainLoop(y)
    BY <1>3 DEF InMainLoop, Label
  <2>4. Runs(SleepmgrUnlockMode("ACTIVE"), x, y)
    BY <1>4, <2>2, RunsUnlockActive
  <2> QED BY <1>1, <1>2, <1>3, <2>1, <2>3, <2>4, CallKeeps
<1>11. CASE RtcStart \/ RtcStop
  <2>1. (\E id : todo' = SysclkRtcsrcEnable(id)) \/ todo' = SysclkRtcsrcDisable
    BY <1>11 DEF RtcStart, RtcStop, Call, Goto
  <2> QED BY <1>5, <2>1, SilentRtc
<1>12. CASE StartPeripheral \/ StopPeripheral
  <2>1. \E gate : todo' = SysclkEnableModule(gate) \/ todo' = SysclkDisableModule(gate)
    BY <1>12 DEF StartPeripheral, StopPeripheral, Goto
  <2> QED BY <1>5, <2>1, SilentModule
<1> QED BY <1>6, <1>7, <1>8, <1>9, <1>10, <1>11, <1>12

LEMMA NextInv == Inv /\ [Next]_vars => Inv'
<1> SUFFICES ASSUME Inv, [Next]_vars PROVE Inv'
  OBVIOUS
<1>1. PICK x, y : Runs(todo, x, y) /\ Agrees(x) /\ InMainLoop(y)
  BY DEF Inv
<1>2. Typed
  BY DEF Inv
<1>3. CASE MainStep
  BY <1>1, <1>2, <1>3, MainStepKeeps DEF Inv
<1>4. CASE OscReady
  <2>1. UNCHANGED <<todo, cfg, irq, usb, locks, sleep>>
    BY <1>4 DEF OscReady, OtherThanClocks
  <2> QED BY <1>1, <1>2, <2>1, CallKeeps
<1>5. CASE UsbIsr
  <2>1. x \in Label
    BY <1>1 DEF Runs, Closed
  <2>2. todo' = todo
    BY <1>5 DEF UsbIsr
  <2> QED BY <1>1, <1>2, <1>5, <2>1, <2>2, UsbIsrKeeps DEF Inv
<1>6. CASE \/ EnterSleep \/ UdcStop \/ UdcStart \/ LockActive \/ UnlockActive
           \/ RtcStart \/ RtcStop \/ StartPeripheral \/ StopPeripheral
  BY <1>6, ServicesKeep
<1>7. CASE UNCHANGED vars
  <2>1. UNCHANGED <<todo, cfg, irq, usb, locks, sleep>>
    BY <1>7 DEF vars
  <2> QED BY <1>1, <1>2, <2>1, CallKeeps
<1> QED BY <1>3, <1>4, <1>5, <1>6, <1>7 DEF Next

\* What is left of main runs, from the state as it is, to a loop in which the device
\* is attached or quietly stopped.
THEOREM StartupInvariant == Spec => []Inv
BY InitInv, NextInv, PTL DEF Spec

\* HandlersFindDriver, for every set of configurations.
THEOREM HandlersAlwaysFindDriver == Spec => []HandlersFindDriver
<1>1. Inv => HandlersFindDriver
  <2> SUFFICES ASSUME Inv PROVE HandlersFindDriver
    OBVIOUS
  <2>1. PICK x, y : Runs(todo, x, y) /\ Agrees(x) /\ InMainLoop(y)
    BY DEF Inv
  <2>2. x \in Label
    BY <2>1 DEF Runs, Closed
  <2>3. ASSUME irq.on
        PROVE  /\ usb.interrupts => usb.reset /\ usb.pads \in {"factory", "typical"}
               /\ usb.reset => usb.interrupts
               /\ usb.interrupts => locks[6] = 2 /\ locks[2] = IF usb.idle THEN 1 ELSE 0
    <3>1. x.depth = 0
      BY <2>1, <2>3 DEF Agrees, IrqAgrees
    <3>2. x.driver = "off" \/ (x.driver = "up" /\ x.down = 2)
      BY <2>2, <3>1 DEF Label, Visible
    <3> QED BY <2>1, <3>2 DEF Agrees, DriverAgrees, LocksAgree
  <2>4. ASSUME InLoop
        PROVE  /\ irq.on /\ irq.saved = <<>>
               /\ ~usb.interrupts => locks[6] = 1 /\ locks[2] = 0
    <3>1. PICK z \in Label : Agrees(z) /\ InMainLoop(z)
      BY <2>4, LoopLabel DEF InLoop
    <3>2. Len(irq.saved) = 0 /\ irq.saved \in Seq(BOOLEAN) /\ irq.on
      BY <3>1 DEF Inv, Typed, Agrees, IrqAgrees, InMainLoop
    <3>3. irq.saved = <<>>
      BY <3>2, EmptySeq
    <3> QED BY <3>1, <3>2, <3>3 DEF Agrees, DriverAgrees, LocksAgree, InMainLoop
  <2> QED BY <2>3, <2>4, Modes DEF HandlersFindDriver
<1> QED BY <1>1, StartupInvariant, PTL

\* NeverSleepsTooDeep, for every set of configurations.
THEOREM SleepsNoDeeperThanLocked == Spec => []NeverSleepsTooDeep
<1>1. Inv => NeverSleepsTooDeep
  <2> SUFFICES ASSUME Inv, sleep.asleep
               PROVE  /\ \A m \in DOMAIN Mode : locks[m] > 0 => Level(sleep.mode) <= m
                      /\ usb.idle => sleep.mode = "IDLE"
    BY DEF NeverSleepsTooDeep
  <2>1. PICK x, y : Runs(todo, x, y) /\ Agrees(x) /\ InMainLoop(y)
    BY DEF Inv
  <2>2. Allowed(x.mode) /\ sleep.mode = Mode[x.mode]
    BY <2>1 DEF Agrees, SleepAgrees
  <2>3. x.mode \in 2..6 /\ Level(sleep.mode) = x.mode
    BY <2>2, Modes DEF Allowed
  <2>4. \A m \in 1..6 : locks[m] > 0 => Level(sleep.mode) <= m
    BY <2>2, <2>3 DEF Allowed
  <2>5. ASSUME usb.idle PROVE sleep.mode = "IDLE"
    <3>1. locks[2] > 0
      BY <2>1, <2>5 DEF Agrees, LocksAgree
    <3>2. x.mode = 2
      BY <2>2, <2>3, <3>1 DEF Allowed
    <3> QED BY <2>2, <3>2 DEF Mode
  <2> QED BY <2>4, <2>5, Modes
<1> QED BY <1>1, StartupInvariant, PTL

-----------------------------------------------------------------------------
(***************************************************************************)
(* The clocks.  Labels are not enough for them: what a line of main does   *)
(* depends on the registers, which the oscillators change at any time.     *)
(* Here a triple Triple(c, P, p, Q) says that the program p, started in    *)
(* any state of the clocks in P in the configuration c, keeps them good,   *)
(* whenever the oscillators become ready, and ends in Q if it ends.        *)
(***************************************************************************)
Clocks == [osc |-> osc, clk |-> clk, dfll |-> dfll, gated |-> gated, up |-> usb.interrupts]

\* OSC.XOSCCTRL for the crystal of the board.
CrystalField(c) == <<XoscRange(c.xosc), XoscStartup(c.xosc)>>

\* The source of the USB clock.
UsbSource(c) == IF c.usb = "RCOSC" THEN "RC32MHZ" ELSE "PLL"

OscRegisters == [on : SUBSET Oscillator, ready : SUBSET Oscillator]

ClkRegisters(c) ==
  [source : {"RC2MHZ", c.source}, psa : {0, c.psa}, psbc : {0, c.psbc},
   usb : {"off", "RC32MHZ", "PLL"}, rtc : {"off"} \cup DOMAIN RtcOscillator,
   pll : {NoPll, c.pll}, xosc : {<<"04TO2", 256>>, CrystalField(c)}]

DfllTarget == {32000000, 48000000}
DfllRegisters ==
  [on : BOOLEAN, ref : {"RC32KHZ", "USBSOF"}, comp : DfllTarget,
   cal : {"reset", "factory", "sane"}]

Registers(c) ==
  [osc : OscRegisters, clk : ClkRegisters(c), dfll : DfllRegisters,
   gated : SUBSET AllGates, up : BOOLEAN]

\* Oscillators are on before they are ready, the crystal is started as it must
\* be, and the RTC counts one that is ready.
OscGood(c, m) ==
  /\ m.osc.ready \subseteq m.osc.on
  /\ "XOSC" \in m.osc.on => m.clk.xosc = CrystalField(c)
  /\ m.clk.rtc \in DOMAIN RtcOscillator \ {"ULP"} => RtcOscillator[m.clk.rtc] \in m.osc.ready

\* The CPU's clock runs, and its prescalers are set before a fast one is selected.
SourceGood(c, m) ==
  /\ m.clk.source \in m.osc.ready
  /\ m.clk.source # "RC2MHZ" => m.clk.psa = c.psa /\ m.clk.psbc = c.psbc

\* The PLL is configured before it is started, and loses its lock with its
\* reference.
PllGood(c, m) ==
  /\ "PLL" \in m.osc.on => m.clk.pll = c.pll
  /\ "PLL" \in m.osc.ready => m.clk.pll.source \in m.osc.ready

\* The registers of the DFLL: as reset leaves them for 32 MHz, and as they tune
\* RC32MHZ to the frames of the host.
AsReset(d) == d.cal = "reset" /\ d.comp = 32000000
Tuning(d) == d.ref = "USBSOF" /\ d.comp = 48000000
Wants48MHz(c) == c.rc32 = 48000000

\* RC32MHZ has the rate that the configuration says while it is on.
DfllGood(c, m) ==
  /\ ~Wants48MHz(c) => AsReset(m.dfll)
  /\ Wants48MHz(c) /\ "RC32MHZ" \in m.osc.on =>
       m.dfll.cal \in {"factory", "sane"} /\ (m.dfll.on => Tuning(m.dfll))
  /\ m.dfll.on => c.ref # "none"

\* While the device is attached its clock is there.
UsbGood(c, m) ==
  m.up =>
    /\ UsbGate \notin m.gated
    /\ m.clk.usb = UsbSource(c) /\ m.clk.usb \in m.osc.ready
    /\ m.clk.usb = "RC32MHZ" => m.dfll.on /\ Tuning(m.dfll)

Good(c) ==
  {m \in Registers(c) :
     OscGood(c, m) /\ SourceGood(c, m) /\ PllGood(c, m) /\ DfllGood(c, m) /\ UsbGood(c, m)}

\* An oscillator becomes ready.
OscStep(m, n) ==
  \E id \in m.osc.on \ m.osc.ready :
    /\ id = "PLL" => m.clk.pll.source \in m.osc.ready
    /\ n = [m EXCEPT !.osc = [m.osc EXCEPT !.ready = m.osc.ready \cup {id}]]

Assertion(c, P) == P \subseteq Good(c) /\ \A m \in P : \A n : OscStep(m, n) => n \in P

-----------------------------------------------------------------------------
(***************************************************************************)
(* What the instructions do to the clocks.                                 *)
(***************************************************************************)
WithClk(m, k) == [m EXCEPT !.clk = k]
WithDfll(m, d) == [m EXCEPT !.dfll = d]
WithOsc(m, o) == [m EXCEPT !.osc = o]
WithGated(m, g) == [m EXCEPT !.gated = g]
WithUp(m, u) == [m EXCEPT !.up = u]

EffectOnOsc(c, m, i) ==
  CASE i[1] = "oscOn" -> WithOsc(m, [m.osc EXCEPT !.on = m.osc.on \cup {i[2]}])
    [] i[1] = "oscOff" ->
         WithOsc(m, [on |-> m.osc.on \ {i[2]},
                     ready |-> m.osc.ready
                                 \ ({i[2]} \cup {id \in {"PLL"} : m.clk.pll.source = i[2]})])
EffectOnClk(c, m, i) ==
  CASE i[1] = "prescale" -> WithClk(m, [m.clk EXCEPT !.psa = c.psa, !.psbc = c.psbc])
    [] i[1] = "xoscConfig" -> WithClk(m, [m.clk EXCEPT !.xosc = CrystalField(c)])
    [] i[1] = "pllConfig" -> WithClk(m, [m.clk EXCEPT !.pll = c.pll])
    [] i[1] = "select" -> WithClk(m, [m.clk EXCEPT !.source = c.source])
    [] i[1] = "usbClock" -> WithClk(m, [m.clk EXCEPT !.usb = i[2]])
    [] i[1] = "rtcClock" -> WithClk(m, [m.clk EXCEPT !.rtc = i[2]])
Written(d, r, v) == [d EXCEPT !.ref = r, !.comp = v]
Referred(c, d) == Written(d, c.ref, IF c.ref = "USBSOF" THEN 48000000 ELSE d.comp)
EffectOnDfll(c, m, i) ==
  CASE i[1] = "calibrate" ->
         WithDfll(m, [m.dfll EXCEPT !.cal = IF c.row = "blank" THEN "sane" ELSE c.row])
    [] i[1] = "reference" -> WithDfll(m, Referred(c, m.dfll))
    [] i[1] = "dfll" -> WithDfll(m, [m.dfll EXCEPT !.on = i[2]])
EffectOnModules(m, i) ==
  CASE i[1] = "gateAll" -> WithGated(m, AllGates)
    [] i[1] = "ungate" -> WithGated(m, m.gated \ {i[2]})
    [] i[1] = "gate" -> WithGated(m, m.gated \cup {i[2]})
    [] i[1] = "attach" -> WithUp(m, TRUE)
    [] i[1] = "detach" -> WithUp(m, FALSE)

OnOsc == {"oscOn", "oscOff"}
OnClk == {"prescale", "xoscConfig", "pllConfig", "select", "usbClock", "rtcClock"}
OnDfll == {"calibrate", "reference", "dfll"}
OnModules == {"gateAll", "ungate", "gate", "attach", "detach"}

Effect(c, m, i) ==
  IF i[1] \in OnOsc THEN EffectOnOsc(c, m, i)
  ELSE IF i[1] \in OnClk THEN EffectOnClk(c, m, i)
  ELSE IF i[1] \in OnDfll THEN EffectOnDfll(c, m, i)
  ELSE IF i[1] \in OnModules THEN EffectOnModules(m, i)
  ELSE m

\* The instruction goes on to the next, with its effect.
Passes(m, i) ==
  /\ i[1] = "waitReady" => i[2] \in m.osc.ready
  /\ i[1] = "unlessReady" => i[2][1] \in m.osc.ready
  /\ i[1] # "chooseMode"

\* The instruction goes on with the instructions b first.
Inserts(m, i, b) ==
  \/ i[1] = "unlessReady" /\ i[2][1] \notin m.osc.ready /\ b = i[2][2]
  \/ i[1] = "chooseMode" /\ (b = Do("irqOn", "SREG") \/ \E k \in 2..6 : b = SleepIn(k))

\* A set of programs with the states in which they may be found.
ClosedUnder(c, R, U, Q) ==
  \A p, m : <<p, m>> \in R =>
    /\ p \in Seq(U) /\ m \in Good(c)
    /\ \A n : OscStep(m, n) => <<p, n>> \in R
    /\ p = <<>> => m \in Q
    /\ p # <<>> =>
         /\ Passes(m, Head(p)) => <<Tail(p), Effect(c, m, Head(p))>> \in R
         /\ \A b : Inserts(m, Head(p), b) => b \in Seq(U) /\ <<b \o Tail(p), m>> \in R

Triple(c, P, p, Q) ==
  \E R, U : p \in Seq(U) /\ ClosedUnder(c, R, U, Q) /\ \A m \in P : <<p, m>> \in R

-----------------------------------------------------------------------------
(***************************************************************************)
(* Rules for triples.                                                      *)
(***************************************************************************)
LEMMA UnderMonotonic ==
  ASSUME NEW c, NEW R, NEW U, NEW V, NEW Q, NEW W, U \subseteq V, Q \subseteq W,
         ClosedUnder(c, R, U, Q)
  PROVE  ClosedUnder(c, R, V, W)
<1>1. \A p \in Seq(U) : p \in Seq(V)
  BY SeqMonotonic
<1> QED BY <1>1 DEF ClosedUnder

LEMMA TripleWeaken ==
  ASSUME NEW c, NEW P, NEW O, NEW p, NEW Q, NEW W, O \subseteq P, Q \subseteq W,
         Triple(c, P, p, Q)
  PROVE  Triple(c, O, p, W)
<1>1. PICK R, U : p \in Seq(U) /\ ClosedUnder(c, R, U, Q) /\ \A m \in P : <<p, m>> \in R
  BY DEF Triple
<1>2. ClosedUnder(c, R, U, W)
  BY <1>1, UnderMonotonic
<1> QED BY <1>1, <1>2 DEF Triple

LEMMA TripleConcat ==
  ASSUME NEW c, NEW P, NEW p, NEW Q, NEW q, NEW W, Triple(c, P, p, Q), Triple(c, Q, q, W)
  PROVE  Triple(c, P, p \o q, W)
<1>1. PICK R1, U1 : p \in Seq(U1) /\ ClosedUnder(c, R1, U1, Q) /\ \A m \in P : <<p, m>> \in R1
  BY DEF Triple
<1>2. PICK R2, U2 : q \in Seq(U2) /\ ClosedUnder(c, R2, U2, W) /\ \A m \in Q : <<q, m>> \in R2
  BY DEF Triple
<1> DEFINE U == U1 \cup U2
           R == {<<s[1] \o q, s[2]>> : s \in {t \in R1 : \E r, m : t = <<r, m>>}} \cup R2
<1>3. ClosedUnder(c, R1, U, Q) /\ ClosedUnder(c, R2, U, W)
  BY <1>1, <1>2, UnderMonotonic
<1>4. p \in Seq(U) /\ q \in Seq(U)
  BY <1>1, <1>2, SeqMonotonic
<1> HIDE DEF U
<1>5. ASSUME NEW r, NEW m, <<r, m>> \in R1 PROVE <<r \o q, m>> \in R
  <2>1. <<r, m>>[1] = r /\ <<r, m>>[2] = m
    OBVIOUS
  <2> QED BY <1>5, <2>1
<1>6. ASSUME NEW t, NEW m, <<t, m>> \in R, <<t, m>> \notin R2
      PROVE  \E r : t = r \o q /\ <<r, m>> \in R1
  <2>1. PICK s \in R1 : (\E r, n : s = <<r, n>>) /\ <<t, m>> = <<s[1] \o q, s[2]>>
    BY <1>6
  <2>2. PICK r, n : s = <<r, n>>
    BY <2>1
  <2>3. s[1] = r /\ s[2] = n
    BY <2>2
  <2> QED BY <2>1, <2>2, <2>3
<1>7. R2 \subseteq R
  OBVIOUS
<1> HIDE DEF R
<1>8. ASSUME NEW t, NEW m, <<t, m>> \in R
      PROVE  /\ t \in Seq(U) /\ m \in Good(c)
             /\ \A n : OscStep(m, n) => <<t, n>> \in R
             /\ t = <<>> => m \in W
             /\ t # <<>> =>
                  /\ Passes(m, Head(t)) => <<Tail(t), Effect(c, m, Head(t))>> \in R
                  /\ \A b : Inserts(m, Head(t), b) => b \in Seq(U) /\ <<b \o Tail(t), m>> \in R
  <2>1. CASE <<t, m>> \in R2
    BY <1>3, <1>7, <2>1 DEF ClosedUnder
  <2>2. CASE <<t, m>> \notin R2
    <3>1. PICK r : t = r \o q /\ <<r, m>> \in R1
      BY <1>6, <1>8, <2>2
    <3>2. r \in Seq(U) /\ m \in Good(c)
      BY <1>3, <3>1 DEF ClosedUnder
    <3>3. CASE r = <<>>
      <4>1. m \in Q
        BY <1>3, <3>1, <3>3 DEF ClosedUnder
      <4>2. t = q
        BY <1>4, <3>1, <3>3, ConcatEmptySeq
      <4> QED BY <1>2, <2>2, <4>1, <4>2
    <3>4. CASE r # <<>>
      <4>1. t \in Seq(U)
        BY <1>4, <3>1, <3>2, ConcatProperties
      <4>2. /\ t # <<>> /\ Head(t) = Head(r) /\ Tail(t) = Tail(r) \o q
            /\ Tail(r) \in Seq(U)
        BY <1>4, <3>1, <3>2, <3>4, HeadTailOfConcat
      <4>3. \A n : OscStep(m, n) => <<t, n>> \in R
        BY <1>3, <1>5, <3>1 DEF ClosedUnder
      <4>4. Passes(m, Head(t)) => <<Tail(t), Effect(c, m, Head(t))>> \in R
        <5>1. Passes(m, Head(r)) => <<Tail(r), Effect(c, m, Head(r))>> \in R1
          BY <1>3, <3>1, <3>4 DEF ClosedUnder
        <5> QED BY <1>5, <4>2, <5>1
      <4>5. ASSUME NEW b, Inserts(m, Head(t), b)
            PROVE  b \in Seq(U) /\ <<b \o Tail(t), m>> \in R
        <5>1. b \in Seq(U) /\ <<b \o Tail(r), m>> \in R1
          BY <1>3, <3>1, <3>4, <4>2, <4>5 DEF ClosedUnder
        <5>2. b \in Seq(U) /\ Tail(r) \in Seq(U) /\ q \in Seq(U)
          BY <1>4, <4>2, <5>1
        <5>4. (b \o Tail(r)) \o q = b \o (Tail(r) \o q)
          BY <5>2, ConcatAssociative
        <5>3. <<(b \o Tail(r)) \o q, m>> \in R
          BY <1>5, <5>1
        <5> QED BY <4>2, <5>1, <5>3, <5>4
      <4> QED BY <3>2, <4>1, <4>2, <4>3, <4>4, <4>5
    <3> QED BY <3>3, <3>4
  <2> QED BY <2>1, <2>2
<1>9. ClosedUnder(c, R, U, W)
  BY <1>8 DEF ClosedUnder
<1>10. p \o q \in Seq(U)
  BY <1>4, ConcatProperties
<1>11. \A m \in P : <<p \o q, m>> \in R
  BY <1>1, <1>5
<1> QED BY <1>9, <1>10, <1>11 DEF Triple

\* A program that has ended.
LEMMA TripleNothing ==
  ASSUME NEW c, NEW P, Assertion(c, P) PROVE Triple(c, P, <<>>, P)
<1> DEFINE R == {<< <<>>, m>> : m \in P}
<1>1. <<>> \in Seq({})
  BY EmptySeq
<1>2. ClosedUnder(c, R, {}, P)
  BY <1>1 DEF ClosedUnder, Assertion
<1> QED BY <1>1, <1>2 DEF Triple

\* One instruction.
LEMMA TripleDo ==
  ASSUME NEW c, NEW P, NEW op, NEW arg, NEW Q, op \notin {"unlessReady", "chooseMode"},
         Assertion(c, P), Assertion(c, Q),
         \A m \in P : Passes(m, <<op, arg>>) => Effect(c, m, <<op, arg>>) \in Q
  PROVE  Triple(c, P, Do(op, arg), Q)
<1> DEFINE i == <<op, arg>>
           R == {<< <<i>>, m>> : m \in P} \cup {<< <<>>, m>> : m \in Q}
<1>1. <<i>> \in Seq({i}) /\ <<i>> # <<>> /\ Head(<<i>>) = i /\ Tail(<<i>>) = <<>>
  BY OneInstruction
<1>2. <<>> \in Seq({i})
  BY EmptySeq
<1>3. \A m, b : ~Inserts(m, i, b)
  BY DEF Inserts
<1>4. \A m \in P : Passes(m, i) => Effect(c, m, i) \in Q
  OBVIOUS
<1> HIDE DEF i
<1>5. ClosedUnder(c, R, {i}, Q)
  <2> SUFFICES ASSUME NEW t, NEW m, <<t, m>> \in R
               PROVE  /\ t \in Seq({i}) /\ m \in Good(c)
                      /\ \A n : OscStep(m, n) => <<t, n>> \in R
                      /\ t = <<>> => m \in Q
                      /\ t # <<>> =>
                           /\ Passes(m, Head(t)) => <<Tail(t), Effect(c, m, Head(t))>> \in R
                           /\ \A b : Inserts(m, Head(t), b) =>
                                b \in Seq({i}) /\ <<b \o Tail(t), m>> \in R
    BY DEF ClosedUnder
  <2>1. CASE t = <<i>> /\ m \in P
    BY <1>1, <1>3, <1>4, <2>1 DEF Assertion
  <2>2. CASE t = <<>> /\ m \in Q
    BY <1>2, <2>2 DEF Assertion
  <2> QED BY <2>1, <2>2
<1>6. \A m \in P : <<(<<i>>), m>> \in R
  OBVIOUS
<1> HIDE DEF R
<1>7. Triple(c, P, <<i>>, Q)
  BY <1>1, <1>5, <1>6 DEF Triple
<1> QED BY <1>7 DEF Do, i

\* if (!ready) { p }
LEMMA TripleUnlessReady ==
  ASSUME NEW c, NEW P, NEW id, NEW p, NEW Q, Assertion(c, P), Assertion(c, Q),
         Triple(c, P, p, Q), \A m \in P : id \in m.osc.ready => m \in Q
  PROVE  Triple(c, P, UnlessReady(id, p), Q)
<1>1. PICK R1, U1 : p \in Seq(U1) /\ ClosedUnder(c, R1, U1, Q) /\ \A m \in P : <<p, m>> \in R1
  BY DEF Triple
<1> DEFINE i == <<"unlessReady", <<id, p>>>>
           U == U1 \cup {i}
           R == R1 \cup {<< <<i>>, m>> : m \in P} \cup {<< <<>>, m>> : m \in Q}
<1>2. ClosedUnder(c, R1, U, Q) /\ p \in Seq(U)
  BY <1>1, UnderMonotonic, SeqMonotonic
<1>3. <<i>> \in Seq(U) /\ <<i>> # <<>> /\ Head(<<i>>) = i /\ Tail(<<i>>) = <<>>
  BY OneInstruction, SeqMonotonic
<1>4. <<>> \in Seq(U)
  BY EmptySeq
<1>5. i[1] = "unlessReady" /\ i[2][1] = id /\ i[2][2] = p
  OBVIOUS
<1> HIDE DEF U, i
<1>6. p \o <<>> = p
  BY <1>2, ConcatEmptySeq
<1>7. \A m, b : Inserts(m, i, b) => b = p
  BY <1>5 DEF Inserts
<1>8. \A m : Passes(m, i) => id \in m.osc.ready
  BY <1>5 DEF Passes
<1>9. \A m : Effect(c, m, i) = m
  BY <1>5 DEF Effect, OnOsc, OnClk, OnDfll, OnModules
<1>10. ClosedUnder(c, R, U, Q)
  <2> SUFFICES ASSUME NEW t, NEW m, <<t, m>> \in R
               PROVE  /\ t \in Seq(U) /\ m \in Good(c)
                      /\ \A n : OscStep(m, n) => <<t, n>> \in R
                      /\ t = <<>> => m \in Q
                      /\ t # <<>> =>
                           /\ Passes(m, Head(t)) => <<Tail(t), Effect(c, m, Head(t))>> \in R
                           /\ \A b : Inserts(m, Head(t), b) =>
                                b \in Seq(U) /\ <<b \o Tail(t), m>> \in R
    BY DEF ClosedUnder
  <2>1. CASE <<t, m>> \in R1
    BY <1>2, <2>1 DEF ClosedUnder
  <2>2. CASE t = <<>> /\ m \in Q
    BY <1>4, <2>2 DEF Assertion
  <2>3. CASE t = <<i>> /\ m \in P
    <3>1. \A n : OscStep(m, n) => <<t, n>> \in R
      BY <2>3 DEF Assertion
    <3>2. Passes(m, i) => <<(<<>>), Effect(c, m, i)>> \in R
      BY <1>8, <1>9, <2>3
    <3>3. \A b : Inserts(m, i, b) => b \in Seq(U) /\ <<b \o <<>>, m>> \in R
      BY <1>1, <1>2, <1>6, <1>7, <2>3
    <3> QED BY <1>3, <2>3, <3>1, <3>2, <3>3 DEF Assertion
  <2> QED BY <2>1, <2>2, <2>3
<1>11. \A m \in P : <<(<<i>>), m>> \in R
  OBVIOUS
<1> HIDE DEF R
<1>12. Triple(c, P, <<i>>, Q)
  BY <1>3, <1>10, <1>11 DEF Triple
<1> QED BY <1>12 DEF UnlessReady, Do, i

\* Instructions that are not about the clocks.
Neutral ==
  {"irqOn", "irqOff", "save", "restore", "locksInit", "lock", "mustBeLocked", "unlock",
   "uddSleepMode", "driverReset", "port", "sleepMode", "sleepEnabled", "sleepEnter"}

LEMMA TripleNeutral ==
  ASSUME NEW c, NEW P, Assertion(c, P), NEW op \in Neutral, NEW arg
  PROVE  Triple(c, P, Do(op, arg), P)
<1>1. op \notin {"unlessReady", "chooseMode"}
  BY DEF Neutral
<1>2. \A m : Effect(c, m, <<op, arg>>) = m
  BY DEF Effect, OnOsc, OnClk, OnDfll, OnModules, Neutral
<1> QED BY <1>1, <1>2, TripleDo

LEMMA TripleCritical ==
  ASSUME NEW c, NEW P, NEW p, NEW Q, Assertion(c, P), Assertion(c, Q), Triple(c, P, p, Q)
  PROVE  Triple(c, P, Critical(p), Q)
<1>1. Triple(c, P, Do("save", "SREG"), P) /\ Triple(c, Q, Do("restore", "SREG"), Q)
  BY TripleNeutral DEF Neutral
<1>2. Triple(c, P, Do("save", "SREG") \o p, Q)
  BY <1>1, TripleConcat
<1> QED BY <1>1, <1>2, TripleConcat DEF Critical

-----------------------------------------------------------------------------
(***************************************************************************)
(* What is known of the clocks between the instructions: what the program  *)
(* alone decides of them (the frame), the oscillators that are known to be *)
(* ready, and facts that the next instructions need.                       *)
(***************************************************************************)
Frame(m) ==
  [source |-> m.clk.source, psa |-> m.clk.psa, psbc |-> m.clk.psbc, usb |-> m.clk.usb,
   rtc |-> m.clk.rtc, gated |-> m.gated, up |-> m.up]

Calibrated(c, m) == Wants48MHz(c) => m.dfll.cal \in {"factory", "sane"}
Tuned(c, m) == c.ref = "USBSOF" /\ "RC32MHZ" \in m.osc.on => Tuning(m.dfll)

Facts(c, m, D) ==
  /\ "tuned" \in D => Tuned(c, m)
  /\ "referred" \in D /\ c.ref = "USBSOF" => Tuning(m.dfll)
  /\ "off" \in D /\ c.ref = "USBSOF" => ~m.dfll.on
  /\ "on" \in D /\ c.ref = "USBSOF" => m.dfll.on
  /\ "pll" \in D => m.clk.pll = c.pll
  /\ "xosc" \in D => m.clk.xosc = CrystalField(c)

At(c, f, S, D) ==
  {m \in Good(c) :
     Frame(m) = f /\ S \subseteq m.osc.ready /\ Calibrated(c, m) /\ Facts(c, m, D)}

\* Before the calibration: RC32MHZ is still off.
Raw(c, f) ==
  {m \in Good(c) : Frame(m) = f /\ "RC32MHZ" \notin m.osc.on /\ ~m.dfll.on}

LEMMA GoodTypes ==
  ASSUME NEW c, NEW m \in Good(c)
  PROVE  /\ m \in Registers(c)
         /\ m.osc \in OscRegisters /\ m.osc.on \subseteq Oscillator
         /\ m.osc.ready \subseteq Oscillator
         /\ m.clk \in ClkRegisters(c) /\ m.dfll \in DfllRegisters
         /\ m.gated \subseteq AllGates /\ m.up \in BOOLEAN
         /\ OscGood(c, m) /\ SourceGood(c, m) /\ PllGood(c, m)
         /\ DfllGood(c, m) /\ UsbGood(c, m)
BY DEF Good, Registers, OscRegisters

\* What a change of one group of registers leaves.
LEMMA OscChange ==
  ASSUME NEW c, NEW m \in Registers(c), NEW o \in OscRegisters, NEW n, n = WithOsc(m, o)
  PROVE  /\ n \in Registers(c) /\ n.osc = o /\ n.clk = m.clk /\ n.dfll = m.dfll
         /\ n.gated = m.gated /\ n.up = m.up
BY DEF Registers, WithOsc

LEMMA ClkChange ==
  ASSUME NEW c, NEW m \in Registers(c), NEW k \in ClkRegisters(c), NEW n, n = WithClk(m, k)
  PROVE  /\ n \in Registers(c) /\ n.osc = m.osc /\ n.clk = k /\ n.dfll = m.dfll
         /\ n.gated = m.gated /\ n.up = m.up
BY DEF Registers, WithClk

LEMMA DfllChange ==
  ASSUME NEW c, NEW m \in Registers(c), NEW d \in DfllRegisters, NEW n, n = WithDfll(m, d)
  PROVE  /\ n \in Registers(c) /\ n.osc = m.osc /\ n.clk = m.clk /\ n.dfll = d
         /\ n.gated = m.gated /\ n.up = m.up
BY DEF Registers, WithDfll

LEMMA GatedChange ==
  ASSUME NEW c, NEW m \in Registers(c), NEW g \in SUBSET AllGates, NEW n, n = WithGated(m, g)
  PROVE  /\ n \in Registers(c) /\ n.osc = m.osc /\ n.clk = m.clk /\ n.dfll = m.dfll
         /\ n.gated = g /\ n.up = m.up
BY DEF Registers, WithGated

LEMMA UpChange ==
  ASSUME NEW c, NEW m \in Registers(c), NEW u \in BOOLEAN, NEW n, n = WithUp(m, u)
  PROVE  /\ n \in Registers(c) /\ n.osc = m.osc /\ n.clk = m.clk /\ n.dfll = m.dfll
         /\ n.gated = m.gated /\ n.up = u
BY DEF Registers, WithUp

\* An oscillator that becomes ready keeps the clocks good, and changes nothing
\* else.
LEMMA OscStepKeeps ==
  ASSUME NEW c, NEW m \in Good(c), NEW n, OscStep(m, n)
  PROVE  /\ n \in Good(c) /\ n.osc.on = m.osc.on /\ m.osc.ready \subseteq n.osc.ready
         /\ n.clk = m.clk /\ n.dfll = m.dfll /\ n.gated = m.gated /\ n.up = m.up
<1>1. PICK id \in m.osc.on \ m.osc.ready :
        /\ id = "PLL" => m.clk.pll.source \in m.osc.ready
        /\ n = WithOsc(m, [m.osc EXCEPT !.ready = m.osc.ready \cup {id}])
  BY DEF OscStep, WithOsc
<1> DEFINE o == [m.osc EXCEPT !.ready = m.osc.ready \cup {id}]
<1>2. o \in OscRegisters /\ o.on = m.osc.on /\ o.ready = m.osc.ready \cup {id}
  BY GoodTypes DEF OscRegisters
<1> HIDE DEF o
<1>3. /\ n \in Registers(c) /\ n.osc = o /\ n.clk = m.clk /\ n.dfll = m.dfll
      /\ n.gated = m.gated /\ n.up = m.up
  BY <1>1, <1>2, OscChange, GoodTypes DEF o
<1>4. OscGood(c, n)
  BY <1>1, <1>2, <1>3, GoodTypes DEF OscGood
<1>5. SourceGood(c, n)
  BY <1>2, <1>3, GoodTypes DEF SourceGood
<1>6. PllGood(c, n)
  BY <1>1, <1>2, <1>3, GoodTypes DEF PllGood
<1>7. DfllGood(c, n)
  BY <1>2, <1>3, GoodTypes DEF DfllGood
<1>8. UsbGood(c, n)
  BY <1>2, <1>3, GoodTypes DEF UsbGood
<1> QED BY <1>2, <1>3, <1>4, <1>5, <1>6, <1>7, <1>8 DEF Good

LEMMA AtAssertion ==
  ASSUME NEW c, NEW f, NEW S, NEW D
  PROVE  Assertion(c, At(c, f, S, D)) /\ Assertion(c, Raw(c, f))
<1>1. ASSUME NEW m \in Good(c), NEW n, OscStep(m, n)
      PROVE  /\ Frame(m) = Frame(n)
             /\ Calibrated(c, m) => Calibrated(c, n)
             /\ Facts(c, m, D) => Facts(c, n, D)
  BY <1>1, OscStepKeeps DEF Frame, Calibrated, Facts, Tuned
<1>2. ASSUME NEW m \in At(c, f, S, D)
      PROVE  m \in Good(c) /\ \A n : OscStep(m, n) => n \in At(c, f, S, D)
  <2>1. m \in Good(c)
    BY DEF At
  <2>2. ASSUME NEW n, OscStep(m, n) PROVE n \in At(c, f, S, D)
    <3>1. n \in Good(c) /\ m.osc.ready \subseteq n.osc.ready
      BY <2>1, <2>2, OscStepKeeps
    <3>2. Frame(m) = f /\ S \subseteq m.osc.ready /\ Calibrated(c, m) /\ Facts(c, m, D)
      BY DEF At
    <3>3. Frame(n) = f /\ Calibrated(c, n) /\ Facts(c, n, D)
      BY <1>1, <2>1, <2>2, <3>2
    <3> QED BY <3>1, <3>2, <3>3 DEF At
  <2> QED BY <2>1, <2>2
<1>3. ASSUME NEW m \in Raw(c, f)
      PROVE  m \in Good(c) /\ \A n : OscStep(m, n) => n \in Raw(c, f)
  <2>1. m \in Good(c)
    BY DEF Raw
  <2>2. ASSUME NEW n, OscStep(m, n) PROVE n \in Raw(c, f)
    <3>1. Frame(m) = f /\ "RC32MHZ" \notin m.osc.on /\ ~m.dfll.on
      BY DEF Raw
    <3>2. n \in Good(c) /\ n.osc.on = m.osc.on /\ n.dfll = m.dfll
      BY <2>1, <2>2, OscStepKeeps
    <3>3. Frame(n) = f
      BY <1>1, <2>1, <2>2, <3>1
    <3> QED BY <3>1, <3>2, <3>3 DEF Raw
  <2> QED BY <2>1, <2>2
<1> QED BY <1>2, <1>3 DEF Assertion

LEMMA AtWeaker ==
  ASSUME NEW c, NEW f, NEW S, NEW T, NEW D, NEW E, T \subseteq S, E \subseteq D
  PROVE  At(c, f, S, D) \subseteq At(c, f, T, E)
BY DEF At, Facts

-----------------------------------------------------------------------------
(***************************************************************************)
(* What the configurations have.                                           *)
(***************************************************************************)
LEMMA ConfigurationFields ==
  ASSUME NEW c \in Configuration
  PROVE  /\ c.source \in Oscillator /\ c.usb \in {"RCOSC", "PLL"}
         /\ c.rc32 \in {32000000, 48000000} /\ c.ref \in {"none", "USBSOF", "RC32KHZ"}
         /\ c.row \in {"factory", "blank"} /\ c.psa \in PsaField /\ c.psbc \in 0..3
         /\ c.pll \in {NoPll, [source |-> "RC2MHZ", mul |-> 24],
                       [source |-> "RC32MHZ", mul |-> 4], [source |-> "XOSC", mul |-> 6],
                       [source |-> "XOSC", mul |-> 24]}
         /\ c.xosc \in {BoardXosc, [type |-> "XTAL", hz |-> 8000000, us |-> 1000],
                        [type |-> "XTAL", hz |-> 2000000, us |-> 500]}
BY SMT DEF Configuration

LEMMA SoundFacts ==
  ASSUME NEW c \in SoundConfigs
  PROVE  /\ c \in Configuration
         /\ c.ref = "USBSOF" => Wants48MHz(c)
         /\ c.ref = "RC32KHZ" => ~Wants48MHz(c)
         /\ ~Wants48MHz(c) => c.rc32 = 32000000
         /\ c.usb = "RCOSC" => c.ref = "USBSOF" /\ Wants48MHz(c)
         /\ c.usb = "PLL" => PllRate(c) = 48000000
         /\ "PLL" \in {c.source, c.usb} => c.pll.source \in {"RC2MHZ", "RC32MHZ", "XOSC"}
<1>1. c \in Configuration
  BY DEF SoundConfigs
<1>2. /\ c.ref = "USBSOF" => Wants48MHz(c)
      /\ c.ref = "RC32KHZ" => ~Wants48MHz(c)
      /\ ~Wants48MHz(c) => c.rc32 = 32000000
  BY SMT, <1>1, ConfigurationFields DEF SoundConfigs, TunedAsCalibrated, Wants48MHz
<1>3. /\ c.usb = "RCOSC" => c.ref = "USBSOF" /\ Wants48MHz(c)
      /\ c.usb = "PLL" => c.pll # NoPll /\ PllRate(c) = 48000000
  BY SMT, <1>1, ConfigurationFields DEF SoundConfigs, UsbAllowed, Wants48MHz
<1>4. "PLL" \in {c.source, c.usb} => c.pll # NoPll
  BY <1>3 DEF SoundConfigs
<1>5. c.pll # NoPll => c.pll.source \in {"RC2MHZ", "RC32MHZ", "XOSC"}
  BY SMT, <1>1, ConfigurationFields
<1> QED BY SMT, <1>1, <1>2, <1>3, <1>4, <1>5

-----------------------------------------------------------------------------
(***************************************************************************)
(* What an instruction needs, and what it makes of a frame.                *)
(***************************************************************************)
LEMMA AtFacts ==
  ASSUME NEW c, NEW f, NEW S, NEW D, NEW m \in At(c, f, S, D)
  PROVE  /\ m \in Good(c) /\ Frame(m) = f /\ S \subseteq m.osc.ready
         /\ Calibrated(c, m) /\ Facts(c, m, D)
         /\ f.source = m.clk.source /\ f.psa = m.clk.psa /\ f.psbc = m.clk.psbc
         /\ f.usb = m.clk.usb /\ f.rtc = m.clk.rtc /\ f.gated = m.gated /\ f.up = m.up
BY DEF At, Frame

LEMMA RawFacts ==
  ASSUME NEW c, NEW f, NEW m \in Raw(c, f)
  PROVE  /\ m \in Good(c) /\ Frame(m) = f /\ "RC32MHZ" \notin m.osc.on /\ ~m.dfll.on
         /\ f.source = m.clk.source /\ f.psa = m.clk.psa /\ f.psbc = m.clk.psbc
         /\ f.usb = m.clk.usb /\ f.rtc = m.clk.rtc /\ f.gated = m.gated /\ f.up = m.up
BY DEF Raw, Frame

\* A change of CLK.
LEMMA ClkKeepsGood ==
  ASSUME NEW c, NEW m \in Good(c), NEW k \in ClkRegisters(c), NEW n, n = WithClk(m, k),
         k.xosc = m.clk.xosc \/ k.xosc = CrystalField(c),
         k.pll = m.clk.pll \/ k.pll = c.pll,
         \/ k.source = m.clk.source /\ k.psa = m.clk.psa /\ k.psbc = m.clk.psbc
         \/ k.source \in m.osc.ready /\ k.psa = c.psa /\ k.psbc = c.psbc,
         \/ k.rtc = m.clk.rtc \/ k.rtc \in {"off", "ULP"}
         \/ RtcOscillator[k.rtc] \in m.osc.ready,
         k.usb = m.clk.usb \/ ~m.up
  PROVE  /\ n \in Good(c) /\ n.osc = m.osc /\ n.clk = k /\ n.dfll = m.dfll
         /\ n.gated = m.gated /\ n.up = m.up
         /\ Calibrated(c, m) => Calibrated(c, n)
<1>1. /\ n \in Registers(c) /\ n.osc = m.osc /\ n.clk = k /\ n.dfll = m.dfll
      /\ n.gated = m.gated /\ n.up = m.up
  BY GoodTypes, ClkChange
<1>2. /\ OscGood(c, m) /\ SourceGood(c, m) /\ PllGood(c, m) /\ DfllGood(c, m)
      /\ UsbGood(c, m) /\ m.osc.ready \subseteq m.osc.on
  BY GoodTypes DEF OscGood
<1>3. OscGood(c, n)
  <2>1. k.rtc \notin DOMAIN RtcOscillator \ {"ULP"} \/ RtcOscillator[k.rtc] \in m.osc.ready
    BY <1>2 DEF OscGood, RtcOscillator
  <2> QED BY <1>1, <1>2, <2>1 DEF OscGood
<1>4. SourceGood(c, n)
  BY <1>1, <1>2 DEF SourceGood
<1>5. PllGood(c, n)
  BY <1>1, <1>2 DEF PllGood
<1>6. DfllGood(c, n) /\ UsbGood(c, n)
  BY <1>1, <1>2 DEF DfllGood, UsbGood
<1>7. Calibrated(c, m) => Calibrated(c, n)
  BY <1>1 DEF Calibrated
<1> QED BY <1>1, <1>3, <1>4, <1>5, <1>6, <1>7 DEF Good

\* A change of DFLL.
LEMMA DfllKeepsGood ==
  ASSUME NEW c, NEW m \in Good(c), NEW d \in DfllRegisters, NEW n, n = WithDfll(m, d),
         ~Wants48MHz(c) => d.cal = m.dfll.cal /\ d.comp = m.dfll.comp,
         Wants48MHz(c) /\ "RC32MHZ" \in m.osc.on =>
           d.cal \in {"factory", "sane"} /\ (d.on => Tuning(d)),
         d.on => c.ref # "none",
         m.up /\ c.usb = "RCOSC" => d.on /\ Tuning(d)
  PROVE  /\ n \in Good(c) /\ n.osc = m.osc /\ n.clk = m.clk /\ n.dfll = d
         /\ n.gated = m.gated /\ n.up = m.up
<1>1. /\ n \in Registers(c) /\ n.osc = m.osc /\ n.clk = m.clk /\ n.dfll = d
      /\ n.gated = m.gated /\ n.up = m.up
  BY GoodTypes, DfllChange
<1>2. /\ OscGood(c, m) /\ SourceGood(c, m) /\ PllGood(c, m) /\ DfllGood(c, m)
      /\ UsbGood(c, m)
  BY GoodTypes
<1>3. OscGood(c, n) /\ SourceGood(c, n) /\ PllGood(c, n)
  BY <1>1, <1>2 DEF OscGood, SourceGood, PllGood
<1>4. DfllGood(c, n)
  <2>1. ~Wants48MHz(c) => AsReset(d)
    BY <1>2 DEF DfllGood, AsReset
  <2> QED BY <1>1, <1>2, <2>1 DEF DfllGood
<1>5. UsbGood(c, n)
  <2>1. m.up /\ m.clk.usb = "RC32MHZ" => c.usb = "RCOSC"
    BY <1>2 DEF UsbGood, UsbSource
  <2> QED BY <1>1, <1>2, <2>1 DEF UsbGood
<1> QED BY <1>1, <1>3, <1>4, <1>5 DEF Good

\* Of an oscillator that is started.
LEMMA OscOnKeepsGood ==
  ASSUME NEW c, NEW m \in Good(c), NEW id \in Oscillator, NEW n,
         n = WithOsc(m, [m.osc EXCEPT !.on = m.osc.on \cup {id}]),
         id = "XOSC" => m.clk.xosc = CrystalField(c),
         id = "PLL" => m.clk.pll = c.pll,
         id = "RC32MHZ" /\ Wants48MHz(c) => m.dfll.cal \in {"factory", "sane"} /\ ~m.dfll.on
  PROVE  /\ n \in Good(c) /\ n.osc.on = m.osc.on \cup {id} /\ n.osc.ready = m.osc.ready
         /\ n.clk = m.clk /\ n.dfll = m.dfll /\ n.gated = m.gated /\ n.up = m.up
<1> DEFINE o == [m.osc EXCEPT !.on = m.osc.on \cup {id}]
<1>1. o \in OscRegisters /\ o.on = m.osc.on \cup {id} /\ o.ready = m.osc.ready
  BY GoodTypes DEF OscRegisters
<1> HIDE DEF o
<1>2. /\ n \in Registers(c) /\ n.osc = o /\ n.clk = m.clk /\ n.dfll = m.dfll
      /\ n.gated = m.gated /\ n.up = m.up
  BY <1>1, GoodTypes, OscChange DEF o
<1>3. /\ OscGood(c, m) /\ SourceGood(c, m) /\ PllGood(c, m) /\ DfllGood(c, m)
      /\ UsbGood(c, m)
  BY GoodTypes
<1>4. OscGood(c, n) /\ SourceGood(c, n) /\ PllGood(c, n)
  BY <1>1, <1>2, <1>3 DEF OscGood, SourceGood, PllGood
<1>5. DfllGood(c, n)
  BY <1>1, <1>2, <1>3 DEF DfllGood
<1>6. UsbGood(c, n)
  BY <1>1, <1>2, <1>3 DEF UsbGood
<1> QED BY <1>1, <1>2, <1>4, <1>5, <1>6 DEF Good

\* A change of the power-reduction registers.
LEMMA GatedKeepsGood ==
  ASSUME NEW c, NEW m \in Good(c), NEW g \in SUBSET AllGates, NEW n, n = WithGated(m, g),
         m.up => UsbGate \notin g
  PROVE  /\ n \in Good(c) /\ n.osc = m.osc /\ n.clk = m.clk /\ n.dfll = m.dfll
         /\ n.gated = g /\ n.up = m.up
         /\ Frame(n) = [Frame(m) EXCEPT !.gated = g]
<1>1. /\ n \in Registers(c) /\ n.osc = m.osc /\ n.clk = m.clk /\ n.dfll = m.dfll
      /\ n.gated = g /\ n.up = m.up
  BY GoodTypes, GatedChange
<1>2. /\ OscGood(c, m) /\ SourceGood(c, m) /\ PllGood(c, m) /\ DfllGood(c, m)
      /\ UsbGood(c, m)
  BY GoodTypes
<1>3. OscGood(c, n) /\ SourceGood(c, n) /\ PllGood(c, n) /\ DfllGood(c, n)
  BY <1>1, <1>2 DEF OscGood, SourceGood, PllGood, DfllGood
<1>4. UsbGood(c, n)
  BY <1>1, <1>2 DEF UsbGood
<1>5. Frame(n) = [Frame(m) EXCEPT !.gated = g]
  BY <1>1 DEF Frame
<1> QED BY <1>1, <1>3, <1>4, <1>5 DEF Good

\* The device is attached or detached.
LEMMA UpKeepsGood ==
  ASSUME NEW c, NEW m \in Good(c), NEW u \in BOOLEAN, NEW n, n = WithUp(m, u),
         u => UsbGate \notin m.gated,
         u => m.clk.usb = UsbSource(c) /\ m.clk.usb \in m.osc.ready,
         u /\ m.clk.usb = "RC32MHZ" => m.dfll.on /\ Tuning(m.dfll)
  PROVE  /\ n \in Good(c) /\ n.osc = m.osc /\ n.clk = m.clk /\ n.dfll = m.dfll
         /\ n.gated = m.gated /\ n.up = u
         /\ Frame(n) = [Frame(m) EXCEPT !.up = u]
<1>1. /\ n \in Registers(c) /\ n.osc = m.osc /\ n.clk = m.clk /\ n.dfll = m.dfll
      /\ n.gated = m.gated /\ n.up = u
  BY GoodTypes, UpChange
<1>2. /\ OscGood(c, m) /\ SourceGood(c, m) /\ PllGood(c, m) /\ DfllGood(c, m)
  BY GoodTypes
<1>3. OscGood(c, n) /\ SourceGood(c, n) /\ PllGood(c, n) /\ DfllGood(c, n)
  BY <1>1, <1>2 DEF OscGood, SourceGood, PllGood, DfllGood
<1>4. UsbGood(c, n)
  BY <1>1 DEF UsbGood
<1>5. Frame(n) = [Frame(m) EXCEPT !.up = u]
  BY <1>1 DEF Frame
<1> QED BY <1>1, <1>3, <1>4, <1>5 DEF Good

-----------------------------------------------------------------------------
(***************************************************************************)
(* Triples of the instructions.                                            *)
(***************************************************************************)
LEMMA XoscConfigDoes ==
  ASSUME NEW c, NEW f, NEW S, NEW D, NEW arg
  PROVE  Triple(c, At(c, f, S, D), Do("xoscConfig", arg), At(c, f, S, D \cup {"xosc"}))
<1> DEFINE i == <<"xoscConfig", arg>>
<1>1. ASSUME NEW m \in At(c, f, S, D), NEW n, n = Effect(c, m, i)
      PROVE  n \in At(c, f, S, D \cup {"xosc"})
  <2> DEFINE k == [m.clk EXCEPT !.xosc = CrystalField(c)]
  <2>1. n = WithClk(m, k)
    BY <1>1 DEF Effect, OnOsc, OnClk, EffectOnClk
  <2>2. /\ k \in ClkRegisters(c) /\ k.source = m.clk.source /\ k.psa = m.clk.psa
        /\ k.psbc = m.clk.psbc /\ k.usb = m.clk.usb /\ k.rtc = m.clk.rtc
        /\ k.pll = m.clk.pll /\ k.xosc = CrystalField(c)
    BY AtFacts, GoodTypes DEF ClkRegisters
  <2> HIDE DEF k
  <2>3. m \in Good(c)
    BY AtFacts
  <2>4. /\ n \in Good(c) /\ n.osc = m.osc /\ n.clk = k /\ n.dfll = m.dfll
        /\ n.gated = m.gated /\ n.up = m.up /\ Calibrated(c, n)
    BY <2>1, <2>2, <2>3, AtFacts, ClkKeepsGood
  <2>5. Frame(n) = f
    BY <2>2, <2>4, AtFacts DEF Frame
  <2>6. Facts(c, n, D \cup {"xosc"}) /\ S \subseteq n.osc.ready
    BY <2>2, <2>4, AtFacts DEF Facts, Tuned
  <2> QED BY <2>4, <2>5, <2>6 DEF At
<1>2. \A m \in At(c, f, S, D) : Effect(c, m, i) \in At(c, f, S, D \cup {"xosc"})
  BY <1>1
<1> QED BY <1>2, TripleDo, AtAssertion

LEMMA PllConfigDoes ==
  ASSUME NEW c, NEW f, NEW S, NEW D, NEW arg
  PROVE  Triple(c, At(c, f, S, D), Do("pllConfig", arg), At(c, f, S, D \cup {"pll"}))
<1> DEFINE i == <<"pllConfig", arg>>
<1>1. ASSUME NEW m \in At(c, f, S, D), NEW n, n = Effect(c, m, i)
      PROVE  n \in At(c, f, S, D \cup {"pll"})
  <2> DEFINE k == [m.clk EXCEPT !.pll = c.pll]
  <2>1. n = WithClk(m, k)
    BY <1>1 DEF Effect, OnOsc, OnClk, EffectOnClk
  <2>2. /\ k \in ClkRegisters(c) /\ k.source = m.clk.source /\ k.psa = m.clk.psa
        /\ k.psbc = m.clk.psbc /\ k.usb = m.clk.usb /\ k.rtc = m.clk.rtc
        /\ k.pll = c.pll /\ k.xosc = m.clk.xosc
    BY AtFacts, GoodTypes DEF ClkRegisters
  <2> HIDE DEF k
  <2>3. m \in Good(c)
    BY AtFacts
  <2>4. /\ n \in Good(c) /\ n.osc = m.osc /\ n.clk = k /\ n.dfll = m.dfll
        /\ n.gated = m.gated /\ n.up = m.up /\ Calibrated(c, n)
    BY <2>1, <2>2, <2>3, AtFacts, ClkKeepsGood
  <2>5. Frame(n) = f
    BY <2>2, <2>4, AtFacts DEF Frame
  <2>6. Facts(c, n, D \cup {"pll"}) /\ S \subseteq n.osc.ready
    BY <2>2, <2>4, AtFacts DEF Facts, Tuned
  <2> QED BY <2>4, <2>5, <2>6 DEF At
<1>2. \A m \in At(c, f, S, D) : Effect(c, m, i) \in At(c, f, S, D \cup {"pll"})
  BY <1>1
<1> QED BY <1>2, TripleDo, AtAssertion

\* The source is selected once it is ready and the prescalers are set.
LEMMA SelectDoes ==
  ASSUME NEW c, NEW f, NEW S, NEW D, NEW arg, c.source \in S, f.psa = c.psa, f.psbc = c.psbc
  PROVE  Triple(c, At(c, f, S, D), Do("select", arg),
                At(c, [f EXCEPT !.source = c.source], S, D))
<1> DEFINE i == <<"select", arg>>
           g == [f EXCEPT !.source = c.source]
<1>1. ASSUME NEW m \in At(c, f, S, D), NEW n, n = Effect(c, m, i)
      PROVE  n \in At(c, g, S, D)
  <2> DEFINE k == [m.clk EXCEPT !.source = c.source]
  <2>1. n = WithClk(m, k)
    BY <1>1 DEF Effect, OnOsc, OnClk, EffectOnClk
  <2>2. /\ k \in ClkRegisters(c) /\ k.source = c.source /\ k.psa = m.clk.psa
        /\ k.psbc = m.clk.psbc /\ k.usb = m.clk.usb /\ k.rtc = m.clk.rtc
        /\ k.pll = m.clk.pll /\ k.xosc = m.clk.xosc
    BY AtFacts, GoodTypes DEF ClkRegisters
  <2> HIDE DEF k
  <2>3. m \in Good(c) /\ k.source \in m.osc.ready /\ k.psa = c.psa /\ k.psbc = c.psbc
    BY <2>2, AtFacts
  <2>4. /\ n \in Good(c) /\ n.osc = m.osc /\ n.clk = k /\ n.dfll = m.dfll
        /\ n.gated = m.gated /\ n.up = m.up /\ Calibrated(c, n)
    BY <2>1, <2>2, <2>3, AtFacts, ClkKeepsGood
  <2>5. Frame(n) = g
    BY <2>2, <2>4, AtFacts DEF Frame
  <2>6. Facts(c, n, D) /\ S \subseteq n.osc.ready
    BY <2>2, <2>4, AtFacts DEF Facts, Tuned
  <2> QED BY <2>4, <2>5, <2>6 DEF At
<1>2. \A m \in At(c, f, S, D) : Effect(c, m, i) \in At(c, g, S, D)
  BY <1>1
<1> QED BY <1>2, TripleDo, AtAssertion

LEMMA UsbClockDoes ==
  ASSUME NEW c, NEW f, NEW S, NEW D, NEW id \in {"off", "RC32MHZ", "PLL"}, ~f.up
  PROVE  Triple(c, At(c, f, S, D), Do("usbClock", id), At(c, [f EXCEPT !.usb = id], S, D))
<1> DEFINE i == <<"usbClock", id>>
           g == [f EXCEPT !.usb = id]
<1>1. ASSUME NEW m \in At(c, f, S, D), NEW n, n = Effect(c, m, i)
      PROVE  n \in At(c, g, S, D)
  <2> DEFINE k == [m.clk EXCEPT !.usb = id]
  <2>1. n = WithClk(m, k)
    BY <1>1 DEF Effect, OnOsc, OnClk, EffectOnClk
  <2>2. /\ k \in ClkRegisters(c) /\ k.source = m.clk.source /\ k.psa = m.clk.psa
        /\ k.psbc = m.clk.psbc /\ k.usb = id /\ k.rtc = m.clk.rtc
        /\ k.pll = m.clk.pll /\ k.xosc = m.clk.xosc
    BY AtFacts, GoodTypes DEF ClkRegisters
  <2> HIDE DEF k
  <2>3. m \in Good(c) /\ ~m.up
    BY <2>2, AtFacts
  <2>4. /\ n \in Good(c) /\ n.osc = m.osc /\ n.clk = k /\ n.dfll = m.dfll
        /\ n.gated = m.gated /\ n.up = m.up /\ Calibrated(c, n)
    BY <2>1, <2>2, <2>3, AtFacts, ClkKeepsGood
  <2>5. Frame(n) = g
    BY <2>2, <2>4, AtFacts DEF Frame
  <2>6. Facts(c, n, D) /\ S \subseteq n.osc.ready
    BY <2>2, <2>4, AtFacts DEF Facts, Tuned
  <2> QED BY <2>4, <2>5, <2>6 DEF At
<1>2. \A m \in At(c, f, S, D) : Effect(c, m, i) \in At(c, g, S, D)
  BY <1>1
<1> QED BY <1>2, TripleDo, AtAssertion

\* The RTC is given an oscillator that is ready.
LEMMA RtcClockDoes ==
  ASSUME NEW c, NEW f, NEW S, NEW D, NEW id \in {"off"} \cup DOMAIN RtcOscillator,
         id \in {"off", "ULP"} \/ RtcOscillator[id] \in S
  PROVE  Triple(c, At(c, f, S, D), Do("rtcClock", id), At(c, [f EXCEPT !.rtc = id], S, D))
<1> DEFINE i == <<"rtcClock", id>>
           g == [f EXCEPT !.rtc = id]
<1>1. ASSUME NEW m \in At(c, f, S, D), NEW n, n = Effect(c, m, i)
      PROVE  n \in At(c, g, S, D)
  <2> DEFINE k == [m.clk EXCEPT !.rtc = id]
  <2>1. n = WithClk(m, k)
    BY <1>1 DEF Effect, OnOsc, OnClk, EffectOnClk
  <2>2. /\ k \in ClkRegisters(c) /\ k.source = m.clk.source /\ k.psa = m.clk.psa
        /\ k.psbc = m.clk.psbc /\ k.usb = m.clk.usb /\ k.rtc = id
        /\ k.pll = m.clk.pll /\ k.xosc = m.clk.xosc
    BY AtFacts, GoodTypes DEF ClkRegisters
  <2> HIDE DEF k
  <2>3. m \in Good(c) /\ (k.rtc \in {"off", "ULP"} \/ RtcOscillator[k.rtc] \in m.osc.ready)
    BY <2>2, AtFacts
  <2>4. /\ n \in Good(c) /\ n.osc = m.osc /\ n.clk = k /\ n.dfll = m.dfll
        /\ n.gated = m.gated /\ n.up = m.up /\ Calibrated(c, n)
    BY <2>1, <2>2, <2>3, AtFacts, ClkKeepsGood
  <2>5. Frame(n) = g
    BY <2>2, <2>4, AtFacts DEF Frame
  <2>6. Facts(c, n, D) /\ S \subseteq n.osc.ready
    BY <2>2, <2>4, AtFacts DEF Facts, Tuned
  <2> QED BY <2>4, <2>5, <2>6 DEF At
<1>2. \A m \in At(c, f, S, D) : Effect(c, m, i) \in At(c, g, S, D)
  BY <1>1
<1> QED BY <1>2, TripleDo, AtAssertion

\* The prescalers are set before the source.
LEMMA PrescaleDoes ==
  ASSUME NEW c, NEW f, NEW arg
  PROVE  Triple(c, Raw(c, f), Do("prescale", arg),
                Raw(c, [[f EXCEPT !.psa = c.psa] EXCEPT !.psbc = c.psbc]))
<1> DEFINE i == <<"prescale", arg>>
           g == [[f EXCEPT !.psa = c.psa] EXCEPT !.psbc = c.psbc]
<1>1. ASSUME NEW m \in Raw(c, f), NEW n, n = Effect(c, m, i)
      PROVE  n \in Raw(c, g)
  <2> DEFINE k == [m.clk EXCEPT !.psa = c.psa, !.psbc = c.psbc]
  <2>1. n = WithClk(m, k)
    BY <1>1 DEF Effect, OnOsc, OnClk, EffectOnClk
  <2>2. /\ k \in ClkRegisters(c) /\ k.source = m.clk.source /\ k.psa = c.psa
        /\ k.psbc = c.psbc /\ k.usb = m.clk.usb /\ k.rtc = m.clk.rtc
        /\ k.pll = m.clk.pll /\ k.xosc = m.clk.xosc
    <3>1. m.clk \in ClkRegisters(c)
      BY RawFacts, GoodTypes
    <3> QED BY <3>1 DEF ClkRegisters
  <2> HIDE DEF k
  <2>3. m \in Good(c) /\ k.source \in m.osc.ready
    BY <2>2, RawFacts, GoodTypes DEF SourceGood
  <2>4. /\ n \in Good(c) /\ n.osc = m.osc /\ n.clk = k /\ n.dfll = m.dfll
        /\ n.gated = m.gated /\ n.up = m.up
    BY <2>1, <2>2, <2>3, ClkKeepsGood
  <2>5. Frame(n) = g
    <3>1. f = Frame(m)
      BY RawFacts
    <3> DEFINE h == [f EXCEPT !.psa = c.psa]
    <3>2. h =
            [source |-> m.clk.source, psa |-> c.psa, psbc |-> m.clk.psbc,
             usb |-> m.clk.usb, rtc |-> m.clk.rtc, gated |-> m.gated, up |-> m.up]
      BY <3>1 DEF Frame
    <3> HIDE DEF h
    <3>3. [h EXCEPT !.psbc = c.psbc] =
            [source |-> m.clk.source, psa |-> c.psa, psbc |-> c.psbc,
             usb |-> m.clk.usb, rtc |-> m.clk.rtc, gated |-> m.gated, up |-> m.up]
      BY <3>2
    <3> QED BY <2>2, <2>4, <3>3 DEF Frame, h
  <2> QED BY <2>4, <2>5, RawFacts DEF Raw
<1>2. \A m \in Raw(c, f) : Effect(c, m, i) \in Raw(c, g)
  BY <1>1
<1> QED BY <1>2, TripleDo, AtAssertion

UsbUp == TRUE
UsbDown == FALSE

\* Every peripheral is stopped first.
LEMMA GateAllDoes ==
  ASSUME NEW c, NEW f, NEW arg, ~f.up
  PROVE  Triple(c, Raw(c, f), Do("gateAll", arg), Raw(c, [f EXCEPT !.gated = AllGates]))
<1> DEFINE i == <<"gateAll", arg>>
           g == [f EXCEPT !.gated = AllGates]
<1>1. ASSUME NEW m \in Raw(c, f), NEW n, n = Effect(c, m, i)
      PROVE  n \in Raw(c, g)
  <2>1. n = WithGated(m, AllGates)
    BY <1>1 DEF Effect, OnOsc, OnClk, OnDfll, OnModules, EffectOnModules
  <2>2. m \in Good(c) /\ m.up = FALSE
    BY RawFacts, GoodTypes
  <2>3. AllGates \in SUBSET AllGates
    OBVIOUS
  <2>4. /\ n \in Good(c) /\ n.osc = m.osc /\ n.clk = m.clk /\ n.dfll = m.dfll
        /\ n.gated = AllGates /\ n.up = m.up
        /\ Frame(n) = [Frame(m) EXCEPT !.gated = AllGates]
    BY <2>1, <2>2, <2>3, GatedKeepsGood
  <2>5. Frame(n) = g
    BY <2>4, RawFacts
  <2> QED BY <2>4, <2>5, RawFacts DEF Raw
<1>2. \A m \in Raw(c, f) : Effect(c, m, i) \in Raw(c, g)
  BY <1>1
<1> QED BY <1>2, TripleDo, AtAssertion

LEMMA UngateDoes ==
  ASSUME NEW c, NEW f, NEW S, NEW D, NEW gate
  PROVE  Triple(c, At(c, f, S, D), Do("ungate", gate),
                At(c, [f EXCEPT !.gated = f.gated \ {gate}], S, D))
<1> DEFINE i == <<"ungate", gate>>
           g == [f EXCEPT !.gated = f.gated \ {gate}]
<1>1. ASSUME NEW m \in At(c, f, S, D), NEW n, n = Effect(c, m, i)
      PROVE  n \in At(c, g, S, D)
  <2> DEFINE h == m.gated \ {gate}
  <2>1. n = WithGated(m, h)
    BY <1>1 DEF Effect, OnOsc, OnClk, OnDfll, OnModules, EffectOnModules
  <2>2. h = f.gated \ {gate}
    BY AtFacts
  <2>7. m \in Good(c) /\ h \in SUBSET AllGates
    BY AtFacts, GoodTypes
  <2>3. m.up => UsbGate \notin h
    BY <2>7, GoodTypes DEF UsbGood
  <2> HIDE DEF h
  <2>8. g = [f EXCEPT !.gated = h]
    BY <2>2
  <2> HIDE DEF g
  <2>4. /\ n \in Good(c) /\ n.osc = m.osc /\ n.clk = m.clk /\ n.dfll = m.dfll
        /\ n.gated = h /\ n.up = m.up
        /\ Frame(n) = [Frame(m) EXCEPT !.gated = h]
    BY <2>1, <2>3, <2>7, GatedKeepsGood
  <2>5. Frame(n) = g
    BY <2>4, <2>8, AtFacts
  <2>6. Facts(c, n, D) /\ S \subseteq n.osc.ready /\ Calibrated(c, n)
    BY <2>4, AtFacts DEF Facts, Tuned, Calibrated
  <2> QED BY <2>4, <2>5, <2>6 DEF At
<1>2. \A m \in At(c, f, S, D) : Effect(c, m, i) \in At(c, g, S, D)
  BY <1>1
<1> QED BY <1>2, TripleDo, AtAssertion

\* The USB module keeps its clock while the device is attached.
LEMMA GateDoes ==
  ASSUME NEW c, NEW f, NEW S, NEW D, NEW gate \in AllGates, gate # UsbGate \/ ~f.up
  PROVE  Triple(c, At(c, f, S, D), Do("gate", gate),
                At(c, [f EXCEPT !.gated = f.gated \cup {gate}], S, D))
<1> DEFINE i == <<"gate", gate>>
           g == [f EXCEPT !.gated = f.gated \cup {gate}]
<1>1. ASSUME NEW m \in At(c, f, S, D), NEW n, n = Effect(c, m, i)
      PROVE  n \in At(c, g, S, D)
  <2> DEFINE h == m.gated \cup {gate}
  <2>1. n = WithGated(m, h)
    BY <1>1 DEF Effect, OnOsc, OnClk, OnDfll, OnModules, EffectOnModules
  <2>2. h = f.gated \cup {gate}
    BY AtFacts
  <2>7. m \in Good(c) /\ h \in SUBSET AllGates
    BY AtFacts, GoodTypes
  <2>3. m.up => UsbGate \notin h
    BY <2>7, AtFacts, GoodTypes DEF UsbGood
  <2> HIDE DEF h
  <2>8. g = [f EXCEPT !.gated = h]
    BY <2>2
  <2> HIDE DEF g
  <2>4. /\ n \in Good(c) /\ n.osc = m.osc /\ n.clk = m.clk /\ n.dfll = m.dfll
        /\ n.gated = h /\ n.up = m.up
        /\ Frame(n) = [Frame(m) EXCEPT !.gated = h]
    BY <2>1, <2>3, <2>7, GatedKeepsGood
  <2>5. Frame(n) = g
    BY <2>4, <2>8, AtFacts
  <2>6. Facts(c, n, D) /\ S \subseteq n.osc.ready /\ Calibrated(c, n)
    BY <2>4, AtFacts DEF Facts, Tuned, Calibrated
  <2> QED BY <2>4, <2>5, <2>6 DEF At
<1>2. \A m \in At(c, f, S, D) : Effect(c, m, i) \in At(c, g, S, D)
  BY <1>1
<1> QED BY <1>2, TripleDo, AtAssertion

\* The device is attached when its clock is there and, if it is RC32MHZ, tuned.
LEMMA AttachDoes ==
  ASSUME NEW c \in SoundConfigs, NEW f, NEW S, NEW arg, UsbGate \notin f.gated,
         f.usb = UsbSource(c), UsbSource(c) \in S
  PROVE  Triple(c, At(c, f, S, {"tuned", "on"}), Do("attach", arg),
                At(c, [f EXCEPT !.up = UsbUp], S, {"tuned"}))
<1> DEFINE i == <<"attach", arg>>
           g == [f EXCEPT !.up = UsbUp]
<1>1. ASSUME NEW m \in At(c, f, S, {"tuned", "on"}), NEW n, n = Effect(c, m, i)
      PROVE  n \in At(c, g, S, {"tuned"})
  <2> DEFINE u == UsbUp
  <2>1. n = WithUp(m, u)
    BY <1>1 DEF Effect, OnOsc, OnClk, OnDfll, OnModules, EffectOnModules, UsbUp, UsbDown
  <2>8. u \in BOOLEAN /\ g = [f EXCEPT !.up = u]
    BY DEF UsbUp, UsbDown
  <2> HIDE DEF u, g
  <2>2. m \in Good(c) /\ m.gated \in SUBSET AllGates /\ UsbGate \notin m.gated
    BY AtFacts, GoodTypes
  <2>3. m.clk.usb = UsbSource(c) /\ m.clk.usb \in m.osc.ready
    BY AtFacts
  <2>4. m.clk.usb = "RC32MHZ" => m.dfll.on /\ Tuning(m.dfll)
    <3>1. m.clk.usb = "RC32MHZ" => c.ref = "USBSOF" /\ "RC32MHZ" \in m.osc.on
      <4>1. m.osc.ready \subseteq m.osc.on
        BY <2>2, GoodTypes DEF OscGood
      <4>2. m.clk.usb = "RC32MHZ" => c.usb = "RCOSC"
        BY <2>3 DEF UsbSource
      <4> QED BY <2>3, <4>1, <4>2, SoundFacts
    <3>2. Facts(c, m, {"tuned", "on"})
      BY AtFacts
    <3> QED BY <3>1, <3>2 DEF Facts, Tuned
  <2>5. /\ n \in Good(c) /\ n.osc = m.osc /\ n.clk = m.clk /\ n.dfll = m.dfll
        /\ n.gated = m.gated /\ n.up = u
        /\ Frame(n) = [Frame(m) EXCEPT !.up = u]
    BY <2>1, <2>2, <2>3, <2>4, <2>8, UpKeepsGood
  <2>6. Frame(n) = g
    BY <2>5, <2>8, AtFacts
  <2>7. Facts(c, n, {"tuned"}) /\ S \subseteq n.osc.ready /\ Calibrated(c, n)
    BY <2>5, AtFacts DEF Facts, Tuned, Calibrated
  <2> QED BY <2>5, <2>6, <2>7 DEF At
<1>2. \A m \in At(c, f, S, {"tuned", "on"}) : Effect(c, m, i) \in At(c, g, S, {"tuned"})
  BY <1>1
<1> QED BY <1>2, TripleDo, AtAssertion

LEMMA DetachDoes ==
  ASSUME NEW c, NEW f, NEW S, NEW D, NEW arg
  PROVE  Triple(c, At(c, f, S, D), Do("detach", arg), At(c, [f EXCEPT !.up = UsbDown], S, D))
<1> DEFINE i == <<"detach", arg>>
           g == [f EXCEPT !.up = UsbDown]
<1>1. ASSUME NEW m \in At(c, f, S, D), NEW n, n = Effect(c, m, i)
      PROVE  n \in At(c, g, S, D)
  <2> DEFINE u == UsbDown
  <2>1. n = WithUp(m, u)
    BY <1>1 DEF Effect, OnOsc, OnClk, OnDfll, OnModules, EffectOnModules, UsbUp, UsbDown
  <2>8. u \in BOOLEAN /\ ~u /\ g = [f EXCEPT !.up = u]
    BY DEF UsbUp, UsbDown
  <2> HIDE DEF u, g
  <2>2. m \in Good(c) /\ m.gated \in SUBSET AllGates
    BY AtFacts, GoodTypes
  <2>3. /\ n \in Good(c) /\ n.osc = m.osc /\ n.clk = m.clk /\ n.dfll = m.dfll
        /\ n.gated = m.gated /\ n.up = u
        /\ Frame(n) = [Frame(m) EXCEPT !.up = u]
    BY <2>1, <2>2, <2>8, UpKeepsGood
  <2>4. Frame(n) = g
    BY <2>3, <2>8, AtFacts
  <2>5. Facts(c, n, D) /\ S \subseteq n.osc.ready /\ Calibrated(c, n)
    BY <2>3, AtFacts DEF Facts, Tuned, Calibrated
  <2> QED BY <2>3, <2>4, <2>5 DEF At
<1>2. \A m \in At(c, f, S, D) : Effect(c, m, i) \in At(c, g, S, D)
  BY <1>1
<1> QED BY <1>2, TripleDo, AtAssertion

\* An oscillator is started: the crystal when it is configured, the PLL too, and
\* RC32MHZ while nothing tunes it for another rate.
LEMMA OscOnDoes ==
  ASSUME NEW c \in SoundConfigs, NEW f, NEW S, NEW D, NEW id \in Oscillator,
         id = "XOSC" => "xosc" \in D, id = "PLL" => "pll" \in D,
         id = "RC32MHZ" => "off" \in D /\ "tuned" \notin D
  PROVE  Triple(c, At(c, f, S, D), Do("oscOn", id), At(c, f, S, D))
<1> DEFINE i == <<"oscOn", id>>
<1>1. ASSUME NEW m \in At(c, f, S, D), NEW n, n = Effect(c, m, i)
      PROVE  n \in At(c, f, S, D)
  <2>1. n = WithOsc(m, [m.osc EXCEPT !.on = m.osc.on \cup {id}])
    BY <1>1 DEF Effect, OnOsc, EffectOnOsc
  <2>2. m \in Good(c) /\ Facts(c, m, D) /\ Calibrated(c, m) /\ DfllGood(c, m)
    BY AtFacts, GoodTypes
  <2>3. /\ id = "XOSC" => m.clk.xosc = CrystalField(c)
        /\ id = "PLL" => m.clk.pll = c.pll
    BY <2>2 DEF Facts
  <2>4. id = "RC32MHZ" /\ Wants48MHz(c) => m.dfll.cal \in {"factory", "sane"} /\ ~m.dfll.on
    <3>1. Wants48MHz(c) => m.dfll.cal \in {"factory", "sane"}
      BY <2>2 DEF Calibrated
    <3>2. Wants48MHz(c) /\ m.dfll.on => c.ref = "USBSOF"
      BY <2>2, SoundFacts, ConfigurationFields DEF DfllGood
    <3>3. "off" \in D /\ c.ref = "USBSOF" => ~m.dfll.on
      BY <2>2 DEF Facts
    <3> QED BY <3>1, <3>2, <3>3
  <2>5. /\ n \in Good(c) /\ n.osc.on = m.osc.on \cup {id} /\ n.osc.ready = m.osc.ready
        /\ n.clk = m.clk /\ n.dfll = m.dfll /\ n.gated = m.gated /\ n.up = m.up
    BY <2>1, <2>2, <2>3, <2>4, OscOnKeepsGood
  <2>6. Frame(n) = f
    BY <2>5, AtFacts DEF Frame
  <2>7. "tuned" \in D => Tuned(c, n)
    BY <2>2, <2>5 DEF Facts, Tuned
  <2>8. Facts(c, n, D) /\ S \subseteq n.osc.ready /\ Calibrated(c, n)
    BY <2>2, <2>5, <2>7, AtFacts DEF Facts, Calibrated
  <2> QED BY <2>5, <2>6, <2>8 DEF At
<1>2. \A m \in At(c, f, S, D) : Effect(c, m, i) \in At(c, f, S, D)
  BY <1>1
<1> QED BY <1>2, TripleDo, AtAssertion

LEMMA WaitReadyDoes ==
  ASSUME NEW c, NEW f, NEW S, NEW D, NEW id
  PROVE  Triple(c, At(c, f, S, D), Do("waitReady", id), At(c, f, S \cup {id}, D))
<1> DEFINE i == <<"waitReady", id>>
<1>1. ASSUME NEW m \in At(c, f, S, D), Passes(m, i)
      PROVE  Effect(c, m, i) \in At(c, f, S \cup {id}, D)
  <2>1. Effect(c, m, i) = m
    BY DEF Effect, OnOsc, OnClk, OnDfll, OnModules
  <2>2. id \in m.osc.ready
    BY <1>1 DEF Passes
  <2> QED BY <2>1, <2>2 DEF At
<1>2. \A m \in At(c, f, S, D) :
        Passes(m, i) => Effect(c, m, i) \in At(c, f, S \cup {id}, D)
  BY <1>1
<1> QED BY <1>2, TripleDo, AtAssertion

LEMMA DfllWritten ==
  ASSUME NEW d \in DfllRegisters, NEW r \in {"USBSOF", "RC32KHZ"},
         NEW v \in DfllTarget, NEW e, e = Written(d, r, v)
  PROVE  /\ e \in DfllRegisters /\ e.on = d.on /\ e.cal = d.cal
         /\ e.ref = r /\ e.comp = v
<1>1. e.on = d.on /\ e.cal = d.cal
  BY SMT DEF DfllRegisters, Written
<1>2. e.ref = r /\ e.comp = v
  BY Zenon DEF DfllRegisters, Written
<1> DEFINE h == [d EXCEPT !.ref = r]
<1>3. h \in DfllRegisters /\ e = [h EXCEPT !.comp = v]
  BY SMT DEF DfllRegisters, Written
<1> HIDE DEF h
<1>4. e \in DfllRegisters
  BY SMT, <1>3 DEF DfllRegisters
<1> QED BY <1>1, <1>2, <1>4

LEMMA ReferredFields ==
  ASSUME NEW c, c.ref \in {"USBSOF", "RC32KHZ"}, NEW d \in DfllRegisters
  PROVE  /\ Referred(c, d) \in DfllRegisters /\ Referred(c, d).on = d.on
         /\ Referred(c, d).cal = d.cal
         /\ c.ref = "USBSOF" => Tuning(Referred(c, d))
         /\ c.ref # "USBSOF" => Referred(c, d).comp = d.comp
<1> DEFINE v == IF c.ref = "USBSOF" THEN 48000000 ELSE d.comp
           r == c.ref
           e == Referred(c, d)
<1>1. v \in DfllTarget /\ r \in {"USBSOF", "RC32KHZ"}
  BY SMT DEF DfllRegisters, DfllTarget
<1>2. e = Written(d, r, v)
  BY DEF Referred
<1>3. (r = "USBSOF" => v = 48000000) /\ (r # "USBSOF" => v = d.comp) /\ r = c.ref
  BY SMT
<1> HIDE DEF v, r, e
<1>4. /\ e \in DfllRegisters /\ e.on = d.on /\ e.cal = d.cal
      /\ e.ref = r /\ e.comp = v
  BY <1>1, <1>2, DfllWritten
<1>5. r = "USBSOF" => Tuning(e)
  BY SMT, <1>3, <1>4 DEF Tuning
<1> QED BY <1>3, <1>4, <1>5 DEF e

\* The reference tunes RC32MHZ for the rate it is calibrated for.
LEMMA ReferenceDoes ==
  ASSUME NEW c \in SoundConfigs, NEW f, NEW S, NEW D, NEW arg, c.ref # "none"
  PROVE  Triple(c, At(c, f, S, D), Do("reference", arg), At(c, f, S, D \cup {"tuned"}))
<1> DEFINE i == <<"reference", arg>>
<1>1. ASSUME NEW m \in At(c, f, S, D), NEW n, n = Effect(c, m, i)
      PROVE  n \in At(c, f, S, D \cup {"tuned"})
  <2> DEFINE d == Referred(c, m.dfll)
  <2>1. n = WithDfll(m, d)
    BY <1>1 DEF Effect, OnOsc, OnClk, OnDfll, EffectOnDfll
  <2>2. m \in Good(c) /\ Facts(c, m, D) /\ Calibrated(c, m) /\ DfllGood(c, m) /\ UsbGood(c, m)
    BY AtFacts, GoodTypes
  <2>3. /\ d \in DfllRegisters /\ d.on = m.dfll.on /\ d.cal = m.dfll.cal
        /\ c.ref = "USBSOF" => Tuning(d)
        /\ c.ref # "USBSOF" => d.comp = m.dfll.comp
    BY <2>2, GoodTypes, SoundFacts, ConfigurationFields, ReferredFields
  <2>4. Wants48MHz(c) => c.ref = "USBSOF"
    BY SoundFacts, ConfigurationFields
  <2> HIDE DEF d
  <2>5. c.usb = "RCOSC" => c.ref = "USBSOF"
    BY SoundFacts
  <2>6. ~Wants48MHz(c) => d.cal = m.dfll.cal /\ d.comp = m.dfll.comp
    BY <2>3, SoundFacts
  <2>7. Wants48MHz(c) /\ "RC32MHZ" \in m.osc.on =>
          d.cal \in {"factory", "sane"} /\ (d.on => Tuning(d))
    BY <2>2, <2>3, <2>4 DEF Calibrated
  <2>8. d.on => c.ref # "none"
    OBVIOUS
  <2>9. m.up /\ c.usb = "RCOSC" => d.on /\ Tuning(d)
    <3>1. m.up /\ c.usb = "RCOSC" => m.dfll.on
      BY <2>2 DEF UsbGood, UsbSource
    <3> QED BY <2>3, <2>5, <3>1
  <2>10. /\ n \in Good(c) /\ n.osc = m.osc /\ n.clk = m.clk /\ n.dfll = d
         /\ n.gated = m.gated /\ n.up = m.up
    BY <2>1, <2>2, <2>3, <2>6, <2>7, <2>8, <2>9, DfllKeepsGood
  <2>11. Frame(n) = f
    BY <2>10, AtFacts DEF Frame
  <2>12. Facts(c, n, D \cup {"tuned"}) /\ S \subseteq n.osc.ready /\ Calibrated(c, n)
    BY <2>2, <2>3, <2>10, AtFacts DEF Facts, Tuned, Calibrated
  <2> QED BY <2>10, <2>11, <2>12 DEF At
<1>2. \A m \in At(c, f, S, D) : Effect(c, m, i) \in At(c, f, S, D \cup {"tuned"})
  BY <1>1
<1> QED BY <1>2, TripleDo, AtAssertion

LEMMA DfllSwitched ==
  ASSUME NEW d \in DfllRegisters, NEW b \in BOOLEAN, NEW e, e = [d EXCEPT !.on = b]
  PROVE  /\ e \in DfllRegisters /\ e.on = b /\ e.cal = d.cal /\ e.comp = d.comp
         /\ Tuning(d) => Tuning(e)
<1>1. /\ e \in DfllRegisters /\ e.on = b /\ e.cal = d.cal /\ e.comp = d.comp
      /\ e.ref = d.ref
  BY SMT DEF DfllRegisters
<1> QED BY SMT, <1>1 DEF Tuning

LEMMA DfllSwitchedOff ==
  ASSUME NEW d \in DfllRegisters, NEW e, e = [d EXCEPT !.on = FALSE]
  PROVE  /\ e \in DfllRegisters /\ ~e.on /\ e.cal = d.cal /\ e.comp = d.comp
         /\ Tuning(d) => Tuning(e)
<1> DEFINE b == FALSE
<1>1. b \in BOOLEAN /\ ~b /\ e = [d EXCEPT !.on = b]
  OBVIOUS
<1> HIDE DEF b
<1> QED BY <1>1, DfllSwitched

LEMMA DfllSwitchedOn ==
  ASSUME NEW d \in DfllRegisters, NEW e, e = [d EXCEPT !.on = TRUE]
  PROVE  /\ e \in DfllRegisters /\ e.on /\ e.cal = d.cal /\ e.comp = d.comp
         /\ Tuning(d) => Tuning(e)
<1> DEFINE b == TRUE
<1>1. b \in BOOLEAN /\ b /\ e = [d EXCEPT !.on = b]
  OBVIOUS
<1> HIDE DEF b
<1> QED BY <1>1, DfllSwitched

\* The DFLL is switched off while the device is detached.
LEMMA DfllOffDoes ==
  ASSUME NEW c, NEW f, NEW S, ~f.up
  PROVE  Triple(c, At(c, f, S, {"tuned"}), Do("dfll", FALSE), At(c, f, S, {"tuned", "off"}))
<1> DEFINE i == <<"dfll", FALSE>>
<1>1. ASSUME NEW m \in At(c, f, S, {"tuned"}), NEW n, n = Effect(c, m, i)
      PROVE  n \in At(c, f, S, {"tuned", "off"})
  <2> DEFINE d == [m.dfll EXCEPT !.on = FALSE]
  <2>1. n = WithDfll(m, d)
    BY <1>1 DEF Effect, OnOsc, OnClk, OnDfll, EffectOnDfll
  <2>2. /\ m \in Good(c) /\ Facts(c, m, {"tuned"}) /\ Calibrated(c, m) /\ DfllGood(c, m)
        /\ ~m.up
    BY AtFacts, GoodTypes
  <2>3. /\ d \in DfllRegisters /\ ~d.on /\ d.cal = m.dfll.cal /\ d.comp = m.dfll.comp
        /\ Tuning(m.dfll) => Tuning(d)
    BY <2>2, GoodTypes, DfllSwitchedOff
  <2> HIDE DEF d
  <2>4. Wants48MHz(c) /\ "RC32MHZ" \in m.osc.on => d.cal \in {"factory", "sane"}
    BY <2>2, <2>3 DEF Calibrated
  <2>5. /\ n \in Good(c) /\ n.osc = m.osc /\ n.clk = m.clk /\ n.dfll = d
        /\ n.gated = m.gated /\ n.up = m.up
    BY <2>1, <2>2, <2>3, <2>4, DfllKeepsGood
  <2>6. Frame(n) = f
    BY <2>5, AtFacts DEF Frame
  <2>7. Facts(c, n, {"tuned", "off"}) /\ S \subseteq n.osc.ready /\ Calibrated(c, n)
    BY <2>2, <2>3, <2>5, AtFacts DEF Facts, Tuned, Calibrated
  <2> QED BY <2>5, <2>6, <2>7 DEF At
<1>2. \A m \in At(c, f, S, {"tuned"}) : Effect(c, m, i) \in At(c, f, S, {"tuned", "off"})
  BY <1>1
<1> QED BY <1>2, TripleDo, AtAssertion

\* It is switched on when it tunes RC32MHZ for the right rate.
LEMMA DfllOnDoes ==
  ASSUME NEW c \in SoundConfigs, NEW f, NEW S, c.ref # "none"
  PROVE  Triple(c, At(c, f, S, {"tuned"}), Do("dfll", TRUE), At(c, f, S, {"tuned", "on"}))
<1> DEFINE i == <<"dfll", TRUE>>
<1>1. ASSUME NEW m \in At(c, f, S, {"tuned"}), NEW n, n = Effect(c, m, i)
      PROVE  n \in At(c, f, S, {"tuned", "on"})
  <2> DEFINE d == [m.dfll EXCEPT !.on = TRUE]
  <2>1. n = WithDfll(m, d)
    BY <1>1 DEF Effect, OnOsc, OnClk, OnDfll, EffectOnDfll
  <2>2. /\ m \in Good(c) /\ Facts(c, m, {"tuned"}) /\ Calibrated(c, m) /\ DfllGood(c, m)
        /\ UsbGood(c, m) /\ Tuned(c, m)
    BY AtFacts, GoodTypes DEF Facts
  <2>3. /\ d \in DfllRegisters /\ d.on /\ d.cal = m.dfll.cal /\ d.comp = m.dfll.comp
        /\ Tuning(m.dfll) => Tuning(d)
    BY <2>2, GoodTypes, DfllSwitchedOn
  <2> HIDE DEF d
  <2>4. Wants48MHz(c) => c.ref = "USBSOF"
    BY SoundFacts, ConfigurationFields
  <2>5. Wants48MHz(c) /\ "RC32MHZ" \in m.osc.on =>
          d.cal \in {"factory", "sane"} /\ (d.on => Tuning(d))
    BY <2>2, <2>3, <2>4 DEF Calibrated, Tuned
  <2>6. m.up /\ c.usb = "RCOSC" => d.on /\ Tuning(d)
    BY <2>2, <2>3 DEF UsbGood, UsbSource
  <2>7. /\ n \in Good(c) /\ n.osc = m.osc /\ n.clk = m.clk /\ n.dfll = d
        /\ n.gated = m.gated /\ n.up = m.up
    BY <2>1, <2>2, <2>3, <2>5, <2>6, DfllKeepsGood
  <2>8. Frame(n) = f
    BY <2>7, AtFacts DEF Frame
  <2>9. Facts(c, n, {"tuned", "on"}) /\ S \subseteq n.osc.ready /\ Calibrated(c, n)
    BY <2>2, <2>3, <2>7, AtFacts DEF Facts, Tuned, Calibrated
  <2> QED BY <2>7, <2>8, <2>9 DEF At
<1>2. \A m \in At(c, f, S, {"tuned"}) : Effect(c, m, i) \in At(c, f, S, {"tuned", "on"})
  BY <1>1
<1> QED BY <1>2, TripleDo, AtAssertion

\* RC32MHZ is calibrated while it is off.
LEMMA RawIsDetuned ==
  ASSUME NEW c, NEW f, NEW m \in Raw(c, f)
  PROVE  Facts(c, m, {"tuned", "off"})
BY RawFacts DEF Facts, Tuned

LEMMA RawIsAt ==
  ASSUME NEW c, NEW f, ~Wants48MHz(c)
  PROVE  Raw(c, f) \subseteq At(c, f, {}, {"tuned", "off"})
<1> SUFFICES ASSUME NEW m \in Raw(c, f) PROVE m \in At(c, f, {}, {"tuned", "off"})
  OBVIOUS
<1>1. Calibrated(c, m)
  BY DEF Calibrated
<1> QED BY <1>1, RawFacts, RawIsDetuned DEF At

LEMMA DfllCalibrated ==
  ASSUME NEW d \in DfllRegisters, NEW v \in {"sane", "factory"}, NEW e,
         e = [d EXCEPT !.cal = v]
  PROVE  /\ e \in DfllRegisters /\ e.on = d.on /\ e.cal = v /\ e.comp = d.comp
         /\ e.ref = d.ref
BY SMT DEF DfllRegisters

LEMMA CalibrateDoes ==
  ASSUME NEW c \in SoundConfigs, NEW f, NEW arg, Wants48MHz(c)
  PROVE  Triple(c, Raw(c, f), Do("calibrate", arg), At(c, f, {}, {"tuned", "off"}))
<1> DEFINE i == <<"calibrate", arg>>
<1>1. ASSUME NEW m \in Raw(c, f), NEW n, n = Effect(c, m, i)
      PROVE  n \in At(c, f, {}, {"tuned", "off"})
  <2> DEFINE v == IF c.row = "blank" THEN "sane" ELSE c.row
             d == [m.dfll EXCEPT !.cal = v]
  <2>1. n = WithDfll(m, d)
    BY <1>1 DEF Effect, OnOsc, OnClk, OnDfll, EffectOnDfll
  <2>2. m \in Good(c) /\ ~m.dfll.on /\ "RC32MHZ" \notin m.osc.on
    BY RawFacts
  <2>3. v \in {"sane", "factory"}
    BY SoundFacts, ConfigurationFields
  <2> HIDE DEF v
  <2>4. m.dfll \in DfllRegisters /\ d = [m.dfll EXCEPT !.cal = v]
    BY <2>2, GoodTypes
  <2> HIDE DEF d
  <2>5. d \in DfllRegisters /\ d.on = m.dfll.on /\ d.cal = v
    BY <2>3, <2>4, DfllCalibrated
  <2>6. m.up /\ c.usb = "RCOSC" => m.dfll.on
    BY <2>2, GoodTypes DEF UsbGood, UsbSource
  <2>7. /\ n \in Good(c) /\ n.osc = m.osc /\ n.clk = m.clk /\ n.dfll = d
        /\ n.gated = m.gated /\ n.up = m.up
    BY <2>1, <2>2, <2>5, <2>6, DfllKeepsGood
  <2>8. Frame(n) = f
    BY <2>7, RawFacts DEF Frame
  <2>9. Calibrated(c, n)
    BY <2>3, <2>5, <2>7 DEF Calibrated
  <2>10. Facts(c, n, {"tuned", "off"})
    BY <2>2, <2>5, <2>7 DEF Facts, Tuned
  <2> QED BY <2>7, <2>8, <2>9, <2>10 DEF At
<1>2. \A m \in Raw(c, f) : Effect(c, m, i) \in At(c, f, {}, {"tuned", "off"})
  BY <1>1
<1> QED BY <1>2, TripleDo, AtAssertion

\* RC2MHZ is stopped when neither the CPU nor the PLL lives on it.
LEMMA OscOffDoes ==
  ASSUME NEW c \in SoundConfigs, NEW f, NEW S, NEW D, ~NeedRc2Mhz(c),
         f.source = c.source, f.rtc = "off", ~f.up
  PROVE  Triple(c, At(c, f, S, D), Do("oscOff", "RC2MHZ"), At(c, f, {}, D))
<1> DEFINE i == <<"oscOff", "RC2MHZ">>
<1>1. ASSUME NEW m \in At(c, f, S, D), NEW n, n = Effect(c, m, i)
      PROVE  n \in At(c, f, {}, D)
  <2> DEFINE on == m.osc.on \ {"RC2MHZ"}
             ready == m.osc.ready
                        \ ({"RC2MHZ"} \cup {id \in {"PLL"} : m.clk.pll.source = "RC2MHZ"})
             o == [on |-> on, ready |-> ready]
  <2>1. n = WithOsc(m, o)
    BY <1>1 DEF Effect, OnOsc, EffectOnOsc
  <2>2. m \in Good(c) /\ m.clk.source = c.source /\ m.clk.rtc = "off" /\ ~m.up
    BY AtFacts
  <2>3. /\ OscGood(c, m) /\ SourceGood(c, m) /\ PllGood(c, m) /\ DfllGood(c, m)
        /\ m.osc.on \subseteq Oscillator /\ m.osc.ready \subseteq m.osc.on
    BY <2>2, GoodTypes DEF OscGood
  <2>4. /\ o \in OscRegisters /\ o.on = on /\ o.ready = ready
    BY <2>3 DEF OscRegisters
  <2> HIDE DEF o
  <2>5. /\ n \in Registers(c) /\ n.osc = o /\ n.clk = m.clk /\ n.dfll = m.dfll
        /\ n.gated = m.gated /\ n.up = m.up
    BY <2>1, <2>2, <2>4, GoodTypes, OscChange
  <2>6. OscGood(c, n)
    BY <2>2, <2>3, <2>4, <2>5 DEF OscGood, RtcOscillator
  <2>7. SourceGood(c, n)
    <3>1. c.source # "RC2MHZ" /\ (c.source = "PLL" => c.pll.source # "RC2MHZ")
      BY DEF NeedRc2Mhz
    <3>2. c.source = "PLL" => m.clk.pll = c.pll
      BY <2>2, <2>3 DEF SourceGood, PllGood
    <3>3. m.clk.source \in ready
      BY <2>2, <2>3, <3>1, <3>2 DEF SourceGood
    <3> QED BY <2>3, <2>4, <2>5, <3>3 DEF SourceGood
  <2>8. PllGood(c, n)
    <3>1. "PLL" \in on => m.clk.pll = c.pll
      BY <2>3 DEF PllGood
    <3>2. "PLL" \in ready => m.clk.pll.source \in ready
      BY <2>3 DEF PllGood
    <3> QED BY <2>4, <2>5, <3>1, <3>2 DEF PllGood
  <2>9. DfllGood(c, n) /\ UsbGood(c, n)
    BY <2>2, <2>3, <2>4, <2>5 DEF DfllGood, UsbGood
  <2>10. Frame(n) = f
    BY <2>5, AtFacts DEF Frame
  <2>11. Calibrated(c, n) /\ Facts(c, n, D)
    BY <2>4, <2>5, AtFacts DEF Calibrated, Facts, Tuned
  <2> QED BY <2>5, <2>6, <2>7, <2>8, <2>9, <2>10, <2>11 DEF At, Good
<1>2. \A m \in At(c, f, S, D) : Effect(c, m, i) \in At(c, f, {}, D)
  BY <1>1
<1> QED BY <1>2, TripleDo, AtAssertion

-----------------------------------------------------------------------------
(***************************************************************************)
(* Triples of the functions.                                               *)
(***************************************************************************)
LEMMA TripleFrom ==
  ASSUME NEW c, NEW f, NEW S, NEW T, NEW D, NEW E, NEW p, NEW Q,
         Triple(c, At(c, f, T, E), p, Q), T \subseteq S, E \subseteq D
  PROVE  Triple(c, At(c, f, S, D), p, Q)
<1>1. At(c, f, S, D) \subseteq At(c, f, T, E)
  BY AtWeaker
<1> QED BY <1>1, TripleWeaken

LEMMA TripleTo ==
  ASSUME NEW c, NEW f, NEW S, NEW T, NEW D, NEW E, NEW p, NEW P,
         Triple(c, P, p, At(c, f, S, D)), T \subseteq S, E \subseteq D
  PROVE  Triple(c, P, p, At(c, f, T, E))
<1>1. At(c, f, S, D) \subseteq At(c, f, T, E)
  BY AtWeaker
<1> QED BY <1>1, TripleWeaken

\* osc_enable and osc_wait_ready of the crystal or of RC32KHZ
LEMMA OscStartDoes ==
  ASSUME NEW c \in SoundConfigs, NEW f, NEW S, NEW D, NEW id \in {"XOSC", "RC32KHZ"}
  PROVE  Triple(c, At(c, f, S, D), OscStart(id), At(c, f, S \cup {id}, D))
<1> DEFINE E == IF id = "XOSC" THEN D \cup {"xosc"} ELSE D
           configure == When(id = "XOSC", Do("xoscConfig", "XOSC"))
           enable == Critical(Do("oscOn", id))
           wait == Do("waitReady", id)
<1>1. Triple(c, At(c, f, S, D), configure, At(c, f, S, E))
  <2>1. CASE id = "XOSC"
    BY <2>1, XoscConfigDoes DEF When
  <2>2. CASE id # "XOSC"
    BY <2>2, TripleNothing, AtAssertion DEF When
  <2> QED BY <2>1, <2>2
<1>2. D \subseteq E /\ (id = "XOSC" => "xosc" \in E) /\ id \in Oscillator
  BY DEF Oscillator
<1> HIDE DEF configure, E
<1>3. Triple(c, At(c, f, S, E), Do("oscOn", id), At(c, f, S, E))
  BY <1>2, OscOnDoes
<1>4. Triple(c, At(c, f, S, E), enable, At(c, f, S, E))
  BY <1>3, TripleCritical, AtAssertion
<1>5. Triple(c, At(c, f, S, E), wait, At(c, f, S \cup {id}, E))
  BY WaitReadyDoes
<1> HIDE DEF enable, wait
<1>6. Triple(c, At(c, f, S, D), configure \o enable, At(c, f, S, E))
  BY <1>1, <1>4, TripleConcat
<1>7. Triple(c, At(c, f, S, D), (configure \o enable) \o wait, At(c, f, S \cup {id}, E))
  BY <1>5, <1>6, TripleConcat
<1>8. Triple(c, At(c, f, S, D), (configure \o enable) \o wait, At(c, f, S \cup {id}, D))
  BY <1>2, <1>7, TripleTo
<1> QED BY <1>8 DEF OscStart, OscEnable, configure, enable, wait

LEMMA OscStartRc32Does ==
  ASSUME NEW c \in SoundConfigs, NEW f, NEW S
  PROVE  Triple(c, At(c, f, S, {"off"}), OscStart("RC32MHZ"), At(c, f, S \cup {"RC32MHZ"}, {"off"}))
<1> DEFINE enable == Critical(Do("oscOn", "RC32MHZ"))
           wait == Do("waitReady", "RC32MHZ")
<1>1. Triple(c, At(c, f, S, {"off"}), Do("oscOn", "RC32MHZ"), At(c, f, S, {"off"}))
  BY OscOnDoes DEF Oscillator
<1>2. Triple(c, At(c, f, S, {"off"}), enable, At(c, f, S, {"off"}))
  BY <1>1, TripleCritical, AtAssertion
<1>3. Triple(c, At(c, f, S, {"off"}), wait, At(c, f, S \cup {"RC32MHZ"}, {"off"}))
  BY WaitReadyDoes
<1>4. OscStart("RC32MHZ") = (<<>> \o enable) \o wait
  BY DEF OscStart, OscEnable, When
<1> HIDE DEF enable, wait
<1>5. Triple(c, At(c, f, S, {"off"}), <<>>, At(c, f, S, {"off"}))
  BY TripleNothing, AtAssertion
<1>6. Triple(c, At(c, f, S, {"off"}), <<>> \o enable, At(c, f, S, {"off"}))
  BY <1>2, <1>5, TripleConcat
<1>7. Triple(c, At(c, f, S, {"off"}), (<<>> \o enable) \o wait,
             At(c, f, S \cup {"RC32MHZ"}, {"off"}))
  BY <1>3, <1>6, TripleConcat
<1> QED BY <1>4, <1>7

LEMMA AutocalibrationDoes ==
  ASSUME NEW c \in SoundConfigs, NEW f, NEW S, c.ref # "none"
  PROVE  Triple(c, At(c, f, S, {"off"}), OscEnableAutocalibration, At(c, f, S, {"tuned"}))
<1> DEFINE refer == Do("reference", "ref")
           switch == Do("dfll", TRUE)
<1>1. Triple(c, At(c, f, S, {"off"}), refer, At(c, f, S, {"off"} \cup {"tuned"}))
  BY ReferenceDoes
<1>2. Triple(c, At(c, f, S, {"off"}), refer, At(c, f, S, {"tuned"}))
  BY <1>1, TripleTo
<1>3. Triple(c, At(c, f, S, {"tuned"}), switch, At(c, f, S, {"tuned", "on"}))
  BY DfllOnDoes
<1> HIDE DEF refer, switch
<1>4. Triple(c, At(c, f, S, {"tuned"}), switch, At(c, f, S, {"tuned"}))
  BY <1>3, TripleTo
<1>5. Triple(c, At(c, f, S, {"off"}), refer \o switch, At(c, f, S, {"tuned"}))
  BY <1>2, <1>4, TripleConcat
<1>6. Triple(c, At(c, f, S, {"off"}), Critical(refer \o switch), At(c, f, S, {"tuned"}))
  BY <1>5, TripleCritical, AtAssertion
<1> QED BY <1>6 DEF OscEnableAutocalibration, refer, switch

\* RC32MHZ is ready, and tuned if it has to be.
LEMMA Rc32StartDoes ==
  ASSUME NEW c \in SoundConfigs, NEW f, NEW S
  PROVE  Triple(c, At(c, f, S, {"off"}), Rc32Start(c), At(c, f, S \cup {"RC32MHZ"}, {"tuned"}))
<1> DEFINE T == S \cup {"RC32MHZ"}
           refstart == When(c.ref # "USBSOF", OscStart(c.ref))
           tune == When(c.ref # "none", refstart \o OscEnableAutocalibration)
<1>1. Triple(c, At(c, f, S, {"off"}), OscStart("RC32MHZ"), At(c, f, T, {"off"}))
  BY OscStartRc32Does
<1> HIDE DEF T
<1>2. Triple(c, At(c, f, T, {"off"}), tune, At(c, f, T, {"tuned"}))
  <2>1. CASE c.ref = "none"
    <3>1. At(c, f, T, {"off"}) \subseteq At(c, f, T, {"tuned"})
      BY <2>1 DEF At, Facts, Tuned
    <3>2. Triple(c, At(c, f, T, {"off"}), <<>>, At(c, f, T, {"off"}))
      BY TripleNothing, AtAssertion
    <3>3. Triple(c, At(c, f, T, {"off"}), <<>>, At(c, f, T, {"tuned"}))
      BY <3>1, <3>2, TripleWeaken
    <3> QED BY <2>1, <3>3 DEF When
  <2>2. CASE c.ref # "none"
    <3>1. Triple(c, At(c, f, T, {"off"}), refstart, At(c, f, T, {"off"}))
      <4>1. CASE c.ref = "USBSOF"
        BY <4>1, TripleNothing, AtAssertion DEF When
      <4>2. CASE c.ref = "RC32KHZ"
        <5>1. Triple(c, At(c, f, T, {"off"}), OscStart("RC32KHZ"), At(c, f, T \cup {"RC32KHZ"}, {"off"}))
          BY OscStartDoes
        <5>2. Triple(c, At(c, f, T, {"off"}), OscStart("RC32KHZ"), At(c, f, T, {"off"}))
          BY <5>1, TripleTo
        <5> QED BY <4>2, <5>2 DEF When
      <4> QED BY <2>2, <4>1, <4>2, SoundFacts, ConfigurationFields
    <3>2. Triple(c, At(c, f, T, {"off"}), OscEnableAutocalibration, At(c, f, T, {"tuned"}))
      BY <2>2, AutocalibrationDoes
    <3> HIDE DEF refstart
    <3>3. Triple(c, At(c, f, T, {"off"}), refstart \o OscEnableAutocalibration, At(c, f, T, {"tuned"}))
      BY <3>1, <3>2, TripleConcat
    <3> QED BY <2>2, <3>3 DEF When
  <2> QED BY <2>1, <2>2
<1> HIDE DEF tune
<1>3. Triple(c, At(c, f, S, {"off"}), OscStart("RC32MHZ") \o tune, At(c, f, T, {"tuned"}))
  BY <1>1, <1>2, TripleConcat
<1> QED BY <1>3 DEF Rc32Start, tune, refstart, T

\* if (!osc_is_ready(OSC_ID_RC32MHZ)) { ... }
LEMMA Rc32NeededDoes ==
  ASSUME NEW c \in SoundConfigs, NEW f, NEW S
  PROVE  Triple(c, At(c, f, S, {"tuned", "off"}), UnlessReady("RC32MHZ", Rc32Start(c)),
                At(c, f, S \cup {"RC32MHZ"}, {"tuned"}))
<1> DEFINE P == At(c, f, S, {"tuned", "off"})
           Q == At(c, f, S \cup {"RC32MHZ"}, {"tuned"})
<1>1. Triple(c, P, Rc32Start(c), Q)
  BY Rc32StartDoes, TripleFrom
<1>2. Assertion(c, P) /\ Assertion(c, Q)
  BY AtAssertion
<1>3. \A m \in P : "RC32MHZ" \in m.osc.ready => m \in Q
  BY DEF At, Facts
<1> HIDE DEF P, Q
<1>4. Triple(c, P, UnlessReady("RC32MHZ", Rc32Start(c)), Q)
  BY <1>1, <1>2, <1>3, TripleUnlessReady
<1> QED BY <1>4 DEF P, Q

LEMMA PllEnableSourceDoes ==
  ASSUME NEW c \in SoundConfigs, NEW f, NEW S, c.pll.source \in {"RC2MHZ", "RC32MHZ", "XOSC"}
  PROVE  Triple(c, At(c, f, S, {"tuned", "off"}), PllEnableSource(c), At(c, f, S, {"tuned"}))
<1> DEFINE P == At(c, f, S, {"tuned", "off"})
           Q == At(c, f, S, {"tuned"})
<1>1. CASE c.pll.source = "RC2MHZ"
  <2>1. Triple(c, P, <<>>, P)
    BY TripleNothing, AtAssertion
  <2>2. Triple(c, P, <<>>, Q)
    BY <2>1, TripleTo
  <2> QED BY <1>1, <2>2 DEF PllEnableSource
<1>2. CASE c.pll.source = "RC32MHZ"
  <2>1. Triple(c, P, UnlessReady("RC32MHZ", Rc32Start(c)), At(c, f, S \cup {"RC32MHZ"}, {"tuned"}))
    BY Rc32NeededDoes
  <2>2. Triple(c, P, UnlessReady("RC32MHZ", Rc32Start(c)), Q)
    BY <2>1, TripleTo
  <2> QED BY <1>2, <2>2 DEF PllEnableSource
<1>3. CASE c.pll.source = "XOSC"
  <2>1. Triple(c, P, OscStart("XOSC"), At(c, f, S \cup {"XOSC"}, {"tuned", "off"}))
    BY OscStartDoes
  <2>2. Triple(c, P, OscStart("XOSC"), Q)
    BY <2>1, TripleTo
  <2>3. Assertion(c, P) /\ Assertion(c, Q) /\ P \subseteq Q
    BY AtAssertion, AtWeaker
  <2> HIDE DEF P, Q
  <2>4. Triple(c, P, UnlessReady("XOSC", OscStart("XOSC")), Q)
    BY <2>2, <2>3, TripleUnlessReady
  <2> QED BY <1>3, <2>4 DEF PllEnableSource, P, Q
<1> QED BY <1>1, <1>2, <1>3

LEMMA PllEnableDoes ==
  ASSUME NEW c \in SoundConfigs, NEW f, NEW S, c.pll.source \in {"RC2MHZ", "RC32MHZ", "XOSC"}
  PROVE  Triple(c, At(c, f, S, {"tuned", "off"}), PllEnableConfigDefaults(c),
                At(c, f, S \cup {"PLL"}, {"tuned"}))
<1> DEFINE P == At(c, f, S, {"tuned", "off"})
           Q == At(c, f, S \cup {"PLL"}, {"tuned"})
           A == At(c, f, S, {"tuned"})
           B == At(c, f, S, {"tuned"} \cup {"pll"})
           source == PllEnableSource(c)
           conf == Do("pllConfig", "PLL0")
           on == Do("oscOn", "PLL")
           wait == Do("waitReady", "PLL")
<1>1. Triple(c, P, source, A)
  BY PllEnableSourceDoes
<1>2. Triple(c, A, conf, B)
  BY PllConfigDoes
<1>3. Triple(c, B, on, B)
  BY OscOnDoes DEF Oscillator
<1>4. Triple(c, B, wait, Q)
  <2>1. Triple(c, B, wait, At(c, f, S \cup {"PLL"}, {"tuned"} \cup {"pll"}))
    BY WaitReadyDoes
  <2> QED BY <2>1, TripleTo
<1>5. /\ Assertion(c, P) /\ Assertion(c, Q) /\ Assertion(c, A) /\ Assertion(c, B)
      /\ \A m \in P : "PLL" \in m.osc.ready => m \in Q
  <2>1. \A m \in P : "PLL" \in m.osc.ready => m \in Q
    BY DEF At, Facts
  <2> QED BY <2>1, AtAssertion
<1> HIDE DEF P, Q, A, B, source, conf, on, wait
<1>6. Triple(c, A, conf \o on, B)
  BY <1>2, <1>3, TripleConcat
<1>7. Triple(c, A, Critical(conf \o on), B)
  BY <1>5, <1>6, TripleCritical
<1>8. Triple(c, P, source \o Critical(conf \o on), B)
  BY <1>1, <1>7, TripleConcat
<1>9. Triple(c, P, (source \o Critical(conf \o on)) \o wait, Q)
  BY <1>4, <1>8, TripleConcat
<1>10. Triple(c, P, UnlessReady("PLL", (source \o Critical(conf \o on)) \o wait), Q)
  BY <1>5, <1>9, TripleUnlessReady
<1> QED BY <1>10 DEF PllEnableConfigDefaults, P, Q, source, conf, on, wait

\* The source of the system clock is ready.
LEMMA StartSourceDoes ==
  ASSUME NEW c \in SoundConfigs, NEW f, f.source = "RC2MHZ"
  PROVE  Triple(c, At(c, f, {}, {"tuned", "off"}), StartSource(c),
                At(c, f, {c.source}, {"tuned"}))
<1> DEFINE P == At(c, f, {}, {"tuned", "off"})
           Q == At(c, f, {c.source}, {"tuned"})
<1>1. CASE c.source = "RC2MHZ"
  <2>1. P \subseteq Q
    <3> SUFFICES ASSUME NEW m \in P PROVE m \in Q
      OBVIOUS
    <3>1. c.source \in m.osc.ready
      BY <1>1, AtFacts, GoodTypes DEF SourceGood
    <3> QED BY <3>1 DEF At, Facts
  <2>2. Triple(c, P, <<>>, P)
    BY TripleNothing, AtAssertion
  <2> HIDE DEF P, Q
  <2>3. Triple(c, P, <<>>, Q)
    BY <2>1, <2>2, TripleWeaken
  <2> QED BY <1>1, <2>3 DEF StartSource, P, Q
<1>2. CASE c.source = "RC32MHZ"
  <2>1. Triple(c, At(c, f, {}, {"off"}), Rc32Start(c), At(c, f, {} \cup {"RC32MHZ"}, {"tuned"}))
    BY Rc32StartDoes
  <2>2. Triple(c, P, Rc32Start(c), At(c, f, {} \cup {"RC32MHZ"}, {"tuned"}))
    BY <2>1, TripleFrom
  <2>3. Triple(c, P, Rc32Start(c), Q)
    BY <1>2, <2>2, TripleTo
  <2> QED BY <1>2, <2>3 DEF StartSource
<1>3. CASE c.source \in {"RC32KHZ", "XOSC"}
  <2>1. Triple(c, P, OscStart(c.source), At(c, f, {} \cup {c.source}, {"tuned", "off"}))
    BY <1>3, OscStartDoes
  <2>2. Triple(c, P, OscStart(c.source), Q)
    BY <2>1, TripleTo
  <2> QED BY <1>3, <2>2 DEF StartSource
<1>4. CASE c.source = "PLL"
  <2>1. Triple(c, P, PllEnableConfigDefaults(c), At(c, f, {} \cup {"PLL"}, {"tuned"}))
    BY <1>4, PllEnableDoes, SoundFacts
  <2>2. Triple(c, P, PllEnableConfigDefaults(c), Q)
    BY <1>4, <2>1, TripleTo
  <2> QED BY <1>4, <2>2 DEF StartSource
<1>5. c.source \in Oscillator
  BY SoundFacts, ConfigurationFields
<1> QED BY <1>1, <1>2, <1>3, <1>4, <1>5 DEF Oscillator

\* The frames of the start-up: as reset leaves them, and after sysclk_init.
ResetFrame ==
  [source |-> "RC2MHZ", psa |-> 0, psbc |-> 0, usb |-> "off", rtc |-> "off",
   gated |-> {}, up |-> UsbDown]
ClockedFrame(c) ==
  [source |-> c.source, psa |-> c.psa, psbc |-> c.psbc, usb |-> "off", rtc |-> "off",
   gated |-> AllGates, up |-> UsbDown]
\* Before the source is selected.
PrescaledFrame(c) ==
  [source |-> "RC2MHZ", psa |-> c.psa, psbc |-> c.psbc, usb |-> "off", rtc |-> "off",
   gated |-> AllGates, up |-> UsbDown]

LEMMA PrescalersDo ==
  ASSUME NEW c \in SoundConfigs
  PROVE  Triple(c, Raw(c, ResetFrame),
                Do("gateAll", "PR") \o When(c.psa # 0 \/ c.psbc # 0, Do("prescale", "PSCTRL")),
                Raw(c, PrescaledFrame(c)))
<1> DEFINE f == [ResetFrame EXCEPT !.gated = AllGates]
           gate == Do("gateAll", "PR")
           prescale == When(c.psa # 0 \/ c.psbc # 0, Do("prescale", "PSCTRL"))
<1>1. ~ResetFrame.up
  BY DEF ResetFrame, UsbDown
<1>2. Triple(c, Raw(c, ResetFrame), gate, Raw(c, f))
  BY <1>1, GateAllDoes
<1>3. f = [source |-> "RC2MHZ", psa |-> 0, psbc |-> 0, usb |-> "off", rtc |-> "off",
           gated |-> AllGates, up |-> UsbDown]
  BY DEF ResetFrame
<1> HIDE DEF f
<1>4. Triple(c, Raw(c, f), prescale, Raw(c, PrescaledFrame(c)))
  <2>1. CASE c.psa # 0 \/ c.psbc # 0
    <3>1. Triple(c, Raw(c, f), Do("prescale", "PSCTRL"),
                 Raw(c, [[f EXCEPT !.psa = c.psa] EXCEPT !.psbc = c.psbc]))
      BY PrescaleDoes
    <3> DEFINE g == [f EXCEPT !.psa = c.psa]
    <3>2. g = [source |-> "RC2MHZ", psa |-> c.psa, psbc |-> 0, usb |-> "off",
               rtc |-> "off", gated |-> AllGates, up |-> UsbDown]
      BY <1>3
    <3> HIDE DEF g
    <3>3. [g EXCEPT !.psbc = c.psbc] = PrescaledFrame(c)
      BY <3>2 DEF PrescaledFrame
    <3> QED BY <2>1, <3>1, <3>3 DEF When, g
  <2>2. CASE ~(c.psa # 0 \/ c.psbc # 0)
    <3>1. c.psa = 0 /\ c.psbc = 0
      BY <2>2
    <3>2. f = PrescaledFrame(c)
      BY <1>3, <3>1 DEF PrescaledFrame
    <3> QED BY <2>2, <3>2, TripleNothing, AtAssertion DEF When
  <2> QED BY <2>1, <2>2
<1> HIDE DEF gate, prescale
<1>5. Triple(c, Raw(c, ResetFrame), gate \o prescale, Raw(c, PrescaledFrame(c)))
  BY <1>2, <1>4, TripleConcat
<1> QED BY <1>5 DEF gate, prescale

LEMMA SysclkInitDoes ==
  ASSUME NEW c \in SoundConfigs
  PROVE  Triple(c, Raw(c, ResetFrame), SysclkInit(c), At(c, ClockedFrame(c), {}, {"tuned"}))
<1> DEFINE f == PrescaledFrame(c)
           A == At(c, f, {}, {"tuned", "off"})
           B == At(c, f, {c.source}, {"tuned"})
           C == At(c, ClockedFrame(c), {c.source}, {"tuned"})
           E == At(c, ClockedFrame(c), {}, {"tuned"})
           first == Do("gateAll", "PR") \o When(c.psa # 0 \/ c.psbc # 0, Do("prescale", "PSCTRL"))
           calibrate == When(c.rc32 = 48000000, Do("calibrate", "RC32MHZ"))
           select == When(c.source # "RC2MHZ", Do("select", "CTRL"))
           stop == When(~NeedRc2Mhz(c), OscDisable("RC2MHZ"))
<1>1. /\ f.source = "RC2MHZ" /\ f.psa = c.psa /\ f.psbc = c.psbc
      /\ [f EXCEPT !.source = c.source] = ClockedFrame(c)
      /\ ClockedFrame(c).source = c.source /\ ClockedFrame(c).rtc = "off"
      /\ ~ClockedFrame(c).up
  <2>1. ~ClockedFrame(c).up
    BY DEF ClockedFrame, UsbDown
  <2> QED BY <2>1 DEF PrescaledFrame, ClockedFrame
<1>2. SysclkInit(c) = (((first \o calibrate) \o StartSource(c)) \o select) \o stop
  BY DEF SysclkInit
<1>3. Triple(c, Raw(c, ResetFrame), first, Raw(c, f))
  BY PrescalersDo
<1> HIDE DEF f
<1>4. Triple(c, Raw(c, f), calibrate, A)
  <2>1. CASE Wants48MHz(c)
    <3>1. calibrate = Do("calibrate", "RC32MHZ")
      BY SMT, <2>1 DEF When, Wants48MHz
    <3> HIDE DEF calibrate
    <3> QED BY <2>1, <3>1, CalibrateDoes
  <2>2. CASE ~Wants48MHz(c)
    <3>1. calibrate = <<>>
      BY SMT, <2>2 DEF When, Wants48MHz
    <3> HIDE DEF calibrate
    <3>2. Triple(c, Raw(c, f), <<>>, Raw(c, f))
      BY TripleNothing, AtAssertion
    <3>3. Raw(c, f) \subseteq A
      BY <2>2, RawIsAt
    <3> QED BY <3>1, <3>2, <3>3, TripleWeaken
  <2> QED BY <2>1, <2>2
<1>5. Triple(c, A, StartSource(c), B)
  BY <1>1, StartSourceDoes
<1>6. Triple(c, B, select, C)
  <2>1. CASE c.source = "RC2MHZ"
    <3>1. f = ClockedFrame(c)
      BY <2>1 DEF f, PrescaledFrame, ClockedFrame
    <3>2. Triple(c, B, <<>>, B)
      BY TripleNothing, AtAssertion
    <3> QED BY <2>1, <3>1, <3>2 DEF When
  <2>2. CASE c.source # "RC2MHZ"
    <3>1. Triple(c, B, Do("select", "CTRL"),
                 At(c, [f EXCEPT !.source = c.source], {c.source}, {"tuned"}))
      BY <1>1, SelectDoes
    <3> QED BY <1>1, <2>2, <3>1 DEF When
  <2> QED BY <2>1, <2>2
<1>7. Triple(c, C, stop, E)
  <2>1. CASE NeedRc2Mhz(c)
    <3>1. Triple(c, C, <<>>, C)
      BY TripleNothing, AtAssertion
    <3>2. Triple(c, C, <<>>, E)
      BY <3>1, TripleTo
    <3> QED BY <2>1, <3>2 DEF When
  <2>2. CASE ~NeedRc2Mhz(c)
    <3>1. Triple(c, C, Do("oscOff", "RC2MHZ"), E)
      BY <1>1, <2>2, OscOffDoes
    <3>2. Triple(c, C, Critical(Do("oscOff", "RC2MHZ")), E)
      BY <3>1, TripleCritical, AtAssertion
    <3> QED BY <2>2, <3>2 DEF When, OscDisable
  <2> QED BY <2>1, <2>2
<1> HIDE DEF A, B, C, E, first, calibrate, select, stop
<1>8. Triple(c, Raw(c, ResetFrame), first \o calibrate, A)
  BY <1>3, <1>4, TripleConcat
<1>9. Triple(c, Raw(c, ResetFrame), (first \o calibrate) \o StartSource(c), B)
  BY <1>5, <1>8, TripleConcat
<1>10. Triple(c, Raw(c, ResetFrame), ((first \o calibrate) \o StartSource(c)) \o select, C)
  BY <1>6, <1>9, TripleConcat
<1>11. Triple(c, Raw(c, ResetFrame), (((first \o calibrate) \o StartSource(c)) \o select) \o stop, E)
  BY <1>7, <1>10, TripleConcat
<1> QED BY <1>2, <1>11 DEF E

\* A frame by its fields.
FrameOf(s, a, b, u, r, g, w) ==
  [source |-> s, psa |-> a, psbc |-> b, usb |-> u, rtc |-> r, gated |-> g, up |-> w]

\* sysclk_enable_module and sysclk_disable_module
LEMMA EnableModuleDoes ==
  ASSUME NEW c, NEW f, NEW S, NEW D, NEW gate
  PROVE  Triple(c, At(c, f, S, D), SysclkEnableModule(gate),
                At(c, [f EXCEPT !.gated = f.gated \ {gate}], S, D))
<1> DEFINE g == [f EXCEPT !.gated = f.gated \ {gate}]
<1>1. Triple(c, At(c, f, S, D), Do("ungate", gate), At(c, g, S, D))
  BY UngateDoes
<1> HIDE DEF g
<1>2. Triple(c, At(c, f, S, D), Critical(Do("ungate", gate)), At(c, g, S, D))
  BY <1>1, TripleCritical, AtAssertion
<1> QED BY <1>2 DEF SysclkEnableModule, g

LEMMA DisableModuleDoes ==
  ASSUME NEW c, NEW f, NEW S, NEW D, NEW gate \in AllGates, gate # UsbGate \/ ~f.up
  PROVE  Triple(c, At(c, f, S, D), SysclkDisableModule(gate),
                At(c, [f EXCEPT !.gated = f.gated \cup {gate}], S, D))
<1> DEFINE g == [f EXCEPT !.gated = f.gated \cup {gate}]
<1>1. Triple(c, At(c, f, S, D), Do("gate", gate), At(c, g, S, D))
  BY GateDoes
<1> HIDE DEF g
<1>2. Triple(c, At(c, f, S, D), Critical(Do("gate", gate)), At(c, g, S, D))
  BY <1>1, TripleCritical, AtAssertion
<1> QED BY <1>2 DEF SysclkDisableModule, g

\* The USB module gets its clock.
LEMMA UsbEnableDoes ==
  ASSUME NEW c \in SoundConfigs, NEW s, NEW a, NEW b, NEW u, NEW r, NEW g
  PROVE  Triple(c, At(c, FrameOf(s, a, b, u, r, g, UsbDown), {}, {"tuned", "off"}),
                SysclkEnableUsb(c),
                At(c, FrameOf(s, a, b, UsbSource(c), r, g \ {UsbGate}, UsbDown),
                   {UsbSource(c)}, {"tuned"}))
<1> DEFINE f == FrameOf(s, a, b, u, r, g, UsbDown)
           f1 == FrameOf(s, a, b, UsbSource(c), r, g, UsbDown)
           f2 == FrameOf(s, a, b, UsbSource(c), r, g \ {UsbGate}, UsbDown)
           S == {UsbSource(c)}
           P == At(c, f, {}, {"tuned", "off"})
           A == At(c, f, S, {"tuned"})
           B == At(c, f1, S, {"tuned"})
           Q == At(c, f2, S, {"tuned"})
           start == IF c.usb = "RCOSC" THEN UnlessReady("RC32MHZ", Rc32Start(c))
                                       ELSE PllEnableConfigDefaults(c)
           clock == Do("usbClock", UsbSource(c))
           module == SysclkEnableModule(UsbGate)
<1>1. /\ ~f.up /\ [f EXCEPT !.usb = UsbSource(c)] = f1 /\ f1.gated = g
      /\ [f1 EXCEPT !.gated = g \ {UsbGate}] = f2
  <2>1. /\ f.up = UsbDown /\ [f EXCEPT !.usb = UsbSource(c)] = f1 /\ f1.gated = g
        /\ [f1 EXCEPT !.gated = g \ {UsbGate}] = f2
    BY DEF FrameOf
  <2> QED BY <2>1 DEF UsbDown
<1> HIDE DEF f, f1, f2
<1>2. UsbSource(c) \in {"RC32MHZ", "PLL"}
  BY DEF UsbSource
<1>3. Triple(c, P, start, A)
  <2>1. CASE c.usb = "RCOSC"
    <3>1. Triple(c, P, UnlessReady("RC32MHZ", Rc32Start(c)),
                 At(c, f, {} \cup {"RC32MHZ"}, {"tuned"}))
      BY Rc32NeededDoes
    <3>2. S \subseteq {} \cup {"RC32MHZ"}
      BY <2>1 DEF UsbSource
    <3> HIDE DEF S
    <3>3. Triple(c, P, UnlessReady("RC32MHZ", Rc32Start(c)), A)
      BY <3>1, <3>2, TripleTo
    <3> QED BY <2>1, <3>3
  <2>2. CASE c.usb # "RCOSC"
    <3>1. c.usb = "PLL"
      BY <2>2, SoundFacts, ConfigurationFields
    <3>2. Triple(c, P, PllEnableConfigDefaults(c), At(c, f, {} \cup {"PLL"}, {"tuned"}))
      BY <3>1, PllEnableDoes, SoundFacts
    <3>3. S \subseteq {} \cup {"PLL"}
      BY <3>1 DEF UsbSource
    <3> HIDE DEF S
    <3>4. Triple(c, P, PllEnableConfigDefaults(c), A)
      BY <3>2, <3>3, TripleTo
    <3> QED BY <2>2, <3>4
  <2> QED BY <2>1, <2>2
<1>4. Triple(c, A, clock, B)
  <2>1. Triple(c, A, clock, At(c, [f EXCEPT !.usb = UsbSource(c)], S, {"tuned"}))
    BY <1>1, <1>2, UsbClockDoes
  <2> QED BY <1>1, <2>1
<1>5. Triple(c, B, module, Q)
  <2>1. Triple(c, B, module, At(c, [f1 EXCEPT !.gated = f1.gated \ {UsbGate}], S, {"tuned"}))
    BY EnableModuleDoes
  <2> QED BY <1>1, <2>1
<1> HIDE DEF P, A, B, Q, start, module
<1>6. Triple(c, P, start \o clock, B)
  BY <1>3, <1>4, TripleConcat
<1>7. Triple(c, P, (start \o clock) \o module, Q)
  BY <1>5, <1>6, TripleConcat
<1>8. SysclkEnableUsb(c) = (start \o clock) \o module
  BY DEF SysclkEnableUsb, UsbSource, start, module
<1> QED BY <1>7, <1>8 DEF P, Q, S, f, f2

LEMMA LockDoes ==
  ASSUME NEW c, NEW f, NEW S, NEW D, NEW mode
  PROVE  /\ Triple(c, At(c, f, S, D), SleepmgrLockMode(mode), At(c, f, S, D))
         /\ Triple(c, At(c, f, S, D), SleepmgrUnlockMode(mode), At(c, f, S, D))
<1> DEFINE P == At(c, f, S, D)
<1>1. Assertion(c, P)
  BY AtAssertion
<1> HIDE DEF P
<1>2. /\ Triple(c, P, Do("lock", mode), P) /\ Triple(c, P, Do("unlock", mode), P)
      /\ Triple(c, P, Do("mustBeLocked", mode), P)
  BY <1>1, TripleNeutral DEF Neutral
<1>3. Triple(c, P, Critical(Do("lock", mode)), P) /\ Triple(c, P, Critical(Do("unlock", mode)), P)
  BY <1>1, <1>2, TripleCritical
<1>4. Triple(c, P, Do("mustBeLocked", mode) \o Critical(Do("unlock", mode)), P)
  BY <1>2, <1>3, TripleConcat
<1> QED BY <1>3, <1>4 DEF SleepmgrLockMode, SleepmgrUnlockMode, P

LEMMA UddAttachDoes ==
  ASSUME NEW c \in SoundConfigs, NEW f, NEW S, UsbGate \notin f.gated,
         f.usb = UsbSource(c), UsbSource(c) \in S
  PROVE  Triple(c, At(c, f, S, {"tuned", "on"}), UddAttach,
                At(c, [f EXCEPT !.up = UsbUp], S, {"tuned"}))
<1> DEFINE P == At(c, f, S, {"tuned", "on"})
           Q == At(c, [f EXCEPT !.up = UsbUp], S, {"tuned"})
           idle == Do("uddSleepMode", TRUE)
           attach == Do("attach", "USB")
<1>1. Assertion(c, P) /\ Assertion(c, Q)
  BY AtAssertion
<1>2. Triple(c, P, attach, Q)
  BY AttachDoes
<1> HIDE DEF P, Q
<1>3. Triple(c, P, idle, P)
  BY <1>1, TripleNeutral DEF Neutral
<1> HIDE DEF idle, attach
<1>4. Triple(c, P, idle \o attach, Q)
  BY <1>2, <1>3, TripleConcat
<1>5. Triple(c, P, Critical(idle \o attach), Q)
  BY <1>1, <1>4, TripleCritical
<1> QED BY <1>5 DEF UddAttach, P, Q, idle, attach

\* The device is attached, with its clock.
LEMMA UddEnableDoes ==
  ASSUME NEW c \in SoundConfigs, NEW s, NEW a, NEW b, NEW u, NEW r, NEW g
  PROVE  Triple(c, At(c, FrameOf(s, a, b, u, r, g, UsbDown), {}, {"tuned"}), UddEnable(c),
                At(c, FrameOf(s, a, b, UsbSource(c), r, g \ {UsbGate}, UsbUp), {}, {"tuned"}))
<1> DEFINE f == FrameOf(s, a, b, u, r, g, UsbDown)
           f1 == FrameOf(s, a, b, UsbSource(c), r, g \ {UsbGate}, UsbDown)
           f2 == FrameOf(s, a, b, UsbSource(c), r, g \ {UsbGate}, UsbUp)
           S == {UsbSource(c)}
           P == At(c, f, {}, {"tuned"})
           A == At(c, f, {}, {"tuned", "off"})
           B == At(c, f1, S, {"tuned"})
           C == At(c, f1, S, {"tuned", "on"})
           E == At(c, f2, S, {"tuned"})
           Q == At(c, f2, {}, {"tuned"})
           off == When(c.ref = "USBSOF", Do("dfll", FALSE))
           on == When(c.ref = "USBSOF", Do("dfll", TRUE))
           reset == Do("driverReset", "USB")
           lock == SleepmgrLockMode(UsbSuspendMode(c))
<1>1. ~f.up /\ f1.usb = UsbSource(c) /\ UsbGate \notin f1.gated /\ [f1 EXCEPT !.up = UsbUp] = f2
  <2>1. /\ f.up = UsbDown /\ f1.usb = UsbSource(c) /\ f1.gated = g \ {UsbGate}
        /\ [f1 EXCEPT !.up = UsbUp] = f2
    BY DEF FrameOf
  <2> QED BY <2>1 DEF UsbDown
<1>2. Triple(c, A, SysclkEnableUsb(c), B)
  BY UsbEnableDoes
<1> HIDE DEF f, f1, f2
<1>3. Triple(c, P, off, A)
  <2>1. CASE c.ref = "USBSOF"
    BY <1>1, <2>1, DfllOffDoes DEF When
  <2>2. CASE c.ref # "USBSOF"
    <3>1. P \subseteq A
      BY <2>2 DEF At, Facts
    <3>2. Triple(c, P, <<>>, P)
      BY TripleNothing, AtAssertion
    <3> HIDE DEF P, A
    <3>3. Triple(c, P, <<>>, A)
      BY <3>1, <3>2, TripleWeaken
    <3> QED BY <2>2, <3>3 DEF When
  <2> QED BY <2>1, <2>2
<1>4. Triple(c, B, on, C)
  <2>1. CASE c.ref = "USBSOF"
    BY <2>1, DfllOnDoes DEF When
  <2>2. CASE c.ref # "USBSOF"
    <3>1. B \subseteq C
      BY <2>2 DEF At, Facts
    <3>2. Triple(c, B, <<>>, B)
      BY TripleNothing, AtAssertion
    <3> HIDE DEF B, C
    <3>3. Triple(c, B, <<>>, C)
      BY <3>1, <3>2, TripleWeaken
    <3> QED BY <2>2, <3>3 DEF When
  <2> QED BY <2>1, <2>2
<1>5. Triple(c, C, lock, C)
  BY LockDoes
<1>6. Triple(c, C, UddAttach, E)
  <2>1. UsbSource(c) \in S
    OBVIOUS
  <2> HIDE DEF S
  <2>2. Triple(c, C, UddAttach, At(c, [f1 EXCEPT !.up = UsbUp], S, {"tuned"}))
    BY <1>1, <2>1, UddAttachDoes
  <2> QED BY <1>1, <2>2
<1>7. Assertion(c, C) /\ Assertion(c, E) /\ E \subseteq Q
  <2>1. E \subseteq Q
    BY DEF At
  <2> QED BY <2>1, AtAssertion
<1> HIDE DEF P, A, B, C, E, Q, off, on, lock
<1>8. Triple(c, C, reset, C)
  BY <1>7, TripleNeutral DEF Neutral
<1>9. Triple(c, C, reset \o lock, C)
  BY <1>5, <1>8, TripleConcat
<1>10. Triple(c, C, (reset \o lock) \o UddAttach, E)
  BY <1>6, <1>9, TripleConcat
<1>11. Triple(c, C, Critical((reset \o lock) \o UddAttach), E)
  BY <1>7, <1>10, TripleCritical
<1>12. Triple(c, P, off \o SysclkEnableUsb(c), B)
  BY <1>2, <1>3, TripleConcat
<1>13. Triple(c, P, (off \o SysclkEnableUsb(c)) \o on, C)
  BY <1>4, <1>12, TripleConcat
<1>14. Triple(c, P, ((off \o SysclkEnableUsb(c)) \o on) \o Critical((reset \o lock) \o UddAttach), E)
  BY <1>11, <1>13, TripleConcat
<1>15. Triple(c, P, ((off \o SysclkEnableUsb(c)) \o on) \o Critical((reset \o lock) \o UddAttach), Q)
  BY <1>7, <1>14, TripleWeaken
<1> QED BY <1>15 DEF UddEnable, P, Q, off, on, lock, f, f2

\* The device is detached, and the USB module loses its clock.
LEMMA UddDisableDoes ==
  ASSUME NEW c \in SoundConfigs, NEW s, NEW a, NEW b, NEW u, NEW r, NEW g, NEW w
  PROVE  Triple(c, At(c, FrameOf(s, a, b, u, r, g, w), {}, {"tuned"}), UddDisable(c),
                At(c, FrameOf(s, a, b, "off", r, g \cup {UsbGate}, UsbDown), {}, {"tuned"}))
<1> DEFINE f == FrameOf(s, a, b, u, r, g, w)
           f1 == FrameOf(s, a, b, u, r, g, UsbDown)
           f2 == FrameOf(s, a, b, u, r, g \cup {UsbGate}, UsbDown)
           f3 == FrameOf(s, a, b, "off", r, g \cup {UsbGate}, UsbDown)
           P == At(c, f, {}, {"tuned"})
           A == At(c, f1, {}, {"tuned"})
           B == At(c, f2, {}, {"tuned"})
           Q == At(c, f3, {}, {"tuned"})
           detach == Do("detach", "USB")
           module == SysclkDisableModule(UsbGate)
           clock == Do("usbClock", "off")
           idle == Do("uddSleepMode", FALSE)
           unlock == SleepmgrUnlockMode(UsbSuspendMode(c))
<1>1. /\ [f EXCEPT !.up = UsbDown] = f1 /\ f1.gated = g /\ ~f1.up
      /\ [f1 EXCEPT !.gated = g \cup {UsbGate}] = f2
      /\ [f2 EXCEPT !.usb = "off"] = f3 /\ ~f2.up
  <2>1. /\ [f EXCEPT !.up = UsbDown] = f1 /\ f1.gated = g /\ f1.up = UsbDown
        /\ [f1 EXCEPT !.gated = g \cup {UsbGate}] = f2
        /\ [f2 EXCEPT !.usb = "off"] = f3 /\ f2.up = UsbDown
    BY DEF FrameOf
  <2> QED BY <2>1 DEF UsbDown
<1> HIDE DEF f, f1, f2, f3
<1>2. Triple(c, P, detach, A)
  <2>1. Triple(c, P, detach, At(c, [f EXCEPT !.up = UsbDown], {}, {"tuned"}))
    BY DetachDoes
  <2> QED BY <1>1, <2>1
<1>3. Triple(c, A, module, B)
  <2>1. UsbGate \in AllGates
    BY DEF AllGates
  <2>2. Triple(c, A, module, At(c, [f1 EXCEPT !.gated = f1.gated \cup {UsbGate}], {}, {"tuned"}))
    BY <1>1, <2>1, DisableModuleDoes
  <2> QED BY <1>1, <2>2
<1>4. Triple(c, B, clock, Q)
  <2>1. Triple(c, B, clock, At(c, [f2 EXCEPT !.usb = "off"], {}, {"tuned"}))
    BY <1>1, UsbClockDoes
  <2> QED BY <1>1, <2>1
<1>5. Triple(c, Q, unlock, Q)
  BY LockDoes
<1>6. Assertion(c, P) /\ Assertion(c, Q)
  BY AtAssertion
<1> HIDE DEF P, A, B, Q, detach, module, clock, unlock
<1>7. Triple(c, Q, idle, Q)
  BY <1>6, TripleNeutral DEF Neutral
<1> HIDE DEF idle
<1>8. Triple(c, A, module \o clock, Q)
  BY <1>3, <1>4, TripleConcat
<1>9. Triple(c, P, detach \o (module \o clock), Q)
  BY <1>2, <1>8, TripleConcat
<1>10. Triple(c, P, (detach \o (module \o clock)) \o idle, Q)
  BY <1>7, <1>9, TripleConcat
<1>11. Triple(c, P, ((detach \o (module \o clock)) \o idle) \o unlock, Q)
  BY <1>5, <1>10, TripleConcat
<1>12. Triple(c, P, Critical(((detach \o (module \o clock)) \o idle) \o unlock), Q)
  BY <1>6, <1>11, TripleCritical
<1>13. UddDisable(c) = Critical(((detach \o (module \o clock)) \o idle) \o unlock)
  BY DEF UddDisable, SysclkDisableUsb, detach, module, clock, idle, unlock
<1> QED BY <1>12, <1>13 DEF P, Q, f, f3

\* sysclk_rtcsrc_enable waits for the oscillator, sysclk_rtcsrc_disable for none.
LEMMA RtcDoes ==
  ASSUME NEW c \in SoundConfigs, NEW f
  PROVE  /\ \A id \in DOMAIN RtcOscillator :
              Triple(c, At(c, f, {}, {"tuned"}), SysclkRtcsrcEnable(id),
                     At(c, [f EXCEPT !.rtc = id], {}, {"tuned"}))
         /\ Triple(c, At(c, f, {}, {"tuned"}), SysclkRtcsrcDisable,
                   At(c, [f EXCEPT !.rtc = "off"], {}, {"tuned"}))
<1>1. ASSUME NEW id \in DOMAIN RtcOscillator
      PROVE  Triple(c, At(c, f, {}, {"tuned"}), SysclkRtcsrcEnable(id),
                    At(c, [f EXCEPT !.rtc = id], {}, {"tuned"}))
  <2> DEFINE o == RtcOscillator[id]
             P == At(c, f, {}, {"tuned"})
             A == At(c, f, {o}, {"tuned"})
             start == When(o # "ULP", OscStart(o))
             clock == Do("rtcClock", id)
             g == [f EXCEPT !.rtc = id]
             Q == At(c, g, {}, {"tuned"})
  <2>1. o \in {"ULP", "RC32KHZ", "XOSC"} /\ (o = "ULP" => id = "ULP")
    BY DEF RtcOscillator
  <2> HIDE DEF o
  <2>2. CASE o = "ULP"
    <3>1. Triple(c, P, <<>>, P)
      BY TripleNothing, AtAssertion
    <3>2. Triple(c, P, clock, Q)
      BY <2>1, <2>2, RtcClockDoes
    <3>3. Triple(c, P, <<>> \o clock, Q)
      <4> HIDE DEF P, clock, Q
      <4> QED BY <3>1, <3>2, TripleConcat
    <3> QED BY <2>2, <3>3 DEF SysclkRtcsrcEnable, When, o
  <2>3. CASE o # "ULP"
    <3>1. Triple(c, P, OscStart(o), At(c, f, {} \cup {o}, {"tuned"}))
      BY <2>1, <2>3, OscStartDoes
    <3>2. Triple(c, P, OscStart(o), A)
      <4> HIDE DEF P
      <4> QED BY <3>1, TripleTo
    <3>3. Triple(c, A, clock, At(c, g, {o}, {"tuned"}))
      BY RtcClockDoes DEF o
    <3>4. Triple(c, A, clock, Q)
      <4> HIDE DEF A, clock, g
      <4> QED BY <3>3, TripleTo
    <3>5. Triple(c, P, OscStart(o) \o clock, Q)
      <4> HIDE DEF P, A, clock, Q
      <4> QED BY <3>2, <3>4, TripleConcat
    <3> QED BY <2>3, <3>5 DEF SysclkRtcsrcEnable, When, o
  <2> QED BY <2>2, <2>3
<1>2. Triple(c, At(c, f, {}, {"tuned"}), SysclkRtcsrcDisable,
             At(c, [f EXCEPT !.rtc = "off"], {}, {"tuned"}))
  BY RtcClockDoes DEF SysclkRtcsrcDisable
<1> QED BY <1>1, <1>2

LEMMA IoInitDoes ==
  ASSUME NEW c, NEW P, Assertion(c, P) PROVE Triple(c, P, IoInit, P)
<1>1. \A p : Triple(c, P, Do("port", p), P)
  BY TripleNeutral DEF Neutral
<1> QED BY <1>1, TripleConcat DEF IoInit

\* The instructions that sleepmgr_enter_sleep may insert.
SleepInstruction ==
  {<<"irqOn", "SREG">>, <<"sleepEnabled", TRUE>>, <<"sleepEnabled", FALSE>>,
   <<"sleepEnter", "SREG">>} \cup {<<"sleepMode", SleepmgrConfigs[k - 1]>> : k \in 2..6}

LEMMA SleepInstructions ==
  /\ Do("irqOn", "SREG") \in Seq(SleepInstruction)
  /\ \A k \in 2..6 : SleepIn(k) \in Seq(SleepInstruction)
  /\ \A i \in SleepInstruction : i[1] \in Neutral
<1>1. \A i \in SleepInstruction : <<i>> \in Seq(SleepInstruction)
  OBVIOUS
<1>2. ASSUME NEW i \in SleepInstruction PROVE i[1] \in Neutral
  <2>1. CASE \E k \in 2..6 : i = <<"sleepMode", SleepmgrConfigs[k - 1]>>
    BY <2>1 DEF Neutral
  <2>2. CASE i \in {<<"irqOn", "SREG">>, <<"sleepEnter", "SREG">>,
                    <<"sleepEnabled", TRUE>>, <<"sleepEnabled", FALSE>>}
    <3>1. \A x, y : <<x, y>>[1] = x
      OBVIOUS
    <3>2. i[1] \in {"irqOn", "sleepEnter", "sleepEnabled"}
      BY Zenon, <2>2, <3>1
    <3> QED BY <3>2 DEF Neutral
  <2> QED BY <2>1, <2>2 DEF SleepInstruction
<1>3. /\ Do("irqOn", "SREG") \in Seq(SleepInstruction)
      /\ Do("sleepEnabled", TRUE) \in Seq(SleepInstruction)
      /\ Do("sleepEnabled", FALSE) \in Seq(SleepInstruction)
      /\ Do("sleepEnter", "SREG") \in Seq(SleepInstruction)
  BY <1>1 DEF Do, SleepInstruction
<1>4. \A k \in 2..6 : Do("sleepMode", SleepmgrConfigs[k - 1]) \in Seq(SleepInstruction)
  <2> SUFFICES ASSUME NEW k \in 2..6
               PROVE  Do("sleepMode", SleepmgrConfigs[k - 1]) \in Seq(SleepInstruction)
    OBVIOUS
  <2>1. <<"sleepMode", SleepmgrConfigs[k - 1]>> \in SleepInstruction
    BY DEF SleepInstruction
  <2> QED BY <1>1, <2>1 DEF Do
<1>5. \A k \in 2..6 : SleepIn(k) \in Seq(SleepInstruction)
  BY <1>3, <1>4, ConcatProperties DEF SleepIn
<1> QED BY <1>2, <1>3, <1>5

\* sleepmgr_enter_sleep touches no clock.
LEMMA EnterSleepDoes ==
  ASSUME NEW c, NEW P, Assertion(c, P) PROVE Triple(c, P, SleepmgrEnterSleep, P)
<1> DEFINE i == <<"chooseMode", "SLEEP">>
           U == SleepInstruction \cup {i}
           R == {<<p, m>> : p \in Seq(SleepInstruction), m \in P} \cup {<< <<i>>, m>> : m \in P}
<1>1. <<i>> \in Seq(U) /\ <<i>> # <<>> /\ Head(<<i>>) = i /\ Tail(<<i>>) = <<>>
  BY OneInstruction, SeqMonotonic
<1>2. \A p \in Seq(SleepInstruction) : p \in Seq(U)
  BY SeqMonotonic
<1>3. i[1] = "chooseMode"
  OBVIOUS
<1>4. ASSUME NEW p \in Seq(SleepInstruction), p # <<>>
      PROVE  Head(p) \in SleepInstruction /\ Tail(p) \in Seq(SleepInstruction)
  BY <1>4, HeadTailProperties
<1> HIDE DEF U, i
<1>5. \A p \in Seq(SleepInstruction), m \in P : <<p, m>> \in R
  OBVIOUS
<1>6. \A m \in P : <<(<<i>>), m>> \in R
  OBVIOUS
<1>7. ASSUME NEW t, NEW m, <<t, m>> \in R
      PROVE  m \in P /\ (t \in Seq(SleepInstruction) \/ t = <<i>>)
  BY <1>7
<1> HIDE DEF R
<1>8. ClosedUnder(c, R, U, P)
  <2> SUFFICES ASSUME NEW t, NEW m, <<t, m>> \in R
               PROVE  /\ t \in Seq(U) /\ m \in Good(c)
                      /\ \A n : OscStep(m, n) => <<t, n>> \in R
                      /\ t = <<>> => m \in P
                      /\ t # <<>> =>
                           /\ Passes(m, Head(t)) => <<Tail(t), Effect(c, m, Head(t))>> \in R
                           /\ \A b : Inserts(m, Head(t), b) =>
                                b \in Seq(U) /\ <<b \o Tail(t), m>> \in R
    BY DEF ClosedUnder
  <2>1. m \in P /\ m \in Good(c) /\ \A n : OscStep(m, n) => n \in P
    BY <1>7 DEF Assertion
  <2>2. CASE t \in Seq(SleepInstruction)
    <3>1. t # <<>> => Head(t)[1] \in Neutral /\ Tail(t) \in Seq(SleepInstruction)
      BY <1>4, <2>2, SleepInstructions
    <3>2. t # <<>> => Effect(c, m, Head(t)) = m /\ \A b : ~Inserts(m, Head(t), b)
      BY <3>1 DEF Effect, Inserts, OnOsc, OnClk, OnDfll, OnModules, Neutral
    <3> QED BY <1>2, <1>5, <2>1, <2>2, <3>1, <3>2
  <2>3. CASE t = <<i>>
    <3>1. ~Passes(m, i)
      BY <1>3 DEF Passes
    <3>2. ASSUME NEW b, Inserts(m, i, b) PROVE b \in Seq(U) /\ <<b \o <<>>, m>> \in R
      <4>1. b \in Seq(SleepInstruction)
        BY <1>3, <3>2, SleepInstructions DEF Inserts
      <4>2. b \o <<>> = b
        BY <4>1, ConcatEmptySeq
      <4> QED BY <1>2, <1>5, <2>1, <4>1, <4>2
    <3>3. \A n : OscStep(m, n) => <<t, n>> \in R
      BY <1>6, <2>1, <2>3
    <3> QED BY <1>1, <2>1, <2>3, <3>1, <3>2, <3>3
  <2> QED BY <1>7, <2>2, <2>3
<1>9. Triple(c, P, <<i>>, P)
  BY <1>1, <1>6, <1>8 DEF Triple
<1>10. Triple(c, P, Do("chooseMode", "SLEEP"), P)
  BY <1>9 DEF Do, i
<1>11. Triple(c, P, Do("irqOff", "SREG"), P)
  BY TripleNeutral DEF Neutral
<1> QED BY <1>10, <1>11, TripleConcat DEF SleepmgrEnterSleep

\* main, up to its loop
MainFrame(c) ==
  FrameOf(c.source, c.psa, c.psbc, UsbSource(c), "off", AllGates \ {UsbGate}, UsbUp)

LEMMA MainDoes ==
  ASSUME NEW c \in SoundConfigs
  PROVE  Triple(c, Raw(c, ResetFrame), Main(c), At(c, MainFrame(c), {}, {"tuned"}))
<1> DEFINE P == Raw(c, ResetFrame)
           A == At(c, ClockedFrame(c), {}, {"tuned"})
           Q == At(c, MainFrame(c), {}, {"tuned"})
           on == Do("irqOn", "SREG")
           init == Do("locksInit", "locks")
<1>1. Assertion(c, P) /\ Assertion(c, Q)
  BY AtAssertion
<1>2. Triple(c, P, SysclkInit(c), A)
  BY SysclkInitDoes
<1>3. Triple(c, A, UddEnable(c), Q)
  <2>1. ClockedFrame(c) = FrameOf(c.source, c.psa, c.psbc, "off", "off", AllGates, UsbDown)
    BY DEF ClockedFrame, FrameOf
  <2> QED BY <2>1, UddEnableDoes DEF MainFrame
<1> HIDE DEF P, A, Q
<1>4. Triple(c, P, on, P) /\ Triple(c, P, init, P)
  BY <1>1, TripleNeutral DEF Neutral
<1>5. Triple(c, Q, IoInit, Q)
  BY <1>1, IoInitDoes
<1> HIDE DEF on, init
<1>6. Triple(c, P, on \o init, P)
  BY <1>4, TripleConcat
<1>7. Triple(c, P, (on \o init) \o SysclkInit(c), A)
  BY <1>2, <1>6, TripleConcat
<1>8. Triple(c, P, ((on \o init) \o SysclkInit(c)) \o UddEnable(c), Q)
  BY <1>3, <1>7, TripleConcat
<1>9. Triple(c, P, (((on \o init) \o SysclkInit(c)) \o UddEnable(c)) \o IoInit, Q)
  BY <1>5, <1>8, TripleConcat
<1> QED BY <1>9 DEF Main, P, Q, on, init

-----------------------------------------------------------------------------
(***************************************************************************)
(* The loop of main, with the peripherals of the set N in use.             *)
(***************************************************************************)
LoopGates(N, w) ==
  AllGates \ ({EnableGate[n] : n \in N} \cup (IF w THEN {UsbGate} ELSE {}))

Loop(c, N) ==
  {m \in Good(c) :
     /\ m.clk.source = c.source /\ m.clk.psa = c.psa /\ m.clk.psbc = c.psbc
     /\ Calibrated(c, m) /\ Tuned(c, m)
     /\ m.gated = LoopGates(N, m.up)}

LoopFrame(c, N, u, r, w) ==
  FrameOf(c.source, c.psa, c.psbc, u, r, LoopGates(N, w), w)

\* The tables of power-reduction bits agree, and give each peripheral a bit of
\* its own.
LEMMA EnabledAsDisabled == \A n \in Peripheral : DisableGate[n] = EnableGate[n]
BY DEF Peripheral, EnableGate, DisableGate, EnableGeneral, EnableAnalog, EnableTimers,
   EnableSerial, DisableGeneral, DisableAnalog, DisableTimers, DisableSerial

LEMMA GatesDiffer ==
  /\ \A n \in Peripheral : EnableGate[n] # UsbGate
  /\ \A n \in Peripheral, k \in Peripheral : EnableGate[n] = EnableGate[k] => n = k
BY DEF Peripheral, EnableGate, EnableGeneral, EnableAnalog, EnableTimers, EnableSerial, UsbGate

LEMMA LoopGatesChange ==
  ASSUME NEW N \in SUBSET Peripheral, NEW w
  PROVE  /\ LoopGates({}, UsbUp) = AllGates \ {UsbGate}
         /\ LoopGates(N, w) \cup {UsbGate} = LoopGates(N, UsbDown)
         /\ LoopGates(N, UsbDown) \ {UsbGate} = LoopGates(N, UsbUp)
         /\ \A n \in Peripheral \ N :
              LoopGates(N, w) \ {EnableGate[n]} = LoopGates(N \cup {n}, w)
         /\ \A n \in N : LoopGates(N, w) \cup {EnableGate[n]} = LoopGates(N \ {n}, w)
<1>1. UsbGate \in AllGates /\ \A n \in Peripheral : EnableGate[n] \in AllGates
  BY DEF AllGates
<1>2. LoopGates({}, UsbUp) = AllGates \ {UsbGate}
  BY DEF LoopGates, UsbUp
<1>3. LoopGates(N, w) \cup {UsbGate} = LoopGates(N, UsbDown)
  BY <1>1, GatesDiffer DEF LoopGates, UsbDown
<1>4. LoopGates(N, UsbDown) \ {UsbGate} = LoopGates(N, UsbUp)
  BY DEF LoopGates, UsbUp, UsbDown
<1>5. \A n \in Peripheral \ N :
        LoopGates(N, w) \ {EnableGate[n]} = LoopGates(N \cup {n}, w)
  BY DEF LoopGates
<1>6. ASSUME NEW n \in N
      PROVE  LoopGates(N, w) \cup {EnableGate[n]} = LoopGates(N \ {n}, w)
  <2>1. EnableGate[n] \in AllGates /\ EnableGate[n] # UsbGate
    BY <1>1, GatesDiffer
  <2>2. \A k \in N : EnableGate[k] = EnableGate[n] <=> k = n
    BY GatesDiffer
  <2>3. {EnableGate[k] : k \in N \ {n}} = {EnableGate[k] : k \in N} \ {EnableGate[n]}
    BY <2>2
  <2> QED BY <2>1, <2>3 DEF LoopGates
<1> QED BY <1>2, <1>3, <1>4, <1>5, <1>6

LEMMA LoopIsAt ==
  ASSUME NEW c, NEW N
  PROVE  /\ \A m \in Loop(c, N) :
              m \in At(c, LoopFrame(c, N, m.clk.usb, m.clk.rtc, m.up), {}, {"tuned"})
         /\ \A u, r, w : At(c, LoopFrame(c, N, u, r, w), {}, {"tuned"}) \subseteq Loop(c, N)
<1>1. ASSUME NEW m \in Loop(c, N)
      PROVE  m \in At(c, LoopFrame(c, N, m.clk.usb, m.clk.rtc, m.up), {}, {"tuned"})
  <2>1. Frame(m) = LoopFrame(c, N, m.clk.usb, m.clk.rtc, m.up)
    BY DEF Loop, Frame, LoopFrame, FrameOf
  <2>2. Facts(c, m, {"tuned"})
    BY DEF Loop, Facts
  <2> QED BY <2>1, <2>2 DEF At, Loop
<1>2. ASSUME NEW u, NEW r, NEW w, NEW m \in At(c, LoopFrame(c, N, u, r, w), {}, {"tuned"})
      PROVE  m \in Loop(c, N)
  <2> DEFINE f == LoopFrame(c, N, u, r, w)
  <2>1. /\ f.source = c.source /\ f.psa = c.psa /\ f.psbc = c.psbc
        /\ f.gated = LoopGates(N, w) /\ f.up = w
    BY DEF LoopFrame, FrameOf
  <2> HIDE DEF f
  <2>2. /\ m \in Good(c) /\ Calibrated(c, m) /\ Facts(c, m, {"tuned"})
        /\ f.source = m.clk.source /\ f.psa = m.clk.psa /\ f.psbc = m.clk.psbc
        /\ f.gated = m.gated /\ f.up = m.up
    BY AtFacts DEF f
  <2>3. Tuned(c, m)
    BY <2>2 DEF Facts
  <2> QED BY <2>1, <2>2, <2>3 DEF Loop
<1> QED BY <1>1, <1>2

\* A call from the loop that comes back to it.
LEMMA LoopCall ==
  ASSUME NEW c, NEW N, NEW K, NEW m \in Loop(c, N), NEW p, NEW u, NEW r, NEW w,
         Triple(c, At(c, LoopFrame(c, N, m.clk.usb, m.clk.rtc, m.up), {}, {"tuned"}), p,
                At(c, LoopFrame(c, K, u, r, w), {}, {"tuned"}))
  PROVE  Triple(c, {m}, p, Loop(c, K))
<1> DEFINE P == At(c, LoopFrame(c, N, m.clk.usb, m.clk.rtc, m.up), {}, {"tuned"})
           Q == At(c, LoopFrame(c, K, u, r, w), {}, {"tuned"})
<1>1. {m} \subseteq P /\ Q \subseteq Loop(c, K)
  BY LoopIsAt
<1> HIDE DEF P, Q
<1> QED BY <1>1, TripleWeaken DEF P, Q

LEMMA LoopCalls ==
  ASSUME NEW c \in SoundConfigs, NEW N \in SUBSET Peripheral, NEW m \in Loop(c, N)
  PROVE  /\ Triple(c, {m}, SleepmgrEnterSleep, Loop(c, N))
         /\ \A mode : /\ Triple(c, {m}, SleepmgrLockMode(mode), Loop(c, N))
                      /\ Triple(c, {m}, SleepmgrUnlockMode(mode), Loop(c, N))
         /\ Triple(c, {m}, UddDisable(c), Loop(c, N))
         /\ ~m.up => Triple(c, {m}, UddEnable(c), Loop(c, N))
         /\ \A id \in DOMAIN RtcOscillator :
              Triple(c, {m}, SysclkRtcsrcEnable(id), Loop(c, N))
         /\ Triple(c, {m}, SysclkRtcsrcDisable, Loop(c, N))
         /\ \A n \in Peripheral \ N :
              Triple(c, {m}, SysclkEnableModule(EnableGate[n]), Loop(c, N \cup {n}))
         /\ \A n \in N :
              Triple(c, {m}, SysclkDisableModule(DisableGate[n]), Loop(c, N \ {n}))
<1> DEFINE u == m.clk.usb
           r == m.clk.rtc
           w == m.up
           f == LoopFrame(c, N, u, r, w)
           P == At(c, f, {}, {"tuned"})
<1>1. Assertion(c, P)
  BY AtAssertion
<1>2. \A K, v, s, z, p :
        Triple(c, P, p, At(c, LoopFrame(c, K, v, s, z), {}, {"tuned"}))
          => Triple(c, {m}, p, Loop(c, K))
  BY LoopCall
<1>3. \A p : Triple(c, P, p, P) => Triple(c, {m}, p, Loop(c, N))
  BY <1>2
<1>4. f.gated = LoopGates(N, w) /\ f.up = w
  BY DEF LoopFrame, FrameOf
<1>5. w \in BOOLEAN
  BY GoodTypes DEF Loop
<1> HIDE DEF P, u, r, w
<1>6. Triple(c, {m}, SleepmgrEnterSleep, Loop(c, N))
  BY <1>1, <1>3, EnterSleepDoes
<1>7. ASSUME NEW mode
      PROVE  /\ Triple(c, {m}, SleepmgrLockMode(mode), Loop(c, N))
             /\ Triple(c, {m}, SleepmgrUnlockMode(mode), Loop(c, N))
  <2>1. Triple(c, P, SleepmgrLockMode(mode), P) /\ Triple(c, P, SleepmgrUnlockMode(mode), P)
    BY LockDoes DEF P
  <2> QED BY <1>3, <2>1
<1>8. Triple(c, {m}, UddDisable(c), Loop(c, N))
  <2>1. Triple(c, P, UddDisable(c),
               At(c, FrameOf(c.source, c.psa, c.psbc, "off", r, LoopGates(N, w) \cup {UsbGate},
                             UsbDown), {}, {"tuned"}))
    BY UddDisableDoes DEF P, LoopFrame
  <2>2. LoopGates(N, w) \cup {UsbGate} = LoopGates(N, UsbDown)
    BY LoopGatesChange
  <2>3. Triple(c, P, UddDisable(c),
               At(c, LoopFrame(c, N, "off", r, UsbDown), {}, {"tuned"}))
    BY <2>1, <2>2 DEF LoopFrame
  <2> QED BY <1>2, <2>3
<1>9. ASSUME ~w PROVE Triple(c, {m}, UddEnable(c), Loop(c, N))
  <2>1. w = UsbDown
    BY <1>5, <1>9 DEF UsbDown
  <2>2. Triple(c, P, UddEnable(c),
               At(c, FrameOf(c.source, c.psa, c.psbc, UsbSource(c), r,
                             LoopGates(N, UsbDown) \ {UsbGate}, UsbUp), {}, {"tuned"}))
    BY <2>1, UddEnableDoes DEF P, LoopFrame
  <2>3. LoopGates(N, UsbDown) \ {UsbGate} = LoopGates(N, UsbUp)
    BY LoopGatesChange
  <2>4. Triple(c, P, UddEnable(c),
               At(c, LoopFrame(c, N, UsbSource(c), r, UsbUp), {}, {"tuned"}))
    BY <2>2, <2>3 DEF LoopFrame
  <2> QED BY <1>2, <2>4
<1>10. /\ \A id \in DOMAIN RtcOscillator :
            Triple(c, {m}, SysclkRtcsrcEnable(id), Loop(c, N))
       /\ Triple(c, {m}, SysclkRtcsrcDisable, Loop(c, N))
  <2>1. \A s : [f EXCEPT !.rtc = s] = LoopFrame(c, N, u, s, w)
    BY DEF LoopFrame, FrameOf
  <2> HIDE DEF f
  <2>2. /\ \A id \in DOMAIN RtcOscillator :
             Triple(c, P, SysclkRtcsrcEnable(id), At(c, [f EXCEPT !.rtc = id], {}, {"tuned"}))
        /\ Triple(c, P, SysclkRtcsrcDisable, At(c, [f EXCEPT !.rtc = "off"], {}, {"tuned"}))
    BY RtcDoes DEF P
  <2>3. ASSUME NEW id \in DOMAIN RtcOscillator
        PROVE  Triple(c, {m}, SysclkRtcsrcEnable(id), Loop(c, N))
    <3>1. Triple(c, P, SysclkRtcsrcEnable(id),
                 At(c, LoopFrame(c, N, u, id, w), {}, {"tuned"}))
      BY <2>1, <2>2
    <3> QED BY <1>2, <3>1
  <2>4. Triple(c, P, SysclkRtcsrcDisable, At(c, LoopFrame(c, N, u, "off", w), {}, {"tuned"}))
    BY <2>1, <2>2
  <2> QED BY <1>2, <2>3, <2>4
<1>11. \A g : [f EXCEPT !.gated = g] = FrameOf(c.source, c.psa, c.psbc, u, r, g, w)
  BY DEF LoopFrame, FrameOf
<1> HIDE DEF f
<1>12. ASSUME NEW n \in Peripheral \ N
       PROVE  Triple(c, {m}, SysclkEnableModule(EnableGate[n]), Loop(c, N \cup {n}))
  <2>1. Triple(c, P, SysclkEnableModule(EnableGate[n]),
               At(c, [f EXCEPT !.gated = f.gated \ {EnableGate[n]}], {}, {"tuned"}))
    BY EnableModuleDoes DEF P
  <2>2. f.gated \ {EnableGate[n]} = LoopGates(N \cup {n}, w)
    <3>1. LoopGates(N, w) \ {EnableGate[n]} = LoopGates(N \cup {n}, w)
      BY LoopGatesChange
    <3> QED BY <1>4, <3>1
  <2>3. [f EXCEPT !.gated = f.gated \ {EnableGate[n]}] = LoopFrame(c, N \cup {n}, u, r, w)
    BY <1>11, <2>2 DEF LoopFrame
  <2>4. Triple(c, P, SysclkEnableModule(EnableGate[n]),
               At(c, LoopFrame(c, N \cup {n}, u, r, w), {}, {"tuned"}))
    BY <2>1, <2>3
  <2> QED BY <1>2, <2>4
<1>13. ASSUME NEW n \in N
       PROVE  Triple(c, {m}, SysclkDisableModule(DisableGate[n]), Loop(c, N \ {n}))
  <2> DEFINE g == EnableGate[n]
  <2>1. g \in AllGates /\ g # UsbGate /\ DisableGate[n] = g
    BY EnabledAsDisabled, GatesDiffer DEF AllGates
  <2>2. f.gated \cup {g} = LoopGates(N \ {n}, w)
    BY <1>4, LoopGatesChange
  <2> HIDE DEF g
  <2>3. Triple(c, P, SysclkDisableModule(g),
               At(c, [f EXCEPT !.gated = f.gated \cup {g}], {}, {"tuned"}))
    BY <2>1, DisableModuleDoes DEF P
  <2>4. [f EXCEPT !.gated = f.gated \cup {g}] = LoopFrame(c, N \ {n}, u, r, w)
    BY <1>11, <2>2 DEF LoopFrame
  <2>5. Triple(c, P, SysclkDisableModule(g),
               At(c, LoopFrame(c, N \ {n}, u, r, w), {}, {"tuned"}))
    BY <2>3, <2>4
  <2> QED BY <1>2, <2>1, <2>5
<1> QED BY <1>6, <1>7, <1>8, <1>9, <1>10, <1>12, <1>13 DEF w

-----------------------------------------------------------------------------
(***************************************************************************)
(* The clocks of a state, and what the actions do to them.                 *)
(***************************************************************************)
CInv ==
  /\ cfg \in Configs /\ inUse \subseteq Peripheral
  /\ Triple(cfg, {Clocks}, todo, Loop(cfg, inUse))

LEMMA TripleAfter ==
  ASSUME NEW c, NEW m, NEW p, NEW Q, Triple(c, {m}, p, Q)
  PROVE  /\ m \in Good(c) /\ (p = <<>> => m \in Q)
         /\ \A n : OscStep(m, n) => Triple(c, {n}, p, Q)
         /\ p # <<>> =>
              /\ Passes(m, Head(p)) => Triple(c, {Effect(c, m, Head(p))}, Tail(p), Q)
              /\ \A b : Inserts(m, Head(p), b) => Triple(c, {m}, b \o Tail(p), Q)
<1>1. PICK R, U : p \in Seq(U) /\ ClosedUnder(c, R, U, Q) /\ <<p, m>> \in R
  BY DEF Triple
<1>2. \A q, n : <<q, n>> \in R => Triple(c, {n}, q, Q)
  <2> SUFFICES ASSUME NEW q, NEW n, <<q, n>> \in R PROVE Triple(c, {n}, q, Q)
    OBVIOUS
  <2>1. q \in Seq(U)
    BY <1>1 DEF ClosedUnder
  <2> QED BY <1>1, <2>1 DEF Triple
<1>3. /\ m \in Good(c) /\ (p = <<>> => m \in Q)
      /\ \A n : OscStep(m, n) => <<p, n>> \in R
      /\ p # <<>> =>
           /\ Passes(m, Head(p)) => <<Tail(p), Effect(c, m, Head(p))>> \in R
           /\ \A b : Inserts(m, Head(p), b) => <<b \o Tail(p), m>> \in R
  BY <1>1 DEF ClosedUnder
<1> QED BY <1>2, <1>3

\* Reset.
LEMMA InitialClocks == Init => Clocks \in Raw(cfg, ResetFrame)
<1> SUFFICES ASSUME Init PROVE Clocks \in Raw(cfg, ResetFrame)
  OBVIOUS
<1> DEFINE m == Clocks
<1>1. /\ m.osc = osc /\ m.clk = clk /\ m.dfll = dfll /\ m.gated = {} /\ m.up = FALSE
      /\ m = [osc |-> osc, clk |-> clk, dfll |-> dfll, gated |-> {}, up |-> FALSE]
  BY DEF Clocks, Init
<1> HIDE DEF m
<1>2. osc \in OscRegisters /\ osc.on = {"RC2MHZ"} /\ osc.ready = {"RC2MHZ"}
  BY DEF Init, OscRegisters, Oscillator
<1>3. /\ clk.source = "RC2MHZ" /\ clk.psa = 0 /\ clk.psbc = 0 /\ clk.usb = "off"
      /\ clk.rtc = "off" /\ clk.pll = NoPll /\ clk.xosc = <<"04TO2", 256>>
      /\ clk \in ClkRegisters(cfg)
  BY DEF Init, ClkRegisters
<1>4. dfll \in DfllRegisters /\ ~dfll.on /\ AsReset(dfll)
  <2>1. dfll \in DfllRegisters /\ dfll.on = FALSE /\ dfll.cal = "reset" /\ dfll.comp = 32000000
    BY SMT DEF Init, DfllRegisters, DfllTarget
  <2> QED BY <2>1 DEF AsReset
<1>5. m \in Registers(cfg)
  BY <1>1, <1>2, <1>3, <1>4 DEF Registers
<1>6. OscGood(cfg, m)
  BY <1>1, <1>2, <1>3 DEF OscGood, RtcOscillator
<1>7. SourceGood(cfg, m)
  BY <1>1, <1>2, <1>3 DEF SourceGood
<1>8. PllGood(cfg, m)
  BY <1>1, <1>2 DEF PllGood
<1>9. DfllGood(cfg, m)
  BY <1>1, <1>2, <1>4 DEF DfllGood
<1>10. UsbGood(cfg, m)
  BY <1>1 DEF UsbGood
<1>11. Frame(m) = ResetFrame
  BY <1>1, <1>3 DEF Frame, ResetFrame, UsbDown
<1>12. m \in Good(cfg)
  BY <1>5, <1>6, <1>7, <1>8, <1>9, <1>10 DEF Good
<1>13. m \in Raw(cfg, ResetFrame)
  BY <1>1, <1>2, <1>4, <1>11, <1>12 DEF Raw
<1> QED BY <1>13 DEF m

LEMMA InitClocks == ASSUME Configs \subseteq SoundConfigs PROVE Init => CInv
<1> SUFFICES ASSUME Init PROVE CInv
  OBVIOUS
<1>1. cfg \in SoundConfigs /\ cfg \in Configs /\ inUse = {} /\ todo = Main(cfg)
  BY DEF Init
<1>2. Triple(cfg, Raw(cfg, ResetFrame), Main(cfg), At(cfg, MainFrame(cfg), {}, {"tuned"}))
  BY <1>1, MainDoes
<1>3. {Clocks} \subseteq Raw(cfg, ResetFrame)
  BY InitialClocks
<1>4. At(cfg, MainFrame(cfg), {}, {"tuned"}) \subseteq Loop(cfg, {})
  <2>1. LoopGates({}, UsbUp) = AllGates \ {UsbGate}
    BY LoopGatesChange
  <2>2. MainFrame(cfg) = LoopFrame(cfg, {}, UsbSource(cfg), "off", UsbUp)
    BY <2>1 DEF MainFrame, LoopFrame
  <2> QED BY <2>2, LoopIsAt
<1>5. Triple(cfg, {Clocks}, Main(cfg), Loop(cfg, {}))
  BY <1>2, <1>3, <1>4, TripleWeaken
<1> QED BY <1>1, <1>5 DEF CInv

\* One step of main: its instruction is over, goes on with others, or waits.
Over ==
  /\ Passes(Clocks, Head(todo)) /\ todo' = Tail(todo)
  /\ Clocks' = Effect(cfg, Clocks, Head(todo))
GoesOn ==
  /\ \E b : Inserts(Clocks, Head(todo), b) /\ todo' = b \o Tail(todo)
  /\ Clocks' = Clocks

LEMMA OscDoes ==
  ASSUME OscOn \/ OscOff
  PROVE  todo # <<>> /\ UNCHANGED <<cfg, inUse>> /\ Over
<1> USE DEF Over, Passes, Effect, OnOsc, OnClk, OnDfll, OnModules, Now, Done, Goto, Arg,
            OtherThanClocks, Clocks, EffectOnOsc, WithOsc
<1>1. CASE OscOn
  BY <1>1 DEF OscOn
<1>2. CASE OscOff
  BY <1>2 DEF OscOff
<1> QED BY <1>1, <1>2

LEMMA ClkDoes ==
  ASSUME Prescale \/ XoscConfig \/ PllConfig \/ Select \/ UsbClock \/ RtcClock
  PROVE  todo # <<>> /\ UNCHANGED <<cfg, inUse>> /\ Over
<1> USE DEF Over, Passes, Effect, OnOsc, OnClk, OnDfll, OnModules, Now, Done, Goto, Arg,
            OtherThanClocks, Clocks, EffectOnClk, WithClk
<1>1. CASE Prescale
  BY <1>1 DEF Prescale
<1>2. CASE XoscConfig
  BY <1>2 DEF XoscConfig, CrystalField
<1>3. CASE PllConfig
  BY <1>3 DEF PllConfig
<1>4. CASE Select
  BY <1>4 DEF Select
<1>5. CASE UsbClock
  BY <1>5 DEF UsbClock
<1>6. CASE RtcClock
  BY <1>6 DEF RtcClock
<1> QED BY <1>1, <1>2, <1>3, <1>4, <1>5, <1>6

LEMMA DfllDoes ==
  ASSUME Calibrate \/ Reference \/ DfllSwitch
  PROVE  todo # <<>> /\ UNCHANGED <<cfg, inUse>> /\ Over
<1> USE DEF Over, Passes, Effect, OnOsc, OnClk, OnDfll, OnModules, Now, Done, Goto, Arg,
            OtherThanClocks, Clocks, EffectOnDfll, WithDfll
<1>1. CASE Calibrate
  BY <1>1 DEF Calibrate
<1>2. CASE Reference
  BY <1>2 DEF Reference, Written, Referred
<1>3. CASE DfllSwitch
  BY <1>3 DEF DfllSwitch
<1> QED BY <1>1, <1>2, <1>3

LEMMA ModulesDo ==
  ASSUME GateAll \/ Ungate \/ Gate \/ Attach \/ Detach, Typed
  PROVE  todo # <<>> /\ UNCHANGED <<cfg, inUse>> /\ Over
<1> USE DEF Over, Passes, Effect, OnOsc, OnClk, OnDfll, OnModules, Now, Done, Goto, Arg,
            Clocks, EffectOnModules, WithGated, WithUp
<1>1. CASE GateAll
  BY <1>1 DEF GateAll, OtherThanGates, hardware
<1>2. CASE Ungate
  BY <1>2 DEF Ungate, OtherThanGates, hardware
<1>3. CASE Gate
  BY <1>3 DEF Gate, OtherThanGates, hardware
<1>4. CASE Attach
  BY <1>4 DEF Attach, OtherThanUsb, hardware, Typed
<1>5. CASE Detach
  BY <1>5 DEF Detach, OtherThanUsb, hardware, Typed
<1> QED BY <1>1, <1>2, <1>3, <1>4, <1>5

LEMMA NeutralDoes ==
  ASSUME \/ IrqOn \/ IrqOff \/ IrqSave \/ IrqRestore \/ LocksInit \/ Lock \/ MustBeLocked
         \/ Unlock \/ UddSleepModeCall \/ DriverReset \/ PortInit
         \/ SleepSetMode \/ SleepEnabled \/ SleepEnter,
         Typed
  PROVE  todo # <<>> /\ UNCHANGED <<cfg, inUse>> /\ Over
<1>1. /\ todo # <<>> /\ todo' = Tail(todo) /\ Head(todo)[1] \in Neutral
      /\ UNCHANGED <<cfg, inUse, osc, clk, dfll, gated>>
  BY DEF IrqOn, IrqOff, IrqSave, IrqRestore, LocksInit, Lock, MustBeLocked, Unlock,
     UddSleepModeCall, DriverReset, PortInit, SleepSetMode, SleepEnabled, SleepEnter,
     Now, Done, Goto, Neutral, OtherThanIrq, OtherThanUsb, hardware
<1>2. usb'.interrupts = usb.interrupts
  BY DEF IrqOn, IrqOff, IrqSave, IrqRestore, LocksInit, Lock, MustBeLocked, Unlock,
     UddSleepModeCall, UddSleepMode, DriverReset, PortInit, SleepSetMode, SleepEnabled,
     SleepEnter, OtherThanIrq, OtherThanUsb, Typed
<1>3. Clocks' = Clocks
  BY <1>1, <1>2 DEF Clocks
<1>4. Passes(Clocks, Head(todo)) /\ Effect(cfg, Clocks, Head(todo)) = Clocks
  BY <1>1 DEF Passes, Effect, OnOsc, OnClk, OnDfll, OnModules, Neutral
<1> QED BY <1>1, <1>3, <1>4 DEF Over

LEMMA WaitsDo ==
  ASSUME WaitReady \/ IsReady
  PROVE  /\ todo # <<>> /\ UNCHANGED <<cfg, inUse>>
         /\ Over \/ GoesOn \/ (Clocks' = Clocks /\ todo' = todo)
<1>1. Clocks' = Clocks /\ UNCHANGED <<cfg, inUse>> /\ todo # <<>>
  BY DEF WaitReady, IsReady, Now, OtherThanClocks, hardware, Clocks
<1>2. Head(todo)[1] \in {"waitReady", "unlessReady"}
  BY DEF WaitReady, IsReady, Now
<1>3. Effect(cfg, Clocks, Head(todo)) = Clocks
  BY <1>2 DEF Effect, OnOsc, OnClk, OnDfll, OnModules
<1>4. Clocks.osc = osc
  BY DEF Clocks
<1>5. CASE WaitReady
  <2>1. /\ Head(todo)[1] = "waitReady"
        /\ todo' = IF Head(todo)[2] \in osc.ready THEN Tail(todo) ELSE todo
    BY <1>5 DEF WaitReady, Now, Goto, Arg
  <2>2. Head(todo)[2] \in osc.ready => Passes(Clocks, Head(todo))
    BY <1>4, <2>1 DEF Passes
  <2> QED BY <1>1, <1>3, <2>1, <2>2 DEF Over
<1>6. CASE IsReady
  <2>1. /\ Head(todo)[1] = "unlessReady"
        /\ todo' = IF Head(todo)[2][1] \in osc.ready THEN Tail(todo)
                   ELSE Head(todo)[2][2] \o Tail(todo)
    BY <1>6 DEF IsReady, Now, Goto, Arg
  <2>2. CASE Head(todo)[2][1] \in osc.ready
    <3>1. Passes(Clocks, Head(todo))
      BY <1>4, <2>1, <2>2 DEF Passes
    <3> QED BY <1>1, <1>3, <2>1, <2>2, <3>1 DEF Over
  <2>3. CASE Head(todo)[2][1] \notin osc.ready
    <3>1. Inserts(Clocks, Head(todo), Head(todo)[2][2])
      BY <1>4, <2>1, <2>3 DEF Inserts
    <3> QED BY <1>1, <2>1, <2>3, <3>1 DEF GoesOn
  <2> QED BY <2>2, <2>3
<1> QED BY <1>5, <1>6

LEMMA ChooseDoes ==
  ASSUME Inv, ChooseMode
  PROVE  todo # <<>> /\ UNCHANGED <<cfg, inUse>> /\ GoesOn
<1>1. /\ todo # <<>> /\ Head(todo)[1] = "chooseMode"
      /\ UNCHANGED <<cfg, inUse>> /\ Clocks' = Clocks
  BY DEF ChooseMode, Now, OtherThanUsb, hardware, Clocks
<1>2. todo' = (IF Mode[GetSleepMode] = "ACTIVE" THEN Do("irqOn", "SREG")
               ELSE SleepIn(GetSleepMode)) \o Tail(todo)
  BY DEF ChooseMode, Goto, SleepIn
<1>3. PICK x, y : Runs(todo, x, y) /\ Agrees(x)
  BY DEF Inv
<1>4. /\ x \in Label
      /\ Chooses(x, Head(todo)) \/ \E z : Step(x, Head(todo), z)
  BY <1>1, <1>3, RunsAfter
<1>5. \A z : ~Step(x, Head(todo), z)
  BY <1>1 DEF Step, StepIrq, StepLocks, StepDriver, StepSleep, Plain
<1>6. x.down > 0
  BY <1>4, <1>5 DEF Chooses
<1>7. GetSleepMode \in 1..6
  BY <1>3, <1>4, <1>6, SleepModeFound DEF Agrees, Inv
<1>8. CASE Mode[GetSleepMode] = "ACTIVE"
  <2>1. Inserts(Clocks, Head(todo), Do("irqOn", "SREG"))
    BY <1>1 DEF Inserts
  <2> QED BY <1>1, <1>2, <1>8, <2>1 DEF GoesOn
<1>9. CASE Mode[GetSleepMode] # "ACTIVE"
  <2>1. GetSleepMode \in 2..6
    <3>1. Mode[1] = "ACTIVE"
      BY DEF Mode
    <3> QED BY <1>7, <1>9, <3>1
  <2>2. Inserts(Clocks, Head(todo), SleepIn(GetSleepMode))
    BY <1>1, <2>1 DEF Inserts
  <2> QED BY <1>1, <1>2, <1>9, <2>2 DEF GoesOn
<1> QED BY <1>8, <1>9

LEMMA MainStepDoes ==
  ASSUME Inv, MainStep
  PROVE  /\ todo # <<>> /\ UNCHANGED <<cfg, inUse>>
         /\ Over \/ GoesOn \/ (Clocks' = Clocks /\ todo' = todo)
<1>1. Typed
  BY DEF Inv
<1>2. CASE OscOn \/ OscOff
  BY <1>2, OscDoes
<1>3. CASE Prescale \/ XoscConfig \/ PllConfig \/ Select \/ UsbClock \/ RtcClock
  BY <1>3, ClkDoes
<1>4. CASE Calibrate \/ Reference \/ DfllSwitch
  BY <1>4, DfllDoes
<1>5. CASE GateAll \/ Ungate \/ Gate \/ Attach \/ Detach
  BY <1>1, <1>5, ModulesDo
<1>6. CASE \/ IrqOn \/ IrqOff \/ IrqSave \/ IrqRestore \/ LocksInit \/ Lock \/ MustBeLocked
           \/ Unlock \/ UddSleepModeCall \/ DriverReset \/ PortInit
           \/ SleepSetMode \/ SleepEnabled \/ SleepEnter
  BY <1>1, <1>6, NeutralDoes
<1>7. CASE WaitReady \/ IsReady
  BY <1>7, WaitsDo
<1>8. CASE ChooseMode
  BY <1>8, ChooseDoes
<1> QED BY <1>2, <1>3, <1>4, <1>5, <1>6, <1>7, <1>8 DEF MainStep

\* A call from the loop of main.
LEMMA CallKeepsClocks ==
  ASSUME CInv, NEW p, todo' = p, Clocks' = Clocks, UNCHANGED cfg, inUse' \subseteq Peripheral,
         Triple(cfg, {Clocks}, p, Loop(cfg, inUse'))
  PROVE  CInv'
BY DEF CInv

LEMMA ServicesKeepClocks ==
  ASSUME Configs \subseteq SoundConfigs, Inv, CInv,
         \/ EnterSleep \/ UdcStop \/ UdcStart \/ LockActive \/ UnlockActive
         \/ RtcStart \/ RtcStop \/ StartPeripheral \/ StopPeripheral
  PROVE  CInv'
<1>1. todo = <<>> /\ UNCHANGED cfg /\ Clocks' = Clocks
  BY DEF EnterSleep, UdcStop, UdcStart, LockActive, UnlockActive, RtcStart, RtcStop,
     StartPeripheral, StopPeripheral, Call, InLoop, OtherThanUsb, hardware, Clocks
<1>2. cfg \in SoundConfigs /\ inUse \in SUBSET Peripheral /\ Clocks \in Loop(cfg, inUse)
  BY <1>1, TripleAfter DEF CInv
<1> DEFINE m == Clocks
<1>3. m.up = usb.interrupts
  BY DEF Clocks
<1> HIDE DEF m
<1>4. /\ Triple(cfg, {m}, SleepmgrEnterSleep, Loop(cfg, inUse))
      /\ \A mode : /\ Triple(cfg, {m}, SleepmgrLockMode(mode), Loop(cfg, inUse))
                   /\ Triple(cfg, {m}, SleepmgrUnlockMode(mode), Loop(cfg, inUse))
      /\ Triple(cfg, {m}, UddDisable(cfg), Loop(cfg, inUse))
      /\ ~m.up => Triple(cfg, {m}, UddEnable(cfg), Loop(cfg, inUse))
      /\ \A id \in DOMAIN RtcOscillator :
           Triple(cfg, {m}, SysclkRtcsrcEnable(id), Loop(cfg, inUse))
      /\ Triple(cfg, {m}, SysclkRtcsrcDisable, Loop(cfg, inUse))
      /\ \A n \in Peripheral \ inUse :
           Triple(cfg, {m}, SysclkEnableModule(EnableGate[n]), Loop(cfg, inUse \cup {n}))
      /\ \A n \in inUse :
           Triple(cfg, {m}, SysclkDisableModule(DisableGate[n]), Loop(cfg, inUse \ {n}))
  BY <1>2, LoopCalls DEF m
<1>5. ASSUME inUse' = inUse, Triple(cfg, {m}, todo', Loop(cfg, inUse)) PROVE CInv'
  BY <1>1, <1>2, <1>5, CallKeepsClocks DEF m
<1>6. CASE EnterSleep
  BY <1>4, <1>5, <1>6 DEF EnterSleep, Call, Goto, OtherThanUsb
<1>7. CASE UdcStop
  BY <1>4, <1>5, <1>7 DEF UdcStop, Call, Goto, OtherThanUsb
<1>8. CASE UdcStart
  <2>1. todo' = UddEnable(cfg) /\ ~usb.reset /\ inUse' = inUse
    BY <1>8 DEF UdcStart, Call, Goto, OtherThanUsb
  <2>2. ~usb.interrupts
    BY <1>1, <2>1, LoopLabel DEF Agrees, DriverAgrees
  <2> QED BY <1>3, <1>4, <1>5, <2>1, <2>2
<1>9. CASE LockActive \/ UnlockActive
  BY <1>4, <1>5, <1>9 DEF LockActive, UnlockActive, Call, Goto, OtherThanUsb
<1>10. CASE RtcStart \/ RtcStop
  BY <1>4, <1>5, <1>10 DEF RtcStart, RtcStop, Call, Goto, OtherThanUsb
<1>11. CASE StartPeripheral
  <2>1. PICK n \in Peripheral \ inUse :
          todo' = SysclkEnableModule(EnableGate[n]) /\ inUse' = inUse \cup {n}
    BY <1>11 DEF StartPeripheral, Goto
  <2>2. Triple(cfg, {Clocks}, SysclkEnableModule(EnableGate[n]), Loop(cfg, inUse'))
    BY <1>4, <2>1 DEF m
  <2> QED BY <1>1, <1>2, <2>1, <2>2, CallKeepsClocks
<1>12. CASE StopPeripheral
  <2>1. PICK n \in inUse :
          todo' = SysclkDisableModule(DisableGate[n]) /\ inUse' = inUse \ {n}
    BY <1>12 DEF StopPeripheral, Goto
  <2>2. Triple(cfg, {Clocks}, SysclkDisableModule(DisableGate[n]), Loop(cfg, inUse'))
    BY <1>4, <2>1 DEF m
  <2> QED BY <1>1, <1>2, <2>1, <2>2, CallKeepsClocks
<1> QED BY <1>6, <1>7, <1>8, <1>9, <1>10, <1>11, <1>12

LEMMA NextClocks ==
  ASSUME Configs \subseteq SoundConfigs
  PROVE  Inv /\ CInv /\ [Next]_vars => CInv'
<1> SUFFICES ASSUME Inv, CInv, [Next]_vars PROVE CInv'
  OBVIOUS
<1>1. Triple(cfg, {Clocks}, todo, Loop(cfg, inUse))
  BY DEF CInv
<1>2. CASE MainStep
  <2>1. /\ todo # <<>> /\ UNCHANGED <<cfg, inUse>>
        /\ Over \/ GoesOn \/ (Clocks' = Clocks /\ todo' = todo)
    BY <1>2, MainStepDoes
  <2>2. Triple(cfg, {Clocks'}, todo', Loop(cfg, inUse))
    <3>1. CASE Over
      BY <1>1, <2>1, <3>1, TripleAfter DEF Over
    <3>2. CASE GoesOn
      <4>1. PICK b : Inserts(Clocks, Head(todo), b) /\ todo' = b \o Tail(todo)
        BY <3>2 DEF GoesOn
      <4>2. Triple(cfg, {Clocks}, b \o Tail(todo), Loop(cfg, inUse))
        BY <1>1, <2>1, <4>1, TripleAfter
      <4> QED BY <3>2, <4>1, <4>2 DEF GoesOn
    <3>3. CASE Clocks' = Clocks /\ todo' = todo
      BY <1>1, <3>3
    <3> QED BY <2>1, <3>1, <3>2, <3>3
  <2> QED BY <2>1, <2>2 DEF CInv
<1>3. CASE OscReady
  <2>1. UNCHANGED <<todo, cfg, inUse>>
    BY <1>3 DEF OscReady, OtherThanClocks
  <2>2. OscStep(Clocks, Clocks')
    <3>1. PICK id \in osc.on \ osc.ready :
            /\ id = "PLL" => clk.pll.source \in osc.ready
            /\ osc' = [osc EXCEPT !.ready = osc.ready \cup {id}]
      BY <1>3 DEF OscReady
    <3>2. UNCHANGED <<clk, dfll, gated, usb>>
      BY <1>3 DEF OscReady, OtherThanClocks
    <3>3. Clocks.osc = osc /\ Clocks.clk = clk
      BY DEF Clocks
    <3>4. Clocks' = [Clocks EXCEPT !.osc = [osc EXCEPT !.ready = osc.ready \cup {id}]]
      BY <3>1, <3>2 DEF Clocks
    <3> QED BY <3>1, <3>3, <3>4 DEF OscStep
  <2>3. Triple(cfg, {Clocks'}, todo, Loop(cfg, inUse))
    BY <1>1, <2>2, TripleAfter
  <2> QED BY <2>1, <2>3 DEF CInv
<1>4. CASE UsbIsr
  <2>1. usb'.interrupts = usb.interrupts
    BY <1>4 DEF UsbIsr, UddSleepMode, Inv, Typed
  <2>2. UNCHANGED <<todo, cfg, inUse>> /\ Clocks' = Clocks
    BY <1>4, <2>1 DEF UsbIsr, hardware, Clocks
  <2> QED BY <2>2 DEF CInv
<1>5. CASE \/ EnterSleep \/ UdcStop \/ UdcStart \/ LockActive \/ UnlockActive
           \/ RtcStart \/ RtcStop \/ StartPeripheral \/ StopPeripheral
  BY <1>5, ServicesKeepClocks
<1>6. CASE UNCHANGED vars
  <2>1. UNCHANGED <<todo, cfg, inUse>> /\ Clocks' = Clocks
    BY <1>6 DEF vars, hardware, Clocks
  <2> QED BY <2>1 DEF CInv
<1> QED BY <1>2, <1>3, <1>4, <1>5, <1>6 DEF Next

\* What is left of main keeps the clocks good, from the state as it is, and ends in
\* main's loop with the clocks as configured and a clock for the peripherals in use.
THEOREM ClocksInvariant ==
  ASSUME Configs \subseteq SoundConfigs PROVE Spec => []CInv
<1>1. Spec => []Inv
  BY StartupInvariant
<1>2. Init => CInv
  BY InitClocks
<1>3. Inv /\ CInv /\ [Next]_vars => CInv'
  BY NextClocks
<1> QED BY <1>1, <1>2, <1>3, PTL DEF Spec

-----------------------------------------------------------------------------
(***************************************************************************)
(* What good clocks make of the rates.                                     *)
(***************************************************************************)
LEMMA GoodNow ==
  ASSUME Configs \subseteq SoundConfigs, CInv
  PROVE  /\ cfg \in SoundConfigs /\ Clocks \in Good(cfg)
         /\ Clocks.osc = osc /\ Clocks.clk = clk /\ Clocks.dfll = dfll
         /\ Clocks.gated = gated /\ Clocks.up = usb.interrupts
  BY TripleAfter DEF CInv, Clocks

\* RC32MHZ has the configured rate while it is on.
LEMMA Rc32AsConfigured ==
  ASSUME Configs \subseteq SoundConfigs, CInv, "RC32MHZ" \in osc.on
  PROVE  Rc32Hz = cfg.rc32
<1>1. /\ cfg \in SoundConfigs /\ DfllGood(cfg, Clocks) /\ Clocks.osc = osc /\ Clocks.dfll = dfll
  BY SMT, GoodNow, GoodTypes
<1>2. CASE Wants48MHz(cfg)
  <2>1. dfll.cal \in {"factory", "sane"} /\ (dfll.on => Tuning(dfll))
    BY SMT, <1>1, <1>2 DEF DfllGood
  <2>2. cfg.rc32 = 48000000
    BY SMT, <1>2 DEF Wants48MHz
  <2> QED BY SMT, <2>1, <2>2 DEF Rc32Hz, Tuning
<1>3. CASE ~Wants48MHz(cfg)
  <2>1. AsReset(dfll)
    BY SMT, <1>1, <1>3 DEF DfllGood
  <2>2. cfg.rc32 = 32000000
    BY SMT, <1>1, <1>3, SoundFacts
  <2> QED BY SMT, <2>1, <2>2 DEF Rc32Hz, AsReset
<1> QED BY SMT, <1>2, <1>3

\* The PLL multiplies the reference it is configured for.
LEMMA PllAsConfigured ==
  ASSUME Configs \subseteq SoundConfigs, CInv, "PLL" \in osc.ready,
         "PLL" \in {cfg.source, cfg.usb}
  PROVE  RunsAt("PLL") = PllRate(cfg)
<1>1. /\ cfg \in SoundConfigs /\ PllGood(cfg, Clocks) /\ OscGood(cfg, Clocks)
      /\ Clocks.osc = osc /\ Clocks.clk = clk
  BY SMT, GoodNow, GoodTypes
<1>2. clk.pll = cfg.pll /\ clk.pll.source \in osc.on
  BY SMT, <1>1 DEF PllGood, OscGood
<1>3. cfg.pll.source \in {"RC2MHZ", "RC32MHZ", "XOSC"} /\ cfg \in Configuration
  BY SMT, <1>1, SoundFacts
<1>4. cfg.pll.mul \in {1, 24, 4, 6} /\ cfg.rc32 \in {32000000, 48000000} /\ cfg.xosc.hz \in Nat
  BY SMT, <1>3, ConfigurationFields DEF NoPll, BoardXosc
<1>5. cfg.pll.source = "RC32MHZ" => Rc32Hz = cfg.rc32
  BY SMT, <1>2, Rc32AsConfigured
<1>6. CASE cfg.pll.source = "RC2MHZ"
  BY SMT, <1>2, <1>4, <1>6 DEF RunsAt, PllRate, PllReference
<1>7. CASE cfg.pll.source = "RC32MHZ"
  <2>1. RunsAt("PLL") = cfg.pll.mul * (cfg.rc32 \div 4)
    BY SMT, <1>2, <1>5, <1>7 DEF RunsAt
  <2>2. PllRate(cfg) = (cfg.rc32 \div 4) * cfg.pll.mul
    BY SMT, <1>7 DEF PllRate, PllReference
  <2> QED BY SMT, <1>4, <2>1, <2>2
<1>8. CASE cfg.pll.source = "XOSC"
  BY SMT, <1>2, <1>4, <1>8 DEF RunsAt, PllRate, PllReference
<1> QED BY SMT, <1>3, <1>6, <1>7, <1>8

LEMMA SourceAsConfigured ==
  ASSUME Configs \subseteq SoundConfigs, CInv, clk.source = cfg.source
  PROVE  RunsAt(clk.source) = MainHz(cfg)
<1>1. /\ cfg \in SoundConfigs /\ SourceGood(cfg, Clocks) /\ OscGood(cfg, Clocks)
      /\ Clocks.osc = osc /\ Clocks.clk = clk
  BY SMT, GoodNow, GoodTypes
<1>2. clk.source \in osc.ready /\ clk.source \in osc.on
  BY SMT, <1>1 DEF SourceGood, OscGood
<1>3. cfg.source \in {"RC2MHZ", "RC32MHZ", "RC32KHZ", "XOSC", "PLL"}
  BY SMT, <1>1, SoundFacts, ConfigurationFields DEF Oscillator
<1>4. CASE cfg.source = "PLL"
  BY SMT, <1>2, <1>4, PllAsConfigured DEF MainHz
<1>5. CASE cfg.source = "RC32MHZ"
  BY SMT, <1>2, <1>5, Rc32AsConfigured DEF MainHz, OscRate, RunsAt
<1>6. CASE cfg.source \in {"RC2MHZ", "RC32KHZ", "XOSC"}
  BY SMT, <1>6 DEF MainHz, OscRate, RunsAt
<1> QED BY SMT, <1>3, <1>4, <1>5, <1>6

\* The prescalers: what the preprocessor computes is what the hardware divides by.
LEMMA Divisions ==
  ASSUME NEW a \in PsaField, NEW b \in 0..3, NEW x \in Nat
  PROVE  /\ DividedByA[a] \in {1, 2, 4, 8, 16}
         /\ DividedByA[a] = 2 ^ (IF a % 2 = 1 THEN a \div 2 + 1 ELSE 0)
         /\ DividedByBC[b + 1] \in {1, 2, 4}
         /\ (x \div DividedByA[a]) \div DividedByBC[b + 1] <= x
         /\ x >= 64 => (x \div DividedByA[a]) \div DividedByBC[b + 1] >= 1
<1>1. /\ DividedByA[a] \in {1, 2, 4, 8, 16}
      /\ DividedByA[a] = 2 ^ (IF a % 2 = 1 THEN a \div 2 + 1 ELSE 0)
  <2>1. CASE a = 0
    BY SMT, <2>1 DEF DividedByA
  <2>2. CASE a = 1
    BY SMT, <2>2 DEF DividedByA
  <2>3. CASE a = 3
    BY SMT, <2>3 DEF DividedByA
  <2>4. CASE a = 5
    BY SMT, <2>4 DEF DividedByA
  <2>5. CASE a = 7
    BY SMT, <2>5 DEF DividedByA
  <2> QED BY <2>1, <2>2, <2>3, <2>4, <2>5 DEF PsaField
<1>2. DividedByBC[b + 1] \in {1, 2, 4}
  BY SMT DEF DividedByBC
<1>3. ASSUME NEW p \in {1, 2, 4, 8, 16}, NEW q \in {1, 2, 4}
      PROVE  (x \div p) \div q <= x /\ (x >= 64 => (x \div p) \div q >= 1)
  BY SMT, <1>3
<1> QED BY SMT, <1>1, <1>2, <1>3

LEMMA RatesAsConfigured ==
  ASSUME Configs \subseteq SoundConfigs, CInv,
         clk.source = cfg.source, clk.psa = cfg.psa, clk.psbc = cfg.psbc
  PROVE  /\ BusFastHz = Per4Hz(cfg) /\ CpuRunsAt = PerHz(cfg)
         /\ MainHz(cfg) \in Nat /\ MainHz(cfg) >= 64
<1>1. cfg \in SoundConfigs /\ cfg \in Configuration
  BY SMT, GoodNow, SoundFacts
<1>2. cfg.psa \in PsaField /\ cfg.psbc \in 0..3 /\ cfg.source \in Oscillator
  BY SMT, <1>1, ConfigurationFields
<1>3. MainHz(cfg) \in Nat /\ MainHz(cfg) >= 64
  <2>1. CASE cfg.source = "PLL"
    <3>1. PllRate(cfg) \in Nat /\ PllRate(cfg) >= 64
      <4>1. PllRate(cfg) \in PllMinHz..PllMaxHz
        BY <1>1, <2>1 DEF SoundConfigs, PllAllowed
      <4>2. PllMinHz \in Nat /\ PllMinHz >= 64 /\ PllMaxHz \in Nat
        BY SMT DEF PllMinHz, PllMaxHz
      <4> QED BY SMT, <4>1, <4>2
    <3> QED BY SMT, <2>1, <3>1 DEF MainHz
  <2>2. CASE cfg.source # "PLL"
    <3>1. cfg.rc32 \in {32000000, 48000000} /\ cfg.xosc.hz \in {8000000, 2000000}
      BY SMT, <1>1, ConfigurationFields DEF BoardXosc
    <3> QED BY SMT, <1>2, <2>2, <3>1 DEF MainHz, OscRate, Oscillator
  <2> QED BY SMT, <2>1, <2>2
<1> DEFINE x == MainHz(cfg)
           y == x \div DividedByA[cfg.psa]
<1>4. BusFastHz = y
  BY SMT, SourceAsConfigured DEF BusFastHz
<1>5. Per4Hz(cfg) = y
  BY SMT, <1>2, <1>3, Divisions DEF Per4Hz
<1>6. y \in Nat
  <2>1. DividedByA[cfg.psa] \in {1, 2, 4, 8, 16}
    BY SMT, <1>2, <1>3, Divisions
  <2> HIDE DEF x
  <2> QED BY SMT, <1>3, <2>1 DEF x
<1> HIDE DEF y, x
<1>7. CpuRunsAt = y \div DividedByBC[cfg.psbc + 1]
  BY SMT, <1>4 DEF CpuRunsAt
<1>8. PerHz(cfg) = y \div DividedByBC[cfg.psbc + 1]
  <2>1. cfg.psbc = 0 \/ cfg.psbc = 1 \/ cfg.psbc = 2 \/ cfg.psbc = 3
    BY SMT, <1>2
  <2>2. ASSUME NEW b, b = 0 \/ b = 1 \/ b = 2 \/ b = 3
        PROVE  (IF b % 2 = 1
                THEN (CASE b \in {0, 1} -> y [] b = 2 -> y \div 4 [] b = 3 -> y \div 2) \div 2
                ELSE CASE b \in {0, 1} -> y [] b = 2 -> y \div 4 [] b = 3 -> y \div 2)
                 = y \div DividedByBC[b + 1]
    BY SMT, <1>6, <2>2 DEF DividedByBC
  <2> QED BY SMT, <1>5, <2>1, <2>2 DEF PerHz, Per2Hz
<1> QED BY SMT, <1>3, <1>4, <1>5, <1>7, <1>8

\* No prescaler makes RC2MHZ too fast, or stops it.
LEMMA CpuInRange ==
  ASSUME Configs \subseteq SoundConfigs, CInv
  PROVE  CpuRunsAt \in 1..MaxCpuHz
<1>1. /\ cfg \in SoundConfigs /\ SourceGood(cfg, Clocks) /\ clk \in ClkRegisters(cfg)
      /\ Clocks.osc = osc /\ Clocks.clk = clk
  BY SMT, GoodNow, GoodTypes
<1>2. /\ clk.source \in {"RC2MHZ", cfg.source} /\ clk.psa \in {0, cfg.psa}
      /\ clk.psbc \in {0, cfg.psbc}
  BY SMT, <1>1 DEF ClkRegisters
<1>3. cfg.psa \in PsaField /\ cfg.psbc \in 0..3
  BY SMT, <1>1, SoundFacts, ConfigurationFields
<1>4. clk.psa \in PsaField /\ clk.psbc \in 0..3
  BY SMT, <1>2, <1>3 DEF PsaField
<1> DEFINE x == RunsAt(clk.source)
<1>5. CpuRunsAt = (x \div DividedByA[clk.psa]) \div DividedByBC[clk.psbc + 1]
  BY SMT DEF CpuRunsAt, BusFastHz
<1>6. CASE clk.source = "RC2MHZ"
  <2>1. x \in Nat /\ x >= 64 /\ x <= MaxCpuHz
    BY SMT, <1>6 DEF RunsAt, MaxCpuHz
  <2> HIDE DEF x
  <2>2. /\ (x \div DividedByA[clk.psa]) \div DividedByBC[clk.psbc + 1] <= x
        /\ (x \div DividedByA[clk.psa]) \div DividedByBC[clk.psbc + 1] >= 1
    BY SMT, <1>4, <2>1, Divisions
  <2>3. (x \div DividedByA[clk.psa]) \div DividedByBC[clk.psbc + 1] \in Int
    <3>1. DividedByA[clk.psa] \in {1, 2, 4, 8, 16} /\ DividedByBC[clk.psbc + 1] \in {1, 2, 4}
      BY SMT, <1>4, <2>1, Divisions
    <3> QED BY SMT, <2>1, <3>1
  <2>4. MaxCpuHz \in Nat
    BY SMT DEF MaxCpuHz
  <2> QED BY SMT, <1>5, <2>1, <2>2, <2>3, <2>4
<1>7. CASE clk.source # "RC2MHZ"
  <2>1. clk.source = cfg.source /\ clk.psa = cfg.psa /\ clk.psbc = cfg.psbc
    BY SMT, <1>1, <1>2, <1>7 DEF SourceGood
  <2>2. x = MainHz(cfg) /\ CpuRunsAt = PerHz(cfg) /\ x \in Nat /\ x >= 64
    BY SMT, <2>1, SourceAsConfigured, RatesAsConfigured
  <2> HIDE DEF x
  <2>3. (x \div DividedByA[clk.psa]) \div DividedByBC[clk.psbc + 1] >= 1
    BY SMT, <1>4, <2>2, Divisions
  <2>4. CpuHz(cfg) <= MaxCpuHz
    BY SMT, <1>1 DEF SoundConfigs, WithinLimits
  <2>5. (x \div DividedByA[clk.psa]) \div DividedByBC[clk.psbc + 1] \in Int
    <3>1. DividedByA[clk.psa] \in {1, 2, 4, 8, 16} /\ DividedByBC[clk.psbc + 1] \in {1, 2, 4}
      BY SMT, <1>4, <2>2, Divisions
    <3> QED BY SMT, <2>2, <3>1
  <2>6. CpuRunsAt <= MaxCpuHz
    BY SMT, <2>2, <2>4 DEF CpuHz
  <2> QED BY SMT, <1>5, <2>3, <2>5, <2>6
<1> QED BY SMT, <1>6, <1>7

\* A crystal is started in its range, and given the time that it needs.
LEMMA CrystalsSuit ==
  ASSUME NEW c \in Configuration, c.xosc.type = "XTAL"
  PROVE  /\ InCrystalRange(c.xosc.hz, XoscRange(c.xosc))
         /\ XoscStartup(c.xosc) * 1000 >= c.xosc.us * (c.xosc.hz \div 1000)
<1>1. \/ c.xosc = [type |-> "XTAL", hz |-> 8000000, us |-> 1000]
      \/ c.xosc = [type |-> "XTAL", hz |-> 2000000, us |-> 500]
  BY SMT, ConfigurationFields DEF BoardXosc
<1> DEFINE x == c.xosc
<1>4. \/ x.type = "XTAL" /\ x.hz = 8000000 /\ x.us = 1000
      \/ x.type = "XTAL" /\ x.hz = 2000000 /\ x.us = 500
  BY SMT, <1>1
<1>5. SUFFICES /\ InCrystalRange(x.hz, XoscRange(x))
               /\ XoscStartup(x) * 1000 >= x.us * (x.hz \div 1000)
  OBVIOUS
<1> HIDE DEF x
<1>2. CASE x.type = "XTAL" /\ x.hz = 8000000 /\ x.us = 1000
  <2>2. StartupCycles(x) = 8000
    BY SMT, <1>2 DEF StartupCycles
  <2>3. XoscStartup(x) = 16384
    BY SMT, <1>2, <2>2 DEF XoscStartup
  <2>4. /\ x.type # "EXTERNAL" /\ ~(x.hz < 2000000) /\ x.hz < 9000000
    BY SMT, <1>2
  <2>1. XoscRange(x) = "2TO9" /\ XoscStartup(x) = 16384
    BY SMT, <2>3, <2>4 DEF XoscRange
  <2> QED BY SMT, <1>2, <2>1 DEF InCrystalRange
<1>3. CASE x.type = "XTAL" /\ x.hz = 2000000 /\ x.us = 500
  <2>2. StartupCycles(x) = 1000
    BY SMT, <1>3 DEF StartupCycles
  <2>3. XoscStartup(x) = 1024
    BY SMT, <1>3, <2>2 DEF XoscStartup
  <2>4. /\ x.type # "EXTERNAL" /\ ~(x.hz < 2000000) /\ x.hz < 9000000
    BY SMT, <1>3
  <2>1. XoscRange(x) = "2TO9" /\ XoscStartup(x) = 1024
    BY SMT, <2>3, <2>4 DEF XoscRange
  <2> QED BY SMT, <1>3, <2>1 DEF InCrystalRange
<1> QED BY <1>2, <1>3, <1>4

\* The configuration of this program (conf_clock.h) is one of those that the
\* three theorems below are about: its CPU runs at 12 MHz, and USB from RC32MHZ.
THEOREM ThisBuildIsSound == ThisBuild \in SoundConfigs
<1> DEFINE c == ThisBuild
<1>1. /\ c.source = "RC32MHZ" /\ c.usb = "RCOSC" /\ c.xosc = BoardXosc /\ c.pll = NoPll
      /\ c.rc32 = 48000000 /\ c.ref = "USBSOF" /\ c.row = "factory" /\ c.psa = 1 /\ c.psbc = 1
  BY SMT DEF ThisBuild
<1>2. c \in Configuration
  BY SMT DEF ThisBuild, Configuration, Oscillator, PsaField
<1>3. c.pll.source = "none"
  BY SMT DEF ThisBuild, NoPll
<1>4. XoscAllowed(BoardXosc)
  <2>1. BoardXosc.type # "XTAL"
    BY SMT DEF BoardXosc
  <2> QED BY SMT, <2>1 DEF XoscAllowed
<1> HIDE DEF c
<1>5. MainHz(c) = 48000000
  <2>1. OscRate(c, "RC32MHZ") = c.rc32
    BY SMT DEF OscRate
  <2> QED BY SMT, <1>1, <2>1 DEF MainHz
<1>6. Per4Hz(c) = 24000000 /\ CpuHz(c) = 12000000
  <2>1. DividedByA[c.psa] = 2
    BY SMT, <1>1 DEF DividedByA
  <2>2. Per4Hz(c) = MainHz(c) \div DividedByA[c.psa]
    BY SMT, <1>1, Divisions DEF Per4Hz, PsaField
  <2>3. Per4Hz(c) = 24000000
    BY SMT, <1>5, <2>1, <2>2
  <2>4. Per2Hz(c) = 24000000
    BY SMT, <1>1, <2>3 DEF Per2Hz
  <2> QED BY SMT, <1>1, <2>3, <2>4 DEF CpuHz, PerHz
<1>7. WithinLimits(c)
  BY SMT, <1>1, <1>6 DEF WithinLimits, MaxCpuHz, MaxFastHz
<1>8. UsbAllowed(c) /\ TunedAsCalibrated(c)
  BY SMT, <1>1 DEF UsbAllowed, TunedAsCalibrated
<1>9. c \in SoundConfigs
  BY <1>1, <1>2, <1>3, <1>4, <1>7, <1>8 DEF SoundConfigs
<1> QED BY <1>9 DEF c

\* ClockAlwaysSound, for every set of configurations that the device and the
\* headers allow: the CPU always has a clock that runs, no faster than it stands.
THEOREM ClockIsAlwaysSound ==
  ASSUME Configs \subseteq SoundConfigs PROVE Spec => []ClockAlwaysSound
<1>1. CInv => ClockAlwaysSound
  <2> SUFFICES ASSUME CInv PROVE ClockAlwaysSound
    OBVIOUS
  <2>1. /\ cfg \in SoundConfigs /\ SourceGood(cfg, Clocks) /\ OscGood(cfg, Clocks)
        /\ Clocks.osc = osc /\ Clocks.clk = clk
    BY GoodNow, GoodTypes
  <2>2. clk.source \in osc.ready
    BY SMT, <2>1 DEF SourceGood
  <2>3. clk.rtc \in DOMAIN RtcOscillator \ {"ULP"} => RtcOscillator[clk.rtc] \in osc.ready
    BY SMT, <2>1 DEF OscGood
  <2>4. "XOSC" \in osc.on =>
          clk.xosc[1] = XoscRange(cfg.xosc) /\ clk.xosc[2] = XoscStartup(cfg.xosc)
    BY SMT, <2>1 DEF OscGood, CrystalField
  <2>5. cfg.xosc.type = "XTAL" =>
          /\ InCrystalRange(cfg.xosc.hz, XoscRange(cfg.xosc))
          /\ XoscStartup(cfg.xosc) * 1000 >= cfg.xosc.us * (cfg.xosc.hz \div 1000)
    BY SMT, <2>1, SoundFacts, CrystalsSuit
  <2>6. CpuRunsAt \in 1..MaxCpuHz
    BY SMT, CpuInRange
  <2> QED BY SMT, <2>2, <2>3, <2>4, <2>5, <2>6 DEF ClockAlwaysSound
<1> QED BY <1>1, ClocksInvariant, PTL

\* UsbClockIs48MHz, for every such set of configurations: the USB module has its
\* 48 MHz while the device is attached.
THEOREM UsbClockAlways48MHz ==
  ASSUME Configs \subseteq SoundConfigs PROVE Spec => []UsbClockIs48MHz
<1>1. CInv => UsbClockIs48MHz
  <2> SUFFICES ASSUME CInv, usb.interrupts
               PROVE  /\ UsbGate \notin gated /\ clk.usb \in osc.ready
                      /\ RunsAt(clk.usb) = 48000000
                      /\ clk.usb = "RC32MHZ" =>
                           dfll.on /\ dfll.ref = "USBSOF" /\ dfll.comp = 48000000
    BY SMT DEF UsbClockIs48MHz
  <2>1. /\ cfg \in SoundConfigs /\ UsbGood(cfg, Clocks) /\ OscGood(cfg, Clocks)
        /\ Clocks.osc = osc /\ Clocks.clk = clk /\ Clocks.dfll = dfll
        /\ Clocks.gated = gated /\ Clocks.up = usb.interrupts
    BY GoodNow, GoodTypes
  <2>2. /\ UsbGate \notin gated /\ clk.usb = UsbSource(cfg) /\ clk.usb \in osc.ready
        /\ clk.usb = "RC32MHZ" => dfll.on /\ Tuning(dfll)
        /\ osc.ready \subseteq osc.on
    BY SMT, <2>1 DEF UsbGood, OscGood
  <2>3. RunsAt(clk.usb) = 48000000
    <3>1. CASE cfg.usb = "RCOSC"
      <4>1. clk.usb = "RC32MHZ" /\ Rc32Hz = cfg.rc32 /\ Wants48MHz(cfg)
        BY SMT, <2>1, <2>2, <3>1, Rc32AsConfigured, SoundFacts DEF UsbSource
      <4> QED BY SMT, <4>1 DEF RunsAt, Wants48MHz
    <3>2. CASE cfg.usb = "PLL"
      <4>1. clk.usb = "PLL" /\ RunsAt("PLL") = PllRate(cfg)
        BY SMT, <2>2, <3>2, PllAsConfigured DEF UsbSource
      <4>2. PllRate(cfg) = 48000000
        BY SMT, <2>1, <3>2, SoundFacts
      <4> QED BY SMT, <4>1, <4>2
    <3> QED BY SMT, <2>1, <3>1, <3>2, SoundFacts, ConfigurationFields
  <2> QED BY SMT, <2>2, <2>3 DEF Tuning
<1> QED BY <1>1, ClocksInvariant, PTL

\* PeripheralsClockedAsReported, for every such set of configurations and every number
\* of peripherals in use.
THEOREM PeripheralsAlwaysClocked ==
  ASSUME Configs \subseteq SoundConfigs PROVE Spec => []PeripheralsClockedAsReported
<1>1. CInv => PeripheralsClockedAsReported
  <2> SUFFICES ASSUME CInv, InLoop
               PROVE  /\ {gate \in AllGates : ModuleIsEnabled(gate)}
                           = {EnableGate[m] : m \in inUse}
                             \cup (IF usb.interrupts THEN {UsbGate} ELSE {})
                      /\ \A m \in inUse :
                           PeripheralBusHz(cfg, m) =
                             IF m \in HighResolution THEN BusFastHz ELSE CpuRunsAt
    BY SMT DEF PeripheralsClockedAsReported
  <2>1. /\ Clocks \in Loop(cfg, inUse) /\ inUse \subseteq Peripheral
        /\ Clocks.clk = clk /\ Clocks.gated = gated /\ Clocks.up = usb.interrupts
    BY TripleAfter DEF CInv, InLoop, Clocks
  <2>2. /\ clk.source = cfg.source /\ clk.psa = cfg.psa /\ clk.psbc = cfg.psbc
        /\ gated = LoopGates(inUse, usb.interrupts)
    BY SMT, <2>1 DEF Loop
  <2>3. UsbGate \in AllGates /\ \A m \in inUse : EnableGate[m] \in AllGates
    BY SMT, <2>1 DEF AllGates
  <2>4. {gate \in AllGates : ModuleIsEnabled(gate)}
          = {EnableGate[m] : m \in inUse} \cup (IF usb.interrupts THEN {UsbGate} ELSE {})
    BY SMT, <2>2, <2>3 DEF LoopGates, ModuleIsEnabled
  <2>5. BusFastHz = Per4Hz(cfg) /\ CpuRunsAt = PerHz(cfg)
    BY SMT, <2>2, RatesAsConfigured
  <2> QED BY SMT, <2>4, <2>5 DEF PeripheralBusHz
<1> QED BY <1>1, ClocksInvariant, PTL
=============================================================================
