------------------------- MODULE QemuBackendProofs -------------------------
(***************************************************************************)
(* Proofs about QemuBackend, for every board, program, list of experiments *)
(* and budget: what the harness keeps of a run stays in its types, and a   *)
(* run with a clean start, whose reference halts and retires what the      *)
(* board retires, is at the reference's state until then, spins there      *)
(* until _run_until_halt() sees it, and is reported as the reference has   *)
(* it.                                                                     *)
(***************************************************************************)
EXTENDS QemuBackend, NatRecursion, TLAPS

LEMMA FaultFields ==
  ASSUME NEW f \in Fault
  PROVE  /\ f.trigger \in Nat
         /\ f.model \in {"SKIP", "REG_XOR", "REG_SET", "MEM_XOR", "OPCODE_XOR"}
         /\ f.model = "SKIP" => f.value \in Nat
         /\ f.model \in {"REG_XOR", "REG_SET"} => f.target \in Reg /\ f.value \in Word
         /\ f.model = "MEM_XOR" =>
              f.target \in Nat /\ f.value \in Word
         /\ f.model = "OPCODE_XOR" => f.value \in Word
  BY DEF Fault, SkipFault, RegFault, MemFault, OpcodeFault

LEMMA HeadAndTail ==
  ASSUME NEW t \in Seq(Fault), t # <<>>
  PROVE  /\ t[1] \in Fault /\ Head(t) = t[1] /\ t[1].trigger \in Nat
         /\ Tail(t) \in Seq(Fault) /\ Len(t) \in Nat /\ Len(t) > 0
         /\ Len(Tail(t)) = Len(t) - 1
         /\ \A i \in 1..Len(Tail(t)) : Tail(t)[i] = t[i + 1] /\ i + 1 \in 1..Len(t)
<1>1. /\ Len(t) \in Nat /\ Len(t) > 0 /\ Head(t) = t[1] /\ t[1] \in Fault
      /\ Tail(t) \in Seq(Fault) /\ Len(Tail(t)) = Len(t) - 1
      /\ \A i \in 1..Len(Tail(t)) : Tail(t)[i] = t[i + 1] /\ i + 1 \in 1..Len(t)
  OBVIOUS
<1> QED
  BY <1>1, FaultFields

(***************************************************************************)
(* The addresses of the next instructions in memory, decoded one after     *)
(* another, and the fact that they may be followed from either end.        *)
(***************************************************************************)
IsCode(code) == \A a \in DOMAIN code : code[a] \in Code

InsnStep(code) == [p \in Nat |-> NextInsn(code, p)]

LEMMA InsnStepTyped ==
  ASSUME NEW code, IsCode(code)
  PROVE  /\ InsnStep(code) \in [Nat -> Nat]
         /\ \A p \in Nat : InsnStep(code)[p] = NextInsn(code, p) /\ NextInsn(code, p) \in Nat
<1>1. ASSUME NEW p \in Nat PROVE NextInsn(code, p) \in Nat
  BY DataAssumption DEF NextInsn, IsCode
<1> QED BY <1>1 DEF InsnStep

InsnAt(code) == [p \in Nat |->
                   CHOOSE f \in [Nat -> Nat] : IsIteration(f, Nat, p, InsnStep(code))]

LEMMA InsnAtStep ==
  ASSUME NEW code, IsCode(code), NEW p \in Nat, NEW n \in Nat
  PROVE  /\ InsnAt(code)[p][0] = p
         /\ InsnAt(code)[p][n] \in Nat
         /\ InsnAt(code)[p][n + 1] = NextInsn(code, InsnAt(code)[p][n])
<1>1. PICK f \in [Nat -> Nat] : f = InsnAt(code)[p] /\ IsIteration(f, Nat, p, InsnStep(code))
  BY InsnStepTyped, IterationExists DEF InsnAt
<1>2. f[0] = p /\ n + 1 \in Nat /\ n + 1 # 0 /\ n + 1 - 1 = n
  BY <1>1 DEF IsIteration
<1>3. f[n + 1] = InsnStep(code)[f[n]] /\ f[n] \in Nat
  BY <1>1, <1>2 DEF IsIteration
<1> QED BY <1>1, <1>2, <1>3, InsnStepTyped

LEMMA BothEnds ==
  ASSUME NEW code, IsCode(code), NEW n \in Nat
  PROVE  \A p \in Nat : InsnAt(code)[p][n + 1] = InsnAt(code)[NextInsn(code, p)][n]
<1> DEFINE At(p) == InsnAt(code)[p]
           G == {k \in Nat : \A p \in Nat : At(p)[k + 1] = At(NextInsn(code, p))[k]}
<1>1. /\ \A p \in Nat : NextInsn(code, p) \in Nat
      /\ \A p, k \in Nat : At(p)[0] = p /\ At(p)[k + 1] = NextInsn(code, At(p)[k])
  BY InsnStepTyped, InsnAtStep
<1> HIDE DEF At
<1>2. 0 \in G
  <2>1. ASSUME NEW p \in Nat PROVE At(p)[0 + 1] = At(NextInsn(code, p))[0]
    BY <1>1
  <2> QED BY <2>1
<1>3. ASSUME NEW k \in Nat, k \in G PROVE k + 1 \in G
  <2>1. ASSUME NEW p \in Nat
        PROVE  At(p)[k + 1 + 1] = At(NextInsn(code, p))[k + 1]
    <3>1. At(p)[k + 1 + 1] = NextInsn(code, At(p)[k + 1])
      BY <1>1
    <3>2. At(p)[k + 1] = At(NextInsn(code, p))[k]
      BY <1>3
    <3>3. At(NextInsn(code, p))[k + 1] = NextInsn(code, At(NextInsn(code, p))[k])
      BY <1>1
    <3> QED BY <3>1, <3>2, <3>3
  <2> QED BY <2>1
<1> HIDE DEF G
<1>4. n \in G
  BY <1>2, <1>3, NatInd
<1>5. \A p \in Nat : At(p)[n + 1] = At(NextInsn(code, p))[n]
  BY <1>4 DEF G
<1> QED BY <1>5 DEF At

LEMMA FollowIsInsnAt ==
  ASSUME NEW code, IsCode(code), NEW k \in Nat
  PROVE  \A p \in Nat : Follow(code)[k][p] = InsnAt(code)[p][k]
<1> DEFINE go == Follow(code)
           g == [n \in Nat |-> [p \in Nat |-> InsnAt(code)[p][n]]]
<1>1. g = [n \in Nat |-> [p \in Nat |->
             IF n = 0 THEN p ELSE g[n - 1][NextInsn(code, p)]]]
  <2>1. ASSUME NEW n \in Nat, NEW p \in Nat
        PROVE  InsnAt(code)[p][n] = IF n = 0 THEN p ELSE g[n - 1][NextInsn(code, p)]
    <3>1. CASE n = 0
      BY InsnAtStep, <3>1
    <3>2. CASE n # 0
      <4>1. PICK m \in Nat : n = m + 1 /\ n - 1 = m
        BY <3>2
      <4>2. InsnAt(code)[p][m + 1] = InsnAt(code)[NextInsn(code, p)][m]
        BY BothEnds
      <4>3. NextInsn(code, p) \in Nat
        BY InsnStepTyped
      <4> QED BY <3>2, <4>1, <4>2, <4>3
    <3> QED BY <3>1, <3>2
  <2> QED BY <2>1
<1>2. go = [n \in Nat |-> [p \in Nat |->
              IF n = 0 THEN p ELSE go[n - 1][NextInsn(code, p)]]]
  <2> HIDE DEF g
  <2> QED BY <1>1 DEF Follow
<1> HIDE DEF g, go
<1> DEFINE G == {n \in Nat : \A p \in Nat : go[n][p] = g[n][p]}
<1>3. 0 \in G
  BY <1>1, <1>2
<1>4. ASSUME NEW n \in Nat, n \in G PROVE n + 1 \in G
  <2>1. ASSUME NEW p \in Nat PROVE go[n + 1][p] = g[n + 1][p]
    <3>1. n + 1 \in Nat /\ n + 1 # 0 /\ n + 1 - 1 = n
      OBVIOUS
    <3>2. NextInsn(code, p) \in Nat
      BY InsnStepTyped
    <3>3. go[n + 1][p] = go[n][NextInsn(code, p)]
      BY <1>2, <3>1
    <3>4. g[n + 1][p] = g[n][NextInsn(code, p)]
      BY <1>1, <3>1
    <3> QED BY <1>4, <3>2, <3>3, <3>4
  <2> QED BY <2>1
<1> HIDE DEF G
<1>5. k \in G
  BY <1>3, <1>4, NatInd
<1> QED BY <1>5 DEF G, g, go

(***************************************************************************)
(* _skip_bytes() adds up widths from the pc onwards; the reference follows *)
(* the instructions.  Both land on the same address.                       *)
(***************************************************************************)
LEMMA SkipIsFollow ==
  ASSUME NEW pc \in Nat, NEW k \in Nat, NEW code, IsCode(code)
  PROVE  /\ pc + SkipBytes(code, pc, k) = RefSkip(code, pc, k)
         /\ RefSkip(code, pc, k) \in Nat
<1> DEFINE IsAt(f) == f = [i \in 0..k |->
             IF i = 0 THEN pc
             ELSE f[i - 1] + (IF f[i - 1] \in DOMAIN code
                              THEN InsnWidth(code[f[i - 1]]) ELSE 0)]
           h == [i \in 0..k |-> InsnAt(code)[pc][i]]
           c == CHOOSE f : IsAt(f)
<1>1. IsAt(h)
  <2>1. ASSUME NEW i \in 0..k
        PROVE  h[i] = IF i = 0 THEN pc
                      ELSE h[i - 1] + (IF h[i - 1] \in DOMAIN code
                                       THEN InsnWidth(code[h[i - 1]]) ELSE 0)
    <3>1. CASE i = 0
      BY InsnAtStep, <3>1
    <3>2. CASE i # 0
      <4>1. i - 1 \in Nat /\ i - 1 + 1 = i /\ i - 1 \in 0..k
        BY <3>2
      <4>2. InsnAt(code)[pc][i] = NextInsn(code, InsnAt(code)[pc][i - 1])
        BY InsnAtStep, <4>1
      <4>3. InsnAt(code)[pc][i - 1] \in Nat
        BY InsnAtStep, <4>1
      <4>4. InsnAt(code)[pc][i - 1] + 0 = InsnAt(code)[pc][i - 1]
        BY <4>3
      <4> QED BY <3>2, <4>1, <4>2, <4>4 DEF NextInsn
    <3> QED BY <3>1, <3>2
  <2> QED BY <2>1
<1>2. IsAt(c)
  <2> HIDE DEF h
  <2> QED BY <1>1
<1>3. SkipBytes(code, pc, k) = IF c[k] = pc THEN 1 ELSE c[k] - pc
  BY DEF SkipBytes
<1> DEFINE G == {i \in Nat : i <= k => c[i] = InsnAt(code)[pc][i]}
<1> HIDE DEF c, h
<1>4. 0 \in G
  <2>1. c[0] = pc
    BY <1>2
  <2> QED BY InsnAtStep, <2>1
<1>5. ASSUME NEW i \in Nat, i \in G PROVE i + 1 \in G
  <2> SUFFICES ASSUME i + 1 <= k PROVE c[i + 1] = InsnAt(code)[pc][i + 1]
    OBVIOUS
  <2>1. i + 1 \in 0..k /\ i + 1 # 0 /\ i + 1 - 1 = i /\ i <= k
    OBVIOUS
  <2>2. c[i + 1] = c[i] + (IF c[i] \in DOMAIN code THEN InsnWidth(code[c[i]]) ELSE 0)
    BY <1>2, <2>1
  <2>3. c[i] = InsnAt(code)[pc][i] /\ InsnAt(code)[pc][i] \in Nat
    BY InsnAtStep, <1>5, <2>1
  <2>4. InsnAt(code)[pc][i] + 0 = InsnAt(code)[pc][i]
    BY <2>3
  <2> QED BY InsnAtStep, <2>2, <2>3, <2>4 DEF NextInsn
<1> HIDE DEF G
<1>6. k \in G
  BY <1>4, <1>5, NatInd
<1>7. c[k] = InsnAt(code)[pc][k] /\ InsnAt(code)[pc][k] \in Nat
  BY <1>6, InsnAtStep DEF G
<1>8. RefSkip(code, pc, k) = IF InsnAt(code)[pc][k] = pc THEN pc + 1 ELSE InsnAt(code)[pc][k]
  BY FollowIsInsnAt DEF RefSkip
<1> QED BY <1>3, <1>7, <1>8

(***************************************************************************)
(* The memory around an address, as code, and one instruction of either    *)
(* CPU.                                                                    *)
(***************************************************************************)
LEMMA MappedIs ==
  /\ Blank \in WindowImage
  /\ FlashCell \subseteq Mapped /\ RamCell \subseteq Mapped /\ WindowCell \subseteq Mapped
  /\ Executable \subseteq Mapped
  BY DataAssumption DEF Blank, WindowImage, Mapped, Executable

LEMMA AroundIs ==
  ASSUME NEW pc, NEW m \in RamImage, NEW f \in Flash
  PROVE  /\ IsCode(Around(pc, m, Blank, f))
         /\ pc \in Mapped => Around(pc, m, Blank, f)[pc] \in Code
<1>1. IsCode(AsCodes(m)) /\ DOMAIN AsCodes(m) = RamCell
  BY XorAssumption DEF AsCodes, RamImage, IsCode
<1>2. IsCode(AsCodes(Blank)) /\ DOMAIN AsCodes(Blank) = WindowCell
  BY XorAssumption, MappedIs DEF AsCodes, WindowImage, IsCode
<1>3. IsCode(f) /\ DOMAIN f = FlashCell
  BY DEF IsCode, Flash
<1> QED BY <1>1, <1>2, <1>3 DEF Around, Mapped, IsCode

LEMMA ExecTyped ==
  ASSUME NEW c \in Context, NEW m \in RamImage, NEW op \in Code, c.pc \in Mapped
  PROVE  /\ IsOutcome(Exec(c, m, Blank, op))
         /\ IsOutcome(BoardExec(c, m, op))
<1>1. c = [pc |-> c.pc, regs |-> c.regs] /\ c.regs \in [Reg -> Word]
  BY DEF Context
<1> QED
  BY <1>1, ExecAssumption

(***************************************************************************)
(* The states of the reference run of a fault set whose last trigger is T. *)
(***************************************************************************)
Todos(T) == {t \in Seq(Fault) : \A i \in 1..Len(t) : t[i].trigger <= T}
RefHalts == {"RUN", "ORACLE", "CPUFAULT", "BUDGET", "WINDOW"}

RefStates(T) == [ctx : Context, ram : RamImage, flash : Flash, n : Nat,
                 halt : RefHalts, todo : Todos(T)]

RefState(c, m, f, n, h, t) ==
  [ctx |-> c, ram |-> m, flash |-> f, n |-> n, halt |-> h, todo |-> t]

RefSees(c, m, f) == Around(c.pc, m, Blank, f)

LEMMA RefStateTyped ==
  ASSUME NEW T
  PROVE
  /\ \A c \in Context, m \in RamImage, f \in Flash, n \in Nat, h \in RefHalts,
        t \in Todos(T) :
       RefState(c, m, f, n, h, t) \in RefStates(T)
  /\ \A s \in RefStates(T) :
       /\ s.ctx \in Context /\ s.ram \in RamImage /\ s.flash \in Flash /\ s.n \in Nat
       /\ s.halt \in RefHalts /\ s.todo \in Todos(T)
       /\ s = RefState(s.ctx, s.ram, s.flash, s.n, s.halt, s.todo)
  BY DEF RefStates, RefState

LEMMA TailTodos ==
  ASSUME NEW T, NEW t \in Todos(T), t # <<>>
  PROVE  /\ t[1] \in Fault /\ t[1].trigger \in Nat /\ t[1].trigger <= T
         /\ Tail(t) \in Todos(T) /\ Len(t) \in Nat /\ Len(t) > 0
         /\ Len(Tail(t)) = Len(t) - 1
<1>1. t \in Seq(Fault) /\ \A i \in 1..Len(t) : t[i].trigger <= T
  BY DEF Todos
<1>2. 1 \in 1..Len(t)
  BY <1>1, HeadAndTail
<1>3. \A i \in 1..Len(Tail(t)) : Tail(t)[i].trigger <= T
  BY <1>1, HeadAndTail
<1> QED
  BY <1>1, <1>2, <1>3, HeadAndTail DEF Todos

-----------------------------------------------------------------------------
(***************************************************************************)
(* One fault of the reference, model by model.                             *)
(***************************************************************************)
LEMMA RefSkips ==
  ASSUME NEW c \in Context, NEW m, NEW f, NEW n, NEW t, NEW x \in Fault,
         x.model = "SKIP", c.pc \in Mapped \ WindowCell
  PROVE  RefHit(RefState(c, m, f, n, "RUN", t), x) =
           RefState([c EXCEPT !.pc = RefSkip(RefSees(c, m, f), c.pc, x.value)],
                    m, f, n, "RUN", t)
<1>1. RefCode(RefState(c, m, f, n, "RUN", t)) = RefSees(c, m, f)
  BY DEF RefCode, RefState, RefSees
<1> QED BY <1>1 DEF RefHit, RefState

LEMMA RefSkipsNot ==
  ASSUME NEW c, NEW m, NEW f, NEW n, NEW t, NEW x \in Fault,
         x.model = "SKIP", c.pc \notin Mapped \ WindowCell
  PROVE  RefHit(RefState(c, m, f, n, "RUN", t), x) =
           RefState(c, m, f, n, IF c.pc \in Mapped THEN "WINDOW" ELSE "CPUFAULT", t)
<1>1. c.pc \in Mapped <=> c.pc \in WindowCell
  BY MappedIs
<1> QED BY <1>1 DEF RefHit, RefState

LEMMA RefSetsReg ==
  ASSUME NEW c \in Context, NEW m, NEW f, NEW n, NEW t, NEW x \in Fault,
         x.model \in {"REG_XOR", "REG_SET"}
  PROVE  RefHit(RefState(c, m, f, n, "RUN", t), x) =
           RefState([c EXCEPT !.regs[x.target] =
                       IF x.model = "REG_SET" THEN x.value
                       ELSE XorWord(c.regs[x.target], x.value)],
                    m, f, n, "RUN", t)
  BY DEF RefHit, RefState

(***************************************************************************)
(* What a flip of the word at a leaves in RAM and in flash.                *)
(***************************************************************************)
RamFlip(m, a, v) == IF a \in RamCell THEN [m EXCEPT ![a] = XorWord(m[a], v)] ELSE m
FlashFlip(f, a, v) == IF a \in FlashCell THEN [f EXCEPT ![a] = FlipCode(f[a], v)] ELSE f

LEMMA FlipTyped ==
  ASSUME NEW m \in RamImage, NEW f \in Flash, NEW a, NEW v \in Word
  PROVE  RamFlip(m, a, v) \in RamImage /\ FlashFlip(f, a, v) \in Flash
<1>1. RamFlip(m, a, v) \in RamImage
  BY XorAssumption DEF RamFlip, RamImage
<1>2. FlashFlip(f, a, v) \in Flash
  BY XorAssumption DEF FlashFlip, Flash
<1> QED BY <1>1, <1>2

LEMMA RefXors ==
  ASSUME NEW c, NEW m \in RamImage, NEW f \in Flash, NEW n, NEW t, NEW a, NEW v
  PROVE  RefXor(RefState(c, m, f, n, "RUN", t), a, v) =
           IF a \in Mapped
           THEN RefState(c, RamFlip(m, a, v), FlashFlip(f, a, v), n, "RUN", t)
           ELSE RefState(c, m, f, n, "CPUFAULT", t)
<1>1. CASE a \in FlashCell
  BY <1>1, DataAssumption, MappedIs DEF RefXor, RefState, RamFlip, FlashFlip
<1>2. CASE a \in RamCell
  <2>1. a \notin FlashCell /\ a \notin WindowCell /\ a \in Mapped
    BY <1>2, DataAssumption, MappedIs
  <2>2. RefXor(RefState(c, m, f, n, "RUN", t), a, v)
          = RefState(c, [m EXCEPT ![a] = XorWord(m[a], v)], f, n, "RUN", t)
    BY <1>2, <2>1 DEF RefXor, RefState
  <2>3. RamFlip(m, a, v) = [m EXCEPT ![a] = XorWord(m[a], v)] /\ FlashFlip(f, a, v) = f
    BY <1>2, <2>1 DEF RamFlip, FlashFlip
  <2> QED BY <2>1, <2>2, <2>3
<1>3. CASE a \in WindowCell
  <2>1. a \notin FlashCell /\ a \notin RamCell /\ a \in Mapped
    BY <1>3, DataAssumption, MappedIs
  <2> QED BY <1>3, <2>1 DEF RefXor, RefState, RamFlip, FlashFlip
<1>4. CASE a \notin Mapped
  <2>1. a \notin FlashCell /\ a \notin RamCell /\ a \notin WindowCell
    BY <1>4, MappedIs
  <2> QED BY <1>4, <2>1 DEF RefXor, RefState
<1> QED BY <1>1, <1>2, <1>3, <1>4 DEF Mapped

LEMMA RefFlips ==
  ASSUME NEW c, NEW m, NEW f, NEW n, NEW t, NEW x \in Fault
  PROVE  LET s == RefState(c, m, f, n, "RUN", t)
         IN  /\ x.model = "MEM_XOR" => RefHit(s, x) = RefXor(s, x.target, x.value)
             /\ x.model = "OPCODE_XOR" => RefHit(s, x) = RefXor(s, c.pc, x.value)
  BY DEF RefHit, RefState

LEMMA RefHitTyped ==
  ASSUME NEW c \in Context, NEW m \in RamImage, NEW f \in Flash, NEW n, NEW t,
         NEW x \in Fault
  PROVE  \E c2 \in Context, m2 \in RamImage, f2 \in Flash, h \in {"RUN", "CPUFAULT", "WINDOW"} :
           RefHit(RefState(c, m, f, n, "RUN", t), x) = RefState(c2, m2, f2, n, h, t)
<1>1. CASE x.model = "SKIP" /\ c.pc \in Mapped \ WindowCell
  <2>1. c.pc \in Nat /\ x.value \in Nat
    BY <1>1, FaultFields DEF Context
  <2>2. RefSkip(RefSees(c, m, f), c.pc, x.value) \in Nat
    BY <2>1, AroundIs, SkipIsFollow DEF RefSees
  <2>3. [c EXCEPT !.pc = RefSkip(RefSees(c, m, f), c.pc, x.value)] \in Context
    BY <2>2 DEF Context
  <2> QED BY <1>1, <2>3, RefSkips
<1>2. CASE x.model = "SKIP" /\ c.pc \notin Mapped \ WindowCell
  <2> DEFINE h == IF c.pc \in Mapped THEN "WINDOW" ELSE "CPUFAULT"
  <2>1. RefHit(RefState(c, m, f, n, "RUN", t), x) = RefState(c, m, f, n, h, t)
    BY <1>2, RefSkipsNot
  <2>2. h \in {"CPUFAULT", "WINDOW"}
    OBVIOUS
  <2> HIDE DEF h
  <2> QED BY <2>1, <2>2
<1>3. CASE x.model \in {"REG_XOR", "REG_SET"}
  <2> DEFINE v == IF x.model = "REG_SET" THEN x.value
                  ELSE XorWord(c.regs[x.target], x.value)
  <2>1. x.target \in Reg /\ x.value \in Word /\ c.regs \in [Reg -> Word]
    BY <1>3, FaultFields DEF Context
  <2>2. v \in Word
    BY <2>1, XorAssumption
  <2>3. [c EXCEPT !.regs[x.target] = v] \in Context
    BY <2>1, <2>2 DEF Context
  <2> QED BY <1>3, <2>3, RefSetsReg
<1>4. CASE x.model \in {"MEM_XOR", "OPCODE_XOR"}
  <2>1. PICK a : RefHit(RefState(c, m, f, n, "RUN", t), x)
                   = RefXor(RefState(c, m, f, n, "RUN", t), a, x.value)
    BY <1>4, RefFlips
  <2>2. x.value \in Word
    BY <1>4, FaultFields
  <2>3. RamFlip(m, a, x.value) \in RamImage /\ FlashFlip(f, a, x.value) \in Flash
    BY <2>2, FlipTyped
  <2>4. CASE a \in Mapped
    BY <2>1, <2>3, <2>4, RefXors
  <2>5. CASE a \notin Mapped
    <3>1. RefHit(RefState(c, m, f, n, "RUN", t), x) = RefState(c, m, f, n, "CPUFAULT", t)
      BY <2>1, <2>5, RefXors
    <3> QED BY <3>1
  <2> QED BY <2>4, <2>5
<1> QED BY <1>1, <1>2, <1>3, <1>4, FaultFields

(***************************************************************************)
(* One step of the reference: a fault, the end of the budget, or an        *)
(* instruction.                                                            *)
(***************************************************************************)
LEMMA RefNextHits ==
  ASSUME NEW T, NEW c, NEW m, NEW f, NEW n \in Nat, NEW t \in Todos(T),
         t # <<>>, n >= t[1].trigger, NEW c2, NEW m2, NEW f2, NEW h,
         RefHit(RefState(c, m, f, n, "RUN", t), t[1]) = RefState(c2, m2, f2, n, h, t)
  PROVE  RefNext(RefState(c, m, f, n, "RUN", t)) = RefState(c2, m2, f2, n, h, Tail(t))
<1>1. RefNext(RefState(c, m, f, n, "RUN", t)) =
        [RefHit(RefState(c, m, f, n, "RUN", t), t[1]) EXCEPT !.todo = Tail(t)]
  BY DEF RefNext, RefState
<1>2. [RefState(c2, m2, f2, n, h, t) EXCEPT !.todo = Tail(t)]
        = RefState(c2, m2, f2, n, h, Tail(t))
  BY DEF RefState
<1> QED BY <1>1, <1>2

LEMMA RefNextSteps ==
  ASSUME NEW T, NEW c, NEW m, NEW f, NEW n \in Nat, NEW t \in Todos(T),
         t = <<>> => n < Budget, t # <<>> => n < t[1].trigger
  PROVE  RefNext(RefState(c, m, f, n, "RUN", t)) = RefStep(RefState(c, m, f, n, "RUN", t))
<1>1. t # <<>> => t[1].trigger \in Nat
  BY TailTodos
<1> QED BY <1>1, SizesAssumption DEF RefNext, RefState

LEMMA RefStepFails ==
  ASSUME NEW c, NEW m, NEW f, NEW n, NEW t, c.pc \notin WindowCell,
         NEW e, e = Exec(c, m, Blank, RefSees(c, m, f)[c.pc]),
         c.pc \notin Mapped \/ (~e.peeks /\ (e.event = "trap" \/ e.stray # {}))
  PROVE  RefStep(RefState(c, m, f, n, "RUN", t)) = RefState(c, m, f, n, "CPUFAULT", t)
  BY DEF RefStep, RefState, RefCode, RefSees

LEMMA RefStepStops ==
  ASSUME NEW c, NEW m, NEW f, NEW n, NEW t, c.pc \in Mapped,
         \/ c.pc \in WindowCell
         \/ Exec(c, m, Blank, RefSees(c, m, f)[c.pc]).peeks
  PROVE  RefStep(RefState(c, m, f, n, "RUN", t)) = RefState(c, m, f, n, "WINDOW", t)
  BY DEF RefStep, RefState, RefCode, RefSees

LEMMA RefStepRuns ==
  ASSUME NEW c, NEW m, NEW f, NEW n, NEW t, c.pc \in Mapped, c.pc \notin WindowCell,
         NEW e, e = Exec(c, m, Blank, RefSees(c, m, f)[c.pc]),
         ~e.peeks, e.event # "trap", e.stray = {}
  PROVE  RefStep(RefState(c, m, f, n, "RUN", t)) =
           RefState(e.ctx, e.ram, f, n + 1,
                    IF e.event = "halt" THEN "ORACLE" ELSE "RUN", t)
  BY DEF RefStep, RefState, RefCode, RefSees

LEMMA RefRetires ==
  ASSUME NEW c, NEW m, NEW f, NEW n, NEW t,
         RefStep(RefState(c, m, f, n, "RUN", t)).halt \in {"RUN", "ORACLE"},
         NEW e, e = Exec(c, m, Blank, RefSees(c, m, f)[c.pc])
  PROVE  /\ c.pc \in Mapped /\ c.pc \notin WindowCell
         /\ ~e.peeks /\ e.event # "trap" /\ e.stray = {}
         /\ RefStep(RefState(c, m, f, n, "RUN", t)) =
              RefState(e.ctx, e.ram, f, n + 1,
                       IF e.event = "halt" THEN "ORACLE" ELSE "RUN", t)
<1>1. \A h : RefState(c, m, f, n, h, t).halt = h
  BY DEF RefState
<1>2. c.pc \in WindowCell => c.pc \in Mapped
  BY MappedIs
<1>3. ~(c.pc \in Mapped /\ (c.pc \in WindowCell \/ e.peeks))
  BY <1>1, RefStepStops
<1>4. c.pc \in Mapped /\ c.pc \notin WindowCell /\ e.event # "trap" /\ e.stray = {}
  BY <1>1, <1>2, <1>3, RefStepFails
<1> QED BY <1>3, <1>4, RefStepRuns

(***************************************************************************)
(* What a step of the reference does to its count and its faults.          *)
(***************************************************************************)
LEMMA RefNextCases ==
  ASSUME NEW T \in Int, NEW s \in RefStates(T), s.halt = "RUN"
  PROVE  /\ RefNext(s) \in RefStates(T)
         /\ \/ /\ s.todo # <<>> /\ s.n >= s.todo[1].trigger
               /\ RefNext(s).n = s.n /\ RefNext(s).todo = Tail(s.todo)
               /\ RefNext(s).halt \in {"RUN", "CPUFAULT", "WINDOW"}
            \/ /\ s.todo = <<>> /\ s.n >= Budget
               /\ RefNext(s).n = s.n /\ RefNext(s).todo = s.todo
               /\ RefNext(s).halt = "BUDGET"
            \/ /\ s.todo = <<>> => s.n < Budget
               /\ s.todo # <<>> => s.n < s.todo[1].trigger
               /\ RefNext(s).todo = s.todo
               /\ \/ RefNext(s).halt \in {"CPUFAULT", "WINDOW"} /\ RefNext(s).n = s.n
                  \/ RefNext(s).halt \in {"RUN", "ORACLE"} /\ RefNext(s).n = s.n + 1
<1> DEFINE c == s.ctx
           m == s.ram
           f == s.flash
           n == s.n
           t == s.todo
<1>1. /\ c \in Context /\ m \in RamImage /\ f \in Flash /\ n \in Nat /\ t \in Todos(T)
      /\ s = RefState(c, m, f, n, "RUN", t)
  BY RefStateTyped
<1> HIDE DEF c, m, f, n, t
<1>2. s.n = n /\ s.todo = t
  BY DEF n, t
<1>3. \A c2, m2, f2, n2, h, t2 :
        /\ RefState(c2, m2, f2, n2, h, t2).n = n2
        /\ RefState(c2, m2, f2, n2, h, t2).halt = h
        /\ RefState(c2, m2, f2, n2, h, t2).todo = t2
  BY DEF RefState
<1>4. CASE t # <<>> /\ n >= t[1].trigger
  <2>1. t[1] \in Fault /\ Tail(t) \in Todos(T)
    BY <1>1, <1>4, TailTodos
  <2>2. PICK c2 \in Context, m2 \in RamImage, f2 \in Flash, h \in {"RUN", "CPUFAULT", "WINDOW"} :
          RefHit(RefState(c, m, f, n, "RUN", t), t[1]) = RefState(c2, m2, f2, n, h, t)
    BY <1>1, <2>1, RefHitTyped
  <2>3. RefNext(s) = RefState(c2, m2, f2, n, h, Tail(t))
    BY <1>1, <1>4, <2>2, RefNextHits
  <2>4. h \in RefHalts
    BY <2>2 DEF RefHalts
  <2>5. RefNext(s) \in RefStates(T)
    BY <1>1, <2>1, <2>2, <2>3, <2>4, RefStateTyped
  <2>6. RefNext(s).n = n /\ RefNext(s).todo = Tail(t) /\ RefNext(s).halt = h
    <3> DEFINE r == Tail(t)
    <3>1. RefNext(s) = RefState(c2, m2, f2, n, h, r)
      BY <2>3
    <3> HIDE DEF r
    <3>2. RefNext(s).n = n /\ RefNext(s).todo = r /\ RefNext(s).halt = h
      BY <1>3, <3>1
    <3> QED BY <3>2 DEF r
  <2>7. RefNext(s).todo = Tail(s.todo)
    BY <1>2, <2>6
  <2>8. s.todo # <<>> /\ s.n >= s.todo[1].trigger /\ RefNext(s).n = s.n
    BY <1>2, <1>4, <2>6
  <2>9. RefNext(s).halt \in {"RUN", "CPUFAULT", "WINDOW"}
    BY <2>2, <2>6
  <2> QED BY <2>5, <2>7, <2>8, <2>9
<1>5. CASE t = <<>> /\ n >= Budget
  <2>1. RefNext(s) = RefState(c, m, f, n, "BUDGET", t)
    BY <1>1, <1>5 DEF RefNext, RefState
  <2>2. RefNext(s) \in RefStates(T)
    BY <1>1, <2>1, RefStateTyped DEF RefHalts
  <2> QED BY <1>2, <1>3, <1>5, <2>1, <2>2
<1>6. CASE ~(t # <<>> /\ n >= t[1].trigger) /\ ~(t = <<>> /\ n >= Budget)
  <2>1. /\ t = <<>> => n < Budget
        /\ t # <<>> => n < t[1].trigger
    <3>1. CASE t = <<>>
      BY <1>1, <1>6, <3>1, SizesAssumption
    <3>2. CASE t # <<>>
      <4>1. t[1].trigger \in Nat
        BY <1>1, <3>2, TailTodos
      <4> QED BY <1>1, <1>6, <3>2, <4>1
    <3> QED BY <3>1, <3>2
  <2>2. RefNext(s) = RefStep(s)
    BY <1>1, <2>1, RefNextSteps
  <2> DEFINE op == RefSees(c, m, f)[c.pc]
             e == Exec(c, m, Blank, op)
  <2>3. {"CPUFAULT", "ORACLE", "RUN", "WINDOW"} \subseteq RefHalts
    BY DEF RefHalts
  <2>4. c.pc \in Mapped => e.ctx \in Context /\ e.ram \in RamImage
    <3>1. c.pc \in Mapped => op \in Code
      BY <1>1, AroundIs DEF RefSees
    <3> HIDE DEF op
    <3> QED BY <1>1, <3>1, ExecTyped DEF IsOutcome
  <2>5. e = Exec(c, m, Blank, RefSees(c, m, f)[c.pc])
    OBVIOUS
  <2> HIDE DEF e, op
  <2>6. CASE c.pc \in Mapped /\ (c.pc \in WindowCell \/ e.peeks)
    <3>1. RefNext(s) = RefState(c, m, f, n, "WINDOW", t)
      BY <1>1, <2>2, <2>5, <2>6, RefStepStops
    <3>2. RefNext(s) \in RefStates(T)
      BY <1>1, <2>3, <3>1, RefStateTyped
    <3> QED BY <1>2, <1>3, <2>1, <3>1, <3>2
  <2>7. CASE c.pc \notin WindowCell
             /\ (c.pc \notin Mapped \/ (~e.peeks /\ (e.event = "trap" \/ e.stray # {})))
    <3>1. RefNext(s) = RefState(c, m, f, n, "CPUFAULT", t)
      BY <1>1, <2>2, <2>5, <2>7, RefStepFails
    <3>2. RefNext(s) \in RefStates(T)
      BY <1>1, <2>3, <3>1, RefStateTyped
    <3> QED BY <1>2, <1>3, <2>1, <3>1, <3>2
  <2>8. CASE c.pc \in Mapped /\ c.pc \notin WindowCell
             /\ ~e.peeks /\ e.event # "trap" /\ e.stray = {}
    <3> DEFINE h == IF e.event = "halt" THEN "ORACLE" ELSE "RUN"
    <3>1. RefNext(s) = RefState(e.ctx, e.ram, f, n + 1, h, t)
      BY <1>1, <2>2, <2>5, <2>8, RefStepRuns
    <3>2. h \in {"RUN", "ORACLE"} /\ h \in RefHalts /\ n + 1 \in Nat
      BY <1>1, <2>3
    <3> HIDE DEF h
    <3>3. RefNext(s) \in RefStates(T)
      BY <1>1, <2>4, <2>8, <3>1, <3>2, RefStateTyped
    <3> QED BY <1>2, <1>3, <2>1, <3>1, <3>2, <3>3
  <2>9. c.pc \in WindowCell => c.pc \in Mapped
    BY MappedIs
  <2> QED BY <2>6, <2>7, <2>8, <2>9, Zenon
<1> QED BY <1>4, <1>5, <1>6


-----------------------------------------------------------------------------
LEMMA RefNextTyped ==
  ASSUME NEW T \in Int, NEW s \in RefStates(T)
  PROVE  RefNext(s) \in RefStates(T)
<1>1. CASE s.halt = "RUN"
  BY <1>1, RefNextCases
<1>2. CASE s.halt # "RUN"
  BY <1>2 DEF RefNext
<1> QED BY <1>1, <1>2

LEMMA RefRunStep ==
  ASSUME NEW T \in Int, NEW s \in RefStates(T)
  PROVE  /\ RefRun(s)[0] = s
         /\ \A k \in Nat : /\ RefRun(s)[k] \in RefStates(T)
                           /\ RefRun(s)[k + 1] = RefNext(RefRun(s)[k])
<1> DEFINE step == [x \in RefStates(T) |-> RefNext(x)]
           run == RefRun(s)
<1>1. step \in [RefStates(T) -> RefStates(T)]
  BY RefNextTyped
<1> HIDE DEF step
<1>2. PICK f \in [Nat -> RefStates(T)] : IsIteration(f, Nat, s, step)
  BY <1>1, IterationExists
<1>3. f = [k \in Nat |-> IF k = 0 THEN s ELSE RefNext(f[k - 1])]
  <2>1. ASSUME NEW k \in Nat
        PROVE  f[k] = IF k = 0 THEN s ELSE RefNext(f[k - 1])
    <3>1. f[k] = IF k = 0 THEN s ELSE step[f[k - 1]]
      BY <1>2 DEF IsIteration
    <3>2. k # 0 => f[k - 1] \in RefStates(T)
      OBVIOUS
    <3> QED BY <3>1, <3>2 DEF step
  <2> QED BY <2>1
<1>4. run = [k \in Nat |-> IF k = 0 THEN s ELSE RefNext(run[k - 1])]
  BY <1>3 DEF RefRun
<1> HIDE DEF run
<1>5. ASSUME NEW k \in Nat PROVE run[k + 1] = RefNext(run[k])
  <2>1. k + 1 \in Nat /\ k + 1 # 0 /\ k + 1 - 1 = k
    OBVIOUS
  <2> QED BY <1>4, <2>1
<1>6. run[0] = s
  BY <1>4
<1> DEFINE G == {k \in Nat : run[k] \in RefStates(T)}
<1>7. \A k \in Nat : k \in G
  <2>1. 0 \in G
    BY <1>6
  <2>2. ASSUME NEW k \in Nat, k \in G PROVE k + 1 \in G
    BY <1>5, <2>2, RefNextTyped
  <2> HIDE DEF G
  <2> QED BY <2>1, <2>2, NatInd
<1> QED BY <1>5, <1>6, <1>7 DEF run

(***************************************************************************)
(* A reference run that has ended stays where it is.                       *)
(***************************************************************************)
LEMMA RefStays ==
  ASSUME NEW T \in Int, NEW s \in RefStates(T), NEW k \in Nat, RefRun(s)[k].halt # "RUN",
         NEW m \in Nat, m >= k
  PROVE  RefRun(s)[m] = RefRun(s)[k]
<1> DEFINE G == {d \in Nat : RefRun(s)[k + d] = RefRun(s)[k]}
<1>1. 0 \in G
  OBVIOUS
<1>2. ASSUME NEW d \in Nat, d \in G PROVE d + 1 \in G
  <2>1. RefRun(s)[k + d + 1] = RefNext(RefRun(s)[k + d])
    BY RefRunStep
  <2>2. RefNext(RefRun(s)[k]) = RefRun(s)[k]
    BY DEF RefNext
  <2>3. k + (d + 1) = k + d + 1
    OBVIOUS
  <2> QED BY <1>2, <2>1, <2>2, <2>3
<1> HIDE DEF G
<1>3. m - k \in G
  <2>1. m - k \in Nat
    OBVIOUS
  <2> QED BY <1>1, <1>2, <2>1, NatInd
<1>4. k + (m - k) = m
  OBVIOUS
<1> QED BY <1>3, <1>4 DEF G

LEMMA RefGrows ==
  ASSUME NEW T \in Int, NEW s \in RefStates(T), NEW k \in Nat, NEW m \in Nat, m >= k
  PROVE  RefRun(s)[m].n >= RefRun(s)[k].n
<1> DEFINE R(i) == RefRun(s)[i]
           G == {d \in Nat : R(k + d).n >= R(k).n}
<1>1. \A i \in Nat : R(i).n \in Nat
  BY RefRunStep, RefStateTyped
<1>2. \A i \in Nat : R(i + 1).n >= R(i).n
  <2> TAKE i \in Nat
  <2>1. R(i) \in RefStates(T) /\ R(i + 1) = RefNext(R(i))
    BY RefRunStep
  <2> HIDE DEF R
  <2>2. CASE R(i).halt = "RUN"
    <3>1. RefNext(R(i)).n = R(i).n \/ RefNext(R(i)).n = R(i).n + 1
      BY <2>1, <2>2, RefNextCases
    <3> QED BY <1>1, <2>1, <3>1
  <2>3. CASE R(i).halt # "RUN"
    <3>1. RefNext(R(i)) = R(i)
      BY <2>3 DEF RefNext
    <3> QED BY <1>1, <2>1, <3>1
  <2> QED BY <2>2, <2>3
<1> HIDE DEF R
<1>3. 0 \in G
  BY <1>1
<1>4. ASSUME NEW d \in Nat, d \in G PROVE d + 1 \in G
  <2>1. k + d \in Nat /\ k + d + 1 = k + (d + 1) /\ k + (d + 1) \in Nat
    OBVIOUS
  <2>2. R(k + d + 1).n >= R(k + d).n /\ R(k + d).n >= R(k).n
    BY <1>2, <1>4, <2>1
  <2>3. R(k + d).n \in Nat /\ R(k).n \in Nat /\ R(k + d + 1).n \in Nat
    BY <1>1, <2>1
  <2>4. R(k + d + 1).n >= R(k).n
    BY <2>2, <2>3
  <2> QED BY <2>1, <2>4
<1> HIDE DEF G
<1>5. m - k \in G
  <2>1. m - k \in Nat
    OBVIOUS
  <2> QED BY <1>3, <1>4, <2>1, NatInd
<1>6. k + (m - k) = m
  OBVIOUS
<1> QED BY <1>5, <1>6 DEF G, R

(***************************************************************************)
(* A reference that runs has taken one step for every fault and every      *)
(* instruction behind it.                                                  *)
(***************************************************************************)
LEMMA RefCounts ==
  ASSUME NEW T \in Int, NEW s \in RefStates(T), s.n = 0, NEW k \in Nat
  PROVE  /\ Len(RefRun(s)[k].todo) \in Nat /\ Len(RefRun(s)[k].todo) <= Len(s.todo)
         /\ RefRun(s)[k].halt = "RUN" =>
              k = RefRun(s)[k].n + (Len(s.todo) - Len(RefRun(s)[k].todo))
<1> DEFINE L(i) == Len(RefRun(s)[i].todo)
           N(i) == RefRun(s)[i].n
           Runs(i) == RefRun(s)[i].halt = "RUN"
           len == Len(s.todo)
           G == {i \in Nat : L(i) <= len /\ (Runs(i) => i = N(i) + (len - L(i)))}
<1>1. \A i \in Nat : L(i) \in Nat /\ N(i) \in Nat
  <2> TAKE i \in Nat
  <2>1. RefRun(s)[i].n \in Nat /\ RefRun(s)[i].todo \in Todos(T)
    BY RefRunStep, RefStateTyped
  <2>2. RefRun(s)[i].todo \in Seq(Fault)
    BY <2>1 DEF Todos
  <2> QED BY <2>1, <2>2
<1>2. len \in Nat
  <2>1. s.todo \in Seq(Fault)
    BY RefStateTyped DEF Todos
  <2> QED BY <2>1
<1>3. L(0) = len /\ N(0) = 0
  BY RefRunStep
<1>4. ASSUME NEW i \in Nat
      PROVE  \/ L(i + 1) = L(i) /\ N(i + 1) = N(i) + 1 /\ Runs(i)
             \/ L(i + 1) = L(i) /\ ~Runs(i + 1)
             \/ L(i + 1) = L(i) - 1 /\ N(i + 1) = N(i) /\ Runs(i)
  <2> DEFINE r == RefRun(s)[i]
  <2>1. r \in RefStates(T) /\ RefRun(s)[i + 1] = RefNext(r)
    BY RefRunStep
  <2>2. r.todo \in Todos(T)
    BY <2>1, RefStateTyped
  <2> SUFFICES \/ Len(RefNext(r).todo) = Len(r.todo) /\ RefNext(r).n = r.n + 1 /\ r.halt = "RUN"
               \/ Len(RefNext(r).todo) = Len(r.todo) /\ RefNext(r).halt # "RUN"
               \/ Len(RefNext(r).todo) = Len(r.todo) - 1 /\ RefNext(r).n = r.n /\ r.halt = "RUN"
    BY <2>1
  <2> HIDE DEF r
  <2>3. CASE r.halt # "RUN"
    BY <2>3 DEF RefNext
  <2>4. CASE r.halt = "RUN"
    <3>1. \/ /\ r.todo # <<>> /\ RefNext(r).n = r.n /\ RefNext(r).todo = Tail(r.todo)
          \/ RefNext(r).todo = r.todo /\ RefNext(r).halt \in {"BUDGET", "CPUFAULT", "WINDOW"}
          \/ RefNext(r).todo = r.todo /\ RefNext(r).n = r.n + 1
      BY <2>1, <2>4, RefNextCases
    <3>2. CASE r.todo # <<>> /\ RefNext(r).n = r.n /\ RefNext(r).todo = Tail(r.todo)
      <4>1. Len(Tail(r.todo)) = Len(r.todo) - 1
        BY <2>2, <3>2, TailTodos
      <4> QED BY <2>4, <3>2, <4>1
    <3> QED BY <2>4, <3>1, <3>2
  <2> QED BY <2>3, <2>4
<1> HIDE DEF L, N, Runs, len
<1>5. 0 \in G
  BY <1>2, <1>3
<1>6. ASSUME NEW i \in Nat, i \in G PROVE i + 1 \in G
  <2>1. i + 1 \in Nat /\ L(i) \in Nat /\ L(i + 1) \in Nat /\ N(i) \in Nat /\ N(i + 1) \in Nat
    BY <1>1
  <2>2. L(i) <= len /\ (Runs(i) => i = N(i) + (len - L(i)))
    BY <1>6
  <2>3. L(i + 1) <= len /\ (Runs(i + 1) => i + 1 = N(i + 1) + (len - L(i + 1)))
    BY <1>2, <1>4, <2>1, <2>2
  <2> QED BY <2>1, <2>3
<1> HIDE DEF G
<1>7. k \in G
  BY <1>5, <1>6, NatInd
<1> QED BY <1>1, <1>7 DEF G, L, N, Runs, len

(***************************************************************************)
(* A reference that halts with its n-th instruction, all faults applied.   *)
(***************************************************************************)
LEMMA HaltFacts ==
  ASSUME NEW T \in Int, NEW s \in RefStates(T), s.n = 0, NEW n \in Nat \ {0},
         RefRun(s)[n - 1 + Len(s.todo)].halt = "RUN",
         RefRun(s)[n + Len(s.todo)].halt = "ORACLE",
         RefRun(s)[n + Len(s.todo)].todo = <<>>
  PROVE  /\ Len(s.todo) \in Nat
         /\ RefRun(s)[n + Len(s.todo)].n = n
         /\ \A k \in Nat : /\ RefRun(s)[k].halt = "RUN" =>
                                k < n + Len(s.todo) /\ RefRun(s)[k].n < n
                           /\ k < n + Len(s.todo) => RefRun(s)[k].halt = "RUN"
<1> DEFINE len == Len(s.todo)
           p == n - 1 + len
           R(k) == RefRun(s)[k]
<1>1. len \in Nat
  <2>1. s.todo \in Seq(Fault)
    BY RefStateTyped DEF Todos
  <2> QED BY <2>1
<1>2. p \in Nat /\ p + 1 = n + len /\ n - 1 \in Nat
  BY <1>1
<1>3. /\ R(p) \in RefStates(T) /\ R(p + 1) = RefNext(R(p))
      /\ \A k \in Nat : R(k).n \in Nat
  BY <1>2, RefRunStep, RefStateTyped
<1>4. R(p).halt = "RUN" /\ R(p + 1).halt = "ORACLE" /\ R(p + 1).todo = <<>>
  BY <1>2
<1> HIDE DEF R, p, len
<1>5. R(p).todo = <<>> /\ R(p + 1).n = R(p).n + 1
  <2>1. RefNext(R(p)).halt = "ORACLE"
    BY <1>3, <1>4
  <2>2. RefNext(R(p)).todo = R(p).todo /\ RefNext(R(p)).n = R(p).n + 1
    BY <1>3, <1>4, <2>1, RefNextCases
  <2> QED BY <1>3, <1>4, <2>2
<1>6. R(p).n = n - 1 /\ R(p + 1).n = n
  <2>1. p = R(p).n + (len - Len(R(p).todo))
    BY <1>2, <1>4, RefCounts DEF R, len
  <2>2. Len(R(p).todo) = 0
    BY <1>5
  <2> QED BY <1>1, <1>2, <1>3, <1>5, <2>1, <2>2 DEF p
<1>7. ASSUME NEW k \in Nat, R(k).halt = "RUN" PROVE k < n + len /\ R(k).n < n
  <2>1. k < n + len
    <3>1. CASE k >= p + 1
      <4>1. R(k) = R(p + 1)
        BY <1>2, <1>4, <3>1, RefStays DEF R
      <4> QED BY <1>4, <1>7, <4>1
    <3> QED BY <1>1, <1>2, <3>1
  <2>2. R(p).n >= R(k).n
    BY <1>1, <1>2, <2>1, RefGrows DEF R
  <2> QED BY <1>3, <1>6, <2>1, <2>2
<1>8. ASSUME NEW k \in Nat, k < n + len PROVE R(k).halt = "RUN"
  <2> SUFFICES ASSUME R(k).halt # "RUN" PROVE FALSE
    OBVIOUS
  <2>1. p >= k
    BY <1>1, <1>2, <1>8
  <2>2. R(p) = R(k)
    BY <1>2, <2>1, RefStays DEF R
  <2> QED BY <1>4, <2>2
<1>9. R(n + len).n = n
  BY <1>2, <1>6
<1> QED BY <1>1, <1>7, <1>8, <1>9 DEF R, len

LEMMA HaltFound ==
  ASSUME NEW T \in Int, NEW s \in RefStates(T), s.n = 0, s.halt = "RUN",
         NEW M \in Nat, RefRun(s)[M].halt = "ORACLE", RefRun(s)[M].n > T,
         NEW n, n = RefRun(s)[M].n
  PROVE  /\ n \in 1..Budget
         /\ RefRun(s)[n - 1 + Len(s.todo)].halt = "RUN"
         /\ RefRun(s)[n + Len(s.todo)] = RefRun(s)[M]
         /\ RefRun(s)[n + Len(s.todo)].todo = <<>>
<1> DEFINE len == Len(s.todo)
           R(k) == RefRun(s)[k]
           D == {k \in Nat : R(k).halt # "RUN"}
<1>1. len \in Nat
  <2>1. s.todo \in Seq(Fault)
    BY RefStateTyped DEF Todos
  <2> QED BY <2>1
<1>2. \A k \in Nat : /\ R(k) \in RefStates(T) /\ R(k + 1) = RefNext(R(k))
                     /\ R(k).n \in Nat /\ R(k).todo \in Todos(T)
  BY RefRunStep, RefStateTyped
<1>3. R(0).halt = "RUN"
  BY RefRunStep
<1>4. PICK m \in D : \A k \in D : m <= k
  <2>1. M \in D
    OBVIOUS
  <2>2. D \subseteq Nat /\ D # {}
    BY <2>1
  <2> HIDE DEF D
  <2> QED BY <2>2, LeastNat
<1>5. m \in Nat /\ m # 0 /\ R(m).halt # "RUN" /\ m <= M
  BY <1>3, <1>4
<1>6. R(M) = R(m)
  BY <1>5, RefStays
<1> DEFINE p == m - 1
<1>7. p \in Nat /\ p + 1 = m /\ ~(m <= p)
  BY <1>5
<1>8. R(p).halt = "RUN"
  BY <1>4, <1>7
<1>9. R(m).halt = "ORACLE" /\ R(m).n > T /\ R(m).n = n
  BY <1>6
<1> HIDE DEF R, D, p, len
<1>10. /\ R(m).todo = R(p).todo /\ R(m).n = R(p).n + 1
       /\ R(p).todo = <<>> => R(p).n < Budget
       /\ R(p).todo # <<>> => R(p).n < R(p).todo[1].trigger
  <2>1. R(p) \in RefStates(T) /\ RefNext(R(p)) = R(m)
    BY <1>2, <1>7
  <2>2. /\ RefNext(R(p)).todo = R(p).todo /\ RefNext(R(p)).n = R(p).n + 1
        /\ R(p).todo = <<>> => R(p).n < Budget
        /\ R(p).todo # <<>> => R(p).n < R(p).todo[1].trigger
    BY <1>8, <1>9, <2>1, RefNextCases
  <2> QED BY <2>1, <2>2
<1>11. R(p).todo = <<>>
  <2> SUFFICES ASSUME R(p).todo # <<>> PROVE FALSE
    OBVIOUS
  <2>1. R(p).todo[1].trigger \in Nat /\ R(p).todo[1].trigger <= T
    BY <1>2, <1>7, TailTodos
  <2> QED BY <1>2, <1>7, <1>9, <1>10, <2>1
<1>12. p = R(p).n + len
  <2>1. p = R(p).n + (len - Len(R(p).todo))
    BY <1>7, <1>8, RefCounts DEF R, len
  <2>2. Len(R(p).todo) = 0
    BY <1>11
  <2>3. R(p).n \in Nat
    BY <1>2, <1>7
  <2> QED BY <1>1, <1>7, <2>1, <2>2, <2>3
<1>13. n \in 1..Budget /\ n - 1 + len = p /\ n + len = m
  <2>1. R(p).n \in Nat /\ R(p).n < Budget /\ n = R(p).n + 1
    BY <1>2, <1>7, <1>9, <1>10, <1>11
  <2> QED BY <1>1, <1>7, <1>12, <2>1, SizesAssumption
<1>14. /\ R(n - 1 + len).halt = "RUN" /\ R(n + len) = R(M) /\ R(n + len).todo = <<>>
  BY <1>6, <1>8, <1>10, <1>11, <1>13
<1> QED BY <1>13, <1>14 DEF R, len

(***************************************************************************)
(* A reference in a loop that changes nothing runs out of its budget.      *)
(***************************************************************************)
LEMMA LoopNeverHalts ==
  ASSUME NEW T \in Int, NEW s \in RefStates(T), NEW k \in Nat,
         NEW c \in Context, NEW m \in RamImage, NEW f \in Flash, NEW j \in Nat,
         RefRun(s)[k] = RefState(c, m, f, j, "RUN", <<>>),
         c.pc \in Mapped, c.pc \notin WindowCell,
         NEW e, e = Exec(c, m, Blank, RefSees(c, m, f)[c.pc]),
         ~e.peeks, e.event = "run", e.stray = {}, e.ctx = c, e.ram = m,
         NEW d \in Nat
  PROVE  RefRun(s)[k + d].halt # "ORACLE"
<1> DEFINE R(i) == RefRun(s)[i]
           Same(r) == \E i \in Nat : r = RefState(c, m, f, i, "RUN", <<>>)
           G == {i \in Nat : R(k + i).halt = "BUDGET" \/ Same(R(k + i))}
<1>1. <<>> \in Todos(T)
  BY DEF Todos
<1>2. 0 \in G
  OBVIOUS
<1>3. ASSUME NEW i \in Nat, i \in G PROVE i + 1 \in G
  <2>1. R(k + (i + 1)) = RefNext(R(k + i))
    <3>1. PICK q \in Nat : q = k + i /\ q + 1 = k + (i + 1)
      OBVIOUS
    <3>2. R(q + 1) = RefNext(R(q))
      BY RefRunStep
    <3> QED BY <3>1, <3>2
  <2>2. CASE R(k + i).halt = "BUDGET"
    <3>1. RefNext(R(k + i)) = R(k + i)
      BY <2>2 DEF RefNext
    <3> QED BY <2>1, <2>2, <3>1
  <2>3. CASE Same(R(k + i))
    <3>1. PICK b \in Nat : R(k + i) = RefState(c, m, f, b, "RUN", <<>>)
      BY <2>3
    <3>2. CASE b >= Budget
      <4>1. RefNext(R(k + i)) = RefState(c, m, f, b, "BUDGET", <<>>)
        BY <3>1, <3>2 DEF RefNext, RefState
      <4>2. R(k + (i + 1)).halt = "BUDGET"
        BY <2>1, <4>1 DEF RefState
      <4> QED BY <4>2
    <3>3. CASE b < Budget
      <4>1. RefNext(R(k + i)) = RefStep(RefState(c, m, f, b, "RUN", <<>>))
        BY <1>1, <3>1, <3>3, RefNextSteps
      <4>2. RefNext(R(k + i)) = RefState(c, m, f, b + 1, "RUN", <<>>)
        BY <4>1, RefStepRuns
      <4>3. Same(R(k + (i + 1)))
        BY <2>1, <4>2
      <4> QED BY <4>3
    <3> QED BY <3>2, <3>3, SizesAssumption
  <2> QED BY <1>3, <2>2, <2>3
<1> HIDE DEF G
<1>4. d \in G
  BY <1>2, <1>3, NatInd
<1>5. R(k + d).halt = "BUDGET" \/ Same(R(k + d))
  BY <1>4 DEF G
<1>6. Same(R(k + d)) => R(k + d).halt = "RUN"
  BY DEF RefState
<1> QED BY <1>5, <1>6

-----------------------------------------------------------------------------
LEMMA CpuTyped ==
  ASSUME TypeOK, CpuStep
  PROVE  ctx' \in Context /\ ram' \in RamImage /\ flash' \in Flash
<1>1. ctx \in Context /\ ram \in RamImage /\ flash \in Flash
  BY DEF TypeOK
<1>2. CASE Raises
  BY <1>1, <1>2, DataAssumption DEF CpuStep, Context
<1>3. CASE ~Raises
  <2> DEFINE op == Fetched(ctx.pc, ram)
             e == BoardExec(ctx, ram, op)
  <2>1. ctx.pc \in Mapped
    BY <1>3, MappedIs DEF Raises
  <2>2. e.ctx \in Context /\ e.ram \in RamImage
    <3>1. op \in Code
      BY <1>1, <2>1, AroundIs DEF Fetched
    <3> HIDE DEF op
    <3> QED BY <1>1, <2>1, <3>1, ExecTyped DEF IsOutcome
  <2>3. /\ ctx' = e.ctx /\ ram' = e.ram
        /\ flash' = [a \in FlashCell |-> IF a \in e.stray THEN Garbage ELSE flash[a]]
    BY <1>3 DEF CpuStep
  <2> HIDE DEF e, op
  <2>4. flash' \in Flash
    BY <1>1, <2>3, DataAssumption DEF Flash
  <2> QED BY <2>2, <2>3, <2>4
<1> QED BY <1>2, <1>3

LEMMA ApplyTyped ==
  ASSUME TypeOK, NEW f \in Fault, ApplySkip(f) \/ ApplyReg(f) \/ ApplyMem(f)
  PROVE  ctx' \in Context /\ ram' \in RamImage /\ flash' \in Flash
<1>1. ctx \in Context /\ ram \in RamImage /\ flash \in Flash
  BY DEF TypeOK
<1>2. CASE ApplySkip(f)
  <2>1. ctx.pc \in Nat /\ f.value \in Nat
    BY <1>1, <1>2, FaultFields DEF Context, ApplySkip
  <2> DEFINE code == Around(ctx.pc, ram, Blank, flash)
  <2>2. ctx.pc + SkipBytes(code, ctx.pc, f.value) \in Nat
    BY <1>1, <2>1, AroundIs, SkipIsFollow
  <2>3. ctx' = [ctx EXCEPT !.pc = ctx.pc + SkipBytes(code, ctx.pc, f.value)]
        /\ ram' = ram /\ flash' = flash
    BY <1>2 DEF ApplySkip
  <2> HIDE DEF code
  <2> QED BY <1>1, <2>2, <2>3 DEF Context
<1>3. CASE ApplyReg(f)
  <2> DEFINE v == IF f.model = "REG_SET" THEN f.value
                  ELSE XorWord(ctx.regs[f.target], f.value)
  <2>1. f.target \in Reg /\ f.value \in Word /\ ctx.regs \in [Reg -> Word]
    BY <1>1, <1>3, FaultFields DEF ApplyReg, Context
  <2>2. v \in Word
    BY <2>1, XorAssumption
  <2>3. ctx' = [ctx EXCEPT !.regs[f.target] = v] /\ ram' = ram /\ flash' = flash
    BY <1>3 DEF ApplyReg
  <2> HIDE DEF v
  <2>4. ctx' \in Context
    BY <1>1, <2>1, <2>2, <2>3 DEF Context
  <2> QED BY <1>1, <2>3, <2>4
<1>4. CASE ApplyMem(f)
  <2>1. f.value \in Word
    BY <1>4, FaultFields DEF ApplyMem
  <2>2. ram' = RamFlip(ram, f.target, f.value) /\ flash' = FlashFlip(flash, f.target, f.value)
        /\ ctx' = ctx
    BY <1>4 DEF ApplyMem, RamFlip, FlashFlip
  <2> QED BY <1>1, <2>1, <2>2, FlipTyped
<1> QED BY <1>2, <1>3, <1>4

LEMMA ResetTyped ==
  ASSUME NEW c \in Context
  PROVE  ResetCtx(c) \in ResetContexts /\ ResetCtx(c) \in Context
<1>1. c.regs \in [Reg -> Word]
  BY DEF Context
<1>2. [pc |-> Entry, regs |-> c.regs] \in [pc : {Entry}, regs : [Reg -> Word]]
  BY <1>1
<1>3. ResetCtx(c) = ResetCtx([pc |-> Entry, regs |-> c.regs])
  BY DEF ResetCtx
<1>4. ResetCtx(c) \in Context
  BY <1>1, DataAssumption DEF ResetCtx, Context
<1> QED BY <1>2, <1>3, <1>4 DEF ResetContexts

LEMMA FaultSetTyped ==
  ASSUME NEW fs \in FaultSets
  PROVE  fs \in Seq(Fault) /\ fs # <<>>
  BY FaultsAssumption

LEMMA Prefix ==
  ASSUME NEW S, NEW r \in Seq(S), NEW m \in Int, m <= Len(r)
  PROVE  /\ SubSeq(r, 1, m) \in Seq(S)
         /\ Len(SubSeq(r, 1, m)) = IF m < 0 THEN 0 ELSE m
         /\ \A i \in 1..m : SubSeq(r, 1, m)[i] = r[i]
  OBVIOUS

LEMMA InitTyped == Init => TypeOK
<1> SUFFICES ASSUME Init PROVE TypeOK
  OBVIOUS
<1>1. ctx \in Context
  BY DataAssumption DEF Init
<1>2. ram \in RamImage
  BY DataAssumption DEF Init, RamImage
<1>3. flash \in Flash
  BY DataAssumption DEF Init
<1>4. instr \in Nat /\ record \in Seq(Nat) /\ todo \in Seq(Fault)
      /\ cur \in FaultSets \cup {<<>>}
  BY DEF Init
<1> QED BY <1>1, <1>2, <1>3, <1>4 DEF TypeOK

LEMMA BeginTyped ==
  ASSUME TypeOK, Begin
  PROVE  /\ ctx' \in Context /\ ram' \in RamImage /\ flash' \in Flash
         /\ instr' = 0 /\ record' = <<>> /\ ctx' = ResetCtx(ctx) /\ ram' = ResetRam
         /\ flash' = flash /\ origin' = [ctx |-> ctx', flash |-> flash]
         /\ prevPc' = NoPc /\ stuck' = 0 /\ result' = NoResult
<1>1. ctx \in Context /\ ram \in RamImage /\ flash \in Flash
  BY DEF TypeOK
<1>2. /\ instr' = 0 /\ record' = <<>> /\ ctx' = ResetCtx(ctx) /\ ram' = ResetRam
      /\ flash' = flash /\ origin' = [ctx |-> ctx', flash |-> flash]
      /\ prevPc' = NoPc /\ stuck' = 0 /\ result' = NoResult
  BY DEF Begin, Reset
<1> QED BY <1>1, <1>2, ResetTyped, DataAssumption

LEMMA NextTyped == TypeOK /\ BookInv /\ [Next]_vars => TypeOK'
<1> SUFFICES ASSUME TypeOK, BookInv, [Next]_vars PROVE TypeOK'
  OBVIOUS
<1>1. /\ ctx \in Context /\ ram \in RamImage /\ flash \in Flash
      /\ instr \in Nat /\ record \in Seq(Nat)
      /\ cur \in FaultSets \cup {<<>>} /\ todo \in Seq(Fault)
  BY DEF TypeOK
<1>2. CASE Start
  <2>1. ctx' \in Context /\ ram' \in RamImage /\ flash' \in Flash
    BY <1>2, DataAssumption DEF Start, RamImage
  <2>2. UNCHANGED <<instr, record, cur, todo>>
    BY <1>2 DEF Start
  <2> QED BY <1>1, <2>1, <2>2 DEF TypeOK
<1>3. CASE Close
  BY <1>1, <1>3 DEF Close, core, TypeOK
<1>4. CASE Trace
  <2>1. Begin /\ cur' = <<>> /\ todo' = <<>>
    BY <1>4 DEF Trace
  <2>2. instr' \in Nat /\ record' \in Seq(Nat)
    BY <2>1, BeginTyped
  <2>3. todo' \in Seq(Fault) /\ cur' \in FaultSets \cup {<<>>}
    BY <2>1
  <2> QED BY <2>1, <2>2, <2>3, BeginTyped DEF TypeOK
<1>5. ASSUME NEW fs \in FaultSets, Run(fs) PROVE TypeOK'
  <2>1. Begin /\ cur' = fs /\ todo' = fs
    BY <1>5 DEF Run
  <2>2. instr' \in Nat /\ record' \in Seq(Nat)
    BY <2>1, BeginTyped
  <2>3. todo' \in Seq(Fault) /\ cur' \in FaultSets \cup {<<>>}
    BY <2>1, FaultSetTyped
  <2> QED BY <2>1, <2>2, <2>3, BeginTyped DEF TypeOK
<1>6. CASE Approach
  <2>1. CpuStep /\ instr' = instr + 1 /\ UNCHANGED <<record, cur, todo>>
    BY <1>6 DEF Approach, job
  <2>2. instr' \in Nat
    BY <1>1, <2>1
  <2> QED BY <1>1, <2>1, <2>2, CpuTyped DEF TypeOK
<1>7. CASE Apply
  <2>1. todo # <<>> /\ todo' = Tail(todo) /\ UNCHANGED <<instr, record, cur>>
    BY <1>7 DEF Apply, job
  <2>2. Head(todo) \in Fault /\ todo' \in Seq(Fault)
    BY <1>1, <2>1, HeadAndTail
  <2>3. ctx' \in Context /\ ram' \in RamImage /\ flash' \in Flash
    <3>1. \/ UNCHANGED core
          \/ LET f == Head(todo) IN ApplySkip(f) \/ ApplyReg(f) \/ ApplyMem(f)
      BY <1>7 DEF Apply
    <3>2. CASE UNCHANGED core
      BY <1>1, <3>2 DEF core
    <3>3. CASE LET f == Head(todo) IN ApplySkip(f) \/ ApplyReg(f) \/ ApplyMem(f)
      BY <2>2, <3>3, ApplyTyped
    <3> QED BY <3>1, <3>2, <3>3
  <2> QED BY <1>1, <2>1, <2>2, <2>3 DEF TypeOK
<1>8. CASE EndFaults
  BY <1>1, <1>8 DEF EndFaults, core, job, TypeOK
<1>9. CASE HaltStep
  <2>1. /\ CpuStep /\ instr' = instr + 1 /\ UNCHANGED <<cur, todo>>
        /\ record' = Append(record, ctx.pc)
    BY <1>9 DEF HaltStep, job
  <2>2. instr' \in Nat /\ ctx.pc \in Nat
    BY <1>1, <2>1 DEF Context
  <2>3. record' \in Seq(Nat)
    BY <1>1, <2>1, <2>2
  <2> QED BY <1>1, <2>1, <2>2, <2>3, CpuTyped DEF TypeOK
<1>10. CASE QemuExits
  BY <1>1, <1>10 DEF QemuExits, core, job, TypeOK
<1>11. CASE UNCHANGED vars
  BY <1>1, <1>11 DEF vars, core, job, TypeOK
<1>12. CASE Spins
  <2>1. /\ StuckNow = SpinThreshold /\ phase = "halting"
        /\ record' = SubSeq(Append(record, ctx.pc), 1, Len(record) + 1 - (SpinThreshold + 1))
        /\ instr' = instr - SpinThreshold /\ UNCHANGED <<ctx, ram, flash, cur, todo>>
    BY <1>12 DEF Spins, Return, core, job
  <2>2. ctx.pc \in Nat
    BY <1>1 DEF Context
  <2>3. instr' \in Nat
    <3>1. ctx.pc = prevPc /\ stuck + 1 = 3
      BY <2>1 DEF StuckNow, SpinThreshold
    <3>2. prevPc # NoPc
      BY <2>2, <3>1 DEF NoPc
    <3>3. stuck \in 0..(instr - 1)
      BY <2>1, <3>2 DEF BookInv
    <3> QED BY <1>1, <2>1, <3>1, <3>3 DEF SpinThreshold
  <2>4. record' \in Seq(Nat)
    <3> DEFINE r == Append(record, ctx.pc)
               m == Len(record) + 1 - (SpinThreshold + 1)
    <3>1. r \in Seq(Nat) /\ m \in Int /\ m <= Len(r)
      BY <1>1, <2>2 DEF SpinThreshold
    <3>2. record' = SubSeq(r, 1, m)
      BY <2>1
    <3> HIDE DEF r, m
    <3> QED BY <3>1, <3>2, Prefix
  <2> QED BY <1>1, <2>1, <2>3, <2>4 DEF TypeOK
<1>13. CASE OutOfBudget
  BY <1>1, <1>13 DEF OutOfBudget, Return, core, job, TypeOK
<1> QED
  BY <1>2, <1>3, <1>4, <1>5, <1>6, <1>7, <1>8, <1>9, <1>10, <1>11, <1>12, <1>13
  DEF Next, Step

LEMMA InitBook == Init => BookInv
<1> SUFFICES ASSUME Init PROVE BookInv
  OBVIOUS
<1>1. phase = "down" /\ result = NoResult
  BY DEF Init
<1> QED BY <1>1 DEF BookInv, Begun

(***************************************************************************)
(* A process that is down, has lost its connection or was just started     *)
(* holds no result.                                                        *)
(***************************************************************************)
LEMMA NothingBegun ==
  ASSUME result' = NoResult, phase' \in {"down", "up", "broken"}
  PROVE  ~Begun' /\ BookInv'
<1>1. ~Begun'
  BY DEF Begun
<1> QED BY <1>1 DEF BookInv

LEMMA BeginBook ==
  ASSUME TypeOK, Begin, phase' \in {"approaching", "halting"}, todo' = cur',
         cur' \in FaultSets \cup {<<>>}, phase' = "halting" <=> cur' = <<>>
  PROVE  BookInv'
<1>1. /\ ctx' = ResetCtx(ctx) /\ origin' = [ctx |-> ctx', flash |-> flash]
      /\ flash \in Flash /\ ctx \in Context
      /\ instr' = 0 /\ record' = <<>> /\ prevPc' = NoPc /\ stuck' = 0
      /\ result' = NoResult
  BY BeginTyped DEF TypeOK
<1>2. origin'.ctx \in ResetContexts /\ origin'.flash \in Flash
  BY <1>1, ResetTyped
<1>3. Len(todo') <= Len(cur')
  <2>1. <<>> \in Seq(Fault)
    OBVIOUS
  <2>2. Len(cur') \in Nat
    <3>1. cur' \in Seq(Fault)
      BY <2>1, FaultSetTyped
    <3> QED BY <3>1
  <2> QED BY <2>2
<1>4. Len(record') = instr'
  BY <1>1
<1> QED BY <1>1, <1>2, <1>3, <1>4 DEF BookInv

LEMMA NextBook == TypeOK /\ BookInv /\ [Next]_vars => BookInv'
<1> SUFFICES ASSUME TypeOK, BookInv, [Next]_vars PROVE BookInv'
  OBVIOUS
<1>1. /\ instr \in Nat /\ record \in Seq(Nat) /\ ctx.pc \in Nat
      /\ cur \in FaultSets \cup {<<>>} /\ todo \in Seq(Fault)
  BY DEF TypeOK, Context
<1>2. /\ Begun => origin.ctx \in ResetContexts /\ origin.flash \in Flash
      /\ result # NoResult => phase = "up"
      /\ Len(todo) <= Len(cur) \/ ~Begun
      /\ phase = "halting" =>
           /\ todo = <<>>
           /\ IF prevPc = NoPc THEN stuck = 0 ELSE stuck \in 0..(instr - 1)
      /\ phase = "approaching" => cur # <<>> /\ prevPc = NoPc /\ stuck = 0 /\ record = <<>>
      /\ phase = "halting" /\ cur = <<>> => Len(record) = instr
  BY DEF BookInv
<1>3. phase \in {"approaching", "halting"} =>
        /\ Begun /\ result = NoResult /\ Len(todo) <= Len(cur)
        /\ origin.ctx \in ResetContexts /\ origin.flash \in Flash
  BY <1>2 DEF Begun
<1>4. CASE Start
  <2>1. result' = NoResult /\ phase' = "up"
    BY <1>2, <1>4 DEF Start
  <2> QED BY <2>1, NothingBegun
<1>5. CASE Close
  BY <1>5, NothingBegun DEF Close
<1>6. CASE QemuExits
  <2>1. result' = NoResult /\ phase' = "broken"
    BY <1>3, <1>6 DEF QemuExits, Stepping
  <2> QED BY <2>1, NothingBegun
<1>7. CASE Trace
  <2>1. Begin /\ phase' = "halting" /\ cur' = <<>> /\ todo' = <<>>
    BY <1>7 DEF Trace
  <2> QED BY <2>1, BeginBook
<1>8. ASSUME NEW fs \in FaultSets, Run(fs) PROVE BookInv'
  <2>1. Begin /\ phase' = "approaching" /\ cur' = fs /\ todo' = fs
    BY <1>8 DEF Run
  <2> QED BY <2>1, BeginBook, FaultSetTyped
<1>9. CASE Approach
  <2>1. /\ phase = "approaching"
        /\ UNCHANGED <<phase, prevPc, stuck, record, todo, cur, origin, result>>
    BY <1>9 DEF Approach, spin, job
  <2> QED BY <1>2, <1>3, <2>1 DEF BookInv
<1>10. CASE Apply
  <2>1. /\ phase = "approaching" /\ phase' \in {"approaching", "broken"}
        /\ todo # <<>> /\ todo' = Tail(todo)
        /\ UNCHANGED <<prevPc, stuck, record, cur, origin, result>>
    BY <1>10 DEF Apply, spin, job
  <2>2. Len(todo') <= Len(cur')
    <3>1. /\ Len(Tail(todo)) = Len(todo) - 1 /\ Len(todo) \in Nat /\ Len(todo) <= Len(cur)
          /\ todo' = Tail(todo) /\ cur' = cur
      BY <1>1, <1>3, <2>1, HeadAndTail
    <3>2. Len(cur) \in Nat
      BY <1>1, FaultSetTyped
    <3> QED BY <3>1, <3>2
  <2>3. CASE phase' = "approaching"
    BY <1>2, <1>3, <2>1, <2>2, <2>3 DEF BookInv
  <2>4. CASE phase' = "broken"
    BY <1>3, <2>1, <2>4, NothingBegun
  <2> QED BY <2>1, <2>3, <2>4
<1>11. CASE EndFaults
  <2>1. /\ phase = "approaching" /\ phase' = "halting" /\ todo = <<>>
        /\ UNCHANGED <<prevPc, stuck, record, todo, cur, origin, result, instr>>
    BY <1>11 DEF EndFaults, spin, job
  <2> QED BY <1>2, <1>3, <2>1 DEF BookInv
<1>12. CASE HaltStep
  <2>1. /\ phase = "halting" /\ record' = Append(record, ctx.pc)
        /\ stuck' = StuckNow /\ prevPc' = ctx.pc /\ instr' = instr + 1
        /\ UNCHANGED <<phase, todo, cur, origin, result>>
    BY <1>12 DEF HaltStep, job
  <2>2. stuck' \in 0..(instr' - 1) /\ prevPc' # NoPc
    <3>1. CASE ctx.pc = prevPc
      BY <1>1, <1>2, <2>1, <3>1 DEF StuckNow, NoPc
    <3>2. CASE ctx.pc # prevPc
      BY <1>1, <2>1, <3>2 DEF StuckNow, NoPc
    <3> QED BY <3>1, <3>2
  <2>3. cur' = <<>> => Len(record') = instr'
    BY <1>1, <1>2, <2>1
  <2> QED BY <1>2, <1>3, <2>1, <2>2, <2>3 DEF BookInv
<1>13. ASSUME Spins \/ OutOfBudget PROVE BookInv'
  <2>1. phase = "halting" /\ phase' = "up" /\ UNCHANGED <<todo, cur, origin>>
    BY <1>13 DEF Spins, OutOfBudget, Return, job
  <2> QED BY <1>3, <2>1 DEF BookInv
<1>14. CASE UNCHANGED vars
  BY <1>14 DEF vars, spin, job, BookInv, Begun
<1> QED
  BY <1>4, <1>5, <1>6, <1>7, <1>8, <1>9, <1>10, <1>11, <1>12, <1>13, <1>14
  DEF Next, Step

-----------------------------------------------------------------------------
LastTrigger(fs) == IF fs = <<>> THEN 0 ELSE fs[Len(fs)].trigger

LEMMA TodosTyped ==
  ASSUME NEW fs \in FaultSets \cup {<<>>}
  PROVE  LastTrigger(fs) \in Int /\ fs \in Todos(LastTrigger(fs)) /\ Len(fs) \in Nat
<1>1. CASE fs = <<>>
  <2>1. <<>> \in Seq(Fault) /\ Len(<<>>) = 0
    OBVIOUS
  <2> QED BY <1>1, <2>1 DEF LastTrigger, Todos
<1>2. CASE fs # <<>>
  <2>1. /\ fs \in Seq(Fault)
        /\ \A i, j \in 1..Len(fs) : i <= j => fs[i].trigger <= fs[j].trigger
    BY <1>2, FaultsAssumption
  <2>2. Len(fs) \in Nat /\ Len(fs) \in 1..Len(fs) /\ fs[Len(fs)] \in Fault
    BY <1>2, <2>1
  <2>3. LastTrigger(fs) = fs[Len(fs)].trigger /\ LastTrigger(fs) \in Int
    BY <1>2, <2>2, FaultFields DEF LastTrigger
  <2>4. \A i \in 1..Len(fs) : fs[i].trigger <= LastTrigger(fs)
    BY <2>1, <2>2, <2>3
  <2> QED BY <2>1, <2>2, <2>3, <2>4 DEF Todos
<1> QED BY <1>1, <1>2

StartOf(fs) == RefState(UnicornReset, ResetRam, FlashImage, 0, "RUN", fs)

LEMMA ResetIsContext ==
  ASSUME NEW c \in ResetContexts
  PROVE  \E b \in Context : c = ResetCtx(b)
<1>1. PICK b \in [pc : {Entry}, regs : [Reg -> Word]] : c = ResetCtx(b)
  BY DEF ResetContexts
<1>2. b \in Context
  BY DataAssumption DEF Context
<1> QED BY <1>1, <1>2

LEMMA StartTyped ==
  ASSUME NEW fs \in FaultSets \cup {<<>>}
  PROVE  /\ StartOf(fs) \in RefStates(LastTrigger(fs))
         /\ StartOf(fs).n = 0 /\ StartOf(fs).halt = "RUN" /\ StartOf(fs).todo = fs
<1>1. UnicornReset \in Context
  BY DataAssumption, ResetIsContext, ResetTyped
<1>2. "RUN" \in RefHalts /\ fs \in Todos(LastTrigger(fs))
  BY TodosTyped DEF RefHalts
<1>3. StartOf(fs) \in RefStates(LastTrigger(fs))
  BY <1>1, <1>2, RefStateTyped, DataAssumption DEF StartOf
<1> QED BY <1>3 DEF StartOf, RefState

(***************************************************************************)
(* A run with a clean start is reset to the reference's context.           *)
(***************************************************************************)
LEMMA CleanContext ==
  ASSUME NEW c \in Context,
         \A r \in Reg \ (ZeroRegs \cup {SpReg}) :
           ResetCtx(c).regs[r] = UnicornReset.regs[r]
  PROVE  ResetCtx(c) = UnicornReset
<1>1. PICK b \in Context : UnicornReset = ResetCtx(b)
  BY DataAssumption, ResetIsContext
<1> DEFINE R(x) == [r \in Reg |-> IF r = SpReg THEN InitialSp
                                  ELSE IF r \in ZeroRegs THEN 0 ELSE x.regs[r]]
<1>2. \A x : ResetCtx(x) = [pc |-> Entry, regs |-> R(x)] /\ ResetCtx(x).regs = R(x)
  BY DEF ResetCtx
<1>3. ASSUME NEW r \in Reg PROVE R(c)[r] = R(b)[r]
  <2>1. CASE r = SpReg \/ r \in ZeroRegs
    BY <2>1
  <2>2. CASE r \in Reg \ (ZeroRegs \cup {SpReg})
    <3>1. ResetCtx(c).regs[r] = ResetCtx(b).regs[r]
      BY <1>1, <2>2
    <3> HIDE DEF R
    <3> QED BY <1>2, <3>1
  <2> QED BY <2>1, <2>2
<1>4. R(c) = R(b)
  BY <1>3
<1> HIDE DEF R
<1> QED BY <1>1, <1>2, <1>4

(***************************************************************************)
(* What the reference of the run in progress does before it halts with its *)
(* n-th instruction.                                                       *)
(***************************************************************************)
LEMMA AtTyped ==
  ASSUME TypeOK
  PROVE  /\ LastTrigger(cur) \in Int /\ Len(cur) \in Nat
         /\ Start0 \in RefStates(LastTrigger(cur))
         /\ Start0.n = 0 /\ Start0.halt = "RUN" /\ Start0.todo = cur
         /\ RefAt(0) = Start0
         /\ \A k \in Nat : /\ RefAt(k) \in RefStates(LastTrigger(cur))
                           /\ RefAt(k + 1) = RefNext(RefAt(k))
<1>1. cur \in FaultSets \cup {<<>>}
  BY DEF TypeOK
<1>2. Start0 = StartOf(cur)
  BY DEF Start0, StartOf, RefStart, RefState
<1>3. LastTrigger(cur) \in Int /\ Len(cur) \in Nat
  BY <1>1, TodosTyped
<1>4. /\ Start0 \in RefStates(LastTrigger(cur))
      /\ Start0.n = 0 /\ Start0.halt = "RUN" /\ Start0.todo = cur
  BY <1>1, <1>2, StartTyped
<1> QED BY <1>3, <1>4, RefRunStep DEF RefAt

LEMMA UntilHalt ==
  ASSUME TypeOK, NEW n \in 1..Budget, HaltsAt(n)
  PROVE  /\ n \in Nat \ {0} /\ RefAt(n + Len(cur)).n = n
         /\ \A k \in Nat : /\ RefAt(k).halt = "RUN" =>
                                k < n + Len(cur) /\ RefAt(k).n < n
                           /\ k < n + Len(cur) => RefAt(k).halt = "RUN"
<1>1. n \in Nat \ {0}
  BY SizesAssumption
<1>2. /\ RefAt(n - 1 + Len(cur)).halt = "RUN"
      /\ RefAt(n + Len(cur)).halt = "ORACLE" /\ RefAt(n + Len(cur)).todo = <<>>
  BY DEF HaltsAt
<1>3. /\ RefRun(Start0)[n - 1 + Len(Start0.todo)].halt = "RUN"
      /\ RefRun(Start0)[n + Len(Start0.todo)].halt = "ORACLE"
      /\ RefRun(Start0)[n + Len(Start0.todo)].todo = <<>>
  BY <1>2, AtTyped DEF RefAt
<1>4. /\ LastTrigger(cur) \in Int /\ Start0 \in RefStates(LastTrigger(cur))
      /\ Start0.n = 0 /\ Start0.todo = cur
  BY AtTyped
<1>5. /\ RefRun(Start0)[n + Len(Start0.todo)].n = n
      /\ \A k \in Nat : /\ RefRun(Start0)[k].halt = "RUN" =>
                              k < n + Len(Start0.todo) /\ RefRun(Start0)[k].n < n
                        /\ k < n + Len(Start0.todo) => RefRun(Start0)[k].halt = "RUN"
  BY <1>1, <1>3, <1>4, HaltFacts
<1> QED BY <1>1, <1>4, <1>5 DEF RefAt

Now == RefState(ctx, ram, flash, instr, "RUN", todo)
Steps == instr + (Len(cur) - Len(todo))

LEMMA Moves ==
  ASSUME TypeOK, BookInv, Begun, NEW n \in 1..Budget, HaltsAt(n), BeforeHalt(n)
  PROVE  /\ Steps \in Nat /\ Steps < n + Len(cur)
         /\ RefAt(Steps) = Now /\ RefAt(Steps + 1) = RefNext(Now) /\ SameStep(Now)
         /\ Now \in RefStates(LastTrigger(cur))
         /\ \/ /\ Steps + 1 < n + Len(cur)
               /\ RefNext(Now).halt = "RUN" /\ RefNext(Now).n < n
            \/ /\ Steps + 1 = n + Len(cur) /\ todo = <<>>
               /\ RefNext(Now).halt = "ORACLE" /\ RefNext(Now).n = n
<1>1. RefAt(Steps) = Now
  BY DEF BeforeHalt, Now, Steps, RefState
<1>2. /\ instr \in Nat /\ Len(todo) \in Nat /\ Len(cur) \in Nat /\ Len(todo) <= Len(cur)
  <2>1. instr \in Nat /\ todo \in Seq(Fault)
    BY DEF TypeOK
  <2>2. Len(todo) <= Len(cur)
    BY DEF BookInv
  <2> QED BY <2>1, <2>2, AtTyped
<1>3. PICK k \in Nat : k = Steps
  BY <1>2 DEF Steps
<1>4. PICK h \in Nat : h = n + Len(cur)
  BY <1>2, UntilHalt
<1>5. RefAt(k) = Now /\ RefAt(k + 1) = RefNext(Now) /\ Now \in RefStates(LastTrigger(cur))
  BY <1>1, <1>3, AtTyped
<1>6. Now.halt = "RUN" /\ Now.todo = todo
  BY DEF Now, RefState
<1>7. k < h
  BY <1>3, <1>4, <1>5, <1>6, UntilHalt
<1>8. SameStep(Now)
  <2>1. k \in 0..(h - 1)
    BY <1>7
  <2>2. \A i \in 0..(h - 1) : SameStep(RefRun(Start0)[i])
    BY <1>4 DEF HaltsAt, SameUpTo
  <2>3. SameStep(RefRun(Start0)[k])
    BY <2>1, <2>2
  <2> QED BY <1>5, <2>3 DEF RefAt
<1>9. CASE k + 1 < h
  <2>1. RefAt(k + 1).halt = "RUN"
    BY <1>4, <1>9, UntilHalt
  <2>2. RefAt(k + 1).n < n
    BY <1>4, <2>1, UntilHalt
  <2> QED BY <1>1, <1>3, <1>4, <1>5, <1>7, <1>9, <1>8, <2>1, <2>2
<1>10. CASE k + 1 = h
  <2>1. RefAt(h).halt = "ORACLE" /\ RefAt(h).todo = <<>> /\ RefAt(h).n = n
    BY <1>4, UntilHalt DEF HaltsAt
  <2>2. RefNext(Now).todo = Now.todo
    <3>1. RefNext(Now).halt = "ORACLE"
      BY <1>5, <1>10, <2>1
    <3> QED BY <1>5, <1>6, <3>1, AtTyped, RefNextCases
  <2>3. todo = <<>>
    BY <1>5, <1>6, <1>10, <2>1, <2>2
  <2> QED BY <1>1, <1>3, <1>4, <1>5, <1>7, <1>10, <1>8, <2>1, <2>3
<1> QED BY <1>7, <1>9, <1>10

LEMMA SameReference ==
  ASSUME UNCHANGED <<cur, origin>>
  PROVE  /\ Start0' = Start0
         /\ \A k : RefRun(Start0')[k] = RefAt(k)
         /\ \A n : HaltsAt(n)' <=> HaltsAt(n)
  BY DEF Start0, HaltsAt, RefAt, CleanStart, SameUpTo

LEMMA StaysBefore ==
  ASSUME UNCHANGED <<cur, origin>>, NEW n, NEW k,
         k = instr' + (Len(cur) - Len(todo')), instr' < n,
         RefAt(k) = RefState(ctx', ram', flash', instr', "RUN", todo'),
         phase' = "halting" => stuck' = 0 /\ prevPc' # ctx'.pc
  PROVE  BeforeHalt(n)'
  BY SameReference DEF BeforeHalt, RefAt, RefState

(***************************************************************************)
(* An instruction that the reference retires, and that both CPUs take to   *)
(* do the same, moves the board as it moves the reference.                 *)
(***************************************************************************)
LEMMA CpuIsRef ==
  ASSUME TypeOK, CpuStep, SameStep(Now), RefNext(Now) = RefStep(Now),
         RefStep(Now).halt \in {"RUN", "ORACLE"},
         NEW op, op = Fetched(ctx.pc, ram),
         NEW x, x = Exec(ctx, ram, Blank, op), NEW e, e = BoardExec(ctx, ram, op)
  PROVE  /\ ctx.pc \in Executable /\ ~x.peeks /\ SameOutcome(x, e)
         /\ e.event \in {"run", "halt"} /\ e.stray = {}
         /\ ctx' = e.ctx /\ ram' = e.ram /\ flash' = flash
         /\ RefStep(Now) = RefState(ctx', ram', flash', instr + 1,
                                    IF e.event = "halt" THEN "ORACLE" ELSE "RUN", todo)
<1>1. ctx \in Context /\ ram \in RamImage /\ flash \in Flash /\ instr \in Nat
  BY DEF TypeOK
<1>2. /\ Now = RefState(ctx, ram, flash, instr, "RUN", todo)
      /\ Now.ctx = ctx /\ Now.ram = ram /\ Now.n = instr
      /\ op = RefCode(Now)[Now.ctx.pc]
      /\ x = Exec(ctx, ram, Blank, RefSees(ctx, ram, flash)[ctx.pc])
  BY DEF Now, RefState, Fetched, RefSees, RefCode
<1>3. /\ ctx.pc \in Mapped /\ ctx.pc \notin WindowCell
      /\ ~x.peeks /\ x.event # "trap" /\ x.stray = {}
      /\ RefStep(Now) = RefState(x.ctx, x.ram, flash, instr + 1,
                                 IF x.event = "halt" THEN "ORACLE" ELSE "RUN", todo)
  <2>1. RefStep(RefState(ctx, ram, flash, instr, "RUN", todo)).halt \in {"RUN", "ORACLE"}
    BY <1>2
  <2> QED BY <1>2, <2>1, RefRetires
<1>4. RefNext(Now).n > Now.n
  BY <1>1, <1>2, <1>3 DEF RefState
<1>5. ctx.pc \in Executable /\ SameOutcome(x, e)
  BY <1>2, <1>4 DEF SameStep
<1>6. e.ctx = x.ctx /\ e.ram = x.ram /\ e.stray = x.stray /\ e.event = x.event
  BY <1>5 DEF SameOutcome
<1>7. e.event \in {"run", "halt"}
  <2>1. op \in Code
    BY <1>1, <1>3, AroundIs DEF Fetched
  <2>2. e.event \in {"run", "halt", "trap"}
    BY <1>1, <1>3, <2>1, ExecTyped DEF IsOutcome
  <2> QED BY <1>3, <1>6, <2>2
<1>8. ~Raises
  BY <1>5, <1>7 DEF Raises
<1>9. /\ ctx' = e.ctx /\ ram' = e.ram
      /\ flash' = [a \in FlashCell |-> IF a \in e.stray THEN Garbage ELSE flash[a]]
  BY <1>8 DEF CpuStep
<1>10. flash' = flash
  BY <1>1, <1>3, <1>6, <1>9 DEF Flash
<1> QED BY <1>3, <1>5, <1>6, <1>7, <1>9, <1>10

(***************************************************************************)
(* run() steps to a trigger.                                               *)
(***************************************************************************)
LEMMA ApproachHalts ==
  ASSUME TypeOK, BookInv, Approach, NEW n \in 1..Budget, HaltsAt(n), BeforeHalt(n)
  PROVE  BeforeHalt(n)'
<1>1. /\ phase = "approaching" /\ phase' = "approaching" /\ todo # <<>>
      /\ CpuStep /\ instr' = instr + 1 /\ UNCHANGED <<todo, cur, origin>>
      /\ ~(instr >= Head(todo).trigger) /\ ~(instr >= Budget)
  BY DEF Approach, AtTrigger, job
<1>2. Begun
  BY <1>1 DEF Begun
<1>3. /\ Steps \in Nat /\ RefAt(Steps + 1) = RefNext(Now)
      /\ RefNext(Now).halt = "RUN" /\ RefNext(Now).n < n
      /\ Now \in RefStates(LastTrigger(cur)) /\ SameStep(Now)
  BY <1>1, <1>2, Moves
<1>4. RefNext(Now) = RefStep(Now)
  <2>1. todo \in Todos(LastTrigger(cur)) /\ instr \in Nat /\ todo \in Seq(Fault)
    <3>1. Now.todo = todo
      BY DEF Now, RefState
    <3> QED BY <1>3, <3>1, RefStateTyped DEF TypeOK
  <2>2. instr < todo[1].trigger
    BY <1>1, <2>1, HeadAndTail
  <2> QED BY <1>1, <2>1, <2>2, RefNextSteps DEF Now
<1>5. PICK h : RefNext(Now) = RefState(ctx', ram', flash', instr', h, todo')
  <2>1. RefStep(Now).halt \in {"RUN", "ORACLE"}
    BY <1>3, <1>4
  <2> QED BY <1>1, <1>3, <1>4, <2>1, CpuIsRef
<1>6. h = "RUN" /\ instr' < n
  BY <1>3, <1>5 DEF RefState
<1>7. Steps + 1 = instr' + (Len(cur) - Len(todo'))
  <2>1. instr \in Nat /\ Len(todo) \in Nat /\ Len(cur) \in Nat
    <3>1. instr \in Nat /\ todo \in Seq(Fault)
      BY DEF TypeOK
    <3> QED BY <1>2, <3>1, AtTyped
  <2> QED BY <1>1, <2>1 DEF Steps
<1> QED BY <1>1, <1>3, <1>5, <1>6, <1>7, StaysBefore

(***************************************************************************)
(* run() injects a fault at its trigger.                                   *)
(***************************************************************************)
LEMMA ApplyIsRef ==
  ASSUME TypeOK, NEW f \in Fault, RefHit(Now, f).halt = "RUN", ~Unsupported(f),
         ApplySkip(f) \/ ApplyReg(f) \/ ApplyMem(f)
  PROVE  RefHit(Now, f) = RefState(ctx', ram', flash', instr, "RUN", todo)
<1>1. ctx \in Context /\ ram \in RamImage /\ flash \in Flash
  BY DEF TypeOK
<1>2. \A h : RefState(ctx, ram, flash, instr, h, todo).halt = h
  BY DEF RefState
<1>3. CASE ApplySkip(f)
  <2> DEFINE code == Around(ctx.pc, ram, Blank, flash)
  <2>1. f.model = "SKIP" /\ ctx.pc \in Nat /\ f.value \in Nat
    BY <1>1, <1>3, FaultFields DEF ApplySkip, Context
  <2>2. ctx.pc \in Mapped \ WindowCell
    <3>1. ctx.pc \in Mapped
      BY <2>1 DEF Unsupported, Touched
    <3>2. ctx.pc \in WindowCell =>
            RefHit(Now, f) = RefState(ctx, ram, flash, instr, "WINDOW", todo)
      BY <2>1, <3>1, RefSkipsNot DEF Now
    <3> QED BY <1>2, <3>1, <3>2
  <2>3. RefHit(Now, f) = RefState([ctx EXCEPT !.pc = RefSkip(code, ctx.pc, f.value)],
                                  ram, flash, instr, "RUN", todo)
    BY <1>1, <2>1, <2>2, RefSkips DEF Now, RefSees
  <2>4. ctx' = [ctx EXCEPT !.pc = ctx.pc + SkipBytes(code, ctx.pc, f.value)]
        /\ ram' = ram /\ flash' = flash
    BY <1>3 DEF ApplySkip
  <2>5. ctx.pc + SkipBytes(code, ctx.pc, f.value) = RefSkip(code, ctx.pc, f.value)
    BY <1>1, <2>1, AroundIs, SkipIsFollow
  <2> HIDE DEF code
  <2> QED BY <2>3, <2>4, <2>5
<1>4. CASE ApplyReg(f)
  <2>1. f.model \in {"REG_XOR", "REG_SET"}
    BY <1>4 DEF ApplyReg
  <2>2. ctx' = [ctx EXCEPT !.regs[f.target] =
                  IF f.model = "REG_SET" THEN f.value
                  ELSE XorWord(ctx.regs[f.target], f.value)]
        /\ ram' = ram /\ flash' = flash
    BY <1>4 DEF ApplyReg
  <2> QED BY <1>1, <2>1, <2>2, RefSetsReg DEF Now
<1>5. CASE ApplyMem(f)
  <2>1. f.model = "MEM_XOR" /\ f.target \in Mapped
    BY <1>5 DEF ApplyMem, Unsupported, Touched
  <2>2. RefHit(Now, f) = RefState(ctx, RamFlip(ram, f.target, f.value),
                                  FlashFlip(flash, f.target, f.value), instr, "RUN", todo)
    BY <1>1, <2>1, RefFlips, RefXors DEF Now
  <2>3. ram' = RamFlip(ram, f.target, f.value) /\ flash' = FlashFlip(flash, f.target, f.value)
        /\ ctx' = ctx
    BY <1>5 DEF ApplyMem, RamFlip, FlashFlip
  <2> QED BY <2>2, <2>3
<1> QED BY <1>3, <1>4, <1>5

LEMMA ApplyHalts ==
  ASSUME TypeOK, BookInv, Apply, phase' = "approaching",
         NEW n \in 1..Budget, HaltsAt(n), BeforeHalt(n)
  PROVE  BeforeHalt(n)'
<1> DEFINE f == Head(todo)
<1>1. /\ phase = "approaching" /\ todo # <<>> /\ todo' = Tail(todo)
      /\ UNCHANGED <<instr, cur, origin>> /\ AtTrigger
      /\ ~Unsupported(f) /\ (ApplySkip(f) \/ ApplyReg(f) \/ ApplyMem(f))
  BY DEF Apply, job
<1>2. Begun
  BY <1>1 DEF Begun
<1>3. /\ Steps \in Nat /\ RefAt(Steps + 1) = RefNext(Now)
      /\ RefNext(Now).halt = "RUN" /\ RefNext(Now).n < n
      /\ Now \in RefStates(LastTrigger(cur))
  BY <1>1, <1>2, Moves
<1>4. /\ todo \in Todos(LastTrigger(cur)) /\ instr \in Nat /\ todo \in Seq(Fault)
      /\ ctx \in Context /\ ram \in RamImage /\ flash \in Flash
  <2>1. Now.todo = todo
    BY DEF Now, RefState
  <2> QED BY <1>3, <2>1, RefStateTyped DEF TypeOK
<1>5. f \in Fault /\ f = todo[1] /\ f.trigger \in Nat
  BY <1>1, <1>4, HeadAndTail
<1>6. instr >= todo[1].trigger
  <2>1. instr < n
    BY DEF BeforeHalt
  <2>2. instr < Budget
    BY <1>4, <2>1, SizesAssumption
  <2> QED BY <1>1, <1>4, <1>5, <2>2, SizesAssumption DEF AtTrigger
<1>7. PICK c2 \in Context, m2 \in RamImage, f2 \in Flash, h \in {"RUN", "CPUFAULT", "WINDOW"} :
        RefHit(Now, f) = RefState(c2, m2, f2, instr, h, todo)
  <2> HIDE DEF f
  <2> QED BY <1>4, <1>5, RefHitTyped DEF Now
<1>8. RefNext(Now) = RefState(c2, m2, f2, instr, h, Tail(todo))
  BY <1>1, <1>4, <1>5, <1>6, <1>7, RefNextHits DEF Now
<1> HIDE DEF f
<1>9. h = "RUN"
  <2> DEFINE r == Tail(todo)
  <2>1. RefNext(Now) = RefState(c2, m2, f2, instr, h, r)
    BY <1>8
  <2> HIDE DEF r
  <2>2. RefNext(Now).halt = h
    BY <2>1 DEF RefState
  <2> QED BY <1>3, <2>2
<1>10. RefHit(Now, f) = RefState(ctx', ram', flash', instr, "RUN", todo)
  <2>1. RefHit(Now, f).halt = "RUN"
    BY <1>7, <1>9 DEF RefState
  <2> QED BY <1>1, <1>5, <2>1, ApplyIsRef
<1>11. RefNext(Now) = RefState(ctx', ram', flash', instr, "RUN", Tail(todo))
  BY <1>1, <1>4, <1>5, <1>6, <1>10, RefNextHits DEF Now
<1>12. RefAt(Steps + 1) = RefState(ctx', ram', flash', instr', "RUN", todo')
  BY <1>1, <1>3, <1>11
<1>13. Steps + 1 = instr' + (Len(cur) - Len(todo'))
  <2>1. Len(todo) \in Nat /\ Len(cur) \in Nat /\ Len(Tail(todo)) = Len(todo) - 1
    BY <1>1, <1>2, <1>4, AtTyped, HeadAndTail
  <2>2. Len(todo') = Len(todo) - 1 /\ instr' = instr
    BY <1>1, <2>1
  <2> QED BY <1>4, <2>1, <2>2 DEF Steps
<1>14. instr' < n
  BY <1>1 DEF BeforeHalt
<1> QED BY <1>1, <1>12, <1>13, <1>14, StaysBefore

LEMMA StaysAfter ==
  ASSUME UNCHANGED <<cur, origin, flash>>, NEW n,
         phase' = "halting", n <= instr', instr' <= n + SpinThreshold, instr' <= Budget,
         ctx' = RefAt(n + Len(cur)).ctx, ram' = RefAt(n + Len(cur)).ram,
         IsSpin(ctx', ram'),
         IF instr' = n THEN stuck' = 0 /\ prevPc' # ctx'.pc
         ELSE stuck' = instr' - n - 1 /\ prevPc' = ctx'.pc
  PROVE  AfterHalt(n)'
<1>1. ctx' = RefRun(Start0')[n + Len(cur')].ctx /\ ram' = RefRun(Start0')[n + Len(cur')].ram
  BY SameReference DEF RefAt
<1>2. IsSpin(ctx, ram)'
  BY DEF IsSpin, Fetched
<1> QED BY <1>1, <1>2 DEF AfterHalt, RefAt

(***************************************************************************)
(* _run_until_halt() before the reference halts.  A pc that does not move  *)
(* there is a spin, and a reference that spins never halts.                *)
(***************************************************************************)
LEMMA NoSpinBefore ==
  ASSUME TypeOK, BookInv, SpinsAfterHalt, Begun, todo = <<>>,
         NEW n \in 1..Budget, HaltsAt(n), BeforeHalt(n),
         ctx.pc \in Executable, NEW op, op = Fetched(ctx.pc, ram),
         NEW x, x = Exec(ctx, ram, Blank, op), NEW e, e = BoardExec(ctx, ram, op),
         ~x.peeks, SameOutcome(x, e), e.event = "run", e.stray = {}
  PROVE  e.ctx.pc # ctx.pc
<1> SUFFICES ASSUME e.ctx.pc = ctx.pc PROVE FALSE
  OBVIOUS
<1>1. /\ ctx \in Context /\ ram \in RamImage /\ flash \in Flash /\ instr \in Nat
      /\ e.ctx \in Context /\ ctx.regs \in [Reg -> Word]
      /\ ctx = [pc |-> ctx.pc, regs |-> ctx.regs]
  <2>1. ctx \in Context /\ ram \in RamImage /\ flash \in Flash /\ instr \in Nat
    BY DEF TypeOK
  <2>2. ctx.pc \in Mapped /\ op \in Code
    BY <2>1, MappedIs, AroundIs DEF Fetched
  <2>3. e.ctx \in Context
    BY <2>1, <2>2, ExecTyped DEF IsOutcome
  <2> QED BY <2>1, <2>3 DEF Context
<1>2. e.ctx.regs = ctx.regs /\ e.ram = ram
  <2>1. e = BoardExec([pc |-> ctx.pc, regs |-> ctx.regs], ram, Fetched(ctx.pc, ram))
    BY <1>1
  <2> QED BY <1>1, <2>1 DEF SpinsAfterHalt
<1>3. e.ctx = ctx
  BY <1>1, <1>2 DEF Context
<1>4. /\ Steps \in Nat /\ Steps < n + Len(cur) /\ RefAt(Steps) = Now
      /\ LastTrigger(cur) \in Int /\ Start0 \in RefStates(LastTrigger(cur))
      /\ Len(cur) \in Nat /\ n \in Nat
  BY Moves, AtTyped, UntilHalt
<1>5. PICK k \in Nat : k = Steps
  BY <1>4
<1>6. PICK d \in Nat : k + d = n + Len(cur)
  <2>1. n + Len(cur) - k \in Nat /\ k + (n + Len(cur) - k) = n + Len(cur)
    BY <1>4, <1>5
  <2> QED BY <2>1
<1>7. RefRun(Start0)[k] = RefState(ctx, ram, flash, instr, "RUN", <<>>)
  BY <1>4, <1>5 DEF Now, RefAt
<1>8. RefRun(Start0)[k + d].halt # "ORACLE"
  <2>1. x.event = "run" /\ x.stray = {} /\ x.ctx = ctx /\ x.ram = ram
    BY <1>2, <1>3 DEF SameOutcome
  <2>2. x = Exec(ctx, ram, Blank, RefSees(ctx, ram, flash)[ctx.pc])
    BY DEF Fetched, RefSees
  <2>3. ctx.pc \in Mapped /\ ctx.pc \notin WindowCell
    BY MappedIs, DataAssumption DEF Executable
  <2> QED BY <1>1, <1>4, <1>7, <2>1, <2>2, <2>3, LoopNeverHalts
<1> QED BY <1>6, <1>8 DEF HaltsAt, RefAt

LEMMA StepsBefore ==
  ASSUME TypeOK, BookInv, SpinsAfterHalt, HaltStep,
         NEW n \in 1..Budget, HaltsAt(n), BeforeHalt(n)
  PROVE  BeforeHalt(n)' \/ AfterHalt(n)'
<1>1. /\ phase = "halting" /\ phase' = "halting" /\ todo = <<>>
      /\ instr < Budget /\ instr' = instr + 1 /\ CpuStep
      /\ prevPc' = ctx.pc /\ stuck' = StuckNow
      /\ UNCHANGED <<todo, cur, origin>>
  BY DEF HaltStep, BookInv, job
<1>2. stuck' = 0
  BY <1>1 DEF BeforeHalt, StuckNow
<1>3. Begun
  BY <1>1 DEF Begun
<1>4. /\ Steps \in Nat /\ RefAt(Steps + 1) = RefNext(Now)
      /\ \/ /\ RefNext(Now).halt = "RUN" /\ RefNext(Now).n < n
         \/ /\ Steps + 1 = n + Len(cur)
            /\ RefNext(Now).halt = "ORACLE" /\ RefNext(Now).n = n
      /\ Now \in RefStates(LastTrigger(cur)) /\ SameStep(Now)
  BY <1>3, Moves
<1>5. instr \in Nat /\ Len(cur) \in Nat /\ ctx \in Context /\ ctx.pc \in Nat
      /\ ram \in RamImage /\ flash \in Flash
  BY <1>3, AtTyped DEF TypeOK, Context
<1>6. RefNext(Now) = RefStep(Now)
  <2>1. <<>> \in Todos(LastTrigger(cur))
    BY DEF Todos
  <2> QED BY <1>1, <1>5, <2>1, RefNextSteps DEF Now
<1>7. PICK op, x, e : /\ op = Fetched(ctx.pc, ram)
                      /\ x = Exec(ctx, ram, Blank, op) /\ e = BoardExec(ctx, ram, op)
  OBVIOUS
<1>8. /\ ctx.pc \in Executable /\ ~x.peeks /\ SameOutcome(x, e)
      /\ e.event \in {"run", "halt"} /\ e.stray = {}
      /\ ctx' = e.ctx /\ ram' = e.ram /\ flash' = flash
      /\ RefNext(Now) = RefState(ctx', ram', flash', instr',
                                 IF e.event = "halt" THEN "ORACLE" ELSE "RUN", todo')
  <2>1. RefStep(Now).halt \in {"RUN", "ORACLE"}
    BY <1>4, <1>6
  <2> QED BY <1>1, <1>4, <1>6, <1>7, <2>1, CpuIsRef
<1>9. CASE RefNext(Now).halt = "RUN"
  <2>1. e.event = "run" /\ instr' < n
        /\ RefNext(Now) = RefState(ctx', ram', flash', instr', "RUN", todo')
    BY <1>4, <1>8, <1>9 DEF RefState
  <2>2. ctx'.pc # ctx.pc
    BY <1>1, <1>3, <1>7, <1>8, <2>1, NoSpinBefore
  <2>3. Steps + 1 = instr' + (Len(cur) - Len(todo'))
    BY <1>1, <1>5 DEF Steps
  <2>4. RefAt(Steps + 1) = RefState(ctx', ram', flash', instr', "RUN", todo')
    BY <1>4, <2>1
  <2> QED BY <1>1, <1>2, <2>1, <2>2, <2>3, <2>4, StaysBefore
<1>10. CASE RefNext(Now).halt = "ORACLE"
  <2>1. e.event = "halt" /\ instr' = n /\ Steps + 1 = n + Len(cur)
    BY <1>4, <1>8, <1>10 DEF RefState
  <2>2. ctx' = RefAt(n + Len(cur)).ctx /\ ram' = RefAt(n + Len(cur)).ram
    BY <1>4, <1>8, <2>1 DEF RefState
  <2>3. e.ctx.pc # ctx.pc /\ IsSpin(e.ctx, e.ram)
    <3>1. /\ ctx.regs \in [Reg -> Word]
          /\ e = BoardExec([pc |-> ctx.pc, regs |-> ctx.regs], ram, Fetched(ctx.pc, ram))
      <4>1. ctx = [pc |-> ctx.pc, regs |-> ctx.regs] /\ ctx.regs \in [Reg -> Word]
        BY <1>5 DEF Context
      <4> QED BY <1>7, <4>1
    <3> QED BY <1>5, <1>8, <2>1, <3>1 DEF SpinsAfterHalt
  <2>4. n <= instr' /\ instr' <= n + SpinThreshold /\ instr' <= Budget
    BY <1>5, <1>1, <2>1, SizesAssumption DEF SpinThreshold
  <2> QED BY <1>1, <1>2, <1>8, <2>1, <2>2, <2>3, <2>4, StaysAfter
<1> QED BY <1>4, <1>9, <1>10

(***************************************************************************)
(* _run_until_halt() in the spin.                                          *)
(***************************************************************************)
LEMMA StepsAfter ==
  ASSUME TypeOK, BookInv, HaltStep, NEW n \in 1..Budget, AfterHalt(n)
  PROVE  AfterHalt(n)'
<1>1. /\ phase = "halting" /\ phase' = "halting"
      /\ instr < Budget /\ instr' = instr + 1 /\ CpuStep
      /\ prevPc' = ctx.pc /\ stuck' = StuckNow /\ StuckNow < 3
      /\ UNCHANGED <<cur, origin>>
  BY DEF HaltStep, job, SpinThreshold
<1>2. /\ n <= instr /\ instr <= n + 3
      /\ ctx = RefAt(n + Len(cur)).ctx /\ ram = RefAt(n + Len(cur)).ram
      /\ IsSpin(ctx, ram)
      /\ IF instr = n THEN stuck = 0 /\ prevPc # ctx.pc
         ELSE stuck = instr - n - 1 /\ prevPc = ctx.pc
  BY DEF AfterHalt, SpinThreshold
<1>3. ctx' = ctx /\ ram' = ram /\ flash' = flash
  <2> DEFINE e == BoardExec(ctx, ram, Fetched(ctx.pc, ram))
  <2>1. /\ ctx.pc \in Executable /\ e.event = "run" /\ e.stray = {}
        /\ e.ctx = ctx /\ e.ram = ram
    BY <1>2 DEF IsSpin
  <2>2. ~Raises
    BY <2>1 DEF Raises
  <2>3. /\ ctx' = e.ctx /\ ram' = e.ram
        /\ flash' = [a \in FlashCell |-> IF a \in e.stray THEN Garbage ELSE flash[a]]
    BY <1>1, <2>2 DEF CpuStep
  <2>4. flash \in Flash
    BY DEF TypeOK
  <2> HIDE DEF e
  <2> QED BY <2>1, <2>3, <2>4 DEF Flash
<1>4. instr \in Nat /\ n \in Nat /\ Budget \in Nat
  BY SizesAssumption DEF TypeOK
<1>5. instr' # n /\ stuck' = instr' - n - 1 /\ prevPc' = ctx'.pc /\ instr' <= n + 3
  BY <1>1, <1>2, <1>3, <1>4 DEF StuckNow
<1>6. n <= instr' /\ instr' <= n + SpinThreshold /\ instr' <= Budget
  BY <1>1, <1>2, <1>4, <1>5 DEF SpinThreshold
<1>7. IsSpin(ctx', ram')
  BY <1>2, <1>3
<1> QED BY <1>1, <1>2, <1>3, <1>5, <1>6, <1>7, StaysAfter

LEMMA RecordsHalt ==
  ASSUME TypeOK, BookInv, HaltStep, NEW n \in 1..Budget,
         BeforeHalt(n) \/ AfterHalt(n), Recorded(n)
  PROVE  Recorded(n)'
<1> SUFFICES ASSUME cur' = <<>>, NEW i \in 1..Len(record'), i <= n
             PROVE  record'[i] = RefRun(Start0')[i - 1].ctx.pc
  BY DEF Recorded, RefAt
<1>1. /\ record' = Append(record, ctx.pc) /\ phase = "halting" /\ todo = <<>>
      /\ UNCHANGED <<cur, origin>> /\ cur = <<>> /\ Len(record) = instr
  BY DEF HaltStep, BookInv, job
<1>2. record \in Seq(Nat) /\ ctx.pc \in Nat /\ instr \in Nat
  BY DEF TypeOK, Context
<1>3. CASE i <= Len(record)
  <2>1. i \in 1..Len(record) /\ record'[i] = record[i]
    BY <1>1, <1>2, <1>3
  <2>2. record[i] = RefAt(i - 1).ctx.pc
    BY <1>1, <2>1 DEF Recorded
  <2> QED BY <1>1, <2>1, <2>2, SameReference
<1>4. CASE ~(i <= Len(record))
  <2>1. i = Len(record) + 1 /\ i - 1 = instr /\ record'[i] = ctx.pc /\ instr < n
    BY <1>1, <1>2, <1>4
  <2>2. BeforeHalt(n)
    <3>1. n \in Nat
      BY SizesAssumption
    <3> QED BY <1>2, <2>1, <3>1 DEF AfterHalt
  <2>3. instr + (Len(cur) - Len(todo)) = instr
    BY <1>1, <1>2
  <2>4. RefAt(instr).ctx.pc = ctx.pc
    BY <2>2, <2>3 DEF BeforeHalt
  <2> QED BY <1>1, <2>1, <2>4, SameReference
<1> QED BY <1>3, <1>4

(***************************************************************************)
(* _run_until_halt() sees the spin, or the end of the budget.              *)
(***************************************************************************)
LEMMA SpinsReport ==
  ASSUME TypeOK, BookInv, Spins, NEW n \in 1..Budget,
         BeforeHalt(n) \/ AfterHalt(n), Recorded(n)
  PROVE  ReportsHalt(n)'
<1>1. /\ phase = "halting" /\ instr < Budget /\ StuckNow = 3
      /\ record' = SubSeq(Append(record, ctx.pc), 1, Len(record) + 1 - 4)
      /\ result' = [halt |-> "ORACLE", instructions |-> instr - 3,
                    ram |-> ram, pc |-> ctx.pc]
      /\ UNCHANGED <<cur, origin>>
  BY DEF Spins, Return, job, SpinThreshold
<1>2. /\ record \in Seq(Nat) /\ ctx.pc \in Nat /\ instr \in Nat /\ n \in Nat
      /\ Budget \in Nat
  BY SizesAssumption DEF TypeOK, Context
<1>3. AfterHalt(n)
  BY <1>1 DEF BeforeHalt, StuckNow
<1>4. /\ ram = RefAt(n + Len(cur)).ram /\ n <= instr
      /\ IF instr = n THEN prevPc # ctx.pc ELSE stuck = instr - n - 1
  BY <1>3 DEF AfterHalt
<1>5. instr = n + 3
  <2>1. ctx.pc = prevPc /\ stuck + 1 = 3
    BY <1>1 DEF StuckNow
  <2> QED BY <1>2, <1>4, <2>1
<1>6. result'.ram = RefRun(Start0')[n + Len(cur')].ram
  BY <1>1, <1>4, SameReference
<1>7. n + SpinThreshold < Budget /\ result'.halt = "ORACLE" /\ result'.instructions = n
  <2>1. result'.halt = "ORACLE" /\ result'.instructions = instr - 3
    BY <1>1
  <2> QED BY <1>1, <1>2, <1>5, <2>1 DEF SpinThreshold
<1>8. ASSUME cur' = <<>>
      PROVE  /\ Len(record') = n
             /\ \A i \in 1..Len(record') : i <= n =>
                  record'[i] = RefRun(Start0')[i - 1].ctx.pc
  <2> DEFINE r == Append(record, ctx.pc)
  <2>1. Len(record) = n + 3
    BY <1>1, <1>5, <1>8 DEF BookInv
  <2>2. r \in Seq(Nat) /\ Len(r) = n + 4 /\ Len(record) + 1 - 4 = n
        /\ \A i \in 1..Len(record) : r[i] = record[i]
    BY <1>2, <2>1
  <2>3. record' = SubSeq(r, 1, n)
    BY <1>1, <2>2
  <2> HIDE DEF r
  <2>4. Len(record') = n /\ \A i \in 1..n : record'[i] = r[i]
    <3>1. n \in Int /\ n <= Len(r) /\ ~(n < 0)
      BY <1>2, <2>2
    <3>2. /\ Len(SubSeq(r, 1, n)) = n
          /\ \A i \in 1..n : SubSeq(r, 1, n)[i] = r[i]
      BY <2>2, <3>1, Prefix
    <3> QED BY <2>3, <3>2
  <2>5. ASSUME NEW i \in 1..n PROVE record'[i] = RefRun(Start0')[i - 1].ctx.pc
    <3>1. i \in 1..Len(record) /\ i <= n
      BY <1>2, <2>1
    <3>2. record[i] = RefAt(i - 1).ctx.pc
      BY <1>1, <1>8, <3>1 DEF Recorded
    <3> QED BY <1>1, <2>2, <2>4, <3>1, <3>2, SameReference
  <2> QED BY <2>4, <2>5
<1> QED BY <1>6, <1>7, <1>8 DEF ReportsHalt, Recorded, RefAt

LEMMA BudgetReports ==
  ASSUME TypeOK, BookInv, OutOfBudget, NEW n \in 1..Budget,
         BeforeHalt(n) \/ AfterHalt(n), Recorded(n)
  PROVE  ReportsHalt(n)'
<1>1. /\ phase = "halting" /\ instr >= Budget /\ record' = record
      /\ result' = [halt |-> "BUDGET", instructions |-> instr,
                    ram |-> ram, pc |-> ctx.pc]
      /\ UNCHANGED <<cur, origin>>
  BY DEF OutOfBudget, Return, job
<1>2. instr \in Nat /\ n \in Nat /\ Budget \in Nat /\ n <= Budget
  BY SizesAssumption DEF TypeOK
<1>3. AfterHalt(n)
  BY <1>1, <1>2 DEF BeforeHalt
<1>4. /\ ram = RefAt(n + Len(cur)).ram
      /\ instr <= n + SpinThreshold /\ instr <= Budget
  BY <1>3 DEF AfterHalt
<1>5. ~(n + SpinThreshold < Budget) /\ result'.halt = "BUDGET" /\ result'.instructions = Budget
  <2>1. result'.halt = "BUDGET" /\ result'.instructions = instr
    BY <1>1
  <2> QED BY <1>1, <1>2, <1>4, <2>1 DEF SpinThreshold
<1>6. result'.ram = RefRun(Start0')[n + Len(cur')].ram
  BY <1>1, <1>4, SameReference
<1>7. Recorded(n)'
  BY <1>1, SameReference DEF Recorded, RefAt
<1> QED BY <1>5, <1>6, <1>7 DEF ReportsHalt, RefAt

(***************************************************************************)
(* A run begins where its reference does.                                  *)
(***************************************************************************)
LEMMA BeginsBefore ==
  ASSUME TypeOK, Begin, phase' \in {"approaching", "halting"}, todo' = cur',
         cur' \in FaultSets \cup {<<>>}, NEW n \in 1..Budget, CleanStart'
  PROVE  BeforeHalt(n)' /\ Recorded(n)'
<1>1. /\ ctx' = ResetCtx(ctx) /\ origin' = [ctx |-> ctx', flash |-> flash]
      /\ ram' = ResetRam /\ flash' = flash /\ flash \in Flash /\ ctx \in Context
      /\ instr' = 0 /\ record' = <<>> /\ prevPc' = NoPc /\ stuck' = 0
      /\ ctx' \in Context
  BY BeginTyped DEF TypeOK
<1>2. ctx' = UnicornReset /\ flash' = FlashImage
  <2>1. /\ origin'.flash = FlashImage
        /\ \A r \in Reg \ (ZeroRegs \cup {SpReg}) :
             origin'.ctx.regs[r] = UnicornReset.regs[r]
    BY DEF CleanStart
  <2>2. origin'.ctx = ResetCtx(ctx) /\ origin'.flash = flash
    BY <1>1
  <2> QED BY <1>1, <2>1, <2>2, CleanContext
<1>3. Start0' = StartOf(cur')
  BY DEF Start0, StartOf, RefStart, RefState
<1>4. Start0' = RefState(ctx', ram', flash', instr', "RUN", todo')
  BY <1>1, <1>2, <1>3 DEF StartOf
<1>5. RefRun(Start0')[0] = Start0'
  BY <1>3, StartTyped, TodosTyped, RefRunStep
<1>6. instr' + (Len(cur') - Len(todo')) = 0
  <2>1. Len(cur') \in Nat
    BY TodosTyped
  <2> QED BY <1>1, <2>1
<1>7. prevPc' # ctx'.pc
  BY <1>1 DEF NoPc, Context
<1>8. instr' < n
  BY <1>1
<1>9. BeforeHalt(n)'
  BY <1>1, <1>4, <1>5, <1>6, <1>7, <1>8 DEF BeforeHalt, RefAt, RefState
<1>10. Recorded(n)'
  BY <1>1 DEF Recorded
<1> QED BY <1>9, <1>10

LEMMA NextHalts ==
  ASSUME TypeOK, BookInv, HaltInv, SpinsAfterHalt, [Next]_vars,
         NEW n \in 1..Budget, HaltsAt(n)'
  PROVE  /\ phase' \in {"approaching", "halting"} =>
              (BeforeHalt(n)' \/ AfterHalt(n)') /\ Recorded(n)'
         /\ result' # NoResult => ReportsHalt(n)'
<1>0. CleanStart'
  BY DEF HaltsAt
<1>1. Stepping => result = NoResult
  BY DEF BookInv, Stepping
<1>2. UNCHANGED <<cur, origin>> => HaltsAt(n)
  BY SameReference
<1>3. UNCHANGED <<cur, origin>> /\ Stepping =>
        (BeforeHalt(n) \/ AfterHalt(n)) /\ Recorded(n)
  BY <1>2 DEF HaltInv, Stepping
<1>4. phase = "approaching" /\ UNCHANGED <<cur, origin>> =>
        BeforeHalt(n) /\ cur # <<>>
  BY <1>3 DEF AfterHalt, Stepping, BookInv
<1>5. CASE Start
  BY <1>5 DEF Start, BookInv
<1>6. CASE Close
  BY <1>6 DEF Close
<1>7. CASE QemuExits
  BY <1>1, <1>7 DEF QemuExits
<1>8. CASE Trace
  <2>1. /\ Begin /\ phase' = "halting" /\ cur' = <<>> /\ todo' = <<>>
        /\ result' = NoResult
    BY <1>8 DEF Trace, Begin
  <2> QED BY <1>0, <2>1, BeginsBefore
<1>9. ASSUME NEW fs \in FaultSets, Run(fs)
      PROVE  /\ phase' \in {"approaching", "halting"} =>
                  (BeforeHalt(n)' \/ AfterHalt(n)') /\ Recorded(n)'
             /\ result' # NoResult => ReportsHalt(n)'
  <2>1. /\ Begin /\ phase' = "approaching" /\ cur' = fs /\ todo' = fs
        /\ result' = NoResult
    BY <1>9 DEF Run, Begin
  <2> QED BY <1>0, <2>1, BeginsBefore
<1>10. CASE Approach
  <2>1. /\ phase = "approaching" /\ phase' = "approaching" /\ Stepping
        /\ UNCHANGED <<cur, origin, result>>
    BY <1>10 DEF Approach, job, Stepping
  <2>2. BeforeHalt(n)'
    BY <1>2, <1>4, <1>10, <2>1, ApproachHalts
  <2>3. Recorded(n)'
    BY <1>4, <2>1 DEF Recorded
  <2> QED BY <1>1, <2>1, <2>2, <2>3
<1>11. CASE Apply
  <2>1. /\ phase = "approaching" /\ phase' \in {"approaching", "broken"} /\ Stepping
        /\ UNCHANGED <<cur, origin, result>>
    BY <1>11 DEF Apply, job, Stepping
  <2>2. phase' = "approaching" => BeforeHalt(n)'
    BY <1>2, <1>4, <1>11, <2>1, ApplyHalts
  <2>3. Recorded(n)'
    BY <1>4, <2>1 DEF Recorded
  <2> QED BY <1>1, <2>1, <2>2, <2>3
<1>12. CASE EndFaults
  <2>1. /\ phase = "approaching" /\ phase' = "halting" /\ Stepping
        /\ UNCHANGED <<ctx, ram, flash, instr, todo, prevPc, stuck, cur, origin, result>>
    BY <1>12 DEF EndFaults, core, spin, job, Stepping
  <2>2. /\ instr < n /\ stuck = 0 /\ prevPc # ctx.pc
        /\ RefAt(instr + (Len(cur) - Len(todo)))
             = RefState(ctx, ram, flash, instr, "RUN", todo)
    <3>1. ctx.pc \in Nat
      BY DEF TypeOK, Context
    <3>2. stuck = 0 /\ prevPc = NoPc
      BY <2>1 DEF BookInv
    <3> QED BY <1>4, <2>1, <3>1, <3>2 DEF BeforeHalt, RefState, NoPc
  <2>3. BeforeHalt(n)'
    BY <2>1, <2>2, StaysBefore
  <2>4. Recorded(n)'
    BY <1>4, <2>1 DEF Recorded
  <2> QED BY <1>1, <2>1, <2>3, <2>4
<1>13. CASE HaltStep
  <2>1. /\ Stepping /\ UNCHANGED <<cur, origin, result>>
    BY <1>13 DEF HaltStep, job, Stepping
  <2>2. BeforeHalt(n)' \/ AfterHalt(n)'
    BY <1>2, <1>3, <1>13, <2>1, StepsBefore, StepsAfter
  <2>3. Recorded(n)'
    BY <1>3, <1>13, <2>1, RecordsHalt
  <2> QED BY <1>1, <2>1, <2>2, <2>3
<1>14. CASE Spins
  <2>1. Stepping /\ phase' = "up" /\ UNCHANGED <<cur, origin>>
    BY <1>14 DEF Spins, Return, job, Stepping
  <2> QED BY <1>3, <1>14, <2>1, SpinsReport
<1>15. CASE OutOfBudget
  <2>1. Stepping /\ phase' = "up" /\ UNCHANGED <<cur, origin>>
    BY <1>15 DEF OutOfBudget, Return, job, Stepping
  <2> QED BY <1>3, <1>15, <2>1, BudgetReports
<1>16. CASE UNCHANGED vars
  <2>1. UNCHANGED <<phase, ctx, ram, flash, instr, prevPc, stuck, record, todo,
                    result, cur, origin>>
    BY <1>16 DEF vars, core, spin, job
  <2>2. HaltsAt(n)
    BY <1>2, <2>1
  <2>3. BeforeHalt(n) => BeforeHalt(n)'
    BY <2>1, SameReference DEF BeforeHalt, RefAt
  <2>4. AfterHalt(n) => AfterHalt(n)'
    BY <2>1, SameReference DEF AfterHalt, RefAt, IsSpin, Fetched
  <2>5. Recorded(n) => Recorded(n)'
    BY <2>1, SameReference DEF Recorded, RefAt
  <2>6. ReportsHalt(n) => ReportsHalt(n)'
    BY <2>1, <2>5, SameReference DEF ReportsHalt, RefAt
  <2>7. /\ phase \in {"approaching", "halting"} =>
             (BeforeHalt(n) \/ AfterHalt(n)) /\ Recorded(n)
        /\ result # NoResult => ReportsHalt(n)
    BY <2>2 DEF HaltInv
  <2> QED BY <2>1, <2>3, <2>4, <2>5, <2>6, <2>7
<1> QED
  BY <1>5, <1>6, <1>7, <1>8, <1>9, <1>10, <1>11, <1>12, <1>13, <1>14, <1>15, <1>16
  DEF Next, Step

LEMMA InitHalts == Init => HaltInv
<1> SUFFICES ASSUME Init PROVE HaltInv
  OBVIOUS
<1>1. phase = "down" /\ result = NoResult
  BY DEF Init
<1> QED BY <1>1 DEF HaltInv

(***************************************************************************)
(* Every step keeps the invariant.  Only a step of _run_until_halt() needs *)
(* SpinsAfterHalt.                                                         *)
(***************************************************************************)
LEMMA Inductive == IInv /\ SpinsAfterHalt /\ [Next]_vars => IInv'
<1> SUFFICES ASSUME IInv, SpinsAfterHalt, [Next]_vars PROVE IInv'
  OBVIOUS
<1>1. TypeOK' /\ BookInv'
  BY NextTyped, NextBook DEF IInv
<1>2. HaltInv'
  <2>1. ASSUME NEW n \in 1..Budget, HaltsAt(n)'
        PROVE  /\ phase' \in {"approaching", "halting"} =>
                    (BeforeHalt(n)' \/ AfterHalt(n)') /\ Recorded(n)'
               /\ result' # NoResult => ReportsHalt(n)'
    BY <2>1, NextHalts DEF IInv
  <2> QED BY <2>1 DEF HaltInv
<1> QED BY <1>1, <1>2 DEF IInv

(***************************************************************************)
(* TypeOK: the values the harness keeps for a run stay in their types,     *)
(* whatever the program in flash does.                                     *)
(***************************************************************************)
THEOREM TypeCorrect == Spec => []TypeOK
<1>1. Init => TypeOK /\ BookInv
  BY InitTyped, InitBook
<1>2. TypeOK /\ BookInv /\ [Next]_vars => TypeOK' /\ BookInv'
  BY NextTyped, NextBook
<1> QED BY <1>1, <1>2, PTL DEF Spec

(***************************************************************************)
(* The invariant behind the two results: with the program in flash as      *)
(* _run_until_halt() takes it for granted, a run with a clean start whose  *)
(* reference halts with its n-th instruction, every instruction counted    *)
(* by both, follows the reference, spins behind it, and reports it.        *)
(***************************************************************************)
THEOREM Halts == Spec /\ []SpinsAfterHalt => []IInv
<1>1. Init => IInv
  BY InitTyped, InitBook, InitHalts DEF IInv
<1> QED BY <1>1, Inductive, PTL DEF Spec

LEMMA AgreesWhenHalted == IInv => AgreesOnHalt
<1> SUFFICES ASSUME IInv, HasRun, CleanStart, HaltsInTime, SameUpTo(Reference.n)
             PROVE  ReportsReference
  BY DEF AgreesOnHalt
<1>1. TypeOK /\ BookInv /\ HaltInv /\ Begun /\ cur # <<>> /\ result # NoResult
  BY DEF IInv, HasRun, Begun
<1>2. /\ LastTrigger(cur) \in Int /\ Start0 \in RefStates(LastTrigger(cur))
      /\ Start0.n = 0 /\ Start0.halt = "RUN" /\ Start0.todo = cur
      /\ LastTrigger(cur) = cur[Len(cur)].trigger /\ Len(cur) \in Nat
  BY <1>1, AtTyped DEF LastTrigger
<1>3. PICK M \in Nat : Reference = RefRun(Start0)[M]
  <2>1. cur \in Todos(LastTrigger(cur)) /\ cur[Len(cur)].trigger \in Nat
    <3>1. cur \in FaultSets
      BY <1>1 DEF TypeOK
    <3>2. cur \in Seq(Fault) /\ cur # <<>>
      BY <3>1, FaultSetTyped
    <3>3. cur[Len(cur)] \in Fault
      BY <3>2
    <3> QED BY <3>1, <3>3, TodosTyped, FaultFields
  <2>2. RefSteps(cur) \in Nat
    BY <1>2, <2>1, SizesAssumption DEF RefSteps
  <2> QED BY <1>2, <2>2 DEF Reference, Replay
<1>4. PICK n : n = Reference.n
  OBVIOUS
<1>5. /\ n \in 1..Budget /\ RefRun(Start0)[n - 1 + Len(Start0.todo)].halt = "RUN"
      /\ RefRun(Start0)[n + Len(Start0.todo)] = Reference
      /\ RefRun(Start0)[n + Len(Start0.todo)].todo = <<>>
  BY <1>2, <1>3, <1>4, HaltFound DEF HaltsInTime
<1>6. HaltsAt(n) /\ RefAt(n + Len(cur)) = Reference
  BY <1>2, <1>4, <1>5 DEF HaltsAt, RefAt, HaltsInTime
<1>7. ReportsHalt(n)
  BY <1>1, <1>5, <1>6 DEF HaltInv
<1> QED BY <1>1, <1>4, <1>6, <1>7 DEF ReportsHalt, ReportsReference

LEMMA GoldenWhenTraced == IInv => TraceIsGolden
<1> SUFFICES ASSUME IInv, result # NoResult, cur = <<>>, CleanStart, SameUpTo(GoldenLength)
             PROVE  /\ result.halt = "ORACLE" /\ result.instructions = GoldenLength
                    /\ record = [n \in 1..GoldenLength |-> RefRun(Start0)[n - 1].ctx.pc]
  BY DEF TraceIsGolden
<1>1. TypeOK /\ BookInv /\ HaltInv /\ Begun
  BY DEF IInv, Begun
<1>2. GoldenLength \in 1..Budget /\ GoldenLength \in Nat /\ GoldenLength + SpinThreshold < Budget
  BY SizesAssumption DEF SpinThreshold
<1>3. Start0 = RefStart(UnicornReset, ResetRam, FlashImage, <<>>)
  BY DEF Start0
<1>4. RefAt(GoldenLength - 1).halt = "RUN" /\ RefAt(GoldenLength).halt = "ORACLE"
  BY <1>3, GoldenAssumption DEF RefAt
<1>5. RefAt(GoldenLength).todo = <<>>
  <2>1. /\ LastTrigger(cur) \in Int /\ Start0 \in RefStates(LastTrigger(cur))
        /\ Start0.n = 0 /\ Start0.todo = <<>>
    BY <1>1, AtTyped
  <2>2. Len(RefAt(GoldenLength).todo) \in Nat /\ Len(RefAt(GoldenLength).todo) <= Len(Start0.todo)
    BY <1>2, <2>1, RefCounts DEF RefAt
  <2>3. RefAt(GoldenLength).todo \in Seq(Fault)
    <3>1. RefAt(GoldenLength) \in RefStates(LastTrigger(cur))
      BY <1>1, <1>2, AtTyped
    <3> QED BY <3>1, RefStateTyped DEF Todos
  <2>4. Len(Start0.todo) = 0
    BY <2>1
  <2>5. Len(RefAt(GoldenLength).todo) = 0
    BY <2>2, <2>4
  <2> HIDE DEF RefAt
  <2> QED BY <2>3, <2>5
<1>6. HaltsAt(GoldenLength)
  <2>1. Len(cur) = 0
    OBVIOUS
  <2>2. GoldenLength - 1 + Len(cur) = GoldenLength - 1 /\ GoldenLength + Len(cur) = GoldenLength
    BY <1>2, <2>1
  <2> QED BY <1>4, <1>5, <2>2 DEF HaltsAt
<1>7. ReportsHalt(GoldenLength)
  BY <1>1, <1>2, <1>6 DEF HaltInv
<1>8. /\ result.halt = "ORACLE" /\ result.instructions = GoldenLength
      /\ Len(record) = GoldenLength /\ record \in Seq(Nat)
      /\ \A i \in 1..GoldenLength : record[i] = RefRun(Start0)[i - 1].ctx.pc
  <2>1. /\ result.halt = "ORACLE" /\ result.instructions = GoldenLength
        /\ Len(record) = GoldenLength /\ record \in Seq(Nat)
    BY <1>1, <1>2, <1>7 DEF ReportsHalt, TypeOK
  <2>2. \A i \in 1..Len(record) : i <= GoldenLength => record[i] = RefAt(i - 1).ctx.pc
    BY <1>7 DEF ReportsHalt, Recorded
  <2> QED BY <1>2, <2>1, <2>2 DEF RefAt
<1>9. record = [n \in 1..GoldenLength |-> RefRun(Start0)[n - 1].ctx.pc]
  <2>1. record = [i \in 1..GoldenLength |-> record[i]]
    BY <1>8
  <2> QED BY <1>8, <2>1
<1> QED BY <1>8, <1>9

(***************************************************************************)
(* AgreesOnHalt, for every pair of CPUs, program and list of experiments:  *)
(* as long as the program in flash keeps what _run_until_halt() takes for  *)
(* granted, an experiment whose faults all strike before the program halts *)
(* is reported as the Unicorn backend has it, the spin backed out of its   *)
(* count, in every run that began with the reference's flags and flash and *)
(* whose instructions the two emulators retire alike.                      *)
(***************************************************************************)
THEOREM HaltAgrees == Spec /\ []SpinsAfterHalt => []AgreesOnHalt
  BY Halts, AgreesWhenHalted, PTL

(***************************************************************************)
(* TraceIsGolden, likewise and under the same two provisos: trace()        *)
(* returns the golden PCs up to the store that halts, and no spin.         *)
(***************************************************************************)
THEOREM GoldenTrace == Spec /\ []SpinsAfterHalt => []TraceIsGolden
  BY Halts, GoldenWhenTraced, PTL
=============================================================================
