------------------------ MODULE UnicornBackendProofs ------------------------
(***************************************************************************)
(* Proofs about UnicornBackend, for every CPU, firmware image, ladder and  *)
(* campaign whose faults leave flash alone (SpareFlash).                   *)
(***************************************************************************)
EXTENDS UnicornBackend, NatRecursion, TLAPS

LEMMA FaultFields ==
  ASSUME NEW f \in Fault
  PROVE  /\ f.trigger \in Nat
         /\ f.model \in {"SKIP", "REG_XOR", "REG_SET", "MEM_XOR", "OPCODE_XOR"}
         /\ f.model = "SKIP" => f.value \in SkipWidths
         /\ f.model \in {"REG_XOR", "REG_SET"} => f.target \in Reg /\ f.value \in Word
         /\ f.model = "MEM_XOR" =>
              f.target \in Nat /\ f.value \in Word
         /\ f.model = "OPCODE_XOR" => f.value \in Word
  BY DEF Fault, SkipFault, RegFault, MemFault, OpcodeFault

LEMMA BudgetNat == Budget \in Nat /\ Stride \in Nat /\ Stride > 0
<1>1. Budget \in Nat
  BY SizesAssumption DEF Budget
<1>2. GoldenLength \div Rungs \in Int
  BY SizesAssumption
<1> QED
  BY <1>1, <1>2 DEF Stride

(***************************************************************************)
(* The addresses of the next instructions in memory, decoded one after     *)
(* another, and the fact that they may be followed from either end.        *)
(***************************************************************************)
IsCode(code) == \A a \in DOMAIN code : code[a] \in Code

InsnStep(code) == [p \in Nat |-> NextInsn(code, p)]

LEMMA InsnStepTyped ==
  ASSUME NEW code, IsCode(code)
  PROVE  /\ InsnStep(code) \in [Nat -> Nat]
         /\ \A p \in Nat : InsnStep(code)[p] = NextInsn(code, p) /\ NextInsn(code, p) \in Nat
<1>1. ASSUME NEW p \in Nat PROVE NextInsn(code, p) \in Nat
  BY DataAssumption DEF NextInsn, IsCode
<1> QED BY <1>1 DEF InsnStep

InsnAt(code) == [p \in Nat |->
                   CHOOSE f \in [Nat -> Nat] : IsIteration(f, Nat, p, InsnStep(code))]

LEMMA InsnAtStep ==
  ASSUME NEW code, IsCode(code), NEW p \in Nat, NEW n \in Nat
  PROVE  /\ InsnAt(code)[p][0] = p
         /\ InsnAt(code)[p][n] \in Nat
         /\ InsnAt(code)[p][n + 1] = NextInsn(code, InsnAt(code)[p][n])
<1>1. PICK f \in [Nat -> Nat] : f = InsnAt(code)[p] /\ IsIteration(f, Nat, p, InsnStep(code))
  BY InsnStepTyped, IterationExists DEF InsnAt
<1>2. f[0] = p /\ n + 1 \in Nat /\ n + 1 # 0 /\ n + 1 - 1 = n
  BY <1>1 DEF IsIteration
<1>3. f[n + 1] = InsnStep(code)[f[n]] /\ f[n] \in Nat
  BY <1>1, <1>2 DEF IsIteration
<1> QED BY <1>1, <1>2, <1>3, InsnStepTyped

LEMMA BothEnds ==
  ASSUME NEW code, IsCode(code), NEW n \in Nat
  PROVE  \A p \in Nat : InsnAt(code)[p][n + 1] = InsnAt(code)[NextInsn(code, p)][n]
<1> DEFINE At(p) == InsnAt(code)[p]
           G == {k \in Nat : \A p \in Nat : At(p)[k + 1] = At(NextInsn(code, p))[k]}
<1>1. /\ \A p \in Nat : NextInsn(code, p) \in Nat
      /\ \A p, k \in Nat : At(p)[0] = p /\ At(p)[k + 1] = NextInsn(code, At(p)[k])
  BY InsnStepTyped, InsnAtStep
<1> HIDE DEF At
<1>2. 0 \in G
  <2>1. ASSUME NEW p \in Nat PROVE At(p)[0 + 1] = At(NextInsn(code, p))[0]
    BY <1>1
  <2> QED BY <2>1
<1>3. ASSUME NEW k \in Nat, k \in G PROVE k + 1 \in G
  <2>1. ASSUME NEW p \in Nat
        PROVE  At(p)[k + 1 + 1] = At(NextInsn(code, p))[k + 1]
    <3>1. At(p)[k + 1 + 1] = NextInsn(code, At(p)[k + 1])
      BY <1>1
    <3>2. At(p)[k + 1] = At(NextInsn(code, p))[k]
      BY <1>3
    <3>3. At(NextInsn(code, p))[k + 1] = NextInsn(code, At(NextInsn(code, p))[k])
      BY <1>1
    <3> QED BY <3>1, <3>2, <3>3
  <2> QED BY <2>1
<1> HIDE DEF G
<1>4. n \in G
  BY <1>2, <1>3, NatInd
<1>5. \A p \in Nat : At(p)[n + 1] = At(NextInsn(code, p))[n]
  BY <1>4 DEF G
<1> QED BY <1>5 DEF At

LEMMA FollowIsInsnAt ==
  ASSUME NEW code, IsCode(code), NEW k \in Nat
  PROVE  \A p \in Nat : Follow(code)[k][p] = InsnAt(code)[p][k]
<1> DEFINE go == Follow(code)
           g == [n \in Nat |-> [p \in Nat |-> InsnAt(code)[p][n]]]
<1>1. g = [n \in Nat |-> [p \in Nat |->
             IF n = 0 THEN p ELSE g[n - 1][NextInsn(code, p)]]]
  <2>1. ASSUME NEW n \in Nat, NEW p \in Nat
        PROVE  InsnAt(code)[p][n] = IF n = 0 THEN p ELSE g[n - 1][NextInsn(code, p)]
    <3>1. CASE n = 0
      BY InsnAtStep, <3>1
    <3>2. CASE n # 0
      <4>1. PICK m \in Nat : n = m + 1 /\ n - 1 = m
        BY <3>2
      <4>2. InsnAt(code)[p][m + 1] = InsnAt(code)[NextInsn(code, p)][m]
        BY BothEnds
      <4>3. NextInsn(code, p) \in Nat
        BY InsnStepTyped
      <4> QED BY <3>2, <4>1, <4>2, <4>3
    <3> QED BY <3>1, <3>2
  <2> QED BY <2>1
<1>2. go = [n \in Nat |-> [p \in Nat |->
              IF n = 0 THEN p ELSE go[n - 1][NextInsn(code, p)]]]
  <2> HIDE DEF g
  <2> QED BY <1>1 DEF Follow
<1> HIDE DEF g, go
<1> DEFINE G == {n \in Nat : \A p \in Nat : go[n][p] = g[n][p]}
<1>3. 0 \in G
  BY <1>1, <1>2
<1>4. ASSUME NEW n \in Nat, n \in G PROVE n + 1 \in G
  <2>1. ASSUME NEW p \in Nat PROVE go[n + 1][p] = g[n + 1][p]
    <3>1. n + 1 \in Nat /\ n + 1 # 0 /\ n + 1 - 1 = n
      OBVIOUS
    <3>2. NextInsn(code, p) \in Nat
      BY InsnStepTyped
    <3>3. go[n + 1][p] = go[n][NextInsn(code, p)]
      BY <1>2, <3>1
    <3>4. g[n + 1][p] = g[n][NextInsn(code, p)]
      BY <1>1, <3>1
    <3> QED BY <1>4, <3>2, <3>3, <3>4
  <2> QED BY <2>1
<1> HIDE DEF G
<1>5. k \in G
  BY <1>3, <1>4, NatInd
<1> QED BY <1>5 DEF G, g, go

(***************************************************************************)
(* _skip_bytes() adds up widths from the pc onwards; the reference follows *)
(* the instructions.  Both land on the same address.                       *)
(***************************************************************************)
LEMMA SkipIsFollow ==
  ASSUME NEW pc \in Nat, NEW k \in SkipWidths, NEW code, IsCode(code)
  PROVE  /\ pc + SkipBytes(code, pc, k) = RefSkip(code, pc, k)
         /\ RefSkip(code, pc, k) \in Nat
<1>1. k \in Nat /\ FixedInsnBytes \in Nat
  BY DataAssumption
<1> USE <1>1
<1>2. CASE FixedInsnBytes # 0
  <2>1. SkipBytes(code, pc, k) = FixedInsnBytes * k
    BY <1>2 DEF SkipBytes
  <2>2. RefSkip(code, pc, k) = pc + FixedInsnBytes * k
    BY <1>2 DEF RefSkip
  <2>3. FixedInsnBytes * k \in Nat
    OBVIOUS
  <2> QED BY <2>1, <2>2, <2>3
<1>3. CASE FixedInsnBytes = 0
  <2> DEFINE IsAt(f) == f = [i \in 0..k |->
               IF i = 0 THEN pc
               ELSE f[i - 1] + (IF f[i - 1] \in DOMAIN code
                                THEN InsnWidth(code[f[i - 1]]) ELSE 0)]
             h == [i \in 0..k |-> InsnAt(code)[pc][i]]
             c == CHOOSE f : IsAt(f)
  <2>1. IsAt(h)
    <3>1. ASSUME NEW i \in 0..k
          PROVE  h[i] = IF i = 0 THEN pc
                        ELSE h[i - 1] + (IF h[i - 1] \in DOMAIN code
                                         THEN InsnWidth(code[h[i - 1]]) ELSE 0)
      <4>1. CASE i = 0
        BY InsnAtStep, <4>1
      <4>2. CASE i # 0
        <5>1. i - 1 \in Nat /\ i - 1 + 1 = i /\ i - 1 \in 0..k
          BY <4>2
        <5>2. InsnAt(code)[pc][i] = NextInsn(code, InsnAt(code)[pc][i - 1])
          BY InsnAtStep, <5>1
        <5>3. InsnAt(code)[pc][i - 1] \in Nat
          BY InsnAtStep, <5>1
        <5>4. InsnAt(code)[pc][i - 1] + 0 = InsnAt(code)[pc][i - 1]
          BY <5>3
        <5> QED BY <4>2, <5>1, <5>2, <5>4 DEF NextInsn
      <4> QED BY <4>1, <4>2
    <3> QED BY <3>1
  <2>2. IsAt(c)
    <3> HIDE DEF h
    <3> QED BY <2>1
  <2>3. SkipBytes(code, pc, k) = IF c[k] = pc THEN 1 ELSE c[k] - pc
    BY <1>3 DEF SkipBytes
  <2> DEFINE G == {i \in Nat : i <= k => c[i] = InsnAt(code)[pc][i]}
  <2> HIDE DEF c, h
  <2>4. 0 \in G
    <3>1. c[0] = pc
      BY <2>2
    <3> QED BY InsnAtStep, <3>1
  <2>5. ASSUME NEW i \in Nat, i \in G PROVE i + 1 \in G
    <3> SUFFICES ASSUME i + 1 <= k PROVE c[i + 1] = InsnAt(code)[pc][i + 1]
      OBVIOUS
    <3>1. i + 1 \in 0..k /\ i + 1 # 0 /\ i + 1 - 1 = i /\ i <= k
      OBVIOUS
    <3>2. c[i + 1] = c[i] + (IF c[i] \in DOMAIN code THEN InsnWidth(code[c[i]]) ELSE 0)
      BY <2>2, <3>1
    <3>3. c[i] = InsnAt(code)[pc][i] /\ InsnAt(code)[pc][i] \in Nat
      BY InsnAtStep, <2>5, <3>1
    <3>4. InsnAt(code)[pc][i] + 0 = InsnAt(code)[pc][i]
      BY <3>3
    <3> QED BY InsnAtStep, <3>2, <3>3, <3>4 DEF NextInsn
  <2> HIDE DEF G
  <2>6. k \in G
    BY <2>4, <2>5, NatInd
  <2>7. c[k] = InsnAt(code)[pc][k] /\ InsnAt(code)[pc][k] \in Nat
    BY <2>6, InsnAtStep DEF G
  <2>8. RefSkip(code, pc, k) = IF InsnAt(code)[pc][k] = pc THEN pc + 1 ELSE InsnAt(code)[pc][k]
    BY <1>3, FollowIsInsnAt DEF RefSkip
  <2> QED BY <2>3, <2>7, <2>8
<1> QED BY <1>2, <1>3

(***************************************************************************)
(* A reset context does not remember the pc it was made from.              *)
(***************************************************************************)
LEMMA ResetTyped ==
  ASSUME NEW c \in Context
  PROVE  ResetCtx(c) \in ResetContexts /\ ResetCtx(c) \in Context
<1> DEFINE d == [pc |-> Entry, regs |-> c.regs]
<1>1. d \in [pc : {Entry}, regs : [Reg -> Word]]
  BY DEF Context
<1>2. ResetCtx(c) = ResetCtx(d)
  BY DEF ResetCtx
<1>3. ResetCtx(c) \in ResetContexts
  BY <1>1, <1>2 DEF ResetContexts
<1>4. [r \in Reg |-> IF r = SpReg THEN InitialSp
                     ELSE IF r \in ZeroRegs THEN 0 ELSE c.regs[r]] \in [Reg -> Word]
  BY DataAssumption DEF Context
<1> QED BY <1>3, <1>4, DataAssumption DEF ResetCtx, Context

(***************************************************************************)
(* One instruction, with any window and with a blank one.                  *)
(***************************************************************************)
LEMMA MappedIs ==
  /\ Blank \in WindowImage
  /\ FlashCell \subseteq Mapped /\ RamCell \subseteq Mapped /\ WindowCell \subseteq Mapped
  BY DataAssumption DEF Blank, WindowImage, Mapped

LEMMA ExecFacts ==
  ASSUME NEW c \in Context, NEW m \in RamImage, NEW w \in WindowImage,
         NEW op \in Code, c.pc \in Mapped
  PROVE  LET e == Exec(c, m, w, op)
             blank == Exec(c, m, Blank, op)
         IN  /\ e.ctx \in Context
             /\ e.ram \in RamImage
             /\ e.window \in WindowImage
             /\ e.stray \subseteq FlashCell
             /\ e.marks \in Nat
             /\ e.event \in {"run", "halt", "trap"}
             /\ e.peeks = blank.peeks
             /\ ~blank.peeks => /\ e.ctx = blank.ctx /\ e.ram = blank.ram
                                /\ e.stray = blank.stray /\ e.event = blank.event
<1> DEFINE e == Exec(c, m, w, op)
           blank == Exec(c, m, Blank, op)
<1>1. c = [pc |-> c.pc, regs |-> c.regs] /\ c.regs \in [Reg -> Word]
  BY DEF Context
<1>2. /\ e.ctx \in Context
      /\ e.ram \in RamImage
      /\ e.window \in WindowImage
      /\ e.stray \subseteq FlashCell
      /\ e.marks \in Nat
      /\ e.event \in {"run", "halt", "trap"}
      /\ e.peeks = blank.peeks
      /\ ~blank.peeks => Visible(e) = Visible(blank)
  BY <1>1, ExecAssumption
<1> HIDE DEF e, blank
<1>3. Visible(e) = Visible(blank) =>
        /\ e.ctx = blank.ctx /\ e.ram = blank.ram
        /\ e.stray = blank.stray /\ e.event = blank.event
  BY DEF Visible
<1> QED BY <1>2, <1>3 DEF e, blank

(***************************************************************************)
(* The memory around an address, as code.                                  *)
(***************************************************************************)
LEMMA AroundIs ==
  ASSUME NEW pc, NEW m \in RamImage, NEW w \in WindowImage, NEW f \in [FlashCell -> Code]
  PROVE  /\ IsCode(Around(pc, m, w, f))
         /\ pc \in Mapped => Around(pc, m, w, f)[pc] \in Code
         /\ pc \notin WindowCell /\ pc \in Mapped =>
              Around(pc, m, w, f) = Around(pc, m, Blank, f)
<1>1. IsCode(AsCodes(m)) /\ DOMAIN AsCodes(m) = RamCell
  BY XorAssumption DEF AsCodes, RamImage, IsCode
<1>2. IsCode(AsCodes(w)) /\ DOMAIN AsCodes(w) = WindowCell
  BY XorAssumption DEF AsCodes, WindowImage, IsCode
<1>3. IsCode(f) /\ DOMAIN f = FlashCell
  BY DEF IsCode
<1> QED BY <1>1, <1>2, <1>3 DEF Around, Mapped, IsCode

(***************************************************************************)
(* One instruction of the golden run.                                      *)
(***************************************************************************)
LEMMA GoldenStep ==
  ASSUME NEW r \in ResetContexts, NEW n \in 0..(GoldenLength - 1),
         NEW c, NEW m, [ctx |-> c, ram |-> m] = Golden[r][n], NEW w \in WindowImage,
         NEW e, e = Exec(c, m, w, FlashImage[c.pc])
  PROVE  /\ c.pc \in FlashCell
         /\ e.stray = {} /\ ~e.peeks
         /\ e.event = IF n = GoldenLength - 1 THEN "halt" ELSE "run"
         /\ [ctx |-> e.ctx, ram |-> e.ram] = Golden[r][n + 1]
<1> DEFINE b == Exec(c, m, Blank, FlashImage[c.pc])
<1>1. Golden[r][n].ctx = c /\ Golden[r][n].ram = m
  <2>1. [ctx |-> c, ram |-> m].ctx = c /\ [ctx |-> c, ram |-> m].ram = m
    OBVIOUS
  <2> QED BY <2>1
<1>2. /\ c.pc \in FlashCell
      /\ b.stray = {} /\ ~b.peeks
      /\ b.event = IF n = GoldenLength - 1 THEN "halt" ELSE "run"
      /\ Golden[r][n + 1] = [ctx |-> b.ctx, ram |-> b.ram]
  BY <1>1, GoldenAssumption
<1>3. c \in Context /\ m \in RamImage /\ FlashImage[c.pc] \in Code /\ c.pc \in Mapped
  <2>1. n \in 0..GoldenLength
    BY SizesAssumption
  <2>2. Golden[r][n] \in State
    BY <2>1, GoldenAssumption, Zenon
  <2>3. c \in Context /\ m \in RamImage
    BY <1>1, <2>2 DEF State
  <2> QED BY <1>2, <2>3, DataAssumption, MappedIs
<1>4. /\ e.peeks = b.peeks
      /\ ~b.peeks => /\ e.ctx = b.ctx /\ e.ram = b.ram
                     /\ e.stray = b.stray /\ e.event = b.event
  BY <1>3, ExecFacts
<1> HIDE DEF b
<1> QED BY <1>2, <1>4

-----------------------------------------------------------------------------
(***************************************************************************)
(* Type correctness, one lemma per group of actions.                       *)
(***************************************************************************)
LEMMA InitTyped == Init => TypeOK
<1> SUFFICES ASSUME Init PROVE TypeOK
  OBVIOUS
<1>1. ctx \in Context /\ ram \in RamImage /\ flash \in [FlashCell -> Code]
  BY DataAssumption DEF Init, RamImage
<1>2. emu \in [limit : Nat, done : Nat, error : BOOLEAN] /\ window \in WindowImage
  BY MappedIs DEF Init, Idle
<1>3. ladder \in Seq(Snapshots) /\ cur \in Seq(Fault) /\ todo \in Seq(Fault)
  BY DEF Init
<1> QED BY <1>1, <1>2, <1>3 DEF Init, TypeOK

LEMMA ExecTyped ==
  ASSUME TypeOK, ctx.pc \in Mapped
  PROVE  LET e == Exec(ctx, ram, window, Memory[ctx.pc])
         IN  /\ e.ctx \in Context
             /\ e.ram \in RamImage
             /\ e.window \in WindowImage
             /\ e.stray \subseteq FlashCell
             /\ e.marks \in Nat
             /\ e.event \in {"run", "halt", "trap"}
<1>1. /\ ctx \in Context /\ ram \in RamImage /\ window \in WindowImage
      /\ flash \in [FlashCell -> Code]
  BY DEF TypeOK
<1>2. Memory[ctx.pc] \in Code
  BY <1>1, AroundIs DEF Memory
<1> QED BY <1>1, <1>2, ExecFacts

(***************************************************************************)
(* While the mapping is not writable the CPU cannot change flash.          *)
(***************************************************************************)
LEMMA ExecuteKeepsFlash == TypeOK /\ Execute => flash' = flash
<1> SUFFICES ASSUME TypeOK, Execute PROVE flash' = flash
  OBVIOUS
<1>1. CASE ctx.pc \notin Mapped
  BY <1>1 DEF Execute, Trap, cpu
<1>2. CASE ctx.pc \in Mapped
  <2> DEFINE e == Exec(ctx, ram, window, Memory[ctx.pc])
  <2>1. CASE Trap
    BY <2>1 DEF Trap, cpu
  <2>2. CASE Retire(e) /\ e.stray = {}
    BY <2>2 DEF Retire, TypeOK
  <2>3. Trap \/ (Retire(e) /\ e.stray = {})
    BY <1>2 DEF Execute, FlashPerms
  <2> QED BY <2>1, <2>2, <2>3
<1> QED BY <1>1, <1>2

LEMMA ExecuteTyped == TypeOK /\ Execute => TypeOK'
<1> SUFFICES ASSUME TypeOK, Execute PROVE TypeOK'
  OBVIOUS
<1>1. flash' = flash
  BY ExecuteKeepsFlash
<1>2. UNCHANGED <<phase, instr, ladder, cur, todo>>
  BY DEF Execute, worker, job
<1>3. CASE Trap
  BY <1>2, <1>3 DEF TypeOK, Trap, cpu
<1>4. CASE ctx.pc \in Mapped /\ Retire(Exec(ctx, ram, window, Memory[ctx.pc]))
  <2> DEFINE e == Exec(ctx, ram, window, Memory[ctx.pc])
  <2>1. e.ctx \in Context /\ e.ram \in RamImage /\ e.window \in WindowImage /\ e.marks \in Nat
    BY <1>4, ExecTyped
  <2>2. /\ ctx' = e.ctx /\ ram' = e.ram /\ window' = e.window
        /\ halted' \in BOOLEAN /\ marks' = marks + e.marks
    BY <1>4 DEF Retire
  <2>3. emu' \in [limit : Nat, done : Nat, error : BOOLEAN]
    <3>1. emu' = [emu EXCEPT !.done = IF emu.limit = 0 THEN 0 ELSE emu.done + 1]
      BY <1>4 DEF Retire
    <3>2. emu \in [limit : Nat, done : Nat, error : BOOLEAN]
      BY DEF TypeOK
    <3>3. (IF emu.limit = 0 THEN 0 ELSE emu.done + 1) \in Nat
      BY <3>2
    <3> QED BY <3>1, <3>2, <3>3
  <2> QED BY <1>1, <1>2, <2>1, <2>2, <2>3 DEF TypeOK
<1> QED BY <1>3, <1>4 DEF Execute

(***************************************************************************)
(* emu_start's record is well formed when its count is a number, and so is *)
(* the state that reset() and restore() leave.                             *)
(***************************************************************************)
EmuType == [limit : Nat, done : Nat, error : BOOLEAN]

LEMMA EmuTyped ==
  /\ \A n \in Nat : EmuStart(n) => emu' \in EmuType
  /\ emu' = Idle => emu' \in EmuType
  /\ emu' = [Idle EXCEPT !.done = 1] => emu' \in EmuType
  /\ emu' = [Idle EXCEPT !.error = TRUE] => emu' \in EmuType
<1>1. \A n \in Nat : [limit |-> n, done |-> 0, error |-> FALSE] \in EmuType
  BY DEF EmuType
<1>2. Idle \in EmuType
  BY DEF EmuType, Idle
<1>3. [Idle EXCEPT !.done = 1] \in EmuType
  BY DEF EmuType, Idle
<1>4. [Idle EXCEPT !.error = TRUE] \in EmuType
  BY DEF EmuType, Idle
<1> QED BY <1>1, <1>2, <1>3, <1>4 DEF EmuStart

LEMMA ResetKeepsType ==
  ASSUME TypeOK, Reset
  PROVE  /\ ctx' = ResetCtx(ctx) /\ ctx' \in Context /\ ctx' \in ResetContexts
         /\ ram' = ResetRam /\ ram' \in RamImage
         /\ flash' = FlashImage /\ flash' \in [FlashCell -> Code]
         /\ window' = window /\ window' \in WindowImage
         /\ halted' = FALSE /\ marks' = 0 /\ instr' = 0
<1>1. ctx \in Context /\ window \in WindowImage
  BY DEF TypeOK
<1> QED BY <1>1, ResetTyped, DataAssumption DEF Reset

LEMMA SetupTyped ==
  ASSUME TypeOK, StartTrace \/ EndTrace \/ StartLadder \/ Rung \/ EndLadder
  PROVE  TypeOK'
<1> USE DEF EmuType
<1>1. CASE StartTrace
  <2>1. Reset /\ emu' \in EmuType /\ phase' = "tracing"
        /\ UNCHANGED <<ladder, cur, todo>>
    BY <1>1, BudgetNat, EmuTyped DEF StartTrace, worker, job
  <2>2. /\ ctx' \in Context /\ ram' \in RamImage /\ flash' \in [FlashCell -> Code]
        /\ window' \in WindowImage /\ halted' = FALSE /\ marks' = 0 /\ instr' = 0
    BY <2>1, ResetKeepsType
  <2> QED BY <2>1, <2>2 DEF TypeOK
<1>2. CASE EndTrace
  BY <1>2 DEF EndTrace, TypeOK, cpu, job
<1>3. CASE StartLadder
  <2>1. Reset /\ emu' \in EmuType /\ phase' \in {"ready", "climbing"}
        /\ UNCHANGED <<cur, todo>>
    BY <1>3, BudgetNat, EmuTyped DEF StartLadder, job
  <2>2. /\ ctx' \in Context /\ ram' \in RamImage /\ flash' \in [FlashCell -> Code]
        /\ window' \in WindowImage /\ halted' = FALSE /\ marks' = 0 /\ instr' = 0
    BY <2>1, ResetKeepsType
  <2>3. ladder' \in Seq(Snapshots)
    BY <1>3, <2>2 DEF StartLadder, Snapshots
  <2> QED BY <2>1, <2>2, <2>3 DEF TypeOK
<1>4. CASE Rung
  <2>1. instr' \in Nat
    BY <1>4 DEF Rung, TypeOK
  <2>2. [count |-> instr', ctx |-> ctx, ram |-> ram] \in Snapshots
    BY <2>1 DEF TypeOK, Snapshots
  <2>3. ladder' \in Seq(Snapshots)
    <3>1. [Snapshot EXCEPT !.count = instr'] =
            [count |-> instr', ctx |-> ctx, ram |-> ram]
      BY DEF Snapshot
    <3>2. ladder' = Append(ladder, [count |-> instr', ctx |-> ctx, ram |-> ram])
      BY <1>4, <3>1 DEF Rung
    <3>3. ladder \in Seq(Snapshots)
      BY DEF TypeOK
    <3> QED BY <2>2, <3>2, <3>3
  <2>4. emu' \in EmuType /\ phase' \in {"ready", "climbing"}
        /\ UNCHANGED <<ctx, ram, window, flash, halted, marks, cur, todo>>
    BY <1>4, BudgetNat, EmuTyped DEF Rung, cpu, job
  <2> QED BY <2>1, <2>3, <2>4 DEF TypeOK
<1>5. CASE EndLadder
  BY <1>5, EmuTyped DEF EndLadder, TypeOK, cpu, meters, worker, job
<1> QED BY <1>1, <1>2, <1>3, <1>4, <1>5

LEMMA RunTyped ==
  ASSUME TypeOK, NEW fs \in FaultSets, RunOne(fs)
  PROVE  TypeOK'
<1>1. PICK i \in 1..Len(ladder) : Restore(ladder[i])
  BY DEF RunOne
<1>2. ladder[i] \in Snapshots
  BY DEF TypeOK
<1>3. ctx' \in Context /\ ram' \in RamImage /\ instr' \in Nat
      /\ halted' = FALSE /\ marks' = 0 /\ flash' = flash /\ window' = window
  BY <1>1, <1>2 DEF Restore, Snapshots
<1>4. emu' \in EmuType
  BY EmuTyped DEF RunOne
<1>5. cur' \in Seq(Fault) /\ todo' \in Seq(Fault)
  BY FaultsAssumption DEF RunOne
<1> QED BY <1>3, <1>4, <1>5 DEF RunOne, TypeOK, EmuType, worker

LEMMA LoopTyped ==
  ASSUME TypeOK, Advance \/ Arrive \/ Finish \/ Return
  PROVE  TypeOK'
<1> USE DEF EmuType
<1>1. CASE Advance
  <2>1. PICK n \in Int : /\ n = Head(todo).trigger - instr
                        /\ \/ NoAdvance(n) /\ phase' = "applying" /\ emu' = Idle
                           \/ ~NoAdvance(n) /\ phase' = "advancing" /\ EmuStart(n)
    <3>1. Head(todo).trigger \in Nat
      BY <1>1, FaultFields DEF Advance, TypeOK
    <3> QED BY <1>1, <3>1 DEF Advance, TypeOK
  <2>2. emu' \in EmuType
    BY <2>1, EmuTyped DEF NoAdvance
  <2> QED BY <1>1, <2>1, <2>2 DEF Advance, TypeOK, cpu, meters, worker, job
<1>2. CASE Arrive
  BY <1>2, EmuTyped DEF Arrive, TypeOK, cpu, worker, job
<1>3. CASE Finish
  <2>1. emu' \in EmuType
    <3>1. CASE Budget - instr > 0
      <4>1. Budget - instr \in Nat
        BY <3>1, BudgetNat DEF TypeOK
      <4> QED BY <1>3, <3>1, <4>1, EmuTyped DEF Finish
    <3>2. CASE ~(Budget - instr > 0)
      BY <1>3, <3>2, EmuTyped DEF Finish
    <3> QED BY <3>1, <3>2
  <2> QED BY <1>3, <2>1 DEF Finish, TypeOK, cpu, meters, worker, job
<1>4. CASE Return
  <2>1. instr' \in Nat
    BY <1>4, BudgetNat DEF Return, TypeOK
  <2> QED BY <1>4, <2>1, EmuTyped DEF Return, TypeOK, cpu, worker
<1> QED BY <1>1, <1>2, <1>3, <1>4

(***************************************************************************)
(* The fault about to be applied is one of the campaign's, so it spares    *)
(* flash.                                                                  *)
(***************************************************************************)
LEMMA NextFault ==
  ASSUME SpareFlash, TypeOK, JobInv, Running, todo # <<>>
  PROVE  /\ Head(todo) = todo[1] /\ todo[1] \in Fault
         /\ todo[1].model # "OPCODE_XOR"
         /\ todo[1].model = "MEM_XOR" => todo[1].target \notin FlashCell
<1>1. todo \in Seq(Fault) /\ Len(todo) \in Nat /\ Len(todo) > 0 /\ Head(todo) = todo[1]
  BY DEF TypeOK
<1>2. todo[1] \in Fault
  BY <1>1
<1>3. cur \in FaultSets /\ cur \in Seq(Fault) /\ Len(cur) \in Nat
  BY DEF JobInv, TypeOK
<1>4. todo[1] = cur[Len(cur) - Len(todo) + 1]
  BY <1>1 DEF JobInv
<1>5. Len(cur) - Len(todo) + 1 \in 1..Len(cur)
  BY <1>1, <1>3 DEF JobInv
<1> QED BY <1>1, <1>2, <1>3, <1>4, <1>5 DEF SpareFlash

LEMMA XorTyped ==
  ASSUME TypeOK, NEW a \in Mapped, NEW v \in Word, XorCell(a, v)
  PROVE  /\ ram' \in RamImage /\ window' \in WindowImage
         /\ a \notin FlashCell => flash' = flash
<1>1. /\ ram \in [RamCell -> Word] /\ window \in [WindowCell -> Word]
      /\ flash \in [FlashCell -> Code]
  BY DEF TypeOK, RamImage, WindowImage
<1>2. /\ \A b \in RamCell : XorWord(ram[b], v) \in Word
      /\ \A b \in WindowCell : XorWord(window[b], v) \in Word
  BY <1>1, XorAssumption
<1> QED BY <1>1, <1>2 DEF XorCell, RamImage, WindowImage

LEMMA ApplyTyped ==
  ASSUME SpareFlash, TypeOK, FlashIntact, JobInv, Apply
  PROVE  TypeOK' /\ flash' = flash
<1> DEFINE f == Head(todo)
<1>1. phase = "applying" /\ todo # <<>> /\ Running /\ flash = FlashImage
  BY DEF Apply, JobInv, Running, FlashIntact
<1>2. /\ f = todo[1] /\ f \in Fault
      /\ f.model # "OPCODE_XOR"
      /\ f.model = "MEM_XOR" => f.target \notin FlashCell
  BY <1>1, NextFault
<1>3. /\ todo' = Tail(todo) /\ emu' \in EmuType
      /\ phase' \in {"finishing", "looping"}
      /\ UNCHANGED <<halted, marks, instr, ladder, cur>>
  BY EmuTyped DEF Apply, meters, worker
<1>4. todo' \in Seq(Fault)
  BY <1>1, <1>3 DEF TypeOK
<1>5. /\ ctx' \in Context /\ ram' \in RamImage /\ window' \in WindowImage
      /\ flash' = flash
  <2>1. CASE ReadsUnmapped(f)
    BY <2>1 DEF Apply, cpu, TypeOK
  <2>2. CASE ApplySkip(f) /\ ~ReadsUnmapped(f)
    <3>1. f.model = "SKIP" /\ f.value \in SkipWidths /\ ctx.pc \in Nat
      BY <2>2, <1>2, FaultFields DEF ApplySkip, TypeOK, Context
    <3>2. IsCode(Memory)
      BY AroundIs DEF TypeOK, Memory
    <3>3. ctx.pc + SkipBytes(Memory, ctx.pc, f.value) \in Nat
      BY <3>1, <3>2, SkipIsFollow
    <3>4. ctx' = [ctx EXCEPT !.pc = ctx.pc + SkipBytes(Memory, ctx.pc, f.value)]
      BY <2>2 DEF ApplySkip
    <3>5. ctx' \in Context
      BY <3>3, <3>4 DEF TypeOK, Context
    <3> QED BY <2>2, <3>5 DEF ApplySkip, TypeOK
  <2>3. CASE ApplyReg(f)
    <3>1. f.target \in Reg /\ f.value \in Word
      BY <2>3, <1>2, FaultFields DEF ApplyReg
    <3>2. ctx.regs \in [Reg -> Word] /\ ctx.pc \in Nat
      BY DEF TypeOK, Context
    <3>3. XorWord(ctx.regs[f.target], f.value) \in Word
      BY <3>1, <3>2, XorAssumption
    <3>4. PICK v \in Word : ctx' = [ctx EXCEPT !.regs[f.target] = v]
      BY <2>3, <3>1, <3>3 DEF ApplyReg
    <3>5. ctx' \in Context
      BY <3>2, <3>4 DEF TypeOK, Context
    <3> QED BY <2>3, <3>5 DEF ApplyReg, TypeOK
  <2>4. CASE ApplyMem(f) /\ ~ReadsUnmapped(f)
    <3>1. f.target \in Mapped /\ f.value \in Word /\ f.target \notin FlashCell
      BY <2>4, <1>2, FaultFields DEF ApplyMem, ReadsUnmapped
    <3>2. XorCell(f.target, f.value) /\ ctx' = ctx
      BY <2>4 DEF ApplyMem
    <3> QED BY <3>1, <3>2, XorTyped DEF TypeOK
  <2>5. ~ApplyOpcode(f)
    BY <1>2 DEF ApplyOpcode
  <2> QED BY <2>1, <2>2, <2>3, <2>4, <2>5 DEF Apply
<1> QED BY <1>3, <1>4, <1>5 DEF TypeOK, EmuType

-----------------------------------------------------------------------------
(***************************************************************************)
(* The inductive step, one lemma per group of actions.  Facts that do not  *)
(* mention the CPU carry over when the ladder is unchanged.                *)
(***************************************************************************)
LEMMA LadderKept ==
  ASSUME ControlInv, UNCHANGED ladder, Running' \/ phase' \in {"ready", "dead"},
         Running \/ phase \in {"climbing", "ready"}
  PROVE  LadderInv' /\ RungsOnGolden'
<1>1. phase' \notin {"spawned", "tracing", "traced"}
  BY DEF Running
<1>2. /\ ladder # <<>> /\ ladder[1].count = 0 /\ ladder[1].ctx \in ResetContexts
      /\ \A i \in 1..Len(ladder) : ladder[i].count < GoldenLength
  BY DEF ControlInv, LadderInv
<1>3. LadderInv'
  BY <1>1, <1>2 DEF LadderInv
<1>4. RungsOnGolden'
  BY DEF ControlInv, RungsOnGolden, OnGolden
<1> QED BY <1>3, <1>4

LEMMA ExecuteInv == ControlInv /\ Execute => ControlInv'
<1> SUFFICES ASSUME ControlInv, Execute PROVE ControlInv'
  OBVIOUS
<1>1. TypeOK' /\ flash' = flash
  BY ExecuteTyped, ExecuteKeepsFlash DEF ControlInv
<1>2. /\ UNCHANGED <<phase, instr, ladder, cur, todo>>
      /\ phase \in {"tracing", "climbing", "advancing", "finishing"}
      /\ ~halted /\ ~emu.error /\ ~(emu.limit # 0 /\ emu.done = emu.limit)
  BY DEF Execute, worker, job, Emulating, Returned
<1>3. emu'.limit = emu.limit
  BY DEF Execute, Trap, Retire, ControlInv, TypeOK
<1>4. FlashIntact' /\ LadderInv' /\ RungsOnGolden'
  BY <1>1, <1>2 DEF ControlInv, FlashIntact, LadderInv, RungsOnGolden, OnGolden, Running
<1>5. JobInv'
  BY <1>2, <1>3 DEF ControlInv, JobInv, Running
<1>6. TrackInv'
  <2>1. SUFFICES ASSUME phase = "climbing" \/ Unfaulted PROVE OnTrack'
    BY <1>2, <1>3 DEF ControlInv, TrackInv, Unfaulted
  <2> DEFINE n == instr + emu.done
             r == ladder[1].ctx
             e == Exec(ctx, ram, window, Memory[ctx.pc])
  <2>2. phase \in {"climbing", "advancing"} /\ emu.limit > 0
    BY <1>2, <2>1 DEF ControlInv, TrackInv, JobInv, Unfaulted, Running
  <2>3. OnTrack
    BY <2>1 DEF ControlInv, TrackInv
  <2>4. r \in ResetContexts /\ flash = FlashImage
    BY <2>2 DEF ControlInv, LadderInv, FlashIntact, Running
  <2>5. n \in 0..(GoldenLength - 1) /\ [ctx |-> ctx, ram |-> ram] = Golden[r][n]
    <3>1. n \in 0..GoldenLength /\ n # GoldenLength
      BY <1>2, <2>3 DEF OnTrack, OnGolden
    <3> QED BY <2>3, <3>1, SizesAssumption DEF OnTrack, OnGolden
  <2>6. /\ ctx.pc \in FlashCell /\ ctx.pc \in Mapped
        /\ e.stray = {}
        /\ e.event = IF n = GoldenLength - 1 THEN "halt" ELSE "run"
        /\ [ctx |-> e.ctx, ram |-> e.ram] = Golden[r][n + 1]
    <3> DEFINE g == Exec(ctx, ram, window, FlashImage[ctx.pc])
    <3>1. window \in WindowImage
      BY DEF ControlInv, TypeOK
    <3>2. /\ ctx.pc \in FlashCell /\ g.stray = {}
          /\ g.event = IF n = GoldenLength - 1 THEN "halt" ELSE "run"
          /\ [ctx |-> g.ctx, ram |-> g.ram] = Golden[r][n + 1]
      <4> HIDE DEF n, r, g
      <4>1. g = Exec(ctx, ram, window, FlashImage[ctx.pc])
        BY DEF g
      <4> QED BY <2>4, <2>5, <3>1, <4>1, GoldenStep
    <3>3. e = g
      BY <2>4, <3>2 DEF Memory, Around
    <3> HIDE DEF e, g
    <3> QED BY <3>2, <3>3, MappedIs
  <2>7. Retire(e)
    BY <2>6 DEF Execute
  <2>8. emu' = [emu EXCEPT !.done = emu.done + 1]
    BY <2>2, <2>7 DEF Retire, ControlInv, TypeOK
  <2>9. emu'.done = emu.done + 1 /\ ~emu'.error
    BY <1>2, <2>8 DEF ControlInv, TypeOK
  <2>10. instr' + emu'.done = n + 1 /\ n + 1 \in 0..GoldenLength
    BY <1>2, <2>5, <2>9, SizesAssumption DEF ControlInv, TypeOK
  <2>11. OnGolden(ctx, ram, instr + emu.done)'
    BY <1>2, <2>6, <2>7, <2>10 DEF Retire, OnGolden
  <2>12. halted' <=> n + 1 = GoldenLength
    <3>1. n = GoldenLength - 1 <=> n + 1 = GoldenLength
      BY <2>5, SizesAssumption
    <3>2. e.event = "halt" <=> n = GoldenLength - 1
      BY <2>6
    <3>3. halted' = (e.event = "halt")
      BY <2>7 DEF Retire
    <3> QED BY <3>1, <3>2, <3>3
  <2> QED BY <2>9, <2>10, <2>11, <2>12 DEF OnTrack
<1> QED BY <1>1, <1>4, <1>5, <1>6 DEF ControlInv

(***************************************************************************)
(* _init_worker(): the first rung is the reset itself, and every further   *)
(* rung is taken on the golden run before it halts.                        *)
(***************************************************************************)
LEMMA StartLadderInv == ControlInv /\ StartLadder => ControlInv'
<1> SUFFICES ASSUME ControlInv, StartLadder PROVE ControlInv'
  OBVIOUS
<1>1. TypeOK'
  BY SetupTyped DEF ControlInv
<1>2. /\ ctx' \in ResetContexts /\ ctx' = ResetCtx(ctx) /\ ram' = ResetRam
      /\ flash' = FlashImage /\ halted' = FALSE /\ instr' = 0
  BY ResetKeepsType DEF StartLadder, ControlInv
<1>3. ladder' = <<[count |-> 0, ctx |-> ctx', ram |-> ram']>>
      /\ phase' \in {"ready", "climbing"}
  BY DEF StartLadder
<1>4. /\ Len(ladder') = 1 /\ ladder' # <<>>
      /\ ladder'[1].count = 0 /\ ladder'[1].ctx = ctx' /\ ladder'[1].ram = ram'
  BY <1>3
<1>5. [ctx |-> ctx', ram |-> ram'] = Golden[ctx'][0]
  BY <1>2, GoldenAssumption
<1>6. LadderInv' /\ RungsOnGolden'
  BY <1>2, <1>3, <1>4, <1>5, SizesAssumption
  DEF LadderInv, RungsOnGolden, OnGolden, Running
<1>7. TrackInv'
  <2>1. SUFFICES ASSUME phase' = "climbing" PROVE OnTrack' /\ emu'.limit > 0
    BY <1>3 DEF TrackInv, Unfaulted
  <2>2. emu' = [limit |-> Stride, done |-> 0, error |-> FALSE]
    BY <2>1 DEF StartLadder, EmuStart
  <2>3. emu'.limit > 0 /\ emu'.done = 0 /\ ~emu'.error
    BY <2>2, BudgetNat
  <2> QED BY <1>2, <1>4, <1>5, <2>3, SizesAssumption DEF OnTrack, OnGolden
<1> QED BY <1>1, <1>2, <1>3, <1>6, <1>7 DEF ControlInv, FlashIntact, JobInv, Running

LEMMA RungInv == ControlInv /\ Rung => ControlInv'
<1> SUFFICES ASSUME ControlInv, Rung PROVE ControlInv'
  OBVIOUS
<1>1. TypeOK'
  BY SetupTyped DEF ControlInv
<1> DEFINE s == [count |-> instr', ctx |-> ctx, ram |-> ram]
<1>2. /\ UNCHANGED <<ctx, ram, flash, halted, cur, todo>>
      /\ phase = "climbing" /\ phase' \in {"ready", "climbing"}
      /\ ~halted /\ ~emu.error /\ emu.done = emu.limit
      /\ instr' = instr + emu.limit
  BY DEF Rung, Returned, cpu, job
<1>3. ladder' = Append(ladder, s)
  BY DEF Rung, Snapshot
<1>4. s \in Snapshots /\ ladder \in Seq(Snapshots) /\ Len(ladder) \in Nat
  BY <1>1, <1>2 DEF Snapshots, TypeOK, ControlInv
<1>5. /\ Len(ladder') = Len(ladder) + 1
      /\ \A i \in 1..Len(ladder) : ladder'[i] = ladder[i]
      /\ ladder'[Len(ladder) + 1] = s
  BY <1>3, <1>4
<1>6. /\ ladder # <<>> /\ ladder[1].count = 0 /\ ladder[1].ctx \in ResetContexts
      /\ \A i \in 1..Len(ladder) : ladder[i].count < GoldenLength
  BY <1>2 DEF ControlInv, LadderInv
<1>7. Len(ladder) >= 1 /\ ladder'[1] = ladder[1] /\ ladder' # <<>>
  BY <1>4, <1>5, <1>6
<1>8. OnTrack /\ instr + emu.done = instr'
  BY <1>2 DEF ControlInv, TrackInv
<1>9. OnGolden(ctx, ram, instr') /\ instr' < GoldenLength
  <2>1. instr' \in 0..GoldenLength /\ instr' # GoldenLength
    BY <1>2, <1>8 DEF OnTrack, OnGolden
  <2> QED BY <1>8, <2>1, SizesAssumption DEF OnTrack
<1>10. LadderInv'
  BY <1>2, <1>4, <1>5, <1>6, <1>7, <1>9 DEF LadderInv
<1>11. RungsOnGolden'
  BY <1>4, <1>5, <1>7, <1>9 DEF ControlInv, RungsOnGolden, OnGolden
<1>12. TrackInv'
  <2>1. SUFFICES ASSUME phase' = "climbing" PROVE OnTrack' /\ emu'.limit > 0
    BY <1>2 DEF TrackInv, Unfaulted
  <2>2. emu' = [limit |-> Stride, done |-> 0, error |-> FALSE]
    BY <2>1 DEF Rung, EmuStart
  <2>3. emu'.limit > 0 /\ emu'.done = 0 /\ ~emu'.error
    BY <2>2, BudgetNat
  <2>4. instr' + emu'.done = instr' /\ instr' # GoldenLength
    <3>1. instr' \in Nat
      BY <1>1 DEF TypeOK
    <3>2. \A x \in Nat : x + 0 = x
      OBVIOUS
    <3>3. GoldenLength \in Nat /\ instr' < GoldenLength
      BY <1>9, SizesAssumption
    <3>4. instr' + emu'.done = instr' + 0
      BY <2>3, Zenon
    <3>5. instr' + 0 = instr'
      BY <3>1, <3>2, Zenon
    <3>6. instr' # GoldenLength
      BY <3>1, <3>3
    <3> QED BY <3>4, <3>5, <3>6, Zenon
  <2> QED BY <1>2, <1>7, <1>9, <2>3, <2>4 DEF OnTrack, OnGolden
<1> QED BY <1>1, <1>2, <1>10, <1>11, <1>12 DEF ControlInv, FlashIntact, JobInv, Running

LEMMA SetupInv ==
  ASSUME ControlInv, StartTrace \/ EndTrace \/ StartLadder \/ Rung \/ EndLadder
  PROVE  ControlInv'
<1>1. TypeOK'
  BY SetupTyped DEF ControlInv
<1>2. CASE StartTrace
  <2>1. phase' = "tracing" /\ flash' = FlashImage /\ UNCHANGED ladder
        /\ phase = "spawned"
    BY <1>2 DEF StartTrace, Reset, worker
  <2>2. ladder = <<>>
    BY <2>1 DEF ControlInv, LadderInv
  <2> QED BY <1>1, <2>1, <2>2
      DEF ControlInv, FlashIntact, LadderInv, RungsOnGolden, TrackInv, Unfaulted, JobInv, Running
<1>3. CASE EndTrace
  <2>1. phase' = "traced" /\ phase = "tracing" /\ UNCHANGED <<ladder, flash>>
    BY <1>3 DEF EndTrace, cpu
  <2>2. ladder = <<>>
    BY <2>1 DEF ControlInv, LadderInv
  <2> QED BY <1>1, <2>1, <2>2
      DEF ControlInv, FlashIntact, LadderInv, RungsOnGolden, TrackInv, Unfaulted, JobInv, Running
<1>4. CASE EndLadder
  <2>1. phase = "climbing" /\ phase' \in {"dead", "ready"} /\ UNCHANGED <<ladder, flash>>
    BY <1>4 DEF EndLadder, cpu, worker
  <2>2. LadderInv' /\ RungsOnGolden'
    BY <2>1, LadderKept DEF Running
  <2> QED BY <1>1, <2>1, <2>2
      DEF ControlInv, FlashIntact, TrackInv, Unfaulted, JobInv, Running
<1> QED BY <1>2, <1>3, <1>4, StartLadderInv, RungInv

(***************************************************************************)
(* _run_one(): the restored rung is at or before the first trigger, so it  *)
(* stands for the golden run up to there.                                  *)
(***************************************************************************)
LEMMA RunInv ==
  ASSUME ControlInv, NEW fs \in FaultSets, RunOne(fs)
  PROVE  ControlInv'
<1>1. TypeOK'
  BY RunTyped DEF ControlInv
<1>2. PICK i \in 1..Len(ladder) :
        IsNearestRung(i, fs[1].trigger) /\ Restore(ladder[i])
  BY DEF RunOne
<1>3. /\ phase = "ready" /\ phase' = "looping" /\ UNCHANGED <<ladder, flash>>
      /\ cur' = fs /\ todo' = fs /\ emu' = Idle
  BY <1>2 DEF RunOne, worker, Restore
<1>4. LadderInv' /\ RungsOnGolden'
  BY <1>3, LadderKept DEF Running
<1>5. ladder # <<>> /\ ladder[1].count = 0 /\ ladder[i].count < GoldenLength
  BY <1>2, <1>3 DEF ControlInv, LadderInv
<1>6. ladder[i].count \in Nat
  <2>1. ladder[i] \in Snapshots
    BY <1>2 DEF ControlInv, TypeOK
  <2> QED BY <2>1 DEF Snapshots
<1>7. ctx' = ladder[i].ctx /\ ram' = ladder[i].ram /\ instr' = ladder[i].count
      /\ halted' = FALSE
  BY <1>2 DEF Restore
<1>8. OnGolden(ladder[i].ctx, ladder[i].ram, ladder[i].count)
  BY <1>2 DEF ControlInv, RungsOnGolden
<1>9. emu'.done = 0 /\ emu'.error = FALSE
  BY <1>3 DEF Idle
<1>10. TrackInv'
  <2>1. instr' + emu'.done = ladder[i].count
    BY <1>6, <1>7, <1>9
  <2>2. instr' + emu'.done # GoldenLength
    BY <2>1, <1>5, <1>6, SizesAssumption
  <2>3. OnGolden(ctx, ram, instr + emu.done)'
    BY <2>1, <1>3, <1>7, <1>8 DEF OnGolden
  <2> QED BY <1>3, <1>7, <1>9, <2>2, <2>3 DEF TrackInv, OnTrack
<1>11. /\ fs \in Seq(Fault) /\ fs # <<>>
       /\ \A j, k \in 1..Len(fs) : j <= k => fs[j].trigger <= fs[k].trigger
  BY FaultsAssumption
<1>12. \A j \in 1..Len(fs) : fs[j].trigger \in Nat
  BY <1>11, FaultFields
<1>13. instr' <= fs[1].trigger
  <2>1. Len(fs) \in Nat /\ 1 \in 1..Len(fs)
    BY <1>11
  <2>2. CASE i = 1
    BY <1>5, <1>7, <1>12, <2>1, <2>2
  <2>3. CASE i # 1
    BY <1>2, <1>7, <2>3 DEF IsNearestRung
  <2> QED BY <2>2, <2>3
<1>14. \A j \in 1..Len(fs) : instr' <= fs[j].trigger
  <2> SUFFICES ASSUME NEW j \in 1..Len(fs) PROVE instr' <= fs[j].trigger
    OBVIOUS
  <2>1. Len(fs) \in Nat /\ 1 \in 1..Len(fs) /\ 1 <= j
    BY <1>11
  <2>2. fs[1].trigger <= fs[j].trigger /\ fs[1].trigger \in Nat /\ fs[j].trigger \in Nat
    BY <1>11, <1>12, <2>1
  <2> QED BY <2>2, <1>13, <1>6, <1>7
<1>15. JobInv'
  BY <1>3, <1>11, <1>14 DEF JobInv
<1> QED BY <1>1, <1>3, <1>4, <1>10, <1>15 DEF ControlInv, FlashIntact

(***************************************************************************)
(* run(): the batched advance ends exactly on the trigger.                 *)
(***************************************************************************)
LEMMA AdvanceInv == ControlInv /\ Advance => ControlInv'
<1> SUFFICES ASSUME ControlInv, Advance PROVE ControlInv'
  OBVIOUS
<1>1. TypeOK'
  BY LoopTyped DEF ControlInv
<1>2. /\ phase = "looping" /\ todo # <<>> /\ phase' \in {"applying", "advancing"}
      /\ UNCHANGED <<ctx, ram, flash, halted, instr, ladder, cur, todo>>
  BY DEF Advance, cpu, meters, worker, job
<1>3. LadderInv' /\ RungsOnGolden' /\ FlashIntact'
  BY <1>2, LadderKept DEF Running, ControlInv, FlashIntact
<1>4. /\ Head(todo) = todo[1] /\ todo \in Seq(Fault) /\ Len(todo) \in Nat
      /\ 1 \in 1..Len(todo) /\ todo[1].trigger \in Nat /\ instr \in Nat
  BY <1>2, FaultFields DEF ControlInv, TypeOK
<1>5. instr <= todo[1].trigger
  BY <1>2, <1>4 DEF ControlInv, JobInv, Running
<1>6. \/ /\ phase' = "applying" /\ emu' = Idle /\ instr = todo[1].trigger
      \/ /\ phase' = "advancing"
         /\ emu' = [limit |-> todo[1].trigger - instr, done |-> 0, error |-> FALSE]
         /\ todo[1].trigger - instr > 0
  BY <1>4, <1>5 DEF Advance, NoAdvance, EmuStart
<1>7. /\ emu'.done = 0 /\ emu'.error = FALSE
      /\ phase' = "advancing" => emu'.limit = todo[1].trigger - instr
                                /\ emu'.limit > 0
  BY <1>6 DEF Idle
<1>8. TrackInv'
  <2>1. Unfaulted' => Unfaulted
    BY <1>2 DEF Unfaulted
  <2>2. Unfaulted => OnTrack /\ emu.done = 0
    BY <1>2 DEF ControlInv, TrackInv
  <2>3. Unfaulted => OnTrack'
    BY <1>2, <1>7, <2>2 DEF OnTrack, OnGolden
  <2> QED BY <1>2, <1>7, <2>1, <2>3 DEF TrackInv
<1>9. JobInv'
  <2>1. instr' + emu'.limit = todo'[1].trigger \/ phase' # "advancing"
    BY <1>2, <1>4, <1>7
  <2>2. phase' = "applying" => instr' = todo'[1].trigger
    BY <1>2, <1>6
  <2> QED BY <1>2, <1>7, <2>1, <2>2 DEF ControlInv, JobInv, Running
<1> QED BY <1>1, <1>3, <1>8, <1>9 DEF ControlInv

LEMMA ArriveInv == ControlInv /\ Arrive => ControlInv'
<1> SUFFICES ASSUME ControlInv, Arrive PROVE ControlInv'
  OBVIOUS
<1>1. TypeOK'
  BY LoopTyped DEF ControlInv
<1>2. /\ phase = "advancing" /\ phase' = "applying" /\ emu' = Idle
      /\ ~halted /\ ~emu.error /\ emu.done = emu.limit /\ instr' = instr + emu.limit
      /\ UNCHANGED <<ctx, ram, flash, halted, ladder, cur, todo>>
  BY DEF Arrive, Returned, cpu, worker, job
<1>3. LadderInv' /\ RungsOnGolden' /\ FlashIntact'
  BY <1>2, LadderKept DEF Running, ControlInv, FlashIntact
<1>4. emu'.done = 0 /\ emu'.error = FALSE /\ instr' \in Nat /\ instr' + 0 = instr'
  BY <1>1, <1>2 DEF Idle, TypeOK
<1>5. TrackInv'
  <2>1. Unfaulted' => OnTrack
    BY <1>2 DEF ControlInv, TrackInv, Unfaulted
  <2>2. Unfaulted' => OnTrack'
    BY <1>2, <1>4, <2>1 DEF OnTrack, OnGolden
  <2> QED BY <1>2, <1>4, <2>2 DEF TrackInv
<1>6. JobInv'
  <2>1. /\ todo # <<>> /\ instr' = todo[1].trigger
        /\ cur \in FaultSets /\ Len(todo) <= Len(cur)
        /\ \A i \in 1..Len(todo) : todo[i] = cur[Len(cur) - Len(todo) + i]
    BY <1>2 DEF ControlInv, JobInv, Running
  <2>2. \A i \in 1..Len(todo) : todo[1].trigger <= todo[i].trigger
    <3> SUFFICES ASSUME NEW i \in 1..Len(todo)
                 PROVE  todo[1].trigger <= todo[i].trigger
      OBVIOUS
    <3>1. Len(todo) \in Nat /\ Len(cur) \in Nat /\ Len(todo) >= 1
      BY DEF ControlInv, TypeOK
    <3>2. /\ Len(cur) - Len(todo) + 1 \in 1..Len(cur)
          /\ Len(cur) - Len(todo) + i \in 1..Len(cur)
          /\ Len(cur) - Len(todo) + 1 <= Len(cur) - Len(todo) + i
          /\ 1 \in 1..Len(todo)
      BY <2>1, <3>1
    <3> QED BY <2>1, <3>2, FaultsAssumption
  <2> QED BY <1>2, <2>1, <2>2 DEF JobInv, Running
<1> QED BY <1>1, <1>3, <1>5, <1>6 DEF ControlInv

LEMMA FinishInv == ControlInv /\ Finish => ControlInv'
<1> SUFFICES ASSUME ControlInv, Finish PROVE ControlInv'
  OBVIOUS
<1>1. TypeOK'
  BY LoopTyped DEF ControlInv
<1>2. /\ phase = "looping" /\ phase' = "finishing"
      /\ UNCHANGED <<ctx, ram, flash, halted, instr, ladder, cur, todo>>
  BY DEF Finish, cpu, meters, worker, job
<1>3. LadderInv' /\ RungsOnGolden' /\ FlashIntact'
  BY <1>2, LadderKept DEF Running, ControlInv, FlashIntact
<1> QED BY <1>1, <1>2, <1>3 DEF ControlInv, TrackInv, Unfaulted, JobInv, Running

LEMMA ReturnInv == ControlInv /\ Return => ControlInv'
<1> SUFFICES ASSUME ControlInv, Return PROVE ControlInv'
  OBVIOUS
<1>1. TypeOK'
  BY LoopTyped DEF ControlInv
<1>2. /\ Running /\ phase' = "ready" /\ UNCHANGED <<flash, ladder>>
  BY DEF Return, cpu, worker, Running
<1>3. LadderInv' /\ RungsOnGolden' /\ FlashIntact'
  BY <1>2, LadderKept DEF Running, ControlInv, FlashIntact
<1> QED BY <1>1, <1>2, <1>3 DEF ControlInv, TrackInv, Unfaulted, JobInv, Running

(***************************************************************************)
(* _apply(): the fault leaves flash alone, and the faults still to come    *)
(* are not in the past.                                                    *)
(***************************************************************************)
LEMMA ApplyInv ==
  ASSUME SpareFlash, ControlInv, Apply
  PROVE  ControlInv'
<1>1. TypeOK' /\ flash' = flash
  BY ApplyTyped DEF ControlInv
<1>2. /\ phase = "applying" /\ phase' \in {"finishing", "looping"}
      /\ todo' = Tail(todo) /\ UNCHANGED <<instr, ladder, cur>>
      /\ phase' = "looping" => emu' = Idle
  BY DEF Apply, meters, worker
<1>3. LadderInv' /\ RungsOnGolden' /\ FlashIntact'
  BY <1>1, <1>2, LadderKept DEF Running, ControlInv, FlashIntact
<1>4. /\ todo # <<>> /\ cur \in FaultSets /\ Len(todo) <= Len(cur)
      /\ \A i \in 1..Len(todo) : todo[i] = cur[Len(cur) - Len(todo) + i]
      /\ \A i \in 1..Len(todo) : instr <= todo[i].trigger
  BY <1>2 DEF ControlInv, JobInv, Running
<1>5. /\ Len(todo) \in Nat /\ Len(cur) \in Nat /\ Len(todo) > 0
      /\ Len(todo') = Len(todo) - 1
      /\ \A i \in 1..Len(todo') : todo'[i] = todo[i + 1]
  BY <1>2, <1>4 DEF ControlInv, TypeOK
<1>6. JobInv'
  <2>1. \A i \in 1..Len(todo') : i + 1 \in 1..Len(todo)
    BY <1>5
  <2>2. \A i \in 1..Len(todo') : /\ todo'[i] = cur[Len(cur) - Len(todo') + i]
                                /\ instr <= todo'[i].trigger
    <3> SUFFICES ASSUME NEW i \in 1..Len(todo')
                 PROVE  /\ todo'[i] = cur[Len(cur) - Len(todo') + i]
                        /\ instr <= todo'[i].trigger
      OBVIOUS
    <3>1. i + 1 \in 1..Len(todo) /\ todo'[i] = todo[i + 1]
      BY <1>5, <2>1
    <3>2. Len(cur) - Len(todo) + (i + 1) = Len(cur) - Len(todo') + i
      BY <1>5
    <3> QED BY <1>4, <3>1, <3>2
  <2> QED BY <1>2, <1>4, <1>5, <2>2 DEF JobInv
<1>7. TrackInv'
  <2>1. todo' # cur'
    BY <1>2, <1>4, <1>5
  <2> QED BY <1>2, <2>1 DEF TrackInv, Unfaulted, Idle
<1> QED BY <1>1, <1>3, <1>6, <1>7 DEF ControlInv

-----------------------------------------------------------------------------
(***************************************************************************)
(* ControlInv is inductive and implies what the runs check.                      *)
(***************************************************************************)
LEMMA InitInv == Init => ControlInv
<1> SUFFICES ASSUME Init PROVE ControlInv
  OBVIOUS
<1>1. TypeOK
  BY InitTyped
<1>2. phase = "spawned" /\ ladder = <<>>
  BY DEF Init
<1> QED BY <1>1, <1>2
    DEF ControlInv, FlashIntact, LadderInv, RungsOnGolden, TrackInv, Unfaulted, JobInv, Running

LEMMA NextInv ==
  ASSUME SpareFlash, ControlInv, [Next]_vars
  PROVE  ControlInv'
<1>1. CASE Execute
  BY <1>1, ExecuteInv
<1>2. CASE StartTrace \/ EndTrace \/ StartLadder \/ Rung \/ EndLadder
  BY <1>2, SetupInv
<1>3. CASE \E fs \in FaultSets : RunOne(fs)
  BY <1>3, RunInv
<1>4. CASE Advance
  BY <1>4, AdvanceInv
<1>5. CASE Arrive
  BY <1>5, ArriveInv
<1>6. CASE Apply
  BY <1>6, ApplyInv
<1>7. CASE Finish
  BY <1>7, FinishInv
<1>8. CASE Return
  BY <1>8, ReturnInv
<1>9. CASE UNCHANGED vars
  BY <1>9
  DEF ControlInv, TypeOK, FlashIntact, LadderInv, RungsOnGolden, TrackInv, OnTrack, OnGolden,
      Unfaulted, JobInv, Running, vars, cpu, meters, worker, job
<1> QED BY <1>1, <1>2, <1>3, <1>4, <1>5, <1>6, <1>7, <1>8, <1>9 DEF Next, Worker

LEMMA InvImplies == ControlInv => ResumeIsReplay /\ LandsOnTrigger
<1> SUFFICES ASSUME ControlInv PROVE ResumeIsReplay /\ LandsOnTrigger
  OBVIOUS
<1>1. ResumeIsReplay
  BY DEF ControlInv, TrackInv, OnTrack, ResumeIsReplay
<1>2. LandsOnTrigger
  <2>1. SUFFICES ASSUME phase = "applying" PROVE instr = Head(todo).trigger
    BY DEF LandsOnTrigger
  <2>2. todo # <<>> /\ instr = todo[1].trigger
    BY <2>1 DEF ControlInv, JobInv, Running
  <2>3. Head(todo) = todo[1]
    BY <2>2 DEF ControlInv, TypeOK
  <2> QED BY <2>2, <2>3
<1> QED BY <1>1, <1>2

(***************************************************************************)
(* A campaign whose faults spare flash keeps the control part of the       *)
(* invariant, for every CPU, firmware, ladder spacing and budget.          *)
(***************************************************************************)
LEMMA ControlInductive == ASSUME SpareFlash PROVE Spec => []ControlInv
<1>1. ControlInv /\ [Next]_vars => ControlInv'
  BY NextInv
<1> QED BY <1>1, InitInv, PTL DEF Spec

(***************************************************************************)
(* The backend's state always has the type its dataclasses declare.        *)
(***************************************************************************)
THEOREM TypeCorrect == ASSUME SpareFlash PROVE Spec => []TypeOK
<1>1. ControlInv => TypeOK
  BY DEF ControlInv
<1> QED BY <1>1, ControlInductive, PTL

(***************************************************************************)
(* Every rung that build_ladder() keeps is a state of the golden run.      *)
(***************************************************************************)
THEOREM LadderOnGolden == ASSUME SpareFlash PROVE Spec => []RungsOnGolden
<1>1. ControlInv => RungsOnGolden
  BY DEF ControlInv
<1> QED BY <1>1, ControlInductive, PTL

(***************************************************************************)
(* Resuming from a rung and advancing in one batch is replaying from the   *)
(* reset: up to its first fault no run shows any trace of the ladder or of *)
(* the runs that used the same emulator before it.                         *)
(***************************************************************************)
THEOREM ResumeCorrect == ASSUME SpareFlash PROVE Spec => []ResumeIsReplay
  BY ControlInductive, InvImplies, PTL

(***************************************************************************)
(* Every fault strikes after exactly as many executed instructions as its  *)
(* trigger says.                                                           *)
(***************************************************************************)
THEOREM TriggerExact == ASSUME SpareFlash PROVE Spec => []LandsOnTrigger
  BY ControlInductive, InvImplies, PTL

(***************************************************************************)
(* run(): the final emulation is limited to what is left of the budget,    *)
(* unless there is none, or the last fault already failed.                 *)
(***************************************************************************)
FinishingInv ==
  phase = "finishing" =>
    /\ emu.limit > 0
    /\ instr + emu.limit = Budget \/ emu = [Idle EXCEPT !.done = 1] \/ emu.error

LEMMA FinishingStep ==
  ASSUME ControlInv, FinishingInv, [Next]_vars PROVE FinishingInv'
<1>1. CASE Execute
  <2> SUFFICES ASSUME phase = "finishing" PROVE FinishingInv'
    BY <1>1 DEF Execute, FinishingInv
  <2>1. ~Returned /\ UNCHANGED <<phase, instr>>
    BY <1>1 DEF Execute
  <2>2. ~emu.error /\ emu # [Idle EXCEPT !.done = 1]
    BY <2>1 DEF Returned, Idle
  <2>3. instr + emu.limit = Budget /\ emu.limit > 0
    BY <2>2 DEF FinishingInv
  <2>4. emu'.limit = emu.limit
    BY <1>1, ExecuteTyped DEF Execute, Trap, Retire, ControlInv, TypeOK
  <2> QED BY <2>1, <2>3, <2>4 DEF FinishingInv
<1>2. CASE Apply
  <2> SUFFICES ASSUME phase' = "finishing" PROVE FinishingInv'
    BY DEF FinishingInv
  <2>1. emu' = [Idle EXCEPT !.error = TRUE]
    BY <1>2 DEF Apply
  <2> QED BY <2>1 DEF FinishingInv, Idle
<1>3. CASE Finish
  <2>1. instr \in Nat /\ Budget \in Nat /\ UNCHANGED instr
    BY <1>3, BudgetNat DEF Finish, meters, ControlInv, TypeOK
  <2>2. CASE Budget - instr > 0
    BY <1>3, <2>1, <2>2 DEF Finish, EmuStart, FinishingInv
  <2>3. CASE ~(Budget - instr > 0)
    BY <1>3, <2>3 DEF Finish, Idle, FinishingInv
  <2> QED BY <2>2, <2>3
<1>4. CASE UNCHANGED vars
  BY <1>4 DEF vars, meters, FinishingInv
<1>5. CASE \/ StartTrace \/ EndTrace \/ StartLadder \/ Rung \/ EndLadder
           \/ Advance \/ Arrive \/ Return
  BY <1>5 DEF StartTrace, EndTrace, StartLadder, Rung, EndLadder, Advance, Arrive,
              Return, FinishingInv
<1>6. CASE \E fs \in FaultSets : RunOne(fs)
  BY <1>6 DEF RunOne, FinishingInv
<1> QED BY <1>1, <1>2, <1>3, <1>4, <1>5, <1>6 DEF Next, Worker

LEMMA Bounded ==
  ASSUME ControlInv, FinishingInv PROVE BoundedEmulation
<1>1. CASE phase = "advancing"
  <2>1. /\ cur \in FaultSets /\ todo # <<>> /\ Len(todo) <= Len(cur)
        /\ todo[1] = cur[Len(cur) - Len(todo) + 1]
        /\ emu.limit > 0 /\ instr + emu.limit = todo[1].trigger
    <3>1. Len(todo) \in Nat /\ todo # <<>> => 1 \in 1..Len(todo)
      BY DEF ControlInv, TypeOK
    <3> QED BY <1>1, <3>1 DEF ControlInv, JobInv, Running
  <2>2. Len(todo) \in Nat /\ Len(todo) >= 1 /\ Len(cur) \in Nat
    BY <2>1 DEF ControlInv, TypeOK
  <2>3. todo[1].trigger <= cur[Len(cur)].trigger
    BY <2>1, <2>2, FaultsAssumption
  <2> QED BY <1>1, <2>1, <2>3 DEF BoundedEmulation, LastTrigger
<1>2. CASE phase = "finishing"
  <2>1. instr \in Nat /\ emu.limit \in Nat /\ Budget \in Nat
    BY BudgetNat DEF ControlInv, TypeOK
  <2> QED BY <1>2, <2>1 DEF FinishingInv, BoundedEmulation
<1> QED BY <1>1, <1>2 DEF BoundedEmulation

(***************************************************************************)
(* No emulation is unlimited and none goes beyond the budget or the last   *)
(* trigger, for every budget, fault set and rung: run() never passes       *)
(* emu_start() a count that it takes for "no limit".                       *)
(***************************************************************************)
THEOREM EmulationBounded == ASSUME SpareFlash PROVE Spec => []BoundedEmulation
<1>1. Init => FinishingInv
  BY DEF Init, FinishingInv
<1>2. ControlInv /\ FinishingInv /\ [Next]_vars => FinishingInv'
  BY FinishingStep
<1>3. ControlInv /\ FinishingInv => BoundedEmulation
  BY Bounded
<1> QED BY <1>1, <1>2, <1>3, ControlInductive, PTL DEF Spec

-----------------------------------------------------------------------------
(***************************************************************************)
(* The reference run.  Its states while the campaign spares flash, and     *)
(* what one step of it does.                                               *)
(***************************************************************************)
Sparing ==
  {fs \in Seq(Fault) : \A i \in 1..Len(fs) :
     /\ fs[i].model # "OPCODE_XOR"
     /\ fs[i].model = "MEM_XOR" => fs[i].target \notin FlashCell}

RefHalts == {"RUN", "ORACLE", "CPUFAULT", "BUDGET", "WINDOW"}

RefStates == [ctx : Context, ram : RamImage, flash : {FlashImage}, n : Nat,
              halt : RefHalts, todo : Sparing]

RefState(c, m, n, h, t) ==
  [ctx |-> c, ram |-> m, flash |-> FlashImage, n |-> n, halt |-> h, todo |-> t]

RefSees(c, m) == Around(c.pc, m, Blank, FlashImage)

LEMMA RefStateTyped ==
  /\ \A c \in Context, m \in RamImage, n \in Nat, h \in RefHalts, t \in Sparing :
       RefState(c, m, n, h, t) \in RefStates
  /\ \A s \in RefStates :
       /\ s.ctx \in Context /\ s.ram \in RamImage /\ s.n \in Nat
       /\ s.halt \in RefHalts /\ s.todo \in Sparing
       /\ s = RefState(s.ctx, s.ram, s.n, s.halt, s.todo)
  BY DEF RefStates, RefState

LEMMA SparingHead ==
  ASSUME NEW t \in Sparing, t # <<>>
  PROVE  /\ t[1] \in Fault /\ Head(t) = t[1]
         /\ t[1].model \in {"SKIP", "REG_XOR", "REG_SET", "MEM_XOR"}
         /\ t[1].model = "MEM_XOR" => t[1].target \notin FlashCell
         /\ Tail(t) \in Sparing
<1>1. t \in Seq(Fault) /\ Len(t) \in Nat /\ Len(t) >= 1 /\ 1 \in 1..Len(t)
  BY DEF Sparing
<1>2. t[1] \in Fault /\ Head(t) = t[1]
  BY <1>1
<1>3. /\ t[1].model \in {"SKIP", "REG_XOR", "REG_SET", "MEM_XOR"}
      /\ t[1].model = "MEM_XOR" => t[1].target \notin FlashCell
  BY <1>1, <1>2, FaultFields DEF Sparing
<1>4. Tail(t) \in Seq(Fault) /\ Len(Tail(t)) = Len(t) - 1
      /\ \A i \in 1..Len(Tail(t)) : Tail(t)[i] = t[i + 1] /\ i + 1 \in 1..Len(t)
  BY <1>1
<1>5. Tail(t) \in Sparing
  BY <1>4 DEF Sparing
<1> QED BY <1>2, <1>3, <1>5

LEMMA RefSkips ==
  ASSUME NEW c \in Context, NEW m \in RamImage, NEW n, NEW t, NEW f \in Fault,
         f.model = "SKIP", c.pc \in Mapped \ WindowCell \/ FixedInsnBytes # 0
  PROVE  RefHit(RefState(c, m, n, "RUN", t), f) =
           RefState([c EXCEPT !.pc = c.pc + SkipBytes(RefSees(c, m), c.pc, f.value)],
                    m, n, "RUN", t)
<1>1. c.pc \in Nat /\ f.value \in SkipWidths /\ IsCode(RefSees(c, m))
  BY FaultFields, AroundIs, MappedIs, DataAssumption DEF Context, RefSees
<1>2. c.pc + SkipBytes(RefSees(c, m), c.pc, f.value)
        = RefSkip(RefSees(c, m), c.pc, f.value)
  BY <1>1, SkipIsFollow
<1>3. RefCode(RefState(c, m, n, "RUN", t)) = RefSees(c, m)
  BY DEF RefCode, RefState, RefSees
<1>4. RefHit(RefState(c, m, n, "RUN", t), f) =
        [RefState(c, m, n, "RUN", t) EXCEPT !.ctx.pc = RefSkip(RefSees(c, m), @, f.value)]
  BY <1>3 DEF RefHit, RefState
<1> QED BY <1>2, <1>4 DEF RefState

LEMMA RefSetsReg ==
  ASSUME NEW c \in Context, NEW m, NEW n, NEW t, NEW f \in Fault,
         f.model \in {"REG_XOR", "REG_SET"}
  PROVE  RefHit(RefState(c, m, n, "RUN", t), f) =
           RefState([c EXCEPT !.regs[f.target] =
                       IF f.model = "REG_SET" THEN f.value
                       ELSE XorWord(c.regs[f.target], f.value)],
                    m, n, "RUN", t)
  BY DEF RefHit, RefState

LEMMA RefFlips ==
  ASSUME NEW c, NEW m, NEW n, NEW t, NEW f \in Fault,
         f.model = "MEM_XOR", f.target \in Mapped, f.target \notin FlashCell
  PROVE  RefHit(RefState(c, m, n, "RUN", t), f) =
           RefState(c, IF f.target \in RamCell
                       THEN [m EXCEPT ![f.target] = XorWord(m[f.target], f.value)] ELSE m,
                    n, "RUN", t)
<1>1. f.target \in RamCell \/ f.target \in WindowCell
  BY DEF Mapped
<1> QED BY <1>1, DataAssumption DEF RefHit, RefXor, RefState

LEMMA RefReadsUnmapped ==
  ASSUME NEW c, NEW m, NEW n, NEW t, NEW f \in Fault,
         \/ f.model = "SKIP" /\ c.pc \notin Mapped /\ FixedInsnBytes = 0
         \/ f.model = "MEM_XOR" /\ f.target \notin Mapped
  PROVE  RefHit(RefState(c, m, n, "RUN", t), f) = RefState(c, m, n, "CPUFAULT", t)
  BY DEF RefHit, RefXor, RefState, Mapped

LEMMA RefSkipsWindow ==
  ASSUME NEW c, NEW m, NEW n, NEW t, NEW f \in Fault,
         f.model = "SKIP", c.pc \in WindowCell, FixedInsnBytes = 0
  PROVE  RefHit(RefState(c, m, n, "RUN", t), f) = RefState(c, m, n, "WINDOW", t)
  BY DEF RefHit, RefState, Mapped

LEMMA RefNextHits ==
  ASSUME NEW c, NEW m, NEW n \in Nat, NEW t \in Sparing, t # <<>>, n >= t[1].trigger,
         NEW c2, NEW m2, NEW h,
         RefHit(RefState(c, m, n, "RUN", t), t[1]) = RefState(c2, m2, n, h, t)
  PROVE  RefNext(RefState(c, m, n, "RUN", t)) = RefState(c2, m2, n, h, Tail(t))
<1>1. RefNext(RefState(c, m, n, "RUN", t)) =
        [RefHit(RefState(c, m, n, "RUN", t), t[1]) EXCEPT !.todo = Tail(t)]
  BY DEF RefNext, RefState
<1>2. [RefState(c2, m2, n, h, t) EXCEPT !.todo = Tail(t)]
        = RefState(c2, m2, n, h, Tail(t))
  BY DEF RefState
<1> QED BY <1>1, <1>2

LEMMA RefNextSteps ==
  ASSUME NEW c, NEW m, NEW n \in Nat, NEW t \in Sparing,
         t = <<>> => n < Budget, t # <<>> => n < t[1].trigger
  PROVE  RefNext(RefState(c, m, n, "RUN", t)) = RefStep(RefState(c, m, n, "RUN", t))
<1>1. t # <<>> => t[1].trigger \in Nat
  BY SparingHead, FaultFields
<1> QED BY <1>1, BudgetNat DEF RefNext, RefState

LEMMA RefStepFails ==
  ASSUME NEW c, NEW m, NEW n, NEW t, c.pc \notin WindowCell,
         NEW e, e = Exec(c, m, Blank, RefSees(c, m)[c.pc]),
         c.pc \notin Mapped \/ (~e.peeks /\ (e.event = "trap" \/ e.stray # {}))
  PROVE  RefStep(RefState(c, m, n, "RUN", t)) = RefState(c, m, n, "CPUFAULT", t)
  BY DEF RefStep, RefState, RefCode, RefSees

LEMMA RefStepStops ==
  ASSUME NEW c, NEW m, NEW n, NEW t, c.pc \in Mapped,
         \/ c.pc \in WindowCell
         \/ Exec(c, m, Blank, RefSees(c, m)[c.pc]).peeks
  PROVE  RefStep(RefState(c, m, n, "RUN", t)) = RefState(c, m, n, "WINDOW", t)
  BY DEF RefStep, RefState, RefCode, RefSees

LEMMA RefStepRuns ==
  ASSUME NEW c, NEW m, NEW n, NEW t, c.pc \in Mapped, c.pc \notin WindowCell,
         NEW e, e = Exec(c, m, Blank, RefSees(c, m)[c.pc]),
         ~e.peeks, e.event # "trap", e.stray = {}
  PROVE  RefStep(RefState(c, m, n, "RUN", t)) =
           RefState(e.ctx, e.ram, n + 1, IF e.event = "halt" THEN "ORACLE" ELSE "RUN", t)
  BY DEF RefStep, RefState, RefCode, RefSees

(***************************************************************************)
(* One fault of the reference.                                             *)
(***************************************************************************)
LEMMA RefHitTyped ==
  ASSUME NEW c \in Context, NEW m \in RamImage, NEW n \in Nat,
         NEW t \in Sparing, NEW f \in Fault,
         f.model \in {"SKIP", "REG_XOR", "REG_SET", "MEM_XOR"},
         f.model = "MEM_XOR" => f.target \notin FlashCell
  PROVE  \E c2 \in Context, m2 \in RamImage, h \in {"RUN", "CPUFAULT", "WINDOW"} :
           RefHit(RefState(c, m, n, "RUN", t), f) = RefState(c2, m2, n, h, t)
<1>1. CASE f.model = "SKIP" /\ (c.pc \in Mapped \ WindowCell \/ FixedInsnBytes # 0)
  <2>1. c.pc \in Nat /\ f.value \in SkipWidths /\ IsCode(RefSees(c, m))
    BY <1>1, FaultFields, AroundIs, MappedIs, DataAssumption DEF Context, RefSees
  <2>2. c.pc + SkipBytes(RefSees(c, m), c.pc, f.value) \in Nat
    BY <2>1, SkipIsFollow
  <2>3. [c EXCEPT !.pc = c.pc + SkipBytes(RefSees(c, m), c.pc, f.value)] \in Context
    BY <2>2 DEF Context
  <2> QED BY <1>1, <2>3, RefSkips
<1>2. CASE \/ f.model = "SKIP" /\ c.pc \notin Mapped /\ FixedInsnBytes = 0
           \/ f.model = "MEM_XOR" /\ f.target \notin Mapped
  BY <1>2, RefReadsUnmapped
<1>3. CASE f.model \in {"REG_XOR", "REG_SET"}
  <2> DEFINE v == IF f.model = "REG_SET" THEN f.value
                  ELSE XorWord(c.regs[f.target], f.value)
  <2>1. f.target \in Reg /\ f.value \in Word /\ c.regs \in [Reg -> Word]
    BY <1>3, FaultFields DEF Context
  <2>2. v \in Word
    BY <2>1, XorAssumption
  <2>3. [c EXCEPT !.regs[f.target] = v] \in Context
    BY <2>1, <2>2 DEF Context
  <2> QED BY <1>3, <2>3, RefSetsReg
<1>4. CASE f.model = "MEM_XOR" /\ f.target \in Mapped
  <2>1. f.value \in Word /\ f.target \notin FlashCell
    BY <1>4, FaultFields
  <2> DEFINE v == IF f.target \in RamCell
                  THEN [m EXCEPT ![f.target] = XorWord(m[f.target], f.value)] ELSE m
  <2>2. v \in RamImage
    BY <2>1, XorAssumption DEF RamImage
  <2>3. RefHit(RefState(c, m, n, "RUN", t), f) = RefState(c, v, n, "RUN", t)
    BY <1>4, <2>1, RefFlips
  <2> QED BY <2>2, <2>3
<1>5. CASE f.model = "SKIP" /\ c.pc \in WindowCell /\ FixedInsnBytes = 0
  BY <1>5, RefSkipsWindow
<1> QED BY <1>1, <1>2, <1>3, <1>4, <1>5

LEMMA RefNextTyped ==
  ASSUME NEW s \in RefStates PROVE RefNext(s) \in RefStates
<1>1. CASE s.halt # "RUN"
  BY <1>1 DEF RefNext
<1> SUFFICES ASSUME s.halt = "RUN" PROVE RefNext(s) \in RefStates
  BY <1>1
<1> DEFINE c == s.ctx
           m == s.ram
           n == s.n
           t == s.todo
<1>2. /\ c \in Context /\ m \in RamImage /\ n \in Nat /\ t \in Sparing
      /\ s = RefState(c, m, n, "RUN", t)
  BY RefStateTyped
<1> HIDE DEF c, m, n, t
<1>3. CASE t # <<>> /\ n >= t[1].trigger
  <2>1. /\ t[1] \in Fault /\ Tail(t) \in Sparing
        /\ t[1].model \in {"SKIP", "REG_XOR", "REG_SET", "MEM_XOR"}
        /\ t[1].model = "MEM_XOR" => t[1].target \notin FlashCell
    BY <1>2, <1>3, SparingHead
  <2>2. PICK c2 \in Context, m2 \in RamImage, h \in {"RUN", "CPUFAULT", "WINDOW"} :
          RefHit(RefState(c, m, n, "RUN", t), t[1]) = RefState(c2, m2, n, h, t)
    BY <1>2, <2>1, RefHitTyped
  <2>3. RefNext(s) = RefState(c2, m2, n, h, Tail(t))
    BY <1>2, <1>3, <2>2, RefNextHits
  <2>4. h \in RefHalts
    BY <2>2 DEF RefHalts
  <2> QED BY <1>2, <2>1, <2>2, <2>3, <2>4, RefStateTyped
<1>4. CASE t = <<>> /\ n >= Budget
  <2>1. RefNext(s) = RefState(c, m, n, "BUDGET", t)
    BY <1>2, <1>4 DEF RefNext, RefState
  <2> QED BY <1>2, <2>1, RefStateTyped DEF RefHalts
<1>5. CASE ~(t # <<>> /\ n >= t[1].trigger) /\ ~(t = <<>> /\ n >= Budget)
  <2>1. /\ t = <<>> => n < Budget
        /\ t # <<>> => n < t[1].trigger
    BY <1>2, <1>5, BudgetNat, SparingHead, FaultFields
  <2>2. RefNext(s) = RefStep(s)
    BY <1>2, <2>1, RefNextSteps
  <2> DEFINE e == Exec(c, m, Blank, RefSees(c, m)[c.pc])
  <2>3. {"CPUFAULT", "ORACLE", "RUN", "WINDOW"} \subseteq RefHalts
    BY DEF RefHalts
  <2>4. e = Exec(c, m, Blank, RefSees(c, m)[c.pc])
    OBVIOUS
  <2>5. c.pc \in Mapped => e.ctx \in Context /\ e.ram \in RamImage
    <3> SUFFICES ASSUME c.pc \in Mapped PROVE e.ctx \in Context /\ e.ram \in RamImage
      OBVIOUS
    <3> DEFINE op == RefSees(c, m)[c.pc]
    <3>1. op \in Code
      BY <1>2, AroundIs, MappedIs, DataAssumption DEF RefSees
    <3>2. e = Exec(c, m, Blank, op)
      OBVIOUS
    <3> HIDE DEF e, op
    <3> QED BY <1>2, <3>1, <3>2, ExecFacts, MappedIs
  <2> HIDE DEF e
  <2>6. CASE c.pc \in Mapped /\ (c.pc \in WindowCell \/ e.peeks)
    <3>1. RefNext(s) = RefState(c, m, n, "WINDOW", t)
      BY <1>2, <2>2, <2>4, <2>6, RefStepStops
    <3> QED BY <1>2, <2>3, <3>1, RefStateTyped
  <2>7. CASE c.pc \notin WindowCell
             /\ (c.pc \notin Mapped \/ (~e.peeks /\ (e.event = "trap" \/ e.stray # {})))
    <3>1. RefNext(s) = RefState(c, m, n, "CPUFAULT", t)
      BY <1>2, <2>2, <2>4, <2>7, RefStepFails
    <3> QED BY <1>2, <2>3, <3>1, RefStateTyped
  <2>8. CASE c.pc \in Mapped /\ c.pc \notin WindowCell
             /\ ~e.peeks /\ e.event # "trap" /\ e.stray = {}
    <3>1. RefNext(s) = RefState(e.ctx, e.ram, n + 1,
                                IF e.event = "halt" THEN "ORACLE" ELSE "RUN", t)
      BY <1>2, <2>2, <2>4, <2>8, RefStepRuns
    <3>2. n + 1 \in Nat
      BY <1>2
    <3> DEFINE h == IF e.event = "halt" THEN "ORACLE" ELSE "RUN"
    <3>3. h \in RefHalts
      BY <2>3
    <3> HIDE DEF h
    <3>4. RefState(e.ctx, e.ram, n + 1, h, t) \in RefStates
      BY <1>2, <2>5, <2>8, <3>2, <3>3, RefStateTyped
    <3> QED BY <3>1, <3>4 DEF h
  <2>9. c.pc \in WindowCell => c.pc \in Mapped
    BY MappedIs
  <2> QED BY <2>6, <2>7, <2>8, <2>9, Zenon
<1> QED BY <1>3, <1>4, <1>5

LEMMA RefRunStep ==
  ASSUME NEW s \in RefStates
  PROVE  /\ RefRun(s)[0] = s
         /\ \A k \in Nat : /\ RefRun(s)[k] \in RefStates
                           /\ RefRun(s)[k + 1] = RefNext(RefRun(s)[k])
<1> DEFINE step == [x \in RefStates |-> RefNext(x)]
           run == RefRun(s)
<1>1. step \in [RefStates -> RefStates]
  BY RefNextTyped
<1> HIDE DEF step
<1>2. PICK f \in [Nat -> RefStates] : IsIteration(f, Nat, s, step)
  BY <1>1, IterationExists
<1>3. f = [k \in Nat |-> IF k = 0 THEN s ELSE RefNext(f[k - 1])]
  <2>1. ASSUME NEW k \in Nat
        PROVE  f[k] = IF k = 0 THEN s ELSE RefNext(f[k - 1])
    <3>1. f[k] = IF k = 0 THEN s ELSE step[f[k - 1]]
      BY <1>2 DEF IsIteration
    <3>2. k # 0 => f[k - 1] \in RefStates
      OBVIOUS
    <3> QED BY <3>1, <3>2 DEF step
  <2> QED BY <2>1
<1>4. run = [k \in Nat |-> IF k = 0 THEN s ELSE RefNext(run[k - 1])]
  BY <1>3 DEF RefRun
<1> HIDE DEF run
<1>5. ASSUME NEW k \in Nat PROVE run[k + 1] = RefNext(run[k])
  <2>1. k + 1 \in Nat /\ k + 1 # 0 /\ k + 1 - 1 = k
    OBVIOUS
  <2> QED BY <1>4, <2>1
<1>6. run[0] = s
  BY <1>4
<1> DEFINE G == {k \in Nat : run[k] \in RefStates}
<1>7. \A k \in Nat : k \in G
  <2>1. 0 \in G
    BY <1>6
  <2>2. ASSUME NEW k \in Nat, k \in G PROVE k + 1 \in G
    BY <1>5, <2>2, RefNextTyped
  <2> HIDE DEF G
  <2> QED BY <2>1, <2>2, NatInd
<1> QED BY <1>5, <1>6, <1>7 DEF run

(***************************************************************************)
(* A reference run that has ended stays where it is.                       *)
(***************************************************************************)
LEMMA RefStays ==
  ASSUME NEW s \in RefStates, NEW k \in Nat, RefRun(s)[k].halt # "RUN",
         NEW m \in Nat, m >= k
  PROVE  RefRun(s)[m] = RefRun(s)[k]
<1> DEFINE G == {d \in Nat : RefRun(s)[k + d] = RefRun(s)[k]}
<1>1. 0 \in G
  OBVIOUS
<1>2. ASSUME NEW d \in Nat, d \in G PROVE d + 1 \in G
  <2>1. RefRun(s)[k + d + 1] = RefNext(RefRun(s)[k + d])
    BY RefRunStep
  <2>2. RefNext(RefRun(s)[k]) = RefRun(s)[k]
    BY DEF RefNext
  <2>3. k + (d + 1) = k + d + 1
    OBVIOUS
  <2> QED BY <1>2, <2>1, <2>2, <2>3
<1> HIDE DEF G
<1>3. m - k \in G
  <2>1. m - k \in Nat
    OBVIOUS
  <2> QED BY <1>1, <1>2, <2>1, NatInd
<1>4. k + (m - k) = m
  OBVIOUS
<1> QED BY <1>3, <1>4 DEF G

(***************************************************************************)
(* Up to the first trigger the reference run is the golden run.            *)
(***************************************************************************)
LEMMA StartTyped ==
  ASSUME SpareFlash, NEW fs \in FaultSets, NEW r \in ResetContexts
  PROVE  /\ RefStart(r, ResetRam, FlashImage, fs) \in RefStates
         /\ RefStart(r, ResetRam, FlashImage, fs) = RefState(r, ResetRam, 0, "RUN", fs)
         /\ fs \in Sparing /\ fs # <<>> /\ fs[1] \in Fault /\ fs[1].trigger \in Nat
<1>1. fs \in Sparing /\ fs # <<>>
  BY FaultsAssumption DEF SpareFlash, Sparing
<1>2. r \in Context
  <2>1. Golden[r][0] = [ctx |-> r, ram |-> ResetRam] /\ Golden[r][0] \in State
    BY GoldenAssumption, SizesAssumption
  <2>2. [ctx |-> r, ram |-> ResetRam].ctx = r
    OBVIOUS
  <2> QED BY <2>1, <2>2 DEF State
<1>3. RefStart(r, ResetRam, FlashImage, fs) = RefState(r, ResetRam, 0, "RUN", fs)
  BY DEF RefStart, RefState
<1> QED BY <1>1, <1>2, <1>3, DataAssumption, RefStateTyped, SparingHead, FaultFields
    DEF RefHalts

LEMMA GoldenReplay ==
  ASSUME SpareFlash, NEW fs \in FaultSets, NEW r \in ResetContexts,
         NEW k \in 0..(GoldenLength - 1), k <= fs[1].trigger
  PROVE  RefRun(RefStart(r, ResetRam, FlashImage, fs))[k] =
           RefState(Golden[r][k].ctx, Golden[r][k].ram, k, "RUN", fs)
<1> DEFINE s == RefStart(r, ResetRam, FlashImage, fs)
           G == {n \in Nat : n <= k => RefRun(s)[n] =
                   RefState(Golden[r][n].ctx, Golden[r][n].ram, n, "RUN", fs)}
<1>1. /\ s \in RefStates /\ s = RefState(r, ResetRam, 0, "RUN", fs)
      /\ fs \in Sparing /\ fs # <<>> /\ fs[1].trigger \in Nat
  BY StartTyped
<1> HIDE DEF s
<1>2. 0 \in G
  <2>1. RefRun(s)[0] = s
    BY <1>1, RefRunStep
  <2>2. Golden[r][0] = [ctx |-> r, ram |-> ResetRam]
    BY GoldenAssumption
  <2>3. Golden[r][0].ctx = r /\ Golden[r][0].ram = ResetRam
    BY <2>2
  <2> QED BY <1>1, <2>1, <2>3
<1>3. ASSUME NEW n \in Nat, n \in G PROVE n + 1 \in G
  <2> SUFFICES ASSUME n + 1 <= k
               PROVE  RefRun(s)[n + 1] =
                        RefState(Golden[r][n + 1].ctx, Golden[r][n + 1].ram, n + 1, "RUN", fs)
    OBVIOUS
  <2> DEFINE c == Golden[r][n].ctx
             m == Golden[r][n].ram
             e == Exec(c, m, Blank, FlashImage[c.pc])
  <2>1. n \in 0..(GoldenLength - 1) /\ n # GoldenLength - 1 /\ n < fs[1].trigger
    BY <1>1, SizesAssumption
  <2>2. RefRun(s)[n] = RefState(c, m, n, "RUN", fs)
    BY <1>3
  <2>3. RefRun(s)[n + 1] = RefNext(RefState(c, m, n, "RUN", fs))
    BY <1>1, <2>2, RefRunStep
  <2>4. /\ c.pc \in FlashCell /\ e.stray = {} /\ e.event = "run" /\ ~e.peeks
        /\ Golden[r][n + 1].ctx = e.ctx /\ Golden[r][n + 1].ram = e.ram
    <3>1. [ctx |-> c, ram |-> m] = Golden[r][n]
      <4>1. n \in 0..GoldenLength
        BY <2>1, SizesAssumption
      <4>2. Golden[r][n] \in State
        BY <4>1, GoldenAssumption, Zenon
      <4> QED BY <4>2 DEF State
    <3> HIDE DEF c, m, e
    <3>2. e = Exec(c, m, Blank, FlashImage[c.pc])
      BY DEF e
    <3>3. /\ c.pc \in FlashCell /\ e.stray = {} /\ e.event = "run" /\ ~e.peeks
          /\ [ctx |-> e.ctx, ram |-> e.ram] = Golden[r][n + 1]
      BY <2>1, <3>1, <3>2, MappedIs, GoldenStep
    <3> QED BY <3>3
  <2>5. RefNext(RefState(c, m, n, "RUN", fs)) = RefState(e.ctx, e.ram, n + 1, "RUN", fs)
    <3> HIDE DEF c, m, e
    <3>1. RefNext(RefState(c, m, n, "RUN", fs)) = RefStep(RefState(c, m, n, "RUN", fs))
      BY <1>1, <2>1, RefNextSteps
    <3>2. e = Exec(c, m, Blank, FlashImage[c.pc])
      BY DEF e
    <3>3. RefSees(c, m) = FlashImage
      BY <2>4 DEF RefSees, Around
    <3>4. c.pc \in Mapped /\ c.pc \notin WindowCell
      BY <2>4, MappedIs, DataAssumption
    <3> QED BY <2>4, <3>1, <3>2, <3>3, <3>4, RefStepRuns
  <2> QED BY <2>3, <2>4, <2>5
<1> HIDE DEF G
<1>4. k \in G
  BY <1>2, <1>3, NatInd, SizesAssumption
<1> QED BY <1>4, SizesAssumption DEF G, s

-----------------------------------------------------------------------------
(***************************************************************************)
(* The run and its reference in step, one lemma per group of actions.      *)
(***************************************************************************)
HaltNow == IF emu.error THEN "CPUFAULT" ELSE IF halted THEN "ORACLE" ELSE "RUN"

RefBegin == RefStart(ladder[1].ctx, ResetRam, FlashImage, cur)

LEMMA RunningFacts ==
  ASSUME SpareFlash, ControlInv, Running
  PROVE  /\ cur \in FaultSets /\ ladder[1].ctx \in ResetContexts
         /\ RefBegin \in RefStates
         /\ \A k \in Nat : Reference[k + 1] = RefNext(Reference[k])
         /\ flash = FlashImage /\ todo \in Sparing
         /\ Len(cur) \in Nat /\ Len(todo) \in Nat /\ Len(cur) - Len(todo) \in Nat
         /\ LastTrigger \in Nat /\ Budget \in Nat /\ instr \in Nat
         /\ emu.done \in Nat /\ emu.limit \in Nat
         /\ todo # <<>> => todo[1].trigger \in Nat /\ todo[1].trigger <= LastTrigger
<1>1. /\ cur \in FaultSets /\ Len(todo) <= Len(cur)
      /\ \A i \in 1..Len(todo) : todo[i] = cur[Len(cur) - Len(todo) + i]
  BY DEF ControlInv, JobInv
<1>2. /\ Len(cur) \in Nat /\ Len(todo) \in Nat /\ instr \in Nat
      /\ emu.done \in Nat /\ emu.limit \in Nat /\ todo \in Seq(Fault)
  BY DEF ControlInv, TypeOK
<1>3. ladder[1].ctx \in ResetContexts
  BY DEF ControlInv, LadderInv
<1>4. RefBegin \in RefStates /\ cur \in Sparing /\ cur # <<>>
  BY <1>1, <1>3, StartTyped DEF RefBegin
<1>5. \A k \in Nat : Reference[k + 1] = RefNext(Reference[k])
  BY <1>4, RefRunStep DEF RefBegin, Reference
<1>6. flash = FlashImage
  BY DEF ControlInv, FlashIntact, Running
<1>7. \A i \in 1..Len(todo) : Len(cur) - Len(todo) + i \in 1..Len(cur)
  BY <1>1, <1>2
<1>8. todo \in Sparing
  BY <1>1, <1>2, <1>4, <1>7 DEF Sparing
<1>9. LastTrigger \in Nat
  <2>1. Len(cur) \in 1..Len(cur) /\ cur \in Seq(Fault)
    BY <1>2, <1>4 DEF Sparing
  <2>2. cur[Len(cur)] \in Fault
    BY <2>1
  <2> QED BY <2>2, FaultFields DEF LastTrigger
<1>10. todo # <<>> => todo[1].trigger \in Nat /\ todo[1].trigger <= LastTrigger
  <2> SUFFICES ASSUME todo # <<>>
               PROVE  todo[1].trigger \in Nat /\ todo[1].trigger <= LastTrigger
    OBVIOUS
  <2>1. 1 \in 1..Len(todo)
    BY <1>2
  <2>2. todo[1] = cur[Len(cur) - Len(todo) + 1] /\ todo[1] \in Fault
    BY <1>1, <1>2, <2>1
  <2>3. Len(cur) \in 1..Len(cur) /\ Len(cur) - Len(todo) + 1 <= Len(cur)
    BY <1>2, <1>7, <2>1
  <2> QED BY <1>1, <1>7, <2>1, <2>2, <2>3, FaultsAssumption, FaultFields DEF LastTrigger
<1>11. Len(cur) - Len(todo) \in Nat /\ Budget \in Nat
  BY <1>1, <1>2, BudgetNat
<1> QED BY <1>1, <1>2, <1>3, <1>4, <1>5, <1>6, <1>8, <1>9, <1>10, <1>11

LEMMA NatSum ==
  /\ \A x, y \in Nat : x + y \in Nat
  /\ \A x \in Nat : x + 0 = x
  /\ 0 \in Nat /\ 1 \in Nat
  OBVIOUS

Lost == Reference[RefIndex].halt = "WINDOW"

LEMMA IndexFacts ==
  ASSUME SpareFlash, ControlInv, ReplayInv, Running
  PROVE  /\ Executed \in Nat /\ RefIndex \in Nat
         /\ Lost => \A k \in Nat : k >= RefIndex => Reference[k].halt = "WINDOW"
         /\ ~Lost =>
              /\ Reference[RefIndex] = RefState(ctx, ram, Executed, HaltNow, todo)
              /\ Reference[RefIndex + 1] =
                   RefNext(RefState(ctx, ram, Executed, HaltNow, todo))
<1>1. /\ instr \in Nat /\ emu.done \in Nat /\ Len(cur) - Len(todo) \in Nat
      /\ \A k \in Nat : Reference[k + 1] = RefNext(Reference[k])
      /\ flash = FlashImage /\ RefBegin \in RefStates
  BY RunningFacts
<1>2. Executed \in Nat
  BY <1>1, NatSum, Zenon DEF Executed
<1>3. RefIndex \in Nat
  <2>1. Executed + (Len(cur) - Len(todo)) \in Nat
    BY <1>1, <1>2, NatSum
  <2> QED BY <2>1, NatSum, Zenon DEF RefIndex
<1>4. ~Lost => Reference[RefIndex] = RefState(ctx, ram, Executed, HaltNow, todo)
  BY <1>1 DEF ReplayInv, OnReference, RefState, HaltNow, Lost
<1>5. ASSUME Lost, NEW k \in Nat, k >= RefIndex PROVE Reference[k].halt = "WINDOW"
  <2>1. Reference = RefRun(RefBegin) /\ Reference[RefIndex].halt # "RUN"
    BY <1>5 DEF Reference, RefBegin, Lost
  <2>2. Reference[k] = Reference[RefIndex]
    BY <1>1, <1>3, <1>5, <2>1, RefStays
  <2> QED BY <1>5, <2>2 DEF Lost
<1> QED BY <1>1, <1>2, <1>3, <1>4, <1>5

LEMMA NotRunningReplay ==
  ASSUME ReplayInv, ~Running', row' = NoRow
  PROVE  ReplayInv'
  BY DEF ReplayInv

LEMMA ExecuteReplay ==
  ASSUME SpareFlash, ControlInv, ReplayInv, Execute
  PROVE  ReplayInv'
<1>1. /\ UNCHANGED <<phase, instr, ladder, cur, todo, row>>
      /\ phase \in {"tracing", "climbing", "advancing", "finishing"}
      /\ ~halted /\ ~emu.error /\ ~(emu.limit # 0 /\ emu.done = emu.limit)
  BY DEF Execute, worker, job, Emulating, Returned
<1>2. row = NoRow
  BY <1>1 DEF ReplayInv
<1>3. CASE ~Running
  BY <1>1, <1>2, <1>3 DEF ReplayInv, Running
<1> SUFFICES ASSUME Running PROVE ReplayInv'
  BY <1>3
<1>4. phase \in {"advancing", "finishing"} /\ HaltNow = "RUN"
  BY <1>1 DEF Running, HaltNow
<1>5. /\ todo \in Sparing /\ flash = FlashImage /\ instr \in Nat
      /\ emu.done \in Nat /\ emu.limit \in Nat /\ Len(cur) - Len(todo) \in Nat
      /\ Budget \in Nat /\ LastTrigger \in Nat
      /\ todo # <<>> => todo[1].trigger \in Nat /\ todo[1].trigger <= LastTrigger
  BY RunningFacts
<1>6. /\ emu.done < emu.limit
      /\ phase = "finishing" => todo = <<>> /\ instr < Budget /\ instr + emu.limit = Budget
      /\ phase = "advancing" => todo # <<>> /\ instr + emu.limit = todo[1].trigger
  <2>1. emu.done <= emu.limit
    BY DEF ReplayInv
  <2>2. phase = "advancing" => todo # <<>> /\ instr + emu.limit = todo[1].trigger
                               /\ emu.limit > 0
    BY DEF ControlInv, JobInv
  <2>3. phase = "finishing" => todo = <<>> /\ instr < Budget /\ instr + emu.limit = Budget
    <3> SUFFICES ASSUME phase = "finishing"
                 PROVE  todo = <<>> /\ instr < Budget /\ instr + emu.limit = Budget
      OBVIOUS
    <3>1. /\ todo = <<>>
          /\ IF instr < Budget THEN instr + emu.limit = Budget
             ELSE emu = [Idle EXCEPT !.done = 1] /\ ~halted
      BY <1>1 DEF ReplayInv
    <3>2. emu # [Idle EXCEPT !.done = 1]
      BY <1>1 DEF Idle
    <3> QED BY <3>1, <3>2
  <2> QED BY <1>1, <1>4, <1>5, <2>1, <2>2, <2>3
<1>7. Executed = instr + emu.done /\ RefIndex = Executed + (Len(cur) - Len(todo))
      /\ Executed \in Nat
  BY <1>1, <1>5, <1>6 DEF Executed, RefIndex
<1>8. /\ todo = <<>> => Executed < Budget
      /\ todo # <<>> => Executed < todo[1].trigger
  BY <1>4, <1>5, <1>6, <1>7
<1>9. \/ Reference[RefIndex + 1].halt = "WINDOW"
      \/ Reference[RefIndex + 1] = RefStep(RefState(ctx, ram, Executed, "RUN", todo))
  <2>1. \/ Reference[RefIndex + 1].halt = "WINDOW"
        \/ Reference[RefIndex + 1] = RefNext(RefState(ctx, ram, Executed, "RUN", todo))
    <3>1. RefIndex \in Nat /\ RefIndex + 1 \in Nat /\ RefIndex + 1 >= RefIndex
      BY IndexFacts
    <3> QED BY <1>4, <3>1, IndexFacts
  <2>2. RefNext(RefState(ctx, ram, Executed, "RUN", todo))
          = RefStep(RefState(ctx, ram, Executed, "RUN", todo))
    BY <1>5, <1>7, <1>8, RefNextSteps
  <2> QED BY <2>1, <2>2
<1>10. Reference' = Reference /\ LastTrigger' = LastTrigger
  BY <1>1 DEF Reference, LastTrigger
<1>11. flash' = flash
  BY ExecuteKeepsFlash DEF ControlInv
<1> DEFINE e == Exec(ctx, ram, window, Memory[ctx.pc])
           b == Exec(ctx, ram, Blank, RefSees(ctx, ram)[ctx.pc])
<1>12. /\ ctx \in Context /\ ram \in RamImage /\ window \in WindowImage
       /\ flash \in [FlashCell -> Code]
  BY DEF ControlInv, TypeOK
<1>13. ctx.pc \in Mapped /\ ctx.pc \notin WindowCell /\ ~b.peeks =>
         /\ e.ctx = b.ctx /\ e.ram = b.ram
         /\ e.stray = b.stray /\ e.event = b.event
  <2> SUFFICES ASSUME ctx.pc \in Mapped, ctx.pc \notin WindowCell
               PROVE  ~b.peeks => /\ e.ctx = b.ctx /\ e.ram = b.ram
                                  /\ e.stray = b.stray /\ e.event = b.event
    OBVIOUS
  <2> DEFINE op == Memory[ctx.pc]
  <2>1. op \in Code /\ RefSees(ctx, ram)[ctx.pc] = op
    BY <1>5, <1>12, AroundIs DEF Memory, RefSees
  <2>2. e = Exec(ctx, ram, window, op) /\ b = Exec(ctx, ram, Blank, op)
    BY <2>1
  <2> HIDE DEF e, b, op
  <2> QED BY <1>12, <2>1, <2>2, ExecFacts
<1>14. b = Exec(ctx, ram, Blank, RefSees(ctx, ram)[ctx.pc])
  OBVIOUS
<1>15. \/ Trap /\ (ctx.pc \notin Mapped \/ e.event = "trap" \/ e.stray # {})
       \/ Retire(e) /\ ctx.pc \in Mapped /\ e.event # "trap" /\ e.stray = {}
  BY DEF Execute, FlashPerms
<1>16. Reference[RefIndex + 1].halt = "WINDOW" /\ RefIndex' = RefIndex + 1
         => OnReference'
  BY <1>10 DEF OnReference
<1> HIDE DEF e, b
<1>17. \/ Reference[RefIndex + 1].halt = "WINDOW"
       \/ /\ ctx.pc \notin WindowCell /\ (ctx.pc \in Mapped => ~b.peeks)
          /\ Reference[RefIndex + 1] = RefStep(RefState(ctx, ram, Executed, "RUN", todo))
  <2>1. CASE ctx.pc \in Mapped /\ (ctx.pc \in WindowCell \/ b.peeks)
    <3>1. RefStep(RefState(ctx, ram, Executed, "RUN", todo))
            = RefState(ctx, ram, Executed, "WINDOW", todo)
      BY <1>14, <2>1, RefStepStops
    <3> QED BY <1>9, <3>1 DEF RefState
  <2>2. CASE ~(ctx.pc \in Mapped /\ (ctx.pc \in WindowCell \/ b.peeks))
    <3>1. ctx.pc \in WindowCell => ctx.pc \in Mapped
      BY MappedIs
    <3> QED BY <1>9, <2>2, <3>1, Zenon
  <2> QED BY <2>1, <2>2
<1>18. CASE Trap /\ (ctx.pc \notin Mapped \/ e.event = "trap" \/ e.stray # {})
  <2>1. \/ Reference[RefIndex + 1].halt = "WINDOW"
        \/ Reference[RefIndex + 1] = RefState(ctx, ram, Executed, "CPUFAULT", todo)
    BY <1>13, <1>14, <1>17, <1>18, RefStepFails
  <2>2. /\ UNCHANGED <<ctx, ram, halted>>
        /\ emu'.error /\ emu'.done = emu.done /\ emu'.limit = emu.limit
    BY <1>18 DEF Trap, cpu, ControlInv, TypeOK
  <2>3. Executed' = Executed /\ RefIndex' = RefIndex + 1 /\ HaltNow' = "CPUFAULT"
    BY <1>1, <1>5, <1>6, <1>7, <2>2 DEF Executed, RefIndex, HaltNow
  <2>4. OnReference'
    BY <1>1, <1>5, <1>10, <1>11, <1>16, <2>1, <2>2, <2>3 DEF OnReference, RefState
  <2>5. Executed' <= LastTrigger' + Budget /\ emu'.done <= emu'.limit
        /\ instr' <= LastTrigger'
    BY <1>1, <1>10, <2>2, <2>3 DEF ReplayInv
  <2> QED BY <1>1, <1>2, <1>4, <2>2, <2>4, <2>5 DEF ReplayInv
<1>19. CASE Retire(e) /\ ctx.pc \in Mapped /\ e.event # "trap" /\ e.stray = {}
  <2>1. \/ Reference[RefIndex + 1].halt = "WINDOW"
        \/ Reference[RefIndex + 1] =
             RefState(e.ctx, e.ram, Executed + 1,
                      IF e.event = "halt" THEN "ORACLE" ELSE "RUN", todo)
    BY <1>13, <1>14, <1>17, <1>19, RefStepRuns
  <2>2. /\ ctx' = e.ctx /\ ram' = e.ram /\ halted' = (e.event = "halt")
    BY <1>19 DEF Retire
  <2>3. ~emu'.error /\ emu'.done = emu.done + 1 /\ emu'.limit = emu.limit
    <3>1. emu' = [emu EXCEPT !.done = emu.done + 1]
      BY <1>5, <1>6, <1>19 DEF Retire
    <3> QED BY <1>1, <3>1 DEF ControlInv, TypeOK
  <2>4. Executed' = Executed + 1 /\ RefIndex' = RefIndex + 1
        /\ HaltNow' = IF e.event = "halt" THEN "ORACLE" ELSE "RUN"
    <3>1. Executed' = Executed + 1
      BY <1>1, <1>5, <1>6, <1>7, <2>3 DEF Executed
    <3>2. RefIndex' = RefIndex + 1
      BY <1>1, <1>5, <1>7, <2>3, <3>1 DEF RefIndex
    <3>3. HaltNow' = IF e.event = "halt" THEN "ORACLE" ELSE "RUN"
      BY <2>2, <2>3 DEF HaltNow
    <3> QED BY <3>1, <3>2, <3>3
  <2>5. OnReference'
    <3> QED BY <1>1, <1>5, <1>10, <1>11, <1>16, <2>1, <2>2, <2>4
        DEF OnReference, RefState, HaltNow
  <2>6. /\ Executed' <= LastTrigger' + Budget /\ emu'.done <= emu'.limit
        /\ instr' <= LastTrigger'
    <3>1. Executed + 1 <= LastTrigger + Budget
      <4>1. CASE todo = <<>>
        BY <1>5, <1>7, <1>8, <4>1
      <4>2. CASE todo # <<>>
        BY <1>5, <1>7, <1>8, <4>2
      <4> QED BY <4>1, <4>2
    <3>2. emu.done + 1 <= emu.limit
      BY <1>5, <1>6
    <3>3. LastTrigger' = LastTrigger /\ instr' = instr /\ instr <= LastTrigger
      BY <1>1, <1>10 DEF ReplayInv
    <3> QED BY <2>3, <2>4, <3>1, <3>2, <3>3
  <2>7. phase' = "finishing" /\ ~emu'.error =>
          /\ todo' = <<>>
          /\ IF instr' < Budget THEN instr' + emu'.limit = Budget
             ELSE emu' = [Idle EXCEPT !.done = 1] /\ ~halted'
    BY <1>1, <1>6, <2>3
  <2> QED BY <1>1, <1>2, <1>4, <2>5, <2>6, <2>7 DEF ReplayInv
<1> QED BY <1>15, <1>18, <1>19

LEMMA IdleIs == Idle.limit = 1 /\ Idle.done = 0 /\ Idle.error = FALSE
  BY DEF Idle

(***************************************************************************)
(* _run_one(): the restored rung is on the reference run.                  *)
(***************************************************************************)
LEMMA RunReplay ==
  ASSUME SpareFlash, ControlInv, ControlInv', ReplayInv, NEW fs \in FaultSets, RunOne(fs)
  PROVE  ReplayInv'
<1>1. PICK i \in 1..Len(ladder) : Restore(ladder[i])
  BY DEF RunOne
<1>2. /\ phase = "ready" /\ phase' = "looping" /\ UNCHANGED <<ladder, flash>>
      /\ cur' = fs /\ todo' = fs /\ emu' = Idle /\ row' = NoRow
  BY <1>1 DEF RunOne, worker, Restore
<1>3. ctx' = ladder[i].ctx /\ ram' = ladder[i].ram /\ instr' = ladder[i].count
      /\ halted' = FALSE
  BY <1>1 DEF Restore
<1>4. /\ ladder[1].ctx \in ResetContexts
      /\ instr' \in Nat /\ instr' < GoldenLength
      /\ [ctx |-> ctx', ram |-> ram'] = Golden[ladder[1].ctx][instr']
  <2>1. ladder[1].ctx \in ResetContexts /\ ladder[i].count < GoldenLength
    BY <1>2 DEF ControlInv, LadderInv
  <2>2. OnGolden(ladder[i].ctx, ladder[i].ram, ladder[i].count)
    BY DEF ControlInv, RungsOnGolden
  <2> QED BY <1>3, <2>1, <2>2, SizesAssumption DEF OnGolden
<1>5. /\ fs \in Sparing /\ Len(fs) \in Nat /\ Len(fs) >= 1
      /\ 1 \in 1..Len(fs) /\ Len(fs) \in 1..Len(fs)
      /\ fs[1] \in Fault /\ fs[Len(fs)] \in Fault
  <2>1. fs \in Sparing /\ fs # <<>>
    BY <1>4, StartTyped
  <2> QED BY <2>1 DEF Sparing
<1>6. /\ instr' <= fs[1].trigger /\ instr' <= fs[Len(fs)].trigger
      /\ fs[1].trigger \in Nat /\ fs[Len(fs)].trigger \in Nat
  <2>1. \A j \in 1..Len(fs) : instr' <= fs[j].trigger
    BY <1>2 DEF ControlInv, JobInv, Running
  <2> QED BY <1>5, <2>1, FaultFields
<1>7. RefRun(RefStart(ladder[1].ctx, ResetRam, FlashImage, fs))[instr'] =
        RefState(ctx', ram', instr', "RUN", fs)
  <2>1. instr' \in 0..(GoldenLength - 1)
    BY <1>4, SizesAssumption
  <2>2. Golden[ladder[1].ctx][instr'].ctx = ctx' /\ Golden[ladder[1].ctx][instr'].ram = ram'
    BY <1>4
  <2> QED BY <1>4, <1>6, <2>1, <2>2, GoldenReplay
<1>8. Executed' = instr' /\ RefIndex' = instr'
  <2>1. emu'.done = 0 /\ emu'.error = FALSE /\ phase' # "finishing"
    BY <1>2, IdleIs
  <2>2. Executed' = instr' + 0
    BY <2>1, Zenon DEF Executed
  <2>3. Len(cur') - Len(todo') = 0
    BY <1>2, <1>5
  <2>4. RefIndex' = Executed' + 0 + 0
    BY <2>1, <2>3, Zenon DEF RefIndex
  <2> QED BY <1>4, <2>2, <2>4, NatSum, Zenon
<1>9. OnReference'
  <2>1. flash' = FlashImage
    BY <1>2 DEF ControlInv, FlashIntact
  <2> QED BY <1>2, <1>3, <1>7, <1>8, <2>1, IdleIs
      DEF OnReference, Reference, RefState
<1>10. LastTrigger' = fs[Len(fs)].trigger
  BY <1>2 DEF LastTrigger
<1>11. Executed' <= LastTrigger' + Budget
  BY <1>4, <1>6, <1>8, <1>10, BudgetNat
<1> QED BY <1>2, <1>3, <1>6, <1>9, <1>10, <1>11, IdleIs DEF ReplayInv

(***************************************************************************)
(* Starting and ending a batched advance moves neither of the two.         *)
(***************************************************************************)
LEMMA AdvanceReplay ==
  ASSUME SpareFlash, ControlInv, ControlInv', ReplayInv, Advance \/ Arrive
  PROVE  ReplayInv'
<1>1. /\ phase \in {"looping", "advancing"} /\ phase' \in {"applying", "advancing"}
      /\ UNCHANGED <<ctx, ram, flash, halted, ladder, cur, todo, row>>
  BY DEF Advance, Arrive, cpu, meters, worker, job
<1>2. /\ instr \in Nat /\ Budget \in Nat /\ LastTrigger \in Nat
      /\ Len(cur) - Len(todo) \in Nat /\ flash = FlashImage
  BY <1>1, RunningFacts DEF Running
<1>3. /\ instr' + emu'.done = instr + emu.done /\ ~emu.error /\ ~emu'.error
      /\ instr' \in Nat /\ instr' <= LastTrigger /\ emu'.done <= emu'.limit
      /\ ~halted
      /\ phase' = "applying" => emu' = Idle
  <2>1. CASE Advance
    <3>1. emu = Idle /\ ~halted /\ instr' = instr /\ instr <= LastTrigger
      BY <2>1 DEF Advance, ReplayInv, Running, meters
    <3>2. \/ phase' = "applying" /\ emu' = Idle
          \/ phase' = "advancing" /\ emu'.done = 0 /\ emu'.error = FALSE
      BY <2>1 DEF Advance, EmuStart
    <3>3. emu'.limit \in Nat
      BY DEF ControlInv, TypeOK
    <3> QED BY <1>2, <3>1, <3>2, <3>3, IdleIs
  <2>2. CASE Arrive
    <3>1. /\ phase = "advancing" /\ phase' = "applying" /\ emu' = Idle
          /\ ~halted /\ ~emu.error /\ emu.done = emu.limit /\ instr' = instr + emu.limit
      BY <2>2 DEF Arrive, Returned
    <3>2. /\ emu.limit \in Nat /\ instr + emu.limit = todo[1].trigger /\ todo # <<>>
      BY <3>1 DEF ControlInv, JobInv, TypeOK, Running
    <3>3. todo[1].trigger \in Nat /\ todo[1].trigger <= LastTrigger
      BY <3>1, <3>2, RunningFacts DEF Running
    <3> QED BY <1>2, <3>1, <3>2, <3>3, IdleIs
  <2> QED BY <2>1, <2>2
<1>4. Executed' = Executed /\ RefIndex' = RefIndex
  <2>1. Executed' = Executed
    BY <1>1, <1>3 DEF Executed
  <2> QED BY <1>1, <1>3, <2>1 DEF RefIndex
<1>5. OnReference'
  <2>1. OnReference
    BY <1>1 DEF ReplayInv, Running
  <2> QED BY <1>1, <1>3, <1>4, <2>1 DEF OnReference, Reference
<1>6. LastTrigger' = LastTrigger /\ Executed <= LastTrigger + Budget /\ row = NoRow
  BY <1>1 DEF LastTrigger, ReplayInv, Running
<1> QED BY <1>1, <1>3, <1>4, <1>5, <1>6 DEF ReplayInv

LEMMA FinishReplay ==
  ASSUME SpareFlash, ControlInv, ControlInv', ReplayInv, Finish
  PROVE  ReplayInv'
<1>1. /\ phase = "looping" /\ phase' = "finishing" /\ todo = <<>>
      /\ UNCHANGED <<ctx, ram, flash, halted, instr, ladder, cur, todo, row>>
  BY DEF Finish, cpu, meters, worker, job
<1>2. /\ instr \in Nat /\ Budget \in Nat /\ LastTrigger \in Nat
      /\ Len(cur) - Len(todo) \in Nat
  BY <1>1, RunningFacts DEF Running
<1>3. emu = Idle /\ ~halted /\ OnReference /\ instr <= LastTrigger /\ row = NoRow
  BY <1>1 DEF ReplayInv, Running
<1>4. /\ ~emu'.error /\ emu'.done <= emu'.limit
      /\ IF instr < Budget THEN emu'.done = 0 /\ instr + emu'.limit = Budget
         ELSE emu' = [Idle EXCEPT !.done = 1]
  <2>1. CASE instr < Budget
    <3>1. emu' = [limit |-> Budget - instr, done |-> 0, error |-> FALSE]
      BY <1>2, <2>1 DEF Finish, EmuStart
    <3>2. emu'.limit = Budget - instr /\ emu'.done = 0 /\ ~emu'.error
      BY <3>1
    <3> QED BY <1>2, <2>1, <3>2
  <2>2. CASE ~(instr < Budget)
    <3>1. emu' = [Idle EXCEPT !.done = 1]
      BY <1>2, <2>2 DEF Finish
    <3>2. emu'.limit = 1 /\ emu'.done = 1 /\ ~emu'.error
      BY <3>1 DEF Idle
    <3> QED BY <2>2, <3>1, <3>2
  <2> QED BY <2>1, <2>2
<1>5. Executed = instr /\ Executed' = instr /\ RefIndex' = RefIndex
  <2>1. Executed = instr
    BY <1>1, <1>2, <1>3, IdleIs DEF Executed
  <2>2. Executed' = instr
    BY <1>1, <1>2, <1>4 DEF Executed
  <2> QED BY <1>1, <1>3, <1>4, <2>1, <2>2, IdleIs DEF RefIndex
<1>6. OnReference'
  BY <1>1, <1>3, <1>4, <1>5, IdleIs DEF OnReference, Reference
<1>7. LastTrigger' = LastTrigger /\ instr <= LastTrigger + Budget
  BY <1>1, <1>2, <1>3 DEF LastTrigger
<1> QED BY <1>1, <1>3, <1>4, <1>5, <1>6, <1>7 DEF ReplayInv

(***************************************************************************)
(* _apply(): each model does to the emulator what it does to the           *)
(* reference.                                                              *)
(***************************************************************************)
LEMMA ApplyReplay ==
  ASSUME SpareFlash, ControlInv, ControlInv', ReplayInv, Apply
  PROVE  ReplayInv'
<1> DEFINE f == todo[1]
<1>1. /\ phase = "applying" /\ phase' \in {"finishing", "looping"} /\ Running
      /\ todo' = Tail(todo)
      /\ UNCHANGED <<halted, marks, instr, ladder, cur, row>>
  BY DEF Apply, meters, worker, Running
<1>2. todo # <<>> /\ instr = todo[1].trigger /\ instr >= todo[1].trigger
  <2>1. todo # <<>> /\ instr = todo[1].trigger
    BY <1>1 DEF ControlInv, JobInv
  <2> QED BY <2>1 DEF ControlInv, TypeOK
<1>3. /\ todo \in Sparing /\ flash = FlashImage /\ instr \in Nat
      /\ Len(cur) - Len(todo) \in Nat /\ Len(cur) \in Nat /\ Len(todo) \in Nat
      /\ Budget \in Nat /\ LastTrigger \in Nat
  BY <1>1, RunningFacts
<1>4. /\ f \in Fault /\ Head(todo) = f
      /\ f.model \in {"SKIP", "REG_XOR", "REG_SET", "MEM_XOR"}
      /\ f.model = "MEM_XOR" => f.target \notin FlashCell
      /\ Tail(todo) \in Sparing
  BY <1>2, <1>3, SparingHead
<1>5. emu = Idle /\ ~halted /\ instr <= LastTrigger /\ row = NoRow
  BY <1>1 DEF ReplayInv
<1>6. Executed = instr /\ RefIndex = instr + (Len(cur) - Len(todo)) /\ HaltNow = "RUN"
  <2>1. Executed = instr
    BY <1>1, <1>3, <1>5, IdleIs DEF Executed
  <2>2. RefIndex = instr + (Len(cur) - Len(todo)) + 0
    BY <1>5, <2>1, IdleIs DEF RefIndex
  <2> QED BY <1>3, <1>5, <2>1, <2>2, IdleIs DEF HaltNow
<1>7. /\ RefIndex \in Nat
      /\ \A k \in Nat : Reference[k + 1] = RefNext(Reference[k])
      /\ \/ \A k \in Nat : k >= RefIndex => Reference[k].halt = "WINDOW"
         \/ Reference[RefIndex + 1] = RefNext(RefState(ctx, ram, instr, "RUN", todo))
  BY <1>1, <1>6, IndexFacts, RunningFacts
<1>8. ctx \in Context /\ ram \in RamImage /\ flash' = FlashImage
  BY <1>3, ApplyTyped DEF ControlInv, TypeOK
<1>9. Reference' = Reference /\ LastTrigger' = LastTrigger
  BY <1>1 DEF Reference, LastTrigger
<1>10. Len(todo') = Len(todo) - 1
  BY <1>1, <1>2, <1>3 DEF Sparing
<1>11. instr <= LastTrigger + Budget
  BY <1>3, <1>5
<1> HIDE DEF f
<1>12. CASE ReadsUnmapped(f)
  <2>1. /\ emu' = [Idle EXCEPT !.error = TRUE] /\ phase' = "finishing"
        /\ UNCHANGED <<ctx, ram, flash>>
    BY <1>4, <1>12 DEF Apply, cpu
  <2>2. emu'.error /\ emu'.done = 0 /\ emu'.limit = 1
    BY <2>1 DEF Idle
  <2>3. \/ f.model = "SKIP" /\ ctx.pc \notin Mapped /\ FixedInsnBytes = 0
        \/ f.model = "MEM_XOR" /\ f.target \notin Mapped
    BY <1>4, <1>12 DEF ReadsUnmapped
  <2>4. RefHit(RefState(ctx, ram, instr, "RUN", todo), todo[1])
          = RefState(ctx, ram, instr, "CPUFAULT", todo)
    BY <1>4, <2>3, RefReadsUnmapped DEF f
  <2>5. RefNext(RefState(ctx, ram, instr, "RUN", todo))
          = RefState(ctx, ram, instr, "CPUFAULT", Tail(todo))
    <3>1. /\ instr \in Nat /\ todo \in Sparing /\ todo # <<>>
          /\ instr >= todo[1].trigger
      BY <1>2, <1>3
    <3> QED BY <3>1, <2>4, RefNextHits
  <2>6. \/ Reference[RefIndex + 1 + 1].halt = "WINDOW"
        \/ Reference[RefIndex + 1 + 1] = RefState(ctx, ram, instr, "CPUFAULT", Tail(todo))
    <3>1. RefNext(RefState(ctx, ram, instr, "CPUFAULT", Tail(todo)))
            = RefState(ctx, ram, instr, "CPUFAULT", Tail(todo))
      BY DEF RefNext, RefState
    <3>2. RefIndex + 1 \in Nat /\ RefIndex + 1 + 1 \in Nat
          /\ RefIndex + 1 + 1 >= RefIndex
      BY <1>7
    <3> QED BY <1>7, <2>5, <3>1, <3>2
  <2>7. Executed' = instr /\ RefIndex' = RefIndex + 1 + 1
    <3>1. Executed' = instr
      BY <1>1, <1>3, <2>2 DEF Executed
    <3>2. RefIndex' = instr + (Len(cur) - (Len(todo) - 1)) + 1
      BY <1>1, <1>10, <2>2, <3>1 DEF RefIndex
    <3> QED BY <1>3, <1>6, <3>1, <3>2
  <2>8. OnReference'
    BY <1>1, <1>8, <1>9, <2>1, <2>2, <2>6, <2>7 DEF OnReference, RefState
  <2> QED BY <1>1, <1>5, <1>9, <1>11, <2>1, <2>2, <2>7, <2>8 DEF ReplayInv
<1>13. CASE ~ReadsUnmapped(f)
  <2>1. /\ ApplySkip(f) \/ ApplyReg(f) \/ ApplyMem(f) \/ ApplyOpcode(f)
        /\ phase' = "looping" /\ emu' = Idle
    BY <1>4, <1>13 DEF Apply
  <2>2. LET h == RefHit(RefState(ctx, ram, instr, "RUN", todo), todo[1])
        IN  \/ h = RefState(ctx', ram', instr, "RUN", todo)
            \/ h = RefState(ctx, ram, instr, "WINDOW", todo)
    <3>1. CASE ApplySkip(f) /\ (ctx.pc \notin WindowCell \/ FixedInsnBytes # 0)
      <4>1. /\ f.model = "SKIP" /\ (ctx.pc \in Mapped \/ FixedInsnBytes # 0)
            /\ ctx' = [ctx EXCEPT !.pc = ctx.pc + SkipBytes(Memory, ctx.pc, f.value)]
            /\ ram' = ram
        BY <1>13, <3>1 DEF ApplySkip, ReadsUnmapped
      <4>2. SkipBytes(Memory, ctx.pc, f.value)
              = SkipBytes(RefSees(ctx, ram), ctx.pc, f.value)
        <5>1. CASE FixedInsnBytes # 0
          BY <5>1 DEF SkipBytes
        <5>2. CASE FixedInsnBytes = 0
          <6>1. window \in WindowImage /\ flash \in [FlashCell -> Code]
            BY DEF ControlInv, TypeOK
          <6>2. ctx.pc \in Mapped /\ ctx.pc \notin WindowCell
            BY <3>1, <4>1, <5>2
          <6>3. Memory = RefSees(ctx, ram)
            BY <1>3, <1>8, <6>1, <6>2, AroundIs DEF Memory, RefSees
          <6> QED BY <6>3
        <5> QED BY <5>1, <5>2
      <4>3. ctx.pc \in Mapped \ WindowCell \/ FixedInsnBytes # 0
        BY <3>1, <4>1
      <4>4. RefHit(RefState(ctx, ram, instr, "RUN", todo), f) =
              RefState([ctx EXCEPT !.pc =
                          ctx.pc + SkipBytes(RefSees(ctx, ram), ctx.pc, f.value)],
                       ram, instr, "RUN", todo)
        BY <1>4, <1>8, <4>1, <4>3, RefSkips
      <4> QED BY <4>1, <4>2, <4>4 DEF f
    <3>2. CASE ApplySkip(f) /\ ctx.pc \in WindowCell /\ FixedInsnBytes = 0
      <4>1. f \in Fault /\ f.model = "SKIP"
        BY <1>4, <3>2 DEF ApplySkip
      <4> QED BY <3>2, <4>1, RefSkipsWindow DEF f
    <3>3. CASE ApplyReg(f)
      <4>1. /\ f.model \in {"REG_XOR", "REG_SET"} /\ ram' = ram
            /\ ctx' = [ctx EXCEPT !.regs[f.target] =
                         IF f.model = "REG_SET" THEN f.value
                         ELSE XorWord(ctx.regs[f.target], f.value)]
        BY <3>3 DEF ApplyReg
      <4> QED BY <1>4, <1>8, <4>1, RefSetsReg DEF f
    <3>4. CASE ApplyMem(f)
      <4>1. /\ f \in Fault /\ f.model = "MEM_XOR" /\ ctx' = ctx
            /\ f.target \in Mapped /\ f.target \notin FlashCell
            /\ ram' = IF f.target \in RamCell
                      THEN [ram EXCEPT ![f.target] = XorWord(ram[f.target], f.value)]
                      ELSE ram
        BY <1>4, <1>13, <3>4 DEF ApplyMem, XorCell, ReadsUnmapped
      <4> QED BY <4>1, RefFlips DEF f
    <3>5. ~ApplyOpcode(f)
      BY <1>4 DEF ApplyOpcode
    <3> QED BY <2>1, <3>1, <3>2, <3>3, <3>4, <3>5
  <2>3. \/ Reference[RefIndex + 1].halt = "WINDOW"
        \/ Reference[RefIndex + 1] = RefState(ctx', ram', instr, "RUN", Tail(todo))
    <3>1. LET h == RefNext(RefState(ctx, ram, instr, "RUN", todo))
          IN  \/ h = RefState(ctx', ram', instr, "RUN", Tail(todo))
              \/ h = RefState(ctx, ram, instr, "WINDOW", Tail(todo))
      <4>1. /\ instr \in Nat /\ todo \in Sparing /\ todo # <<>>
            /\ instr >= todo[1].trigger
        BY <1>2, <1>3
      <4> QED BY <4>1, <2>2, RefNextHits
    <3>2. RefState(ctx, ram, instr, "WINDOW", Tail(todo)).halt = "WINDOW"
      BY DEF RefState
    <3>3. RefIndex + 1 \in Nat /\ RefIndex + 1 >= RefIndex
      BY <1>7
    <3> QED BY <1>7, <3>1, <3>2, <3>3
  <2>4. Executed' = instr /\ RefIndex' = RefIndex + 1
    <3>1. Executed' = instr
      BY <1>1, <1>3, <2>1, IdleIs DEF Executed
    <3>2. RefIndex' = instr + (Len(cur) - (Len(todo) - 1)) + 0
      BY <1>1, <1>10, <2>1, <3>1, IdleIs DEF RefIndex
    <3> QED BY <1>3, <1>6, <3>1, <3>2
  <2>5. OnReference'
    BY <1>1, <1>5, <1>8, <1>9, <2>1, <2>3, <2>4, IdleIs DEF OnReference, RefState
  <2> QED BY <1>1, <1>5, <1>9, <1>11, <2>1, <2>4, <2>5, IdleIs DEF ReplayInv
<1> QED BY <1>12, <1>13

(***************************************************************************)
(* run() returns where the reference ends.                                 *)
(***************************************************************************)
LEMMA RefNextEnds ==
  ASSUME NEW c, NEW m, NEW n \in Nat, n >= Budget
  PROVE  RefNext(RefState(c, m, n, "RUN", <<>>)) = RefState(c, m, n, "BUDGET", <<>>)
  BY DEF RefNext, RefState

LEMMA EndsAt ==
  ASSUME SpareFlash, ControlInv, Running,
         NEW k \in Nat, k <= LastTrigger + Budget + Len(cur) + 1,
         Reference[k].halt # "RUN"
  PROVE  Replay(RefBegin) = Reference[k]
<1>1. RefBegin \in RefStates /\ LastTrigger \in Nat /\ Budget \in Nat /\ Len(cur) \in Nat
  BY RunningFacts
<1>2. RefBegin.todo = cur
  BY DEF RefBegin, RefStart
<1>3. RefSteps(cur) = LastTrigger + Budget + Len(cur) + 1
  BY DEF RefSteps, LastTrigger
<1>4. RefSteps(cur) \in Nat /\ RefSteps(cur) >= k
  BY <1>1, <1>3
<1>5. Reference = RefRun(RefBegin)
  BY DEF Reference, RefBegin
<1>6. RefRun(RefBegin)[RefSteps(cur)] = RefRun(RefBegin)[k]
  BY <1>1, <1>4, <1>5, RefStays
<1> QED BY <1>2, <1>5, <1>6 DEF Replay

LEMMA ReturnReplay ==
  ASSUME SpareFlash, ControlInv, ReplayInv, Return
  PROVE  ReplayInv'
<1>1. /\ Running /\ phase \in {"finishing", "advancing"} /\ phase' = "ready"
      /\ UNCHANGED <<ctx, ram, flash, halted, ladder, cur, todo>>
      /\ row' = [Result(HaltReason) EXCEPT !.instructions = instr']
      /\ instr' = IF phase = "finishing" /\ HaltReason = "BUDGET" /\ instr < Budget
                  THEN Budget ELSE instr
  BY DEF Return, Running, cpu, worker
<1>2. /\ LastTrigger \in Nat /\ Budget \in Nat /\ Len(cur) \in Nat /\ Len(todo) \in Nat
      /\ instr \in Nat /\ emu.done \in Nat /\ emu.limit \in Nat
      /\ Len(cur) - Len(todo) \in Nat
  BY <1>1, RunningFacts
<1>3. /\ Executed \in Nat /\ RefIndex \in Nat
      /\ ~Lost =>
           /\ Reference[RefIndex] = RefState(ctx, ram, Executed, HaltNow, todo)
           /\ Reference[RefIndex + 1] = RefNext(RefState(ctx, ram, Executed, HaltNow, todo))
  BY <1>1, IndexFacts
<1>4. Executed <= LastTrigger + Budget
  BY <1>1 DEF ReplayInv
<1>5. RefIndex <= LastTrigger + Budget + Len(cur) + 1
      /\ (~emu.error => RefIndex <= LastTrigger + Budget + Len(cur))
  <2>1. emu.error => RefIndex = Executed + (Len(cur) - Len(todo)) + 1
    BY DEF RefIndex
  <2>2. ~emu.error => RefIndex = Executed + (Len(cur) - Len(todo)) + 0
    BY DEF RefIndex
  <2> QED BY <1>2, <1>3, <1>4, <2>1, <2>2
<1>6. CASE Lost
  <2>1. Replay(RefBegin) = Reference[RefIndex]
    BY <1>1, <1>3, <1>5, <1>6, EndsAt DEF Lost
  <2>2. Replay(RefBegin)'.halt = "WINDOW"
    BY <1>1, <1>6, <2>1 DEF Lost, RefBegin
  <2> QED BY <1>1, <2>2 DEF ReplayInv, Running, IsRowOf, RefBegin
<1>7. ASSUME ~Lost
      PROVE  \E n \in Nat :
               /\ Replay(RefBegin) = RefState(ctx, ram, n, HaltReason, todo)
               /\ HaltReason = "BUDGET" => instr' = n
  <2> USE <1>7
  <2>1. CASE emu.error \/ halted
    <3>1. HaltNow = HaltReason /\ HaltNow \in {"CPUFAULT", "ORACLE"}
      BY <2>1 DEF HaltNow, HaltReason
    <3>2. Reference[RefIndex].halt # "RUN"
      BY <1>3, <3>1 DEF RefState
    <3>3. Replay(RefBegin) = RefState(ctx, ram, Executed, HaltReason, todo)
      BY <1>1, <1>3, <1>5, <3>1, <3>2, EndsAt
    <3> QED BY <1>3, <3>1, <3>3
  <2>2. CASE ~emu.error /\ ~halted
    <3>1. HaltNow = "RUN" /\ HaltReason = "BUDGET"
      BY <2>2 DEF HaltNow, HaltReason
    <3>2. /\ phase = "finishing" /\ emu.done = emu.limit /\ todo = <<>>
          /\ IF instr < Budget THEN instr + emu.limit = Budget
             ELSE emu = [Idle EXCEPT !.done = 1] /\ ~halted
      BY <1>1, <2>2 DEF Return, Returned, ReplayInv
    <3>3. Executed >= Budget /\ instr' = Executed
      <4>1. CASE instr < Budget
        BY <1>1, <1>2, <3>1, <3>2, <4>1 DEF Executed
      <4>2. CASE ~(instr < Budget)
        <5>1. Executed = instr + 0
          BY <1>2, <3>2, <4>2 DEF Executed
        <5> QED BY <1>1, <1>2, <4>2, <5>1
      <4> QED BY <4>1, <4>2
    <3>4. Reference[RefIndex + 1] = RefState(ctx, ram, Executed, "BUDGET", <<>>)
      <4>1. RefNext(RefState(ctx, ram, Executed, "RUN", <<>>))
              = RefState(ctx, ram, Executed, "BUDGET", <<>>)
        BY <1>3, <3>3, RefNextEnds
      <4> QED BY <1>3, <3>1, <3>2, <4>1
    <3>5. /\ Reference[RefIndex + 1].halt # "RUN" /\ RefIndex + 1 \in Nat
          /\ RefIndex + 1 <= LastTrigger + Budget + Len(cur) + 1
      <4>1. RefIndex + 1 <= LastTrigger + Budget + Len(cur) + 1
        BY <1>2, <1>3, <1>5, <2>2
      <4> QED BY <1>3, <3>4, <4>1 DEF RefState
    <3>6. Replay(RefBegin) = RefState(ctx, ram, Executed, "BUDGET", <<>>)
      BY <1>1, <3>4, <3>5, EndsAt
    <3> QED BY <1>3, <3>1, <3>2, <3>3, <3>6
  <2> QED BY <2>1, <2>2
<1>8. row'.halt = HaltReason /\ row'.ram = ram /\ row'.pc = ctx.pc
      /\ row'.instructions = instr'
  BY <1>1 DEF Result
<1>9. ASSUME ~Lost PROVE IsRowOf(row, ladder[1].ctx)'
  <2>1. RefBegin' = RefBegin
    BY <1>1 DEF RefBegin
  <2>2. PICK n \in Nat : /\ Replay(RefBegin) = RefState(ctx, ram, n, HaltReason, todo)
                         /\ HaltReason = "BUDGET" => instr' = n
    BY <1>7, <1>9
  <2> DEFINE ref == Replay(RefStart(ladder[1].ctx, ResetRam, FlashImage, cur))
  <2>3. ref' = RefState(ctx, ram, n, HaltReason, todo)
    BY <1>1, <2>2 DEF RefBegin
  <2>4. ref'.halt = HaltReason /\ ref'.ram = ram /\ ref'.ctx = ctx /\ ref'.n = n
    BY <2>3 DEF RefState
  <2> QED BY <1>8, <2>2, <2>4 DEF IsRowOf
<1> QED BY <1>1, <1>6, <1>9 DEF ReplayInv, Running

LEMMA SetupReplay ==
  ASSUME ReplayInv, StartTrace \/ EndTrace \/ StartLadder \/ Rung \/ EndLadder
  PROVE  ReplayInv'
<1>1. /\ phase \in {"spawned", "tracing", "traced", "climbing"} /\ row' = row
      /\ phase' \in {"tracing", "traced", "climbing", "ready", "dead"}
  BY DEF StartTrace, EndTrace, StartLadder, Rung, EndLadder, job
<1>2. row = NoRow
  BY <1>1 DEF ReplayInv
<1> QED BY <1>1, <1>2, NotRunningReplay DEF Running

LEMMA IdleReplay ==
  ASSUME ReplayInv, UNCHANGED vars
  PROVE  ReplayInv'
  BY DEF ReplayInv, OnReference, Reference, RefIndex, Executed, Running, LastTrigger,
         IsRowOf, vars, cpu, meters, worker, job

LEMMA NextReplay ==
  ASSUME SpareFlash, IInv, [Next]_vars
  PROVE  IInv'
<1>1. ControlInv /\ ReplayInv /\ ControlInv'
  BY NextInv DEF IInv
<1>2. CASE Execute
  BY <1>1, <1>2, ExecuteReplay DEF IInv
<1>3. CASE StartTrace \/ EndTrace \/ StartLadder \/ Rung \/ EndLadder
  BY <1>1, <1>3, SetupReplay DEF IInv
<1>4. CASE \E fs \in FaultSets : RunOne(fs)
  BY <1>1, <1>4, RunReplay DEF IInv
<1>5. CASE Advance \/ Arrive
  BY <1>1, <1>5, AdvanceReplay DEF IInv
<1>6. CASE Apply
  BY <1>1, <1>6, ApplyReplay DEF IInv
<1>7. CASE Finish
  BY <1>1, <1>7, FinishReplay DEF IInv
<1>8. CASE Return
  BY <1>1, <1>8, ReturnReplay DEF IInv
<1>9. CASE UNCHANGED vars
  BY <1>1, <1>9, IdleReplay DEF IInv
<1> QED BY <1>2, <1>3, <1>4, <1>5, <1>6, <1>7, <1>8, <1>9 DEF Next, Worker

(***************************************************************************)
(* A campaign whose faults spare flash keeps the whole inductive           *)
(* invariant: whatever the CPU, the firmware, the ladder spacing and the   *)
(* budget, each run is in step with its fault set executed alone.          *)
(***************************************************************************)
THEOREM Inductive == ASSUME SpareFlash PROVE Spec => []IInv
<1>1. Init => IInv
  <2>1. Init => ReplayInv
    BY DEF Init, ReplayInv, Running
  <2> QED BY <2>1, InitInv DEF IInv
<1>2. IInv /\ [Next]_vars => IInv'
  BY NextReplay
<1> QED BY <1>1, <1>2, PTL DEF Spec

(***************************************************************************)
(* Every row the worker returns is the row of its fault set executed       *)
(* alone: restoring a rung, batching the advance and the runs before it on *)
(* the same emulator change nothing, over the whole run and not only up to *)
(* its first fault.  Excepted are the fault sets whose program, executed   *)
(* alone, reads or executes the ORACLE window, which no reset clears.      *)
(***************************************************************************)
THEOREM RowIsReplay == ASSUME SpareFlash PROVE Spec => []RunIsReplay
<1>1. IInv => RunIsReplay
  BY DEF IInv, ReplayInv, RunIsReplay
<1> QED BY <1>1, Inductive, PTL

(***************************************************************************)
(* When every register but SP is in the list that reset() zeroes, as on    *)
(* RV32, the row does not even depend on how the worker got its reset      *)
(* state: it is the row of a freshly constructed emulator, with the same   *)
(* exception.                                                              *)
(***************************************************************************)
THEOREM RowIsFreshReplay ==
  ASSUME SpareFlash, Reg \ {SpReg} \subseteq ZeroRegs
  PROVE  Spec => []RunIsFreshReplay
<1> DEFINE Powered == PowerOn # {}
<1>1. ASSUME NEW c, NEW d PROVE ResetCtx(c) = ResetCtx(d)
  BY DEF ResetCtx
<1>2. Init => Powered
  BY DEF Init
<1>3. IInv /\ Powered => RunIsFreshReplay
  <2> SUFFICES ASSUME IInv, Powered, row # NoRow
               PROVE  \E c \in PowerOn : IsRowOf(row, ResetCtx(c))
    BY DEF RunIsFreshReplay
  <2>1. phase = "ready" /\ IsRowOf(row, ladder[1].ctx)
    BY DEF IInv, ReplayInv
  <2>2. ladder[1].ctx \in ResetContexts
    BY <2>1 DEF IInv, ControlInv, LadderInv
  <2>3. PICK c : ladder[1].ctx = ResetCtx(c)
    BY <2>2 DEF ResetContexts
  <2>4. PICK d \in PowerOn : TRUE
    OBVIOUS
  <2>5. ladder[1].ctx = ResetCtx(d)
    BY <1>1, <2>3
  <2> QED BY <2>1, <2>4, <2>5
<1>4. Powered /\ [Next]_vars => Powered'
  OBVIOUS
<1> HIDE DEF Powered
<1> QED BY <1>2, <1>3, <1>4, Inductive, PTL DEF Spec
=============================================================================
