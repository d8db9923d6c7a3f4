----------------------------- MODULE QemuBackend -----------------------------
(***************************************************************************)
(* backend/qemu_backend.py: one QEMU process, driven one instruction at a  *)
(* time through its gdbstub, that serves any number of runs.  There is no  *)
(* ladder and no oracle hook: every run starts from reset(), and the halt  *)
(* is a program counter that stops advancing.                              *)
(*                                                                         *)
(* A command of the debugging protocol is one step here; GdbRsp models     *)
(* what lies below it.  The emulated board is external: an instruction it  *)
(* retires is the constant BoardExec, flash is writable SRAM, a store to   *)
(* the ORACLE window is absorbed, and a CPU error ends in the firmware's   *)
(* handler or takes the QEMU process down.                                 *)
(*                                                                         *)
(* The row it is compared with is the Unicorn backend's, whose CPU is the  *)
(* constant Exec.  The two need not count the same instructions.           *)
(***************************************************************************)
EXTENDS Integers, Sequences

CONSTANTS
  Reg, ZeroRegs, SpReg, Word, Code, RamCell, FlashCell, WindowCell,
  FlashImage, ResetWrites, InitialSp, Entry, Garbage,
  BoardExec(_, _, _),       \* BoardExec(ctx, ram, code): QEMU retires one
  Exec(_, _, _, _),         \* as in UnicornBackend: one of Unicorn's count
  XorWord(_, _), FlipCode(_, _), AsCode(_), InsnWidth(_),
  FaultSets,                \* the experiments sent to the backend
  GoldenLength, Budget,
  PowerOn,                  \* contexts of a started QEMU process
  UnicornReset,             \* the context that the Unicorn row starts from
  HandlerPc,                \* where an exception handler of the firmware spins
  MaxRuns                   \* bound: runs served by one process

SpinThreshold == 3    \* _SPIN_THRESHOLD

Context == [pc : Nat, regs : [Reg -> Word]]
RamImage == [RamCell -> Word]
Flash == [FlashCell -> Code]
WindowImage == [WindowCell -> Word]
Blank == [a \in WindowCell |-> 0]

SkipFault == [trigger : Nat, model : {"SKIP"}, value : Nat]
RegFault  == [trigger : Nat, model : {"REG_XOR", "REG_SET"},
              target : Reg, value : Word]
MemFault  == [trigger : Nat, model : {"MEM_XOR"},
              target : Nat, value : Word]
OpcodeFault == [trigger : Nat, model : {"OPCODE_XOR"}, value : Word]
Fault == SkipFault \cup RegFault \cup MemFault \cup OpcodeFault

(***************************************************************************)
(* The meaning of an experiment, for variable-width instructions.          *)
(***************************************************************************)
INSTANCE Replay WITH FixedInsnBytes <- 0

ResetRam ==
  [a \in RamCell |-> IF a \in DOMAIN ResetWrites THEN ResetWrites[a] ELSE 0]

ResetCtx(c) ==
  [pc |-> Entry,
   regs |-> [r \in Reg |-> IF r = SpReg THEN InitialSp
                           ELSE IF r \in ZeroRegs THEN 0
                           ELSE c.regs[r]]]

ResetContexts == {ResetCtx(c) : c \in [pc : {Entry}, regs : [Reg -> Word]]}

ASSUME SizesAssumption ==
  /\ GoldenLength \in Nat \ {0} /\ MaxRuns \in Nat
  /\ Budget \in Nat /\ GoldenLength + SpinThreshold < Budget

ASSUME DataAssumption ==
  /\ Mapped \subseteq Nat
  /\ RamCell \cap FlashCell = {} /\ WindowCell \cap (RamCell \cup FlashCell) = {}
  /\ Entry \in Nat /\ HandlerPc \in Nat
  /\ FlashImage \in Flash
  /\ Garbage \in Code
  /\ 0 \in Word /\ InitialSp \in Word
  /\ SpReg \notin ZeroRegs
  /\ ResetRam \in RamImage
  /\ PowerOn \subseteq Context
  /\ UnicornReset \in ResetContexts
  /\ \A c \in Code : InsnWidth(c) \in Nat

ASSUME FaultsAssumption ==
  \A fs \in FaultSets :
    /\ fs \in Seq(Fault)
    /\ fs # <<>>
    /\ \A i, j \in 1..Len(fs) : i <= j => fs[i].trigger <= fs[j].trigger

(***************************************************************************)
(* The external CPUs: an instruction yields a next context, RAM, the flash *)
(* cells it stores to, and one event, as in UnicornBackend.                *)
(***************************************************************************)
IsOutcome(e) ==
  /\ e.ctx \in Context
  /\ e.ram \in RamImage
  /\ e.stray \subseteq FlashCell
  /\ e.event \in {"run", "halt", "trap"}

ASSUME ExecAssumption ==
  \A pc \in Mapped, regs \in [Reg -> Word], m \in RamImage, op \in Code :
    /\ IsOutcome(Exec([pc |-> pc, regs |-> regs], m, Blank, op))
    /\ IsOutcome(BoardExec([pc |-> pc, regs |-> regs], m, op))

ASSUME XorAssumption ==
  /\ \A v \in Word : AsCode(v) \in Code
  /\ \A v, w \in Word : XorWord(v, w) \in Word
  /\ \A c \in Code, w \in Word : FlipCode(c, w) \in Code

(***************************************************************************)
(* The golden run halts with the last of GoldenLength instructions, as     *)
(* Unicorn counts them (golden_length()).                                  *)
(***************************************************************************)
ASSUME GoldenAssumption ==
  LET run == RefRun(RefStart(UnicornReset, ResetRam, FlashImage, <<>>))
  IN  run[GoldenLength - 1].halt = "RUN" /\ run[GoldenLength].halt = "ORACLE"

VARIABLES
  phase, ctx, ram, flash,
  instr,              \* self._instr
  prevPc, stuck,      \* locals of _run_until_halt
  record,             \* its record argument; run() passes none
  cur, todo,          \* the fault set of the run; its faults not yet applied
  result,
  runs,               \* runs served by this process (for MaxRuns)
  origin              \* history: the core as the last reset() left it

core == <<ctx, ram, flash>>
spin == <<prevPc, stuck>>
job == <<cur, origin, runs>>
vars == <<phase, core, instr, spin, record, todo, result, job>>

NoPc == -1
NoResult == [halt |-> "NONE"]

(***************************************************************************)
(* reset(): RAM, the oracle header, the vector, R0-R12, LR, SP and PC are  *)
(* written.  The condition flags and flash are not.                        *)
(***************************************************************************)
Bug_Reset ==          \* R0-R12 are left as the last run left them
  /\ ctx' = [pc |-> Entry, regs |-> [ctx.regs EXCEPT ![SpReg] = InitialSp]]
  /\ ram' = ResetRam
  /\ flash' = flash
  /\ instr' = 0
  /\ origin' = [ctx |-> ctx', flash |-> flash]

Reset ==
  /\ ctx' = ResetCtx(ctx)
  /\ ram' = ResetRam
  /\ flash' = flash
  /\ instr' = 0
  /\ origin' = [ctx |-> ctx', flash |-> flash]

Init ==
  /\ phase = "down"
  /\ ctx \in PowerOn /\ ram = [a \in RamCell |-> 0] /\ flash = FlashImage
  /\ instr = 0 /\ prevPc = NoPc /\ stuck = 0 /\ record = <<>>
  /\ cur = <<>> /\ todo = <<>> /\ result = NoResult /\ runs = 0
  /\ origin = [ctx |-> ctx, flash |-> flash]

(***************************************************************************)
(* start(): QEMU loads the image and stops the core (-kernel, -S).         *)
(* close() terminates it.                                                  *)
(***************************************************************************)
Start ==
  /\ phase = "down"
  /\ phase' = "up"
  /\ ctx' \in PowerOn /\ ram' = [a \in RamCell |-> 0] /\ flash' = FlashImage
  /\ runs' = 0
  /\ UNCHANGED <<instr, spin, record, cur, origin, todo, result>>

Close ==
  /\ phase \in {"up", "broken"}
  /\ phase' = "down"
  /\ result' = NoResult /\ cur' = <<>>
  /\ UNCHANGED <<core, instr, spin, record, todo, origin, runs>>

(***************************************************************************)
(* The core executes one instruction, from flash or from RAM.              *)
(***************************************************************************)
Fetched(pc, m) == Around(pc, m, Blank, flash)[pc]
Executable == FlashCell \cup RamCell

Raises ==
  ctx.pc \in Executable => BoardExec(ctx, ram, Fetched(ctx.pc, ram)).event = "trap"

CpuStep ==
  IF Raises
  THEN /\ ctx' = [ctx EXCEPT !.pc = HandlerPc]
       /\ UNCHANGED <<ram, flash>>
  ELSE LET e == BoardExec(ctx, ram, Fetched(ctx.pc, ram))
       IN  /\ ctx' = e.ctx
           /\ ram' = e.ram
           /\ flash' = [a \in FlashCell |->
                          IF a \in e.stray THEN Garbage ELSE flash[a]]

Stepping == phase \in {"approaching", "halting"}

QemuExits ==
  /\ Stepping /\ Raises
  /\ phase' = "broken"
  /\ UNCHANGED <<core, instr, spin, record, todo, result, job>>

(***************************************************************************)
(* trace() after reset(), and run() with a vector to inject.               *)
(***************************************************************************)
Begin ==
  /\ phase = "up" /\ runs < MaxRuns
  /\ Reset
  /\ runs' = runs + 1
  /\ prevPc' = NoPc /\ stuck' = 0 /\ record' = <<>> /\ result' = NoResult

Trace ==
  /\ Begin
  /\ phase' = "halting"
  /\ cur' = <<>> /\ todo' = <<>>

Run(fs) ==
  /\ Begin
  /\ phase' = "approaching"
  /\ cur' = fs /\ todo' = fs

AtTrigger == instr >= Head(todo).trigger \/ instr >= Budget

Bug_Approach ==       \* the step is not counted
  /\ phase = "approaching" /\ todo # <<>> /\ ~AtTrigger
  /\ CpuStep
  /\ UNCHANGED <<phase, instr, spin, record, todo, result, job>>

Approach ==
  /\ phase = "approaching" /\ todo # <<>> /\ ~AtTrigger
  /\ CpuStep
  /\ instr' = instr + 1
  /\ UNCHANGED <<phase, spin, record, todo, result, job>>

(***************************************************************************)
(* _skip_bytes() decodes what is in memory now.  An access to an unmapped  *)
(* cell is an error reply, which read_mem raises; the ORACLE window, where *)
(* the board has no device, answers with an error or absorbs the access.   *)
(***************************************************************************)
SkipBytes(code, pc, k) ==
  LET at[i \in 0..k] ==
        IF i = 0 THEN pc
        ELSE at[i - 1] + (IF at[i - 1] \in DOMAIN code
                          THEN InsnWidth(code[at[i - 1]]) ELSE 0)
  IN  IF at[k] = pc THEN 1 ELSE at[k] - pc

ApplySkip(f) ==
  /\ f.model = "SKIP"
  /\ ctx' = [ctx EXCEPT !.pc = @ + SkipBytes(Around(@, ram, Blank, flash), @, f.value)]
  /\ UNCHANGED <<ram, flash>>

ApplyReg(f) ==
  /\ f.model \in {"REG_XOR", "REG_SET"}
  /\ ctx' = [ctx EXCEPT !.regs[f.target] =
               IF f.model = "REG_SET" THEN f.value ELSE XorWord(@, f.value)]
  /\ UNCHANGED <<ram, flash>>

ApplyMem(f) ==
  /\ f.model = "MEM_XOR"
  /\ ram' = IF f.target \in RamCell
            THEN [ram EXCEPT ![f.target] = XorWord(@, f.value)] ELSE ram
  /\ flash' = IF f.target \in FlashCell
              THEN [flash EXCEPT ![f.target] = FlipCode(@, f.value)] ELSE flash
  /\ ctx' = ctx

Touched(f) == CASE f.model = "SKIP" -> {ctx.pc}
                [] f.model = "MEM_XOR" -> {f.target}
                [] OTHER -> {}

Unsupported(f) == f.model = "OPCODE_XOR" \/ ~(Touched(f) \subseteq Mapped)

Apply ==
  /\ phase = "approaching" /\ todo # <<>> /\ AtTrigger
  /\ LET f == Head(todo)
     IN  \/ /\ Unsupported(f) \/ Touched(f) \cap WindowCell # {}
            /\ phase' = "broken"
            /\ UNCHANGED core
         \/ /\ ~Unsupported(f)
            /\ ApplySkip(f) \/ ApplyReg(f) \/ ApplyMem(f)
            /\ phase' = phase
  /\ todo' = Tail(todo)
  /\ UNCHANGED <<instr, spin, record, result, job>>

EndFaults ==
  /\ phase = "approaching" /\ todo = <<>>
  /\ phase' = "halting"
  /\ UNCHANGED <<core, instr, spin, record, todo, result, job>>

(***************************************************************************)
(* _run_until_halt().  The count backs out the steps spent in the spin,    *)
(* and the record one entry more, which the detecting iteration appended.  *)
(***************************************************************************)
Return(halt, n) ==
  /\ phase' = "up"
  /\ instr' = n
  /\ result' = [halt |-> halt, instructions |-> n, ram |-> ram, pc |-> ctx.pc]
  /\ UNCHANGED <<core, spin, todo, job>>

StuckNow == IF ctx.pc = prevPc THEN stuck + 1 ELSE 0

HaltStep ==
  /\ phase = "halting" /\ instr < Budget /\ StuckNow < SpinThreshold
  /\ record' = Append(record, ctx.pc)
  /\ stuck' = StuckNow /\ prevPc' = ctx.pc
  /\ CpuStep
  /\ instr' = instr + 1
  /\ UNCHANGED <<phase, todo, result, job>>

Bug_Spins ==          \* the record is trimmed by the count's three only
  /\ phase = "halting" /\ instr < Budget /\ StuckNow = SpinThreshold
  /\ record' = SubSeq(Append(record, ctx.pc), 1,
                      Len(record) + 1 - SpinThreshold)
  /\ Return("ORACLE", instr - SpinThreshold)

Spins ==
  /\ phase = "halting" /\ instr < Budget /\ StuckNow = SpinThreshold
  /\ record' = SubSeq(Append(record, ctx.pc), 1,
                      Len(record) + 1 - (SpinThreshold + 1))
  /\ Return("ORACLE", instr - SpinThreshold)

OutOfBudget ==
  /\ phase = "halting" /\ instr >= Budget
  /\ record' = record
  /\ Return("BUDGET", instr)

Step == \/ Approach \/ Apply \/ EndFaults
        \/ HaltStep \/ Spins \/ OutOfBudget

Next == \/ Start \/ Close \/ Trace \/ Step \/ QemuExits
        \/ \E fs \in FaultSets : Run(fs)

Spec == Init /\ [][Next]_vars

(***************************************************************************)
(* The harness keeps stepping a run it has begun.                          *)
(***************************************************************************)
FairSpec == Spec /\ WF_vars(Step)

-----------------------------------------------------------------------------
(***************************************************************************)
(* Every run that was begun returns a result or ends with the connection,  *)
(* a trigger past the halt or the budget and a fault that sends the        *)
(* program into an endless loop included (run(), _run_until_halt()).       *)
(***************************************************************************)
EveryRunEnds == phase \in {"approaching", "halting"} ~> phase \in {"up", "broken"}

-----------------------------------------------------------------------------
(***************************************************************************)
(* The reference is the experiment on the Unicorn backend, from its reset. *)
(***************************************************************************)
Start0 == RefStart(UnicornReset, ResetRam, FlashImage, cur)

Reference == Replay(Start0)

HasRun == result # NoResult /\ cur # <<>>

(***************************************************************************)
(* reset() cannot make this process start from the same state: the flags   *)
(* and flash are what its last run left.  CleanStart says they happen to   *)
(* be the reference's.                                                     *)
(***************************************************************************)
CleanStart ==
  /\ origin.flash = FlashImage
  /\ \A r \in Reg \ (ZeroRegs \cup {SpReg}) :
       origin.ctx.regs[r] = UnicornReset.regs[r]

(***************************************************************************)
(* Nor do the emulators have to count alike: Unicorn leaves a Thumb-2      *)
(* instruction out whose predicate is false.  At a state of the reference  *)
(* that retires an instruction, the board does the same with it.           *)
(***************************************************************************)
SameOutcome(e, b) ==
  e.ctx = b.ctx /\ e.ram = b.ram /\ e.stray = b.stray /\ e.event = b.event

SameStep(s) ==
  RefNext(s).n > s.n =>
    LET op == RefCode(s)[s.ctx.pc]
    IN  s.ctx.pc \in Executable
        /\ SameOutcome(Exec(s.ctx, s.ram, Blank, op), BoardExec(s.ctx, s.ram, op))

SameUpTo(n) == \A k \in 0..(n + Len(cur) - 1) : SameStep(RefRun(Start0)[k])

(***************************************************************************)
(* What QEMU reports when the reference halts: the same RAM (the verdict   *)
(* and the marks are in it), halted by the oracle after as many            *)
(* instructions, although it stepped past the halt to see it (a Unicorn    *)
(* row's own count of a halted run goes no further than its last advance). *)
(* Only a halt in the last SpinThreshold instructions of the budget, where *)
(* the spin cannot be seen any more, is reported as BUDGET.                *)
(***************************************************************************)
ReportsReference ==
  /\ result.ram = Reference.ram
  /\ IF Reference.n + SpinThreshold < Budget
     THEN result.halt = "ORACLE" /\ result.instructions = Reference.n
     ELSE result.halt = "BUDGET" /\ result.instructions = Budget

HaltsInTime == Reference.halt = "ORACLE" /\ cur[Len(cur)].trigger < Reference.n

(***************************************************************************)
(* When every fault of the set strikes before the program halts, QEMU      *)
(* reports what the experiment does on Unicorn, provided that the run      *)
(* started from what reset() leaves open there (flags, flash) and the two  *)
(* retire the same instructions up to the halt                             *)
(* (_run_until_halt backing out the spin, run() stepping to a trigger,     *)
(* reset() defining the registers; test_qemu_crossval.py).                 *)
(***************************************************************************)
AgreesOnHalt ==
  HasRun /\ CleanStart /\ HaltsInTime /\ SameUpTo(Reference.n) => ReportsReference

(***************************************************************************)
(* The trace of an unfaulted run is the golden PC sequence, up to and      *)
(* including the store that halts Unicorn and nothing of the spin after    *)
(* it, under the same two provisos.                                        *)
(***************************************************************************)
TraceIsGolden ==
  result # NoResult /\ cur = <<>> /\ CleanStart /\ SameUpTo(GoldenLength) =>
    /\ result.halt = "ORACLE"
    /\ result.instructions = GoldenLength
    /\ record = [n \in 1..GoldenLength |-> RefRun(Start0)[n - 1].ctx.pc]

-----------------------------------------------------------------------------
(***************************************************************************)
(* What _run_until_halt() takes for granted of the program in flash: only  *)
(* a spin leaves the pc where it is, and a spin follows the store that     *)
(* halts.  A fault or a stray store may damage that program.               *)
(***************************************************************************)
IsSpin(c, m) ==
  LET e == BoardExec(c, m, Fetched(c.pc, m))
  IN  /\ c.pc \in Executable /\ e.event = "run" /\ e.stray = {}
      /\ e.ctx = c /\ e.ram = m

SpinsAfterHalt ==
  \A pc \in Executable, regs \in [Reg -> Word], m \in RamImage :
    LET e == BoardExec([pc |-> pc, regs |-> regs], m, Fetched(pc, m))
    IN  /\ e.event = "run" /\ e.stray = {} /\ e.ctx.pc = pc =>
             e.ctx.regs = regs /\ e.ram = m
        /\ e.event = "halt" => e.ctx.pc # pc /\ IsSpin(e.ctx, e.ram)

(***************************************************************************)
(* The invariant behind AgreesOnHalt and TraceIsGolden: a run with a clean *)
(* start whose reference halts with its n-th instruction, all faults       *)
(* applied and all instructions alike until then, is at the reference's    *)
(* state up to there, and spins in its last state after.                   *)
(***************************************************************************)
TypeOK ==
  /\ ctx \in Context /\ ram \in RamImage /\ flash \in Flash
  /\ instr \in Nat /\ record \in Seq(Nat)
  /\ cur \in FaultSets \cup {<<>>} /\ todo \in Seq(Fault)

Begun == phase \in {"approaching", "halting"} \/ result # NoResult

BookInv ==
  /\ Begun => origin.ctx \in ResetContexts /\ origin.flash \in Flash
  /\ result # NoResult => phase = "up"
  /\ Len(todo) <= Len(cur) \/ ~Begun
  /\ phase = "halting" =>
       /\ todo = <<>>
       /\ IF prevPc = NoPc THEN stuck = 0 ELSE stuck \in 0..(instr - 1)
  /\ phase = "approaching" =>
       cur # <<>> /\ prevPc = NoPc /\ stuck = 0 /\ record = <<>>
  /\ phase = "halting" /\ cur = <<>> => Len(record) = instr

RefAt(k) == RefRun(Start0)[k]

HaltsAt(n) ==
  /\ RefAt(n - 1 + Len(cur)).halt = "RUN"
  /\ RefAt(n + Len(cur)).halt = "ORACLE" /\ RefAt(n + Len(cur)).todo = <<>>
  /\ CleanStart /\ SameUpTo(n)

BeforeHalt(n) ==
  /\ instr < n
  /\ RefAt(instr + (Len(cur) - Len(todo))) =
       [ctx |-> ctx, ram |-> ram, flash |-> flash, n |-> instr, halt |-> "RUN",
        todo |-> todo]
  /\ phase = "halting" => stuck = 0 /\ prevPc # ctx.pc

AfterHalt(n) ==
  /\ phase = "halting"
  /\ n <= instr /\ instr <= n + SpinThreshold /\ instr <= Budget
  /\ ctx = RefAt(n + Len(cur)).ctx /\ ram = RefAt(n + Len(cur)).ram
  /\ IsSpin(ctx, ram)
  /\ IF instr = n THEN stuck = 0 /\ prevPc # ctx.pc
     ELSE stuck = instr - n - 1 /\ prevPc = ctx.pc

Recorded(n) ==
  cur = <<>> =>
    \A i \in 1..Len(record) : i <= n => record[i] = RefAt(i - 1).ctx.pc

ReportsHalt(n) ==
  /\ result.ram = RefAt(n + Len(cur)).ram
  /\ IF n + SpinThreshold < Budget
     THEN /\ result.halt = "ORACLE" /\ result.instructions = n
          /\ cur = <<>> => Len(record) = n
     ELSE result.halt = "BUDGET" /\ result.instructions = Budget
  /\ Recorded(n)

HaltInv ==
  \A n \in 1..Budget : HaltsAt(n) =>
    /\ phase \in {"approaching", "halting"} =>
         (BeforeHalt(n) \/ AfterHalt(n)) /\ Recorded(n)
    /\ result # NoResult => ReportsHalt(n)

IInv == TypeOK /\ BookInv /\ HaltInv
=============================================================================
