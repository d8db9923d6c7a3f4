--------------------------- MODULE UnicornBackend ---------------------------
(***************************************************************************)
(* One campaign worker: the replay machine of backend/unicorn_backend.py   *)
(* driven the way campaign.py drives it.  _init_worker resets the          *)
(* emulator, traces the golden run and builds a ladder of snapshots; then  *)
(* _run_one, any number of times, picks the nearest rung at or below the   *)
(* first trigger, restores it, applies every fault of the set at its       *)
(* trigger and runs to the end of the budget.                              *)
(*                                                                         *)
(* The emulated CPU is external (Unicorn): it is the constant Exec, one    *)
(* instruction per use.  The harness must be right for every CPU, so the   *)
(* theorems leave Exec open and the TLC models give it a small program.    *)
(*                                                                         *)
(* An address is a halfword cell.  The oracle structure lives in RAM; the  *)
(* harness reads it as part of the RAM image.  The ORACLE window, whose    *)
(* first words are the halt and mark registers, is memory too: nothing but *)
(* the hook stops a program from storing to it and loading it again.       *)
(***************************************************************************)
EXTENDS Integers, Sequences

CONSTANTS
  Reg, ZeroRegs, SpReg,   \* the CPU's registers, flags among them; those that
                          \* isa.reset_zero_regs names; the stack pointer
  Word, Code,             \* values of a register or RAM cell; of a flash cell
  RamCell, FlashCell, WindowCell,
  FlashImage,             \* target.flash
  ResetWrites,            \* RAM after the zero fill, the oracle header and the
                          \* vector's writes, where it is not zero
  InitialSp, Entry,
  Garbage,                \* what a CPU store leaves in a flash cell
  Exec(_, _, _, _),       \* Exec(ctx, ram, window, code): one CPU instruction
  XorWord(_, _), FlipCode(_, _),
  AsCode(_),              \* the instruction that a RAM word reads as
  InsnWidth(_),           \* cells of a decodable instruction, 0 if undecodable
  FixedInsnBytes,         \* isa.fixed_insn_bytes in cells, 0 for None
  SkipWidths,             \* the skip widths of the campaign
  FaultSets,              \* the campaign: the experiments a worker may be sent
  GoldenLength, Rungs, HangMultiplier,
  PowerOn,                \* contexts a freshly constructed Uc may have
  Golden                  \* Golden[r][n]: context and RAM n instructions after
                          \* the reset context r, unfaulted (assumed below)

Context == [pc : Nat, regs : [Reg -> Word]]
RamImage == [RamCell -> Word]
WindowImage == [WindowCell -> Word]
Blank == [a \in WindowCell |-> 0]       \* mem_map() gives zeroed memory
State == [ctx : Context, ram : RamImage]

(***************************************************************************)
(* Faults.  A FaultSet is sorted when it is constructed (faults.py:65), so *)
(* its triggers never decrease.                                            *)
(***************************************************************************)
SkipFault == [trigger : Nat, model : {"SKIP"}, value : SkipWidths]
RegFault  == [trigger : Nat, model : {"REG_XOR", "REG_SET"},
              target : Reg, value : Word]
MemFault  == [trigger : Nat, model : {"MEM_XOR"},
              target : Nat, value : Word]
OpcodeFault == [trigger : Nat, model : {"OPCODE_XOR"}, value : Word]
Fault == SkipFault \cup RegFault \cup MemFault \cup OpcodeFault

Budget == HangMultiplier * GoldenLength
Stride == IF GoldenLength \div Rungs < 1 THEN 1 ELSE GoldenLength \div Rungs

(***************************************************************************)
(* The meaning of an experiment.                                           *)
(***************************************************************************)
INSTANCE Replay

(***************************************************************************)
(* Definitions named Bug_... are no part of the model.  Each is a form of  *)
(* the definition after it that a slip in the code would have; checked in  *)
(* its place, it makes the property it is listed for fail.                 *)
(***************************************************************************)
Bug_ResetCtx(c) ==            \* the zeroing loop is missing
  [pc |-> Entry,
   regs |-> [r \in Reg |-> IF r = SpReg THEN InitialSp ELSE c.regs[r]]]

(***************************************************************************)
(* reset(): every register of ZeroRegs becomes zero, then SP and PC are    *)
(* set.  A register outside ZeroRegs keeps what the last run left in it.   *)
(***************************************************************************)
ResetCtx(c) ==
  [pc |-> Entry,
   regs |-> [r \in Reg |-> IF r = SpReg THEN InitialSp
                           ELSE IF r \in ZeroRegs THEN 0
                           ELSE c.regs[r]]]

ResetRam ==
  [a \in RamCell |-> IF a \in DOMAIN ResetWrites THEN ResetWrites[a] ELSE 0]

ResetContexts == {ResetCtx(c) : c \in [pc : {Entry}, regs : [Reg -> Word]]}

ASSUME SizesAssumption ==
  /\ GoldenLength \in Nat \ {0}
  /\ Rungs \in Nat \ {0}
  /\ HangMultiplier \in Nat \ {0}

ASSUME DataAssumption ==
  /\ Mapped \subseteq Nat
  /\ RamCell \cap FlashCell = {} /\ WindowCell \cap (RamCell \cup FlashCell) = {}
  /\ Entry \in Nat
  /\ FlashImage \in [FlashCell -> Code]
  /\ Garbage \in Code
  /\ 0 \in Word /\ InitialSp \in Word
  /\ ResetRam \in RamImage
  /\ PowerOn \subseteq Context
  /\ FixedInsnBytes \in Nat /\ SkipWidths \subseteq Nat
  /\ \A c \in Code : InsnWidth(c) \in Nat

ASSUME FaultsAssumption ==
  \A fs \in FaultSets :
    /\ fs \in Seq(Fault)
    /\ fs # <<>>
    /\ \A i, j \in 1..Len(fs) : i <= j => fs[i].trigger <= fs[j].trigger

(***************************************************************************)
(* The external CPU: a decoded instruction yields a next context, RAM and  *)
(* window, the flash cells it tries to store to, the number of ORACLE_MARK *)
(* writes, whether it read the window, and one event: it ran, it wrote     *)
(* ORACLE_HALT, or it raised a CPU error.  One that does not read the      *)
(* window does not depend on what is there.                                *)
(***************************************************************************)
Visible(e) == <<e.ctx, e.ram, e.stray, e.event>>

ASSUME ExecAssumption ==
  \A pc \in Mapped, regs \in [Reg -> Word], m \in RamImage, op \in Code :
    LET blank == Exec([pc |-> pc, regs |-> regs], m, Blank, op)
    IN  \A w \in WindowImage :
          LET e == Exec([pc |-> pc, regs |-> regs], m, w, op)
          IN  /\ e.ctx \in Context
              /\ e.ram \in RamImage
              /\ e.window \in WindowImage
              /\ e.stray \subseteq FlashCell
              /\ e.marks \in Nat
              /\ e.event \in {"run", "halt", "trap"}
              /\ e.peeks = blank.peeks
              /\ ~blank.peeks => Visible(e) = Visible(blank)

ASSUME XorAssumption ==
  /\ \A v \in Word : AsCode(v) \in Code
  /\ \A v, w \in Word : XorWord(v, w) \in Word
  /\ \A c \in Code, w \in Word : FlipCode(c, w) \in Code

(***************************************************************************)
(* The golden run, whatever a reset inherits: GoldenLength instructions of *)
(* flash, none of which reads the window; the last one writes ORACLE_HALT  *)
(* and no other does.                                                      *)
(***************************************************************************)
ASSUME GoldenAssumption ==
  \A r \in ResetContexts :
    /\ Golden[r][0] = [ctx |-> r, ram |-> ResetRam]
    /\ \A n \in 0..GoldenLength : Golden[r][n] \in State
    /\ \A n \in 0..(GoldenLength - 1) :
         LET s == Golden[r][n]
             e == Exec(s.ctx, s.ram, Blank, FlashImage[s.ctx.pc])
         IN  /\ s.ctx.pc \in FlashCell
             /\ e.stray = {} /\ ~e.peeks
             /\ e.event = IF n = GoldenLength - 1 THEN "halt" ELSE "run"
             /\ Golden[r][n + 1] = [ctx |-> e.ctx, ram |-> e.ram]

Bug_SkipBytes(code, pc, k) == k      \* every instruction is one cell wide

(***************************************************************************)
(* _skip_bytes(): the width of the next k instructions.  Decoding stops at *)
(* the first undecodable cell, and a width of zero becomes one cell.       *)
(***************************************************************************)
SkipBytes(code, pc, k) ==
  LET at[i \in 0..k] ==
        IF i = 0 THEN pc
        ELSE at[i - 1] + (IF at[i - 1] \in DOMAIN code
                          THEN InsnWidth(code[at[i - 1]]) ELSE 0)
  IN  IF FixedInsnBytes # 0 THEN FixedInsnBytes * k
      ELSE IF at[k] = pc THEN 1 ELSE at[k] - pc

-----------------------------------------------------------------------------
VARIABLES
  phase,          \* what the worker's process is executing
  ctx, ram, window, flash,
  halted,         \* self._halted
  marks,          \* len(self._marks)
  instr,          \* self._instr
  emu,            \* the emu_start call in progress: its count argument, the
                  \* instructions it has executed, whether it raised UcError
  ladder,         \* _W["ladder"]
  golden,         \* _W["golden"]
  cur, todo,      \* the fault set being run; its faults not yet applied
  row             \* the result of the run that returned last

cpu == <<ctx, ram, window, flash>>
meters == <<halted, marks, instr>>
worker == <<ladder, golden>>
job == <<cur, todo, row>>
vars == <<phase, cpu, meters, emu, worker, job>>

Idle == [limit |-> 1, done |-> 0, error |-> FALSE]
NoRow == [halt |-> "NONE"]

Snapshot == [count |-> instr, ctx |-> ctx, ram |-> ram]
Result(reason) == [halt |-> reason, instructions |-> instr, marks |-> marks,
                   ram |-> ram, pc |-> ctx.pc]

HaltReason == IF emu.error THEN "CPUFAULT"
              ELSE IF halted THEN "ORACLE" ELSE "BUDGET"

(***************************************************************************)
(* The permissions of the flash mapping while the CPU runs.                *)
(***************************************************************************)
FlashPerms == {"read", "exec"}

Init ==
  /\ phase = "spawned"
  /\ ctx \in PowerOn
  /\ ram = [a \in RamCell |-> 0]
  /\ window = Blank
  /\ flash = [a \in FlashCell |-> Garbage]
  /\ halted = FALSE /\ marks = 0 /\ instr = 0
  /\ emu = Idle
  /\ ladder = <<>> /\ golden = NoRow
  /\ cur = <<>> /\ todo = <<>> /\ row = NoRow

(***************************************************************************)
(* reset() programs flash, zeroes RAM and writes the oracle header and the *)
(* vector; restore() writes RAM and the context.  Neither touches the      *)
(* ORACLE window.                                                          *)
(***************************************************************************)
Reset ==
  /\ flash' = FlashImage
  /\ ram' = ResetRam
  /\ window' = window
  /\ ctx' = ResetCtx(ctx)
  /\ halted' = FALSE /\ marks' = 0 /\ instr' = 0

Bug_Restore(s) ==             \* the RAM copy is forgotten
  /\ ctx' = s.ctx /\ instr' = s.count
  /\ halted' = FALSE /\ marks' = 0
  /\ UNCHANGED <<ram, window, flash>>

Restore(s) ==
  /\ ctx' = s.ctx
  /\ ram' = s.ram
  /\ instr' = s.count
  /\ halted' = FALSE /\ marks' = 0
  /\ UNCHANGED <<window, flash>>

EmuStart(count) == emu' = [limit |-> count, done |-> 0, error |-> FALSE]

-----------------------------------------------------------------------------
(***************************************************************************)
(* emu_start(): one instruction per step until the count is reached (a     *)
(* count of 0 is no limit at all), the oracle hook stops it, or the CPU    *)
(* raises an error.  A store to flash raises one unless the mapping allows *)
(* it, and so does fetching from an unmapped cell; RAM and the window are  *)
(* executable.                                                             *)
(***************************************************************************)
Emulating == phase \in {"tracing", "climbing", "advancing", "finishing"}

Returned == \/ halted
            \/ emu.error
            \/ emu.limit # 0 /\ emu.done = emu.limit

Trap == /\ emu' = [emu EXCEPT !.error = TRUE]
        /\ UNCHANGED <<cpu, halted, marks>>

Retire(e) ==
  /\ ctx' = e.ctx
  /\ ram' = e.ram
  /\ window' = e.window
  /\ flash' = [a \in FlashCell |-> IF a \in e.stray THEN Garbage ELSE flash[a]]
  /\ halted' = (e.event = "halt")
  /\ marks' = marks + e.marks
  /\ emu' = [emu EXCEPT !.done = IF emu.limit = 0 THEN 0 ELSE @ + 1]

Memory == Around(ctx.pc, ram, window, flash)

Execute ==
  /\ Emulating /\ ~Returned
  /\ \/ /\ ctx.pc \notin Mapped
        /\ Trap
     \/ /\ ctx.pc \in Mapped
        /\ LET e == Exec(ctx, ram, window, Memory[ctx.pc])
           IN  IF e.event = "trap" \/ (e.stray # {} /\ "write" \notin FlashPerms)
               THEN Trap ELSE Retire(e)
  /\ UNCHANGED <<phase, instr, worker, job>>

(***************************************************************************)
(* _init_worker(): reset, trace, build_ladder (which resets again).  A     *)
(* UcError inside build_ladder is not caught: the initialiser dies.        *)
(***************************************************************************)
StartTrace ==
  /\ phase = "spawned"
  /\ Reset
  /\ EmuStart(Budget)
  /\ phase' = "tracing"
  /\ UNCHANGED <<worker, job>>

EndTrace ==
  /\ phase = "tracing" /\ Returned
  /\ instr' = emu.done
  /\ golden' = [Result(HaltReason) EXCEPT !.instructions = emu.done]
  /\ phase' = "traced"
  /\ UNCHANGED <<cpu, halted, marks, emu, ladder, job>>

StartLadder ==
  /\ phase = "traced"
  /\ Reset
  /\ ladder' = <<[count |-> 0, ctx |-> ctx', ram |-> ram']>>
  /\ IF Rungs = 1 THEN phase' = "ready" /\ emu' = Idle
                  ELSE phase' = "climbing" /\ EmuStart(Stride)
  /\ UNCHANGED <<golden, job>>

Bug_Rung ==                   \* labelled with the count before the advance
  /\ phase = "climbing" /\ Returned /\ ~halted /\ ~emu.error
  /\ instr' = instr + emu.limit
  /\ ladder' = Append(ladder, Snapshot)
  /\ IF Len(ladder') = Rungs THEN phase' = "ready" /\ emu' = Idle
                             ELSE phase' = "climbing" /\ EmuStart(Stride)
  /\ UNCHANGED <<cpu, halted, marks, golden, job>>

Rung ==
  /\ phase = "climbing" /\ Returned /\ ~halted /\ ~emu.error
  /\ instr' = instr + emu.limit
  /\ ladder' = Append(ladder, [Snapshot EXCEPT !.count = instr'])
  /\ IF Len(ladder') = Rungs THEN phase' = "ready" /\ emu' = Idle
                             ELSE phase' = "climbing" /\ EmuStart(Stride)
  /\ UNCHANGED <<cpu, halted, marks, golden, job>>

EndLadder ==
  /\ phase = "climbing"
  /\ halted \/ emu.error
  /\ phase' = IF emu.error THEN "dead" ELSE "ready"
  /\ emu' = Idle
  /\ UNCHANGED <<cpu, meters, worker, job>>

-----------------------------------------------------------------------------
Bug_IsNearestRung(i, trigger) ==     \* the rung after the nearest
  /\ i \in DOMAIN ladder
  /\ \A j \in 2..(i - 1) : ladder[j].count <= trigger
  /\ i < Len(ladder) => ladder[i].count > trigger

(***************************************************************************)
(* nearest_rung(): the last rung of the leading run whose count is at most *)
(* the trigger.                                                            *)
(***************************************************************************)
IsNearestRung(i, trigger) ==
  /\ i \in DOMAIN ladder
  /\ \A j \in 2..i : ladder[j].count <= trigger
  /\ i < Len(ladder) => ladder[i + 1].count > trigger

(***************************************************************************)
(* _run_one(): pick the rung, restore it, and enter run()'s fault loop.    *)
(***************************************************************************)
RunOne(fs) ==
  /\ phase = "ready"
  /\ \E i \in 1..Len(ladder) :
       /\ IsNearestRung(i, fs[1].trigger)
       /\ Restore(ladder[i])
  /\ cur' = fs /\ todo' = fs /\ row' = NoRow
  /\ phase' = "looping"
  /\ emu' = Idle
  /\ UNCHANGED worker

(***************************************************************************)
(* _advance(trigger - self._instr).  A count of zero or less returns at    *)
(* once: emu_start would take it for "no limit".                           *)
(***************************************************************************)
Bug_NoAdvance(count) == count < 0
NoAdvance(count) == count <= 0

Advance ==
  /\ phase = "looping" /\ todo # <<>>
  /\ LET count == Head(todo).trigger - instr
     IN  IF NoAdvance(count)
         THEN phase' = "applying" /\ emu' = Idle
         ELSE phase' = "advancing" /\ EmuStart(count)
  /\ UNCHANGED <<cpu, meters, worker, job>>

Arrive ==
  /\ phase = "advancing" /\ Returned /\ ~halted /\ ~emu.error
  /\ instr' = instr + emu.limit
  /\ phase' = "applying"
  /\ emu' = Idle
  /\ UNCHANGED <<cpu, halted, marks, worker, job>>

(***************************************************************************)
(* _apply().  mem_write is privileged: it ignores the mapping's            *)
(* permissions and calls no hook.  Reading an unmapped cell raises UcError.*)
(***************************************************************************)
XorCell(a, v) ==
  /\ ram' = IF a \in RamCell THEN [ram EXCEPT ![a] = XorWord(@, v)] ELSE ram
  /\ window' = IF a \in WindowCell THEN [window EXCEPT ![a] = XorWord(@, v)]
               ELSE window
  /\ flash' = IF a \in FlashCell THEN [flash EXCEPT ![a] = FlipCode(@, v)]
              ELSE flash

ApplySkip(f) ==
  /\ f.model = "SKIP"
  /\ ctx' = [ctx EXCEPT !.pc = @ + SkipBytes(Memory, @, f.value)]
  /\ UNCHANGED <<ram, window, flash>>

ApplyReg(f) ==
  /\ f.model \in {"REG_XOR", "REG_SET"}
  /\ ctx' = [ctx EXCEPT !.regs[f.target] =
               IF f.model = "REG_SET" THEN f.value ELSE XorWord(@, f.value)]
  /\ UNCHANGED <<ram, window, flash>>

ApplyMem(f) ==
  /\ f.model = "MEM_XOR"
  /\ XorCell(f.target, f.value)
  /\ ctx' = ctx

ApplyOpcode(f) ==
  /\ f.model = "OPCODE_XOR"
  /\ XorCell(ctx.pc, f.value)
  /\ ctx' = ctx

ReadsUnmapped(f) ==
  \/ f.model = "MEM_XOR" /\ f.target \notin Mapped
  \/ f.model = "OPCODE_XOR" /\ ctx.pc \notin Mapped
  \/ f.model = "SKIP" /\ FixedInsnBytes = 0 /\ ctx.pc \notin Mapped

Apply ==
  /\ phase = "applying"
  /\ LET f == Head(todo)
     IN  IF ReadsUnmapped(f)
         THEN /\ emu' = [Idle EXCEPT !.error = TRUE]
              /\ phase' = "finishing"
              /\ UNCHANGED cpu
         ELSE /\ ApplySkip(f) \/ ApplyReg(f) \/ ApplyMem(f) \/ ApplyOpcode(f)
              /\ phase' = "looping"
              /\ emu' = Idle
  /\ todo' = Tail(todo)
  /\ UNCHANGED <<meters, worker, cur, row>>

Bug_Finish ==                 \* `remaining > 0` is not checked
  /\ phase = "looping" /\ todo = <<>>
  /\ EmuStart(Budget - instr)
  /\ phase' = "finishing"
  /\ UNCHANGED <<cpu, meters, worker, job>>

(***************************************************************************)
(* The rest of run(): emulate what is left of the budget, if anything is.  *)
(***************************************************************************)
Finish ==
  /\ phase = "looping" /\ todo = <<>>
  /\ IF Budget - instr > 0
     THEN EmuStart(Budget - instr)
     ELSE emu' = [Idle EXCEPT !.done = 1]
  /\ phase' = "finishing"
  /\ UNCHANGED <<cpu, meters, worker, job>>

(***************************************************************************)
(* run() returns: from the final emulation, or because the program halted  *)
(* or failed on the way to a trigger.  The count becomes the budget only   *)
(* when the budget was used up.                                            *)
(***************************************************************************)
Return ==
  /\ \/ phase = "finishing" /\ Returned
     \/ phase = "advancing" /\ (halted \/ emu.error)
  /\ instr' = IF phase = "finishing" /\ HaltReason = "BUDGET" /\ instr < Budget
              THEN Budget ELSE instr
  /\ row' = [Result(HaltReason) EXCEPT !.instructions = instr']
  /\ phase' = "ready"
  /\ emu' = Idle
  /\ UNCHANGED <<cpu, halted, marks, worker, cur, todo>>

Worker == \/ Execute
          \/ StartTrace \/ EndTrace
          \/ StartLadder \/ Rung \/ EndLadder
          \/ Advance \/ Arrive \/ Apply
          \/ Finish \/ Return

Next == Worker \/ \E fs \in FaultSets : RunOne(fs)

Spec == Init /\ [][Next]_vars

(***************************************************************************)
(* The worker is one thread of one process: once it has been given work it *)
(* keeps executing.  Nothing makes the campaign send more work.            *)
(***************************************************************************)
FairSpec == Spec /\ WF_vars(Worker)

-----------------------------------------------------------------------------
(***************************************************************************)
(* The type of the state (RunResult, Snapshot and the backend's fields).   *)
(***************************************************************************)
Snapshots == [count : Nat, ctx : Context, ram : RamImage]

TypeOK ==
  /\ phase \in {"spawned", "tracing", "traced", "climbing", "ready", "dead",
                "looping", "advancing", "applying", "finishing"}
  /\ ctx \in Context
  /\ ram \in RamImage
  /\ window \in WindowImage
  /\ flash \in [FlashCell -> Code]
  /\ halted \in BOOLEAN /\ marks \in Nat /\ instr \in Nat
  /\ emu \in [limit : Nat, done : Nat, error : BOOLEAN]
  /\ ladder \in Seq(Snapshots)
  /\ cur \in Seq(Fault) /\ todo \in Seq(Fault)

(***************************************************************************)
(* Every rung of the ladder is a state of the golden run, at the count it  *)
(* is labelled with: restoring it can stand for executing that many        *)
(* instructions from the reset of rung 0 (snapshot(), build_ladder()).     *)
(***************************************************************************)
OnGolden(c, m, n) ==
  /\ n \in 0..GoldenLength
  /\ [ctx |-> c, ram |-> m] = Golden[ladder[1].ctx][n]

RungsOnGolden ==
  \A i \in 1..Len(ladder) :
    OnGolden(ladder[i].ctx, ladder[i].ram, ladder[i].count)

(***************************************************************************)
(* Until its first fault a run is the golden run: the restored rung plus   *)
(* the batched advance are in the state that instr + emu.done instructions *)
(* from reset lead to, whatever experiments the emulator ran before.       *)
(***************************************************************************)
Unfaulted == phase \in {"looping", "advancing", "applying"} /\ todo = cur

ResumeIsReplay == Unfaulted => OnGolden(ctx, ram, instr + emu.done)

(***************************************************************************)
(* A fault strikes exactly when the number of executed instructions is its *)
(* trigger: neither the rung nor an earlier fault may have passed it, and  *)
(* the advance may not overshoot (run()'s `f.trigger - self._instr`).      *)
(***************************************************************************)
LandsOnTrigger == phase = "applying" => instr = Head(todo).trigger

(***************************************************************************)
(* No emulation is started without a limit, and none runs past the budget  *)
(* or the last trigger: the budget is what turns an infinite loop into a   *)
(* HANG (emu_start takes a count of 0 for "forever").                      *)
(***************************************************************************)
LastTrigger == cur[Len(cur)].trigger

BoundedEmulation ==
  phase \in {"advancing", "finishing"} =>
    /\ emu.limit > 0
    /\ instr + emu.limit <= Budget \/ instr + emu.limit <= LastTrigger
       \/ emu = [Idle EXCEPT !.done = 1] \/ emu.error

(***************************************************************************)
(* Every row a worker returns is the row of its fault set executed alone   *)
(* from the worker's own reset state: restoring a rung, batching the       *)
(* advance, and whatever ran before it on the same emulator do not show    *)
(* (unicorn_backend.py run(), restore(), nearest_rung(), _skip_bytes()).   *)
(* The one exception is an experiment whose own program, executed alone,   *)
(* reads the ORACLE window: neither reset() nor restore() clears it.       *)
(***************************************************************************)
IsRowOf(r, c) ==
  LET ref == Replay(RefStart(c, ResetRam, FlashImage, cur))
  IN  \/ ref.halt = "WINDOW"
      \/ /\ r.halt = ref.halt
         /\ r.ram = ref.ram
         /\ r.pc = ref.ctx.pc
         /\ r.halt = "BUDGET" => r.instructions = ref.n

RunIsReplay == row # NoRow => IsRowOf(row, ladder[1].ctx)

(***************************************************************************)
(* The same against a freshly constructed emulator: the row depends on the *)
(* fault set only, not on the call order inside _init_worker (comment in   *)
(* reset(), unicorn_backend.py:140-152), the window excepted as above.     *)
(***************************************************************************)
RunIsFreshReplay == row # NoRow => \E c \in PowerOn : IsRowOf(row, ResetCtx(c))

(***************************************************************************)
(* Every experiment sent to a worker returns a row: the campaign waits for *)
(* all of them (Pool.map in campaign.py).                                  *)
(***************************************************************************)
EveryRunReturns == phase = "looping" ~> row # NoRow

-----------------------------------------------------------------------------
(***************************************************************************)
(* The inductive invariant behind the properties above, for a campaign     *)
(* whose faults never write flash.                                         *)
(***************************************************************************)
SpareFlash ==
  \A fs \in FaultSets : \A i \in 1..Len(fs) :
    /\ fs[i].model # "OPCODE_XOR"
    /\ fs[i].model = "MEM_XOR" => fs[i].target \notin FlashCell

Running == phase \in {"looping", "advancing", "applying", "finishing"}

FlashIntact == phase # "spawned" => flash = FlashImage

LadderInv ==
  /\ phase \in {"spawned", "tracing", "traced"} => ladder = <<>>
  /\ Running \/ phase \in {"climbing", "ready"} =>
       /\ ladder # <<>>
       /\ ladder[1].count = 0
       /\ ladder[1].ctx \in ResetContexts
  /\ \A i \in 1..Len(ladder) : ladder[i].count < GoldenLength

(***************************************************************************)
(* While the emulated program is still the golden run, it has halted       *)
(* exactly when its last instruction has been executed.                    *)
(***************************************************************************)
OnTrack ==
  /\ OnGolden(ctx, ram, instr + emu.done)
  /\ ~emu.error
  /\ halted <=> instr + emu.done = GoldenLength

TrackInv ==
  /\ phase = "climbing" \/ Unfaulted => OnTrack
  /\ phase = "climbing" => emu.limit > 0
  /\ phase \in {"looping", "applying"} => emu.done = 0

JobInv ==
  Running =>
    /\ cur \in FaultSets
    /\ Len(todo) <= Len(cur)
    /\ \A i \in 1..Len(todo) : todo[i] = cur[Len(cur) - Len(todo) + i]
    /\ phase \in {"looping", "applying"} =>
         \A i \in 1..Len(todo) : instr <= todo[i].trigger
    /\ phase = "applying" => todo # <<>> /\ instr = todo[1].trigger
    /\ phase = "advancing" =>
         /\ todo # <<>>
         /\ instr + emu.limit = todo[1].trigger
         /\ emu.limit > 0

ControlInv == /\ TypeOK
              /\ FlashIntact
              /\ LadderInv
              /\ RungsOnGolden
              /\ TrackInv
              /\ JobInv

(***************************************************************************)
(* At every moment the run is somewhere on the reference run of its fault  *)
(* set, as many steps from its start as instructions were executed and     *)
(* faults applied, and one more if the CPU raised an error.  When nothing  *)
(* is left of the budget the final emulation is skipped, and the one in    *)
(* emu.done is no instruction (Finish).  Once the reference has read the   *)
(* window it says nothing more.                                            *)
(***************************************************************************)
Reference == RefRun(RefStart(ladder[1].ctx, ResetRam, FlashImage, cur))

Executed ==
  instr + (IF phase = "finishing" /\ instr >= Budget THEN 0 ELSE emu.done)

RefIndex ==
  Executed + (Len(cur) - Len(todo)) + (IF emu.error THEN 1 ELSE 0)

OnReference ==
  \/ Reference[RefIndex].halt = "WINDOW"
  \/ Reference[RefIndex] =
       [ctx |-> ctx, ram |-> ram, flash |-> flash, n |-> Executed,
        halt |-> IF emu.error THEN "CPUFAULT" ELSE IF halted THEN "ORACLE" ELSE "RUN",
        todo |-> todo]

ReplayInv ==
  /\ Running =>
       /\ OnReference
       /\ instr <= LastTrigger
       /\ Executed <= LastTrigger + Budget
       /\ emu.done <= emu.limit
       /\ phase \in {"looping", "applying"} => ~halted /\ emu = Idle
       /\ phase = "finishing" /\ ~emu.error =>
            /\ todo = <<>>
            /\ IF instr < Budget THEN instr + emu.limit = Budget
               ELSE emu = [Idle EXCEPT !.done = 1] /\ ~halted
  /\ row # NoRow => phase = "ready" /\ IsRowOf(row, ladder[1].ctx)

IInv == ControlInv /\ ReplayInv
=============================================================================
