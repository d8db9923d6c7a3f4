------------------------------- MODULE Replay -------------------------------
(***************************************************************************)
(* The meaning of an experiment, which both backends have to reproduce:    *)
(* one fault set executed alone from a reset, with no ladder, no batching, *)
(* no debugger and nothing left over from an earlier run.  A fault strikes *)
(* when the number of executed instructions reaches its trigger; storing   *)
(* to ORACLE_HALT ends the run, and so does a CPU error.                   *)
(*                                                                         *)
(* Memory is flash, RAM and the ORACLE window; code can run from each.     *)
(* Nothing initialises the window between two runs, so the meaning of an   *)
(* experiment stops where its program reads it: "WINDOW".                  *)
(***************************************************************************)
EXTENDS Integers, Sequences

CONSTANTS Exec(_, _, _, _), XorWord(_, _), FlipCode(_, _), AsCode(_), InsnWidth(_),
          FixedInsnBytes, FlashCell, RamCell, WindowCell,
          Blank,        \* the window of a fresh emulator
          Budget

Mapped == FlashCell \cup RamCell \cup WindowCell

(***************************************************************************)
(* The region of memory that holds pc, read as code.                       *)
(***************************************************************************)
AsCodes(image) == [a \in DOMAIN image |-> AsCode(image[a])]

Around(pc, ram, window, flash) ==
  IF pc \in FlashCell THEN flash
  ELSE IF pc \in RamCell THEN AsCodes(ram) ELSE AsCodes(window)

RefStart(ctx, ram, flash, fs) ==
  [ctx |-> ctx, ram |-> ram, flash |-> flash, n |-> 0, halt |-> "RUN", todo |-> fs]

RefCode(s) == Around(s.ctx.pc, s.ram, Blank, s.flash)

RefStep(s) ==
  IF s.ctx.pc \notin Mapped THEN [s EXCEPT !.halt = "CPUFAULT"]
  ELSE LET e == Exec(s.ctx, s.ram, Blank, RefCode(s)[s.ctx.pc])
       IN  IF s.ctx.pc \in WindowCell \/ e.peeks THEN [s EXCEPT !.halt = "WINDOW"]
           ELSE IF e.event = "trap" \/ e.stray # {}
           THEN [s EXCEPT !.halt = "CPUFAULT"]
           ELSE [s EXCEPT !.ctx = e.ctx, !.ram = e.ram, !.n = @ + 1,
                          !.halt = IF e.event = "halt" THEN "ORACLE" ELSE "RUN"]

(***************************************************************************)
(* Follow(code)[k][pc] is the pc after the next k instructions in memory.  *)
(***************************************************************************)
NextInsn(code, pc) == IF pc \in DOMAIN code THEN pc + InsnWidth(code[pc]) ELSE pc

Follow(code) ==
  LET go[k \in Nat] ==
        [pc \in Nat |-> IF k = 0 THEN pc ELSE go[k - 1][NextInsn(code, pc)]]
  IN  go

RefSkip(code, pc, k) ==
  IF FixedInsnBytes # 0 THEN pc + FixedInsnBytes * k
  ELSE IF Follow(code)[k][pc] = pc THEN pc + 1 ELSE Follow(code)[k][pc]

RefXor(s, a, v) ==
  CASE a \in FlashCell  -> [s EXCEPT !.flash[a] = FlipCode(@, v)]
    [] a \in RamCell    -> [s EXCEPT !.ram[a] = XorWord(@, v)]
    [] a \in WindowCell -> s
    [] OTHER            -> [s EXCEPT !.halt = "CPUFAULT"]

RefHit(s, f) ==
  CASE f.model = "SKIP" ->
         IF FixedInsnBytes = 0 /\ s.ctx.pc \notin Mapped
         THEN [s EXCEPT !.halt = "CPUFAULT"]
         ELSE IF FixedInsnBytes = 0 /\ s.ctx.pc \in WindowCell
         THEN [s EXCEPT !.halt = "WINDOW"]
         ELSE [s EXCEPT !.ctx.pc = RefSkip(RefCode(s), @, f.value)]
    [] f.model = "REG_XOR" ->
         [s EXCEPT !.ctx.regs[f.target] = XorWord(@, f.value)]
    [] f.model = "REG_SET" -> [s EXCEPT !.ctx.regs[f.target] = f.value]
    [] f.model = "MEM_XOR" -> RefXor(s, f.target, f.value)
    [] f.model = "OPCODE_XOR" -> RefXor(s, s.ctx.pc, f.value)

RefNext(s) ==
  IF s.halt # "RUN" THEN s
  ELSE IF s.todo # <<>> /\ s.n >= s.todo[1].trigger
       THEN [RefHit(s, s.todo[1]) EXCEPT !.todo = Tail(s.todo)]
  ELSE IF s.todo = <<>> /\ s.n >= Budget THEN [s EXCEPT !.halt = "BUDGET"]
  ELSE RefStep(s)

RefRun(s) ==
  LET run[k \in Nat] == IF k = 0 THEN s ELSE RefNext(run[k - 1])
  IN  run

(***************************************************************************)
(* Where the run from s ends.  It has no more steps than instructions up   *)
(* to the last trigger or the budget, faults, and one that ends it.        *)
(***************************************************************************)
RefSteps(fs) == fs[Len(fs)].trigger + Budget + Len(fs) + 1
Replay(s) == RefRun(s)[RefSteps(s.todo)]
=============================================================================
