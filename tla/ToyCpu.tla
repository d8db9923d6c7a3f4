------------------------------- MODULE ToyCpu -------------------------------
(***************************************************************************)
(* A CPU and a firmware small enough for TLC: the boot decision reduced to *)
(* one load, one compare, one branch and two ways to end.  It stands for   *)
(* what lies outside the harness (Unicorn, the QEMU board and the target   *)
(* image) with the features the harness has to cope with: instructions of  *)
(* two widths ("cm3") or of one ("rv32"), a condition kept in a flag that  *)
(* reset() does not clear (cm3) or in a register that it does (rv32), a    *)
(* predicated instruction (cm3), accesses through a stack pointer that a   *)
(* fault may move into flash or the ORACLE window, and a spin after the    *)
(* halt.                                                                   *)
(***************************************************************************)
EXTENDS Integers, Sequences

CONSTANT
  Isa,          \* "cm3" or "rv32"
  Tag           \* the vector: 1 is a genuine image, 0 is a bad one

CpuReg == {"r0", "sp", "cond"}
CpuSpReg == "sp"
CpuZeroRegs == IF Isa = "cm3" THEN {"r0"} ELSE {"r0", "sp", "cond"}
CpuWord == 0..3

CpuInitialSp == 2
CpuEntry == 0
CpuGarbage == "data"

Ops == <<"ldr", "cmp", "bne", "mark">>
       \o (IF Isa = "cm3" THEN <<"it", "movne">> ELSE <<>>)
       \o <<"accept", "halt", "spin", "reject", "halt", "spin">>
CpuCode == {Ops[i] : i \in DOMAIN Ops} \cup {CpuGarbage}

CpuInsnWidth(op) ==
  IF op = CpuGarbage THEN 0
  ELSE IF Isa = "rv32" \/ op \in {"ldr", "bne"} THEN 2 ELSE 1

CpuFixedInsnBytes == IF Isa = "rv32" THEN 2 ELSE 0

AddrOf[i \in 1..Len(Ops) + 1] ==
  IF i = 1 THEN CpuEntry ELSE AddrOf[i - 1] + CpuInsnWidth(Ops[i - 1])

(***************************************************************************)
(* Flash, then RAM, then the window: a program can run from one into the   *)
(* next, and past the last one into nothing.                               *)
(***************************************************************************)
RamBase == AddrOf[Len(Ops) + 1]
CpuFlashCell == 0..(RamBase - 1)
CpuFlashImage ==
  [a \in CpuFlashCell |->
     IF \E i \in DOMAIN Ops : AddrOf[i] = a
     THEN Ops[CHOOSE i \in DOMAIN Ops : AddrOf[i] = a] ELSE CpuGarbage]

VerdictCell == RamBase
TagCell == RamBase + 1
CpuRamCell == {VerdictCell, TagCell}
CpuResetWrites == [a \in {TagCell} |-> Tag]

WindowAddr == RamBase + 2
CpuWindowCell == {WindowAddr}
CpuBlank == [a \in CpuWindowCell |-> 0]
CpuUnmapped == RamBase + 3

RejectAddr == AddrOf[Len(Ops) - 2]
LastSpin == AddrOf[Len(Ops)]

CpuXorWord(a, b) == ((a + b) % 2) + 2 * ((a \div 2 + b \div 2) % 2)

CpuFlipCode(op, mask) ==
  IF mask = 0 THEN op
  ELSE CASE op = "bne" -> "mark"
         [] op = "mark" -> "bne"
         [] op = "halt" -> "spin"
         [] op = "spin" -> "halt"
         [] OTHER -> op

CpuAsCode(word) == IF word = 2 THEN "mark" ELSE CpuGarbage

(***************************************************************************)
(* CpuExec: what Unicorn does for one instruction of its count.  A pointer *)
(* of 0 is the window, of 1 flash, of 2 and 3 the two RAM cells.  An IT    *)
(* whose condition fails takes the predicated instruction with it.         *)
(***************************************************************************)
CpuExec(ctx, ram, window, op) ==
  LET sp   == ctx.regs["sp"]
      next == ctx.pc + CpuInsnWidth(op)
      equal == ctx.regs["cond"] % 2 = 1
      Goto(pc) == [ctx EXCEPT !.pc = pc]
      Set(r, v) == [ctx EXCEPT !.pc = next, !.regs[r] = v]
      Done(c, event) == [ctx |-> c, ram |-> ram, window |-> window, stray |-> {},
                         marks |-> 0, peeks |-> FALSE, event |-> event]
      Mark(v) == [Done(Goto(next), "run") EXCEPT
                    !.window = [a \in CpuWindowCell |-> v], !.marks = 1]
      Load(p) == CASE p = 0 -> [Done(Set("r0", window[WindowAddr]), "run")
                                  EXCEPT !.peeks = TRUE]
                   [] p = 1 -> Done(Set("r0", 0), "run")
                   [] OTHER -> Done(Set("r0", ram[RamBase + p - 2]), "run")
      Store(p, v) == CASE p = 0 -> Mark(v)
                       [] p = 1 -> [Done(Goto(next), "run") EXCEPT !.stray = {0}]
                       [] OTHER -> [Done(Goto(next), "run") EXCEPT
                                      !.ram[RamBase + p - 2] = v]
  IN  CASE op = "ldr" -> Load((sp + 1) % 4)
        [] op = "cmp" -> Done(Set("cond", IF ctx.regs["r0"] = 1 THEN 1 ELSE 0), "run")
        [] op = "bne" -> Done(Goto(IF equal THEN next ELSE RejectAddr), "run")
        [] op = "mark" -> Mark(1)
        [] op = "it" -> Done(Goto(IF equal THEN next + CpuInsnWidth("movne")
                                  ELSE next), "run")
        [] op = "movne" -> Done(Set("r0", 0), "run")
        [] op = "accept" -> Store(sp, 1)
        [] op = "reject" -> Store(sp, 2)
        [] op = "halt" -> Done(Goto(next), "halt")
        [] op = "spin" -> Done(Goto(ctx.pc), "run")
        [] OTHER -> Done(ctx, "trap")

(***************************************************************************)
(* The board executes an IT and the instruction it predicates one by one   *)
(* (the other bit of "cond" is the IT state), and its window reads as      *)
(* zero.                                                                   *)
(***************************************************************************)
CpuBoardExec(ctx, ram, op) ==
  LET cond == ctx.regs["cond"]
      e == CpuExec(ctx, ram, CpuBlank, op)
  IN  CASE op = "it" /\ cond % 2 = 1 ->
             [e EXCEPT !.ctx.pc = ctx.pc + CpuInsnWidth(op), !.ctx.regs["cond"] = 3]
        [] op = "movne" /\ cond = 3 ->
             [e EXCEPT !.ctx.regs = [ctx.regs EXCEPT !["cond"] = 1]]
        [] OTHER -> e
=============================================================================
