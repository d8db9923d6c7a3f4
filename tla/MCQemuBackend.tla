--------------------------- MODULE MCQemuBackend ---------------------------
(***************************************************************************)
(* TLC model of QemuBackend on the toy Cortex-M: the same firmware and the *)
(* same experiments as the Unicorn worker's, compared with the meaning of  *)
(* an experiment that the Unicorn worker is compared with too.  That       *)
(* worker's reset inherits the flags its golden trace ended with.          *)
(***************************************************************************)
EXTENDS QemuBackend

CONSTANTS MCTag, MCModels

Toy == INSTANCE ToyCpu WITH Isa <- "cm3", Tag <- MCTag

MCReg == Toy!CpuReg
MCZeroRegs == Toy!CpuZeroRegs
MCSpReg == Toy!CpuSpReg
MCWord == Toy!CpuWord
MCCode == Toy!CpuCode
MCRamCell == Toy!CpuRamCell
MCFlashCell == Toy!CpuFlashCell
MCWindowCell == Toy!CpuWindowCell
MCFlashImage == Toy!CpuFlashImage
MCResetWrites == Toy!CpuResetWrites
MCInitialSp == Toy!CpuInitialSp
MCEntry == Toy!CpuEntry
MCGarbage == Toy!CpuGarbage
MCExec(c, m, w, op) == Toy!CpuExec(c, m, w, op)
MCBoardExec(c, m, op) == Toy!CpuBoardExec(c, m, op)
MCAsCode(word) == Toy!CpuAsCode(word)
MCXorWord(a, b) == Toy!CpuXorWord(a, b)
MCFlipCode(op, mask) == Toy!CpuFlipCode(op, mask)
MCInsnWidth(op) == Toy!CpuInsnWidth(op)
MCPowerOn == {[pc |-> 0, regs |-> [r \in Reg |-> 0]]}
MCUnicornReset == [pc |-> Entry, regs |-> [r \in Reg |->
                     IF r = SpReg THEN InitialSp ELSE IF r = "cond" THEN MCTag ELSE 0]]
MCHandlerPc == Toy!LastSpin

MCFaults(t) ==
  {f \in {[trigger |-> t, model |-> "SKIP", value |-> 1],
          [trigger |-> t, model |-> "SKIP", value |-> 2],
          [trigger |-> t, model |-> "REG_XOR", target |-> "r0", value |-> 1],
          [trigger |-> t, model |-> "REG_SET", target |-> "sp", value |-> 1],
          [trigger |-> t, model |-> "REG_SET", target |-> "sp", value |-> 3],
          [trigger |-> t, model |-> "MEM_XOR", target |-> Toy!TagCell, value |-> 1],
          [trigger |-> t, model |-> "MEM_XOR", target |-> Toy!WindowAddr, value |-> 1],
          [trigger |-> t, model |-> "MEM_XOR", target |-> Toy!CpuUnmapped, value |-> 1],
          [trigger |-> t, model |-> "MEM_XOR", target |-> Toy!CpuEntry + 3, value |-> 1],
          [trigger |-> t, model |-> "OPCODE_XOR", value |-> 1]}
     : f.model \in MCModels}

(***************************************************************************)
(* Single faults, and any fault followed by a skip or a flipped register.  *)
(***************************************************************************)
MCFaultSets ==
  LET all == UNION {MCFaults(t) : t \in 0..GoldenLength}
      second == {f \in all : f.model \in {"SKIP", "REG_XOR"}}
  IN  {<<f>> : f \in all}
      \cup {<<p[1], p[2]>> : p \in {q \in all \X second :
                                      q[1].trigger <= q[2].trigger}}
=============================================================================
