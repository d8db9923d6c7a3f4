-------------------------- MODULE MCUnicornBackend --------------------------
(***************************************************************************)
(* TLC model of UnicornBackend: the toy CPU and a campaign of single       *)
(* faults and pairs.                                                       *)
(***************************************************************************)
EXTENDS UnicornBackend, FiniteSets

CONSTANTS MCIsa, MCTag,
          MCModels,     \* fault models of the campaign
          MCLate        \* triggers past the golden run, in second position

Toy == INSTANCE ToyCpu WITH Isa <- MCIsa, Tag <- MCTag

MCReg == Toy!CpuReg
MCZeroRegs == Toy!CpuZeroRegs
MCSpReg == Toy!CpuSpReg
MCWord == Toy!CpuWord
MCCode == Toy!CpuCode
MCRamCell == Toy!CpuRamCell
MCFlashCell == Toy!CpuFlashCell
MCFlashImage == Toy!CpuFlashImage
MCResetWrites == Toy!CpuResetWrites
MCInitialSp == Toy!CpuInitialSp
MCEntry == Toy!CpuEntry
MCWindowCell == Toy!CpuWindowCell
MCGarbage == Toy!CpuGarbage
MCExec(c, m, w, op) == Toy!CpuExec(c, m, w, op)
MCAsCode(word) == Toy!CpuAsCode(word)
MCXorWord(a, b) == Toy!CpuXorWord(a, b)
MCFlipCode(op, mask) == Toy!CpuFlipCode(op, mask)
MCInsnWidth(op) == Toy!CpuInsnWidth(op)
MCFixedInsnBytes == Toy!CpuFixedInsnBytes
MCSkipWidths == {1, 2}
MCPowerOn == {[pc |-> 0, regs |-> [r \in Reg |-> 0]]}

MCGolden ==
  [r \in ResetContexts |->
     LET run[n \in 0..GoldenLength] ==
           IF n = 0 THEN [ctx |-> r, ram |-> ResetRam]
           ELSE LET s == run[n - 1]
                    e == Exec(s.ctx, s.ram, Blank, FlashImage[s.ctx.pc])
                IN  [ctx |-> e.ctx, ram |-> e.ram]
     IN  run]

(***************************************************************************)
(* The campaign.  Triggers cover the golden run and its end.               *)
(***************************************************************************)
Triggers == 0..GoldenLength

MCFaults(t) ==
  {f \in {[trigger |-> t, model |-> "SKIP", value |-> 1],
          [trigger |-> t, model |-> "SKIP", value |-> 2],
          [trigger |-> t, model |-> "REG_XOR", target |-> "r0", value |-> 1],
          [trigger |-> t, model |-> "REG_SET", target |-> "sp", value |-> 1],
          [trigger |-> t, model |-> "REG_SET", target |-> "sp", value |-> 3],
          [trigger |-> t, model |-> "MEM_XOR", target |-> Toy!TagCell, value |-> 1],
          [trigger |-> t, model |-> "MEM_XOR", target |-> Toy!WindowAddr, value |-> 1],
          [trigger |-> t, model |-> "MEM_XOR", target |-> Toy!CpuUnmapped, value |-> 1],
          [trigger |-> t, model |-> "OPCODE_XOR", value |-> 1]}
     : f.model \in MCModels}

MCFaultSets ==
  LET early == UNION {MCFaults(t) : t \in Triggers}
      later == early \cup UNION {MCFaults(t) : t \in MCLate}
  IN  {<<f>> : f \in early}
      \cup {<<p[1], p[2]>> : p \in {q \in early \X later :
                                      q[1].trigger <= q[2].trigger}}
=============================================================================
