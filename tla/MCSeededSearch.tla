---------------------------- MODULE MCSeededSearch ----------------------------
(***************************************************************************)
(* TLC model of SeededSearch: the slices of MCSlice, all of them checked,  *)
(* and two golden runs of five instructions that the caller goes on        *)
(* with.  Their sweep has a near miss at trigger 1 and at trigger 3.       *)
(***************************************************************************)
EXTENDS SeededSearch, MCSlice

MCSweptRuns ==
  {[i \in DOMAIN s |-> Insn[s[i]]] :
     s \in {<<"movs", "cmp", "bne", "strv", "adds">>,
            <<"ldm", "movs", "str", "adds", "strv">>}}

MCSearchExecutions == MCExecutions \cup MCSweptRuns
MCSwept(e) == e \in MCSweptRuns /\ goal = "boot"

MCSweepWidths == <<1, 2>>
MCSearchWidths == <<1>>

SkipSet(triggers) ==
  FaultSet([i \in 1..Cardinality(triggers) |->
              Fault(SetToSeq(triggers)[i], "SKIP", 0, 1)])
Triggers(fs) == {fs[i].trigger : i \in DOMAIN fs}

MCRunOutcome(fs) ==
  LET t == Triggers(fs)
  IN  CASE t = {1, 3} -> "SEC_BYPASS"
        [] t = {1} /\ fs[1].value = 1 -> "SDC"
        [] t = {3} /\ fs[1].value = 2 -> "SDC"
        [] t = {2} /\ fs[1].value = 2 -> "SAFETY_VIOLATION"
        [] t = {3} /\ fs[1].value = 1 -> "HANG"
        [] t \in {{0}, {0, 3}} -> "CRASH"
        [] t \in {{0, 2}, {2, 4}} -> "SDC"
        [] OTHER -> "OK"

MCRunMarks(fs) == (Len(fs) - 1) + (fs[1].trigger % 2)
MCAchieved(marks) == marks
MCRaisesOn == {SkipSet({0, 4})}

MCSymbols ==
  {[value |-> 1, size |-> 3, type |-> "STT_FUNC", name |-> "main"],
   [value |-> 5, size |-> 0, type |-> "STT_FUNC", name |-> "loop"],
   [value |-> 4, size |-> 5, type |-> "STT_FUNC", name |-> "verify"],
   [value |-> 7, size |-> 2, type |-> "STT_NOTYPE", name |-> "table"]}
=============================================================================
