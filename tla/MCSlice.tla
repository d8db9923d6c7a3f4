------------------------------- MODULE MCSlice -------------------------------
(***************************************************************************)
(* TLC model of Slice: every execution of MCLength instructions drawn from *)
(* a small instruction set.  An instruction drawn twice has one address    *)
(* and is a loop's.  strb stores inside a word that ldm loads, and cbz is  *)
(* a branch without a condition code.                                      *)
(***************************************************************************)
EXTENDS Slice

CONSTANTS MCLength, MCInsns

Oracle == 100         \* the address of g_oracle
Verdict == 104
Duty == 120
Local == 4            \* two words on the stack
Other == 8
WordAt(a) == [addr |-> a, size |-> 4]

Plain(pc, reads, writes) ==
  [pc |-> pc, conditional |-> FALSE, cc |-> FALSE, reads |-> reads, hidden |-> {},
   writes |-> writes, loads |-> {}, stores |-> {}]
Storing(pc, register, access) == [Plain(pc, {register}, {}) EXCEPT !.stores = {access}]

Insn == [
  movs |-> Plain(1, {}, {"r0"}),
  adds |-> Plain(2, {"r0", "r1"}, {"r0", "cpsr"}),
  cmp  |-> Plain(3, {"r0"}, {"cpsr"}),
  bne  |-> [Plain(4, {}, {}) EXCEPT !.conditional = TRUE, !.cc = TRUE, !.hidden = {"cpsr"}],
  cbz  |-> [Plain(5, {"r0"}, {}) EXCEPT !.conditional = TRUE],
  ldm  |-> [Plain(6, {}, {"r0", "r1"}) EXCEPT !.loads = {WordAt(Local), WordAt(Other)}],
  str  |-> Storing(7, "r0", WordAt(Local)),
  strb |-> Storing(8, "r0", [addr |-> Local + 1, size |-> 1]),
  strv |-> Storing(9, "r1", WordAt(Verdict)),
  strd |-> Storing(10, "r0", WordAt(Duty))
]

MCExecutions == {[i \in 1..MCLength |-> Insn[s[i]]] : s \in [1..MCLength -> MCInsns]}

MCWindow == <<3, 4>>  \* the compare and its branch

MCSeeds(g, recorded) == CASE g = "boot" -> BootSeeds(Oracle)
                    [] g = "supervisor" -> SupervisorSeeds(Oracle)
                    [] g = "window" -> WindowSeeds(recorded, MCWindow)

-----------------------------------------------------------------------------
(***************************************************************************)
(* What window_slice() is documented to answer: every trigger upstream of  *)
(* a value the window consumes is a candidate (slice.py:185-198).  The     *)
(* code makes the window's locations live at the end of the trace instead. *)
(***************************************************************************)
InWindow(n) == MCWindow[1] <= execution[n].pc /\ execution[n].pc <= MCWindow[2]

UpstreamOfWindow(i) ==
  LET v == AsRecorded(execution)
  IN  \E n \in (i + 1)..Len(v) : InWindow(n) /\ v[n].read \cap Wrong(v, i)[n - 1] # {}

WindowSliceCoversUpstream ==
  slicing = "sliced" /\ goal = "window" =>
    \A i \in DOMAIN execution : UpstreamOfWindow(i) => i - 1 \in ToSet(idx)
=============================================================================
