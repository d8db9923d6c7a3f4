-------------------------------- MODULE Slice --------------------------------
(***************************************************************************)
(* slice.py: the backward slice of a golden run.  Two hooks record what    *)
(* every executed instruction reads and writes; the slice walks the record *)
(* backwards with a set of live locations and keeps an instruction that    *)
(* defines a live one, or that is conditional and not a loop's.            *)
(*                                                                         *)
(* The execution is external (Unicorn and Capstone): a sequence of         *)
(* instructions.  reads and writes name the registers ("cpsr" among them)  *)
(* that Capstone reports and hidden what it leaves out, loads and stores   *)
(* are sets of accesses [addr, size], conditional tells whether what       *)
(* executes depends on a condition, and cc whether the instruction,        *)
(* disassembled alone, shows a condition code.  A conditional branch has   *)
(* one and hides its cpsr; a compare-and-branch is conditional without     *)
(* one, and so is an instruction that an IT block predicates.              *)
(***************************************************************************)
EXTENDS Integers, Sequences, FiniteSets, SequencesExt

CONSTANTS
  Executions,         \* golden runs the slice is taken of
  Seeds(_, _),        \* a goal's seeds, from the recorded steps
  Goals,              \* what a slice may be taken for
  Registers,          \* register names, the flags among them
  LoopRepeatThreshold

VARIABLES
  slicing,            \* what the slicer does: tracing, walking, sliced
  execution, goal,
  steps,              \* the Step records of _trace_deps_in_child
  accesses,           \* accesses of the current instruction not yet hooked
  at,                 \* the loop variable i of the walk
  live, idx

trace == <<execution, goal>>
walk == <<at, live, idx>>
sliceVars == <<slicing, trace, steps, accesses, walk>>

SliceInit ==
  /\ slicing = "tracing"
  /\ execution \in Executions /\ goal \in Goals
  /\ steps = <<>> /\ accesses = {}
  /\ at = 0 /\ live = {} /\ idx = <<>>

-----------------------------------------------------------------------------
Access == [addr : Nat, size : Nat \ {0}]
Instruction == [pc : Nat, conditional : BOOLEAN, cc : BOOLEAN,
                reads : SUBSET Registers, hidden : SUBSET Registers, writes : SUBSET Registers,
                loads : SUBSET Access, stores : SUBSET Access]

ASSUME ExecutionsAssumption ==
  /\ Executions \subseteq Seq(Instruction)
  /\ "cpsr" \in Registers
  /\ LoopRepeatThreshold \in Nat

Bug_HookedReads(insn) == insn.reads                  \* no cpsr by hand

HookedReads(insn) == insn.reads \cup (IF insn.cc THEN {"cpsr"} ELSE {})

Step(insn, loaded, stored) ==
  [pc |-> insn.pc, cond |-> insn.cc,
   reg_r |-> HookedReads(insn), reg_w |-> insn.writes,
   mem_r |-> loaded, mem_w |-> stored]

(***************************************************************************)
(* on_code(): a new step, before the instruction's memory accesses.        *)
(***************************************************************************)
OnCode ==
  /\ slicing = "tracing" /\ accesses = {}
  /\ Len(steps) < Len(execution)
  /\ LET insn == execution[Len(steps) + 1]
     IN  /\ steps' = Append(steps, Step(insn, {}, {}))
         /\ accesses' = {<<"r", a>> : a \in insn.loads}
                          \cup {<<"w", a>> : a \in insn.stores}
  /\ UNCHANGED <<slicing, trace, walk>>

(***************************************************************************)
(* on_mem(): the access joins the last step, by its first address only.    *)
(***************************************************************************)
OnMem ==
  /\ slicing = "tracing"
  /\ \E x \in accesses :
       /\ accesses' = accesses \ {x}
       /\ steps' = IF x[1] = "w"
                   THEN [steps EXCEPT ![Len(steps)].mem_w = @ \cup {x[2].addr}]
                   ELSE [steps EXCEPT ![Len(steps)].mem_r = @ \cup {x[2].addr}]
  /\ UNCHANGED <<slicing, trace, walk>>

RegLocs(names) == {<<"reg", r>> : r \in names}
MemLocs(addrs) == {<<"mem", a>> : a \in addrs}
Defs(s) == RegLocs(s.reg_w) \cup MemLocs(s.mem_w)
Uses(s) == RegLocs(s.reg_r) \cup MemLocs(s.mem_r)

(***************************************************************************)
(* Seeds of boot_decision_slice and supervisor_decision_slice: the oracle  *)
(* fields a classifier reads; of window_slice: what the steps in an        *)
(* address window read.  All are live at the end of the trace.             *)
(***************************************************************************)
OracleOffset == [verdict |-> 4, marks |-> 8, sup_state |-> 16, pwm_duty |-> 20]

OracleSeeds(oracle, fields) ==
  MemLocs({oracle + OracleOffset[f] : f \in fields})

BootSeeds(oracle) == OracleSeeds(oracle, {"verdict", "marks"})
SupervisorSeeds(oracle) ==
  OracleSeeds(oracle, {"marks", "sup_state", "pwm_duty"})

WindowSeeds(recorded, window) ==
  UNION {Uses(recorded[i]) :
           i \in {j \in DOMAIN recorded :
                    window[1] <= recorded[j].pc /\ recorded[j].pc <= window[2]}}

BeginWalk ==
  /\ slicing = "tracing" /\ accesses = {} /\ Len(steps) = Len(execution)
  /\ slicing' = "walking"
  /\ at' = Len(steps)
  /\ live' = Seeds(goal, steps)
  /\ UNCHANGED <<trace, steps, accesses, idx>>

PcCount(pc) == Cardinality({j \in DOMAIN steps : steps[j].pc = pc})

AutoControl(s) == s.cond /\ PcCount(s.pc) <= LoopRepeatThreshold

Bug_Liveness(s) == (live \cup Uses(s)) \ Defs(s)     \* gen before kill

Liveness(s) == (live \ Defs(s)) \cup Uses(s)

(***************************************************************************)
(* One turn of backward_slice_from_seeds(); a trigger is 0-based.          *)
(***************************************************************************)
Walk ==
  /\ slicing = "walking" /\ at > 0
  /\ LET s == steps[at]
     IN  IF AutoControl(s) \/ Defs(s) \cap live # {}
         THEN /\ idx' = Append(idx, at - 1)
              /\ live' = Liveness(s)
         ELSE UNCHANGED <<idx, live>>
  /\ at' = at - 1
  /\ UNCHANGED <<slicing, trace, steps, accesses>>

EndWalk ==
  /\ slicing = "walking" /\ at = 0
  /\ idx' = Reverse(idx)
  /\ slicing' = "sliced"
  /\ UNCHANGED <<trace, steps, accesses, at, live>>

SliceNext == OnCode \/ OnMem \/ BeginWalk \/ Walk \/ EndWalk

-----------------------------------------------------------------------------
(***************************************************************************)
(* The reference looks forwards over a view of the execution: what each    *)
(* instruction reads and writes, and whether it is conditional.  When      *)
(* instruction i is disturbed (skipped, say) what it writes becomes wrong, *)
(* and wrongness spreads through every later instruction that reads        *)
(* something wrong until something right overwrites it.                    *)
(***************************************************************************)
Spread(insn, wrong) ==
  IF insn.read \cap wrong # {} THEN wrong \cup insn.written ELSE wrong \ insn.written

Wrong(v, i) ==        \* what is wrong after instruction n
  LET w[n \in i..Len(v)] ==
        IF n = i THEN v[i].written ELSE Spread(v[n], w[n - 1])
  IN  w

Decides(v, n) ==      \* a conditional instruction that is not a loop's
  /\ v[n].cond
  /\ Cardinality({m \in DOMAIN v : v[m].pc = v[n].pc}) <= LoopRepeatThreshold

(***************************************************************************)
(* Disturbing i changes a decision taken after instruction n, or a value   *)
(* of `locations` at the end of the run; Reaches counts i's own decision.  *)
(***************************************************************************)
Later(v, i, n, locations) ==
  \/ \E m \in (n + 1)..Len(v) : Decides(v, m) /\ v[m].read \cap Wrong(v, i)[m - 1] # {}
  \/ Wrong(v, i)[Len(v)] \cap locations # {}

Reaches(v, i, locations) == Decides(v, i) \/ Later(v, i, i, locations)

Reaching(v, n, locations) ==      \* the triggers after instruction n
  {i - 1 : i \in {j \in (n + 1)..Len(v) : Reaches(v, j, locations)}}

(***************************************************************************)
(* Two views of an execution: as the hooks record it, an access by its     *)
(* first address and a condition by its code, and as it really was.        *)
(***************************************************************************)
FirstAddresses(accs) == {a.addr : a \in accs}
Recorded(insn) ==
  Step(insn, FirstAddresses(insn.loads), FirstAddresses(insn.stores))
Traced(e) == [k \in 1..Len(e) |-> Recorded(e[k])]

AsRecorded(e) ==
  [k \in 1..Len(e) |-> [pc |-> e[k].pc, cond |-> e[k].cc,
                        read |-> Uses(Recorded(e[k])), written |-> Defs(Recorded(e[k]))]]

ByteRange(a) == a.addr..(a.addr + a.size - 1)
Bytes(accs) == MemLocs(UNION {ByteRange(a) : a \in accs})

AsExecuted(e) ==
  [k \in 1..Len(e) |-> [pc |-> e[k].pc, cond |-> e[k].conditional,
                        read |-> RegLocs(e[k].reads \cup e[k].hidden) \cup Bytes(e[k].loads),
                        written |-> RegLocs(e[k].writes) \cup Bytes(e[k].stores)]]

(***************************************************************************)
(* The slice holds, in ascending order, exactly the triggers whose         *)
(* disturbance can reach a seed or a decision branch along what the hooks  *)
(* recorded: no recorded influence is lost to the order of kill and gen or *)
(* to a redefinition, and nothing else is searched                         *)
(* (backward_slice_from_seeds, slice.py:156-181).                          *)
(***************************************************************************)
SliceIsExact ==
  slicing = "sliced" =>
    /\ \A j, k \in DOMAIN idx : j < k => idx[j] < idx[k]
    /\ ToSet(idx) = Reaching(AsRecorded(execution), 0, Seeds(goal, steps))

(***************************************************************************)
(* The records of a legible execution hold all there is to see: conditions *)
(* show as condition codes, which hide no register but cpsr; two accesses  *)
(* are the same or share no byte; a seed inside an access is its first     *)
(* address.                                                                *)
(***************************************************************************)
Accesses(e) == UNION {e[k].loads \cup e[k].stores : k \in DOMAIN e}

Shown(insn) ==
  /\ insn.conditional = insn.cc
  /\ insn.hidden = IF insn.cc THEN {"cpsr"} ELSE {}

NoPartialOverlap(e) ==
  \A a, b \in Accesses(e) : a = b \/ ByteRange(a) \cap ByteRange(b) = {}

FirstOnly(e, locations) ==
  \A a \in Accesses(e) : \A b \in ByteRange(a) : <<"mem", b>> \in locations => b = a.addr

Legible(e, locations) ==
  /\ \A k \in DOMAIN e : Shown(e[k])
  /\ NoPartialOverlap(e) /\ FirstOnly(e, locations)

(***************************************************************************)
(* Of a legible execution the slice holds what can really reach the seeds  *)
(* or a decision branch, the compare behind a branch included although     *)
(* Capstone reports no such dependence (slice.py:122-125).                 *)
(***************************************************************************)
LegibleRunsAreCovered ==
  slicing = "sliced" /\ Legible(execution, Seeds(goal, steps)) =>
    ToSet(idx) = Reaching(AsExecuted(execution), 0, Seeds(goal, steps))

SliceSpec == SliceInit /\ [][SliceNext]_sliceVars

-----------------------------------------------------------------------------
(***************************************************************************)
(* The inductive invariant.  While tracing, all steps but the last are     *)
(* complete and the last lacks the accesses still to come.                 *)
(***************************************************************************)
Coming(accs, kind) == {x[2].addr : x \in {y \in accs : y[1] = kind}}

Record == [pc : Nat, cond : BOOLEAN, reg_r : SUBSET Registers, reg_w : SUBSET Registers,
           mem_r : SUBSET Nat, mem_w : SUBSET Nat]

TraceInv ==
  /\ execution \in Executions /\ goal \in Goals
  /\ steps \in Seq(Record)
  /\ accesses \subseteq {"r", "w"} \X Access /\ (accesses # {} => steps # <<>>)
  /\ Len(steps) <= Len(execution)
  /\ \A k \in DOMAIN steps :
       IF k < Len(steps) \/ accesses = {} THEN steps[k] = Recorded(execution[k])
       ELSE /\ steps[k] = Step(execution[k], steps[k].mem_r, steps[k].mem_w)
            /\ steps[k].mem_r \cup Coming(accesses, "r") = FirstAddresses(execution[k].loads)
            /\ steps[k].mem_w \cup Coming(accesses, "w") = FirstAddresses(execution[k].stores)

(***************************************************************************)
(* While walking, what is live after instruction `at` decides, for every   *)
(* earlier instruction, whether what it disturbs gets any further.         *)
(***************************************************************************)
LiveInv ==
  LET v == AsRecorded(execution)
  IN  \A i \in 1..at : Later(v, i, at, Seeds(goal, steps)) <=> Wrong(v, i)[at] \cap live # {}

WalkInv ==
  /\ steps = Traced(execution) /\ accesses = {}
  /\ at \in 0..Len(execution) /\ idx \in Seq(Nat)
  /\ \A j, k \in DOMAIN idx : j < k => idx[k] < idx[j]
  /\ ToSet(idx) = Reaching(AsRecorded(execution), at, Seeds(goal, steps))
  /\ LiveInv

SliceInv ==
  /\ slicing \in {"tracing", "walking", "sliced"}
  /\ TraceInv
  /\ slicing = "tracing" => idx = <<>>
  /\ slicing = "walking" => WalkInv
  /\ SliceIsExact
=============================================================================
