----------------------------- MODULE SliceProofs -----------------------------
(***************************************************************************)
(* For every execution, every goal and every repeat threshold, the         *)
(* backward slice is exactly the set of triggers whose disturbance can     *)
(* reach a seed or a decision along what the hooks recorded.               *)
(***************************************************************************)
EXTENDS Slice, NatRecursion

-----------------------------------------------------------------------------
LEMMA RangeStart ==
  ASSUME NEW a \in Int, NEW b \in Int, a <= b
  PROVE  a \in a..b /\ \A n \in (a + 1)..b : n \in a..b /\ n # a
  OBVIOUS

(***************************************************************************)
(* Wrongness spreads as its recursive definition says.                     *)
(***************************************************************************)
LEMMA WrongSpreads ==
  ASSUME NEW v, Len(v) \in Nat, NEW i \in 1..Len(v)
  PROVE  /\ Wrong(v, i)[i] = v[i].written
         /\ \A n \in (i + 1)..Len(v) : Wrong(v, i)[n] = Spread(v[n], Wrong(v, i)[n - 1])
<1> DEFINE N == Len(v)
           U == UNION {v[k].written : k \in 1..N}
           S == Nat \X SUBSET U
           a == <<i, v[i].written>>
           step == [p \in S |-> <<p[1] + 1, IF p[1] + 1 \in 1..N
                                            THEN Spread(v[p[1] + 1], p[2]) ELSE p[2]>>]
<1>1. N \in Nat /\ i \in 1..N
  OBVIOUS
<1>2. a \in S
  OBVIOUS
<1>3. step \in [S -> S]
  <2>1. SUFFICES ASSUME NEW p \in S PROVE step[p] \in S
    OBVIOUS
  <2>2. p[1] \in Nat /\ p[2] \subseteq U /\ p[1] + 1 \in Nat
    OBVIOUS
  <2>3. CASE p[1] + 1 \in 1..N
    <3> DEFINE k == p[1] + 1
    <3>1. v[k].written \subseteq U
      BY <2>3
    <3>2. Spread(v[k], p[2]) \subseteq U
      BY <3>1, <2>2 DEF Spread
    <3>3. step[p] = <<k, Spread(v[k], p[2])>>
      BY <2>3
    <3> QED
      BY <3>2, <3>3, <2>2
  <2>4. CASE p[1] + 1 \notin 1..N
    BY <2>2, <2>4
  <2> QED
    BY <2>3, <2>4
<1>4. PICK f \in [Nat -> S] : IsIteration(f, Nat, a, step)
  <2> HIDE DEF S, a, step
  <2> QED
    BY <1>2, <1>3, IterationExists
<1>5. f[0] = a /\ \A k \in Nat : f[k + 1] = step[f[k]]
  <2> HIDE DEF a, step, S
  <2> QED
    BY <1>4 DEF IsIteration
<1>6. \A k \in Nat : f[k][1] = i + k
  <2> DEFINE G == {k \in Nat : f[k][1] = i + k}
  <2>1. 0 \in G
    BY <1>5
  <2>2. ASSUME NEW k \in Nat, k \in G PROVE k + 1 \in G
    <3>1. f[k] \in S /\ f[k][1] = i + k
      BY <2>2
    <3>2. step[f[k]][1] = f[k][1] + 1
      BY <3>1
    <3>3. f[k + 1] = step[f[k]]
      BY <1>5
    <3>4. f[k + 1][1] = i + (k + 1)
      <4> HIDE DEF step, S
      <4> QED
        BY <3>1, <3>2, <3>3
    <3> QED
      BY <3>4
  <2>3. \A k \in Nat : k \in G
    <3> HIDE DEF G
    <3> QED
      BY <2>1, <2>2, NatInd
  <2> QED
    BY <2>3
<1> DEFINE w == [n \in i..N |-> f[n - i][2]]
<1>7. ASSUME NEW n \in i..N
      PROVE  w[n] = IF n = i THEN v[i].written ELSE Spread(v[n], w[n - 1])
  <2>1. CASE n = i
    <3>1. w[n] = f[n - i][2]
      OBVIOUS
    <3>2. n - i = 0
      BY <2>1, <1>1
    <3>3. f[0] = a /\ a[2] = v[i].written
      <4>1. a[2] = v[i].written
        OBVIOUS
      <4> HIDE DEF a, step
      <4> QED
        BY <1>5, <4>1
    <3> HIDE DEF w, a, step
    <3> QED
      BY <2>1, <3>1, <3>2, <3>3
  <2>2. CASE n # i
    <3> DEFINE k == n - i - 1
    <3>1. k \in Nat /\ n - i = k + 1 /\ i + k + 1 = n /\ n - 1 \in i..N /\ n \in 1..N
            /\ (n - 1) - i = k
      <4> HIDE DEF N
      <4> QED
        BY <2>2, <1>1
    <3>2. f[k + 1] = step[f[k]] /\ f[k][1] = i + k /\ f[k] \in S
      BY <3>1, <1>5, <1>6
    <3>3. f[k][1] + 1 = n
      BY <3>1, <3>2
    <3>4. step[f[k]][2] = Spread(v[n], f[k][2])
      BY <3>1, <3>2, <3>3
    <3>5. w[n] = f[k + 1][2] /\ w[n - 1] = f[k][2]
      <4>1. w[n] = f[n - i][2] /\ w[n - 1] = f[(n - 1) - i][2]
        BY <3>1
      <4> HIDE DEF k, w
      <4> QED
        BY <3>1, <4>1
    <3> HIDE DEF w, k, step
    <3> QED
      BY <3>2, <3>4, <3>5, <2>2
  <2> QED
    BY <2>1, <2>2
<1>8. w = [n \in i..N |-> IF n = i THEN v[i].written ELSE Spread(v[n], w[n - 1])]
  BY <1>7
<1>9. Wrong(v, i) = [n \in i..N |-> IF n = i THEN v[i].written
                                    ELSE Spread(v[n], Wrong(v, i)[n - 1])]
  <2> HIDE DEF w
  <2> QED
    BY <1>8 DEF Wrong
<1>10. i \in i..N /\ \A n \in (i + 1)..N : n \in i..N /\ n # i
  <2>1. i \in Int /\ N \in Int /\ i <= N
    BY <1>1
  <2> HIDE DEF N
  <2> QED
    BY <2>1, RangeStart
<1> QED
  BY <1>9, <1>10

-----------------------------------------------------------------------------
(***************************************************************************)
(* One turn of the walk over a view.  X is wrong before an instruction, L  *)
(* is live after it, and keeps says whether the walk keeps it.             *)
(***************************************************************************)
LEMMA Backwards ==
  ASSUME NEW insn, NEW X, NEW L, NEW decides \in BOOLEAN
  PROVE  LET keeps == decides \/ insn.written \cap L # {}
             L2 == IF keeps THEN (L \ insn.written) \cup insn.read ELSE L
         IN  ((decides /\ insn.read \cap X # {}) \/ Spread(insn, X) \cap L # {})
               <=> X \cap L2 # {}
<1> DEFINE R == insn.read
           W == insn.written
<1>1. Spread(insn, X) = IF R \cap X # {} THEN X \cup W ELSE X \ W
  BY DEF Spread
<1> HIDE DEF R, W
<1>2. CASE decides \/ W \cap L # {}
  <2>1. CASE R \cap X # {}
    <3>1. decides \/ Spread(insn, X) \cap L # {}
      BY <1>1, <1>2, <2>1
    <3>2. X \cap ((L \ W) \cup R) # {}
      BY <2>1
    <3> QED
      BY <1>2, <2>1, <3>1, <3>2 DEF R, W
  <2>2. CASE R \cap X = {}
    <3>1. X \cap ((L \ W) \cup R) = X \cap (L \ W) /\ (X \ W) \cap L = X \cap (L \ W)
      BY <2>2
    <3>2. Spread(insn, X) = X \ W
      BY <1>1, <2>2
    <3> QED
      BY <1>2, <2>2, <3>1, <3>2 DEF R, W
  <2> QED
    BY <2>1, <2>2
<1>3. CASE ~decides /\ W \cap L = {}
  <2>1. Spread(insn, X) \cap L = X \cap L
    BY <1>1, <1>3
  <2> QED
    BY <1>3, <2>1 DEF W
<1> QED
  BY <1>2, <1>3

(***************************************************************************)
(* The walk keeps k exactly if disturbing k reaches, and what it makes     *)
(* live again decides for the instructions before.                         *)
(***************************************************************************)
LEMMA TurnExact ==
  ASSUME NEW v, Len(v) \in Nat, NEW k \in 1..Len(v), NEW L, NEW seeds,
         \A i \in 1..k : Later(v, i, k, seeds) <=> Wrong(v, i)[k] \cap L # {}
  PROVE  LET keeps == Decides(v, k) \/ v[k].written \cap L # {}
             L2 == IF keeps THEN (L \ v[k].written) \cup v[k].read ELSE L
         IN  /\ keeps <=> Reaches(v, k, seeds)
             /\ \A i \in 1..(k - 1) :
                  Later(v, i, k - 1, seeds) <=> Wrong(v, i)[k - 1] \cap L2 # {}
<1> DEFINE keeps == Decides(v, k) \/ v[k].written \cap L # {}
           L2 == IF keeps THEN (L \ v[k].written) \cup v[k].read ELSE L
<1>1. keeps <=> Reaches(v, k, seeds)
  <2>1. Wrong(v, k)[k] = v[k].written
    BY WrongSpreads
  <2> QED
    BY <2>1 DEF Reaches
<1>2. ASSUME NEW i \in 1..(k - 1)
      PROVE  Later(v, i, k - 1, seeds) <=> Wrong(v, i)[k - 1] \cap L2 # {}
  <2> DEFINE X == Wrong(v, i)[k - 1]
             Met(m) == Decides(v, m) /\ v[m].read \cap Wrong(v, i)[m - 1] # {}
  <2>1. /\ i \in 1..Len(v) /\ k \in (i + 1)..Len(v) /\ i \in 1..k
        /\ ((k - 1) + 1)..Len(v) = {k} \cup (k + 1)..Len(v)
    OBVIOUS
  <2>2. Wrong(v, i)[k] = Spread(v[k], X)
    BY <2>1, WrongSpreads
  <2>3. Later(v, i, k - 1, seeds) <=> Met(k) \/ Later(v, i, k, seeds)
    <3>1. (\E m \in ((k - 1) + 1)..Len(v) : Met(m))
            <=> Met(k) \/ \E m \in (k + 1)..Len(v) : Met(m)
      <4> HIDE DEF Met
      <4> QED
        BY <2>1
    <3> QED
      BY <3>1 DEF Later
  <2>4. Later(v, i, k, seeds) <=> Spread(v[k], X) \cap L # {}
    BY <2>1, <2>2
  <2>5. Decides(v, k) \in BOOLEAN
    BY DEF Decides
  <2>6. ((Decides(v, k) /\ v[k].read \cap X # {}) \/ Spread(v[k], X) \cap L # {})
          <=> X \cap L2 # {}
    BY <2>5, Backwards
  <2> QED
    BY <2>3, <2>4, <2>6
<1> QED
  BY <1>1, <1>2

-----------------------------------------------------------------------------
(***************************************************************************)
(* The steps recorded for an execution.                                    *)
(***************************************************************************)
LEMMA StepIsRecord ==
  ASSUME NEW insn \in Instruction,
         NEW loaded \in SUBSET Nat, NEW stored \in SUBSET Nat
  PROVE  /\ Step(insn, loaded, stored) \in Record
         /\ Step(insn, loaded, stored).mem_r = loaded
         /\ Step(insn, loaded, stored).mem_w = stored
<1>1. /\ insn.pc \in Nat /\ insn.cc \in BOOLEAN
      /\ insn.reads \subseteq Registers /\ insn.writes \subseteq Registers
  <2>1. insn.pc \in Nat
    BY DEF Instruction
  <2>2. insn.cc \in BOOLEAN
    BY DEF Instruction
  <2>3. insn.reads \in SUBSET Registers /\ insn.writes \in SUBSET Registers
    BY DEF Instruction
  <2> QED
    BY <2>1, <2>2, <2>3
<1>2. HookedReads(insn) \subseteq Registers
  <2>1. "cpsr" \in Registers
    BY ExecutionsAssumption
  <2>2. HookedReads(insn) = insn.reads \/ HookedReads(insn) = insn.reads \cup {"cpsr"}
    BY DEF HookedReads
  <2> QED
    BY <1>1, <2>1, <2>2
<1> QED
  BY <1>1, <1>2 DEF Step, Record

LEMMA AddressesAreNat ==
  ASSUME NEW insn \in Instruction
  PROVE  FirstAddresses(insn.loads) \subseteq Nat /\ FirstAddresses(insn.stores) \subseteq Nat
BY DEF Instruction, Access, FirstAddresses

LEMMA AccessJoins ==
  ASSUME NEW insn \in Instruction, NEW s \in Record, s = Step(insn, s.mem_r, s.mem_w),
         NEW b \in Nat
  PROVE  /\ [s EXCEPT !.mem_r = @ \cup {b}] = Step(insn, s.mem_r \cup {b}, s.mem_w)
         /\ [s EXCEPT !.mem_w = @ \cup {b}] = Step(insn, s.mem_r, s.mem_w \cup {b})
<1> DEFINE loaded == s.mem_r
           stored == s.mem_w
           h == HookedReads(insn)
<1>1. s = [pc |-> insn.pc, cond |-> insn.cc, reg_r |-> h, reg_w |-> insn.writes,
           mem_r |-> loaded, mem_w |-> stored]
  BY DEF Step
<1> HIDE DEF loaded, stored, h
<1>2. [s EXCEPT !.mem_r = @ \cup {b}] =
           [pc |-> insn.pc, cond |-> insn.cc, reg_r |-> h, reg_w |-> insn.writes,
            mem_r |-> loaded \cup {b}, mem_w |-> stored]
  BY <1>1, SMTT(30)
<1>3. [s EXCEPT !.mem_w = @ \cup {b}] =
           [pc |-> insn.pc, cond |-> insn.cc, reg_r |-> h, reg_w |-> insn.writes,
            mem_r |-> loaded, mem_w |-> stored \cup {b}]
  BY <1>1, SMTT(30)
<1> QED
  BY <1>2, <1>3 DEF loaded, stored, h, Step

(***************************************************************************)
(* The recorded view has the execution's length and the steps' locations.  *)
(***************************************************************************)
LEMMA RecordedView ==
  ASSUME NEW e \in Seq(Instruction)
  PROVE  LET v == AsRecorded(e)
         IN  /\ Len(v) = Len(e) /\ DOMAIN v = 1..Len(e)
             /\ \A k \in 1..Len(e) : /\ v[k].pc = e[k].pc /\ v[k].cond = e[k].cc
                                     /\ v[k].read = Uses(Recorded(e[k]))
                                     /\ v[k].written = Defs(Recorded(e[k]))
<1>1. Len(e) \in Nat
  OBVIOUS
<1> QED
  BY <1>1 DEF AsRecorded

(***************************************************************************)
(* The pc counts of the finished trace are the execution's, so the walk    *)
(* takes an instruction for a loop's exactly if it is one.                 *)
(***************************************************************************)
LEMMA AutoControlIsDecides ==
  ASSUME NEW k \in 1..Len(execution), execution \in Seq(Instruction),
         steps = Traced(execution)
  PROVE  /\ steps[k] = Recorded(execution[k])
         /\ AutoControl(steps[k]) <=> Decides(AsRecorded(execution), k)
<1> DEFINE v == AsRecorded(execution)
<1>1. DOMAIN steps = DOMAIN execution /\ k \in DOMAIN steps /\ DOMAIN steps = 1..Len(execution)
  BY DEF Traced
<1>2. \A m \in DOMAIN steps : steps[m] = Recorded(execution[m])
  BY <1>1 DEF Traced
<1>3. \A m \in DOMAIN steps : steps[m].pc = execution[m].pc /\ steps[m].cond = execution[m].cc
  BY <1>2 DEF Recorded, Step
<1>4. /\ DOMAIN v = DOMAIN steps
      /\ \A m \in DOMAIN steps : v[m].pc = steps[m].pc /\ v[m].cond = steps[m].cond
  BY <1>1, <1>3, RecordedView
<1> HIDE DEF v
<1>5. {m \in DOMAIN steps : steps[m].pc = steps[k].pc} = {m \in DOMAIN v : v[m].pc = v[k].pc}
  BY <1>1, <1>4
<1>6. AutoControl(steps[k]) <=> Decides(v, k)
  BY <1>1, <1>4, <1>5 DEF AutoControl, Decides, PcCount
<1> QED
  BY <1>1, <1>2, <1>6 DEF v

-----------------------------------------------------------------------------
(***************************************************************************)
(* What of the execution's assumption an execution has.                    *)
(***************************************************************************)
LEMMA ExecutionFacts ==
  ASSUME NEW e \in Executions, NEW k \in 1..Len(e)
  PROVE  e \in Seq(Instruction) /\ e[k] \in Instruction
BY ExecutionsAssumption

(***************************************************************************)
(* An access that is hooked is no longer to come.                          *)
(***************************************************************************)
LEMMA Hooked ==
  ASSUME NEW accs, NEW x \in accs, NEW kind
  PROVE  Coming(accs, kind) = IF kind = x[1] THEN Coming(accs \ {x}, kind) \cup {x[2].addr}
                              ELSE Coming(accs \ {x}, kind)
BY DEF Coming

LEMMA NothingComing ==
  ASSUME NEW kind
  PROVE  Coming({}, kind) = {}
BY DEF Coming

LEMMA ComingKind ==
  ASSUME NEW accs, NEW kind, NEW X, {y \in accs : y[1] = kind} = {<<kind, a>> : a \in X}
  PROVE  Coming(accs, kind) = FirstAddresses(X)
<1> DEFINE Y == {y \in accs : y[1] = kind}
<1>1. Coming(accs, kind) = {x[2].addr : x \in Y}
  BY DEF Coming
<1>2. ASSUME NEW a \in X PROVE a.addr \in {x[2].addr : x \in Y}
  <2>1. <<kind, a>> \in Y /\ <<kind, a>>[2] = a
    OBVIOUS
  <2> HIDE DEF Y
  <2> QED
    BY <2>1
<1>3. ASSUME NEW x \in Y PROVE x[2].addr \in {a.addr : a \in X}
  OBVIOUS
<1> HIDE DEF Y
<1> QED
  BY <1>1, <1>2, <1>3 DEF FirstAddresses

LEMMA ComingOf ==
  ASSUME NEW insn \in Instruction
  PROVE  LET accs == {<<"r", a>> : a \in insn.loads} \cup {<<"w", a>> : a \in insn.stores}
         IN  /\ accs \subseteq {"r", "w"} \X Access
             /\ Coming(accs, "r") = FirstAddresses(insn.loads)
             /\ Coming(accs, "w") = FirstAddresses(insn.stores)
<1> DEFINE accs == {<<"r", a>> : a \in insn.loads} \cup {<<"w", a>> : a \in insn.stores}
<1>1. accs \subseteq {"r", "w"} \X Access
  BY DEF Instruction
<1>2. {y \in accs : y[1] = "r"} = {<<"r", a>> : a \in insn.loads}
  OBVIOUS
<1>3. {y \in accs : y[1] = "w"} = {<<"w", a>> : a \in insn.stores}
  OBVIOUS
<1>4. Coming(accs, "r") = FirstAddresses(insn.loads)
  <2> HIDE DEF accs
  <2> QED
    BY <1>2, ComingKind
<1>5. Coming(accs, "w") = FirstAddresses(insn.stores)
  <2> HIDE DEF accs
  <2> QED
    BY <1>3, ComingKind
<1> HIDE DEF accs
<1> QED
  BY <1>1, <1>4, <1>5 DEF accs

-----------------------------------------------------------------------------
LEMMA InitTraced ==
  ASSUME SliceInit
  PROVE  SliceInv
<1>1. Len(execution) \in Nat /\ Len(steps) = 0 /\ DOMAIN steps = {} /\ steps \in Seq(Record)
  BY ExecutionsAssumption DEF SliceInit
<1>2. TraceInv
  BY <1>1 DEF SliceInit, TraceInv
<1> QED
  BY <1>2 DEF SliceInit, SliceInv, SliceIsExact

LEMMA OnCodeTraces ==
  ASSUME TraceInv, OnCode
  PROVE  TraceInv'
<1> DEFINE n == Len(steps) + 1
           insn == execution[n]
<1>1. /\ execution \in Executions /\ goal \in Goals /\ steps \in Seq(Record)
      /\ Len(steps) \in Nat /\ Len(execution) \in Nat
      /\ DOMAIN steps = 1..Len(steps) /\ Len(steps) < Len(execution)
  BY ExecutionsAssumption DEF TraceInv, OnCode
<1>2. \A k \in DOMAIN steps : steps[k] = Recorded(execution[k])
  BY DEF TraceInv, OnCode
<1>3. n \in 1..Len(execution)
  BY <1>1
<1>4. insn \in Instruction
  BY <1>1, <1>3, ExecutionFacts
<1>5. /\ Step(insn, {}, {}) \in Record
      /\ Step(insn, {}, {}).mem_r = {} /\ Step(insn, {}, {}).mem_w = {}
  BY <1>4, StepIsRecord
<1>6. /\ steps' = Append(steps, Step(insn, {}, {}))
      /\ execution' = execution /\ goal' = goal
      /\ accesses' = {<<"r", a>> : a \in insn.loads} \cup {<<"w", a>> : a \in insn.stores}
  BY DEF OnCode, trace
<1> HIDE DEF insn, n
<1>7. /\ steps' \in Seq(Record) /\ Len(steps') = n /\ DOMAIN steps' = 1..n
      /\ steps'[n] = Step(insn, {}, {})
      /\ \A k \in 1..(n - 1) : steps'[k] = steps[k]
  BY <1>1, <1>5, <1>6 DEF n
<1>8. /\ accesses' \subseteq {"r", "w"} \X Access
      /\ Coming(accesses', "r") = FirstAddresses(insn.loads)
      /\ Coming(accesses', "w") = FirstAddresses(insn.stores)
  BY <1>4, <1>6, ComingOf
<1>9. ASSUME NEW k \in 1..n
      PROVE  IF k < n \/ accesses' = {} THEN steps'[k] = Recorded(execution[k])
             ELSE /\ steps'[k] = Step(execution[k], steps'[k].mem_r, steps'[k].mem_w)
                  /\ steps'[k].mem_r \cup Coming(accesses', "r") = FirstAddresses(execution[k].loads)
                  /\ steps'[k].mem_w \cup Coming(accesses', "w") = FirstAddresses(execution[k].stores)
  <2>1. CASE k < n
    BY <1>1, <1>2, <1>7, <2>1 DEF n
  <2>2. CASE k = n
    <3>1. execution[k] = insn /\ steps'[k] = Step(insn, {}, {})
      BY <1>7, <2>2 DEF insn
    <3>2. accesses' = {} => Recorded(insn) = Step(insn, {}, {})
      BY <1>8, NothingComing DEF Recorded
    <3>3. ~(k < n)
      BY <2>2, <1>1 DEF n
    <3> QED
      BY <1>5, <1>8, <3>1, <3>2, <3>3
  <2> QED
    BY <1>1, <2>1, <2>2 DEF n
<1>10. n <= Len(execution) /\ steps' # <<>>
  <2>1. n \in Nat /\ n # 0 /\ n <= Len(execution)
    BY <1>1, <1>3 DEF n
  <2> QED
    BY <1>7, <2>1
<1> QED
  BY <1>1, <1>6, <1>7, <1>8, <1>9, <1>10 DEF TraceInv

LEMMA OnMemTraces ==
  ASSUME TraceInv, OnMem
  PROVE  TraceInv'
<1> DEFINE n == Len(steps)
           insn == execution[n]
           s == steps[n]
<1>1. PICK x \in accesses :
        /\ accesses' = accesses \ {x}
        /\ steps' = IF x[1] = "w"
                    THEN [steps EXCEPT ![n].mem_w = @ \cup {x[2].addr}]
                    ELSE [steps EXCEPT ![n].mem_r = @ \cup {x[2].addr}]
  BY DEF OnMem
<1>2. execution' = execution /\ goal' = goal
  BY DEF OnMem, trace
<1>3. /\ execution \in Executions /\ goal \in Goals /\ steps \in Seq(Record)
      /\ accesses \subseteq {"r", "w"} \X Access
      /\ n \in Nat /\ Len(execution) \in Nat /\ n <= Len(execution) /\ DOMAIN steps = 1..n
  BY ExecutionsAssumption DEF TraceInv
<1>4. n \in 1..n
  <2>1. steps # <<>> /\ steps \in Seq(Record)
    BY DEF TraceInv, OnMem
  <2> QED
    BY <2>1
<1>5. insn \in Instruction
  BY <1>3, <1>4, ExecutionFacts
<1>6. x[1] \in {"r", "w"} /\ x[2] \in Access /\ x[2].addr \in Nat
  BY <1>3 DEF Access
<1>7. s \in Record /\ s.mem_r \in SUBSET Nat /\ s.mem_w \in SUBSET Nat
  <2>1. s \in Record
    BY <1>3, <1>4
  <2> HIDE DEF s
  <2> QED
    BY <2>1 DEF Record
<1>8. /\ s = Step(insn, s.mem_r, s.mem_w)
      /\ s.mem_r \cup Coming(accesses, "r") = FirstAddresses(insn.loads)
      /\ s.mem_w \cup Coming(accesses, "w") = FirstAddresses(insn.stores)
  BY <1>3, <1>4 DEF TraceInv
<1> DEFINE loaded == IF x[1] = "w" THEN s.mem_r ELSE s.mem_r \cup {x[2].addr}
           stored == IF x[1] = "w" THEN s.mem_w \cup {x[2].addr} ELSE s.mem_w
           s2 == Step(insn, loaded, stored)
<1>9. /\ loaded \in SUBSET Nat /\ stored \in SUBSET Nat
      /\ loaded \cup Coming(accesses', "r") = FirstAddresses(insn.loads)
      /\ stored \cup Coming(accesses', "w") = FirstAddresses(insn.stores)
  <2>1. /\ Coming(accesses, "r") = IF x[1] = "r" THEN Coming(accesses', "r") \cup {x[2].addr}
                                   ELSE Coming(accesses', "r")
        /\ Coming(accesses, "w") = IF x[1] = "w" THEN Coming(accesses', "w") \cup {x[2].addr}
                                   ELSE Coming(accesses', "w")
    <3>1. x \in accesses /\ accesses' = accesses \ {x}
      BY <1>1
    <3>2. \A kind : Coming(accesses, kind) =
             IF kind = x[1] THEN Coming(accesses \ {x}, kind) \cup {x[2].addr}
             ELSE Coming(accesses \ {x}, kind)
      BY <3>1, Hooked
    <3> QED
      BY <3>1, <3>2
  <2> HIDE DEF s, insn
  <2>2. CASE x[1] = "w"
    BY <1>6, <1>7, <1>8, <2>1, <2>2
  <2>3. CASE x[1] = "r"
    BY <1>6, <1>7, <1>8, <2>1, <2>3
  <2> QED
    BY <1>6, <2>2, <2>3
<1>10. s2 \in Record /\ s2.mem_r = loaded /\ s2.mem_w = stored
  <2> HIDE DEF loaded, stored, insn
  <2> QED
    BY <1>5, <1>9, StepIsRecord
<1>11. steps' = [steps EXCEPT ![n] = s2]
  <2>1. /\ [s EXCEPT !.mem_r = @ \cup {x[2].addr}] = Step(insn, s.mem_r \cup {x[2].addr}, s.mem_w)
        /\ [s EXCEPT !.mem_w = @ \cup {x[2].addr}] = Step(insn, s.mem_r, s.mem_w \cup {x[2].addr})
    <3>1. s = Step(insn, s.mem_r, s.mem_w)
      BY <1>8
    <3> HIDE DEF s, insn
    <3> QED
      BY <1>5, <1>6, <1>7, <3>1, AccessJoins
  <2>2. steps' = [steps EXCEPT ![n] = IF x[1] = "w" THEN [s EXCEPT !.mem_w = @ \cup {x[2].addr}]
                                      ELSE [s EXCEPT !.mem_r = @ \cup {x[2].addr}]]
    BY <1>1
  <2> QED
    BY <2>1, <2>2
<1>12. /\ steps' \in Seq(Record) /\ Len(steps') = n /\ DOMAIN steps' = 1..n /\ steps'[n] = s2
       /\ \A k \in 1..n : k # n => steps'[k] = steps[k]
  <2>1. s2 \in Record
    BY <1>10
  <2> HIDE DEF s2, n
  <2>2. steps' \in Seq(Record)
    BY <1>3, <1>4, <1>11, <2>1
  <2>3. Len(steps') = Len(steps) /\ DOMAIN steps' = DOMAIN steps
    BY <1>3, <1>11, <2>2
  <2> QED
    BY <1>3, <1>4, <1>11, <2>2, <2>3 DEF n
<1>13. ASSUME NEW k \in 1..n
       PROVE  IF k < n \/ accesses' = {} THEN steps'[k] = Recorded(execution[k])
              ELSE /\ steps'[k] = Step(execution[k], steps'[k].mem_r, steps'[k].mem_w)
                   /\ steps'[k].mem_r \cup Coming(accesses', "r") = FirstAddresses(execution[k].loads)
                   /\ steps'[k].mem_w \cup Coming(accesses', "w") = FirstAddresses(execution[k].stores)
  <2>0. n \in Nat
    BY <1>3
  <2>1. CASE k < n
    <3>1. steps[k] = Recorded(execution[k])
      BY <1>3, <2>1 DEF TraceInv
    <3>2. k # n
      BY <2>1, <2>0
    <3>3. steps'[k] = steps[k]
      BY <1>12, <3>2
    <3> QED
      BY <2>1, <3>1, <3>3
  <2>2. CASE k = n
    <3>1. execution[k] = insn /\ steps'[k] = s2
      BY <1>12, <2>2
    <3>2. accesses' = {} => Recorded(insn) = s2
      BY <1>9, NothingComing DEF Recorded
    <3>3. ~(k < n)
      BY <1>3, <2>2
    <3> HIDE DEF loaded, stored, insn, n
    <3> QED
      BY <1>9, <1>10, <3>1, <3>2, <3>3
  <2>3. k < n \/ k = n
    <3> HIDE DEF n
    <3> QED
      BY <2>0
  <2> QED
    BY <2>1, <2>2, <2>3
<1>14. accesses' \subseteq {"r", "w"} \X Access /\ steps' # <<>>
  <2>1. accesses' \subseteq {"r", "w"} \X Access
    BY <1>1, <1>3
  <2>2. n # 0
    BY <1>3, <1>4
  <2> QED
    BY <1>12, <2>1, <2>2
<1> HIDE DEF n
<1> QED
  BY <1>2, <1>3, <1>12, <1>13, <1>14 DEF TraceInv

LEMMA TraceKept ==
  ASSUME TraceInv, UNCHANGED <<execution, goal, steps, accesses>>
  PROVE  TraceInv'
BY DEF TraceInv

(***************************************************************************)
(* A finished trace is that of the execution.                              *)
(***************************************************************************)
LEMMA TraceComplete ==
  ASSUME TraceInv, accesses = {}, Len(steps) = Len(execution)
  PROVE  steps = Traced(execution)
<1>1. steps \in Seq(Record) /\ DOMAIN steps = 1..Len(execution)
  BY DEF TraceInv
<1>2. \A k \in 1..Len(execution) : steps[k] = Recorded(execution[k])
  BY <1>1 DEF TraceInv
<1>3. steps = [k \in 1..Len(execution) |-> steps[k]]
  BY <1>1
<1> QED
  BY <1>2, <1>3 DEF Traced

(***************************************************************************)
(* What has been kept, one instruction further back.                       *)
(***************************************************************************)
LEMMA ReachingBefore ==
  ASSUME NEW e, Len(e) \in Nat, NEW k \in 1..Len(e), NEW seeds
  PROVE  Reaching(e, k - 1, seeds) =
           IF Reaches(e, k, seeds) THEN Reaching(e, k, seeds) \cup {k - 1}
           ELSE Reaching(e, k, seeds)
<1>1. ((k - 1) + 1)..Len(e) = {k} \cup (k + 1)..Len(e)
  OBVIOUS
<1> DEFINE A == {j \in (k + 1)..Len(e) : Reaches(e, j, seeds)}
           B == {j \in ((k - 1) + 1)..Len(e) : Reaches(e, j, seeds)}
<1>2. B = IF Reaches(e, k, seeds) THEN A \cup {k} ELSE A
  BY <1>1
<1>3. Reaching(e, k, seeds) = {i - 1 : i \in A} /\ Reaching(e, k - 1, seeds) = {i - 1 : i \in B}
  BY DEF Reaching
<1> HIDE DEF A, B
<1> QED
  BY <1>2, <1>3

LEMMA ReachingBeyond ==
  ASSUME NEW e, Len(e) \in Nat, NEW k \in 0..Len(e), NEW seeds
  PROVE  /\ \A x \in Reaching(e, k, seeds) : x >= k
         /\ Reaching(e, Len(e), seeds) = {}
BY DEF Reaching

LEMMA BeginsExact ==
  ASSUME SliceInv, BeginWalk
  PROVE  SliceInv'
<1> DEFINE e == execution
           S == Seeds(goal, steps)
           v == AsRecorded(e)
<1>1. /\ TraceInv /\ accesses = {} /\ Len(steps) = Len(e) /\ idx = <<>>
      /\ e \in Executions /\ goal \in Goals /\ Len(e) \in Nat
  BY ExecutionsAssumption DEF SliceInv, BeginWalk, TraceInv
<1>2. /\ slicing' = "walking" /\ at' = Len(e) /\ live' = S
      /\ execution' = execution /\ goal' = goal /\ steps' = steps /\ accesses' = accesses
      /\ idx' = idx
  BY <1>1 DEF BeginWalk, trace
<1>3. steps = Traced(e)
  BY <1>1, TraceComplete
<1>4. Len(v) = Len(e)
  BY <1>1, ExecutionsAssumption, RecordedView
<1>5. \A i \in 1..Len(e) : Later(v, i, Len(e), S) <=> Wrong(v, i)[Len(e)] \cap S # {}
  <2>1. (Len(e) + 1)..Len(e) = {}
    BY <1>1
  <2> QED
    BY <1>4, <2>1 DEF Later
<1>6. ToSet(idx) = Reaching(v, Len(e), S)
  <2>1. ToSet(<<>>) = {}
    BY DEF ToSet
  <2>2. Len(e) \in 0..Len(e)
    BY <1>1
  <2>3. Reaching(v, Len(e), S) = {}
    <3> HIDE DEF e, S, v
    <3> QED
      BY <1>1, <1>4, <2>2, ReachingBeyond
  <2> QED
    BY <1>1, <2>1, <2>3
<1>7. TraceInv'
  BY <1>1, <1>2, TraceKept
<1>8. LiveInv'
  BY <1>2, <1>5 DEF LiveInv
<1>9. WalkInv'
  <2>1. at' \in 0..Len(execution') /\ idx' \in Seq(Nat) /\ DOMAIN idx' = {}
    BY <1>1, <1>2
  <2>2. ToSet(idx') = Reaching(AsRecorded(execution'), at', Seeds(goal', steps'))
    BY <1>2, <1>6
  <2> QED
    BY <1>1, <1>2, <1>3, <1>8, <2>1, <2>2 DEF WalkInv
<1> QED
  BY <1>2, <1>7, <1>9 DEF SliceInv, SliceIsExact

LEMMA WalksExact ==
  ASSUME SliceInv, Walk
  PROVE  SliceInv'
<1> DEFINE e == execution
           S == Seeds(goal, steps)
           v == AsRecorded(e)
           k == at
           keeps == Decides(v, k) \/ v[k].written \cap live # {}
           live2 == IF keeps THEN (live \ v[k].written) \cup v[k].read ELSE live
<1>1. /\ TraceInv /\ WalkInv /\ slicing = "walking" /\ at > 0
      /\ e \in Executions /\ goal \in Goals /\ e \in Seq(Instruction) /\ Len(e) \in Nat
  BY ExecutionsAssumption DEF SliceInv, Walk, TraceInv
<1>2. /\ steps = Traced(e) /\ accesses = {} /\ at \in 0..Len(e) /\ idx \in Seq(Nat)
      /\ ToSet(idx) = Reaching(v, k, S)
      /\ \A i \in 1..k : Later(v, i, k, S) <=> Wrong(v, i)[k] \cap live # {}
  BY <1>1 DEF WalkInv, LiveInv
<1>3. k \in 1..Len(e)
  BY <1>1, <1>2
<1>4. /\ Len(v) = Len(e) /\ v[k].read = Uses(Recorded(e[k]))
      /\ v[k].written = Defs(Recorded(e[k]))
  BY <1>1, <1>3, RecordedView
<1>5. /\ steps[at] = Recorded(e[k])
      /\ AutoControl(steps[at]) <=> Decides(v, k)
  BY <1>1, <1>2, <1>3, AutoControlIsDecides
<1>6. /\ keeps <=> Reaches(v, k, S)
      /\ \A i \in 1..(k - 1) : Later(v, i, k - 1, S) <=> Wrong(v, i)[k - 1] \cap live2 # {}
  <2> HIDE DEF v, S, e
  <2> QED
    BY <1>1, <1>2, <1>3, <1>4, TurnExact
<1>7. /\ idx' = IF keeps THEN Append(idx, k - 1) ELSE idx
      /\ live' = live2
      /\ at' = k - 1 /\ slicing' = slicing
      /\ execution' = execution /\ goal' = goal /\ steps' = steps /\ accesses' = accesses
  <2>1. Liveness(steps[at]) = (live \ v[k].written) \cup v[k].read
    BY <1>4, <1>5 DEF Liveness
  <2>2. (AutoControl(steps[at]) \/ Defs(steps[at]) \cap live # {}) <=> keeps
    BY <1>4, <1>5
  <2> HIDE DEF v
  <2> QED
    BY <2>1, <2>2 DEF Walk, trace
<1> HIDE DEF keeps, live2
<1>8. ToSet(idx') = Reaching(v, k - 1, S)
  <2>1. Reaching(v, k - 1, S) = IF keeps THEN Reaching(v, k, S) \cup {k - 1}
                                ELSE Reaching(v, k, S)
    <3> HIDE DEF v, S, e
    <3> QED
      BY <1>1, <1>3, <1>4, <1>6, ReachingBefore
  <2>2. ToSet(Append(idx, k - 1)) = ToSet(idx) \cup {k - 1}
    <3> DEFINE x == k - 1
               s == Append(idx, x)
    <3>1. Len(idx) \in Nat /\ DOMAIN idx = 1..Len(idx) /\ DOMAIN s = 1..(Len(idx) + 1)
          /\ s[Len(idx) + 1] = x /\ \A j \in 1..Len(idx) : s[j] = idx[j]
      BY <1>2
    <3>2. DOMAIN s = DOMAIN idx \cup {Len(idx) + 1}
      BY <3>1
    <3> HIDE DEF s, x
    <3>3. ToSet(s) = ToSet(idx) \cup {x}
      BY <3>1, <3>2 DEF ToSet
    <3> QED
      BY <3>3 DEF s, x
  <2> QED
    BY <1>2, <1>7, <2>1, <2>2
<1>9. idx' \in Seq(Nat) /\ \A i, j \in DOMAIN idx' : i < j => idx'[j] < idx'[i]
  <2>1. \A i, j \in DOMAIN idx : i < j => idx[j] < idx[i]
    BY <1>1 DEF WalkInv
  <2>2. CASE ~keeps
    BY <1>2, <1>7, <2>1, <2>2
  <2>3. CASE keeps
    <3>1. k - 1 \in Nat /\ Len(idx) \in Nat
      BY <1>2, <1>3
    <3>2. /\ idx' = Append(idx, k - 1) /\ idx' \in Seq(Nat)
          /\ DOMAIN idx' = 1..(Len(idx) + 1) /\ DOMAIN idx = 1..Len(idx)
          /\ idx'[Len(idx) + 1] = k - 1 /\ \A j \in 1..Len(idx) : idx'[j] = idx[j]
      BY <1>2, <1>7, <2>3, <3>1
    <3>3. ASSUME NEW i \in DOMAIN idx PROVE idx[i] \in Nat /\ k - 1 < idx[i]
      <4>1. idx[i] \in Reaching(v, k, S)
        BY <1>2 DEF ToSet
      <4>2. idx[i] >= k /\ idx[i] \in Nat
        <5>1. k \in 0..Len(v) /\ Len(v) \in Nat
          BY <1>1, <1>2, <1>4
        <5>2. idx[i] \in Nat
          BY <1>2
        <5> HIDE DEF v, S, e
        <5> QED
          BY <4>1, <5>1, <5>2, ReachingBeyond
      <4>3. k \in Nat
        BY <1>2
      <4> HIDE DEF k
      <4> QED
        BY <4>2, <4>3
    <3>4. ASSUME NEW i \in DOMAIN idx', NEW j \in DOMAIN idx', i < j
          PROVE  idx'[j] < idx'[i]
      <4>1. CASE j = Len(idx) + 1
        <5>1. i \in DOMAIN idx
          BY <3>1, <3>2, <3>4, <4>1
        <5> QED
          BY <3>2, <3>3, <4>1, <5>1
      <4>2. CASE j # Len(idx) + 1
        <5>1. i \in DOMAIN idx /\ j \in DOMAIN idx
          BY <3>1, <3>2, <3>4, <4>2
        <5> QED
          BY <2>1, <3>2, <3>4, <5>1
      <4> QED
        BY <4>1, <4>2
    <3> QED
      BY <3>2, <3>4
  <2> QED
    BY <2>2, <2>3
<1>10. TraceInv'
  BY <1>1, <1>7, TraceKept
<1>11. LiveInv'
  BY <1>6, <1>7 DEF LiveInv
<1>12. WalkInv'
  <2>1. at' \in 0..Len(execution')
    BY <1>1, <1>3, <1>7
  <2>2. ToSet(idx') = Reaching(AsRecorded(execution'), at', Seeds(goal', steps'))
    BY <1>7, <1>8
  <2> QED
    BY <1>2, <1>7, <1>9, <1>11, <2>1, <2>2 DEF WalkInv
<1> QED
  BY <1>1, <1>7, <1>10, <1>12 DEF SliceInv, SliceIsExact

LEMMA EndsExact ==
  ASSUME SliceInv, EndWalk
  PROVE  SliceInv'
<1> DEFINE e == execution
           S == Seeds(goal, steps)
           n == Len(idx)
<1>1. /\ TraceInv /\ WalkInv /\ at = 0
      /\ slicing' = "sliced" /\ idx' = Reverse(idx)
      /\ execution' = execution /\ goal' = goal /\ steps' = steps /\ accesses' = accesses
  BY DEF SliceInv, EndWalk, trace
<1>2. /\ idx \in Seq(Nat) /\ n \in Nat /\ DOMAIN idx = 1..n
      /\ ToSet(idx) = Reaching(AsRecorded(e), 0, S)
      /\ \A i, j \in DOMAIN idx : i < j => idx[j] < idx[i]
  BY <1>1 DEF WalkInv
<1>3. idx' = [i \in 1..n |-> idx[(n - i) + 1]]
  BY <1>1 DEF Reverse
<1>4. \A i \in 1..n : (n - i) + 1 \in 1..n /\ (n - ((n - i) + 1)) + 1 = i
  BY <1>2
<1> HIDE DEF n
<1>5. DOMAIN idx' = 1..n /\ \A i \in 1..n : idx'[i] = idx[(n - i) + 1]
  BY <1>3
<1>6. ToSet(idx') = ToSet(idx)
  <2>1. ASSUME NEW i \in 1..n PROVE idx'[i] \in ToSet(idx)
    BY <1>2, <1>4, <1>5 DEF ToSet
  <2>2. ASSUME NEW i \in 1..n PROVE idx[i] \in ToSet(idx')
    <3>1. idx[i] = idx'[(n - i) + 1] /\ (n - i) + 1 \in DOMAIN idx'
      BY <1>4, <1>5
    <3> QED
      BY <3>1 DEF ToSet
  <2> QED
    BY <1>2, <1>5, <2>1, <2>2 DEF ToSet
<1>7. ASSUME NEW i \in 1..n, NEW j \in 1..n, i < j PROVE idx'[i] < idx'[j]
  <2>1. (n - j) + 1 < (n - i) + 1
    BY <1>2, <1>7
  <2> QED
    BY <1>2, <1>4, <1>5, <2>1
<1>8. SliceIsExact'
  BY <1>1, <1>2, <1>5, <1>6, <1>7 DEF SliceIsExact
<1>9. TraceInv'
  BY <1>1, TraceKept
<1> QED
  BY <1>1, <1>8, <1>9 DEF SliceInv

-----------------------------------------------------------------------------
(***************************************************************************)
(* The inductive invariant: while tracing, the steps are the execution's;  *)
(* while walking, what is live decides for what is still to come.          *)
(***************************************************************************)
THEOREM SliceInductive == SliceSpec => []SliceInv
<1>1. SliceInit => SliceInv
  BY InitTraced
<1>2. SliceInv /\ [SliceNext]_sliceVars => SliceInv'
  <2> SUFFICES ASSUME SliceInv, [SliceNext]_sliceVars PROVE SliceInv'
    OBVIOUS
  <2>0. TraceInv
    BY DEF SliceInv
  <2>1. CASE OnCode
    <3>1. TraceInv'
      BY <2>0, <2>1, OnCodeTraces
    <3>2. slicing = "tracing" /\ slicing' = slicing /\ idx' = idx
      BY <2>1 DEF OnCode, walk
    <3> QED
      BY <3>1, <3>2 DEF SliceInv, SliceIsExact
  <2>2. CASE OnMem
    <3>1. TraceInv'
      BY <2>0, <2>2, OnMemTraces
    <3>2. slicing = "tracing" /\ slicing' = slicing /\ idx' = idx
      BY <2>2 DEF OnMem, walk
    <3> QED
      BY <3>1, <3>2 DEF SliceInv, SliceIsExact
  <2>3. CASE BeginWalk
    BY <2>3, BeginsExact
  <2>4. CASE Walk
    BY <2>4, WalksExact
  <2>5. CASE EndWalk
    BY <2>5, EndsExact
  <2>6. CASE UNCHANGED sliceVars
    <3>1. UNCHANGED <<slicing, execution, goal, steps, accesses, at, live, idx>>
      BY <2>6 DEF sliceVars, trace, walk
    <3>2. TraceInv'
      BY <2>0, <3>1, TraceKept
    <3>3. WalkInv => WalkInv'
      BY <3>1 DEF WalkInv, LiveInv
    <3>4. SliceIsExact => SliceIsExact'
      BY <3>1 DEF SliceIsExact
    <3> QED
      BY <3>1, <3>2, <3>3, <3>4 DEF SliceInv
  <2> QED
    BY <2>1, <2>2, <2>3, <2>4, <2>5, <2>6 DEF SliceNext
<1> QED
  BY <1>1, <1>2, PTL DEF SliceSpec

(***************************************************************************)
(* The slice of a golden run holds exactly the triggers whose disturbance  *)
(* can reach a seed or a decision along what the hooks recorded, in        *)
(* ascending order, whatever the instructions, the goal and the loop       *)
(* threshold (backward_slice_from_seeds, slice.py:156-181).                *)
(***************************************************************************)
THEOREM SliceExact == SliceSpec => []SliceIsExact
<1>1. SliceInv => SliceIsExact
  BY DEF SliceInv
<1> QED
  BY <1>1, SliceInductive, PTL

-----------------------------------------------------------------------------
(***************************************************************************)
(* Of a legible execution both views tell the same.  A set of locations is *)
(* whole if it holds all the bytes of an access or none; a record keeps    *)
(* the registers and the first addresses.                                  *)
(***************************************************************************)
Whole(e, X) ==
  \A a \in Accesses(e) : \A b, c \in ByteRange(a) : <<"mem", b>> \in X => <<"mem", c>> \in X

Kept(e) == RegLocs(Registers) \cup MemLocs(FirstAddresses(Accesses(e)))
Touched(e) == RegLocs(Registers) \cup Bytes(Accesses(e))

LEMMA InstructionAccesses ==
  ASSUME NEW e \in Seq(Instruction), NEW k \in 1..Len(e)
  PROVE  /\ e[k] \in Instruction /\ k \in DOMAIN e
         /\ e[k].loads \subseteq Access /\ e[k].stores \subseteq Access
         /\ e[k].loads \subseteq Accesses(e) /\ e[k].stores \subseteq Accesses(e)
<1>1. e[k] \in Instruction /\ k \in DOMAIN e
  OBVIOUS
<1>2. e[k].loads \subseteq Access /\ e[k].stores \subseteq Access
  BY <1>1 DEF Instruction
<1>3. e[k].loads \cup e[k].stores \subseteq Accesses(e)
  BY <1>1 DEF Accesses
<1> QED
  BY <1>1, <1>2, <1>3

LEMMA FirstByte ==
  ASSUME NEW a \in Access
  PROVE  a.addr \in ByteRange(a) /\ a.addr \in Nat
BY DEF Access, ByteRange

LEMMA MemIn ==
  ASSUME NEW names, NEW addrs, NEW b
  PROVE  <<"mem", b>> \in RegLocs(names) \cup MemLocs(addrs) <=> b \in addrs
<1>1. <<"mem", b>> \notin RegLocs(names)
  <2> SUFFICES ASSUME NEW r \in names, <<"mem", b>> = <<"reg", r>> PROVE FALSE
    BY DEF RegLocs
  <2>1. <<"mem", b>>[1] = "mem" /\ <<"reg", r>>[1] = "reg"
    OBVIOUS
  <2> QED
    BY <2>1
<1>2. <<"mem", b>> \in MemLocs(addrs) <=> b \in addrs
  <2>1. ASSUME NEW c \in addrs, <<"mem", b>> = <<"mem", c>> PROVE b = c
    <3>1. <<"mem", b>>[2] = b /\ <<"mem", c>>[2] = c
      OBVIOUS
    <3> QED
      BY <2>1, <3>1
  <2> QED
    BY <2>1 DEF MemLocs
<1> QED
  BY <1>1, <1>2

(***************************************************************************)
(* What the bytes of some accesses are, beside registers: the accesses are *)
(* an instruction's loads or its stores.                                   *)
(***************************************************************************)
LEMMA Straddled ==
  ASSUME NEW e \in Seq(Instruction), NoPartialOverlap(e),
         NEW accs, accs \subseteq Accesses(e), accs \subseteq Access,
         NEW names, names \subseteq Registers
  PROVE  LET bytes == RegLocs(names) \cup Bytes(accs)
             firsts == RegLocs(names) \cup MemLocs(FirstAddresses(accs))
         IN  /\ Whole(e, bytes) /\ bytes \subseteq Touched(e)
             /\ firsts = bytes \cap Kept(e)
             /\ \A X : Whole(e, X) => (bytes \cap X # {} <=> firsts \cap X # {})
<1> DEFINE B == UNION {ByteRange(a) : a \in accs}
           F == FirstAddresses(accs)
           bytes == RegLocs(names) \cup MemLocs(B)
           firsts == RegLocs(names) \cup MemLocs(F)
<1>1. ASSUME NEW x \in accs PROVE x \in Accesses(e) /\ x.addr \in ByteRange(x) /\ x.addr \in F
  BY FirstByte DEF FirstAddresses
<1>2. F \subseteq B
  BY <1>1 DEF FirstAddresses
<1>3. Whole(e, bytes)
  <2> SUFFICES ASSUME NEW a \in Accesses(e), NEW b \in ByteRange(a), NEW c \in ByteRange(a),
                      <<"mem", b>> \in bytes
               PROVE  <<"mem", c>> \in bytes
    BY DEF Whole
  <2>1. b \in B
    <3> HIDE DEF B
    <3> QED
      BY MemIn
  <2>2. PICK x \in accs : b \in ByteRange(x)
    BY <2>1
  <2>3. c \in B
    BY <1>1, <2>2 DEF NoPartialOverlap
  <2> HIDE DEF B
  <2> QED
    BY <2>3, MemIn
<1>4. /\ RegLocs(names) \subseteq RegLocs(Registers)
      /\ MemLocs(B) \subseteq Bytes(Accesses(e))
      /\ MemLocs(F) \subseteq MemLocs(FirstAddresses(Accesses(e)))
  <2>1. F \subseteq FirstAddresses(Accesses(e))
    BY <1>1 DEF FirstAddresses
  <2>2. B \subseteq UNION {ByteRange(a) : a \in Accesses(e)}
    BY <1>1
  <2> HIDE DEF B, F
  <2> QED
    BY <2>1, <2>2 DEF RegLocs, MemLocs, Bytes
<1>5. bytes \cap Kept(e) \subseteq firsts
  <2> SUFFICES ASSUME NEW l \in MemLocs(B), l \in Kept(e) PROVE l \in firsts
    OBVIOUS
  <2>1. PICK b \in B : l = <<"mem", b>>
    BY DEF MemLocs
  <2>2. b \in FirstAddresses(Accesses(e))
    BY <2>1, MemIn DEF Kept
  <2>3. PICK a \in Accesses(e) : b = a.addr
    BY <2>2 DEF FirstAddresses
  <2>4. PICK x \in accs : b \in ByteRange(x)
    OBVIOUS
  <2>5. a \in Access
    <3>1. PICK k \in DOMAIN e : a \in e[k].loads \cup e[k].stores
      BY DEF Accesses
    <3> QED
      BY <3>1, InstructionAccesses
  <2>6. x = a
    BY <1>1, <2>3, <2>4, <2>5, FirstByte DEF NoPartialOverlap
  <2>7. b \in F
    BY <1>1, <2>3, <2>6
  <2> HIDE DEF F
  <2> QED
    BY <2>1, <2>7 DEF MemLocs
<1>6. firsts \subseteq bytes
  <2> HIDE DEF B, F
  <2> QED
    BY <1>2 DEF MemLocs
<1>7. ASSUME NEW X, Whole(e, X), bytes \cap X # {} PROVE firsts \cap X # {}
  <2> SUFFICES ASSUME NEW l \in MemLocs(B), l \in X PROVE firsts \cap X # {}
    BY <1>7
  <2>1. PICK b \in B : l = <<"mem", b>>
    BY DEF MemLocs
  <2>2. PICK x \in accs : b \in ByteRange(x)
    OBVIOUS
  <2>3. <<"mem", x.addr>> \in X /\ x.addr \in F
    BY <1>1, <1>7, <2>1, <2>2 DEF Whole
  <2> HIDE DEF F
  <2> QED
    BY <2>3 DEF MemLocs
<1>8. bytes \subseteq Touched(e) /\ firsts \subseteq Kept(e)
  <2> HIDE DEF B, F
  <2> QED
    BY <1>4 DEF Touched, Kept
<1>9. bytes = RegLocs(names) \cup Bytes(accs)
  BY DEF Bytes
<1> HIDE DEF bytes, firsts, B
<1> QED
  BY <1>3, <1>5, <1>6, <1>7, <1>8, <1>9 DEF firsts

(***************************************************************************)
(* Instruction by instruction, the record of a legible execution keeps of  *)
(* a read and a write what it can keep.                                    *)
(***************************************************************************)
LEMMA InstructionViews ==
  ASSUME NEW e \in Seq(Instruction), NEW seeds, Legible(e, seeds), NEW k \in 1..Len(e)
  PROVE  LET x == AsExecuted(e)[k]
             r == AsRecorded(e)[k]
         IN  /\ r.pc = x.pc /\ r.cond = x.cond
             /\ Whole(e, x.written) /\ x.written \subseteq Touched(e)
             /\ r.written = x.written \cap Kept(e) /\ r.read \subseteq Kept(e)
             /\ \A X : Whole(e, X) => (x.read \cap X # {} <=> r.read \cap X # {})
<1> DEFINE x == AsExecuted(e)[k]
           r == AsRecorded(e)[k]
           insn == e[k]
<1>1. /\ insn \in Instruction /\ k \in DOMAIN e
      /\ insn.loads \subseteq Access /\ insn.stores \subseteq Access
      /\ insn.loads \subseteq Accesses(e) /\ insn.stores \subseteq Accesses(e)
  BY InstructionAccesses
<1>2. Shown(insn) /\ NoPartialOverlap(e)
  BY <1>1 DEF Legible
<1>3. HookedReads(insn) = insn.reads \cup insn.hidden
  BY <1>2 DEF Shown, HookedReads
<1>4. /\ insn.reads \cup insn.hidden \subseteq Registers
      /\ insn.writes \subseteq Registers
  BY <1>1 DEF Instruction
<1>5. /\ x.pc = insn.pc /\ x.cond = insn.conditional
      /\ x.read = RegLocs(insn.reads \cup insn.hidden) \cup Bytes(insn.loads)
      /\ x.written = RegLocs(insn.writes) \cup Bytes(insn.stores)
  BY DEF AsExecuted
<1>6. /\ Recorded(insn).reg_r = HookedReads(insn)
      /\ Recorded(insn).reg_w = insn.writes
      /\ Recorded(insn).mem_r = FirstAddresses(insn.loads)
      /\ Recorded(insn).mem_w = FirstAddresses(insn.stores)
  BY DEF Recorded, Step
<1>7. /\ r.pc = insn.pc /\ r.cond = insn.cc
      /\ r.read = RegLocs(insn.reads \cup insn.hidden) \cup MemLocs(FirstAddresses(insn.loads))
      /\ r.written = RegLocs(insn.writes) \cup MemLocs(FirstAddresses(insn.stores))
  <2>1. /\ r.read = Uses(Recorded(insn)) /\ r.written = Defs(Recorded(insn))
        /\ r.pc = insn.pc /\ r.cond = insn.cc
    BY RecordedView
  <2> HIDE DEF r, insn
  <2> QED
    BY <1>3, <1>6, <2>1 DEF Uses, Defs
<1> HIDE DEF x, r, insn
<1>8. /\ Whole(e, x.written) /\ x.written \subseteq Touched(e)
      /\ r.written = x.written \cap Kept(e)
  <2> DEFINE names == insn.writes
             accs == insn.stores
  <2>1. names \subseteq Registers /\ accs \subseteq Accesses(e) /\ accs \subseteq Access
    BY <1>1, <1>4
  <2>2. /\ x.written = RegLocs(names) \cup Bytes(accs)
        /\ r.written = RegLocs(names) \cup MemLocs(FirstAddresses(accs))
    BY <1>5, <1>7
  <2> DEFINE b == RegLocs(names) \cup Bytes(accs)
             f == RegLocs(names) \cup MemLocs(FirstAddresses(accs))
  <2> HIDE DEF names, accs
  <2>3. /\ Whole(e, b) /\ b \subseteq Touched(e) /\ f = b \cap Kept(e)
        /\ \A X : Whole(e, X) => (b \cap X # {} <=> f \cap X # {})
    BY <1>2, <2>1, Straddled
  <2> HIDE DEF b, f
  <2> QED
    BY <2>2, <2>3 DEF b, f
<1>9. /\ r.read = x.read \cap Kept(e)
      /\ \A X : Whole(e, X) => (x.read \cap X # {} <=> r.read \cap X # {})
  <2> DEFINE names == insn.reads \cup insn.hidden
             accs == insn.loads
  <2>1. names \subseteq Registers /\ accs \subseteq Accesses(e) /\ accs \subseteq Access
    BY <1>1, <1>4
  <2>2. /\ x.read = RegLocs(names) \cup Bytes(accs)
        /\ r.read = RegLocs(names) \cup MemLocs(FirstAddresses(accs))
    BY <1>5, <1>7
  <2> DEFINE b == RegLocs(names) \cup Bytes(accs)
             f == RegLocs(names) \cup MemLocs(FirstAddresses(accs))
  <2> HIDE DEF names, accs
  <2>3. /\ Whole(e, b) /\ b \subseteq Touched(e) /\ f = b \cap Kept(e)
        /\ \A X : Whole(e, X) => (b \cap X # {} <=> f \cap X # {})
    BY <1>2, <2>1, Straddled
  <2> HIDE DEF b, f
  <2> QED
    BY <2>2, <2>3 DEF b, f
<1>10. r.pc = x.pc /\ r.cond = x.cond
  BY <1>2, <1>5, <1>7 DEF Shown
<1> QED
  BY <1>8, <1>9, <1>10 DEF x, r

LEMMA ExecutedView ==
  ASSUME NEW e \in Seq(Instruction)
  PROVE  Len(AsExecuted(e)) = Len(e) /\ DOMAIN AsExecuted(e) = 1..Len(e)
<1>1. Len(e) \in Nat
  OBVIOUS
<1> QED
  BY <1>1 DEF AsExecuted

(***************************************************************************)
(* What is wrong as recorded is what is really wrong and kept.             *)
(***************************************************************************)
LEMMA WrongViews ==
  ASSUME NEW e \in Seq(Instruction), NEW seeds, Legible(e, seeds), NEW i \in 1..Len(e)
  PROVE  \A n \in i..Len(e) :
           LET X == Wrong(AsExecuted(e), i)[n]
           IN  /\ Whole(e, X) /\ X \subseteq Touched(e)
               /\ Wrong(AsRecorded(e), i)[n] = X \cap Kept(e)
<1> DEFINE N == Len(e)
           x == AsExecuted(e)
           r == AsRecorded(e)
           Agree(n) == /\ Whole(e, Wrong(x, i)[n]) /\ Wrong(x, i)[n] \subseteq Touched(e)
                       /\ Wrong(r, i)[n] = Wrong(x, i)[n] \cap Kept(e)
           G == {d \in Nat : i + d \in 1..N => Agree(i + d)}
<1>1. N \in Nat /\ i \in 1..N /\ Len(x) = N /\ Len(r) = N
  BY RecordedView, ExecutedView
<1>2. /\ Wrong(x, i)[i] = x[i].written /\ Wrong(r, i)[i] = r[i].written
      /\ \A n \in (i + 1)..N : /\ Wrong(x, i)[n] = Spread(x[n], Wrong(x, i)[n - 1])
                               /\ Wrong(r, i)[n] = Spread(r[n], Wrong(r, i)[n - 1])
  <2> HIDE DEF x, r, N
  <2>1. i \in 1..Len(x) /\ i \in 1..Len(r) /\ Len(x) \in Nat /\ Len(r) \in Nat
    BY <1>1
  <2> QED
    BY <1>1, <2>1, WrongSpreads
<1>3. 0 \in G
  <2>1. Agree(i)
    BY <1>1, <1>2, InstructionViews
  <2>2. i + 0 = i
    BY <1>1
  <2> HIDE DEF Agree, N
  <2> QED
    BY <2>1, <2>2
<1>4. ASSUME NEW d \in Nat, d \in G PROVE d + 1 \in G
  <2> SUFFICES ASSUME i + (d + 1) \in 1..N PROVE Agree(i + (d + 1))
    OBVIOUS
  <2> DEFINE n == i + (d + 1)
             X == Wrong(x, i)[n - 1]
             K == Kept(e)
  <2>1. n \in (i + 1)..N /\ n \in 1..N /\ n - 1 = i + d /\ i + d \in 1..N
    BY <1>1
  <2>2. Whole(e, X) /\ X \subseteq Touched(e) /\ Wrong(r, i)[n - 1] = X \cap K
    <3> HIDE DEF n, N, x, r
    <3> QED
      BY <1>4, <2>1
  <2>3. Wrong(x, i)[n] = Spread(x[n], X) /\ Wrong(r, i)[n] = Spread(r[n], X \cap K)
    <3> HIDE DEF n, x, r, K
    <3> QED
      BY <1>2, <2>1, <2>2
  <2>4. /\ Whole(e, x[n].written) /\ x[n].written \subseteq Touched(e)
        /\ r[n].written = x[n].written \cap K /\ r[n].read \subseteq K
        /\ x[n].read \cap X # {} <=> r[n].read \cap X # {}
    <3> HIDE DEF n, X
    <3> QED
      BY <2>1, <2>2, InstructionViews
  <2> HIDE DEF n, X, K, x, r
  <2>5. Whole(e, X \cup x[n].written) /\ Whole(e, X \ x[n].written)
    BY <2>2, <2>4 DEF Whole
  <2>6. r[n].read \cap (X \cap K) # {} <=> x[n].read \cap X # {}
    BY <2>4
  <2>7. Spread(r[n], X \cap K) = Spread(x[n], X) \cap K
    BY <2>4, <2>6 DEF Spread
  <2>8. Whole(e, Spread(x[n], X)) /\ Spread(x[n], X) \subseteq Touched(e)
    BY <2>2, <2>4, <2>5 DEF Spread
  <2> QED
    BY <2>3, <2>7, <2>8 DEF n, K
<1>5. \A d \in Nat : d \in G
  <2> HIDE DEF G
  <2> QED
    BY <1>3, <1>4, NatInd
<1>6. ASSUME NEW n \in i..Len(e) PROVE Agree(n)
  <2>1. n - i \in Nat /\ i + (n - i) = n /\ n \in 1..N
    BY <1>1
  <2>2. n - i \in G
    BY <2>1, <1>5
  <2> HIDE DEF Agree, N
  <2> QED
    BY <2>1, <2>2
<1> HIDE DEF G
<1> QED
  BY <1>6

(***************************************************************************)
(* Hence the same instructions reach.                                      *)
(***************************************************************************)
LEMMA ViewsAgree ==
  ASSUME NEW e \in Seq(Instruction), NEW seeds, Legible(e, seeds)
  PROVE  Reaching(AsExecuted(e), 0, seeds) = Reaching(AsRecorded(e), 0, seeds)
<1> DEFINE N == Len(e)
           x == AsExecuted(e)
           r == AsRecorded(e)
<1>1. N \in Nat /\ Len(x) = N /\ Len(r) = N /\ DOMAIN x = 1..N /\ DOMAIN r = 1..N
  BY RecordedView, ExecutedView
<1>2. \A k \in 1..N : r[k].pc = x[k].pc /\ r[k].cond = x[k].cond
  BY InstructionViews
<1>3. ASSUME NEW k \in 1..N PROVE Decides(x, k) <=> Decides(r, k)
  <2> HIDE DEF x, r, N
  <2>1. {m \in DOMAIN x : x[m].pc = x[k].pc} = {m \in DOMAIN r : r[m].pc = r[k].pc}
    BY <1>1, <1>2
  <2> QED
    BY <1>2, <2>1 DEF Decides
<1>4. ASSUME NEW i \in 1..N PROVE Later(x, i, i, seeds) <=> Later(r, i, i, seeds)
  <2>1. ASSUME NEW m \in (i + 1)..N
        PROVE  x[m].read \cap Wrong(x, i)[m - 1] # {} <=> r[m].read \cap Wrong(r, i)[m - 1] # {}
    <3>1. m \in 1..N /\ m - 1 \in i..N
      BY <1>1
    <3>2. /\ Whole(e, Wrong(x, i)[m - 1])
          /\ Wrong(r, i)[m - 1] = Wrong(x, i)[m - 1] \cap Kept(e)
      BY <3>1, WrongViews
    <3>3. /\ r[m].read \subseteq Kept(e)
          /\ x[m].read \cap Wrong(x, i)[m - 1] # {} <=> r[m].read \cap Wrong(x, i)[m - 1] # {}
      BY <3>1, <3>2, InstructionViews
    <3> HIDE DEF x, r
    <3> QED
      BY <3>2, <3>3
  <2>2. Wrong(x, i)[N] \cap seeds # {} <=> Wrong(r, i)[N] \cap seeds # {}
    <3>1. N \in i..N
      BY <1>1
    <3>2. Wrong(x, i)[N] \subseteq Touched(e) /\ Wrong(r, i)[N] = Wrong(x, i)[N] \cap Kept(e)
      BY <3>1, WrongViews
    <3>3. Touched(e) \cap seeds \subseteq Kept(e)
      <4> SUFFICES ASSUME NEW l \in Bytes(Accesses(e)), l \in seeds PROVE l \in Kept(e)
        BY DEF Touched, Kept
      <4>1. PICK b \in UNION {ByteRange(a) : a \in Accesses(e)} : l = <<"mem", b>>
        BY DEF Bytes, MemLocs
      <4>2. PICK a \in Accesses(e) : b \in ByteRange(a)
        OBVIOUS
      <4>3. b = a.addr
        BY <4>1, <4>2 DEF Legible, FirstOnly
      <4> QED
        BY <4>1, <4>3 DEF Kept, MemLocs, FirstAddresses
    <3> HIDE DEF x, r
    <3> QED
      BY <3>2, <3>3
  <2>3. \A m \in (i + 1)..N : m \in 1..N
    BY <1>1
  <2> HIDE DEF x, r, N
  <2> QED
    BY <1>1, <1>3, <2>1, <2>2, <2>3 DEF Later
<1> HIDE DEF x, r, N
<1>5. \A i \in 1..N : Reaches(x, i, seeds) <=> Reaches(r, i, seeds)
  BY <1>3, <1>4 DEF Reaches
<1>6. (0 + 1)..N = 1..N
  BY <1>1
<1>7. {j \in (0 + 1)..N : Reaches(x, j, seeds)} = {j \in (0 + 1)..N : Reaches(r, j, seeds)}
  BY <1>5, <1>6
<1> QED
  BY <1>1, <1>7 DEF Reaching, x, r

(***************************************************************************)
(* Of every legible execution the slice holds exactly what can really      *)
(* reach a seed or a decision branch.                                      *)
(***************************************************************************)
THEOREM SliceCovers == SliceSpec => []LegibleRunsAreCovered
<1>1. SliceInv => LegibleRunsAreCovered
  <2> SUFFICES ASSUME SliceInv, slicing = "sliced", Legible(execution, Seeds(goal, steps))
               PROVE  ToSet(idx) = Reaching(AsExecuted(execution), 0, Seeds(goal, steps))
    BY DEF LegibleRunsAreCovered
  <2>1. execution \in Seq(Instruction)
    BY ExecutionsAssumption DEF SliceInv, TraceInv
  <2>2. ToSet(idx) = Reaching(AsRecorded(execution), 0, Seeds(goal, steps))
    BY DEF SliceInv, SliceIsExact
  <2> QED
    BY <2>1, <2>2, ViewsAgree
<1> QED
  BY <1>1, SliceInductive, PTL
=============================================================================
