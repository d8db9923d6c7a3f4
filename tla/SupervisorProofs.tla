-------------------------- MODULE SupervisorProofs --------------------------
(***************************************************************************)
(* Proofs about Supervisor, for every threshold, step, word size, setpoint *)
(* and number of iterations, and every number of faults the model allows.  *)
(***************************************************************************)
EXTENDS Supervisor, TLAPS

LEMMA WordFacts ==
  /\ DutyStep \in Nat /\ DutyStep > 0
  /\ DutyMax \in Nat /\ WordSize \in Nat /\ DutyMax + DutyStep < WordSize
  /\ DutyMax \in Levels /\ 0 \in Levels
  /\ Levels \subseteq Word /\ 0 \in Word
  BY SizeAssumption DEF Levels, Word

LEMMA ModInRange ==
  ASSUME NEW n \in Nat, NEW x \in 0..(n - 1)
  PROVE  x % n = x
  OBVIOUS

LEMMA ModWord ==
  ASSUME NEW x \in Int
  PROVE  x % WordSize \in Word
  BY WordFacts DEF Word

LEMMA RampWord ==
  ASSUME NEW d \in Word, NEW setpoint \in Word
  PROVE  Ramp(d, setpoint) \in Word
<1>1. d \in Int /\ setpoint \in Int /\ DutyStep \in Int
  BY WordFacts DEF Word
<1>2. (d + DutyStep) % WordSize \in Word /\ (d - DutyStep) % WordSize \in Word
  BY <1>1, ModWord
<1>3. Moved(d, setpoint) \in Word
  BY <1>2 DEF Moved
<1> QED BY <1>3, WordFacts DEF Ramp

(***************************************************************************)
(* The ramp stays on whole steps: it does not wrap below zero because a    *)
(* whole number of steps above a setpoint is at least one step.            *)
(***************************************************************************)
LEMMA RampLevel ==
  ASSUME NEW d \in Levels, NEW setpoint \in Word
  PROVE  Ramp(d, setpoint) \in Levels
<1>1. PICK k \in 0..d : d = k * DutyStep
  BY DEF Levels
<1>2. d \in Nat /\ d <= DutyMax /\ setpoint \in Nat /\ k \in Nat
  BY <1>1, WordFacts DEF Levels, Word
<1>3. CASE d < setpoint
  <2>1. d + DutyStep \in 0..(WordSize - 1)
    BY <1>2, WordFacts
  <2>2. Moved(d, setpoint) = d + DutyStep
    BY <1>3, <2>1, ModInRange, WordFacts DEF Moved
  <2>3. d + DutyStep = (k + 1) * DutyStep
    BY <1>1, <1>2, WordFacts
  <2>4. k + 1 \in 0..(d + DutyStep)
    BY <1>1, <1>2, WordFacts
  <2>5. CASE d + DutyStep > DutyMax
    BY <2>2, <2>5, WordFacts DEF Ramp
  <2>6. CASE ~(d + DutyStep > DutyMax)
    <3>1. d + DutyStep \in 0..DutyMax
      BY <2>6, <1>2, WordFacts
    <3>2. d + DutyStep \in Levels
      BY <3>1, <2>3, <2>4 DEF Levels
    <3> QED BY <2>2, <2>6, <3>2 DEF Ramp
  <2> QED BY <2>5, <2>6
<1>4. CASE d > setpoint
  <2>1. k >= 1
    BY <1>1, <1>2, <1>4, WordFacts
  <2>2. d - DutyStep = (k - 1) * DutyStep
    BY <1>1, <1>2, WordFacts
  <2>3. k - 1 \in Nat
    BY <1>2, <2>1
  <2>4. (k - 1) * DutyStep \in Nat /\ k - 1 <= (k - 1) * DutyStep
    <3> DEFINE j == k - 1
    <3>1. \A a, b \in Nat : b > 0 => a * b \in Nat /\ a <= a * b
      OBVIOUS
    <3> QED BY <2>3, <3>1, WordFacts
  <2>5. d - DutyStep \in 0..DutyMax /\ k - 1 \in 0..(d - DutyStep)
    BY <1>2, <2>2, <2>3, <2>4, WordFacts
  <2>6. d - DutyStep \in 0..(WordSize - 1)
    BY <2>5, WordFacts
  <2>7. Moved(d, setpoint) = d - DutyStep
    BY <1>2, <1>4, <2>6, ModInRange, WordFacts DEF Moved
  <2>8. d - DutyStep \in Levels
    BY <2>2, <2>5 DEF Levels
  <2> QED BY <2>5, <2>7, <2>8, WordFacts DEF Ramp
<1>5. CASE d = setpoint
  <2>1. Moved(d, setpoint) = d
    BY <1>2, <1>5 DEF Moved
  <2> QED BY <1>2, <2>1, WordFacts DEF Ramp
<1> QED BY <1>2, <1>3, <1>4, <1>5

-----------------------------------------------------------------------------
(***************************************************************************)
(* Products with the step and the division that rounds up, which the       *)
(* closed form of the ramp is made of.                                     *)
(***************************************************************************)
LEMMA Multiples ==
  ASSUME NEW d \in Nat, d > 0
  PROVE  /\ \A a \in Int : a * d \in Int /\ (a + 1) * d = a * d + d
                           /\ (a - 1) * d = a * d - d
         /\ \A a \in Nat : a * d \in Nat /\ a <= a * d
         /\ \A a, b \in Int : a <= b => a * d <= b * d
         /\ \A a, b \in Int : a * d < b * d => a < b
<1>1. \A a \in Int : a * d \in Int /\ (a + 1) * d = a * d + d /\ (a - 1) * d = a * d - d
  OBVIOUS
<1>2. \A a \in Nat : a * d \in Nat /\ a <= a * d
  OBVIOUS
<1>3. ASSUME NEW a \in Int, NEW b \in Int, a <= b
      PROVE  a * d <= b * d
  <2>1. b - a \in Nat
    BY <1>3
  <2>2. (b - a) * d \in Nat
    BY <1>2, <2>1
  <2>3. (b - a) * d = b * d - a * d
    OBVIOUS
  <2> QED BY <1>1, <2>2, <2>3
<1>4. ASSUME NEW a \in Int, NEW b \in Int, a * d < b * d
      PROVE  a < b
  <2> SUFFICES ASSUME b <= a PROVE FALSE
    OBVIOUS
  <2>1. b * d <= a * d
    BY <1>3
  <2> QED BY <1>1, <1>4, <2>1
<1> QED BY <1>1, <1>2, <1>3, <1>4

LEMMA Division ==
  ASSUME NEW u \in Nat, NEW d \in Nat, d > 0,
         NEW q, q = u \div d, NEW m, m = u % d
  PROVE  q \in Nat /\ m \in 0..(d - 1) /\ u = q * d + m
<1>1. q \in Int
  OBVIOUS
<1>2. m \in 0..(d - 1)
  OBVIOUS
<1>3. u = q * d + m
  OBVIOUS
<1>4. q >= 0
  <2> SUFFICES ASSUME q + 1 <= 0 PROVE FALSE
    BY <1>1
  <2>1. (q + 1) * d <= 0 * d /\ (q + 1) * d = q * d + d /\ q * d \in Int
    BY <1>1, Multiples
  <2> QED BY <1>2, <1>3, <2>1
<1> QED BY <1>1, <1>2, <1>3, <1>4

LEMMA Rounding ==
  ASSUME NEW t \in Nat, NEW d \in Nat, d > 0
  PROVE  LET s == (t + d - 1) \div d
         IN  /\ s \in Nat /\ s * d \in Nat /\ t <= s * d /\ s * d < t + d
             /\ t % d = 0 <=> s * d = t
<1> DEFINE s == (t + d - 1) \div d
           r == (t + d - 1) % d
           q == t \div d
           m == t % d
<1>1. t + d - 1 \in Nat
  OBVIOUS
<1>2. s \in Nat /\ r \in 0..(d - 1) /\ t + d - 1 = s * d + r
  BY <1>1, Division
<1>3. q \in Nat /\ m \in 0..(d - 1) /\ t = q * d + m
  BY Division
<1> HIDE DEF s, r, q, m
<1>4. s * d \in Nat /\ q * d \in Nat
  BY <1>2, <1>3, Multiples
<1>5. t <= s * d /\ s * d < t + d
  BY <1>2, <1>4
<1>6. ASSUME m = 0 PROVE s * d = t
  <2>1. q * d = t
    BY <1>3, <1>4, <1>6
  <2>2. (q + 1) * d = q * d + d
    BY <1>3, Multiples
  <2>3. s < q + 1
    BY <1>2, <1>3, <1>5, <2>1, <2>2, Multiples
  <2>4. s * d <= q * d
    BY <1>2, <1>3, <2>3, Multiples
  <2> QED BY <1>4, <1>5, <2>1, <2>4
<1>7. ASSUME s * d = t PROVE m = 0
  <2>1. q * d <= s * d /\ s * d < q * d + d
    BY <1>3, <1>4, <1>7
  <2>2. (q + 1) * d = q * d + d
    BY <1>3, Multiples
  <2>3. s < q + 1
    BY <1>2, <1>3, <2>1, <2>2, Multiples
  <2>4. s * d <= q * d
    BY <1>2, <1>3, <2>3, Multiples
  <2> QED BY <1>3, <1>4, <1>7, <2>1, <2>4
<1> QED BY <1>2, <1>4, <1>5, <1>6, <1>7 DEF s, m

(***************************************************************************)
(* One more iteration of the closed form is one more step of the ramp.     *)
(***************************************************************************)
LEMMA GoldenStep ==
  ASSUME NEW p \in Word, NEW n \in Nat
  PROVE  /\ GoldenDuty(p, 0) = 0
         /\ GoldenDuty(p, n + 1) = Ramp(GoldenDuty(p, n), p)
<1> DEFINE t == IF p > DutyMax THEN DutyMax ELSE p
           d == DutyStep
           s == (t + d - 1) \div d
           top == s * d
           exact == t % d = 0
<1>1. /\ d \in Nat /\ d > 0 /\ p \in Nat /\ t \in Nat /\ t <= DutyMax /\ t <= p
      /\ t = p \/ (t = DutyMax /\ p > t)
      /\ DutyMax \in Nat /\ WordSize \in Nat /\ DutyMax + d < WordSize
  BY WordFacts DEF Word
<1> HIDE DEF t, d
<1>2. s \in Nat /\ top \in Nat /\ t <= top /\ top < t + d /\ (exact <=> top = t)
  BY <1>1, Rounding
<1>3. top <= DutyMax /\ (~exact => t # DutyMax)
  <2>1. PICK k \in Nat : DutyMax = k * d
    BY WordFacts DEF Levels, d
  <2>2. (k + 1) * d = k * d + d
    BY <1>1, <2>1, Multiples
  <2>3. s < k + 1
    BY <1>1, <1>2, <2>1, <2>2, Multiples
  <2>4. s * d <= k * d
    BY <1>1, <1>2, <2>1, <2>3, Multiples
  <2>5. t = DutyMax => top = t
    <3> HIDE DEF s
    <3> QED BY <1>1, <1>2, <2>1, <2>4
  <2> QED BY <1>2, <2>1, <2>4, <2>5
<1>4. \A m \in Nat : GoldenDuty(p, m) =
         IF m <= s THEN m * d
         ELSE IF exact \/ (m - s) % 2 = 0 THEN top ELSE (s - 1) * d
  BY DEF GoldenDuty, t, d
<1> HIDE DEF s, exact
<1>5. 0 * d = 0 /\ (s - 1) * d = top - d /\ (n + 1) * d = n * d + d /\ n * d \in Nat
  BY <1>1, <1>2, Multiples
<1>6. GoldenDuty(p, 0) = 0
  BY <1>2, <1>4, <1>5
<1> HIDE DEF top
<1>7. \A x \in 0..DutyMax : x < p => Ramp(x, p) = IF x + d > DutyMax THEN DutyMax ELSE x + d
  <2> SUFFICES ASSUME NEW x \in 0..DutyMax, x < p
               PROVE  Ramp(x, p) = IF x + d > DutyMax THEN DutyMax ELSE x + d
    OBVIOUS
  <2>1. x + d \in 0..(WordSize - 1)
    BY <1>1
  <2>2. Moved(x, p) = x + d
    BY <2>1, ModInRange, <1>1 DEF Moved, d
  <2> QED BY <2>2 DEF Ramp
<1>8. \A x \in 0..DutyMax : x > p /\ x >= d => Ramp(x, p) = x - d
  <2> SUFFICES ASSUME NEW x \in 0..DutyMax, x > p, x >= d
               PROVE  Ramp(x, p) = x - d
    OBVIOUS
  <2>1. x - d \in 0..(WordSize - 1)
    BY <1>1
  <2>2. Moved(x, p) = x - d
    BY <2>1, ModInRange, <1>1 DEF Moved, d
  <2> QED BY <1>1, <2>2 DEF Ramp
<1>9. p <= DutyMax => Ramp(p, p) = p
  BY <1>1 DEF Ramp, Moved
<1>10. CASE n < s
  <2>1. n + 1 <= s
    BY <1>2, <1>10
  <2>2. (n + 1) * d <= top
    BY <1>1, <1>2, <2>1, Multiples DEF top
  <2>3. n * d \in 0..DutyMax /\ n * d < p /\ n * d + d <= DutyMax
    BY <1>1, <1>2, <1>3, <1>5, <2>2
  <2>4. Ramp(n * d, p) = n * d + d
    BY <1>1, <1>7, <2>3
  <2>5. GoldenDuty(p, n) = n * d /\ GoldenDuty(p, n + 1) = (n + 1) * d
    BY <1>2, <1>4, <1>10, <2>1
  <2> QED BY <1>5, <1>6, <2>4, <2>5
<1>11. CASE n >= s /\ exact
  <2>1. GoldenDuty(p, n + 1) = top
    BY <1>2, <1>4, <1>11
  <2>2. GoldenDuty(p, n) = top
    <3>1. CASE n = s
      BY <1>2, <1>4, <3>1 DEF top
    <3>2. CASE n > s
      BY <1>2, <1>4, <1>11, <3>2
    <3> QED BY <1>2, <1>11, <3>1, <3>2
  <2>3. Ramp(top, p) = top
    BY <1>1, <1>2, <1>3, <1>7, <1>9, <1>11
  <2> QED BY <1>6, <2>1, <2>2, <2>3
<1>12. CASE n >= s /\ ~exact
  <2>1. /\ p = t /\ top > p /\ top \in 0..DutyMax /\ s > 0 /\ top >= d
        /\ top - d \in 0..DutyMax /\ top - d < p
    <3>1. p = t /\ top > p /\ top \in 0..DutyMax
      BY <1>1, <1>2, <1>3, <1>12
    <3>2. s > 0
      <4>1. s # 0
        BY <1>1, <1>2, <1>5, <3>1 DEF top
      <4> QED BY <1>2, <4>1
    <3>3. (s - 1) * d \in Nat
      BY <1>1, <1>2, <3>2, Multiples
    <3> QED BY <1>1, <1>2, <1>5, <3>1, <3>2, <3>3
  <2>2. Ramp(top, p) = top - d /\ Ramp(top - d, p) = top
    BY <1>1, <1>7, <1>8, <2>1
  <2>3. n - s \in Nat /\ n + 1 - s = (n - s) + 1
    BY <1>2, <1>12
  <2>4. CASE (n - s) % 2 = 0
    <3>1. (n + 1 - s) % 2 # 0
      BY <2>3, <2>4
    <3>2. GoldenDuty(p, n) = top
      BY <1>2, <1>4, <2>4, <1>12 DEF top
    <3>3. GoldenDuty(p, n + 1) = top - d
      BY <1>2, <1>4, <1>5, <1>12, <3>1
    <3> QED BY <1>6, <2>2, <3>2, <3>3
  <2>5. CASE (n - s) % 2 # 0
    <3>1. (n + 1 - s) % 2 = 0 /\ n # s
      BY <2>3, <2>5
    <3>2. GoldenDuty(p, n) = top - d
      BY <1>2, <1>4, <1>5, <2>5, <1>12, <3>1
    <3>3. GoldenDuty(p, n + 1) = top
      BY <1>2, <1>4, <1>12, <3>1
    <3> QED BY <1>6, <2>2, <3>2, <3>3
  <2> QED BY <2>4, <2>5
<1> QED BY <1>2, <1>10, <1>11, <1>12

-----------------------------------------------------------------------------
LEMMA VectorFacts ==
  ASSUME NEW v \in Vectors
  PROVE  /\ v.current_ma \in Nat /\ v.ticks \in Nat /\ Overcurrent \in Nat
         /\ Deadline \in Nat /\ v.setpoint \in Word
         /\ Iterations(v) \in Nat /\ Iterations(v) > 0
         /\ v.fault_asserted <=> v.current_ma > Overcurrent \/ v.ticks > Deadline
  BY VectorAssumption, SizeAssumption DEF Iterations

LEMMA CodeTyped ==
  ASSUME NEW c \in {"INIT", "ARMED", "RUNNING", "SAFE"}
  PROVE  Code(c) \in StateWord
  BY DEF Code, StateWord

LEMMA FlippedTyped ==
  ASSUME NEW w \in StateWord, NEW x \in FlippedState(w)
  PROVE  x \in StateWord
  BY DEF FlippedState, StateWord

(***************************************************************************)
(* What a step may write into g_oracle keeps its type.                     *)
(***************************************************************************)
LEMMA OracleTyped ==
  ASSUME NEW o \in OracleState
  PROVE  /\ \A v \in ValidVerdicts : [o EXCEPT !.verdict = v] \in OracleState
         /\ \A m \in Marks : [o EXCEPT !.marks = @ \cup {m}] \in OracleState
         /\ \A d \in Word : [o EXCEPT !.pwm_duty = d] \in OracleState
         /\ \A d \in Word, v \in ValidVerdicts :
              [o EXCEPT !.pwm_duty = d, !.verdict = v] \in OracleState
         /\ \A d \in Word, c \in {"INIT", "ARMED", "RUNNING", "SAFE", "corrupt"} :
              [o EXCEPT !.sup_state = c, !.pwm_duty = d] \in OracleState
         /\ \A c \in {"INIT", "ARMED", "RUNNING", "SAFE", "corrupt"} :
              [o EXCEPT !.sup_state = c] \in OracleState
         /\ \A c \in {"INIT", "ARMED", "RUNNING", "SAFE"}, m \in Marks :
              [o EXCEPT !.sup_state = c, !.marks = @ \cup {m}] \in OracleState
  BY DEF OracleState

LEMMA TypeStep ==
  ASSUME TypeOK, [Next]_vars
  PROVE  TypeOK'
<1>0. /\ oracle \in OracleState /\ 0 \in Word /\ vec \in Vectors
      /\ vec.setpoint \in Word /\ MaxFlips \in Nat /\ MaxSkips \in Nat
  BY WordFacts, VectorFacts, SizeAssumption, FlipsAssumption DEF TypeOK
<1>a. {"NONE", "SAFE_STATE", "ASSERT_FAIL", "RUN_COMPLETE"} \subseteq ValidVerdicts
  BY DEF ValidVerdicts
<1>b. {"SUP_ARMED", "SUP_RUNNING", "FAULT_ASSERTED", "SAFE_ENTERED"} \subseteq Marks
  BY DEF Marks
<1>c. SUFFICES ASSUME Next
               PROVE  TypeOK'
  BY DEF TypeOK, vars, shadow, used
<1>t. /\ s_duty \in Word /\ then \in ValidVerdicts /\ i \in Nat
      /\ flips \in 0..MaxFlips /\ skips \in 0..MaxSkips
  BY DEF TypeOK
<1>v. /\ \A v \in ValidVerdicts : [oracle EXCEPT !.verdict = v] \in OracleState
      /\ \A d \in Word : [oracle EXCEPT !.pwm_duty = d] \in OracleState
      /\ [oracle EXCEPT !.pwm_duty = 0, !.verdict = "ASSERT_FAIL"] \in OracleState
  BY <1>0, <1>a, OracleTyped
<1>1. CASE Start
  BY <1>1, <1>0, <1>a, <1>b, CodeTyped, OracleTyped DEF Start, SetState, SetDuty, TypeOK, Labels, Goto, shadow, used
<1>2. CASE Loop
  <2>1. oracle' \in OracleState
    BY <1>2, <1>t, <1>v, <1>a, <1>0 DEF Loop, Halt
  <2>2. pc' \in Labels
    BY <1>2 DEF Loop, Halt, Goto, Labels, Guards
  <2> QED BY <1>2, <1>t, <2>1, <2>2, <1>0, <1>a DEF Loop, Halt, TypeOK, shadow, used
<1>3. CASE Shadows
  <2>1. oracle' \in OracleState
    BY <1>3, <1>t, <1>v, <1>a, <1>0 DEF Shadows
  <2>2. pc' \in Labels
    BY <1>3 DEF Shadows, Goto, Labels, Guards
  <2> QED BY <1>3, <1>t, <2>1, <2>2, <1>0, <1>a DEF Shadows, TypeOK, shadow, used
<1>4. CASE Guard
  BY <1>4, <1>0, <1>a, <1>b, CodeTyped, OracleTyped DEF Guard, Guards, AfterGuard, TypeOK, Labels, Goto, shadow, used
<1>5. CASE Switch
  <2>1. \A from, to \in {"INIT", "ARMED", "RUNNING"}, m \in Marks :
          Advance(from, to, m) => TypeOK'
    BY <1>5, <1>0, <1>b, CodeTyped, OracleTyped DEF Switch, Advance, SetState, TypeOK, Labels, Goto, used
  <2>2. Ramp(s_duty, vec.setpoint) \in Word /\ Ramp(ref, vec.setpoint) \in Word
    BY <1>0, RampWord DEF TypeOK
  <2>3. CASE Drive
    BY <1>5, <1>0, <2>2, <2>3 DEF Switch, Drive, SetDuty, TypeOK, Labels, Goto, used
  <2>4. CASE Unrecognised
    BY <1>5, <1>a, <2>4 DEF Switch, Unrecognised, TypeOK, Labels, Goto, used, shadow
  <2>5. CASE Advance("INIT", "ARMED", "SUP_ARMED")
    BY <1>b, <2>1, <2>5
  <2>6. CASE Advance("ARMED", "RUNNING", "SUP_RUNNING")
    BY <1>b, <2>1, <2>6
  <2> QED BY <1>5, <2>3, <2>4, <2>5, <2>6 DEF Switch
<1>6. CASE Recheck
  <2>1. oracle' \in OracleState
    BY <1>6, <1>t, <1>v, <1>a, <1>0 DEF Recheck
  <2>2. pc' \in Labels
    BY <1>6 DEF Recheck, Goto, Labels, Guards
  <2> QED BY <1>6, <1>t, <2>1, <2>2, <1>0, <1>a DEF Recheck, SetDuty, TypeOK, shadow, used
<1>7. CASE ReportState
  BY <1>7, <1>0, <1>a, <1>b, CodeTyped, OracleTyped DEF ReportState, TypeOK, Labels, Goto, shadow, used, StateWord
<1>8. CASE ReportDuty
  <2>1. oracle' \in OracleState
    BY <1>8, <1>t, <1>v, <1>a, <1>0 DEF ReportDuty
  <2>2. pc' \in Labels
    BY <1>8 DEF ReportDuty, Goto, Labels, Guards
  <2> QED BY <1>8, <1>t, <2>1, <2>2, <1>0, <1>a DEF ReportDuty, TypeOK, shadow, used
<1>9. CASE EnterSafe
  BY <1>9, <1>0, <1>a, <1>b, CodeTyped, OracleTyped DEF EnterSafe, MakeSafe, SetState, SetDuty, TypeOK, Labels, Goto, shadow, used
<1>10. CASE PublishSafe
  BY <1>10, <1>0, <1>a, <1>b, CodeTyped, OracleTyped DEF PublishSafe, TypeOK, Labels, Goto, shadow, used
<1>11. CASE PostCondition
  <2>1. oracle' \in OracleState
    BY <1>11, <1>t, <1>v, <1>a, <1>0 DEF PostCondition
  <2>2. pc' \in Labels
    BY <1>11 DEF PostCondition, Goto, Labels, Guards
  <2> QED BY <1>11, <1>t, <2>1, <2>2, <1>0, <1>a DEF PostCondition, TypeOK, shadow, used
<1>12. CASE Flip
  <2>1. s_state' \in StateWord /\ s_state_inv' \in StateWord
    BY <1>12, FlippedTyped DEF Flip, TypeOK
  <2>2. s_duty' \in Word /\ s_duty_inv' \in Word
    BY <1>12, FlipAssumption DEF Flip, TypeOK
  <2>3. flips' \in 0..MaxFlips
    BY <1>12, <1>t, <1>0 DEF Flip
  <2> QED BY <1>12, <2>1, <2>2, <2>3 DEF Flip, TypeOK
<1>13. CASE SkipGuard
  <2>1. oracle' \in OracleState
    BY <1>13, <1>t, <1>v, <1>a, <1>0 DEF SkipGuard
  <2>2. pc' \in Labels
    BY <1>13 DEF SkipGuard, Goto, Labels, Guards, AfterGuard
  <2> QED BY <1>13, <1>t, <2>1, <2>2, <1>0, <1>a DEF SkipGuard, TypeOK, shadow, used
<1> QED BY <1>c, <1>1, <1>2, <1>3, <1>4, <1>5, <1>6, <1>7, <1>8, <1>9, <1>10, <1>11, <1>12, <1>13 DEF Next, Firmware
-----------------------------------------------------------------------------
(***************************************************************************)
(* Only enter_safe_state() stores SAFE, so the loop never sees it.         *)
(***************************************************************************)
LEMMA StateFacts ==
  /\ \A c : Code(c).code = c /\ Code(c).bits = {}
  /\ \A w \in StateWord : \A x \in FlippedState(w) : x.code = w.code
<1>1. ASSUME NEW c
      PROVE  Code(c).code = c /\ Code(c).bits = {}
  BY DEF Code
<1>2. ASSUME NEW w \in StateWord, NEW x \in FlippedState(w)
      PROVE  x.code = w.code
  BY <1>2 DEF FlippedState, StateWord
<1> QED BY <1>1, <1>2

LEMMA BuildFixed ==
  ASSUME [Next]_vars
  PROVE  vec' = vec /\ Hardened' = Hardened
<1>1. vec' = vec
  BY DEF Next, Firmware, Start, Loop, Shadows, Guard, Switch, Recheck, ReportState,
     ReportDuty, EnterSafe, PublishSafe, PostCondition, Flip, SkipGuard, vars
<1> QED BY <1>1 DEF Hardened

LEMMA SafeStep ==
  ASSUME TypeOK, SafeInv, Hardened /\ MaxSkips <= 1 => FirstIteration, [Next]_vars
  PROVE  SafeInv'
<1>1. /\ oracle \in OracleState /\ s_state \in StateWord
      /\ vec \in Vectors /\ Iterations(vec) > 0
      /\ vec' = vec /\ Hardened' = Hardened
  BY VectorFacts, BuildFixed DEF TypeOK
<1>2. CASE UNCHANGED vars
  BY <1>1, <1>2 DEF SafeInv, vars, shadow
<1>3. CASE Start
  BY <1>1, <1>3, StateFacts DEF Start, SafeInv, SetState, Goto, Caught, OracleState
<1>4. CASE Loop
  <2>1. Hardened /\ MaxSkips <= 1 /\ vec.fault_asserted => i = 0
    BY DEF FirstIteration, BeforeGuards
  <2> QED BY <1>1, <1>4, <2>1 DEF Loop, Halt, SafeInv, Goto, Caught, shadow, OracleState
<1>5. CASE Shadows
  BY <1>1, <1>5 DEF Shadows, SafeInv, Goto, Caught, shadow
<1>6. CASE Guard
  BY <1>1, <1>6 DEF Guard, Guards, AfterGuard, SafeInv, Goto, Caught, shadow, OracleState
<1>7. CASE Switch
  BY <1>1, <1>7, StateFacts DEF Switch, Advance, Drive, Unrecognised, SetState,
     SetDuty, SafeInv, Goto, Caught, shadow, OracleState
<1>8. CASE Recheck
  BY <1>1, <1>8, StateFacts DEF Recheck, SafeInv, Goto, Caught
<1>9. CASE ReportState
  BY <1>1, <1>9 DEF ReportState, SafeInv, Goto, Caught, shadow, OracleState
<1>10. CASE ReportDuty
  BY <1>1, <1>10 DEF ReportDuty, SafeInv, Goto, Caught, shadow, OracleState
<1>11. CASE EnterSafe
  BY <1>1, <1>11, StateFacts DEF EnterSafe, MakeSafe, SetState, SetDuty, SafeInv,
     Goto, Caught, shadow, OracleState
<1>12. CASE PublishSafe
  BY <1>1, <1>12 DEF PublishSafe, SafeInv, Goto, Caught, shadow, OracleState
<1>13. CASE PostCondition
  BY <1>1, <1>13 DEF PostCondition, SafeInv, Goto, Caught, shadow, OracleState
<1>14. CASE Flip
  <2>1. s_state'.code = s_state.code
    BY <1>1, <1>14, StateFacts DEF Flip
  <2> QED BY <1>1, <1>14, <2>1 DEF Flip, SafeInv
<1>15. CASE SkipGuard
  BY <1>1, <1>15 DEF SkipGuard, Guards, AfterGuard, SafeInv, Goto, Caught, shadow
<1> QED BY <1>2, <1>3, <1>4, <1>5, <1>6, <1>7, <1>8, <1>9, <1>10, <1>11, <1>12,
           <1>13, <1>14, <1>15 DEF Next, Firmware

(***************************************************************************)
(* The duty words of a run nothing has flipped yet.                        *)
(***************************************************************************)
LEMMA DutyInvStep ==
  ASSUME TypeOK, DutyInv, SafeInv, [Next]_vars
  PROVE  DutyInv'
<1>1. /\ 0 \in Levels /\ vec.setpoint \in Word /\ flips \in Nat
      /\ s_state.code = "SAFE" => pc \notin {"switch", "recheck"}
  BY WordFacts, VectorFacts DEF TypeOK, SafeInv, Caught
<1>2. CASE UNCHANGED vars
  BY <1>2 DEF DutyInv, vars, shadow, used
<1>3. CASE Start
  BY <1>1, <1>3 DEF Start, Goto, SetDuty, DutyInv, used
<1>4. CASE Switch
  <2>1. Ramp(ref, vec.setpoint) \in Levels
    BY <1>1, RampLevel DEF DutyInv
  <2>2. s_state # Code("SAFE")
    BY <1>1, <1>4, StateFacts DEF Switch
  <2> QED BY <1>4, <2>1, <2>2 DEF Switch, Advance, Drive, Unrecognised, SetDuty,
             Goto, DutyInv, shadow, used
<1>5. CASE Recheck
  <2>1. s_state # Code("SAFE")
    BY <1>1, <1>5, StateFacts DEF Recheck
  <2> QED BY <1>5, <2>1 DEF Recheck, Goto, DutyInv, used
<1>6. CASE EnterSafe
  BY <1>1, <1>6 DEF EnterSafe, MakeSafe, SetDuty, Goto, DutyInv, shadow, used
<1>7. CASE Loop
  BY <1>7 DEF Loop, Halt, Goto, DutyInv, shadow, used
<1>8. CASE Shadows \/ ReportState \/ ReportDuty \/ PublishSafe \/ PostCondition
  BY <1>8 DEF Shadows, ReportState, ReportDuty, PublishSafe, PostCondition, Goto,
     DutyInv, shadow, used
<1>9. CASE Guard \/ SkipGuard
  BY <1>9 DEF Guard, SkipGuard, Guards, AfterGuard, Goto, DutyInv, shadow, used
<1>10. CASE Flip
  BY <1>1, <1>10 DEF Flip, DutyInv
<1> QED BY <1>2, <1>3, <1>4, <1>5, <1>6, <1>7, <1>8, <1>9, <1>10 DEF Next, Firmware

(***************************************************************************)
(* An asserted fault does not get past the guards of the first iteration.  *)
(***************************************************************************)
LEMMA FirstIterationStep ==
  ASSUME TypeOK, vec.hardened, MaxSkips <= 1, FirstIteration, [Next]_vars
  PROVE  FirstIteration'
<1>0. vec' = vec
  BY BuildFixed
<1>1. SUFFICES ASSUME vec.fault_asserted
               PROVE  BeforeGuards'
  BY <1>0 DEF FirstIteration
<1>2. /\ BeforeGuards /\ skips \in 0..MaxSkips /\ MaxSkips \in Nat
      /\ vec.current_ma \in Nat /\ vec.ticks \in Nat
      /\ Overcurrent \in Nat /\ Deadline \in Nat
      /\ vec.current_ma > Overcurrent \/ vec.ticks > Deadline
  BY <1>1, VectorFacts, SizeAssumption DEF TypeOK, FirstIteration
<1>3. /\ AfterGuard("current") = "current_again"
      /\ AfterGuard("current_again") = "ticks"
      /\ AfterGuard("ticks") = "ticks_again"
      /\ AfterGuard("ticks_again") = "switch"
  BY DEF AfterGuard, Hardened
<1>4. CASE UNCHANGED vars
  BY <1>0, <1>2, <1>4 DEF BeforeGuards, vars, used
<1>5. CASE Start \/ Shadows \/ EnterSafe \/ PublishSafe \/ PostCondition
  BY <1>0, <1>2, <1>5 DEF Start, Shadows, EnterSafe, PublishSafe, PostCondition,
     BeforeGuards, Goto, Caught, used
<1>6. CASE Loop
  BY <1>0, <1>2, <1>6 DEF Loop, Halt, BeforeGuards, Goto, Caught, used, Hardened
<1>7. CASE Guard
  <2>1. pc \in Guards /\ skips' = skips /\ i' = i
    BY <1>7 DEF Guard, used
  <2>2. CASE Trips(pc)
    BY <1>2, <1>7, <2>1, <2>2 DEF Guard, Goto, BeforeGuards, Caught
  <2>3. CASE ~Trips(pc)
    <3>1. pc' = AfterGuard(pc)
      BY <1>7, <2>3 DEF Guard, Goto
    <3>2. CASE pc = "current"
      BY <1>0, <1>2, <1>3, <2>1, <2>3, <3>1, <3>2 DEF Trips, BeforeGuards
    <3>3. CASE pc = "current_again"
      BY <1>0, <1>2, <1>3, <2>1, <2>3, <3>1, <3>3 DEF Trips, BeforeGuards
    <3>4. ~(pc = "ticks" \/ pc = "ticks_again")
      BY <1>2, <2>3 DEF Trips, BeforeGuards, Caught
    <3> QED BY <2>1, <3>2, <3>3, <3>4 DEF Guards
  <2> QED BY <2>2, <2>3
<1>8. CASE Switch \/ Recheck \/ ReportState \/ ReportDuty
  BY <1>2, <1>8 DEF Switch, Recheck, ReportState, ReportDuty, BeforeGuards, Caught
<1>9. CASE Flip
  BY <1>0, <1>2, <1>9 DEF Flip, BeforeGuards
<1>10. CASE SkipGuard
  <2>1. skips = 0 /\ skips' = 1 /\ i' = i /\ pc' = AfterGuard(pc) /\ pc \in Guards
    BY <1>2, <1>10 DEF SkipGuard, Goto
  <2>2. CASE pc = "current"
    BY <1>2, <1>3, <2>1, <2>2 DEF BeforeGuards
  <2>3. CASE pc = "current_again"
    BY <1>0, <1>2, <1>3, <2>1, <2>3 DEF BeforeGuards, Caught
  <2>4. CASE pc = "ticks"
    BY <1>0, <1>2, <1>3, <2>1, <2>4 DEF BeforeGuards, Caught
  <2>5. pc # "ticks_again"
    BY <1>2, <2>1 DEF BeforeGuards, Caught
  <2> QED BY <2>1, <2>2, <2>3, <2>4, <2>5 DEF Guards
<1> QED BY <1>4, <1>5, <1>6, <1>7, <1>8, <1>9, <1>10 DEF Next, Firmware

-----------------------------------------------------------------------------
(***************************************************************************)
(* The n-th iteration stores what the closed form says.                    *)
(***************************************************************************)
LEMMA Duties ==
  ASSUME TypeOK
  PROVE  /\ DutyAfter(0) = 0 /\ DutyAfter(1) = 0 /\ DutyAfter(2) = 0
         /\ \A n \in Nat : n >= 2 =>
              DutyAfter(n + 1) = Ramp(DutyAfter(n), vec.setpoint)
<1>1. vec.setpoint \in Word
  BY VectorFacts DEF TypeOK
<1>2. DutyAfter(0) = 0 /\ DutyAfter(1) = 0
  BY DEF DutyAfter
<1>3. DutyAfter(2) = 0
  <2>1. DutyAfter(2) = GoldenDuty(vec.setpoint, 0)
    BY DEF DutyAfter
  <2> QED BY <1>1, <2>1, GoldenStep
<1>4. ASSUME NEW n \in Nat, n >= 2
      PROVE  DutyAfter(n + 1) = Ramp(DutyAfter(n), vec.setpoint)
  <2>1. n - 2 \in Nat /\ n + 1 - 2 = (n - 2) + 1
    BY <1>4
  <2>2. DutyAfter(n) = GoldenDuty(vec.setpoint, n - 2)
    <3>1. n = 2 => n - 2 = 0
      OBVIOUS
    <3> QED BY <1>4 DEF DutyAfter
  <2>3. DutyAfter(n + 1) = GoldenDuty(vec.setpoint, (n - 2) + 1)
    BY <1>4, <2>1 DEF DutyAfter
  <2> QED BY <1>1, <2>1, <2>2, <2>3, GoldenStep
<1> QED BY <1>2, <1>3, <1>4

(***************************************************************************)
(* Each step of a run without a fault is the one the closed form expects.  *)
(***************************************************************************)
LEMMA NominalStep ==
  ASSUME TypeOK, ~vec.fault_asserted, NominalRun, Firmware
  PROVE  NominalRun'
<1>0. /\ oracle \in OracleState /\ i \in Nat /\ Iterations(vec) \in Nat
      /\ Iterations(vec) > 0 /\ vec' = vec
      /\ vec.current_ma <= Overcurrent /\ vec.ticks <= Deadline
  <2>1. vec' = vec
    BY BuildFixed DEF Next
  <2>2. vec.current_ma \in Nat /\ vec.ticks \in Nat /\ Overcurrent \in Nat /\ Deadline \in Nat
    BY VectorFacts DEF TypeOK
  <2> QED BY <2>1, <2>2, VectorFacts DEF TypeOK
<1>1. \A n \in Nat : DutyAfter(n)' = DutyAfter(n)
  BY <1>0 DEF DutyAfter
<1>2. CASE Start
  <2>1. /\ pc' = "loop" /\ i' = 0 /\ s_state' = Code("INIT") /\ s_state_inv' = Code("INIT")
        /\ s_duty' = 0 /\ s_duty_inv' = 0 /\ oracle'.marks = {}
        /\ oracle'.sup_state = "INIT" /\ oracle'.pwm_duty = 0
    BY <1>0, <1>2 DEF Start, NominalRun, Goto, SetState, SetDuty, OracleState
  <2>2. DutyAfter(0)' = 0
    BY <1>1, Duties
  <2>3. Reached(i)' /\ Published(i)'
    BY <2>1, <2>2 DEF Reached, Published, StateAfter, MarksAfter
  <2> QED BY <1>0, <2>1, <2>3 DEF NominalRun, Looping, Stepped, Guards
<1>3. CASE Loop
  <2>1. /\ pc = "loop" /\ Reached(i) /\ Published(i) /\ i <= Iterations(vec)
        /\ shadow' = shadow /\ i' = i
    BY <1>3 DEF Loop, NominalRun, Looping
  <2>2. CASE i < Iterations(vec)
    <3>1. pc' \in {"shadows", "current"} /\ oracle' = oracle
      BY <1>3, <2>2 DEF Loop, Goto
    <3>2. Reached(i)' /\ Published(i)'
      BY <1>0, <1>1, <2>1, <3>1 DEF Reached, Published, shadow
    <3> QED BY <1>0, <2>1, <2>2, <3>1, <3>2 DEF NominalRun, Looping, Stepped, Guards
  <2>3. CASE ~(i < Iterations(vec))
    <3>1. /\ pc' = "halted" /\ oracle'.verdict = "RUN_COMPLETE"
          /\ oracle'.marks = oracle.marks /\ oracle'.sup_state = oracle.sup_state
          /\ oracle'.pwm_duty = oracle.pwm_duty
      BY <1>0, <1>3, <2>3 DEF Loop, Halt, Goto, OracleState
    <3>2. Reached(i)' /\ Published(i)'
      BY <1>0, <1>1, <2>1, <3>1 DEF Reached, Published, shadow
    <3> QED BY <1>0, <2>1, <2>3, <3>1, <3>2 DEF NominalRun, Looping, Stepped, Guards
  <2> QED BY <2>2, <2>3
<1>4. CASE Shadows
  <2>1. /\ pc = "shadows" /\ Reached(i) /\ Published(i) /\ i < Iterations(vec)
        /\ shadow' = shadow /\ i' = i /\ oracle' = oracle
    BY <1>4 DEF Shadows, NominalRun, Looping
  <2>2. pc' = "current"
    BY <1>4, <2>1 DEF Shadows, Intact, Reached, Goto
  <2>3. Reached(i)' /\ Published(i)'
    BY <1>0, <1>1, <2>1 DEF Reached, Published, shadow
  <2> QED BY <1>0, <2>1, <2>2, <2>3 DEF NominalRun, Looping, Stepped, Guards
<1>5. CASE Guard
  <2>1. /\ pc \in Guards /\ Reached(i) /\ Published(i) /\ i < Iterations(vec)
        /\ shadow' = shadow /\ i' = i
    BY <1>5 DEF Guard, NominalRun, Looping, Guards
  <2>2. ~Trips(pc)
    <3>1. vec.current_ma \in Nat /\ vec.ticks \in Nat /\ Overcurrent \in Nat /\ Deadline \in Nat
      BY VectorFacts DEF TypeOK
    <3> QED BY <1>0, <3>1 DEF Trips
  <2>3. pc' \in {"current_again", "ticks", "ticks_again", "switch"} /\ oracle' = oracle
    BY <1>5, <2>1, <2>2 DEF Guard, AfterGuard, Guards, Goto
  <2>4. Reached(i)' /\ Published(i)'
    BY <1>0, <1>1, <2>1, <2>3 DEF Reached, Published, shadow
  <2> QED BY <1>0, <2>1, <2>3, <2>4 DEF NominalRun, Looping, Stepped, Guards
<1>6. CASE Switch
  <2>1. /\ pc = "switch" /\ Reached(i) /\ i < Iterations(vec) /\ i' = i
        /\ i + 1 \in Nat
    BY <1>0, <1>6 DEF Switch, NominalRun, Looping
  <2>2. \A a, b : Code(a) = Code(b) => a = b
    BY StateFacts
  <2>3. s_state = Code(StateAfter(i)) /\ s_state.bits = {}
    BY <2>1, StateFacts DEF Reached
  <2>4. ~Unrecognised
    BY <2>3 DEF Unrecognised
  <2>5. pc' = "recheck"
    BY <1>6, <2>4 DEF Switch, Advance, Drive, Goto
  <2>6. Reached(i + 1)'
    <3>1. CASE i = 0
      <4>1. StateAfter(i) = "INIT" /\ i + 1 = 1
        BY <3>1 DEF StateAfter
      <4>2. Advance("INIT", "ARMED", "SUP_ARMED")
        BY <1>6, <2>2, <2>3, <2>4, <4>1 DEF Switch, Advance, Drive
      <4>3. s_duty' = 0 /\ s_duty_inv' = 0
        BY <2>1, <3>1, <4>2, Duties DEF Reached, Advance
      <4>4. oracle'.marks = {"SUP_ARMED"}
        BY <1>0, <2>1, <3>1, <4>2 DEF Reached, Advance, MarksAfter, OracleState
      <4>5. s_state' = Code("ARMED") /\ s_state_inv' = Code("ARMED")
        BY <4>2 DEF Advance, SetState
      <4>6. DutyAfter(1)' = 0
        BY <1>1, Duties
      <4>7. i' + 1 = 1 /\ StateAfter(1) = "ARMED" /\ MarksAfter(1) = {"SUP_ARMED"}
        BY <2>1, <4>1 DEF StateAfter, MarksAfter
      <4> QED BY <4>3, <4>4, <4>5, <4>6, <4>7 DEF Reached
    <3>2. CASE i = 1
      <4>1. StateAfter(i) = "ARMED" /\ i + 1 = 2
        BY <3>2 DEF StateAfter
      <4>2. Advance("ARMED", "RUNNING", "SUP_RUNNING")
        BY <1>6, <2>2, <2>3, <2>4, <4>1 DEF Switch, Advance, Drive
      <4>3. s_duty' = 0 /\ s_duty_inv' = 0
        BY <2>1, <3>2, <4>2, Duties DEF Reached, Advance
      <4>4. oracle'.marks = {"SUP_ARMED", "SUP_RUNNING"}
        BY <1>0, <2>1, <3>2, <4>2 DEF Reached, Advance, MarksAfter, OracleState
      <4>5. s_state' = Code("RUNNING") /\ s_state_inv' = Code("RUNNING")
        BY <4>2 DEF Advance, SetState
      <4>6. DutyAfter(2)' = 0
        BY <1>1, Duties
      <4>7. /\ i' + 1 = 2 /\ StateAfter(2) = "RUNNING"
            /\ MarksAfter(2) = {"SUP_ARMED", "SUP_RUNNING"}
        BY <2>1, <4>1 DEF StateAfter, MarksAfter
      <4> QED BY <4>3, <4>4, <4>5, <4>6, <4>7 DEF Reached
    <3>3. CASE i >= 2
      <4>1. /\ StateAfter(i) = "RUNNING" /\ StateAfter(i + 1) = "RUNNING"
            /\ MarksAfter(i + 1) = MarksAfter(i)
        BY <1>0, <3>3 DEF StateAfter, MarksAfter
      <4>2. Drive
        BY <1>6, <2>2, <2>3, <2>4, <4>1 DEF Switch, Advance
      <4>3. s_state # Code("SAFE")
        BY <2>2, <2>3, <4>1
      <4>4. /\ s_duty' = Ramp(s_duty, vec.setpoint) /\ s_duty_inv' = s_duty'
            /\ s_state' = s_state /\ s_state_inv' = s_state_inv /\ oracle' = oracle
        BY <4>2, <4>3 DEF Drive, SetDuty
      <4>5. DutyAfter(i + 1) = Ramp(DutyAfter(i), vec.setpoint)
        BY <1>0, <3>3, Duties
      <4>6. s_duty' = DutyAfter(i + 1) /\ DutyAfter(i + 1)' = DutyAfter(i + 1)
        BY <1>1, <2>1, <4>4, <4>5 DEF Reached, DutyAfter
      <4> QED BY <2>1, <4>1, <4>4, <4>6 DEF Reached
    <3> QED BY <1>0, <3>1, <3>2, <3>3
  <2> QED BY <1>0, <2>1, <2>5, <2>6 DEF NominalRun, Looping, Stepped, Guards
<1>7. CASE Recheck
  <2>1. /\ pc = "recheck" /\ Reached(i + 1) /\ i < Iterations(vec) /\ i' = i
        /\ s_state' = s_state /\ s_state_inv' = s_state_inv
    BY <1>7 DEF Recheck, NominalRun, Stepped
  <2>2. s_state # Code("SAFE")
    BY <2>1, StateFacts DEF Reached, StateAfter
  <2>3. pc' = "report_state" /\ s_duty' = s_duty /\ s_duty_inv' = s_duty_inv /\ oracle' = oracle
    BY <1>7, <2>2 DEF Recheck, Goto
  <2>4. Reached(i + 1)'
    BY <1>0, <1>1, <2>1, <2>3 DEF Reached
  <2> QED BY <1>0, <2>1, <2>3, <2>4 DEF NominalRun, Looping, Stepped, Guards
<1>8. CASE ReportState
  <2>1. /\ pc = "report_state" /\ Reached(i + 1) /\ i < Iterations(vec) /\ i' = i
        /\ shadow' = shadow /\ pc' = "report_duty"
    BY <1>8 DEF ReportState, NominalRun, Stepped, Goto
  <2>2. oracle'.marks = oracle.marks /\ oracle'.sup_state = StateAfter(i + 1)
    BY <1>0, <1>8, <2>1, StateFacts DEF ReportState, Reached, OracleState
  <2>3. Reached(i + 1)'
    BY <1>0, <1>1, <2>1, <2>2 DEF Reached, shadow
  <2> QED BY <1>0, <2>1, <2>2, <2>3 DEF NominalRun, Looping, Stepped, Guards
<1>9. CASE ReportDuty
  <2>1. /\ pc = "report_duty" /\ Reached(i + 1) /\ i < Iterations(vec) /\ i' = i + 1
        /\ shadow' = shadow /\ pc' = "loop" /\ oracle.sup_state = StateAfter(i + 1)
    BY <1>9 DEF ReportDuty, NominalRun, Stepped, Goto
  <2>2. /\ oracle'.marks = oracle.marks /\ oracle'.sup_state = oracle.sup_state
        /\ oracle'.pwm_duty = s_duty
    BY <1>0, <1>9 DEF ReportDuty, OracleState
  <2>3. Reached(i)' /\ Published(i)'
    BY <1>0, <1>1, <2>1, <2>2 DEF Reached, Published, shadow
  <2>4. i' <= Iterations(vec)
    BY <1>0, <2>1
  <2> QED BY <1>0, <2>1, <2>3, <2>4 DEF NominalRun, Looping, Stepped, Guards
<1>10. ~(EnterSafe \/ PublishSafe \/ PostCondition)
  BY DEF EnterSafe, PublishSafe, PostCondition, NominalRun, Looping, Stepped, Guards
<1> QED BY <1>2, <1>3, <1>4, <1>5, <1>6, <1>7, <1>8, <1>9, <1>10 DEF Firmware

(***************************************************************************)
(* With an asserted fault it is a step towards the safe state.             *)
(***************************************************************************)
LEMMA FaultedStep ==
  ASSUME TypeOK, vec.fault_asserted, FaultedRun, Firmware
  PROVE  FaultedRun'
<1>0. /\ oracle \in OracleState /\ Iterations(vec) > 0
      /\ vec' = vec /\ Hardened' = Hardened
      /\ vec.current_ma \in Nat /\ vec.ticks \in Nat
      /\ Overcurrent \in Nat /\ Deadline \in Nat
      /\ vec.current_ma > Overcurrent \/ vec.ticks > Deadline
  BY BuildFixed, VectorFacts DEF TypeOK, Next
<1>1. CASE Start
  BY <1>0, <1>1 DEF Start, SetState, SetDuty, Goto, FaultedRun, Intact, Caught, OracleState
<1>2. CASE Loop
  <2>1. i = 0
    BY <1>2 DEF Loop, FaultedRun, Caught
  <2> QED BY <1>0, <1>2, <2>1 DEF Loop, Goto, FaultedRun, Intact, Caught, shadow
<1>3. CASE Shadows
  BY <1>0, <1>3 DEF Shadows, Goto, FaultedRun, Intact, Caught, shadow
<1>4. CASE Guard
  <2>1. pc \in {"current", "current_again", "ticks"} /\ i = 0 /\ oracle.marks = {}
    BY <1>4 DEF Guard, Guards, FaultedRun, Caught
  <2>2. CASE Trips(pc)
    BY <1>0, <1>4, <2>1, <2>2 DEF Guard, Goto, FaultedRun, Caught, OracleState
  <2>3. CASE ~Trips(pc)
    <3>1. vec.current_ma <= Overcurrent /\ pc \in {"current", "current_again"}
      BY <1>0, <2>1, <2>3 DEF Trips, FaultedRun
    <3>2. pc' \in {"current_again", "ticks"} /\ oracle' = oracle /\ i' = i
      BY <1>4, <2>3, <3>1 DEF Guard, AfterGuard, Goto
    <3> QED BY <1>0, <2>1, <3>1, <3>2 DEF FaultedRun, Caught
  <2> QED BY <2>2, <2>3
<1>5. ~(Switch \/ Recheck \/ ReportState \/ ReportDuty)
  BY DEF Switch, Recheck, ReportState, ReportDuty, FaultedRun, Caught
<1>6. CASE EnterSafe
  BY <1>0, <1>6 DEF EnterSafe, MakeSafe, SetDuty, SetState, Goto, FaultedRun, Caught,
     OracleState
<1>7. CASE PublishSafe
  BY <1>0, <1>7 DEF PublishSafe, Goto, FaultedRun, Caught, OracleState, shadow
<1>8. CASE PostCondition
  BY <1>0, <1>8 DEF PostCondition, Goto, FaultedRun, Caught, OracleState, shadow
<1> QED BY <1>1, <1>2, <1>3, <1>4, <1>5, <1>6, <1>7, <1>8 DEF Firmware

LEMMA UnfaultedStep ==
  ASSUME TypeOK, UnfaultedInv, [Next]_vars
  PROVE  UnfaultedInv'
<1>1. CASE UNCHANGED vars
  BY <1>1 DEF UnfaultedInv, FaultedRun, NominalRun, Reached, Published, DutyAfter,
     Intact, Hardened, vars, shadow, used
<1>2. CASE Firmware
  <2>1. vec' = vec /\ flips' = flips /\ skips' = skips
    BY <1>2 DEF Firmware, Start, Loop, Shadows, Guard, Switch, Recheck, ReportState,
       ReportDuty, EnterSafe, PublishSafe, PostCondition, used
  <2>2. CASE vec.fault_asserted
    BY <1>2, <2>1, <2>2, FaultedStep DEF UnfaultedInv
  <2>3. CASE ~vec.fault_asserted
    BY <1>2, <2>1, <2>3, NominalStep DEF UnfaultedInv
  <2> QED BY <2>2, <2>3
<1>3. CASE Flip \/ SkipGuard
  <2>1. flips \in Nat /\ skips \in Nat
    BY SizeAssumption, FlipsAssumption DEF TypeOK
  <2>2. flips' # 0 \/ skips' # 0
    BY <1>3, <2>1 DEF Flip, SkipGuard
  <2> QED BY <2>2 DEF UnfaultedInv
<1> QED BY <1>1, <1>2, <1>3 DEF Next

(***************************************************************************)
(* A run that ends where the closed form ends is classified OK.            *)
(***************************************************************************)
LEMMA UnfaultedOutcome ==
  ASSUME IInv
  PROVE  UnfaultedRun
<1> SUFFICES ASSUME Ended, flips = 0, skips = 0
             PROVE  /\ Outcome = "OK"
                    /\ oracle.verdict = IF vec.fault_asserted THEN "SAFE_STATE"
                                        ELSE "RUN_COMPLETE"
  BY DEF UnfaultedRun
<1>1. pc = "halted" /\ oracle \in OracleState /\ UnfaultedInv
      /\ Iterations(vec) \in Nat /\ Iterations(vec) > 0
  BY VectorFacts DEF Ended, IInv, TypeOK
<1>2. OracleTrustworthy(oracle)
  BY <1>1 DEF OracleTrustworthy, OracleState
<1>3. CASE vec.fault_asserted
  <2>1. /\ oracle.verdict = "SAFE_STATE" /\ oracle.sup_state = "SAFE"
        /\ oracle.pwm_duty = 0 /\ oracle.marks = {"FAULT_ASSERTED", "SAFE_ENTERED"}
    BY <1>1, <1>3 DEF UnfaultedInv, FaultedRun
  <2>2. GoldenRun(vec) = [sup_state |-> "SAFE", pwm_duty |-> 0,
                          marks |-> {"FAULT_ASSERTED", "SAFE_ENTERED"}]
    BY <1>3 DEF GoldenRun
  <2>3. ~Unsafe(oracle, vec) /\ FailureMode(oracle, "ORACLE") = NoFailure
    BY <2>1 DEF Unsafe, FailureMode
  <2> QED BY <1>2, <1>3, <2>1, <2>2, <2>3 DEF Outcome, ClassifySupervisor
<1>4. CASE ~vec.fault_asserted
  <2> DEFINE n == Iterations(vec)
  <2>1. /\ oracle.verdict = "RUN_COMPLETE" /\ oracle.sup_state = StateAfter(n)
        /\ oracle.pwm_duty = DutyAfter(n) /\ oracle.marks = MarksAfter(n)
    BY <1>1, <1>4 DEF UnfaultedInv, NominalRun, Reached, Published
  <2>2. /\ GoldenRun(vec).sup_state = StateAfter(n)
        /\ GoldenRun(vec).pwm_duty = DutyAfter(n)
        /\ GoldenRun(vec).marks = MarksAfter(n)
    BY <1>1, <1>4 DEF GoldenRun, StateAfter, DutyAfter, MarksAfter
  <2>3. ~Unsafe(oracle, vec) /\ FailureMode(oracle, "ORACLE") = NoFailure
    BY <1>4, <2>1 DEF Unsafe, FailureMode
  <2> QED BY <1>2, <1>4, <2>1, <2>2, <2>3 DEF Outcome, ClassifySupervisor
<1> QED BY <1>3, <1>4

-----------------------------------------------------------------------------
(***************************************************************************)
(* The conjunction of the parts is inductive, for hardened and baseline    *)
(* builds alike (safety.c, both supervisor_run()).                         *)
(***************************************************************************)
THEOREM Inductive == Spec => []IInv
<1>1. Init => IInv
  <2> SUFFICES ASSUME Init
               PROVE  IInv
    OBVIOUS
  <2>1. oracle \in OracleState
    BY WordFacts DEF Init, OracleState, ValidVerdicts
  <2>2. /\ vec \in Vectors /\ pc \in Labels /\ i \in Nat
        /\ s_state \in StateWord /\ s_state_inv \in StateWord
        /\ s_duty \in Word /\ s_duty_inv \in Word /\ ref \in Word
        /\ then \in ValidVerdicts
    BY WordFacts, CodeTyped DEF Init, Labels, ValidVerdicts
  <2>3. flips \in 0..MaxFlips /\ skips \in 0..MaxSkips
    BY SizeAssumption, FlipsAssumption DEF Init
  <2>4. TypeOK
    BY <2>1, <2>2, <2>3 DEF TypeOK
  <2>5. DutyInv
    BY WordFacts DEF Init, DutyInv
  <2>6. SafeInv
    BY StateFacts DEF Init, SafeInv
  <2>7. FirstIteration
    BY DEF Init, FirstIteration, BeforeGuards
  <2>8. UnfaultedInv
    BY DEF Init, UnfaultedInv, FaultedRun, NominalRun, Looping, Stepped, Guards, Caught
  <2> QED BY <2>4, <2>5, <2>6, <2>7, <2>8 DEF IInv
<1>2. IInv /\ [Next]_vars => IInv'
  <2> SUFFICES ASSUME IInv, [Next]_vars
               PROVE  IInv'
    OBVIOUS
  <2>1. TypeOK'
    BY TypeStep DEF IInv
  <2>2. DutyInv'
    BY DutyInvStep DEF IInv
  <2>3. SafeInv'
    BY SafeStep DEF IInv
  <2>4. (Hardened /\ MaxSkips <= 1 => FirstIteration)'
    BY FirstIterationStep, BuildFixed DEF IInv, Hardened
  <2>5. UnfaultedInv'
    BY UnfaultedStep DEF IInv
  <2> QED BY <2>1, <2>2, <2>3, <2>4, <2>5 DEF IInv
<1> QED BY <1>1, <1>2, PTL DEF Spec

(***************************************************************************)
(* The supervisor's state keeps its type under every flip and skip.        *)
(***************************************************************************)
THEOREM TypeCorrect == Spec => []TypeOK
<1>1. IInv => TypeOK
  BY DEF IInv
<1> QED BY <1>1, Inductive, PTL

(***************************************************************************)
(* For every setpoint, step and clamp the unsigned ramp of the RUNNING     *)
(* case stays on whole steps between 0 and DUTY_MAX until a bit flips.     *)
(***************************************************************************)
THEOREM DutyNeverWraps == Spec => []UnfaultedDuty
<1>1. IInv => UnfaultedDuty
  BY DEF IInv, DutyInv, UnfaultedDuty
<1> QED BY <1>1, Inductive, PTL

(***************************************************************************)
(* SAFE is never published over a driven motor (oracle.h:61), in either    *)
(* build, with any number of skipped guards.                               *)
(***************************************************************************)
THEOREM SafeIsOff == Spec => []SafeMeansZeroDuty
<1>1. IInv => SafeMeansZeroDuty
  BY DEF IInv, SafeInv, SafeMeansZeroDuty
<1> QED BY <1>1, Inductive, PTL

(***************************************************************************)
(* No run of the hardened supervisor with at most one skipped guard, and   *)
(* however many of its state and duty bits flipped, violates the safety    *)
(* invariant of safety.c:4-6 as classify_supervisor() judges it.           *)
(***************************************************************************)
THEOREM FaultReachesSafe ==
  ASSUME MaxSkips <= 1
  PROVE  Spec => []NoSafetyViolation
<1>1. IInv => NoSafetyViolation
  <2> SUFFICES ASSUME IInv, Ended, Hardened
               PROVE  Outcome # "SAFETY_VIOLATION"
    BY DEF NoSafetyViolation
  <2>1. ~Unsafe(oracle, vec)
    BY DEF IInv, SafeInv, Ended, Unsafe
  <2>2. FailureMode(oracle, "ORACLE") # "SAFETY_VIOLATION"
    BY DEF FailureMode, NoFailure
  <2> QED BY <2>1, <2>2 DEF Outcome, ClassifySupervisor
<1> QED BY <1>1, Inductive, PTL

(***************************************************************************)
(* For every setpoint, step, clamp and number of iterations, a run with no *)
(* fault ends with the oracle of the closed form of its scenario and is    *)
(* classified OK: the loop is not one iteration off, and the ramp neither  *)
(* wraps nor passes DUTY_MAX (both supervisor_run()).                      *)
(***************************************************************************)
THEOREM UnfaultedExact == Spec => []UnfaultedRun
<1>1. IInv => UnfaultedRun
  BY UnfaultedOutcome
<1> QED BY <1>1, Inductive, PTL
=============================================================================
