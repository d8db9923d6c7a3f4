----------------------------- MODULE Supervisor -----------------------------
(***************************************************************************)
(* The motor safety supervisor (firmware/supervisor/safety.c) under bit    *)
(* flips of its state and duty words and skipped guards.                   *)
(*                                                                         *)
(* A step reads each shadowed word at most once, or writes it: a flip      *)
(* between two C statements of one step has the effect of a flip before or *)
(* after the step.  An unhardened build keeps state and duty in registers, *)
(* without complements; the flips then hit the registers.                  *)
(***************************************************************************)
EXTENDS Integers, Classify

CONSTANTS
  Vectors,              \* the build and a SupervisorVector's sensor readings
  Overcurrent, Deadline,          \* OVERCURRENT_THRESHOLD_MA, DEADLINE_TICKS
  DutyStep, DutyMax, WordSize,    \* 10, DUTY_MAX, 2^32
  Flipped(_),           \* the words one bit away from a duty word
  StateBits,            \* bits of the state word that may flip
  MaxFlips, MaxSkips

Word == 0..(WordSize - 1)
Levels == {n \in 0..DutyMax : \E k \in 0..n : n = k * DutyStep}

ASSUME SizeAssumption ==
  /\ DutyStep \in Nat \ {0} /\ DutyMax \in Levels
  /\ WordSize \in Nat /\ DutyMax + DutyStep < WordSize
  /\ Overcurrent \in Nat /\ Deadline \in Nat
  /\ MaxSkips \in Nat

(***************************************************************************)
(* The codes of sup_state_t are four bits apart: up to three flips turn no *)
(* code into another.                                                      *)
(***************************************************************************)
ASSUME FlipsAssumption == MaxFlips \in 0..3

ASSUME FlipAssumption == \A w \in Word : Flipped(w) \subseteq Word

ASSUME VectorAssumption ==
  \A v \in Vectors :
    /\ v.hardened \in BOOLEAN
    /\ v.current_ma \in Nat /\ v.ticks \in Nat
    /\ v.setpoint \in Word /\ v.iterations \in Nat
    /\ v.fault_asserted <=> v.current_ma > Overcurrent \/ v.ticks > Deadline

(***************************************************************************)
(* main.c:14: a vector of no iterations runs the default number.           *)
(***************************************************************************)
Iterations(v) == IF v.iterations = 0 THEN 24 ELSE v.iterations

(***************************************************************************)
(* A state word is one of the sparse codes of sup_state_t with a set of    *)
(* flipped bits.  A complement word stands for the value it complements.   *)
(***************************************************************************)
StateWord == [code : {"INIT", "ARMED", "RUNNING", "SAFE"}, bits : SUBSET StateBits]
Code(s) == [code |-> s, bits |-> {}]
FlippedState(w) ==
  {[w EXCEPT !.bits = IF b \in @ THEN @ \ {b} ELSE @ \cup {b}] : b \in StateBits}

VARIABLES
  vec,                  \* the image and the scenario written before reset
  pc,
  i,                    \* loop counter
  s_state, s_state_inv, s_duty, s_duty_inv,
  then,                 \* verdict that follows enter_safe_state()
  oracle,               \* g_oracle
  flips, skips,         \* faults so far
  ref                   \* history: the duty an unfaulted supervisor has here

shadow == <<s_state, s_state_inv, s_duty, s_duty_inv>>
used == <<flips, skips>>
vars == <<vec, pc, i, shadow, then, oracle, used, ref>>

Hardened == vec.hardened

Goto(l) == pc' = l
SetState(v) == s_state' = v /\ s_state_inv' = v
SetDuty(v) == s_duty' = v /\ s_duty_inv' = v

Init ==
  /\ vec \in Vectors
  /\ pc = "start"
  /\ i = 0
  /\ s_state = Code("INIT") /\ s_state_inv = Code("INIT")   \* rewritten first
  /\ s_duty = 0 /\ s_duty_inv = 0
  /\ then = "NONE"
  /\ oracle = [valid |-> TRUE, verdict |-> "NONE", marks |-> {},
               sup_state |-> "NONE", pwm_duty |-> 0]
  /\ flips = 0 /\ skips = 0
  /\ ref = 0

Start ==
  /\ pc = "start" /\ Goto("loop")
  /\ SetState(Code("INIT")) /\ SetDuty(0)
  /\ oracle' = [oracle EXCEPT !.sup_state = "INIT", !.pwm_duty = 0]
  /\ UNCHANGED <<vec, i, then, used, ref>>

Halt(verdict) == Goto("halted") /\ oracle' = [oracle EXCEPT !.verdict = verdict]

Loop ==
  /\ pc = "loop"
  /\ IF i < Iterations(vec)
     THEN Goto(IF Hardened THEN "shadows" ELSE "current") /\ oracle' = oracle
     ELSE Halt("RUN_COMPLETE")
  /\ UNCHANGED <<vec, i, shadow, then, used, ref>>

(***************************************************************************)
(* S1: state_ok() and duty_ok().                                           *)
(***************************************************************************)
Bug_Intact == s_state = s_state_inv         \* duty_ok() is not called
Intact == s_state = s_state_inv /\ s_duty = s_duty_inv

Shadows ==
  /\ pc = "shadows"
  /\ IF Intact
     THEN Goto("current") /\ then' = then
     ELSE Goto("enter_safe") /\ then' = "SAFE_STATE"
  /\ UNCHANGED <<vec, i, shadow, oracle, used, ref>>

(***************************************************************************)
(* S2: each guard is tested twice, in this order.                          *)
(***************************************************************************)
Guards == {"current", "current_again", "ticks", "ticks_again"}

Trips(guard) == IF guard \in {"current", "current_again"}
                THEN vec.current_ma > Overcurrent
                ELSE vec.ticks > Deadline

Bug_AfterGuard(guard) == IF guard = "current" THEN "ticks" ELSE "switch"
AfterGuard(guard) ==
  CASE guard = "current" -> IF Hardened THEN "current_again" ELSE "ticks"
    [] guard = "current_again" -> "ticks"
    [] guard = "ticks" -> IF Hardened THEN "ticks_again" ELSE "switch"
    [] guard = "ticks_again" -> "switch"

Guard ==
  /\ pc \in Guards
  /\ IF Trips(pc)
     THEN /\ Goto("enter_safe")
          /\ then' = "SAFE_STATE"
          /\ oracle' = [oracle EXCEPT !.marks = @ \cup {"FAULT_ASSERTED"}]
     ELSE /\ Goto(AfterGuard(pc))
          /\ UNCHANGED <<then, oracle>>
  /\ UNCHANGED <<vec, i, shadow, used, ref>>

(***************************************************************************)
(* One RUNNING iteration moves the duty one step towards the setpoint, in  *)
(* unsigned arithmetic, and clamps it.                                     *)
(***************************************************************************)
Moved(d, setpoint) ==
  IF d < setpoint THEN (d + DutyStep) % WordSize
  ELSE IF d > setpoint THEN (d - DutyStep) % WordSize ELSE d

Bug_Ramp(d, setpoint) ==      \* clamped before the step, not after it
  Moved(IF d > DutyMax THEN DutyMax ELSE d, setpoint)

Ramp(d, setpoint) ==
  IF Moved(d, setpoint) > DutyMax THEN DutyMax ELSE Moved(d, setpoint)

Advance(from, to, mark) ==
  /\ s_state = Code(from)
  /\ SetState(Code(to))
  /\ oracle' = [oracle EXCEPT !.marks = @ \cup {mark}]
  /\ Goto("recheck")
  /\ UNCHANGED <<s_duty, s_duty_inv, then, ref>>

Drive ==
  /\ s_state \in {Code("RUNNING"), Code("SAFE")}
  /\ SetDuty(IF s_state = Code("SAFE") THEN 0 ELSE Ramp(s_duty, vec.setpoint))
  /\ ref' = Ramp(ref, vec.setpoint)
  /\ Goto("recheck")
  /\ UNCHANGED <<s_state, s_state_inv, then, oracle>>

Unrecognised ==               \* S4
  /\ s_state.bits # {}
  /\ Goto("enter_safe") /\ then' = "ASSERT_FAIL"
  /\ UNCHANGED <<shadow, oracle, ref>>

Switch ==
  /\ pc = "switch"
  /\ \/ Advance("INIT", "ARMED", "SUP_ARMED")
     \/ Advance("ARMED", "RUNNING", "SUP_RUNNING")
     \/ Drive
     \/ Unrecognised
  /\ UNCHANGED <<vec, i, used>>

(***************************************************************************)
(* S5.  enter_safe_state() is always followed by a halt, so the loop sees  *)
(* SAFE only if a fault puts it there.                                     *)
(***************************************************************************)
Recheck ==
  /\ pc = "recheck"
  /\ IF Hardened /\ s_state = Code("SAFE") /\ s_duty # 0
     THEN /\ SetDuty(0)
          /\ oracle' = [oracle EXCEPT !.pwm_duty = 0, !.verdict = "ASSERT_FAIL"]
          /\ Goto("halted")
     ELSE Goto("report_state") /\ UNCHANGED <<s_duty, s_duty_inv, oracle>>
  /\ UNCHANGED <<vec, i, s_state, s_state_inv, then, used, ref>>

ReportState ==
  /\ pc = "report_state" /\ Goto("report_duty")
  /\ oracle' = [oracle EXCEPT !.sup_state =
                  IF s_state.bits = {} THEN s_state.code ELSE "corrupt"]
  /\ UNCHANGED <<vec, i, shadow, then, used, ref>>

ReportDuty ==
  /\ pc = "report_duty" /\ Goto("loop")
  /\ oracle' = [oracle EXCEPT !.pwm_duty = s_duty]
  /\ i' = i + 1
  /\ UNCHANGED <<vec, shadow, then, used, ref>>

(***************************************************************************)
(* enter_safe_state(): S3.  The duty is zero before the state says SAFE.   *)
(* The baseline reports it without touching its registers.                 *)
(***************************************************************************)
MakeSafe == IF Hardened
            THEN SetDuty(0) /\ SetState(Code("SAFE")) /\ ref' = 0
            ELSE UNCHANGED <<shadow, ref>>

Bug_EnterSafe ==              \* the state is published before the duty
  /\ pc = "enter_safe" /\ Goto("publish_safe")
  /\ MakeSafe
  /\ oracle' = [oracle EXCEPT !.sup_state = "SAFE"]
  /\ UNCHANGED <<vec, i, then, used>>

EnterSafe ==
  /\ pc = "enter_safe" /\ Goto("publish_safe")
  /\ MakeSafe
  /\ oracle' = [oracle EXCEPT !.pwm_duty = 0]
  /\ UNCHANGED <<vec, i, then, used>>

PublishSafe ==
  /\ pc = "publish_safe" /\ Goto("post_condition")
  /\ oracle' = [oracle EXCEPT !.sup_state = "SAFE",
                              !.marks = @ \cup {"SAFE_ENTERED"}]
  /\ UNCHANGED <<vec, i, shadow, then, used, ref>>

PostCondition ==
  /\ pc = "post_condition" /\ Goto("halted")
  /\ IF Hardened /\ (s_duty # 0 \/ s_state # Code("SAFE") \/ oracle.pwm_duty # 0)
     THEN oracle' = [oracle EXCEPT !.pwm_duty = 0, !.verdict = "ASSERT_FAIL"]
     ELSE oracle' = [oracle EXCEPT !.verdict = then]
  /\ UNCHANGED <<vec, i, shadow, then, used, ref>>

Firmware == \/ Start \/ Loop \/ Shadows \/ Guard \/ Switch \/ Recheck
            \/ ReportState \/ ReportDuty
            \/ EnterSafe \/ PublishSafe \/ PostCondition

(***************************************************************************)
(* Faults: one bit of one shadowed word (MEM_XOR, or REG_XOR on the        *)
(* baseline's registers), or one guard skipped.  The loop counter, the     *)
(* other statements and the halt store are not faulted.                    *)
(***************************************************************************)
Flip ==
  /\ pc \notin {"halted", "start"}
  /\ flips < MaxFlips /\ flips' = flips + 1
  /\ \/ /\ s_state' \in FlippedState(s_state)
        /\ UNCHANGED <<s_state_inv, s_duty, s_duty_inv>>
     \/ /\ s_duty' \in Flipped(s_duty)
        /\ UNCHANGED <<s_state, s_state_inv, s_duty_inv>>
     \/ /\ Hardened /\ s_state_inv' \in FlippedState(s_state_inv)
        /\ UNCHANGED <<s_state, s_duty, s_duty_inv>>
     \/ /\ Hardened /\ s_duty_inv' \in Flipped(s_duty_inv)
        /\ UNCHANGED <<s_state, s_state_inv, s_duty>>
  /\ UNCHANGED <<vec, pc, i, then, oracle, skips, ref>>

SkipGuard ==
  /\ pc \in Guards
  /\ skips < MaxSkips /\ skips' = skips + 1
  /\ Goto(AfterGuard(pc))
  /\ UNCHANGED <<vec, i, shadow, then, oracle, flips, ref>>

Next == Firmware \/ Flip \/ SkipGuard

Spec == Init /\ [][Next]_vars

(***************************************************************************)
(* The CPU keeps executing; nothing makes a fault happen.                  *)
(***************************************************************************)
FairSpec == Spec /\ WF_vars(Firmware)

-----------------------------------------------------------------------------
Ended == pc = "halted"

(***************************************************************************)
(* The golden run of a vector: the duty after n RUNNING iterations climbs  *)
(* to the setpoint (or DUTY_MAX) and then stays on it or, when it is not a *)
(* multiple of the step, oscillates around it.                             *)
(***************************************************************************)
GoldenDuty(setpoint, n) ==
  LET target == IF setpoint > DutyMax THEN DutyMax ELSE setpoint
      steps  == (target + DutyStep - 1) \div DutyStep
  IN  IF n <= steps THEN n * DutyStep
      ELSE IF target % DutyStep = 0 \/ (n - steps) % 2 = 0 THEN steps * DutyStep
      ELSE (steps - 1) * DutyStep

GoldenRun(v) ==
  LET n == Iterations(v)
  IN  IF v.fault_asserted
      THEN [sup_state |-> "SAFE", pwm_duty |-> 0,
            marks |-> {"FAULT_ASSERTED", "SAFE_ENTERED"}]
      ELSE [sup_state |-> IF n = 1 THEN "ARMED" ELSE "RUNNING",
            pwm_duty |-> IF n = 1 THEN 0 ELSE GoldenDuty(v.setpoint, n - 2),
            marks |-> IF n = 1 THEN {"SUP_ARMED"}
                      ELSE {"SUP_ARMED", "SUP_RUNNING"}]

Outcome == ClassifySupervisor(oracle, "ORACLE", vec, GoldenRun(vec))

Labels == {"start", "loop", "shadows", "switch", "recheck", "report_state",
           "report_duty", "enter_safe", "publish_safe", "post_condition",
           "halted"} \cup Guards

OracleState ==
  [valid : {TRUE}, verdict : ValidVerdicts, marks : SUBSET Marks,
   sup_state : {"NONE", "INIT", "ARMED", "RUNNING", "SAFE", "corrupt"},
   pwm_duty : Word]

(***************************************************************************)
(* The type of the supervisor's state (safety.c's statics and g_oracle).   *)
(***************************************************************************)
TypeOK ==
  /\ vec \in Vectors
  /\ pc \in Labels
  /\ i \in Nat
  /\ s_state \in StateWord /\ s_state_inv \in StateWord
  /\ s_duty \in Word /\ s_duty_inv \in Word /\ ref \in Word
  /\ then \in ValidVerdicts
  /\ oracle \in OracleState
  /\ flips \in 0..MaxFlips /\ skips \in 0..MaxSkips

(***************************************************************************)
(* Without a fault every run ends like the closed form of its scenario:    *)
(* the unsigned ramp neither wraps below zero nor passes DUTY_MAX, and the *)
(* run is classified OK (safety.c's RUNNING case, classify_supervisor()).  *)
(***************************************************************************)
UnfaultedRun ==
  Ended /\ flips = 0 /\ skips = 0 =>
    /\ Outcome = "OK"
    /\ oracle.verdict = IF vec.fault_asserted THEN "SAFE_STATE" ELSE "RUN_COMPLETE"

(***************************************************************************)
(* Until a bit flips, the duty is a whole number of steps of at most       *)
(* DUTY_MAX, whatever the setpoint: `d -= 10u` never wraps (safety.c's     *)
(* RUNNING case).  After a flip of a low bit it can.                       *)
(***************************************************************************)
UnfaultedDuty == flips = 0 => s_duty = ref /\ s_duty \in Levels

(***************************************************************************)
(* oracle.h:61: pwm_duty is 0 whenever sup_state is SAFE, at every step    *)
(* and not only at the end: the order of the stores in enter_safe_state(). *)
(***************************************************************************)
SafeMeansZeroDuty == oracle.sup_state = "SAFE" => oracle.pwm_duty = 0

(***************************************************************************)
(* The safety invariant of safety.c:4-6 under faults: flipping bits of the *)
(* state and duty words and skipping one guard of the hardened build never *)
(* ends a run without the safe state when the scenario asserts a fault.    *)
(* The repetition of each guard (S2) is what one skip does not get past.   *)
(***************************************************************************)
NoSafetyViolation == Ended /\ Hardened => Outcome # "SAFETY_VIOLATION"

(***************************************************************************)
(* S1: a broken pairing seen at the start of an iteration, with no flip    *)
(* left that could mend it, ends the run in the safe state with the motor  *)
(* off, and in no other way.                                               *)
(***************************************************************************)
Mismatch == s_state # s_state_inv \/ s_duty # s_duty_inv
MismatchIsDetected ==
  pc = "shadows" /\ flips = MaxFlips /\ Mismatch
    ~> Ended /\ oracle.sup_state = "SAFE" /\ oracle.pwm_duty = 0

(***************************************************************************)
(* safety.c:15-16: any single bit flip of the duty or its complement       *)
(* breaks the pairing and is detected, so a pair that agrees is the duty   *)
(* an unfaulted run has.                                                   *)
(***************************************************************************)
PairedDutyIsTrue == pc = "shadows" /\ flips <= 1 /\ s_duty = s_duty_inv => s_duty = ref

-----------------------------------------------------------------------------
(***************************************************************************)
(* The inductive invariant behind UnfaultedDuty, SafeMeansZeroDuty and     *)
(* NoSafetyViolation.  For the last one the build is hardened and at most  *)
(* one guard is skipped: an asserted fault is then caught in the first     *)
(* iteration, at the latest by the guard after the skipped one.            *)
(***************************************************************************)
Caught == {"enter_safe", "publish_safe", "post_condition", "halted"}

BeforeGuards ==
  /\ \/ pc \in {"start", "loop", "shadows", "current"} \cup Caught
     \/ pc = "current_again" /\ (skips = 1 \/ vec.current_ma <= Overcurrent)
     \/ pc = "ticks" /\ vec.current_ma <= Overcurrent
     \/ pc = "ticks_again" /\ vec.current_ma <= Overcurrent /\ skips = 1
  /\ i = 0

FirstIteration == vec.fault_asserted => BeforeGuards

SafeInv ==
  /\ s_state.code = "SAFE" => pc \in Caught \ {"enter_safe"}
  /\ pc \in {"publish_safe", "post_condition"} => oracle.pwm_duty = 0
  /\ pc = "post_condition" => oracle.sup_state = "SAFE"
  /\ oracle.sup_state = "SAFE" =>
       pc \in {"post_condition", "halted"} /\ oracle.pwm_duty = 0
  /\ Hardened /\ MaxSkips <= 1 /\ vec.fault_asserted /\ pc = "halted" =>
       oracle.sup_state = "SAFE"

DutyInv == /\ ref \in Levels
           /\ pc = "start" => ref = 0
           /\ flips = 0 => s_duty = ref

(***************************************************************************)
(* Where a run without a fault is: after n iterations the words, the marks *)
(* and the reports are those of the closed form; an asserted fault takes   *)
(* the first iteration to enter_safe_state().                              *)
(***************************************************************************)
StateAfter(n) == IF n = 0 THEN "INIT" ELSE IF n = 1 THEN "ARMED" ELSE "RUNNING"
MarksAfter(n) == IF n = 0 THEN {} ELSE IF n = 1 THEN {"SUP_ARMED"}
                 ELSE {"SUP_ARMED", "SUP_RUNNING"}
DutyAfter(n) == IF n <= 1 THEN 0 ELSE GoldenDuty(vec.setpoint, n - 2)

Reached(n) ==
  /\ s_state = Code(StateAfter(n)) /\ s_state_inv = s_state
  /\ s_duty = DutyAfter(n) /\ s_duty_inv = s_duty
  /\ oracle.marks = MarksAfter(n)
Published(n) == oracle.sup_state = StateAfter(n) /\ oracle.pwm_duty = DutyAfter(n)

Looping == {"loop", "shadows", "switch"} \cup Guards
Stepped == {"recheck", "report_state", "report_duty"}

NominalRun ==
  /\ pc \in {"start", "halted"} \cup Looping \cup Stepped
  /\ pc = "start" => i = 0 /\ oracle.marks = {}
  /\ pc \in Looping => Reached(i) /\ Published(i) /\ i <= Iterations(vec)
  /\ pc \in (Looping \ {"loop"}) \cup Stepped => i < Iterations(vec)
  /\ pc \in Stepped => Reached(i + 1)
  /\ pc = "report_duty" => oracle.sup_state = StateAfter(i + 1)
  /\ pc = "halted" => /\ Reached(i) /\ Published(i) /\ i = Iterations(vec)
                      /\ oracle.verdict = "RUN_COMPLETE"

FaultedRun ==
  /\ pc \in {"start", "loop", "shadows", "current", "current_again", "ticks"} \cup Caught
  /\ pc \notin Caught => i = 0 /\ oracle.marks = {}
  /\ pc \in {"loop", "shadows"} => Intact
  /\ pc \in {"current_again", "ticks"} => vec.current_ma <= Overcurrent
  /\ pc \in Caught \ {"halted"} => then = "SAFE_STATE"
  /\ pc \in {"enter_safe", "publish_safe"} => oracle.marks = {"FAULT_ASSERTED"}
  /\ pc \in {"publish_safe", "post_condition"} =>
       oracle.pwm_duty = 0 /\ (Hardened => s_duty = 0 /\ s_state = Code("SAFE"))
  /\ pc \in {"post_condition", "halted"} =>
       /\ oracle.sup_state = "SAFE" /\ oracle.pwm_duty = 0
       /\ oracle.marks = {"FAULT_ASSERTED", "SAFE_ENTERED"}
  /\ pc = "halted" => oracle.verdict = "SAFE_STATE"

UnfaultedInv ==
  flips = 0 /\ skips = 0 => IF vec.fault_asserted THEN FaultedRun ELSE NominalRun

IInv == /\ TypeOK
        /\ DutyInv
        /\ SafeInv
        /\ UnfaultedInv
        /\ Hardened /\ MaxSkips <= 1 => FirstIteration
=============================================================================
