------------------------------ MODULE Classify ------------------------------
(***************************************************************************)
(* classify.py: the outcome of a run, judged from the oracle structure the *)
(* firmware left in RAM, the reason the run stopped, and the test vector.  *)
(*                                                                         *)
(* An oracle record has the fields valid (its magic word is intact),       *)
(* verdict, marks, image_version, sup_state and pwm_duty.  The marks word  *)
(* is the set of its bits: the ids of oracle.h, and "undefined" for any    *)
(* bit above them.                                                         *)
(***************************************************************************)
EXTENDS Integers

Marks == {"BOOT_ENTER", "HDR_OK", "VERSION_OK", "SIG_OK", "JUMP_TAKEN",
          "SUP_ARMED", "SUP_RUNNING", "FAULT_ASSERTED", "SAFE_ENTERED"}

ValidVerdicts == {"NONE", "BOOT_ACCEPT", "BOOT_REJECT", "SAFE_STATE",
                  "RUN_COMPLETE", "ASSERT_FAIL"}

Outcomes == {"OK", "CRASH", "HANG", "SDC", "SEC_BYPASS", "SAFETY_VIOLATION"}

OracleTrustworthy(o) ==
  /\ o.valid
  /\ o.marks \subseteq Marks
  /\ o.verdict \in ValidVerdicts

(***************************************************************************)
(* The failure modes common to both classifiers, after the adversarial     *)
(* check; NoFailure when there is none.                                    *)
(***************************************************************************)
NoFailure == "no failure"

FailureMode(o, halt) ==
  CASE halt = "CPUFAULT" \/ o.verdict = "ASSERT_FAIL" -> "CRASH"
    [] halt = "BUDGET" /\ o.verdict # "ASSERT_FAIL" -> "HANG"
    [] OTHER -> NoFailure

Bug_Bypass(o, vec) ==          \* marks as a second way to tell acceptance
  /\ o.verdict = "BOOT_ACCEPT" \/ "JUMP_TAKEN" \in o.marks
  /\ ~vec.should_accept \/ o.image_version < vec.min_version

Bypass(o, vec) ==
  /\ o.verdict = "BOOT_ACCEPT"
  /\ ~vec.should_accept \/ o.image_version < vec.min_version

ClassifyBoot(o, halt, vec, golden) ==
  IF ~OracleTrustworthy(o) THEN "CRASH"
  ELSE IF Bypass(o, vec) THEN "SEC_BYPASS"
  ELSE IF FailureMode(o, halt) # NoFailure THEN FailureMode(o, halt)
  ELSE IF \/ (o.verdict = "BOOT_ACCEPT") # vec.should_accept
          \/ o.marks # golden.marks
       THEN "SDC" ELSE "OK"

(***************************************************************************)
(* The safety invariant of safety.c:4-6, judged from outside.              *)
(***************************************************************************)
Unsafe(o, vec) ==
  vec.fault_asserted /\ (o.sup_state # "SAFE" \/ o.pwm_duty # 0)

ClassifySupervisor(o, halt, vec, golden) ==
  IF ~OracleTrustworthy(o) THEN "CRASH"
  ELSE IF Unsafe(o, vec) THEN "SAFETY_VIOLATION"
  ELSE IF FailureMode(o, halt) # NoFailure THEN FailureMode(o, halt)
  ELSE IF \/ o.pwm_duty # golden.pwm_duty \/ o.sup_state # golden.sup_state
          \/ o.marks # golden.marks
       THEN "SDC" ELSE "OK"

IsExploitable(outcome) == outcome \in {"SEC_BYPASS", "SAFETY_VIOLATION"}
=============================================================================
