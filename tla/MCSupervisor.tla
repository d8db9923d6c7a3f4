---------------------------- MODULE MCSupervisor ----------------------------
(***************************************************************************)
(* TLC model of Supervisor: small words, and scenarios with the features   *)
(* of target.py:195-201.                                                   *)
(***************************************************************************)
EXTENDS Supervisor

CONSTANTS MCBuilds,       \* hardened or not
          MCScenarios,    \* "nominal", "overcurrent", "deadline_miss"
          MCSetpoints, MCIterations

(***************************************************************************)
(* Readings are one above or exactly at the threshold.                     *)
(***************************************************************************)
MCVectors ==
  {[hardened |-> h,
    current_ma |-> IF s = "overcurrent" THEN Overcurrent + 1 ELSE Overcurrent,
    ticks |-> IF s = "deadline_miss" THEN Deadline + 1 ELSE Deadline,
    setpoint |-> p, iterations |-> n,
    fault_asserted |-> s # "nominal"]
   : h \in MCBuilds, s \in MCScenarios, p \in MCSetpoints, n \in MCIterations}

MCFlipped(w) ==
  {IF (w \div b) % 2 = 1 THEN w - b ELSE w + b : b \in {1, 2, 4, 8}}
=============================================================================
