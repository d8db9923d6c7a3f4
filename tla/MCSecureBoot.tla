---------------------------- MODULE MCSecureBoot ----------------------------
(***************************************************************************)
(* TLC model of SecureBoot: the test vectors of target.py:162-175 and the  *)
(* CFI constants of verify_hardened.c.                                     *)
(***************************************************************************)
EXTENDS SecureBoot, Bitwise, FiniteSetsExt

CONSTANTS
  MCOneSkip, MCTwoSkips,    \* vectors to boot the hardened build with
  MCBaseline                \* and the baseline build

Vector(name) ==
  [name |-> name,
   magic |-> name # "bad_magic",
   length |-> TRUE,
   version |-> IF name = "rollback" THEN 0 ELSE 2,
   min_version |-> 1,
   signed |-> name # "forged",
   should_accept |-> name = "genuine"]

Campaign(b, k, w, names) ==
  {[build |-> b, vec |-> Vector(n), faults |-> k, widths |-> w]
   : n \in names}

MCCampaigns == Campaign("hardened", 1, {1, 2}, MCOneSkip)
               \cup Campaign("hardened", 2, {1, 2}, MCTwoSkips)
               \cup Campaign("baseline", 2, {1, 2}, MCBaseline)

(***************************************************************************)
(* Why the accumulator can be the set of stages: no proper subset of the   *)
(* constants has the XOR of all four.  Their upper halfwords (0x1B2C,      *)
(* 0x2C3D, 0x3D4E, 0x4E5F) are enough to tell.                             *)
(***************************************************************************)
StageConstants == {6956, 11325, 15694, 20063}
XorAll(S) == FoldSet(LAMBDA a, b : a ^^ b, 0, S)

ASSUME CfiIndependence ==
  \A S \in SUBSET StageConstants :
    XorAll(S) = XorAll(StageConstants) => S = StageConstants
=============================================================================
