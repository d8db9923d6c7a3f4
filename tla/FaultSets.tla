------------------------------ MODULE FaultSets ------------------------------
(***************************************************************************)
(* faults.py: the experiments of a campaign and how they are generated.    *)
(*                                                                         *)
(* A fault is a record [trigger, model, target, value, width]; a fault set *)
(* is the sequence of its faults in the order of their keys.               *)
(***************************************************************************)
EXTENDS Integers, Sequences, FiniteSets, SequencesExt, FiniteSetsExt, TLC

Fault(t, model, target, value) ==
  [trigger |-> t, model |-> model, target |-> target, value |-> value,
   width |-> 4]

(***************************************************************************)
(* FaultModel as an IntEnum: its value orders faults of one trigger.       *)
(***************************************************************************)
ModelCode(model) ==
  CASE model = "SKIP" -> 0 [] model = "REG_XOR" -> 1 [] model = "REG_SET" -> 2
    [] model = "MEM_XOR" -> 3 [] model = "OPCODE_XOR" -> 4

FaultKey(f) == <<f.trigger, ModelCode(f.model), f.target, f.value, f.width>>

TupleLess(a, b) ==
  \E i \in 1..Min({Len(a), Len(b)}) :
    a[i] < b[i] /\ \A j \in 1..(i - 1) : a[j] = b[j]

KeyLess(f, g) == TupleLess(FaultKey(f), FaultKey(g))

FaultModels == {"SKIP", "REG_XOR", "REG_SET", "MEM_XOR", "OPCODE_XOR"}
AnyFault == [trigger : Nat, model : FaultModels, target : Nat, value : Nat,
             width : Nat]

(***************************************************************************)
(* FaultSet.__post_init__: {A, B} and {B, A} are one experiment.           *)
(***************************************************************************)
FaultSet(faults) ==
  LET places == DOMAIN faults
      inOrder == CHOOSE p \in Bijection(places, places) :
                   \A i, j \in places : i < j => ~KeyLess(faults[p[j]], faults[p[i]])
  IN  [i \in places |-> faults[inOrder[i]]]

FirstTrigger(fs) == fs[1].trigger

SetKey(fs) == [i \in DOMAIN fs |-> FaultKey(fs[i])]

-----------------------------------------------------------------------------
(***************************************************************************)
(* single_fault_sweep(): for every trigger the skip widths, then every bit *)
(* of every register.                                                      *)
(***************************************************************************)
SingleFaultSweep(triggers, models, widths, registers, bits) ==
  LET skips(t) == IF "SKIP" \in models
                  THEN [k \in DOMAIN widths |->
                          FaultSet(<<Fault(t, "SKIP", 0, widths[k])>>)]
                  ELSE <<>>
      flips(t) == IF "REG_XOR" \in models
                  THEN FlattenSeq([r \in DOMAIN registers |->
                         [b \in DOMAIN bits |->
                            FaultSet(<<Fault(t, "REG_XOR", registers[r],
                                             2^bits[b])>>)]])
                  ELSE <<>>
  IN  FlattenSeq([i \in DOMAIN triggers |->
                    skips(triggers[i]) \o flips(triggers[i])])

(***************************************************************************)
(* itertools.combinations(): positions ascending, tuples in lexicographic  *)
(* order.                                                                  *)
(***************************************************************************)
Combinations(seq, k) ==
  LET extended(c) ==    \* the tuple c of positions, by each later one
        LET top == IF c = <<>> THEN 0 ELSE Last(c)
        IN  [n \in 1..(Len(seq) - top) |-> Append(c, top + n)]
      positions[j \in 0..k] ==
        IF j = 0 THEN << <<>> >>
        ELSE FlattenSeq([i \in DOMAIN positions[j - 1] |->
                           extended(positions[j - 1][i])])
  IN  [i \in DOMAIN positions[k] |-> [j \in 1..k |-> seq[positions[k][i][j]]]]

Bug_Separated(faults, minSeparation) ==    \* neighbours in the tuple's order
  \A i \in 1..(Len(faults) - 1) :
    faults[i + 1].trigger - faults[i].trigger >= minSeparation

(***************************************************************************)
(* Consecutive triggers, sorted, are at least minSeparation apart.         *)
(***************************************************************************)
Separated(faults, minSeparation) ==
  LET sorted == FaultSet(faults)
  IN  \A i \in 1..(Len(sorted) - 1) :
        sorted[i + 1].trigger - sorted[i].trigger >= minSeparation

(***************************************************************************)
(* multi_fault_stream_from_candidates() and the list built from it.        *)
(***************************************************************************)
MultiFaultStream(candidates, order, minSeparation) ==
  FoldLeft(LAMBDA sets, c : IF Separated(c, minSeparation) THEN Append(sets, FaultSet(c))
                            ELSE sets,
           <<>>, Combinations(candidates, order))

(***************************************************************************)
(* dedupe(): the first of every key, in order.                             *)
(***************************************************************************)
Dedupe(sets) ==
  FoldLeft(LAMBDA out, fs :
             IF \E i \in DOMAIN out : SetKey(out[i]) = SetKey(fs)
             THEN out ELSE Append(out, fs), <<>>, sets)

-----------------------------------------------------------------------------
(***************************************************************************)
(* slice.py as_skip_faults(): the candidate list of a seeded search.       *)
(***************************************************************************)
AsSkipFaults(triggers, widths) ==
  FlattenSeq([i \in DOMAIN triggers |->
                [k \in DOMAIN widths |-> Fault(triggers[i], "SKIP", 0, widths[k])]])
=============================================================================
