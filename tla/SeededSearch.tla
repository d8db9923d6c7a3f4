----------------------------- MODULE SeededSearch -----------------------------
(***************************************************************************)
(* A seeded search from its golden run to its reports, as slice.py,        *)
(* faults.py, campaign.py, ga.py and the analysis scripts are made to be   *)
(* used together (faults.py:133-142, ga.py:27-32): slice the golden run,   *)
(* sweep it with single faults, keep what the sweep shows, then search the *)
(* combinations of what the slice and the sweep's near misses left, all of *)
(* them or with the genetic search.  The caller itself is not in the       *)
(* repository; it does nothing but pass results on.                        *)
(***************************************************************************)
EXTENDS Slice, Campaign, GeneticSearch, Report

CONSTANTS
  Swept(_),           \* golden runs the caller goes on with
  SweepWidths, SearchWidths,
  PoolLimit,          \* bounds: candidates that the genetic search is tried
  EvolveAfter,        \* on, and drivers of the sweep that it is tried after
  BucketLimit,
  Symbols             \* the symbol table of fw.elf

ASSUME SearchAssumption ==
  /\ SweepWidths \in Seq(Nat) /\ SearchWidths \in Seq(Nat)
  /\ BucketLimit \in Nat \ {0} /\ MinSeparation \in Nat \ {0}

VARIABLE
  phase               \* the caller: slicing, sweeping, searching, evolving

searchVars == <<phase, sliceVars, campaignVars, gaVars>>

GoldenLen == Len(execution)

(***************************************************************************)
(* What the sweep found: cli.py _sweep(), and the near misses that a       *)
(* seeded search takes from it.                                            *)
(***************************************************************************)
Sweep == SingleFaultSweep([i \in 1..GoldenLen |-> i - 1], {"SKIP"}, SweepWidths,
                          <<>>, <<>>)

NearMisses ==
  FoldLeft(LAMBDA found, r : IF r.outcome = "SDC" THEN Append(found, r.trigger)
                             ELSE found,
           <<>>, slots)

SearchPool == AsSkipFaults(idx, SearchWidths) \o AsSkipFaults(NearMisses, SearchWidths)

-----------------------------------------------------------------------------
Init ==
  /\ phase = "slicing"
  /\ SliceInit /\ CampaignInit /\ GAInit

TakeSlice ==
  /\ phase = "slicing" /\ SliceNext
  /\ UNCHANGED <<phase, campaignVars, gaVars>>

BeginSweep ==
  /\ phase = "slicing" /\ slicing = "sliced" /\ Swept(execution)
  /\ phase' = "sweeping"
  /\ \E d \in Drivers : Call(d, Sweep)
  /\ UNCHANGED <<sliceVars, gaVars>>

RunCampaign ==
  /\ phase \in {"sweeping", "searching"} /\ CampaignNext
  /\ UNCHANGED <<phase, sliceVars, gaVars>>

SweptRows == phase = "sweeping" /\ calling = "returned" /\ driver # "stream"

(***************************************************************************)
(* multi_fault_from_candidates() and dedupe(), or the generator as it is.  *)
(***************************************************************************)
BeginSearch ==
  /\ SweptRows
  /\ phase' = "searching"
  /\ LET sets == MultiFaultStream(SearchPool, Order, MinSeparation)
     IN  \E d \in Drivers : Call(d, IF d = "stream" THEN sets ELSE Dedupe(sets))
  /\ UNCHANGED <<sliceVars, gaVars>>

BeginEvolution ==
  /\ SweptRows
  /\ Len(SearchPool) <= PoolLimit /\ driver \in EvolveAfter
  /\ phase' = "evolving"
  /\ RunGA(SearchPool)
  /\ UNCHANGED <<sliceVars, campaignVars>>

Evolve ==
  /\ phase = "evolving" /\ GANext
  /\ UNCHANGED <<phase, sliceVars, campaignVars>>

Next == TakeSlice \/ BeginSweep \/ RunCampaign \/ BeginSearch \/ BeginEvolution \/ Evolve

(***************************************************************************)
(* Nothing obliges the caller, nor a worker to die.                        *)
(***************************************************************************)
Spec == Init /\ [][Next]_searchVars /\ CampaignFairness

-----------------------------------------------------------------------------
(***************************************************************************)
(* The combinations that are run are the ones that were asked for: every   *)
(* set of Order candidates that are far enough apart, in trigger order,    *)
(* and none twice after dedupe(), although the slice and the near misses   *)
(* overlap and list triggers out of order (faults.py:107-151).             *)
(***************************************************************************)
FarApart(S) ==
  \A f, g \in S : f.trigger < g.trigger => g.trigger - f.trigger >= MinSeparation
Realisable ==
  {S \in kSubset(Order, ToSet(SearchPool)) :
     FarApart(S) /\ Cardinality({f.trigger : f \in S}) = Order}

EveryExperimentOnce ==
  [][BeginSearch =>
       /\ {ToSet(feed'[i]) : i \in DOMAIN feed'} = Realisable
       /\ driver' # "stream" => Len(feed') = Cardinality(Realisable)
       /\ \A i \in DOMAIN feed' : \A j, k \in DOMAIN feed'[i] :
            j < k => feed'[i][j].trigger < feed'[i][k].trigger]_searchVars

(***************************************************************************)
(* The reports of a sweep show what it found: every bucket the worst       *)
(* outcome of its instructions, whatever the order of the rows; the        *)
(* heatmap, with absent for OK, every outcome at its function; the run     *)
(* lengths, decoded, for every bucket the function of its first            *)
(* instruction or, where nb does not divide b * glen, of the one before    *)
(* it; and a stored row is enough to run its single fault again            *)
(* (export_site_data.py:10-22, heatmap.py:57-66, store.py).                *)
(***************************************************************************)
WorstIn(k, b, nb) ==
  LET here == {i \in DOMAIN slots : /\ slots[i].value = k
                                    /\ BucketOf(slots[i].trigger, nb, GoldenLen) = b}
  IN  Max({Severity[slots[i].outcome] : i \in here} \cup {Severity["OK"]})

BucketsShowTheWorst(nb) ==
  LET map == Bucketed(slots, ToSet(SweepWidths), nb, GoldenLen)
  IN  \A k \in ToSet(SweepWidths), b \in 0..(nb - 1) :
        Severity[map[k][b]] = WorstIn(k, b, nb)

HeatmapIsLossless ==
  LET fns == FnsOf(Symbols)
      pcs == [i \in DOMAIN execution |-> execution[i].pc]
      columns == ColumnNames(fns, pcs, GoldenLen)
  IN  /\ \A i \in DOMAIN slots :
           {c[3] : c \in {x \in ToSet(Cells(slots)) :
                            x[1] = slots[i].trigger /\ x[2] = slots[i].value}}
             = {slots[i].outcome} \ {"OK"}
      /\ \A c \in ToSet(Cells(slots)) :
           Interned(columns)[Indexed(columns)[c[1] + 1] + 1]
             = WhichFn(fns, pcs[c[1] + 1])

DecodedLabels(nb) ==
  LET names == BucketNames(FnsOf(Symbols),
                           [i \in DOMAIN execution |-> execution[i].pc], nb)
      runs == RunLengths(Indexed(names))
      decoded == FlattenSeq([r \in DOMAIN runs |->
                               [n \in 1..runs[r][2] |-> runs[r][1]]])
  IN  [b \in DOMAIN decoded |-> Interned(names)[decoded[b] + 1]]

FunctionAt(t) == WhichFn(FnsOf(Symbols), execution[t + 1].pc)
BucketStart(b, nb) == Min({t \in 0..(GoldenLen - 1) : BucketOf(t, nb, GoldenLen) = b})

LabelsNearTheirBucket(nb) ==
  /\ DOMAIN DecodedLabels(nb) = 1..nb
  /\ \A b \in 0..(nb - 1) :
       LET first == BucketStart(b, nb)
       IN  \/ DecodedLabels(nb)[b + 1] = FunctionAt(first)
           \/ /\ (b * GoldenLen) % nb # 0 /\ first > 0
              /\ DecodedLabels(nb)[b + 1] = FunctionAt(first - 1)

StoredRowReplays ==
  \A i \in DOMAIN slots :
    LET r == Stored(slots[i])
    IN  \E m \in FaultModels :
          /\ ModelCode(m) = r.model
          /\ FaultSet(<<Fault(r.trigger, m, r.target_reg, r.value)>>) = feed[i]

ReportsShowTheSweep ==
  SweptRows =>
    LET nb == BucketCount(BucketLimit, GoldenLen)
    IN  BucketsShowTheWorst(nb) /\ HeatmapIsLossless /\ LabelsNearTheirBucket(nb)
        /\ StoredRowReplays
=============================================================================
