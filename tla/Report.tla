-------------------------------- MODULE Report --------------------------------
(***************************************************************************)
(* What is kept of a campaign: the bucketed map of export_site_data.py,    *)
(* the cells of heatmap.py and the Parquet columns of store.py.  A row is  *)
(* one that Campaign's RowOf makes; only the columns a single-fault sweep  *)
(* is read by matter here.                                                 *)
(***************************************************************************)
EXTENDS Integers, Sequences, FiniteSets, SequencesExt, FiniteSetsExt, FaultSets

(***************************************************************************)
(* fns_of(), whichfn(): functions [addr, size, name] sorted by address     *)
(* (bit 0, Thumb, cleared; never shorter than 2); the first that holds pc. *)
(***************************************************************************)
FnsOf(symbols) ==
  LET functions == {[addr |-> s.value - (s.value % 2), size |-> Max({s.size, 2}),
                     name |-> s.name] :
                      s \in {x \in symbols : x.type = "STT_FUNC" /\ x.name # ""}}
  IN  SetToSortSeq(functions, LAMBDA f, g : \/ f.addr < g.addr
                                            \/ f.addr = g.addr /\ f.size < g.size)

WhichFn(fns, pc) ==
  LET hits == {i \in DOMAIN fns : fns[i].addr <= pc /\ pc < fns[i].addr + fns[i].size}
  IN  IF hits = {} THEN "?" ELSE fns[Min(hits)].name

(***************************************************************************)
(* Names in order of first appearance, and every name's 0-based index.     *)
(***************************************************************************)
Interned(names) ==
  FoldLeft(LAMBDA out, n : IF n \in ToSet(out) THEN out ELSE Append(out, n),
           <<>>, names)

IndexIn(fns, name) == (CHOOSE i \in DOMAIN fns : fns[i] = name) - 1

Indexed(names) ==
  [i \in DOMAIN names |-> IndexIn(Interned(names), names[i])]

-----------------------------------------------------------------------------
(***************************************************************************)
(* export_site_data.py: per width, one outcome for each of nb buckets of   *)
(* the trace; the most severe wins.                                        *)
(***************************************************************************)
Severity == [OK |-> 0, SDC |-> 1, HANG |-> 2, CRASH |-> 3,
             SAFETY_VIOLATION |-> 4, SEC_BYPASS |-> 5]

BucketCount(limit, glen) == Min({limit, glen})
BucketOf(trigger, nb, glen) == (trigger * nb) \div glen

Bug_Bucketed(rows, widths, nb, glen) ==      \* the last row wins
  FoldLeft(LAMBDA map, row :
             IF row.outcome # "OK"
             THEN [map EXCEPT ![row.value][BucketOf(row.trigger, nb, glen)] =
                     row.outcome]
             ELSE map,
           [k \in widths |-> [b \in 0..(nb - 1) |-> "OK"]], rows)

Bucketed(rows, widths, nb, glen) ==
  FoldLeft(LAMBDA map, row :
             LET b == BucketOf(row.trigger, nb, glen)
             IN  IF Severity[row.outcome] > Severity[map[row.value][b]]
                 THEN [map EXCEPT ![row.value][b] = row.outcome] ELSE map,
           [k \in widths |-> [b \in 0..(nb - 1) |-> "OK"]], rows)

(***************************************************************************)
(* A bucket's label is the function at trace position b * glen // nb.      *)
(***************************************************************************)
BucketNames(fns, pcs, nb) ==
  LET glen == Len(pcs)
  IN  [b \in 1..nb |-> WhichFn(fns, pcs[((b - 1) * glen) \div nb + 1])]

RunLengths(labels) ==
  FoldLeft(LAMBDA runs, v :
             IF runs # <<>> /\ runs[Len(runs)][1] = v
             THEN [runs EXCEPT ![Len(runs)][2] = @ + 1]
             ELSE Append(runs, <<v, 1>>),
           <<>>, labels)

-----------------------------------------------------------------------------
(***************************************************************************)
(* heatmap.py: the cells that are not OK and one label per column.         *)
(***************************************************************************)
Cells(rows) ==
  FoldLeft(LAMBDA cells, row :
             IF row.outcome # "OK"
             THEN Append(cells, <<row.trigger, row.value, row.outcome>>) ELSE cells,
           <<>>, rows)

ColumnNames(fns, pcs, span) ==
  [i \in 1..span |-> WhichFn(fns, pcs[i])]

(***************************************************************************)
(* store.py write(): a row's columns of SCHEMA; `values` and halt_reason   *)
(* are not among them.                                                     *)
(***************************************************************************)
Schema == {"order", "trigger", "model", "target_reg", "value", "outcome",
           "marks", "triggers"}

Stored(row) == [c \in Schema |-> row[c]]
=============================================================================
