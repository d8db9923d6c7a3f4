-------------------------- MODULE MCUnicornHistory --------------------------
(***************************************************************************)
(* The worker of MCUnicornBackend with a record of what each experiment    *)
(* returned the first time it was run, to ask whether a row can depend on  *)
(* the runs before it.                                                     *)
(***************************************************************************)
EXTENDS MCUnicornBackend

MCSingleFaults == {fs \in MCFaultSets : Len(fs) = 1}

VARIABLE first       \* fault set -> its first row on this worker

HistoryInit == Init /\ first = <<>>

HistoryNext ==
  /\ Next
  /\ first' = IF row' \in {NoRow, row} \/ cur \in DOMAIN first THEN first
              ELSE [fs \in DOMAIN first \cup {cur} |->
                      IF fs = cur THEN row' ELSE first[fs]]

HistorySpec == HistoryInit /\ [][HistoryNext]_<<vars, first>>

(***************************************************************************)
(* An experiment that a worker runs a second time returns the same row:    *)
(* no state leaks from one run into the next.  This is what the comment on *)
(* the memory map takes care of for flash (unicorn_backend.py:86-94).      *)
(***************************************************************************)
RowsRepeat == row # NoRow /\ cur \in DOMAIN first => row = first[cur]
=============================================================================
