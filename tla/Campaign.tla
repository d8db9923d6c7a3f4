------------------------------ MODULE Campaign ------------------------------
(***************************************************************************)
(* campaign.py: a campaign over a list or a stream of fault sets, run by   *)
(* the calling process itself (run_campaign with one worker), by           *)
(* Pool.map (run_campaign) or by Pool.imap_unordered                       *)
(* (run_campaign_streaming).  A worker that has been initialised answers a *)
(* fault set with its row; what happens inside is UnicornBackend's, whose  *)
(* RunIsReplay makes the row a function of the fault set.                  *)
(*                                                                         *)
(* multiprocessing.Pool is external, modelled by what the campaign gets    *)
(* from it: a thread that cuts the input into chunks and feeds a bounded   *)
(* pipe, spawned workers that run the initialiser before anything else and *)
(* are replaced when they die, and a thread that collects results.  A      *)
(* chunk that its worker takes to the grave is never answered, and a lock  *)
(* that a worker holds when it is killed is never released: one idle       *)
(* worker holds the task queue's while it waits in get(), and one holds    *)
(* the result queue's in put().                                            *)
(***************************************************************************)
EXTENDS Integers, Sequences, FiniteSets, FaultSets

CONSTANTS
  Worker,             \* worker processes of a pool
  RunOutcome(_),      \* classified outcome of a fault set
  RunMarks(_),        \* oracle marks of its run
  RaisesOn,           \* fault sets whose run raises in the worker
  ChunkSize,
  PipeRoom,           \* chunks the pipe to the workers holds
  MaxDeaths           \* bound: worker processes that die

Drivers == {"serial", "map", "stream"}
Outcomes == {"OK", "CRASH", "HANG", "SDC", "SEC_BYPASS", "SAFETY_VIOLATION"}
Exploitable == {"SEC_BYPASS", "SAFETY_VIOLATION"}

ASSUME CampaignAssumption ==
  /\ Worker # {} /\ IsFiniteSet(Worker)
  /\ ChunkSize \in Nat \ {0} /\ PipeRoom \in Nat \ {0} /\ MaxDeaths \in Nat

(***************************************************************************)
(* The Row that _run_one() builds: fault 0 in columns of its own, triggers *)
(* and values of all faults beside them.                                   *)
(***************************************************************************)
RowOf(fs) ==
  [order |-> Len(fs), trigger |-> FirstTrigger(fs),
   model |-> ModelCode(fs[1].model), target_reg |-> fs[1].target,
   value |-> fs[1].value, outcome |-> RunOutcome(fs), marks |-> RunMarks(fs),
   triggers |-> [i \in DOMAIN fs |-> fs[i].trigger],
   values |-> [i \in DOMAIN fs |-> fs[i].value]]

Counts(rows) ==
  [o \in Outcomes |-> Cardinality({i \in DOMAIN rows : rows[i].outcome = o})]

ExploitableRows(rows) ==
  LET kept[n \in 0..Len(rows)] ==      \* of the first n rows
        IF n = 0 THEN <<>>
        ELSE IF rows[n].outcome \in Exploitable THEN Append(kept[n - 1], rows[n])
        ELSE kept[n - 1]
  IN  kept[Len(rows)]

-----------------------------------------------------------------------------
VARIABLES
  calling,            \* the caller: idle, golden, running, returned, raised
  driver,
  feed,               \* fault_sets, or all that the generator will yield
  fed,                \* how many were taken from it
  pipe,               \* chunks [first, last] on their way to a worker
  worker,             \* what each worker process does
  results,            \* chunks [first, rows, ok] on their way back
  failed, slots,      \* Pool.map: a chunk failed; the rows in their places
  arrived,            \* imap_unordered: answers not yet iterated over
  tally,              \* total, counts and exploitable of the stream
  received,           \* history: positions whose rows the caller's side has
  lost,               \* history: positions that died with their worker
  jammed,             \* queues whose lock a dead worker holds
  deaths

input == <<driver, feed>>
processes == <<fed, pipe, worker>>
answers == <<failed, slots, arrived, tally, received>>
toll == <<lost, jammed, deaths>>
campaignVars == <<calling, input, processes, results, answers, toll>>

Starting == [at |-> "starting"]
Ready == [at |-> "ready"]
NoTally == [total |-> 0, counts |-> [o \in Outcomes |-> 0], exploitable |-> <<>>]

CampaignInit ==
  /\ calling = "idle" /\ driver = "serial" /\ feed = <<>>
  /\ fed = 0 /\ pipe = <<>> /\ worker = [w \in Worker |-> Starting]
  /\ results = <<>>
  /\ failed = FALSE /\ slots = <<>> /\ arrived = <<>> /\ tally = NoTally
  /\ received = {} /\ lost = {} /\ jammed = {} /\ deaths = 0

(***************************************************************************)
(* The caller: golden_length() in a child of its own, then the workers.    *)
(***************************************************************************)
Call(d, sets) ==
  /\ calling \in {"idle", "returned", "raised"}
  /\ calling' = "golden"
  /\ driver' = d /\ feed' = sets
  /\ fed' = 0 /\ pipe' = <<>> /\ worker' = [w \in Worker |-> Starting]
  /\ results' = <<>>
  /\ failed' = FALSE /\ slots' = <<>> /\ arrived' = <<>> /\ tally' = NoTally
  /\ received' = {} /\ lost' = {} /\ jammed' = {}
  /\ UNCHANGED deaths

GoldenLength ==
  /\ calling = "golden"
  /\ calling' = "running"
  /\ UNCHANGED <<input, processes, results, answers, toll>>

(***************************************************************************)
(* Leaving the `with` block terminates the pool, which takes both locks.   *)
(***************************************************************************)
Finish(how) ==
  /\ jammed = {}
  /\ calling' = how
  /\ pipe' = <<>> /\ results' = <<>> /\ arrived' = <<>>
  /\ worker' = [w \in Worker |-> Starting]
  /\ UNCHANGED <<input, fed, failed, slots, tally, received, toll>>

(***************************************************************************)
(* One worker: _init_worker() and the list comprehension, in the caller.   *)
(***************************************************************************)
RunSerially ==
  /\ calling = "running" /\ driver = "serial"
  /\ fed < Len(feed)
  /\ feed[fed + 1] \notin RaisesOn
  /\ fed' = fed + 1
  /\ slots' = Append(slots, RowOf(feed[fed']))
  /\ received' = received \cup {fed'}
  /\ UNCHANGED <<calling, input, pipe, worker, results, failed, arrived, tally, toll>>

RaiseSerially ==
  /\ calling = "running" /\ driver = "serial"
  /\ fed < Len(feed) /\ feed[fed + 1] \in RaisesOn
  /\ Finish("raised")

ReturnSerially ==
  /\ calling = "running" /\ driver = "serial" /\ fed = Len(feed)
  /\ Finish("returned")

-----------------------------------------------------------------------------
(***************************************************************************)
(* The pool.                                                               *)
(***************************************************************************)
Pooled == calling = "running" /\ driver \in {"map", "stream"}

Bug_FeedChunk ==      \* the last, short chunk is dropped
  /\ Pooled /\ fed + ChunkSize <= Len(feed) /\ Len(pipe) < PipeRoom
  /\ fed' = fed + ChunkSize
  /\ pipe' = Append(pipe, [first |-> fed + 1, last |-> fed'])
  /\ UNCHANGED <<calling, input, worker, results, answers, toll>>

FeedChunk ==
  /\ Pooled /\ fed < Len(feed) /\ Len(pipe) < PipeRoom
  /\ fed' = Min({fed + ChunkSize, Len(feed)})
  /\ pipe' = Append(pipe, [first |-> fed + 1, last |-> fed'])
  /\ UNCHANGED <<calling, input, worker, results, answers, toll>>

InitWorker(w) ==      \* _init_worker() returns
  /\ Pooled /\ worker[w] = Starting
  /\ worker' = [worker EXCEPT ![w] = Ready]
  /\ UNCHANGED <<calling, input, fed, pipe, results, answers, toll>>

Take(w) ==
  /\ Pooled /\ worker[w] = Ready /\ pipe # <<>> /\ "tasks" \notin jammed
  /\ worker' = [worker EXCEPT ![w] = [at |-> "busy", chunk |-> Head(pipe),
                                      rows |-> <<>>]]
  /\ pipe' = Tail(pipe)
  /\ UNCHANGED <<calling, input, fed, results, answers, toll>>

Busy(w) == Pooled /\ worker[w].at = "busy"
Current(w) == worker[w].chunk.first + Len(worker[w].rows)
ChunkDone(w) == Current(w) > worker[w].chunk.last

RunOne(w) ==          \* _run_one() returns a row
  /\ Busy(w) /\ ~ChunkDone(w) /\ feed[Current(w)] \notin RaisesOn
  /\ worker' = [worker EXCEPT ![w].rows = Append(@, RowOf(feed[Current(w)]))]
  /\ UNCHANGED <<calling, input, fed, pipe, results, answers, toll>>

CanAnswer(w) == ~ChunkDone(w) => feed[Current(w)] \in RaisesOn

PutChunk(w) ==        \* rows of a whole chunk, or the exception one raised
  /\ Busy(w) /\ CanAnswer(w) /\ "results" \notin jammed
  /\ results' = Append(results, [first |-> worker[w].chunk.first,
                                 rows |-> worker[w].rows, ok |-> ChunkDone(w)])
  /\ worker' = [worker EXCEPT ![w] = Ready]
  /\ UNCHANGED <<calling, input, fed, pipe, answers, toll>>

LocksOf(w) ==         \* the queue whose lock the worker may be holding
  IF worker[w].at = "ready" THEN {"tasks"}
  ELSE IF worker[w].at = "busy" /\ CanAnswer(w) THEN {"results"} ELSE {}

Die(w) ==             \* a replacement starts with the initialiser again
  /\ Pooled /\ deaths < MaxDeaths
  /\ deaths' = deaths + 1
  /\ worker' = [worker EXCEPT ![w] = Starting]
  /\ lost' = lost \cup (IF worker[w].at = "busy"
                        THEN worker[w].chunk.first..worker[w].chunk.last ELSE {})
  /\ jammed' \in {jammed, jammed \cup LocksOf(w)}
  /\ UNCHANGED <<calling, input, fed, pipe, results, answers>>

-----------------------------------------------------------------------------
(***************************************************************************)
(* Pool.map: every chunk has a place of its own; the call returns or       *)
(* raises when none is missing.                                            *)
(***************************************************************************)
Positions(r) == r.first..(r.first + Len(r.rows) - 1)

Bug_CollectMap ==     \* chunks are kept in the order they come back
  /\ Pooled /\ driver = "map" /\ results # <<>>
  /\ LET r == Head(results)
     IN  IF r.ok
         THEN /\ slots' = slots \o r.rows
              /\ received' = received \cup Positions(r)
              /\ failed' = failed
         ELSE failed' = TRUE /\ UNCHANGED <<slots, received>>
  /\ results' = Tail(results)
  /\ UNCHANGED <<calling, input, processes, arrived, tally, toll>>

CollectMap ==
  /\ Pooled /\ driver = "map" /\ results # <<>>
  /\ LET r == Head(results)
     IN  IF r.ok
         THEN /\ slots' = [i \in DOMAIN slots \cup Positions(r) |->
                             IF i \in Positions(r) THEN r.rows[i - r.first + 1]
                             ELSE slots[i]]
              /\ received' = received \cup Positions(r)
              /\ failed' = failed
         ELSE failed' = TRUE /\ UNCHANGED <<slots, received>>
  /\ results' = Tail(results)
  /\ UNCHANGED <<calling, input, processes, arrived, tally, toll>>

Bug_NothingOutstanding ==   \* the workers are not waited for
  fed = Len(feed) /\ pipe = <<>> /\ results = <<>>

NothingOutstanding ==
  /\ fed = Len(feed) /\ pipe = <<>> /\ results = <<>>
  /\ \A w \in Worker : worker[w].at # "busy"
  /\ lost = {}

FinishMap ==
  /\ Pooled /\ driver = "map" /\ NothingOutstanding
  /\ Finish(IF failed THEN "raised" ELSE "returned")

(***************************************************************************)
(* Pool.imap_unordered: chunks in the order they come back, row by row.    *)
(***************************************************************************)
CollectStream ==
  /\ Pooled /\ driver = "stream" /\ results # <<>>
  /\ LET r == Head(results)
     IN  arrived' = arrived \o
           (IF r.ok THEN [i \in DOMAIN r.rows |-> [at |-> r.first + i - 1,
                                                   row |-> r.rows[i]]]
            ELSE <<[at |-> 0]>>)
  /\ results' = Tail(results)
  /\ UNCHANGED <<calling, input, processes, failed, slots, tally, received, toll>>

Bug_Tallied(row) ==   \* only one of the two exploitable outcomes is kept
  [total |-> tally.total + 1,
   counts |-> [tally.counts EXCEPT ![row.outcome] = @ + 1],
   exploitable |-> IF row.outcome = "SAFETY_VIOLATION"
                   THEN Append(tally.exploitable, row) ELSE tally.exploitable]

Tallied(row) ==
  [total |-> tally.total + 1,
   counts |-> [tally.counts EXCEPT ![row.outcome] = @ + 1],
   exploitable |-> IF row.outcome \in Exploitable
                   THEN Append(tally.exploitable, row) ELSE tally.exploitable]

Iterate ==            \* one turn of the loop of run_campaign_streaming()
  /\ Pooled /\ driver = "stream" /\ arrived # <<>> /\ Head(arrived).at # 0
  /\ tally' = Tallied(Head(arrived).row)
  /\ received' = received \cup {Head(arrived).at}
  /\ arrived' = Tail(arrived)
  /\ UNCHANGED <<calling, input, processes, results, failed, slots, toll>>

RaiseStream ==
  /\ Pooled /\ driver = "stream" /\ arrived # <<>> /\ Head(arrived).at = 0
  /\ Finish("raised")

FinishStream ==
  /\ Pooled /\ driver = "stream" /\ arrived = <<>> /\ NothingOutstanding
  /\ Finish("returned")

Caller == \/ GoldenLength
          \/ RunSerially \/ RaiseSerially \/ ReturnSerially
          \/ FeedChunk
          \/ CollectMap \/ FinishMap
          \/ CollectStream \/ Iterate \/ RaiseStream \/ FinishStream

WorkerStep(w) == InitWorker(w) \/ Take(w) \/ RunOne(w) \/ PutChunk(w)

CampaignNext == Caller \/ \E w \in Worker : WorkerStep(w) \/ Die(w)

(***************************************************************************)
(* The caller's threads and every live worker keep running.  Nothing makes *)
(* a worker die, and only finitely many do.                                *)
(***************************************************************************)
CampaignFairness ==
  /\ WF_campaignVars(Caller)
  /\ \A w \in Worker : WF_campaignVars(WorkerStep(w))

(***************************************************************************)
(* One campaign after another, on whatever fault sets a caller has.        *)
(***************************************************************************)
AnyCall == \E d \in Drivers : Call(d, feed') /\ feed' \in Seq(Seq(AnyFault))

AnyCampaigns == CampaignInit /\ [][AnyCall \/ CampaignNext]_campaignVars

-----------------------------------------------------------------------------
(***************************************************************************)
(* Types.                                                                  *)
(***************************************************************************)
Place == 1..Len(feed)
Chunk == [first : Place, last : Place]
RowsOfFeed == {RowOf(feed[i]) : i \in Place}
WorkerState == {Starting, Ready} \cup
               [at : {"busy"}, chunk : Chunk, rows : Seq(RowsOfFeed)]
ChunkAnswer == [first : Place, rows : Seq(RowsOfFeed), ok : BOOLEAN]
Arrival == [at : {0}] \cup [at : Place, row : RowsOfFeed]

CampaignTypeOK ==
  /\ calling \in {"idle", "golden", "running", "returned", "raised"}
  /\ driver \in Drivers
  /\ feed \in Seq(Seq(AnyFault))
  /\ fed \in 0..Len(feed)
  /\ pipe \in Seq(Chunk)
  /\ worker \in [Worker -> WorkerState]
  /\ results \in Seq(ChunkAnswer)
  /\ failed \in BOOLEAN
  /\ arrived \in Seq(Arrival)
  /\ received \subseteq Place /\ lost \subseteq Place
  /\ jammed \subseteq {"tasks", "results"}
  /\ deaths \in Nat

(***************************************************************************)
(* Rows never part from their positions, in a worker, on the way back and  *)
(* in the result; a position that was answered is not one that raises.     *)
(***************************************************************************)
AreAnswers(first, rows) ==
  \A i \in DOMAIN rows :
    LET p == first + i - 1
    IN  p \in Place /\ feed[p] \notin RaisesOn /\ rows[i] = RowOf(feed[p])

RowsInPlace ==
  /\ \A w \in Worker :
       worker[w].at = "busy" => AreAnswers(worker[w].chunk.first, worker[w].rows)
  /\ \A k \in DOMAIN results : AreAnswers(results[k].first, results[k].rows)
  /\ \A k \in DOMAIN arrived :
       arrived[k].at # 0 => /\ feed[arrived[k].at] \notin RaisesOn
                            /\ arrived[k].row = RowOf(feed[arrived[k].at])
  /\ \A i \in received : feed[i] \notin RaisesOn
  /\ driver # "stream" =>
       slots = [i \in received |-> RowOf(feed[i])]

(***************************************************************************)
(* Every position that was fed is somewhere, unless a chunk has failed.    *)
(***************************************************************************)
Broken ==
  \/ failed
  \/ \E k \in DOMAIN results : ~results[k].ok
  \/ \E k \in DOMAIN arrived : arrived[k].at = 0

Accounted(i) ==
  \/ \E k \in DOMAIN pipe : i \in pipe[k].first..pipe[k].last
  \/ \E w \in Worker : /\ worker[w].at = "busy"
                       /\ i \in worker[w].chunk.first..worker[w].chunk.last
  \/ \E k \in DOMAIN results : i \in Positions(results[k])
  \/ \E k \in DOMAIN arrived : arrived[k].at = i
  \/ i \in received \/ i \in lost

NoneMissing ==
  /\ calling \in {"golden", "running"} /\ ~Broken => \A i \in 1..fed : Accounted(i)
  /\ Broken => \E i \in Place : feed[i] \in RaisesOn
  /\ driver = "serial" => received = 1..fed
  /\ driver # "map" => ~failed
  /\ driver # "stream" => arrived = <<>>
  /\ calling = "returned" => received = Place

(***************************************************************************)
(* No position is twice in the campaign's hands, wherever it is; one that  *)
(* was not fed is nowhere.                                                 *)
(***************************************************************************)
InPipe(i) == {k \in DOMAIN pipe : i \in pipe[k].first..pipe[k].last}
InWorker(i) == {w \in Worker : /\ worker[w].at = "busy"
                               /\ i \in worker[w].chunk.first..worker[w].chunk.last}
InResults(i) == {k \in DOMAIN results : i \in Positions(results[k])}
InArrived(i) == {k \in DOMAIN arrived : arrived[k].at = i}

Holders(i) ==
  ({"pipe"} \X InPipe(i)) \cup ({"worker"} \X InWorker(i))
    \cup ({"results"} \X InResults(i)) \cup ({"arrived"} \X InArrived(i))
    \cup ({"received"} \X (received \cap {i}))

HeldOnce ==
  \A i \in Place : /\ \A a, b \in Holders(i) : a = b
                   /\ i > fed => Holders(i) = {}

(***************************************************************************)
(* A worker has no more rows than its chunk has positions.                 *)
(***************************************************************************)
ChunksFit ==
  /\ \A k \in DOMAIN pipe : pipe[k].first <= pipe[k].last
  /\ \A w \in Worker : worker[w].at = "busy" => Current(w) <= worker[w].chunk.last + 1

(***************************************************************************)
(* What the streaming driver has counted is what it has received.          *)
(***************************************************************************)
TallyInv ==
  driver = "stream" =>
    /\ tally.counts = [o \in Outcomes |->
                         Cardinality({i \in received : RunOutcome(feed[i]) = o})]
    /\ LET hits == {i \in received : RunOutcome(feed[i]) \in Exploitable}
       IN  /\ tally.exploitable \in Seq(RowsOfFeed)
           /\ Len(tally.exploitable) = Cardinality(hits)
           /\ ToSet(tally.exploitable) = {RowOf(feed[i]) : i \in hits}

(***************************************************************************)
(* A result is held back until nothing is missing from it and every row is *)
(* in its set's place and counted once: the invariant that what a campaign *)
(* promises follows from, kept although chunks overtake each other, raise  *)
(* and are lost with their workers.                                        *)
(***************************************************************************)
WholeInv == CampaignTypeOK /\ RowsInPlace /\ NoneMissing

CampaignInv == WholeInv /\ ChunksFit /\ HeldOnce /\ TallyInv

-----------------------------------------------------------------------------
(***************************************************************************)
(* A result is the answer to the whole input whichever driver produced it  *)
(* and in whatever order the chunks came back: the counts and exploitable  *)
(* rows are those of the fault sets, none missing and none twice, although *)
(* imap_unordered keeps no order and a worker may have died (run_campaign, *)
(* CampaignResult.counts/exploitable, run_campaign_streaming).             *)
(***************************************************************************)
ResultCounts == IF driver = "stream" THEN tally.counts ELSE Counts(slots)
ResultExploitable == IF driver = "stream" THEN tally.exploitable
                     ELSE ExploitableRows(slots)

SetsWith(P(_)) == {i \in DOMAIN feed : P(RunOutcome(feed[i]))}

ResultIsComplete ==
  calling = "returned" =>
    /\ \A o \in Outcomes :
         ResultCounts[o] = Cardinality(SetsWith(LAMBDA x : x = o))
    /\ LET hits == SetsWith(LAMBDA x : x \in Exploitable)
       IN  /\ Len(ResultExploitable) = Cardinality(hits)
           /\ ToSet(ResultExploitable) = {RowOf(feed[i]) : i \in hits}

(***************************************************************************)
(* run_campaign() returns the rows in the order of the fault sets: a       *)
(* caller may zip them, as ga.py does, although chunks come back in any    *)
(* order.                                                                  *)
(***************************************************************************)
RowsFollowSets ==
  calling = "returned" /\ driver # "stream" =>
    /\ Len(slots) = Len(feed)
    /\ \A i \in DOMAIN feed : slots[i] = RowOf(feed[i])

(***************************************************************************)
(* A campaign ends, by returning or by raising what a worker raised, also  *)
(* when workers die while they start, while they wait for a chunk, or      *)
(* after their answer; only a worker that dies with a chunk in its hands   *)
(* or with a queue's lock makes it wait for ever (_init_worker, _run_one   *)
(* in a Pool).                                                             *)
(***************************************************************************)
CampaignEnds ==
  calling = "golden" ~>
    calling \in {"returned", "raised"} \/ lost # {} \/ jammed # {}

(***************************************************************************)
(* Whatever the driver, the campaign implements CampaignSpec.              *)
(***************************************************************************)
Contract == INSTANCE CampaignSpec WITH
  asked <- IF calling = "idle" THEN 0 ELSE Len(feed),
  answered <- received,
  status <- IF calling \in {"golden", "running"} THEN "open" ELSE calling

KeepsContract == Contract!Spec
=============================================================================
