------------------------- MODULE SeededSearchProofs -------------------------
(***************************************************************************)
(* Proofs about the two components a SeededSearch drives.                  *)
(*                                                                         *)
(* Campaign, for every list of fault sets, number of workers, chunk size,  *)
(* pipe and number of deaths, whatever the runs answer and whichever of    *)
(* them raise: rows stay in place, nothing is missing from a result and    *)
(* nothing is in it twice, and the campaign implements CampaignSpec.       *)
(*                                                                         *)
(* GeneticSearch, for every pool, population, number of generations and    *)
(* outcome of the runs: the best individual is its own and never lost, and *)
(* what is bred keeps the separation.                                      *)
(*                                                                         *)
(* Sweep and search, for every golden run: the reports show what was found,*)
(* and the experiments of a seeded search are exactly the realisable ones. *)
(***************************************************************************)
EXTENDS SeededSearch, FiniteSetTheorems, NatRecursion, TLAPS

(***************************************************************************)
(* Sequences used as queues.                                               *)
(***************************************************************************)
LEMMA QueueHead ==
  ASSUME NEW S, NEW q \in Seq(S), q # <<>>
  PROVE  /\ 1 \in DOMAIN q /\ Head(q) = q[1] /\ Head(q) \in S
         /\ Tail(q) \in Seq(S)
         /\ \A k \in DOMAIN Tail(q) : k + 1 \in DOMAIN q /\ Tail(q)[k] = q[k + 1]
         /\ \A k \in DOMAIN q : k = 1 \/ (k - 1 \in DOMAIN Tail(q)
                                          /\ Tail(q)[k - 1] = q[k])
  OBVIOUS

LEMMA QueueAppend ==
  ASSUME NEW S, NEW q \in Seq(S), NEW x \in S
  PROVE  /\ Append(q, x) \in Seq(S)
         /\ DOMAIN Append(q, x) = DOMAIN q \cup {Len(q) + 1}
         /\ \A k \in DOMAIN q : Append(q, x)[k] = q[k]
         /\ Append(q, x)[Len(q) + 1] = x
         /\ Len(Append(q, x)) = Len(q) + 1
         /\ DOMAIN q = 1..Len(q) /\ Len(q) \in Nat
  OBVIOUS

LEMMA QueueJoin ==
  ASSUME NEW S, NEW q \in Seq(S), NEW r \in Seq(S)
  PROVE  /\ q \o r \in Seq(S)
         /\ \A k \in DOMAIN q : k \in DOMAIN (q \o r) /\ (q \o r)[k] = q[k]
         /\ \A k \in DOMAIN r : Len(q) + k \in DOMAIN (q \o r)
                                /\ (q \o r)[Len(q) + k] = r[k]
         /\ \A k \in DOMAIN (q \o r) :
              \/ k \in DOMAIN q
              \/ k - Len(q) \in DOMAIN r /\ (q \o r)[k] = r[k - Len(q)]
  OBVIOUS

LEMMA MinOfTwo ==
  ASSUME NEW a \in Int, NEW b \in Int
  PROVE  Min({a, b}) \in {a, b} /\ Min({a, b}) <= a /\ Min({a, b}) <= b
<1>1. \E x \in {a, b} : \A y \in {a, b} : x <= y
  OBVIOUS
<1> QED BY <1>1 DEF Min

-----------------------------------------------------------------------------
(***************************************************************************)
(* A pool at rest has the type of a pool.                                  *)
(***************************************************************************)
AtRest == /\ pipe = <<>> /\ worker = [w \in Worker |-> Starting]
          /\ results = <<>> /\ arrived = <<>>
PoolTyped == /\ pipe \in Seq(Chunk) /\ worker \in [Worker -> WorkerState]
             /\ results \in Seq(ChunkAnswer) /\ arrived \in Seq(Arrival)

LEMMA Resting == AtRest => PoolTyped
<1> SUFFICES ASSUME AtRest PROVE PoolTyped
  OBVIOUS
<1> USE DEF AtRest
<1>1. pipe \in Seq(Chunk) /\ results \in Seq(ChunkAnswer) /\ arrived \in Seq(Arrival)
  OBVIOUS
<1>2. Starting \in WorkerState
  BY DEF WorkerState
<1> QED BY <1>1, <1>2 DEF PoolTyped

LEMMA Start == CampaignInit => WholeInv
<1> SUFFICES ASSUME CampaignInit PROVE WholeInv
  OBVIOUS
<1> USE DEF CampaignInit
<1>1. feed \in Seq(Seq(AnyFault)) /\ fed \in 0..Len(feed)
  OBVIOUS
<1>2. CampaignTypeOK
  BY <1>1, Resting DEF CampaignTypeOK, Drivers, AtRest, PoolTyped
<1>3. RowsInPlace
  BY DEF RowsInPlace, Starting, AreAnswers
<1>4. NoneMissing
  BY DEF NoneMissing, Broken
<1> QED BY <1>2, <1>3, <1>4 DEF WholeInv

LEMMA CallKeeps ==
  ASSUME WholeInv, AnyCall PROVE WholeInv'
<1>1. PICK d \in Drivers : Call(d, feed') /\ feed' \in Seq(Seq(AnyFault))
  BY DEF AnyCall
<1> USE <1>1 DEF Call
<1>2. fed' \in 0..Len(feed')
  BY <1>1
<1>3. AtRest'
  BY DEF AtRest
<1>4. PoolTyped'
  BY <1>3, Resting, PTL
<1>5. CampaignTypeOK'
  BY <1>2, <1>4 DEF WholeInv, CampaignTypeOK, PoolTyped
<1>6. RowsInPlace'
  BY DEF RowsInPlace, Starting, AreAnswers
<1>7. NoneMissing'
  BY DEF NoneMissing, Broken
<1> QED BY <1>5, <1>6, <1>7 DEF WholeInv

(***************************************************************************)
(* Ending the call empties the pool; a result may only be returned whole.  *)
(***************************************************************************)
LEMMA FinishKeeps ==
  ASSUME WholeInv, NEW how \in {"returned", "raised"}, Finish(how),
         how = "returned" => received = Place
  PROVE  WholeInv'
<1> USE DEF Finish, input, toll
<1>1. AtRest'
  BY DEF AtRest
<1>2. PoolTyped'
  BY <1>1, Resting, PTL
<1>3. CampaignTypeOK'
  BY <1>2 DEF WholeInv, CampaignTypeOK, PoolTyped, Place
<1>4. RowsInPlace'
  BY DEF WholeInv, RowsInPlace, Starting, AreAnswers
<1>5. Broken' => Broken
  BY DEF Broken
<1>6. NoneMissing'
  BY <1>5 DEF WholeInv, NoneMissing, Place
<1> QED BY <1>3, <1>4, <1>6 DEF WholeInv

LEMMA SameFeed ==
  ASSUME feed' = feed
  PROVE  /\ Place' = Place /\ Chunk' = Chunk /\ RowsOfFeed' = RowsOfFeed
         /\ WorkerState' = WorkerState /\ ChunkAnswer' = ChunkAnswer
         /\ Arrival' = Arrival
  BY DEF Place, Chunk, RowsOfFeed, WorkerState, ChunkAnswer, Arrival

-----------------------------------------------------------------------------
(***************************************************************************)
(* The caller running everything itself.                                   *)
(***************************************************************************)
LEMMA RunSeriallyKeeps ==
  ASSUME WholeInv, RunSerially PROVE WholeInv'
<1> USE DEF RunSerially, input, toll
<1> DEFINE row == RowOf(feed[fed + 1])
<1>1. /\ fed \in Nat /\ fed + 1 \in Place /\ received = 1..fed /\ ~failed
      /\ slots = [i \in 1..fed |-> RowOf(feed[i])]
  <2>1. fed \in Nat /\ Len(feed) \in Nat /\ fed < Len(feed)
    BY DEF WholeInv, CampaignTypeOK
  <2>2. received = 1..fed /\ ~failed
    BY DEF WholeInv, NoneMissing
  <2>3. slots = [i \in received |-> RowOf(feed[i])]
    BY DEF WholeInv, RowsInPlace
  <2> QED BY <2>1, <2>2, <2>3 DEF Place
<1>2. CampaignTypeOK'
  BY <1>1, SameFeed DEF WholeInv, CampaignTypeOK, Place
<1>3. slots' = [i \in 1..(fed + 1) |-> RowOf(feed[i])]
  BY <1>1
<1>4. received' = 1..(fed + 1)
  BY <1>1
<1>5. RowsInPlace'
  BY <1>1, <1>3, <1>4, SameFeed DEF WholeInv, RowsInPlace, AreAnswers
<1>6. Broken' <=> Broken
  BY DEF Broken
<1>7. \A i \in received' : Accounted(i)'
  BY DEF Accounted
<1>8. NoneMissing'
  BY <1>1, <1>4, <1>6, <1>7, SameFeed DEF WholeInv, NoneMissing
<1> QED BY <1>2, <1>5, <1>8 DEF WholeInv

-----------------------------------------------------------------------------
(***************************************************************************)
(* Steps of the pool leave the call and its input alone.                   *)
(***************************************************************************)
LEMMA PoolStep ==
  ASSUME WholeInv, Pooled, UNCHANGED <<calling, driver, feed>>,
         CampaignTypeOK', RowsInPlace',
         Broken' => Broken \/ \E i \in Place : feed[i] \in RaisesOn,
         driver # "map" => ~failed', driver # "stream" => arrived' = <<>>,
         ~Broken' => \A i \in 1..fed' : Accounted(i)'
  PROVE  WholeInv'
<1>1. NoneMissing'
  BY SameFeed DEF WholeInv, NoneMissing, Pooled
<1> QED BY <1>1 DEF WholeInv

LEMMA FeedChunkKeeps ==
  ASSUME WholeInv, FeedChunk PROVE WholeInv'
<1> USE DEF FeedChunk, input, answers, toll
<1> DEFINE chunk == [first |-> fed + 1, last |-> fed']
<1>1. /\ fed \in Nat /\ Len(feed) \in Nat /\ fed < Len(feed) /\ ChunkSize \in Nat
      /\ ChunkSize > 0 /\ pipe \in Seq(Chunk)
  BY CampaignAssumption DEF WholeInv, CampaignTypeOK
<1>2. fed' \in {fed + ChunkSize, Len(feed)} /\ fed' <= Len(feed)
  <2>1. fed + ChunkSize \in Int /\ Len(feed) \in Int
    BY <1>1
  <2>2. fed' = Min({fed + ChunkSize, Len(feed)})
    OBVIOUS
  <2> QED BY <2>1, <2>2, MinOfTwo
<1>3. fed' \in Nat /\ fed < fed' /\ fed' <= Len(feed)
  BY <1>1, <1>2
<1>4. chunk \in Chunk
  BY <1>1, <1>3 DEF Chunk, Place
<1>5. CampaignTypeOK'
  BY <1>1, <1>3, <1>4, QueueAppend, SameFeed DEF WholeInv, CampaignTypeOK
<1>6. RowsInPlace'
  BY SameFeed DEF WholeInv, RowsInPlace, AreAnswers
<1>7. Broken' <=> Broken
  BY DEF Broken
<1>8. ASSUME NEW i \in 1..fed', ~Broken PROVE Accounted(i)'
  <2>1. pipe' = Append(pipe, chunk)
    OBVIOUS
  <2>2. CASE i \in 1..fed
    <3>1. Accounted(i)
      BY <1>8, <2>2 DEF WholeInv, NoneMissing, Pooled
    <3>2. \A k \in DOMAIN pipe : k \in DOMAIN pipe' /\ pipe'[k] = pipe[k]
      BY <1>1, <1>4, <2>1, QueueAppend
    <3> QED BY <3>1, <3>2 DEF Accounted
  <2>3. CASE i \notin 1..fed
    <3>1. i \in chunk.first..chunk.last
      BY <1>1, <1>3, <2>3
    <3>2. Len(pipe) + 1 \in DOMAIN pipe' /\ pipe'[Len(pipe) + 1] = chunk
      BY <1>1, <1>4, <2>1, QueueAppend
    <3> QED BY <3>1, <3>2 DEF Accounted
  <2> QED BY <2>2, <2>3
<1>9. /\ driver # "map" => ~failed'
      /\ driver # "stream" => arrived' = <<>>
  BY DEF WholeInv, NoneMissing
<1> QED BY <1>5, <1>6, <1>7, <1>8, <1>9, PoolStep DEF WholeInv, NoneMissing

-----------------------------------------------------------------------------
(***************************************************************************)
(* The workers.                                                            *)
(***************************************************************************)
LEMMA BusyWorker ==
  ASSUME CampaignTypeOK, NEW w \in Worker, worker[w].at = "busy"
  PROVE  /\ worker[w] \in [at : {"busy"}, chunk : Chunk, rows : Seq(RowsOfFeed)]
         /\ worker[w].chunk.first \in Place /\ worker[w].chunk.last \in Place
         /\ worker[w].rows \in Seq(RowsOfFeed)
         /\ Len(feed) \in Nat
<1>1. worker[w] \in WorkerState /\ feed \in Seq(Seq(AnyFault))
  BY DEF CampaignTypeOK
<1>2. worker[w] # Starting /\ worker[w] # Ready
  BY DEF Starting, Ready
<1>3. worker[w] \in [at : {"busy"}, chunk : Chunk, rows : Seq(RowsOfFeed)]
  BY <1>1, <1>2 DEF WorkerState
<1>4. worker[w].chunk \in Chunk
  BY <1>3
<1> QED BY <1>1, <1>3, <1>4 DEF Chunk

LEMMA InitWorkerKeeps ==
  ASSUME WholeInv, NEW w \in Worker, InitWorker(w) PROVE WholeInv'
<1> USE DEF InitWorker, input, answers, toll
<1>1. Ready \in WorkerState
  BY DEF WorkerState
<1>2. CampaignTypeOK'
  BY <1>1, SameFeed DEF WholeInv, CampaignTypeOK
<1>3. worker'[w].at # "busy" /\ \A x \in Worker \ {w} : worker'[x] = worker[x]
  BY DEF WholeInv, CampaignTypeOK, Ready
<1>4. RowsInPlace'
  BY <1>3, SameFeed DEF WholeInv, RowsInPlace, AreAnswers
<1>5. Broken' <=> Broken
  BY DEF Broken
<1>6. ASSUME NEW i \in 1..fed', ~Broken PROVE Accounted(i)'
  <2>1. Accounted(i)
    BY <1>6 DEF WholeInv, NoneMissing, Pooled
  <2>2. worker[w].at # "busy"
    BY DEF Starting
  <2> QED BY <1>3, <2>1, <2>2 DEF Accounted
<1>7. /\ driver # "map" => ~failed'
      /\ driver # "stream" => arrived' = <<>>
  BY DEF WholeInv, NoneMissing
<1> QED BY <1>2, <1>4, <1>5, <1>6, <1>7, PoolStep DEF WholeInv, NoneMissing

LEMMA TakeKeeps ==
  ASSUME WholeInv, NEW w \in Worker, Take(w) PROVE WholeInv'
<1> USE DEF Take, input, answers, toll
<1> DEFINE taken == [at |-> "busy", chunk |-> Head(pipe), rows |-> <<>>]
<1>1. pipe \in Seq(Chunk) /\ pipe # <<>> /\ worker \in [Worker -> WorkerState]
  BY DEF WholeInv, CampaignTypeOK
<1>2. Head(pipe) \in Chunk /\ Tail(pipe) \in Seq(Chunk)
  BY <1>1, QueueHead
<1>3. taken \in WorkerState
  BY <1>2 DEF WorkerState
<1>4. worker'[w] = taken /\ \A x \in Worker \ {w} : worker'[x] = worker[x]
  BY <1>1
<1>5. CampaignTypeOK'
  BY <1>1, <1>2, <1>3, SameFeed DEF WholeInv, CampaignTypeOK
<1>6. RowsInPlace'
  BY <1>4, SameFeed DEF WholeInv, RowsInPlace, AreAnswers
<1>7. Broken' <=> Broken
  BY DEF Broken
<1>8. ASSUME NEW i \in 1..fed', ~Broken PROVE Accounted(i)'
  <2>1. Accounted(i)
    BY <1>8 DEF WholeInv, NoneMissing, Pooled
  <2>2. worker[w].at # "busy"
    BY DEF Ready
  <2>3. CASE \E k \in DOMAIN pipe : i \in pipe[k].first..pipe[k].last
    <3>1. PICK k \in DOMAIN pipe : i \in pipe[k].first..pipe[k].last
      BY <2>3
    <3>2. CASE k = 1
      <4>1. i \in taken.chunk.first..taken.chunk.last
        BY <1>1, <3>1, <3>2, QueueHead
      <4>2. worker'[w].at = "busy" /\ worker'[w].chunk = taken.chunk
        BY <1>4
      <4> QED BY <4>1, <4>2 DEF Accounted
    <3>3. CASE k # 1
      <4>1. k - 1 \in DOMAIN pipe' /\ pipe'[k - 1] = pipe[k]
        BY <1>1, <3>1, <3>3, QueueHead
      <4> QED BY <3>1, <4>1 DEF Accounted
    <3> QED BY <3>2, <3>3
  <2>4. CASE ~ \E k \in DOMAIN pipe : i \in pipe[k].first..pipe[k].last
    BY <1>4, <2>1, <2>2, <2>4 DEF Accounted
  <2> QED BY <2>3, <2>4
<1>9. /\ driver # "map" => ~failed'
      /\ driver # "stream" => arrived' = <<>>
  BY DEF WholeInv, NoneMissing
<1> QED BY <1>5, <1>6, <1>7, <1>8, <1>9, PoolStep DEF WholeInv, NoneMissing

LEMMA RunOneKeeps ==
  ASSUME WholeInv, NEW w \in Worker, RunOne(w) PROVE WholeInv'
<1> USE DEF RunOne, Busy, input, answers, toll
<1> DEFINE row == RowOf(feed[Current(w)])
           first == worker[w].chunk.first
           rows == worker[w].rows
           more == Append(rows, row)
<1>1. /\ worker[w] \in [at : {"busy"}, chunk : Chunk, rows : Seq(RowsOfFeed)]
      /\ first \in Place /\ worker[w].chunk.last \in Place
      /\ rows \in Seq(RowsOfFeed) /\ Len(feed) \in Nat
  BY BusyWorker DEF WholeInv
<1>2. Current(w) = first + Len(rows) /\ Len(rows) \in Nat /\ Current(w) \in Place
  BY <1>1 DEF Current, ChunkDone, Place
<1>3. row \in RowsOfFeed
  BY <1>2 DEF RowsOfFeed
<1>4. /\ more \in Seq(RowsOfFeed) /\ DOMAIN more = DOMAIN rows \cup {Len(rows) + 1}
      /\ \A k \in DOMAIN rows : more[k] = rows[k]
      /\ more[Len(rows) + 1] = row
  BY <1>1, <1>3, QueueAppend
<1>5. worker \in [Worker -> WorkerState]
  BY DEF WholeInv, CampaignTypeOK
<1>6. /\ worker'[w] = [worker[w] EXCEPT !.rows = more]
      /\ \A x \in Worker \ {w} : worker'[x] = worker[x]
  BY <1>5
<1>7. worker'[w] \in [at : {"busy"}, chunk : Chunk, rows : Seq(RowsOfFeed)]
  <2>1. ASSUME NEW S, NEW T, NEW r \in [at : {"busy"}, chunk : S, rows : T], NEW m \in T
        PROVE  [r EXCEPT !.rows = m] \in [at : {"busy"}, chunk : S, rows : T]
    OBVIOUS
  <2> HIDE DEF more
  <2> QED BY <1>1, <1>4, <1>6, <2>1
<1>8. worker' \in [Worker -> WorkerState]
  BY <1>5, <1>6, <1>7 DEF WorkerState
<1>9. CampaignTypeOK'
  BY <1>8, SameFeed DEF WholeInv, CampaignTypeOK
<1>10. AreAnswers(first, rows)
  BY DEF WholeInv, RowsInPlace
<1>11. feed[Current(w)] \notin RaisesOn /\ first + (Len(rows) + 1) - 1 = Current(w)
  BY <1>1, <1>2 DEF Place
<1>12. AreAnswers(first, more)
  BY <1>2, <1>4, <1>10, <1>11 DEF AreAnswers
<1>13. worker'[w].at = "busy" /\ worker'[w].chunk.first = first /\ worker'[w].rows = more
       /\ worker'[w].chunk = worker[w].chunk
  BY <1>1, <1>6
<1>14. RowsInPlace'
  BY <1>6, <1>12, <1>13, SameFeed DEF WholeInv, RowsInPlace, AreAnswers
<1>15. Broken' <=> Broken
  BY DEF Broken
<1>16. ASSUME NEW i \in 1..fed', ~Broken PROVE Accounted(i)'
  <2>1. Accounted(i)
    BY <1>16 DEF WholeInv, NoneMissing, Pooled
  <2> QED BY <1>6, <1>13, <2>1 DEF Accounted
<1>17. /\ driver # "map" => ~failed'
      /\ driver # "stream" => arrived' = <<>>
  BY DEF WholeInv, NoneMissing
<1> QED BY <1>9, <1>14, <1>15, <1>16, <1>17, PoolStep DEF WholeInv, NoneMissing

LEMMA PutChunkKeeps ==
  ASSUME WholeInv, NEW w \in Worker, PutChunk(w) PROVE WholeInv'
<1> USE DEF PutChunk, Busy, CanAnswer, input, answers, toll
<1> DEFINE first == worker[w].chunk.first
           last == worker[w].chunk.last
           rows == worker[w].rows
           answer == [first |-> first, rows |-> rows, ok |-> ChunkDone(w)]
<1>1. /\ first \in Place /\ last \in Place /\ rows \in Seq(RowsOfFeed)
      /\ Len(feed) \in Nat /\ worker \in [Worker -> WorkerState]
      /\ results \in Seq(ChunkAnswer)
  BY BusyWorker DEF WholeInv, CampaignTypeOK
<1>2. ChunkDone(w) \in BOOLEAN
  BY DEF ChunkDone
<1>3. answer \in ChunkAnswer
  BY <1>1, <1>2 DEF ChunkAnswer
<1>4. /\ results' = Append(results, answer) /\ results' \in Seq(ChunkAnswer)
      /\ DOMAIN results' = DOMAIN results \cup {Len(results) + 1}
      /\ \A k \in DOMAIN results : results'[k] = results[k]
      /\ results'[Len(results) + 1] = answer
  BY <1>1, <1>3, QueueAppend
<1>5. Ready \in WorkerState
  BY DEF WorkerState
<1>6. CampaignTypeOK'
  BY <1>1, <1>4, <1>5, SameFeed DEF WholeInv, CampaignTypeOK
<1>7. worker'[w].at # "busy" /\ \A x \in Worker \ {w} : worker'[x] = worker[x]
  BY <1>1 DEF Ready
<1>8. AreAnswers(first, rows)
  BY DEF WholeInv, RowsInPlace
<1>9. RowsInPlace'
  <2>1. \A k \in DOMAIN results' : AreAnswers(results'[k].first, results'[k].rows)
    BY <1>4, <1>8 DEF WholeInv, RowsInPlace
  <2> QED BY <1>7, <2>1, SameFeed DEF WholeInv, RowsInPlace, AreAnswers
<1>10. ASSUME ~ChunkDone(w) PROVE \E i \in Place : feed[i] \in RaisesOn
  <2>1. Len(rows) \in Nat /\ Current(w) = first + Len(rows) /\ Current(w) <= last
    BY <1>1, <1>10 DEF Current, ChunkDone, Place
  <2>2. Current(w) \in Place
    BY <1>1, <2>1 DEF Place
  <2> QED BY <1>10, <2>2
<1>11. Broken' => Broken \/ \E i \in Place : feed[i] \in RaisesOn
  BY <1>4, <1>10 DEF Broken
<1>12. ASSUME NEW i \in 1..fed', ~Broken' PROVE Accounted(i)'
  <2>1. ChunkDone(w) /\ ~Broken
    BY <1>4, <1>12 DEF Broken
  <2>2. Accounted(i)
    BY <2>1 DEF WholeInv, NoneMissing, Pooled
  <2>3. CASE i \in first..last
    <3>1. Len(rows) \in Nat /\ first + Len(rows) > last
      BY <1>1, <2>1 DEF Current, ChunkDone, Place
    <3>2. i \in Positions(answer)
      BY <1>1, <2>3, <3>1 DEF Positions, Place
    <3>3. Len(results) + 1 \in DOMAIN results' /\ i \in Positions(results'[Len(results) + 1])
      BY <1>4, <3>2
    <3> QED BY <3>3 DEF Accounted, Positions
  <2>4. CASE \E k \in DOMAIN results : i \in Positions(results[k])
    BY <1>4, <2>4 DEF Accounted, Positions
  <2>5. CASE i \notin first..last /\ ~ \E k \in DOMAIN results : i \in Positions(results[k])
    BY <1>7, <2>2, <2>5 DEF Accounted
  <2> QED BY <2>3, <2>4, <2>5
<1>13. /\ driver # "map" => ~failed'
      /\ driver # "stream" => arrived' = <<>>
  BY DEF WholeInv, NoneMissing
<1> QED BY <1>6, <1>9, <1>11, <1>12, <1>13, PoolStep DEF WholeInv, NoneMissing

LEMMA DieKeeps ==
  ASSUME WholeInv, NEW w \in Worker, Die(w) PROVE WholeInv'
<1> USE DEF Die, input, answers
<1> DEFINE chunk == worker[w].chunk.first..worker[w].chunk.last
<1>1. worker \in [Worker -> WorkerState] /\ Starting \in WorkerState /\ lost \subseteq Place
      /\ deaths \in Nat
  BY DEF WholeInv, CampaignTypeOK, WorkerState
<1>2. worker[w].at = "busy" => chunk \subseteq Place
  BY BusyWorker DEF WholeInv, Place
<1>3. lost' \subseteq Place /\ jammed' \subseteq {"tasks", "results"}
  <2>1. jammed \subseteq {"tasks", "results"}
    BY DEF WholeInv, CampaignTypeOK
  <2> QED BY <1>1, <1>2, <2>1 DEF LocksOf
<1>4. CampaignTypeOK'
  BY <1>1, <1>3, SameFeed DEF WholeInv, CampaignTypeOK
<1>5. worker'[w].at # "busy" /\ \A x \in Worker \ {w} : worker'[x] = worker[x]
  BY <1>1 DEF Starting
<1>6. RowsInPlace'
  BY <1>5, SameFeed DEF WholeInv, RowsInPlace, AreAnswers
<1>7. Broken' <=> Broken
  BY DEF Broken
<1>8. ASSUME NEW i \in 1..fed', ~Broken PROVE Accounted(i)'
  <2>1. Accounted(i)
    BY <1>8 DEF WholeInv, NoneMissing, Pooled
  <2>2. worker[w].at = "busy" /\ i \in chunk => i \in lost'
    OBVIOUS
  <2> QED BY <1>5, <2>1, <2>2 DEF Accounted
<1>9. /\ driver # "map" => ~failed'
      /\ driver # "stream" => arrived' = <<>>
  BY DEF WholeInv, NoneMissing
<1> QED BY <1>4, <1>6, <1>7, <1>8, <1>9, PoolStep DEF WholeInv, NoneMissing

-----------------------------------------------------------------------------
(***************************************************************************)
(* The caller's side of the pool.                                          *)
(***************************************************************************)
LEMMA FirstResult ==
  ASSUME WholeInv, results # <<>>
  PROVE  /\ Head(results) = results[1] /\ 1 \in DOMAIN results
         /\ Head(results) \in ChunkAnswer
         /\ Tail(results) \in Seq(ChunkAnswer)
         /\ AreAnswers(Head(results).first, Head(results).rows)
         /\ \A k \in DOMAIN Tail(results) :
              k + 1 \in DOMAIN results /\ Tail(results)[k] = results[k + 1]
         /\ \A k \in DOMAIN results \ {1} :
              k - 1 \in DOMAIN Tail(results) /\ Tail(results)[k - 1] = results[k]
<1>1. results \in Seq(ChunkAnswer)
  BY DEF WholeInv, CampaignTypeOK
<1>2. /\ Head(results) = results[1] /\ 1 \in DOMAIN results
      /\ Head(results) \in ChunkAnswer /\ Tail(results) \in Seq(ChunkAnswer)
      /\ \A k \in DOMAIN Tail(results) :
           k + 1 \in DOMAIN results /\ Tail(results)[k] = results[k + 1]
      /\ \A k \in DOMAIN results \ {1} :
           k - 1 \in DOMAIN Tail(results) /\ Tail(results)[k - 1] = results[k]
  BY <1>1, QueueHead
<1> QED BY <1>2 DEF WholeInv, RowsInPlace

LEMMA AnswersCover ==
  ASSUME feed \in Seq(Seq(AnyFault)), NEW r \in ChunkAnswer, AreAnswers(r.first, r.rows)
  PROVE  /\ Positions(r) \subseteq Place
         /\ \A i \in Positions(r) : /\ feed[i] \notin RaisesOn
                                   /\ i - r.first + 1 \in DOMAIN r.rows
                                   /\ r.rows[i - r.first + 1] = RowOf(feed[i])
<1>1. r.first \in Place /\ r.rows \in Seq(RowsOfFeed) /\ Len(feed) \in Nat
  BY DEF ChunkAnswer
<1>2. ASSUME NEW i \in Positions(r)
      PROVE  /\ i \in Place /\ feed[i] \notin RaisesOn
             /\ i - r.first + 1 \in DOMAIN r.rows
             /\ r.rows[i - r.first + 1] = RowOf(feed[i])
  <2>1. i \in Int /\ r.first \in Int /\ i - r.first + 1 \in DOMAIN r.rows
    BY <1>1 DEF Positions, Place
  <2>2. r.first + (i - r.first + 1) - 1 = i
    BY <2>1
  <2> QED BY <2>1, <2>2 DEF AreAnswers
<1> QED BY <1>2

LEMMA CollectMapKeeps ==
  ASSUME WholeInv, CollectMap PROVE WholeInv'
<1> USE DEF CollectMap, input, processes, toll
<1> DEFINE r == Head(results)
<1>1. /\ r = results[1] /\ 1 \in DOMAIN results /\ r \in ChunkAnswer
      /\ Tail(results) \in Seq(ChunkAnswer) /\ AreAnswers(r.first, r.rows)
      /\ \A k \in DOMAIN Tail(results) :
           k + 1 \in DOMAIN results /\ Tail(results)[k] = results[k + 1]
      /\ \A k \in DOMAIN results \ {1} :
           k - 1 \in DOMAIN Tail(results) /\ Tail(results)[k - 1] = results[k]
  BY FirstResult
<1>2. feed \in Seq(Seq(AnyFault)) /\ received \subseteq Place /\ failed \in BOOLEAN
  BY DEF WholeInv, CampaignTypeOK
<1>3. /\ Positions(r) \subseteq Place
      /\ \A i \in Positions(r) : /\ feed[i] \notin RaisesOn
                                /\ r.rows[i - r.first + 1] = RowOf(feed[i])
  BY <1>1, <1>2, AnswersCover
<1>4. slots = [i \in received |-> RowOf(feed[i])]
  BY DEF WholeInv, RowsInPlace
<1>5. r.ok => /\ received' = received \cup Positions(r) /\ failed' = failed
              /\ slots' = [i \in received' |-> RowOf(feed[i])]
  <2> SUFFICES ASSUME r.ok
               PROVE  /\ received' = received \cup Positions(r) /\ failed' = failed
                      /\ slots' = [i \in received' |-> RowOf(feed[i])]
    OBVIOUS
  <2>1. received' = received \cup Positions(r) /\ failed' = failed
    OBVIOUS
  <2>2. slots' = [i \in DOMAIN slots \cup Positions(r) |->
                    IF i \in Positions(r) THEN r.rows[i - r.first + 1] ELSE slots[i]]
    OBVIOUS
  <2> QED BY <2>1, <2>2, <1>3, <1>4
<1>6. ~r.ok => failed' /\ received' = received /\ slots' = slots
  OBVIOUS
<1>7. received' \subseteq Place /\ failed' \in BOOLEAN
  BY <1>2, <1>3, <1>5, <1>6
<1>8. CampaignTypeOK'
  BY <1>1, <1>7, SameFeed DEF WholeInv, CampaignTypeOK
<1>9. RowsInPlace'
  <2>1. \A k \in DOMAIN results' : AreAnswers(results'[k].first, results'[k].rows)
    BY <1>1 DEF WholeInv, RowsInPlace
  <2>2. \A i \in received' : feed[i] \notin RaisesOn
    BY <1>3, <1>5, <1>6 DEF WholeInv, RowsInPlace
  <2>3. slots' = [i \in received' |-> RowOf(feed'[i])]
    BY <1>4, <1>5, <1>6
  <2> QED BY <2>1, <2>2, <2>3, SameFeed DEF WholeInv, RowsInPlace, AreAnswers
<1>10. Broken' => Broken
  BY <1>1, <1>5, <1>6 DEF Broken
<1>11. ASSUME NEW i \in 1..fed', ~Broken' PROVE Accounted(i)'
  <2>1. r.ok /\ ~failed
    BY <1>2, <1>5, <1>6, <1>11 DEF Broken
  <2>2. ~Broken
    BY <1>1, <1>11, <2>1 DEF Broken
  <2>3. Accounted(i)
    BY <2>2 DEF WholeInv, NoneMissing, Pooled
  <2>4. CASE \E k \in DOMAIN results : i \in Positions(results[k])
    <3>1. PICK k \in DOMAIN results : i \in Positions(results[k])
      BY <2>4
    <3>2. CASE k = 1
      BY <1>1, <1>5, <2>1, <3>1, <3>2 DEF Accounted
    <3>3. CASE k # 1
      BY <1>1, <3>1, <3>3 DEF Accounted, Positions
    <3> QED BY <3>2, <3>3
  <2>5. CASE ~ \E k \in DOMAIN results : i \in Positions(results[k])
    BY <1>5, <2>1, <2>3, <2>5 DEF Accounted
  <2> QED BY <2>4, <2>5
<1>12. driver = "map" /\ arrived' = <<>>
  BY DEF WholeInv, NoneMissing
<1> QED BY <1>8, <1>9, <1>10, <1>11, <1>12, PoolStep DEF WholeInv, NoneMissing

(***************************************************************************)
(* With nothing outstanding, no failure and no death, all is received.     *)
(***************************************************************************)
LEMMA WholeResult ==
  ASSUME WholeInv, calling = "running", NothingOutstanding, arrived = <<>>, ~failed
  PROVE  received = Place
<1> USE DEF NothingOutstanding
<1>1. ~Broken
  BY DEF Broken
<1>2. \A i \in 1..fed : Accounted(i)
  BY <1>1 DEF WholeInv, NoneMissing
<1>3. \A i \in 1..fed : i \in received
  BY <1>2 DEF Accounted
<1> QED BY <1>3 DEF Place, WholeInv, CampaignTypeOK

(***************************************************************************)
(* What imap_unordered makes of a chunk: its rows one by one, or one       *)
(* arrival that raises.                                                    *)
(***************************************************************************)
IsUnpacked(r, new) ==
  /\ ~r.ok => DOMAIN new = {1} /\ new[1].at = 0
  /\ r.ok => /\ DOMAIN new = DOMAIN r.rows
             /\ \A k \in DOMAIN new : /\ new[k].at = r.first + k - 1
                                      /\ new[k].row = r.rows[k]

LEMMA Unpacked ==
  ASSUME WholeInv, CollectStream
  PROVE  \E new \in Seq(Arrival) :
           /\ IsUnpacked(Head(results), new)
           /\ arrived' = arrived \o new /\ arrived' \in Seq(Arrival)
           /\ \A k \in DOMAIN arrived : k \in DOMAIN arrived' /\ arrived'[k] = arrived[k]
           /\ \A k \in DOMAIN new : /\ Len(arrived) + k \in DOMAIN arrived'
                                    /\ arrived'[Len(arrived) + k] = new[k]
           /\ \A k \in DOMAIN arrived' :
                \/ k \in DOMAIN arrived
                \/ k - Len(arrived) \in DOMAIN new /\ arrived'[k] = new[k - Len(arrived)]
<1> DEFINE r == Head(results)
           new == IF r.ok THEN [i \in DOMAIN r.rows |-> [at |-> r.first + i - 1,
                                                        row |-> r.rows[i]]]
                  ELSE <<[at |-> 0]>>
<1>0. /\ Pooled /\ driver = "stream" /\ results # <<>> /\ results' = Tail(results)
      /\ arrived' = arrived \o new
      /\ UNCHANGED <<calling, driver, feed, fed, pipe, worker, failed, slots, tally,
                     received, lost, jammed, deaths>>
  BY DEF CollectStream, input, processes, toll
<1>1. /\ r = results[1] /\ 1 \in DOMAIN results /\ r \in ChunkAnswer
      /\ Tail(results) \in Seq(ChunkAnswer) /\ AreAnswers(r.first, r.rows)
      /\ \A k \in DOMAIN Tail(results) :
           k + 1 \in DOMAIN results /\ Tail(results)[k] = results[k + 1]
      /\ \A k \in DOMAIN results \ {1} :
           k - 1 \in DOMAIN Tail(results) /\ Tail(results)[k - 1] = results[k]
  BY <1>0, FirstResult
<1>2. /\ r.first \in Place /\ r.rows \in Seq(RowsOfFeed) /\ arrived \in Seq(Arrival)
      /\ feed \in Seq(Seq(AnyFault)) /\ r.ok \in BOOLEAN
  BY <1>1 DEF WholeInv, CampaignTypeOK, ChunkAnswer
<1>3. /\ new \in Seq(Arrival)
      /\ IsUnpacked(r, new)
  <2>1. CASE r.ok
    <3>1. \A k \in DOMAIN r.rows : r.first + k - 1 \in Place /\ r.rows[k] \in RowsOfFeed
      BY <1>1, <1>2 DEF AreAnswers
    <3>2. \A k \in DOMAIN r.rows : [at |-> r.first + k - 1, row |-> r.rows[k]] \in Arrival
      BY <3>1 DEF Arrival
    <3>3. new = [k \in 1..Len(r.rows) |-> [at |-> r.first + k - 1, row |-> r.rows[k]]]
      BY <1>2, <2>1
    <3>4. Len(r.rows) \in Nat /\ DOMAIN r.rows = 1..Len(r.rows)
      BY <1>2
    <3>5. new \in Seq(Arrival)
      <4>1. ASSUME NEW S, NEW n \in Nat, NEW f \in [1..n -> S]
            PROVE  f \in Seq(S)
        OBVIOUS
      <4>2. \A k \in 1..Len(r.rows) : new[k] \in Arrival
        BY <3>2, <3>3, <3>4
      <4>3. new = [k \in 1..Len(r.rows) |-> new[k]]
        BY <3>3
      <4> HIDE DEF new
      <4> QED BY <3>4, <4>1, <4>2, <4>3
    <3>6. DOMAIN new = DOMAIN r.rows
      BY <3>3, <3>4
    <3>7. \A k \in DOMAIN new : new[k].at = r.first + k - 1 /\ new[k].row = r.rows[k]
      BY <3>3, <3>4, <3>6
    <3> HIDE DEF new
    <3> QED BY <2>1, <3>5, <3>6, <3>7 DEF IsUnpacked
  <2>2. CASE ~r.ok
    <3>1. [at |-> 0] \in Arrival
      BY DEF Arrival
    <3>2. new = <<[at |-> 0]>>
      BY <2>2
    <3>3. DOMAIN new = {1} /\ new[1].at = 0 /\ new \in Seq(Arrival)
      BY <3>1, <3>2
    <3> HIDE DEF new
    <3> QED BY <2>2, <3>3 DEF IsUnpacked
  <2> QED BY <1>2, <2>1, <2>2
<1> HIDE DEF new
<1>4. /\ arrived' = arrived \o new /\ arrived' \in Seq(Arrival)
      /\ \A k \in DOMAIN arrived : k \in DOMAIN arrived' /\ arrived'[k] = arrived[k]
      /\ \A k \in DOMAIN new : /\ Len(arrived) + k \in DOMAIN arrived'
                               /\ arrived'[Len(arrived) + k] = new[k]
      /\ \A k \in DOMAIN arrived' :
           \/ k \in DOMAIN arrived
           \/ k - Len(arrived) \in DOMAIN new /\ arrived'[k] = new[k - Len(arrived)]
  <2>1. /\ arrived \o new \in Seq(Arrival)
        /\ \A k \in DOMAIN arrived : /\ k \in DOMAIN (arrived \o new)
                                    /\ (arrived \o new)[k] = arrived[k]
        /\ \A k \in DOMAIN new : /\ Len(arrived) + k \in DOMAIN (arrived \o new)
                                 /\ (arrived \o new)[Len(arrived) + k] = new[k]
        /\ \A k \in DOMAIN (arrived \o new) :
             \/ k \in DOMAIN arrived
             \/ /\ k - Len(arrived) \in DOMAIN new
                /\ (arrived \o new)[k] = new[k - Len(arrived)]
    BY <1>2, <1>3, QueueJoin
  <2> QED BY <1>0, <2>1
<1> QED BY <1>3, <1>4

LEMMA CollectStreamKeeps ==
  ASSUME WholeInv, CollectStream PROVE WholeInv'
<1> DEFINE r == Head(results)
<1>0. /\ Pooled /\ driver = "stream" /\ results # <<>> /\ results' = Tail(results)
      /\ UNCHANGED <<calling, driver, feed, fed, pipe, worker, failed, slots, tally,
                     received, lost, jammed, deaths>>
  BY DEF CollectStream, input, processes, toll
<1>1. /\ r = results[1] /\ 1 \in DOMAIN results /\ r \in ChunkAnswer
      /\ Tail(results) \in Seq(ChunkAnswer) /\ AreAnswers(r.first, r.rows)
      /\ \A k \in DOMAIN Tail(results) :
           k + 1 \in DOMAIN results /\ Tail(results)[k] = results[k + 1]
      /\ \A k \in DOMAIN results \ {1} :
           k - 1 \in DOMAIN Tail(results) /\ Tail(results)[k - 1] = results[k]
  BY <1>0, FirstResult
<1>2. /\ r.first \in Place /\ r.rows \in Seq(RowsOfFeed) /\ arrived \in Seq(Arrival)
      /\ feed \in Seq(Seq(AnyFault)) /\ r.ok \in BOOLEAN
  BY <1>1 DEF WholeInv, CampaignTypeOK, ChunkAnswer
<1>4. PICK new \in Seq(Arrival) :
        /\ IsUnpacked(r, new)
        /\ arrived' \in Seq(Arrival)
        /\ \A k \in DOMAIN arrived : k \in DOMAIN arrived' /\ arrived'[k] = arrived[k]
        /\ \A k \in DOMAIN new : /\ Len(arrived) + k \in DOMAIN arrived'
                                 /\ arrived'[Len(arrived) + k] = new[k]
        /\ \A k \in DOMAIN arrived' :
             \/ k \in DOMAIN arrived
             \/ k - Len(arrived) \in DOMAIN new /\ arrived'[k] = new[k - Len(arrived)]
  BY Unpacked
<1>3. /\ ~r.ok => DOMAIN new = {1} /\ new[1].at = 0
      /\ r.ok => /\ DOMAIN new = DOMAIN r.rows
                 /\ \A k \in DOMAIN new : /\ new[k].at = r.first + k - 1
                                          /\ new[k].row = r.rows[k]
  BY <1>4 DEF IsUnpacked
<1>5. CampaignTypeOK'
  BY <1>0, <1>1, <1>4, SameFeed DEF WholeInv, CampaignTypeOK
<1>6. \A k \in DOMAIN new : new[k].at # 0 => /\ feed[new[k].at] \notin RaisesOn
                                           /\ new[k].row = RowOf(feed[new[k].at])
  <2>1. CASE r.ok
    BY <1>1, <1>3, <2>1 DEF AreAnswers
  <2>2. CASE ~r.ok
    BY <1>3, <2>2
  <2> QED BY <2>1, <2>2
<1>7. RowsInPlace'
  <2>1. \A k \in DOMAIN results' : AreAnswers(results'[k].first, results'[k].rows)
    BY <1>0, <1>1, SameFeed DEF WholeInv, RowsInPlace, AreAnswers
  <2>2. \A k \in DOMAIN arrived' :
          arrived'[k].at # 0 => /\ feed[arrived'[k].at] \notin RaisesOn
                                /\ arrived'[k].row = RowOf(feed[arrived'[k].at])
    <3> SUFFICES ASSUME NEW k \in DOMAIN arrived', arrived'[k].at # 0
                 PROVE  /\ feed[arrived'[k].at] \notin RaisesOn
                        /\ arrived'[k].row = RowOf(feed[arrived'[k].at])
      OBVIOUS
    <3>1. CASE k \in DOMAIN arrived
      <4>1. arrived'[k] = arrived[k]
        BY <1>4, <3>1
      <4> QED BY <3>1, <4>1 DEF WholeInv, RowsInPlace
    <3>2. CASE k \notin DOMAIN arrived
      <4>1. k - Len(arrived) \in DOMAIN new /\ arrived'[k] = new[k - Len(arrived)]
        BY <1>4, <3>2
      <4> QED BY <1>6, <4>1
    <3> QED BY <3>1, <3>2
  <2> QED BY <1>0, <2>1, <2>2, SameFeed DEF WholeInv, RowsInPlace, AreAnswers
<1>8. Broken' => Broken
  <2>1. \A k \in DOMAIN new : new[k].at = 0 => ~results[1].ok
    BY <1>1, <1>2, <1>3 DEF Place, AreAnswers
  <2> QED BY <1>0, <1>1, <1>4, <2>1 DEF Broken
<1>9. ASSUME NEW i \in 1..fed', ~Broken' PROVE Accounted(i)'
  <2>1. r.ok
    <3> SUFFICES ASSUME ~r.ok PROVE FALSE
      OBVIOUS
    <3>1. 1 \in DOMAIN new /\ new[1].at = 0
      BY <1>3
    <3>2. Len(arrived) + 1 \in DOMAIN arrived' /\ arrived'[Len(arrived) + 1].at = 0
      BY <1>4, <3>1
    <3> QED BY <1>9, <3>2 DEF Broken
  <2>2. ~Broken
    BY <1>0, <1>1, <1>4, <1>9, <2>1 DEF Broken
  <2>3. Accounted(i)
    BY <1>0, <1>9, <2>2 DEF WholeInv, NoneMissing, Pooled
  <2>4. CASE \E k \in DOMAIN results : i \in Positions(results[k])
    <3>1. PICK k \in DOMAIN results : i \in Positions(results[k])
      BY <2>4
    <3>2. CASE k = 1
      <4>1. i - r.first + 1 \in DOMAIN r.rows /\ i \in Int /\ r.first \in Int
        BY <1>1, <1>2, <3>1, <3>2 DEF Positions, Place
      <4>2. new[i - r.first + 1].at = i
        BY <1>3, <2>1, <4>1
      <4>3. i - r.first + 1 \in DOMAIN new
        BY <1>3, <2>1, <4>1
      <4>4. Len(arrived) + (i - r.first + 1) \in DOMAIN arrived'
        BY <1>4, <4>3
      <4>5. arrived'[Len(arrived) + (i - r.first + 1)].at = i
        BY <1>4, <4>2, <4>3
      <4> QED BY <4>4, <4>5 DEF Accounted
    <3>3. CASE k # 1
      BY <1>0, <1>1, <3>1, <3>3 DEF Accounted, Positions
    <3> QED BY <3>2, <3>3
  <2>5. CASE ~ \E k \in DOMAIN results : i \in Positions(results[k])
    BY <1>0, <1>4, <2>3, <2>5 DEF Accounted
  <2> QED BY <2>4, <2>5
<1>10. driver = "stream" /\ ~failed'
  BY <1>0 DEF WholeInv, NoneMissing
<1> QED BY <1>0, <1>5, <1>7, <1>8, <1>9, <1>10, PoolStep DEF WholeInv, NoneMissing

LEMMA FirstArrival ==
  ASSUME WholeInv, arrived # <<>>
  PROVE  /\ Head(arrived) = arrived[1] /\ 1 \in DOMAIN arrived
         /\ Head(arrived) \in Arrival
         /\ Tail(arrived) \in Seq(Arrival)
         /\ \A k \in DOMAIN Tail(arrived) :
              k + 1 \in DOMAIN arrived /\ Tail(arrived)[k] = arrived[k + 1]
         /\ \A k \in DOMAIN arrived \ {1} :
              k - 1 \in DOMAIN Tail(arrived) /\ Tail(arrived)[k - 1] = arrived[k]
<1>1. arrived \in Seq(Arrival)
  BY DEF WholeInv, CampaignTypeOK
<1> QED BY <1>1, QueueHead

LEMMA IterateKeeps ==
  ASSUME WholeInv, Iterate PROVE WholeInv'
<1> DEFINE a == Head(arrived)
<1>1. /\ Pooled /\ driver = "stream" /\ arrived # <<>> /\ a.at # 0
      /\ received' = received \cup {a.at} /\ arrived' = Tail(arrived)
      /\ UNCHANGED <<calling, driver, feed, fed, pipe, worker, results, failed, slots,
                     lost, jammed, deaths>>
  BY DEF Iterate, input, processes, toll
<1>2. /\ a = arrived[1] /\ 1 \in DOMAIN arrived /\ a \in Arrival
      /\ Tail(arrived) \in Seq(Arrival)
      /\ \A k \in DOMAIN Tail(arrived) :
           k + 1 \in DOMAIN arrived /\ Tail(arrived)[k] = arrived[k + 1]
      /\ \A k \in DOMAIN arrived \ {1} :
           k - 1 \in DOMAIN Tail(arrived) /\ Tail(arrived)[k - 1] = arrived[k]
  BY <1>1, FirstArrival
<1>3. a.at \in Place
  BY <1>1, <1>2 DEF Arrival
<1>4. CampaignTypeOK'
  BY <1>1, <1>2, <1>3, SameFeed DEF WholeInv, CampaignTypeOK
<1>5. RowsInPlace'
  <2>1. \A k \in DOMAIN arrived' :
          arrived'[k].at # 0 => /\ feed[arrived'[k].at] \notin RaisesOn
                                /\ arrived'[k].row = RowOf(feed[arrived'[k].at])
    BY <1>1, <1>2 DEF WholeInv, RowsInPlace
  <2>2. \A i \in received' : feed[i] \notin RaisesOn
    BY <1>1, <1>2 DEF WholeInv, RowsInPlace
  <2> QED BY <1>1, <2>1, <2>2, SameFeed DEF WholeInv, RowsInPlace, AreAnswers
<1>6. Broken' => Broken
  BY <1>1, <1>2 DEF Broken
<1>7. ASSUME NEW i \in 1..fed', ~Broken' PROVE Accounted(i)'
  <2>1. ~Broken
    <3>1. ~failed /\ (\A k \in DOMAIN results : results[k].ok)
      BY <1>1, <1>7 DEF Broken
    <3>2. ASSUME NEW k \in DOMAIN arrived PROVE arrived[k].at # 0
      <4>1. CASE k = 1
        BY <1>1, <1>2, <4>1
      <4>2. CASE k # 1
        <5>1. k - 1 \in DOMAIN arrived' /\ arrived'[k - 1] = arrived[k]
          BY <1>1, <1>2, <4>2
        <5> QED BY <1>7, <5>1 DEF Broken
      <4> QED BY <4>1, <4>2
    <3> QED BY <3>1, <3>2 DEF Broken
  <2>2. Accounted(i)
    BY <1>1, <2>1 DEF WholeInv, NoneMissing, Pooled
  <2>3. CASE \E k \in DOMAIN arrived : arrived[k].at = i
    BY <1>1, <1>2, <2>3 DEF Accounted
  <2>4. CASE ~ \E k \in DOMAIN arrived : arrived[k].at = i
    BY <1>1, <2>2, <2>4 DEF Accounted, Positions
  <2> QED BY <2>3, <2>4
<1>8. ~failed'
  BY <1>1 DEF WholeInv, NoneMissing
<1> QED BY <1>1, <1>4, <1>5, <1>6, <1>7, <1>8, PoolStep DEF WholeInv, NoneMissing

-----------------------------------------------------------------------------
(***************************************************************************)
(* A call returns only with the whole result, and raises only if one of    *)
(* its fault sets does.                                                    *)
(***************************************************************************)
EndsWell == /\ (calling = "running" /\ calling' = "returned") => received = Place
            /\ (calling = "running" /\ calling' = "raised") => received # Place

LEMMA FinishMapEnds ==
  ASSUME WholeInv, FinishMap PROVE WholeInv' /\ EndsWell
<1> USE DEF FinishMap, Pooled
<1>1. arrived = <<>>
  BY DEF WholeInv, NoneMissing
<1>2. ~failed => received = Place
  BY <1>1, WholeResult
<1>3. failed => received # Place
  BY DEF WholeInv, RowsInPlace, NoneMissing, Broken
<1>4. WholeInv'
  BY <1>2, FinishKeeps
<1> QED BY <1>2, <1>3, <1>4 DEF EndsWell, Finish

LEMMA FinishStreamEnds ==
  ASSUME WholeInv, FinishStream PROVE WholeInv' /\ EndsWell
<1> USE DEF FinishStream, Pooled
<1>1. ~failed
  BY DEF WholeInv, NoneMissing
<1>2. received = Place
  BY <1>1, WholeResult
<1>3. WholeInv'
  BY <1>2, FinishKeeps
<1> QED BY <1>2, <1>3 DEF EndsWell, Finish

LEMMA RaiseStreamEnds ==
  ASSUME WholeInv, RaiseStream PROVE WholeInv' /\ EndsWell
<1> USE DEF RaiseStream, Pooled
<1>1. Broken
  BY FirstArrival DEF Broken
<1>2. received # Place
  BY <1>1 DEF WholeInv, RowsInPlace, NoneMissing
<1>3. WholeInv'
  BY FinishKeeps
<1> QED BY <1>2, <1>3 DEF EndsWell, Finish

LEMMA SerialEnds ==
  ASSUME WholeInv, RaiseSerially \/ ReturnSerially PROVE WholeInv' /\ EndsWell
<1> USE DEF RaiseSerially, ReturnSerially
<1>1. received = 1..fed /\ fed \in Nat /\ Len(feed) \in Nat /\ fed <= Len(feed)
  BY DEF WholeInv, CampaignTypeOK, NoneMissing
<1>2. CASE RaiseSerially
  <2>1. received # Place
    BY <1>1, <1>2 DEF Place
  <2>2. WholeInv'
    BY <1>2, FinishKeeps
  <2> QED BY <1>2, <2>1, <2>2 DEF EndsWell, Finish
<1>3. CASE ReturnSerially
  <2>1. received = Place
    BY <1>1, <1>3 DEF Place
  <2>2. WholeInv'
    BY <1>3, <2>1, FinishKeeps
  <2> QED BY <1>3, <2>1, <2>2 DEF EndsWell, Finish
<1> QED BY <1>2, <1>3

LEMMA GoldenLengthKeeps ==
  ASSUME WholeInv, GoldenLength PROVE WholeInv'
<1> USE DEF GoldenLength, input, processes, answers, toll
<1>1. CampaignTypeOK'
  BY SameFeed DEF WholeInv, CampaignTypeOK
<1>2. RowsInPlace'
  BY SameFeed DEF WholeInv, RowsInPlace, AreAnswers
<1>3. Broken' <=> Broken
  BY DEF Broken
<1>4. \A i \in 1..fed : Accounted(i) => Accounted(i)'
  BY DEF Accounted, Positions
<1>5. NoneMissing'
  BY <1>3, <1>4, SameFeed DEF WholeInv, NoneMissing
<1> QED BY <1>1, <1>2, <1>5 DEF WholeInv

LEMMA StutterKeeps ==
  ASSUME WholeInv, UNCHANGED campaignVars PROVE WholeInv'
<1> USE DEF campaignVars, input, processes, answers, toll
<1>1. CampaignTypeOK'
  BY SameFeed DEF WholeInv, CampaignTypeOK
<1>2. RowsInPlace'
  BY SameFeed DEF WholeInv, RowsInPlace, AreAnswers
<1>3. Broken' <=> Broken
  BY DEF Broken
<1>4. \A i \in 1..fed : Accounted(i) => Accounted(i)'
  BY DEF Accounted, Positions
<1>5. NoneMissing'
  BY <1>3, <1>4, SameFeed DEF WholeInv, NoneMissing
<1> QED BY <1>1, <1>2, <1>5 DEF WholeInv

LEMMA CallerSteps ==
  ASSUME WholeInv, Caller PROVE WholeInv' /\ EndsWell
<1>1. CASE GoldenLength
  BY <1>1, GoldenLengthKeeps DEF GoldenLength, EndsWell
<1>2. CASE RunSerially
  BY <1>2, RunSeriallyKeeps DEF RunSerially, EndsWell
<1>3. CASE RaiseSerially \/ ReturnSerially
  BY <1>3, SerialEnds
<1>4. CASE FeedChunk
  BY <1>4, FeedChunkKeeps DEF FeedChunk, EndsWell
<1>5. CASE CollectMap
  BY <1>5, CollectMapKeeps DEF CollectMap, EndsWell
<1>6. CASE FinishMap
  BY <1>6, FinishMapEnds
<1>7. CASE CollectStream
  BY <1>7, CollectStreamKeeps DEF CollectStream, EndsWell
<1>8. CASE Iterate
  BY <1>8, IterateKeeps DEF Iterate, EndsWell
<1>9. CASE RaiseStream
  BY <1>9, RaiseStreamEnds
<1>10. CASE FinishStream
  BY <1>10, FinishStreamEnds
<1> QED BY <1>1, <1>2, <1>3, <1>4, <1>5, <1>6, <1>7, <1>8, <1>9, <1>10 DEF Caller

LEMMA WorkerSteps ==
  ASSUME WholeInv, NEW w \in Worker, WorkerStep(w) \/ Die(w)
  PROVE  WholeInv' /\ UNCHANGED <<calling, feed, received>>
<1>1. CASE InitWorker(w)
  BY <1>1, InitWorkerKeeps DEF InitWorker, input, answers
<1>2. CASE Take(w)
  BY <1>2, TakeKeeps DEF Take, input, answers
<1>3. CASE RunOne(w)
  BY <1>3, RunOneKeeps DEF RunOne, input, answers
<1>4. CASE PutChunk(w)
  BY <1>4, PutChunkKeeps DEF PutChunk, input, answers
<1>5. CASE Die(w)
  BY <1>5, DieKeeps DEF Die, input, answers
<1> QED BY <1>1, <1>2, <1>3, <1>4, <1>5 DEF WorkerStep

LEMMA InvStep ==
  ASSUME WholeInv, [AnyCall \/ CampaignNext]_campaignVars PROVE WholeInv'
  BY CallKeeps, CallerSteps, WorkerSteps, StutterKeeps DEF CampaignNext

-----------------------------------------------------------------------------
(***************************************************************************)
(* Nothing is held twice.                                                  *)
(***************************************************************************)
Tagged(P, W, R, A, C) ==
  ({"pipe"} \X P) \cup ({"worker"} \X W) \cup ({"results"} \X R)
    \cup ({"arrived"} \X A) \cup ({"received"} \X C)

Alone(S) == \A x, y \in S : x = y

Apart(P, W, R, A, C) ==
  /\ Alone(P) /\ Alone(W) /\ Alone(R) /\ Alone(A) /\ Alone(C)
  /\ P # {} => W = {} /\ R = {} /\ A = {} /\ C = {}
  /\ W # {} => R = {} /\ A = {} /\ C = {}
  /\ R # {} => A = {} /\ C = {}
  /\ A # {} => C = {}

LEMMA TaggedApart ==
  ASSUME NEW P, NEW W, NEW R, NEW A, NEW C
  PROVE  /\ (\A a, b \in Tagged(P, W, R, A, C) : a = b) <=> Apart(P, W, R, A, C)
         /\ Tagged(P, W, R, A, C) = {} <=> P \cup W \cup R \cup A \cup C = {}
<1> DEFINE T == Tagged(P, W, R, A, C)
<1>1. \A x : /\ x \in P => <<"pipe", x>> \in T
             /\ x \in W => <<"worker", x>> \in T
             /\ x \in R => <<"results", x>> \in T
             /\ x \in A => <<"arrived", x>> \in T
             /\ x \in C => <<"received", x>> \in T
  BY DEF Tagged
<1>2. \A t \in T : \/ \E x \in P : t = <<"pipe", x>>
                   \/ \E x \in W : t = <<"worker", x>>
                   \/ \E x \in R : t = <<"results", x>>
                   \/ \E x \in A : t = <<"arrived", x>>
                   \/ \E x \in C : t = <<"received", x>>
  BY DEF Tagged
<1> HIDE DEF T
<1>3. ASSUME \A a, b \in T : a = b PROVE Apart(P, W, R, A, C)
  <2>2. Alone(P) /\ Alone(W) /\ Alone(R) /\ Alone(A) /\ Alone(C)
    <3>1. ASSUME NEW x \in P, NEW y \in P PROVE x = y
      <4>1. <<"pipe", x>> = <<"pipe", y>>
        BY <1>1, <1>3
      <4> QED BY <4>1
    <3>2. ASSUME NEW x \in W, NEW y \in W PROVE x = y
      <4>1. <<"worker", x>> = <<"worker", y>>
        BY <1>1, <1>3
      <4> QED BY <4>1
    <3>3. ASSUME NEW x \in R, NEW y \in R PROVE x = y
      <4>1. <<"results", x>> = <<"results", y>>
        BY <1>1, <1>3
      <4> QED BY <4>1
    <3>4. ASSUME NEW x \in A, NEW y \in A PROVE x = y
      <4>1. <<"arrived", x>> = <<"arrived", y>>
        BY <1>1, <1>3
      <4> QED BY <4>1
    <3>5. ASSUME NEW x \in C, NEW y \in C PROVE x = y
      <4>1. <<"received", x>> = <<"received", y>>
        BY <1>1, <1>3
      <4> QED BY <4>1
    <3> QED BY <3>1, <3>2, <3>3, <3>4, <3>5 DEF Alone
  <2>3. /\ P # {} => W = {} /\ R = {} /\ A = {} /\ C = {}
        /\ W # {} => R = {} /\ A = {} /\ C = {}
        /\ R # {} => A = {} /\ C = {}
        /\ A # {} => C = {}
    <3>1. ASSUME NEW x \in P, NEW y \in W PROVE FALSE
      <4>1. <<"pipe", x>> = <<"worker", y>>
        BY <1>1, <1>3
      <4> QED BY <4>1
    <3>2. ASSUME NEW x \in P, NEW y \in R PROVE FALSE
      <4>1. <<"pipe", x>> = <<"results", y>>
        BY <1>1, <1>3
      <4> QED BY <4>1
    <3>3. ASSUME NEW x \in P, NEW y \in A PROVE FALSE
      <4>1. <<"pipe", x>> = <<"arrived", y>>
        BY <1>1, <1>3
      <4> QED BY <4>1
    <3>4. ASSUME NEW x \in P, NEW y \in C PROVE FALSE
      <4>1. <<"pipe", x>> = <<"received", y>>
        BY <1>1, <1>3
      <4> QED BY <4>1
    <3>5. ASSUME NEW x \in W, NEW y \in R PROVE FALSE
      <4>1. <<"worker", x>> = <<"results", y>>
        BY <1>1, <1>3
      <4> QED BY <4>1
    <3>6. ASSUME NEW x \in W, NEW y \in A PROVE FALSE
      <4>1. <<"worker", x>> = <<"arrived", y>>
        BY <1>1, <1>3
      <4> QED BY <4>1
    <3>7. ASSUME NEW x \in W, NEW y \in C PROVE FALSE
      <4>1. <<"worker", x>> = <<"received", y>>
        BY <1>1, <1>3
      <4> QED BY <4>1
    <3>8. ASSUME NEW x \in R, NEW y \in A PROVE FALSE
      <4>1. <<"results", x>> = <<"arrived", y>>
        BY <1>1, <1>3
      <4> QED BY <4>1
    <3>9. ASSUME NEW x \in R, NEW y \in C PROVE FALSE
      <4>1. <<"results", x>> = <<"received", y>>
        BY <1>1, <1>3
      <4> QED BY <4>1
    <3>10. ASSUME NEW x \in A, NEW y \in C PROVE FALSE
      <4>1. <<"arrived", x>> = <<"received", y>>
        BY <1>1, <1>3
      <4> QED BY <4>1
    <3> QED BY <3>1, <3>2, <3>3, <3>4, <3>5, <3>6, <3>7, <3>8, <3>9, <3>10
  <2> QED BY <2>2, <2>3 DEF Apart
<1>4. ASSUME Apart(P, W, R, A, C), NEW a \in T, NEW b \in T PROVE a = b
  <2>1. CASE P # {}
    BY <1>2, <1>4, <2>1 DEF Apart, Alone
  <2>2. CASE P = {} /\ W # {}
    BY <1>2, <1>4, <2>2 DEF Apart, Alone
  <2>3. CASE P = {} /\ W = {} /\ R # {}
    BY <1>2, <1>4, <2>3 DEF Apart, Alone
  <2>4. CASE P = {} /\ W = {} /\ R = {}
    BY <1>2, <1>4, <2>4 DEF Apart, Alone
  <2> QED BY <2>1, <2>2, <2>3, <2>4
<1>5. T = {} <=> P \cup W \cup R \cup A \cup C = {}
  BY <1>1, <1>2
<1> QED BY <1>3, <1>4, <1>5 DEF T

(***************************************************************************)
(* HeldOnce, place by place.                                               *)
(***************************************************************************)
HeldAt(i, P, W, R, A, C, f) ==
  /\ Apart(P, W, R, A, C)
  /\ i > f => P = {} /\ W = {} /\ R = {} /\ A = {} /\ C = {}

HeldApart ==
  \A i \in Place : HeldAt(i, InPipe(i), InWorker(i), InResults(i), InArrived(i),
                          received \cap {i}, fed)

LEMMA HeldOnceAt == HeldOnce <=> HeldApart
<1>1. ASSUME NEW i \in Place
      PROVE  ((\A a, b \in Holders(i) : a = b) /\ (i > fed => Holders(i) = {}))
               <=> HeldAt(i, InPipe(i), InWorker(i), InResults(i),
                          InArrived(i), received \cap {i}, fed)
  <2>1. Holders(i) = Tagged(InPipe(i), InWorker(i), InResults(i), InArrived(i),
                            received \cap {i})
    BY DEF Holders, Tagged
  <2>2. /\ (\A a, b \in Holders(i) : a = b)
             <=> Apart(InPipe(i), InWorker(i), InResults(i), InArrived(i),
                       received \cap {i})
        /\ Holders(i) = {} <=> InPipe(i) \cup InWorker(i) \cup InResults(i)
                                 \cup InArrived(i) \cup (received \cap {i}) = {}
    BY <2>1, TaggedApart
  <2>3. (InPipe(i) \cup InWorker(i) \cup InResults(i) \cup InArrived(i)
           \cup (received \cap {i}) = {})
        <=> /\ InPipe(i) = {} /\ InWorker(i) = {} /\ InResults(i) = {}
            /\ InArrived(i) = {} /\ received \cap {i} = {}
    OBVIOUS
  <2> QED BY <2>2, <2>3 DEF HeldAt
<1> QED BY <1>1 DEF HeldOnce, HeldApart

LEMMA HeldNext ==
  ASSUME feed' = feed,
         \A i \in Place : HeldAt(i, InPipe(i)', InWorker(i)', InResults(i)',
                                 InArrived(i)', received' \cap {i}, fed')
  PROVE  HeldOnce'
<1>1. HeldApart'
  BY SameFeed DEF HeldApart
<1> QED BY <1>1, HeldOnceAt, PTL

LEMMA HeldNow ==
  ASSUME HeldOnce, NEW i \in Place
  PROVE  HeldAt(i, InPipe(i), InWorker(i), InResults(i), InArrived(i),
                received \cap {i}, fed)
  BY HeldOnceAt DEF HeldApart

LEMMA HeldStart == CampaignInit => HeldOnce
  BY DEF CampaignInit, HeldOnce, Place

LEMMA HeldFed ==
  ASSUME WholeInv, HeldOnce, GoldenLength \/ UNCHANGED campaignVars PROVE HeldOnce'
<1>1. UNCHANGED <<feed, fed, pipe, worker, results, arrived, received>>
  BY DEF GoldenLength, campaignVars, input, processes, answers
<1> QED BY <1>1, SameFeed, HeldNow, HeldNext
        DEF InPipe, InWorker, InResults, InArrived, Positions

LEMMA HeldCall ==
  ASSUME AnyCall PROVE HeldOnce'
<1>1. AtRest' /\ received' = {}
  BY DEF AnyCall, Call, AtRest
<1>2. \A i : InPipe(i)' = {} /\ InWorker(i)' = {} /\ InResults(i)' = {} /\ InArrived(i)' = {}
  BY <1>1 DEF AtRest, InPipe, InWorker, InResults, InArrived, Starting
<1>3. \A i \in Place' : HeldAt(i, InPipe(i)', InWorker(i)', InResults(i)',
                               InArrived(i)', received' \cap {i}, fed')
  BY <1>1, <1>2 DEF HeldAt, Apart, Alone
<1>4. HeldApart'
  BY <1>3 DEF HeldApart
<1> QED BY <1>4, HeldOnceAt, PTL

LEMMA HeldFinish ==
  ASSUME HeldOnce, NEW how, Finish(how) PROVE HeldOnce'
<1>1. AtRest' /\ UNCHANGED <<feed, fed, received>>
  BY DEF Finish, AtRest, input
<1>2. \A i : InPipe(i)' = {} /\ InWorker(i)' = {} /\ InResults(i)' = {} /\ InArrived(i)' = {}
  BY <1>1 DEF AtRest, InPipe, InWorker, InResults, InArrived, Starting
<1> QED BY <1>1, <1>2, HeldNow, HeldNext DEF HeldAt, Apart, Alone

LEMMA HeldRunSerially ==
  ASSUME WholeInv, HeldOnce, RunSerially PROVE HeldOnce'
<1>1. /\ UNCHANGED <<feed, pipe, worker, results, arrived>>
      /\ fed' = fed + 1 /\ received' = received \cup {fed + 1} /\ fed \in Nat
  BY DEF RunSerially, input, WholeInv, CampaignTypeOK
<1>2. \A i : /\ InPipe(i)' = InPipe(i) /\ InWorker(i)' = InWorker(i)
             /\ InResults(i)' = InResults(i) /\ InArrived(i)' = InArrived(i)
  BY <1>1 DEF InPipe, InWorker, InResults, InArrived, Positions
<1>3. ASSUME NEW i \in Place
      PROVE  HeldAt(i, InPipe(i)', InWorker(i)', InResults(i)', InArrived(i)',
                    received' \cap {i}, fed')
  <2>1. i \in Nat
    BY DEF Place
  <2>2. CASE i = fed + 1
    BY <1>1, <1>2, <2>1, <2>2, HeldNow DEF HeldAt, Apart, Alone
  <2>3. CASE i # fed + 1
    <3>1. received' \cap {i} = received \cap {i} /\ (i > fed' => i > fed)
      BY <1>1, <2>1, <2>3
    <3> QED BY <1>2, <3>1, HeldNow DEF HeldAt
  <2> QED BY <2>2, <2>3
<1> QED BY <1>1, <1>3, HeldNext

LEMMA HeldFeedChunk ==
  ASSUME WholeInv, HeldOnce, FeedChunk PROVE HeldOnce'
<1> DEFINE chunk == [first |-> fed + 1, last |-> fed']
           n == Len(pipe)
<1>1. /\ UNCHANGED <<feed, worker, results, arrived, received>>
      /\ pipe' = Append(pipe, chunk)
  BY DEF FeedChunk, input, answers
<1>2. /\ fed \in Nat /\ Len(feed) \in Nat /\ fed < Len(feed) /\ ChunkSize \in Nat
      /\ ChunkSize > 0 /\ pipe \in Seq(Chunk)
  BY CampaignAssumption DEF WholeInv, CampaignTypeOK, FeedChunk
<1>3. fed' \in {fed + ChunkSize, Len(feed)}
  <2>1. fed + ChunkSize \in Int /\ Len(feed) \in Int
    BY <1>2
  <2>2. fed' = Min({fed + ChunkSize, Len(feed)})
    BY DEF FeedChunk
  <2> QED BY <2>1, <2>2, MinOfTwo
<1>4. fed' \in Nat /\ fed < fed'
  BY <1>2, <1>3
<1>5. /\ DOMAIN pipe' = DOMAIN pipe \cup {n + 1} /\ n + 1 \notin DOMAIN pipe
      /\ \A k \in DOMAIN pipe : pipe'[k] = pipe[k]
      /\ pipe'[n + 1] = chunk
  BY <1>1, <1>2
<1>6. \A i : InPipe(i)' = InPipe(i) \cup (IF i \in (fed + 1)..fed' THEN {n + 1} ELSE {})
  BY <1>5 DEF InPipe
<1>7. \A i : /\ InWorker(i)' = InWorker(i)
             /\ InResults(i)' = InResults(i) /\ InArrived(i)' = InArrived(i)
  BY <1>1 DEF InWorker, InResults, InArrived, Positions
<1>8. ASSUME NEW i \in Place
      PROVE  HeldAt(i, InPipe(i)', InWorker(i)', InResults(i)', InArrived(i)',
                    received' \cap {i}, fed')
  <2>1. i \in Nat
    BY DEF Place
  <2>2. CASE i \in (fed + 1)..fed'
    <3>1. i > fed /\ ~(i > fed') /\ InPipe(i)' = InPipe(i) \cup {n + 1}
      BY <1>2, <1>4, <1>6, <2>1, <2>2
    <3> QED BY <1>1, <1>7, <3>1, HeldNow DEF HeldAt, Apart, Alone
  <2>3. CASE i \notin (fed + 1)..fed'
    <3>1. InPipe(i)' = InPipe(i) /\ (i > fed' => i > fed)
      <4>1. InPipe(i)' = InPipe(i)
        BY <1>6, <2>3
      <4>2. i > fed' => i > fed
        BY <1>2, <1>4, <2>1
      <4> QED BY <4>1, <4>2
    <3> QED BY <1>1, <1>7, <3>1, HeldNow DEF HeldAt
  <2> QED BY <2>2, <2>3
<1> QED BY <1>1, <1>8, HeldNext

(***************************************************************************)
(* A worker that is not busy afterwards holds nothing any more.            *)
(***************************************************************************)
LEMMA Leaves ==
  ASSUME WholeInv, NEW w \in Worker, worker' = [worker EXCEPT ![w] = Ready]
                                     \/ worker' = [worker EXCEPT ![w] = Starting]
  PROVE  \A i : InWorker(i)' = InWorker(i) \ {w}
<1>1. worker'[w].at # "busy" /\ \A x \in Worker \ {w} : worker'[x] = worker[x]
  BY DEF WholeInv, CampaignTypeOK, Ready, Starting
<1> QED BY <1>1 DEF InWorker

LEMMA HeldFewer ==
  ASSUME HeldOnce, UNCHANGED <<feed, fed>>,
         \A i : /\ InPipe(i)' \subseteq InPipe(i) /\ InWorker(i)' \subseteq InWorker(i)
                /\ InResults(i)' \subseteq InResults(i)
                /\ InArrived(i)' \subseteq InArrived(i),
         received' \subseteq received
  PROVE  HeldOnce'
<1>1. ASSUME NEW i \in Place
      PROVE  HeldAt(i, InPipe(i)', InWorker(i)', InResults(i)', InArrived(i)',
                    received' \cap {i}, fed')
  <2>1. ASSUME NEW P, NEW W, NEW R, NEW A, NEW C, NEW P1, NEW W1, NEW R1, NEW A1, NEW C1,
               P1 \subseteq P, W1 \subseteq W, R1 \subseteq R, A1 \subseteq A,
               C1 \subseteq C, HeldAt(i, P, W, R, A, C, fed)
        PROVE  HeldAt(i, P1, W1, R1, A1, C1, fed)
    BY <2>1 DEF HeldAt, Apart, Alone
  <2>2. received' \cap {i} \subseteq received \cap {i}
    OBVIOUS
  <2>3. HeldAt(i, InPipe(i), InWorker(i), InResults(i), InArrived(i), received \cap {i}, fed)
    BY HeldNow
  <2>4. HeldAt(i, InPipe(i)', InWorker(i)', InResults(i)', InArrived(i)',
               received' \cap {i}, fed)
    BY <2>1, <2>2, <2>3
  <2> QED BY <2>4
<1> QED BY <1>1, HeldNext

LEMMA HeldInitWorker ==
  ASSUME WholeInv, HeldOnce, NEW w \in Worker, InitWorker(w) \/ Die(w) PROVE HeldOnce'
<1>1. /\ UNCHANGED <<feed, fed, pipe, results, arrived, received>>
      /\ worker' = [worker EXCEPT ![w] = Ready] \/ worker' = [worker EXCEPT ![w] = Starting]
  BY DEF InitWorker, Die, input, answers
<1>2. \A i : InWorker(i)' = InWorker(i) \ {w}
  BY <1>1, Leaves
<1>3. \A i : /\ InPipe(i)' = InPipe(i) /\ InResults(i)' = InResults(i)
             /\ InArrived(i)' = InArrived(i)
  BY <1>1 DEF InPipe, InResults, InArrived, Positions
<1> QED BY <1>1, <1>2, <1>3, HeldFewer

LEMMA HeldTake ==
  ASSUME WholeInv, HeldOnce, NEW w \in Worker, Take(w) PROVE HeldOnce'
<1> DEFINE first == Head(pipe)
<1>1. /\ UNCHANGED <<feed, fed, results, arrived, received>>
      /\ pipe' = Tail(pipe) /\ pipe # <<>> /\ pipe \in Seq(Chunk)
      /\ worker[w].at # "busy"
      /\ worker' = [worker EXCEPT ![w] = [at |-> "busy", chunk |-> first, rows |-> <<>>]]
      /\ worker \in [Worker -> WorkerState]
  BY DEF Take, input, answers, WholeInv, CampaignTypeOK, Ready
<1>2. /\ worker'[w].at = "busy" /\ worker'[w].chunk = first
      /\ \A x \in Worker \ {w} : worker'[x] = worker[x]
  BY <1>1
<1>3. /\ 1 \in DOMAIN pipe /\ first = pipe[1]
      /\ \A k \in DOMAIN Tail(pipe) : k + 1 \in DOMAIN pipe /\ Tail(pipe)[k] = pipe[k + 1]
  BY <1>1, QueueHead
<1>4. \A k \in DOMAIN Tail(pipe) : k \in Nat /\ k + 1 # 1
  BY <1>1
<1>5. ASSUME NEW i
      PROVE  /\ 1 \in InPipe(i) => InWorker(i)' = InWorker(i) \cup {w}
             /\ 1 \notin InPipe(i) => InWorker(i)' = InWorker(i)
             /\ \A k \in InPipe(i)' : k + 1 \in InPipe(i) /\ k \in Nat /\ k + 1 # 1
  BY <1>1, <1>2, <1>3, <1>4 DEF InPipe, InWorker
<1>6. \A i : InResults(i)' = InResults(i) /\ InArrived(i)' = InArrived(i)
  BY <1>1 DEF InResults, InArrived, Positions
<1>7. ASSUME NEW i \in Place
      PROVE  HeldAt(i, InPipe(i)', InWorker(i)', InResults(i)', InArrived(i)',
                    received' \cap {i}, fed')
  <2>1. HeldAt(i, InPipe(i), InWorker(i), InResults(i), InArrived(i), received \cap {i}, fed)
    BY HeldNow
  <2>2. Alone(InPipe(i)')
    <3>1. ASSUME NEW k \in InPipe(i)', NEW j \in InPipe(i)' PROVE k = j
      <4>1. k + 1 = j + 1 /\ k \in Nat /\ j \in Nat
        BY <1>5, <2>1 DEF HeldAt, Apart, Alone
      <4> QED BY <4>1
    <3> QED BY <3>1 DEF Alone
  <2>3. CASE 1 \in InPipe(i)
    <3>1. InPipe(i)' = {}
      BY <1>5, <2>1, <2>3 DEF HeldAt, Apart, Alone
    <3> QED BY <1>1, <1>5, <1>6, <2>1, <2>3, <3>1 DEF HeldAt, Apart, Alone
  <2>4. CASE 1 \notin InPipe(i)
    <3>1. InPipe(i)' # {} => InPipe(i) # {}
      BY <1>5
    <3> QED BY <1>1, <1>5, <1>6, <2>1, <2>2, <2>4, <3>1 DEF HeldAt, Apart
  <2> QED BY <2>3, <2>4
<1> QED BY <1>1, <1>7, HeldNext

LEMMA RowAdded ==
  ASSUME WholeInv, NEW w \in Worker, RunOne(w)
  PROVE  /\ UNCHANGED <<feed, fed, pipe, results, arrived, received>>
         /\ worker'[w].at = "busy" /\ worker[w].at = "busy"
         /\ worker'[w].chunk = worker[w].chunk
         /\ worker'[w].rows = Append(worker[w].rows, RowOf(feed[Current(w)]))
         /\ \A x \in Worker \ {w} : worker'[x] = worker[x]
<1> DEFINE more == Append(worker[w].rows, RowOf(feed[Current(w)]))
<1>1. /\ UNCHANGED <<feed, fed, pipe, results, arrived, received>>
      /\ worker' = [worker EXCEPT ![w].rows = more]
      /\ worker[w].at = "busy" /\ worker \in [Worker -> WorkerState]
  BY DEF RunOne, Busy, input, answers, WholeInv, CampaignTypeOK
<1>2. worker[w] \in [at : {"busy"}, chunk : Chunk, rows : Seq(RowsOfFeed)]
  BY <1>1, BusyWorker DEF WholeInv
<1> HIDE DEF more
<1>3. /\ worker'[w] = [worker[w] EXCEPT !.rows = more]
      /\ \A x \in Worker \ {w} : worker'[x] = worker[x]
  BY <1>1
<1>4. /\ worker'[w].at = "busy" /\ worker'[w].chunk = worker[w].chunk
      /\ worker'[w].rows = more
  BY <1>2, <1>3
<1> QED BY <1>1, <1>3, <1>4 DEF more

LEMMA HeldRunOne ==
  ASSUME WholeInv, HeldOnce, NEW w \in Worker, RunOne(w) PROVE HeldOnce'
<1>1. \A i : /\ InPipe(i)' = InPipe(i) /\ InResults(i)' = InResults(i)
             /\ InArrived(i)' = InArrived(i) /\ InWorker(i)' = InWorker(i)
  BY RowAdded DEF InPipe, InWorker, InResults, InArrived, Positions
<1> QED BY <1>1, RowAdded, HeldFewer

LEMMA HeldPutChunk ==
  ASSUME WholeInv, ChunksFit, HeldOnce, NEW w \in Worker, PutChunk(w) PROVE HeldOnce'
<1> DEFINE first == worker[w].chunk.first
           last == worker[w].chunk.last
           rows == worker[w].rows
           answer == [first |-> first, rows |-> rows, ok |-> ChunkDone(w)]
           n == Len(results)
<1>1. /\ UNCHANGED <<feed, fed, pipe, arrived, received>>
      /\ worker' = [worker EXCEPT ![w] = Ready] /\ results' = Append(results, answer)
      /\ worker[w].at = "busy" /\ results \in Seq(ChunkAnswer)
  BY DEF PutChunk, Busy, input, answers, WholeInv, CampaignTypeOK
<1>2. first \in Nat /\ last \in Nat /\ Len(rows) \in Nat
  <2>1. first \in Place /\ last \in Place /\ rows \in Seq(RowsOfFeed)
    BY <1>1, BusyWorker DEF WholeInv
  <2> QED BY <2>1 DEF Place
<1>3. first + Len(rows) <= last + 1
  BY <1>1 DEF ChunksFit, Current
<1>4. Positions(answer) \subseteq first..last
  <2>1. Positions(answer) = first..(first + Len(rows) - 1)
    BY DEF Positions
  <2> HIDE DEF first, last, rows, answer
  <2> QED BY <1>2, <1>3, <2>1
<1>5. \A i : InWorker(i)' = InWorker(i) \ {w}
  BY <1>1, Leaves
<1>6. /\ DOMAIN results' = DOMAIN results \cup {n + 1} /\ n + 1 \notin DOMAIN results
      /\ \A k \in DOMAIN results : results'[k] = results[k]
      /\ results'[n + 1] = answer
  <2> HIDE DEF answer
  <2> QED BY <1>1
<1>7. ASSUME NEW i
      PROVE  /\ i \in first..last => w \in InWorker(i)
             /\ i \in first..last => InResults(i)' \subseteq InResults(i) \cup {n + 1}
             /\ i \notin first..last => InResults(i)' \subseteq InResults(i)
             /\ InPipe(i)' = InPipe(i) /\ InArrived(i)' = InArrived(i)
  <2>1. i \in first..last => w \in InWorker(i)
    BY <1>1 DEF InWorker
  <2>2. InResults(i)' \subseteq InResults(i) \cup {n + 1}
    BY <1>6 DEF InResults, Positions
  <2>3. n + 1 \in InResults(i)' => i \in first..last
    <3>1. n + 1 \in InResults(i)' => i \in Positions(results'[n + 1])
      BY DEF InResults, Positions
    <3> QED BY <1>4, <1>6, <3>1
  <2>4. InPipe(i)' = InPipe(i) /\ InArrived(i)' = InArrived(i)
    BY <1>1 DEF InPipe, InArrived
  <2> HIDE DEF first, last, n
  <2> QED BY <2>1, <2>2, <2>3, <2>4
<1>8. ASSUME NEW i \in Place
      PROVE  HeldAt(i, InPipe(i)', InWorker(i)', InResults(i)', InArrived(i)',
                    received' \cap {i}, fed')
  <2>1. HeldAt(i, InPipe(i), InWorker(i), InResults(i), InArrived(i), received \cap {i}, fed)
    BY HeldNow
  <2> HIDE DEF first, last, n
  <2>2. CASE i \in first..last
    <3>1. InWorker(i)' = {} /\ InResults(i) = {} /\ InPipe(i) = {} /\ InArrived(i) = {}
          /\ received \cap {i} = {} /\ ~(i > fed)
      BY <1>5, <1>7, <2>1, <2>2 DEF HeldAt, Apart, Alone
    <3>2. InResults(i)' \subseteq {n + 1}
      BY <1>7, <2>2, <3>1
    <3> QED BY <1>1, <1>7, <3>1, <3>2 DEF HeldAt, Apart, Alone
  <2>3. CASE i \notin first..last
    <3>1. InResults(i)' \subseteq InResults(i) /\ InWorker(i)' \subseteq InWorker(i)
      BY <1>5, <1>7, <2>3
    <3> QED BY <1>1, <1>7, <2>1, <3>1 DEF HeldAt, Apart, Alone
  <2> QED BY <2>2, <2>3
<1> QED BY <1>1, <1>8, HeldNext

LEMMA HeldCollectMap ==
  ASSUME WholeInv, HeldOnce, CollectMap PROVE HeldOnce'
<1> DEFINE r == Head(results)
<1>1. /\ UNCHANGED <<feed, fed, pipe, worker, arrived>>
      /\ results' = Tail(results) /\ results # <<>> /\ results \in Seq(ChunkAnswer)
      /\ r.ok => received' = received \cup Positions(r)
      /\ ~r.ok => received' = received
  BY DEF CollectMap, input, processes, WholeInv, CampaignTypeOK
<1>2. /\ r = results[1]
      /\ \A k \in DOMAIN Tail(results) :
           k + 1 \in DOMAIN results /\ Tail(results)[k] = results[k + 1]
  BY <1>1, QueueHead
<1>3. \A k \in DOMAIN Tail(results) : k \in Nat /\ k + 1 # 1
  BY <1>1
<1> HIDE DEF r
<1>4. ASSUME NEW i
      PROVE  /\ 1 \in InResults(i) <=> i \in Positions(r)
             /\ \A k \in InResults(i)' : k + 1 \in InResults(i) /\ k \in Nat /\ k + 1 # 1
             /\ InPipe(i)' = InPipe(i) /\ InWorker(i)' = InWorker(i)
             /\ InArrived(i)' = InArrived(i)
  <2>1. 1 \in DOMAIN results
    BY <1>1
  <2>2. 1 \in InResults(i) <=> i \in Positions(r)
    BY <1>2, <2>1 DEF InResults
  <2>3. \A k \in InResults(i)' : k + 1 \in InResults(i) /\ k \in Nat /\ k + 1 # 1
    BY <1>1, <1>2, <1>3 DEF InResults, Positions
  <2>4. InPipe(i)' = InPipe(i) /\ InWorker(i)' = InWorker(i) /\ InArrived(i)' = InArrived(i)
    BY <1>1 DEF InPipe, InWorker, InArrived
  <2> QED BY <2>2, <2>3, <2>4
<1>5. ASSUME NEW i \in Place
      PROVE  HeldAt(i, InPipe(i)', InWorker(i)', InResults(i)', InArrived(i)',
                    received' \cap {i}, fed')
  <2>1. HeldAt(i, InPipe(i), InWorker(i), InResults(i), InArrived(i), received \cap {i}, fed)
    BY HeldNow
  <2>2. Alone(InResults(i)')
    <3>1. ASSUME NEW k \in InResults(i)', NEW j \in InResults(i)' PROVE k = j
      <4>1. k + 1 = j + 1 /\ k \in Nat /\ j \in Nat
        BY <1>4, <2>1 DEF HeldAt, Apart, Alone
      <4> QED BY <4>1
    <3> QED BY <3>1 DEF Alone
  <2>3. InResults(i)' # {} => InResults(i) # {} /\ 1 \notin InResults(i)
    BY <1>4, <2>1 DEF HeldAt, Apart, Alone
  <2>4. CASE i \in Positions(r)
    <3>1. InResults(i)' = {} /\ InResults(i) # {} /\ ~(i > fed)
      BY <1>4, <2>1, <2>3, <2>4 DEF HeldAt
    <3>2. InPipe(i) = {} /\ InWorker(i) = {} /\ InArrived(i) = {}
      BY <2>1, <3>1 DEF HeldAt, Apart
    <3> QED BY <1>1, <1>4, <3>1, <3>2 DEF HeldAt, Apart, Alone
  <2>5. CASE i \notin Positions(r)
    <3>1. received' \cap {i} = received \cap {i}
      BY <1>1, <2>5
    <3> QED BY <1>1, <1>4, <2>1, <2>2, <2>3, <3>1 DEF HeldAt, Apart
  <2> QED BY <2>4, <2>5
<1> QED BY <1>1, <1>5, HeldNext

LEMMA HeldIterate ==
  ASSUME WholeInv, HeldOnce, Iterate
  PROVE  HeldOnce' /\ Head(arrived).at \in Place \ received
<1> DEFINE a == Head(arrived).at
<1>1. /\ UNCHANGED <<feed, fed, pipe, worker, results>>
      /\ arrived' = Tail(arrived) /\ arrived # <<>> /\ arrived \in Seq(Arrival)
      /\ received' = received \cup {a} /\ a # 0
  BY DEF Iterate, input, processes, WholeInv, CampaignTypeOK
<1>2. /\ Head(arrived) = arrived[1] /\ Head(arrived) \in Arrival
      /\ \A k \in DOMAIN Tail(arrived) :
           k + 1 \in DOMAIN arrived /\ Tail(arrived)[k] = arrived[k + 1]
  BY <1>1, QueueHead
<1>3. \A k \in DOMAIN Tail(arrived) : k \in Nat /\ k + 1 # 1
  BY <1>1
<1>4. a \in Place
  BY <1>1, <1>2 DEF Arrival
<1>5. ASSUME NEW i
      PROVE  /\ 1 \in InArrived(i) <=> i = a
             /\ \A k \in InArrived(i)' : k + 1 \in InArrived(i) /\ k \in Nat /\ k + 1 # 1
             /\ InPipe(i)' = InPipe(i) /\ InWorker(i)' = InWorker(i)
             /\ InResults(i)' = InResults(i)
  <2>1. 1 \in DOMAIN arrived
    BY <1>1
  <2>2. 1 \in InArrived(i) <=> i = a
    BY <1>2, <2>1 DEF InArrived
  <2>3. \A k \in InArrived(i)' : k + 1 \in InArrived(i) /\ k \in Nat /\ k + 1 # 1
    BY <1>1, <1>2, <1>3 DEF InArrived
  <2>4. InPipe(i)' = InPipe(i) /\ InWorker(i)' = InWorker(i) /\ InResults(i)' = InResults(i)
    BY <1>1 DEF InPipe, InWorker, InResults, Positions
  <2> QED BY <2>2, <2>3, <2>4
<1> HIDE DEF a
<1>6. ASSUME NEW i \in Place
      PROVE  HeldAt(i, InPipe(i)', InWorker(i)', InResults(i)', InArrived(i)',
                    received' \cap {i}, fed')
  <2>1. HeldAt(i, InPipe(i), InWorker(i), InResults(i), InArrived(i), received \cap {i}, fed)
    BY HeldNow
  <2>2. Alone(InArrived(i)')
    <3>1. ASSUME NEW k \in InArrived(i)', NEW j \in InArrived(i)' PROVE k = j
      <4>1. k + 1 = j + 1 /\ k \in Nat /\ j \in Nat
        BY <1>5, <2>1 DEF HeldAt, Apart, Alone
      <4> QED BY <4>1
    <3> QED BY <3>1 DEF Alone
  <2>3. InArrived(i)' # {} => InArrived(i) # {} /\ 1 \notin InArrived(i)
    BY <1>5, <2>1 DEF HeldAt, Apart, Alone
  <2>4. CASE i = a
    <3>1. InArrived(i)' = {} /\ InArrived(i) # {} /\ ~(i > fed)
      BY <1>5, <2>1, <2>3, <2>4 DEF HeldAt
    <3>2. InPipe(i) = {} /\ InWorker(i) = {} /\ InResults(i) = {}
      BY <2>1, <3>1 DEF HeldAt, Apart
    <3> QED BY <1>1, <1>5, <3>1, <3>2 DEF HeldAt, Apart, Alone
  <2>5. CASE i # a
    <3>1. received' \cap {i} = received \cap {i}
      BY <1>1, <2>5
    <3> QED BY <1>1, <1>5, <2>1, <2>2, <2>3, <3>1 DEF HeldAt, Apart
  <2> QED BY <2>4, <2>5
<1>7. a \notin received
  <2>1. HeldAt(a, InPipe(a), InWorker(a), InResults(a), InArrived(a), received \cap {a}, fed)
    BY <1>4, HeldNow
  <2>2. InArrived(a) # {}
    BY <1>5
  <2> QED BY <2>1, <2>2 DEF HeldAt, Apart
<1> QED BY <1>1, <1>4, <1>6, <1>7, HeldNext DEF a

(***************************************************************************)
(* Rows of a chunk take places that its answer held and nothing else.      *)
(***************************************************************************)
LEMMA HeldCollectStream ==
  ASSUME WholeInv, HeldOnce, CollectStream PROVE HeldOnce'
<1> DEFINE r == Head(results)
           n == Len(arrived)
<1>1. /\ UNCHANGED <<feed, fed, pipe, worker, received>>
      /\ results' = Tail(results) /\ results # <<>> /\ results \in Seq(ChunkAnswer)
      /\ arrived \in Seq(Arrival)
  BY DEF CollectStream, input, processes, WholeInv, CampaignTypeOK
<1>2. /\ r = results[1] /\ 1 \in DOMAIN results /\ r \in ChunkAnswer
      /\ \A k \in DOMAIN Tail(results) :
           k + 1 \in DOMAIN results /\ Tail(results)[k] = results[k + 1]
  BY <1>1, QueueHead
<1>3. r.first \in Place /\ r.rows \in Seq(RowsOfFeed)
  BY <1>2 DEF ChunkAnswer
<1>4. PICK new \in Seq(Arrival) :
        /\ IsUnpacked(r, new)
        /\ \A k \in DOMAIN arrived : k \in DOMAIN arrived' /\ arrived'[k] = arrived[k]
        /\ \A k \in DOMAIN arrived' :
             \/ k \in DOMAIN arrived
             \/ k - n \in DOMAIN new /\ arrived'[k] = new[k - n]
        /\ arrived' \in Seq(Arrival)
  BY Unpacked
<1>5. \A k \in DOMAIN Tail(results) : k \in Nat /\ k + 1 # 1
  BY <1>1
<1>6. n \in Nat /\ r.first \in Nat /\ Len(r.rows) \in Nat
  BY <1>1, <1>3 DEF Place
<1> HIDE DEF r, n
<1>7. ASSUME NEW i \in Place, NEW j \in DOMAIN new, new[j].at = i
      PROVE  i \in Positions(r) /\ j = i - r.first + 1
  <2>1. r.ok /\ j \in DOMAIN r.rows /\ i = r.first + j - 1
    BY <1>4, <1>7 DEF IsUnpacked, Place
  <2>2. j \in 1..Len(r.rows)
    BY <1>3, <2>1
  <2> QED BY <1>6, <2>1, <2>2 DEF Positions
<1>8. ASSUME NEW i \in Place, NEW k \in InArrived(i)', k \notin InArrived(i)
      PROVE  i \in Positions(r) /\ k = n + (i - r.first + 1)
  <2>1. k \in DOMAIN arrived' /\ arrived'[k].at = i
    BY DEF InArrived
  <2>2. k \notin DOMAIN arrived
    BY <1>4, <1>8, <2>1 DEF InArrived
  <2>3. k - n \in DOMAIN new /\ new[k - n].at = i
    BY <1>4, <2>1, <2>2
  <2>4. i \in Positions(r) /\ k - n = i - r.first + 1
    BY <1>7, <2>3
  <2>5. k \in Int /\ i \in Int
    BY <1>4, <2>1 DEF Place
  <2> QED BY <1>6, <2>4, <2>5
<1>9. ASSUME NEW i
      PROVE  /\ 1 \in InResults(i) <=> i \in Positions(r)
             /\ \A k \in InResults(i)' : k + 1 \in InResults(i) /\ k \in Nat /\ k + 1 # 1
             /\ InPipe(i)' = InPipe(i) /\ InWorker(i)' = InWorker(i)
  <2>1. 1 \in InResults(i) <=> i \in Positions(r)
    BY <1>2 DEF InResults
  <2>2. \A k \in InResults(i)' : k + 1 \in InResults(i) /\ k \in Nat /\ k + 1 # 1
    BY <1>1, <1>2, <1>5 DEF InResults, Positions
  <2>3. InPipe(i)' = InPipe(i) /\ InWorker(i)' = InWorker(i)
    BY <1>1 DEF InPipe, InWorker
  <2> QED BY <2>1, <2>2, <2>3
<1>10. ASSUME NEW i \in Place
       PROVE  HeldAt(i, InPipe(i)', InWorker(i)', InResults(i)', InArrived(i)',
                     received' \cap {i}, fed')
  <2>1. HeldAt(i, InPipe(i), InWorker(i), InResults(i), InArrived(i), received \cap {i}, fed)
    BY HeldNow
  <2>2. Alone(InResults(i)')
    <3>1. ASSUME NEW k \in InResults(i)', NEW j \in InResults(i)' PROVE k = j
      <4>1. k + 1 = j + 1 /\ k \in Nat /\ j \in Nat
        BY <1>9, <2>1 DEF HeldAt, Apart, Alone
      <4> QED BY <4>1
    <3> QED BY <3>1 DEF Alone
  <2>3. InResults(i)' # {} => InResults(i) # {} /\ 1 \notin InResults(i)
    BY <1>9, <2>1 DEF HeldAt, Apart, Alone
  <2>4. CASE i \in Positions(r)
    <3>1. InResults(i)' = {} /\ InResults(i) # {} /\ ~(i > fed)
      BY <1>9, <2>1, <2>3, <2>4 DEF HeldAt
    <3>2. InPipe(i) = {} /\ InWorker(i) = {} /\ InArrived(i) = {} /\ received \cap {i} = {}
      BY <2>1, <3>1 DEF HeldAt, Apart
    <3>3. Alone(InArrived(i)')
      <4>1. \A k \in InArrived(i)' : k = n + (i - r.first + 1)
        BY <1>8, <3>2
      <4> QED BY <4>1 DEF Alone
    <3> QED BY <1>1, <1>9, <3>1, <3>2, <3>3 DEF HeldAt, Apart, Alone
  <2>5. CASE i \notin Positions(r)
    <3>1. InArrived(i)' \subseteq InArrived(i)
      BY <1>8, <2>5
    <3> QED BY <1>1, <1>9, <2>1, <2>2, <2>3, <3>1 DEF HeldAt, Apart, Alone
  <2> QED BY <2>4, <2>5
<1> QED BY <1>1, <1>10, HeldNext

LEMMA HeldKept ==
  ASSUME WholeInv, ChunksFit, HeldOnce, [AnyCall \/ CampaignNext]_campaignVars
  PROVE  HeldOnce'
<1>1. CASE Caller
  <2>1. CASE \E how : Finish(how)
    BY <2>1, HeldFinish
  <2>2. CASE ~ \E how : Finish(how)
    BY <1>1, <2>2, HeldFed, HeldRunSerially, HeldFeedChunk, HeldCollectMap, HeldCollectStream,
       HeldIterate
       DEF Caller, RaiseSerially, ReturnSerially, FinishMap, RaiseStream, FinishStream
  <2> QED BY <2>1, <2>2
<1>2. CASE \E w \in Worker : WorkerStep(w) \/ Die(w)
  BY <1>2, HeldInitWorker, HeldTake, HeldRunOne, HeldPutChunk DEF WorkerStep
<1>3. CASE AnyCall \/ UNCHANGED campaignVars
  BY <1>3, HeldCall, HeldFed
<1> QED BY <1>1, <1>2, <1>3 DEF CampaignNext

(***************************************************************************)
(* Chunks are never empty and never overfull.                              *)
(***************************************************************************)
LEMMA FitAtRest == AtRest => ChunksFit
  BY DEF AtRest, ChunksFit, Starting

LEMMA FitSame ==
  ASSUME ChunksFit, UNCHANGED <<pipe, worker>> PROVE ChunksFit'
  BY DEF ChunksFit, Current

LEMMA FitFeedChunk ==
  ASSUME WholeInv, ChunksFit, FeedChunk PROVE ChunksFit'
<1> DEFINE chunk == [first |-> fed + 1, last |-> fed']
           n == Len(pipe)
<1>1. worker' = worker /\ pipe' = Append(pipe, chunk)
  BY DEF FeedChunk
<1>2. /\ fed \in Nat /\ Len(feed) \in Nat /\ fed < Len(feed) /\ ChunkSize \in Nat
      /\ ChunkSize > 0 /\ pipe \in Seq(Chunk)
  BY CampaignAssumption DEF WholeInv, CampaignTypeOK, FeedChunk
<1>3. fed' \in {fed + ChunkSize, Len(feed)}
  <2>1. fed + ChunkSize \in Int /\ Len(feed) \in Int
    BY <1>2
  <2>2. fed' = Min({fed + ChunkSize, Len(feed)})
    BY DEF FeedChunk
  <2> QED BY <2>1, <2>2, MinOfTwo
<1>4. fed + 1 <= fed'
  BY <1>2, <1>3
<1>5. /\ DOMAIN pipe' = DOMAIN pipe \cup {n + 1}
      /\ \A k \in DOMAIN pipe : pipe'[k] = pipe[k]
      /\ pipe'[n + 1] = chunk
  BY <1>1, <1>2
<1>6. \A k \in DOMAIN pipe' : pipe'[k].first <= pipe'[k].last
  BY <1>4, <1>5 DEF ChunksFit
<1> QED BY <1>1, <1>6 DEF ChunksFit, Current

LEMMA FitWorker ==
  ASSUME WholeInv, ChunksFit, NEW w \in Worker, WorkerStep(w) \/ Die(w)
  PROVE  ChunksFit'
<1>0. worker \in [Worker -> WorkerState] /\ pipe \in Seq(Chunk)
  BY DEF WholeInv, CampaignTypeOK
<1>1. CASE InitWorker(w) \/ PutChunk(w) \/ Die(w)
  <2>1. pipe' = pipe /\ worker'[w].at # "busy" /\ \A x \in Worker \ {w} : worker'[x] = worker[x]
    BY <1>0, <1>1 DEF InitWorker, PutChunk, Die, Starting, Ready
  <2> QED BY <2>1 DEF ChunksFit, Current
<1>2. CASE Take(w)
  <2>1. pipe # <<>> /\ pipe' = Tail(pipe)
    BY <1>2 DEF Take
  <2>2. /\ Head(pipe) = pipe[1] /\ 1 \in DOMAIN pipe /\ Head(pipe) \in Chunk
        /\ \A k \in DOMAIN Tail(pipe) : k + 1 \in DOMAIN pipe /\ Tail(pipe)[k] = pipe[k + 1]
    BY <1>0, <2>1, QueueHead
  <2>3. /\ worker'[w].chunk = Head(pipe) /\ worker'[w].rows = <<>>
        /\ \A x \in Worker \ {w} : worker'[x] = worker[x]
    BY <1>0, <1>2 DEF Take
  <2>4. Head(pipe).first <= Head(pipe).last /\ Head(pipe).first \in Int /\ Head(pipe).last \in Int
    BY <2>2 DEF ChunksFit, Chunk, Place
  <2>5. Current(w)' <= worker'[w].chunk.last + 1
    BY <2>3, <2>4 DEF Current
  <2> QED BY <2>1, <2>2, <2>3, <2>5 DEF ChunksFit, Current
<1>3. CASE RunOne(w)
  <2> DEFINE row == RowOf(feed[Current(w)])
  <2>1. /\ worker'[w].chunk = worker[w].chunk /\ worker[w].at = "busy" /\ pipe' = pipe
        /\ worker'[w].rows = Append(worker[w].rows, row)
        /\ \A x \in Worker \ {w} : worker'[x] = worker[x]
    BY <1>3, RowAdded
  <2>2. /\ worker[w].chunk.first \in Int /\ worker[w].chunk.last \in Int
        /\ worker[w].rows \in Seq(RowsOfFeed)
    BY <2>1, BusyWorker DEF WholeInv, Place
  <2>3. ~(Current(w) > worker[w].chunk.last)
    BY <1>3 DEF RunOne, ChunkDone
  <2> HIDE DEF row
  <2>4. Len(worker'[w].rows) = Len(worker[w].rows) + 1 /\ Len(worker[w].rows) \in Nat
    BY <2>1, <2>2
  <2>5. Current(w)' = Current(w) + 1 /\ Current(w) \in Int
    <3>1. /\ Current(w)' = worker'[w].chunk.first + Len(worker'[w].rows)
          /\ Current(w) = worker[w].chunk.first + Len(worker[w].rows)
      BY DEF Current
    <3>2. worker'[w].chunk.first = worker[w].chunk.first
      BY <2>1
    <3> QED BY <2>2, <2>4, <3>1, <3>2
  <2>6. Current(w)' <= worker'[w].chunk.last + 1
    BY <2>1, <2>2, <2>3, <2>5
  <2> QED BY <2>1, <2>6 DEF ChunksFit, Current
<1> QED BY <1>1, <1>2, <1>3 DEF WorkerStep

LEMMA FitKept ==
  ASSUME WholeInv, ChunksFit, [AnyCall \/ CampaignNext]_campaignVars
  PROVE  ChunksFit'
<1>1. CASE AnyCall \/ \E how : Finish(how)
  <2>1. AtRest'
    BY <1>1 DEF AnyCall, Call, Finish, AtRest
  <2> QED BY <2>1, FitAtRest, PTL
<1>2. CASE GoldenLength \/ RunSerially \/ CollectMap \/ CollectStream \/ Iterate
           \/ UNCHANGED campaignVars
  <2>1. UNCHANGED <<pipe, worker>>
    BY <1>2 DEF GoldenLength, RunSerially, CollectMap, CollectStream, Iterate,
                campaignVars, processes
  <2> QED BY <2>1, FitSame
<1>3. CASE FeedChunk
  BY <1>3, FitFeedChunk
<1>4. CASE \E w \in Worker : WorkerStep(w) \/ Die(w)
  BY <1>4, FitWorker
<1>5. CASE RaiseSerially \/ ReturnSerially \/ FinishMap \/ RaiseStream \/ FinishStream
  BY <1>1, <1>5 DEF RaiseSerially, ReturnSerially, FinishMap, RaiseStream, FinishStream
<1> QED BY <1>1, <1>2, <1>3, <1>4, <1>5 DEF CampaignNext, Caller

(***************************************************************************)
(* The stream's tally grows by the row that is received, which is a new    *)
(* one.                                                                    *)
(***************************************************************************)
LEMMA ReceivedFinite ==
  ASSUME WholeInv
  PROVE  /\ IsFiniteSet(Place) /\ IsFiniteSet(received)
         /\ \A S \in SUBSET received : IsFiniteSet(S) /\ Cardinality(S) \in Nat
<1>1. Len(feed) \in Nat /\ received \subseteq Place
  BY DEF WholeInv, CampaignTypeOK
<1>2. IsFiniteSet(Place)
  BY <1>1, FS_Interval DEF Place
<1>3. \A S \in SUBSET received : IsFiniteSet(S)
  BY <1>1, <1>2, FS_Subset
<1> QED BY <1>2, <1>3, FS_CardinalityType

LEMMA TallySame ==
  ASSUME TallyInv, UNCHANGED <<driver, feed, tally, received>> PROVE TallyInv'
<1>1. RowsOfFeed' = RowsOfFeed
  BY SameFeed
<1> QED BY <1>1 DEF TallyInv

NothingReceived == received = {} /\ tally = NoTally

LEMMA TallyCall == NothingReceived => TallyInv
<1> SUFFICES ASSUME NothingReceived PROVE TallyInv
  OBVIOUS
<1> USE DEF NothingReceived
<1>1. Cardinality({}) = 0
  BY FS_EmptySet
<1>2. \A o \in Outcomes : {i \in received : RunOutcome(feed[i]) = o} = {}
  OBVIOUS
<1>3. tally.counts = [o \in Outcomes |->
                        Cardinality({i \in received : RunOutcome(feed[i]) = o})]
  BY <1>1, <1>2 DEF NoTally
<1>4. {i \in received : RunOutcome(feed[i]) \in Exploitable} = {}
  OBVIOUS
<1>5. tally.exploitable = <<>>
  BY DEF NoTally
<1>6. /\ tally.exploitable \in Seq(RowsOfFeed) /\ Len(tally.exploitable) = 0
      /\ ToSet(tally.exploitable) = {}
  BY <1>5 DEF ToSet
<1> QED BY <1>1, <1>3, <1>4, <1>6 DEF TallyInv

(***************************************************************************)
(* The positions in S whose run ends in one of T.                          *)
(***************************************************************************)
Which(S, T) == {i \in S : RunOutcome(feed[i]) \in T}

LEMMA CountOneMore ==
  ASSUME NEW S, IsFiniteSet(S), NEW a, a \notin S, NEW T
  PROVE  Cardinality(Which(S \cup {a}, T))
           = Cardinality(Which(S, T)) + (IF RunOutcome(feed[a]) \in T THEN 1 ELSE 0)
<1>1. IsFiniteSet(Which(S, T)) /\ a \notin Which(S, T)
  BY FS_Subset DEF Which
<1>2. CASE RunOutcome(feed[a]) \in T
  <2>1. Which(S \cup {a}, T) = Which(S, T) \cup {a}
    BY <1>2 DEF Which
  <2>2. Cardinality(Which(S, T) \cup {a}) = Cardinality(Which(S, T)) + 1
    BY <1>1, FS_AddElement
  <2> QED BY <1>2, <2>1, <2>2
<1>3. CASE RunOutcome(feed[a]) \notin T
  <2>1. Which(S \cup {a}, T) = Which(S, T)
    BY <1>3 DEF Which
  <2>2. Cardinality(Which(S, T)) \in Nat
    BY <1>1, FS_CardinalityType
  <2> QED BY <1>3, <2>1, <2>2
<1> QED BY <1>2, <1>3

LEMMA AppendToSet ==
  ASSUME NEW S, NEW q \in Seq(S), NEW x \in S
  PROVE  /\ Append(q, x) \in Seq(S) /\ Len(Append(q, x)) = Len(q) + 1
         /\ ToSet(Append(q, x)) = ToSet(q) \cup {x}
<1>1. /\ Append(q, x) \in Seq(S) /\ Len(Append(q, x)) = Len(q) + 1
      /\ DOMAIN Append(q, x) = DOMAIN q \cup {Len(q) + 1}
      /\ \A k \in DOMAIN q : Append(q, x)[k] = q[k]
      /\ Append(q, x)[Len(q) + 1] = x
  BY QueueAppend
<1>2. ToSet(Append(q, x)) = ToSet(q) \cup {x}
  BY <1>1 DEF ToSet
<1> QED BY <1>1, <1>2

LEMMA TallyIterate ==
  ASSUME WholeInv, HeldOnce, TallyInv, Iterate PROVE TallyInv'
<1> DEFINE a == Head(arrived).at
           x == RunOutcome(feed[a])
           row == RowOf(feed[a])
           hits == {i \in received : RunOutcome(feed[i]) \in Exploitable}
           hits1 == {i \in received \cup {a} : RunOutcome(feed[i]) \in Exploitable}
           kept == tally.exploitable
<1>1. /\ driver = "stream" /\ driver' = driver /\ feed' = feed /\ arrived # <<>> /\ a # 0
      /\ received' = received \cup {a} /\ tally' = Tallied(Head(arrived).row)
  BY DEF Iterate, input
<1>2. a \in Place /\ a \notin received /\ IsFiniteSet(received) /\ a \in Place \ received
  BY HeldIterate, ReceivedFinite
<1>3. Head(arrived).row = row
  <2>1. Head(arrived) = arrived[1] /\ 1 \in DOMAIN arrived
    BY <1>1, FirstArrival
  <2> QED BY <1>1, <2>1 DEF WholeInv, RowsInPlace
<1>4. row \in RowsOfFeed /\ row.outcome = x
  BY <1>2 DEF RowsOfFeed, RowOf
<1>5. /\ tally.counts = [o \in Outcomes |->
                           Cardinality({i \in received : RunOutcome(feed[i]) = o})]
      /\ kept \in Seq(RowsOfFeed) /\ Len(kept) = Cardinality(hits)
      /\ ToSet(kept) = {RowOf(feed[i]) : i \in hits}
  BY <1>1 DEF TallyInv
<1>6. /\ tally'.counts = [tally.counts EXCEPT ![x] = @ + 1]
      /\ tally'.exploitable = IF x \in Exploitable THEN Append(kept, row) ELSE kept
  BY <1>1, <1>3, <1>4 DEF Tallied
<1>7. tally'.counts = [o \in Outcomes |->
                         Cardinality({i \in received' : RunOutcome(feed[i]) = o})]
  <2>1. ASSUME NEW o \in Outcomes
        PROVE  Cardinality({i \in received' : RunOutcome(feed[i]) = o})
                 = Cardinality({i \in received : RunOutcome(feed[i]) = o})
                     + (IF x = o THEN 1 ELSE 0)
    <3>1. Cardinality(Which(received \cup {a}, {o}))
            = Cardinality(Which(received, {o})) + (IF x \in {o} THEN 1 ELSE 0)
      BY <1>2, CountOneMore
    <3>2. /\ Which(received \cup {a}, {o}) = {i \in received' : RunOutcome(feed[i]) = o}
          /\ Which(received, {o}) = {i \in received : RunOutcome(feed[i]) = o}
          /\ x \in {o} <=> x = o
      BY <1>1 DEF Which
    <3> HIDE DEF x
    <3> QED BY <3>1, <3>2
  <2>2. ASSUME NEW o \in Outcomes
        PROVE  Cardinality({i \in received : RunOutcome(feed[i]) = o}) \in Nat
    BY ReceivedFinite
  <2> DEFINE now(o) == Cardinality({i \in received : RunOutcome(feed[i]) = o})
             then(o) == Cardinality({i \in received' : RunOutcome(feed[i]) = o})
  <2>3. /\ tally.counts = [o \in Outcomes |-> now(o)]
        /\ \A o \in Outcomes : then(o) = now(o) + (IF x = o THEN 1 ELSE 0)
        /\ \A o \in Outcomes : now(o) \in Nat
    BY <1>5, <2>1, <2>2
  <2> HIDE DEF now, then, x
  <2>4. tally'.counts = [o \in Outcomes |-> now(o) + (IF x = o THEN 1 ELSE 0)]
    BY <1>6, <2>3
  <2>5. tally'.counts = [o \in Outcomes |-> then(o)]
    BY <2>3, <2>4
  <2> QED BY <2>5 DEF then
<1>8. hits1 = IF x \in Exploitable THEN hits \cup {a} ELSE hits
  OBVIOUS
<1>9. Cardinality(hits1) = Cardinality(hits) + (IF x \in Exploitable THEN 1 ELSE 0)
  <2>1. Which(received, Exploitable) = hits /\ Which(received \cup {a}, Exploitable) = hits1
    BY DEF Which
  <2> HIDE DEF x, hits, hits1
  <2>2. Cardinality(Which(received \cup {a}, Exploitable))
          = Cardinality(Which(received, Exploitable)) + (IF x \in Exploitable THEN 1 ELSE 0)
    BY <1>2, CountOneMore DEF x
  <2> QED BY <2>1, <2>2
<1>10. Cardinality(hits) \in Nat
  BY ReceivedFinite
<1>11. {RowOf(feed[i]) : i \in hits1}
         = {RowOf(feed[i]) : i \in hits} \cup (IF x \in Exploitable THEN {row} ELSE {})
  BY <1>8
<1>12. /\ tally'.exploitable \in Seq(RowsOfFeed)
       /\ Len(tally'.exploitable) = Cardinality(hits1)
       /\ ToSet(tally'.exploitable) = {RowOf(feed[i]) : i \in hits1}
  <2> DEFINE old == {RowOf(feed[i]) : i \in hits}
             new == {RowOf(feed[i]) : i \in hits1}
             n == Cardinality(hits)
             n1 == Cardinality(hits1)
  <2>1. /\ ToSet(kept) = old /\ Len(kept) = n /\ n \in Nat
        /\ new = old \cup (IF x \in Exploitable THEN {row} ELSE {})
        /\ n1 = n + (IF x \in Exploitable THEN 1 ELSE 0)
    BY <1>5, <1>9, <1>10, <1>11
  <2> HIDE DEF old, new, n, n1, kept, row, x, hits, hits1
  <2>2. /\ Append(kept, row) \in Seq(RowsOfFeed) /\ Len(Append(kept, row)) = Len(kept) + 1
        /\ ToSet(Append(kept, row)) = ToSet(kept) \cup {row}
    BY <1>4, <1>5, AppendToSet
  <2>3. CASE x \in Exploitable
    BY <1>6, <2>1, <2>2, <2>3 DEF new, n1
  <2>4. CASE x \notin Exploitable
    <3>1. tally'.exploitable = kept /\ new = old /\ n1 = n
      BY <1>6, <2>1, <2>4
    <3> QED BY <1>5, <2>1, <3>1 DEF new, n1
  <2> QED BY <2>3, <2>4
<1>13. RowsOfFeed' = RowsOfFeed
  BY <1>1, SameFeed
<1> QED BY <1>1, <1>7, <1>12, <1>13 DEF TallyInv

LEMMA TallyKept ==
  ASSUME WholeInv, HeldOnce, TallyInv, [AnyCall \/ CampaignNext]_campaignVars
  PROVE  TallyInv'
<1>1. CASE AnyCall
  <2>1. NothingReceived'
    BY <1>1 DEF AnyCall, Call, NothingReceived
  <2> QED BY <2>1, TallyCall, PTL
<1>2. CASE \E how : Finish(how)
  BY <1>2, TallySame DEF Finish, input
<1>3. CASE RunSerially \/ CollectMap
  BY <1>3 DEF TallyInv, RunSerially, CollectMap, input
<1>4. CASE Iterate
  BY <1>4, TallyIterate
<1>5. CASE GoldenLength \/ FeedChunk \/ CollectStream \/ UNCHANGED campaignVars
  BY <1>5, TallySame DEF GoldenLength, FeedChunk, CollectStream, campaignVars, input, answers
<1>6. CASE \E w \in Worker : WorkerStep(w) \/ Die(w)
  BY <1>6, TallySame DEF WorkerStep, InitWorker, Take, RunOne, PutChunk, Die, input, answers
<1>7. CASE RaiseSerially \/ ReturnSerially \/ FinishMap \/ RaiseStream \/ FinishStream
  BY <1>2, <1>7 DEF RaiseSerially, ReturnSerially, FinishMap, RaiseStream, FinishStream
<1> QED BY <1>1, <1>2, <1>3, <1>4, <1>5, <1>6, <1>7 DEF CampaignNext, Caller

-----------------------------------------------------------------------------
(***************************************************************************)
(* CampaignResult.exploitable keeps each exploitable row once.             *)
(***************************************************************************)
HitsUpTo(rows, n) == {i \in 1..n : rows[i].outcome \in Exploitable}

KeepNext(q, row) == IF row.outcome \in Exploitable THEN Append(q, row) ELSE q

LEMMA KeptUnfolds ==
  ASSUME NEW R, NEW rows \in Seq(R)
  PROVE  \E kept : /\ ExploitableRows(rows) = kept[Len(rows)]
                   /\ kept[0] = <<>>
                   /\ \A n \in 0..(Len(rows) - 1) :
                        kept[n + 1] = KeepNext(kept[n], rows[n + 1])
<1> DEFINE N == Len(rows)
<1>1. N \in Nat /\ \A n \in 1..N : rows[n] \in R
  OBVIOUS
<1> DEFINE S == Nat \X Seq(R)
           a == <<0, <<>>>>
           step == [p \in S |->
                      <<p[1] + 1, IF p[1] + 1 \in 1..N THEN KeepNext(p[2], rows[p[1] + 1])
                                  ELSE p[2]>>]
<1>2. step \in [S -> S]
  <2> SUFFICES ASSUME NEW p \in S PROVE step[p] \in S
    OBVIOUS
  <2>1. p[1] + 1 \in Nat /\ p[2] \in Seq(R)
    OBVIOUS
  <2>2. CASE p[1] + 1 \in 1..N
    <3>1. KeepNext(p[2], rows[p[1] + 1]) \in Seq(R)
      BY <1>1, <2>1, <2>2 DEF KeepNext
    <3>2. step[p] = <<p[1] + 1, KeepNext(p[2], rows[p[1] + 1])>>
      BY <2>2
    <3> QED BY <2>1, <3>1, <3>2
  <2>3. CASE p[1] + 1 \notin 1..N
    <3>1. step[p] = <<p[1] + 1, p[2]>>
      BY <2>3
    <3> QED BY <2>1, <3>1
  <2> QED BY <2>2, <2>3
<1>3. a \in S
  <2>1. <<>> \in Seq(R)
    OBVIOUS
  <2> HIDE DEF N
  <2> QED BY <2>1, Zenon
<1>4. PICK f \in [Nat -> S] : IsIteration(f, Nat, a, step)
  <2> HIDE DEF S, a, step
  <2> QED BY <1>2, <1>3, IterationExists
<1>5. f[0] = a /\ \A n \in Nat : f[n + 1] = step[f[n]]
  <2> HIDE DEF S, a, step
  <2>1. \A n \in Nat : f[n] = IF n = 0 THEN a ELSE step[f[n - 1]]
    BY <1>4 DEF IsIteration
  <2> QED BY <2>1
<1>6. \A n \in Nat : f[n][1] = n
  <2> DEFINE G == {n \in Nat : f[n][1] = n}
  <2>1. 0 \in G
    BY <1>5
  <2>2. ASSUME NEW n \in Nat, n \in G PROVE n + 1 \in G
    <3>1. f[n] \in S /\ f[n][1] = n
      BY <2>2
    <3>2. step[f[n]][1] = f[n][1] + 1
      BY <3>1
    <3>3. f[n + 1][1] = n + 1
      BY <1>5, <3>1, <3>2
    <3> QED BY <3>3
  <2> HIDE DEF G
  <2>3. \A n \in Nat : n \in G
    BY <2>1, <2>2, NatInd
  <2> QED BY <2>3 DEF G
<1> DEFINE w == [n \in 0..N |-> f[n][2]]
<1>7. ASSUME NEW n \in 0..(N - 1) PROVE f[n + 1][2] = KeepNext(f[n][2], rows[n + 1])
  <2>1. n \in Nat /\ n + 1 \in 1..N
    BY <1>1
  <2>2. f[n] \in S /\ f[n][1] = n
    BY <1>6, <2>1
  <2>3. step[f[n]][2] = KeepNext(f[n][2], rows[n + 1])
    BY <2>1, <2>2
  <2> HIDE DEF step
  <2> QED BY <1>5, <2>1, <2>3
<1>8. f[0][2] = <<>>
  BY <1>5
<1>9. w = [n \in 0..N |-> IF n = 0 THEN <<>> ELSE KeepNext(w[n - 1], rows[n])]
  <2>1. ASSUME NEW n \in 0..N
        PROVE  w[n] = IF n = 0 THEN <<>> ELSE KeepNext(w[n - 1], rows[n])
    <3>1. CASE n = 0
      BY <1>1, <1>8, <3>1
    <3>2. CASE n # 0
      <4>1. n - 1 \in 0..(N - 1) /\ n - 1 \in 0..N /\ n - 1 + 1 = n
        BY <1>1, <3>2
      <4>2. f[n][2] = KeepNext(f[n - 1][2], rows[n])
        BY <1>7, <4>1
      <4> QED BY <3>2, <4>1, <4>2
    <3> QED BY <3>1, <3>2
  <2> QED BY <2>1
<1> HIDE DEF w
<1> DEFINE Good(g) == g = [n \in 0..Len(rows) |->
                             IF n = 0 THEN <<>>
                             ELSE IF rows[n].outcome \in Exploitable
                                  THEN Append(g[n - 1], rows[n])
                             ELSE g[n - 1]]
           kept == CHOOSE g : Good(g)
<1>10. Good(w)
  BY <1>9 DEF KeepNext
<1>11. Good(kept)
  BY <1>10
<1>12. ExploitableRows(rows) = kept[Len(rows)]
  BY DEF ExploitableRows
<1> HIDE DEF kept
<1>13. kept[0] = <<>>
  BY <1>1, <1>11
<1>14. ASSUME NEW n \in 0..(N - 1) PROVE kept[n + 1] = KeepNext(kept[n], rows[n + 1])
  <2>1. ASSUME NEW m \in 0..Len(rows), m # 0
        PROVE  kept[m] = KeepNext(kept[m - 1], rows[m])
    BY <1>11, <2>1 DEF KeepNext
  <2>2. n + 1 \in 0..Len(rows) /\ n + 1 # 0 /\ n + 1 - 1 = n
    BY <1>1
  <2> HIDE DEF Good
  <2>3. kept[n + 1] = KeepNext(kept[n + 1 - 1], rows[n + 1])
    BY <2>1, <2>2
  <2> QED BY <2>2, <2>3
<1> QED BY <1>12, <1>13, <1>14

LEMMA KeptRows ==
  ASSUME NEW R, NEW rows \in Seq(R)
  PROVE  /\ Len(ExploitableRows(rows)) = Cardinality(HitsUpTo(rows, Len(rows)))
         /\ ToSet(ExploitableRows(rows)) = {rows[i] : i \in HitsUpTo(rows, Len(rows))}
<1> DEFINE N == Len(rows)
<1>0. N \in Nat /\ \A n \in 1..N : rows[n] \in R
  OBVIOUS
<1>1. PICK kept : /\ ExploitableRows(rows) = kept[N]
                  /\ kept[0] = <<>>
                  /\ \A n \in 0..(N - 1) : kept[n + 1] = KeepNext(kept[n], rows[n + 1])
  BY KeptUnfolds
<1> DEFINE Kept(n) == /\ kept[n] \in Seq(R) /\ Len(kept[n]) = Cardinality(HitsUpTo(rows, n))
                      /\ ToSet(kept[n]) = {rows[i] : i \in HitsUpTo(rows, n)}
           G == {n \in 0..N : Kept(n)}
<1>2. Kept(0)
  <2>1. HitsUpTo(rows, 0) = {}
    BY DEF HitsUpTo
  <2>2. Cardinality({}) = 0
    BY FS_EmptySet
  <2>3. kept[0] \in Seq(R) /\ Len(kept[0]) = 0 /\ ToSet(kept[0]) = {}
    <3>1. /\ <<>> \in Seq(R) /\ Len(<<>>) = 0
          /\ ToSet(<<>>) = {}
      BY DEF ToSet
    <3> QED BY <1>1, <3>1
  <2>4. {rows[i] : i \in HitsUpTo(rows, 0)} = {}
    BY <2>1
  <2> QED BY <2>1, <2>2, <2>3, <2>4
<1>3. ASSUME NEW n \in 0..(N - 1), Kept(n) PROVE Kept(n + 1)
  <2> DEFINE h == HitsUpTo(rows, n)
  <2>1. kept[n + 1] = KeepNext(kept[n], rows[n + 1]) /\ rows[n + 1] \in R /\ n \in Nat
    BY <1>0, <1>1
  <2>2. CASE rows[n + 1].outcome \in Exploitable
    <3>1. HitsUpTo(rows, n + 1) = h \cup {n + 1} /\ n + 1 \notin h
      BY <2>1, <2>2 DEF HitsUpTo
    <3>2. IsFiniteSet(h)
      <4>1. h \subseteq 1..n /\ IsFiniteSet(1..n)
        BY <2>1, FS_Interval DEF HitsUpTo
      <4> QED BY <4>1, FS_Subset
    <3>3. Cardinality(h \cup {n + 1}) = Cardinality(h) + 1
      BY <3>1, <3>2, FS_AddElement
    <3>4. kept[n + 1] = Append(kept[n], rows[n + 1])
      BY <2>1, <2>2 DEF KeepNext
    <3> HIDE DEF h
    <3>5. /\ Append(kept[n], rows[n + 1]) \in Seq(R)
          /\ Len(Append(kept[n], rows[n + 1])) = Len(kept[n]) + 1
          /\ ToSet(Append(kept[n], rows[n + 1])) = ToSet(kept[n]) \cup {rows[n + 1]}
      BY <1>3, <2>1, AppendToSet
    <3>6. {rows[i] : i \in h \cup {n + 1}} = {rows[i] : i \in h} \cup {rows[n + 1]}
      OBVIOUS
    <3> QED BY <1>3, <3>1, <3>3, <3>4, <3>5, <3>6 DEF h
  <2>3. CASE rows[n + 1].outcome \notin Exploitable
    <3>1. HitsUpTo(rows, n + 1) = h
      BY <2>1, <2>3 DEF HitsUpTo
    <3>2. kept[n + 1] = kept[n]
      BY <2>1, <2>3 DEF KeepNext
    <3> QED BY <1>3, <3>1, <3>2
  <2> QED BY <2>2, <2>3
<1> HIDE DEF Kept
<1>4. 0 \in G
  BY <1>0, <1>2
<1>5. ASSUME NEW n \in 0..(N - 1), n \in G PROVE n + 1 \in G
  BY <1>0, <1>3, <1>5
<1> HIDE DEF G
<1>6. N \in G
  <2>1. \A n \in 0..N : n \in G
    BY <1>0, <1>4, <1>5, BoundedInd
  <2> QED BY <1>0, <2>1
<1>7. Kept(N)
  BY <1>6 DEF G
<1> QED BY <1>1, <1>7 DEF Kept

(***************************************************************************)
(* The inductive invariant: rows stay in the places of their fault sets,   *)
(* every position fed is accounted for exactly once, the stream's tally is *)
(* that of the rows received, and a result is only returned whole          *)
(* (run_campaign, run_campaign_streaming).                                 *)
(***************************************************************************)
THEOREM Inductive == AnyCampaigns => []CampaignInv
<1>1. CampaignInit => CampaignInv
  <2>1. CampaignInit => AtRest /\ NothingReceived
    BY DEF CampaignInit, AtRest, NothingReceived
  <2> QED BY <2>1, Start, HeldStart, FitAtRest, TallyCall DEF CampaignInv
<1>2. CampaignInv /\ [AnyCall \/ CampaignNext]_campaignVars => CampaignInv'
  BY InvStep, FitKept, HeldKept, TallyKept DEF CampaignInv
<1> QED BY <1>1, <1>2, PTL DEF AnyCampaigns

(***************************************************************************)
(* run_campaign() returns one row per fault set in the order of the list,  *)
(* however the chunks were answered.                                       *)
(***************************************************************************)
LEMMA SlotsWhole ==
  ASSUME WholeInv, calling = "returned", driver # "stream"
  PROVE  /\ slots = [i \in 1..Len(feed) |-> RowOf(feed[i])]
         /\ Len(feed) \in Nat /\ DOMAIN feed = 1..Len(feed)
         /\ slots \in Seq(RowsOfFeed) /\ Len(slots) = Len(feed)
<1>1. slots = [i \in 1..Len(feed) |-> RowOf(feed[i])]
  BY DEF WholeInv, RowsInPlace, NoneMissing, Place
<1>2. Len(feed) \in Nat /\ DOMAIN feed = 1..Len(feed)
  BY DEF WholeInv, CampaignTypeOK
<1>3. \A i \in 1..Len(feed) : RowOf(feed[i]) \in RowsOfFeed
  BY DEF RowsOfFeed, Place
<1> QED BY <1>1, <1>2, <1>3

THEOREM RowsInOrder == AnyCampaigns => []RowsFollowSets
<1>1. WholeInv => RowsFollowSets
  BY SlotsWhole DEF RowsFollowSets
<1> QED BY <1>1, Inductive, PTL DEF CampaignInv

(***************************************************************************)
(* Whatever the driver and the order of the answers, a returned result has *)
(* every fault set's outcome in its counts once and every exploitable row  *)
(* once (CampaignResult.counts, .exploitable, run_campaign_streaming).     *)
(***************************************************************************)
LEMMA MappedComplete ==
  ASSUME WholeInv, calling = "returned", driver # "stream"
  PROVE  /\ \A o \in Outcomes :
              Counts(slots)[o] = Cardinality({i \in DOMAIN feed : RunOutcome(feed[i]) = o})
         /\ LET hits == {i \in DOMAIN feed : RunOutcome(feed[i]) \in Exploitable}
            IN  /\ Len(ExploitableRows(slots)) = Cardinality(hits)
                /\ ToSet(ExploitableRows(slots)) = {RowOf(feed[i]) : i \in hits}
<1> DEFINE hits == {i \in DOMAIN feed : RunOutcome(feed[i]) \in Exploitable}
<1>1. /\ slots = [i \in 1..Len(feed) |-> RowOf(feed[i])]
      /\ Len(feed) \in Nat /\ DOMAIN feed = 1..Len(feed)
      /\ slots \in Seq(RowsOfFeed) /\ Len(slots) = Len(feed)
  BY SlotsWhole
<1>2. \A i \in DOMAIN feed : /\ slots[i] = RowOf(feed[i])
                             /\ slots[i].outcome = RunOutcome(feed[i])
  BY <1>1 DEF RowOf
<1>3. DOMAIN slots = DOMAIN feed
  BY <1>1
<1>4. ASSUME NEW o \in Outcomes
      PROVE  Counts(slots)[o] = Cardinality({i \in DOMAIN feed : RunOutcome(feed[i]) = o})
  <2>1. {i \in DOMAIN slots : slots[i].outcome = o}
          = {i \in DOMAIN feed : RunOutcome(feed[i]) = o}
    BY <1>2, <1>3
  <2>2. Counts(slots)[o] = Cardinality({i \in DOMAIN slots : slots[i].outcome = o})
    BY DEF Counts
  <2> QED BY <2>1, <2>2
<1>5. HitsUpTo(slots, Len(slots)) = hits
  BY <1>1, <1>2 DEF HitsUpTo
<1>6. {slots[i] : i \in hits} = {RowOf(feed[i]) : i \in hits}
  BY <1>2
<1>7. /\ Len(ExploitableRows(slots)) = Cardinality(hits)
      /\ ToSet(ExploitableRows(slots)) = {slots[i] : i \in hits}
  <2> HIDE DEF hits
  <2>1. /\ Len(ExploitableRows(slots)) = Cardinality(HitsUpTo(slots, Len(slots)))
        /\ ToSet(ExploitableRows(slots)) = {slots[i] : i \in HitsUpTo(slots, Len(slots))}
    <3>1. slots \in Seq(RowsOfFeed)
      BY <1>1
    <3> QED BY <3>1, KeptRows
  <2> QED BY <1>5, <2>1
<1> QED BY <1>4, <1>6, <1>7

THEOREM ResultComplete == AnyCampaigns => []ResultIsComplete
<1>1. CampaignInv => ResultIsComplete
  <2> SUFFICES ASSUME CampaignInv, calling = "returned"
               PROVE  ResultIsComplete
    BY DEF ResultIsComplete
  <2>1. received = DOMAIN feed
    BY DEF CampaignInv, WholeInv, NoneMissing, CampaignTypeOK, Place
  <2> DEFINE hits == {i \in DOMAIN feed : RunOutcome(feed[i]) \in Exploitable}
  <2>2. /\ \A o \in Outcomes :
             ResultCounts[o] = Cardinality({i \in DOMAIN feed : RunOutcome(feed[i]) = o})
        /\ Len(ResultExploitable) = Cardinality(hits)
        /\ ToSet(ResultExploitable) = {RowOf(feed[i]) : i \in hits}
    <3>1. CASE driver = "stream"
      BY <2>1, <3>1 DEF CampaignInv, TallyInv, ResultCounts, ResultExploitable
    <3>2. CASE driver # "stream"
      BY <3>2, MappedComplete DEF CampaignInv, ResultCounts, ResultExploitable
    <3> QED BY <3>1, <3>2
  <2>3. /\ \A o : SetsWith(LAMBDA x : x = o)
                    = {i \in DOMAIN feed : RunOutcome(feed[i]) = o}
        /\ SetsWith(LAMBDA x : x \in Exploitable) = hits
    BY DEF SetsWith
  <2> QED BY <2>2, <2>3 DEF ResultIsComplete
<1> QED BY <1>1, Inductive, PTL

-----------------------------------------------------------------------------
(***************************************************************************)
(* Every step is one of CampaignSpec or changes nothing it speaks of.      *)
(***************************************************************************)
LEMMA ContractStep ==
  ASSUME WholeInv, [AnyCall \/ CampaignNext]_campaignVars
  PROVE  [Contract!Next]_<<IF calling = "idle" THEN 0 ELSE Len(feed), received,
                          IF calling \in {"golden", "running"} THEN "open" ELSE calling>>
<1> DEFINE asked == IF calling = "idle" THEN 0 ELSE Len(feed)
           status == IF calling \in {"golden", "running"} THEN "open" ELSE calling
<1>1. Len(feed) \in Nat /\ received \subseteq 1..Len(feed)
  BY DEF WholeInv, CampaignTypeOK, Place
<1>2. WholeInv' /\ Len(feed') \in Nat /\ received' \subseteq 1..Len(feed')
  <2>1. WholeInv'
    BY InvStep
  <2> QED BY <2>1 DEF WholeInv, CampaignTypeOK, Place
<1>3. CASE AnyCall
  <2>1. calling \notin {"golden", "running"} /\ calling' = "golden" /\ received' = {}
    BY <1>3 DEF AnyCall, Call
  <2>2. Contract!Ask
    BY <1>2, <2>1 DEF Contract!Ask, WholeInv, CampaignTypeOK
  <2> QED BY <2>2 DEF Contract!Next
<1>4. CASE Caller
  <2>1. calling \in {"golden", "running"} /\ feed' = feed /\ EndsWell
    BY <1>4, CallerSteps
       DEF Caller, GoldenLength, RunSerially, RaiseSerially, ReturnSerially,
           FeedChunk, CollectMap, FinishMap, CollectStream, Iterate, RaiseStream,
           FinishStream, Finish, Pooled, input
  <2>2. received \subseteq received'
    BY <1>4 DEF Caller, GoldenLength, RunSerially, RaiseSerially, ReturnSerially,
                FeedChunk, CollectMap, FinishMap, CollectStream, Iterate, RaiseStream,
                FinishStream, Finish, answers
  <2>3. CASE calling' \in {"golden", "running"}
    <3>1. Contract!Answer
      BY <1>1, <1>2, <2>1, <2>2, <2>3 DEF Contract!Answer
    <3> QED BY <3>1 DEF Contract!Next
  <2>4. CASE calling' \notin {"golden", "running"}
    <3>1. calling = "running" /\ received' = received /\ calling' \in {"returned", "raised"}
      BY <1>4, <2>4 DEF Caller, GoldenLength, RunSerially, RaiseSerially, ReturnSerially,
                FeedChunk, CollectMap, FinishMap, CollectStream, Iterate, RaiseStream,
                FinishStream, Finish, Pooled, answers
    <3>2. calling' = "returned" => Contract!Return
      BY <2>1, <3>1 DEF Contract!Return, EndsWell, Place
    <3>3. calling' = "raised" => Contract!Raise
      BY <2>1, <3>1 DEF Contract!Raise, EndsWell, Place
    <3> QED BY <3>1, <3>2, <3>3 DEF Contract!Next
  <2> QED BY <2>3, <2>4
<1>5. CASE \E w \in Worker : WorkerStep(w) \/ Die(w)
  <2>1. UNCHANGED <<calling, feed, received>>
    BY <1>5, WorkerSteps
  <2> QED BY <2>1
<1>6. CASE UNCHANGED campaignVars
  BY <1>6 DEF campaignVars, input, answers
<1> QED BY <1>3, <1>4, <1>5, <1>6 DEF CampaignNext

(***************************************************************************)
(* A campaign implements CampaignSpec, for every number of workers, chunk  *)
(* size and number of deaths, serial, mapped or streamed: all answers and  *)
(* a return, or a raise when one is missing, never a partial result.       *)
(***************************************************************************)
THEOREM Refinement == AnyCampaigns => KeepsContract
<1>1. CampaignInit => Contract!Init
  BY DEF CampaignInit, Contract!Init
<1> QED BY <1>1, Start, InvStep, ContractStep, PTL
        DEF AnyCampaigns, KeepsContract, Contract!Spec

-----------------------------------------------------------------------------
(***************************************************************************)
(* The genetic search.                                                     *)
(***************************************************************************)
(***************************************************************************)
(* The outcomes are those of classify.py, and a marks word has none or     *)
(* some of the bits of golden_marks, of which there are Checkpoints.       *)
(***************************************************************************)
RunsClassified ==
  \A fs : RunOutcome(fs) \in Outcomes /\ Achieved(RunMarks(fs)) \in 0..Checkpoints

Exploits(row) == row.outcome \in {"SEC_BYPASS", "SAFETY_VIOLATION"}

(***************************************************************************)
(* The weights of fitness() keep the outcomes apart: only an exploit is    *)
(* worth 1.0, whatever checkpoints a near miss has passed.                 *)
(***************************************************************************)
LEMMA FitnessSeparates ==
  ASSUME RunsClassified, NEW fs
  PROVE  /\ Fitness(RowOf(fs)) \in Nat
         /\ Fitness(RowOf(fs)) >= Exploit <=> Exploits(RowOf(fs))
<1> DEFINE row == RowOf(fs)
<1>1. row.outcome = RunOutcome(fs) /\ row.marks = RunMarks(fs)
  BY DEF RowOf
<1>2. row.outcome \in Outcomes /\ Achieved(row.marks) \in 0..Checkpoints
  BY <1>1 DEF RunsClassified
<1>3. Checkpoints \in Nat /\ Checkpoints > 0
  BY GAAssumption
<1> DEFINE separated == /\ Fitness(row) \in Nat
                        /\ Fitness(row) >= Exploit <=> Exploits(row)
<1> SUFFICES separated
  OBVIOUS
<1> HIDE DEF row
<1> DEFINE a == Achieved(row.marks)
<1>4. CASE row.outcome \in {"SEC_BYPASS", "SAFETY_VIOLATION"}
  <2>1. Fitness(row) = 10 * Checkpoints
    BY <1>4 DEF Fitness, Exploit
  <2> QED BY <1>3, <1>4, <2>1 DEF Exploit, Exploits
<1>5. CASE row.outcome = "SDC"
  <2>1. Fitness(row) = 5 * Checkpoints + 4 * a
    BY <1>5 DEF Fitness
  <2> QED BY <1>2, <1>3, <1>5, <2>1 DEF Exploit, Exploits
<1>6. CASE row.outcome \in {"CRASH", "HANG"}
  <2>1. Fitness(row) = a
    BY <1>6 DEF Fitness
  <2> QED BY <1>2, <1>3, <1>6, <2>1 DEF Exploit, Exploits
<1>7. CASE row.outcome = "OK"
  <2>1. Fitness(row) = 0
    BY <1>7 DEF Fitness
  <2> QED BY <1>3, <1>7, <2>1 DEF Exploit, Exploits
<1>8. \/ row.outcome \in {"SEC_BYPASS", "SAFETY_VIOLATION"} \/ row.outcome = "SDC"
      \/ row.outcome \in {"CRASH", "HANG"} \/ row.outcome = "OK"
  BY <1>2 DEF Outcomes
<1> QED BY <1>4, <1>5, <1>6, <1>7, <1>8

-----------------------------------------------------------------------------
(***************************************************************************)
(* sorted() has an answer: every list of fitnesses has a stable ranking.   *)
(* A ranking of n is one of n + 1 once the new entry is put in before the  *)
(* first that is worse.                                                    *)
(***************************************************************************)
LEMMA RankingInserts ==
  ASSUME NEW n \in Nat, NEW fit \in [1..(n + 1) -> Int],
         NEW p \in [1..n -> 1..n], IsRanking(p, [i \in 1..n |-> fit[i]])
  PROVE  \E q \in [1..(n + 1) -> 1..(n + 1)] : IsRanking(q, fit)
<1> DEFINE v == fit[n + 1]
           T == {k \in 1..(n + 1) : k = n + 1 \/ fit[p[k]] < v}
           Before(x, y) == fit[x] > fit[y] \/ (fit[x] = fit[y] /\ x < y)
<1>1. /\ \A m \in 1..n : \E k \in 1..n : p[k] = m
      /\ \A i, j \in 1..n : i < j => Before(p[i], p[j])
  <2> DEFINE g == [i \in 1..n |-> fit[i]]
  <2>1. DOMAIN g = 1..n /\ \A i \in 1..n : p[i] \in 1..n /\ g[p[i]] = fit[p[i]]
    OBVIOUS
  <2>2. IsRanking(p, g)
    OBVIOUS
  <2>3. \A m \in 1..n : \E k \in 1..n : p[k] = m
    <3> HIDE DEF g
    <3> QED
      BY <2>1, <2>2 DEF IsRanking
  <2>4. ASSUME NEW i \in 1..n, NEW j \in 1..n, i < j PROVE Before(p[i], p[j])
    <3>1. g[p[i]] = fit[p[i]] /\ g[p[j]] = fit[p[j]]
      BY <2>1
    <3>2. g[p[i]] > g[p[j]] \/ (g[p[i]] = g[p[j]] /\ p[i] < p[j])
      <4> HIDE DEF g
      <4>1. \A x, y \in DOMAIN g : x < y =>
              (g[p[x]] > g[p[y]] \/ (g[p[x]] = g[p[y]] /\ p[x] < p[y]))
        BY <2>2 DEF IsRanking
      <4>2. i \in DOMAIN g /\ j \in DOMAIN g
        BY <2>1
      <4> QED
        BY <2>4, <4>1, <4>2
    <3> HIDE DEF g
    <3> QED
      BY <3>1, <3>2
  <2> QED
    BY <2>3, <2>4
<1>2. PICK c \in T : \A k \in T : c <= k
  <2>1. T \subseteq Nat /\ n + 1 \in T
    OBVIOUS
  <2> HIDE DEF T
  <2> QED
    BY <2>1, LeastNat
<1>3. c \in 1..(n + 1) /\ (c = n + 1 \/ fit[p[c]] < v)
  OBVIOUS
<1>4. \A k \in 1..n : k < c => fit[p[k]] >= v
  <2> SUFFICES ASSUME NEW k \in 1..n, k < c, ~(fit[p[k]] >= v) PROVE FALSE
    OBVIOUS
  <2>1. fit[p[k]] \in Int /\ v \in Int /\ k \in 1..(n + 1)
    OBVIOUS
  <2>2. k \in T
    BY <2>1
  <2>3. c <= k /\ c \in Int /\ k \in Int
    <3> HIDE DEF T
    <3> QED
      BY <1>2, <1>3, <2>2
  <2> QED
    BY <2>3
<1> HIDE DEF T
<1> DEFINE q == [k \in 1..(n + 1) |-> IF k < c THEN p[k] ELSE IF k = c THEN n + 1 ELSE p[k - 1]]
<1>5. /\ \A k \in 1..(n + 1) : k < c => k \in 1..n /\ q[k] = p[k]
      /\ q[c] = n + 1
      /\ \A k \in 1..(n + 1) : c < k => k - 1 \in 1..n /\ q[k] = p[k - 1]
  BY <1>3
<1>6. q \in [1..(n + 1) -> 1..(n + 1)]
  <2> SUFFICES ASSUME NEW k \in 1..(n + 1) PROVE q[k] \in 1..(n + 1)
    OBVIOUS
  <2>1. k < c \/ k = c \/ c < k
    BY <1>3
  <2>2. \A i \in 1..n : p[i] \in 1..(n + 1)
    OBVIOUS
  <2>3. n + 1 \in 1..(n + 1)
    OBVIOUS
  <2> HIDE DEF q
  <2>4. CASE k < c
    BY <1>5, <2>2, <2>4
  <2>5. CASE k = c
    BY <1>5, <2>3, <2>5
  <2>6. CASE c < k
    BY <1>5, <2>2, <2>6
  <2> QED
    BY <2>1, <2>4, <2>5, <2>6
<1> HIDE DEF q
<1>7. ASSUME NEW m \in 1..(n + 1) PROVE \E k \in 1..(n + 1) : q[k] = m
  <2>1. CASE m = n + 1
    BY <1>3, <1>5, <2>1
  <2>2. CASE m # n + 1
    <3>1. PICK k \in 1..n : p[k] = m
      BY <1>1, <2>2
    <3>2. CASE k < c
      <4>1. k \in 1..(n + 1)
        OBVIOUS
      <4> QED
        BY <1>5, <3>1, <3>2, <4>1
    <3>3. CASE ~(k < c)
      <4>1. c < k + 1 /\ k + 1 \in 1..(n + 1) /\ (k + 1) - 1 = k
        BY <1>3, <3>3
      <4> QED
        BY <1>5, <3>1, <4>1
    <3> QED
      BY <3>2, <3>3
  <2> QED
    BY <2>1, <2>2
<1>8. ASSUME NEW i \in 1..(n + 1), NEW j \in 1..(n + 1), i < j PROVE Before(q[i], q[j])
  <2>0. i < c \/ i = c \/ c < i
    BY <1>3
  <2>1. CASE j < c
    <3>1. i < c
      BY <1>3, <1>8, <2>1
    <3> HIDE DEF Before
    <3> QED
      BY <1>1, <1>5, <1>8, <2>1, <3>1
  <2>2. CASE j = c
    <3>1. i \in 1..n /\ q[i] = p[i] /\ q[j] = n + 1 /\ fit[p[i]] >= v
      BY <1>4, <1>5, <1>8, <2>2
    <3>2. p[i] \in 1..n
      BY <3>1
    <3>3. fit[p[i]] \in Int /\ v \in Int
      BY <3>2
    <3> QED
      BY <3>1, <3>2, <3>3
  <2>3. CASE c < j /\ i < c
    <3>1. i \in 1..n /\ j - 1 \in 1..n /\ q[i] = p[i] /\ q[j] = p[j - 1]
      BY <1>5, <2>3
    <3>2. i < j - 1
      BY <1>3, <2>3
    <3> HIDE DEF Before
    <3> QED
      BY <1>1, <3>1, <3>2
  <2>4. CASE c < j /\ i = c
    <3>1. /\ j - 1 \in 1..n /\ c \in 1..n /\ c <= j - 1 /\ q[i] = n + 1 /\ q[j] = p[j - 1]
      BY <1>3, <1>5, <2>4
    <3>2. fit[p[c]] < v
      BY <1>3, <3>1
    <3>3. p[c] \in 1..n /\ p[j - 1] \in 1..n
      BY <3>1
    <3>4. fit[p[c]] \in Int /\ fit[p[j - 1]] \in Int /\ v \in Int
      <4>0. ASSUME NEW x \in 1..n PROVE fit[x] \in Int
        OBVIOUS
      <4>1. n + 1 \in 1..(n + 1)
        OBVIOUS
      <4>2. fit[n + 1] \in Int
        BY <4>1
      <4> QED
        BY <3>3, <4>0, <4>2
    <3>5. fit[p[j - 1]] < v
      <4>1. CASE j - 1 = c
        BY <3>2, <4>1
      <4>2. CASE j - 1 # c
        <5>1. Before(p[c], p[j - 1])
          <6>1. c < j - 1
            BY <3>1, <4>2
          <6> HIDE DEF Before
          <6> QED
            BY <1>1, <3>1, <6>1
        <5> QED
          BY <3>2, <3>4, <5>1
      <4> QED
        BY <4>1, <4>2
    <3> QED
      BY <3>1, <3>4, <3>5
  <2>5. CASE c < j /\ c < i
    <3>1. i - 1 \in 1..n /\ j - 1 \in 1..n /\ q[i] = p[i - 1] /\ q[j] = p[j - 1]
      BY <1>5, <2>5
    <3>2. i - 1 < j - 1
      BY <1>8
    <3> HIDE DEF Before
    <3> QED
      BY <1>1, <3>1, <3>2
  <2>6. j < c \/ j = c \/ c < j
    BY <1>3
  <2> QED
    BY <2>0, <2>1, <2>2, <2>3, <2>4, <2>5, <2>6
<1>9. DOMAIN fit = 1..(n + 1)
  OBVIOUS
<1>10. IsRanking(q, fit)
  BY <1>7, <1>8, <1>9 DEF IsRanking
<1> QED
  BY <1>6, <1>10

LEMMA RankingExists ==
  ASSUME NEW n \in Nat
  PROVE  \A fit \in [1..n -> Int] : \E p \in [1..n -> 1..n] : IsRanking(p, fit)
<1> DEFINE Ranked(m) == \A fit \in [1..m -> Int] : \E p \in [1..m -> 1..m] : IsRanking(p, fit)
           G == {m \in Nat : Ranked(m)}
<1>1. 0 \in G
  <2> SUFFICES ASSUME NEW fit \in [1..0 -> Int]
               PROVE  \E p \in [1..0 -> 1..0] : IsRanking(p, fit)
    OBVIOUS
  <2>1. 1..0 = {} /\ DOMAIN fit = {} /\ [i \in 1..0 |-> i] \in [1..0 -> 1..0]
    OBVIOUS
  <2> QED
    BY <2>1 DEF IsRanking
<1>2. ASSUME NEW m \in Nat, m \in G PROVE m + 1 \in G
  <2> SUFFICES ASSUME NEW fit \in [1..(m + 1) -> Int]
               PROVE  \E p \in [1..(m + 1) -> 1..(m + 1)] : IsRanking(p, fit)
    OBVIOUS
  <2> DEFINE g == [i \in 1..m |-> fit[i]]
  <2>1. g \in [1..m -> Int]
    OBVIOUS
  <2>2. PICK p \in [1..m -> 1..m] : IsRanking(p, g)
    BY <1>2, <2>1
  <2> QED
    BY <2>2, RankingInserts
<1>3. \A m \in Nat : m \in G
  <2> HIDE DEF G
  <2> QED
    BY <1>1, <1>2, NatInd
<1> QED
  BY <1>3

(***************************************************************************)
(* The ranking of the population begins with its best.                     *)
(***************************************************************************)
LEMMA ScoredRanks ==
  ASSUME RunsClassified, NEW S, population \in Seq(S), Len(population) > 0
  PROVE  \E m \in DOMAIN population :
           LET fs == population[m]
           IN  /\ Scored[1] = <<Fitness(RowOf(fs)), fs, RowOf(fs)>>
               /\ \A i \in DOMAIN population :
                    Fitness(RowOf(population[i])) <= Fitness(RowOf(fs))
<1> DEFINE n == Len(population)
           row == [i \in DOMAIN population |-> RowOf(population[i])]
           fit == [i \in DOMAIN population |-> Fitness(row[i])]
           place == Ranking(fit)
<1>1. n \in Nat /\ DOMAIN population = 1..n /\ 1 \in 1..n
  OBVIOUS
<1>2. /\ DOMAIN fit = 1..n
      /\ \A i \in 1..n : row[i] = RowOf(population[i]) /\ fit[i] = Fitness(RowOf(population[i]))
  BY <1>1
<1>3. fit \in [1..n -> Int]
  <2>1. \A i \in 1..n : Fitness(RowOf(population[i])) \in Int
    BY FitnessSeparates
  <2> HIDE DEF n
  <2> QED
    BY <1>1, <2>1
<1> HIDE DEF fit, n
<1>4. place \in [1..n -> 1..n] /\ IsRanking(place, fit)
  <2>1. \E p \in [DOMAIN fit -> DOMAIN fit] : IsRanking(p, fit)
    BY <1>1, <1>2, <1>3, RankingExists
  <2> QED
    BY <1>2, <2>1 DEF Ranking
<1>5. Scored = [k \in DOMAIN population |->
                  <<Fitness(row[place[k]]), population[place[k]], row[place[k]]>>]
  BY DEF Scored, fit
<1> HIDE DEF place
<1> DEFINE m == place[1]
           fs == population[m]
<1>6. m \in 1..n
  BY <1>1, <1>4
<1>7. Scored[1] = <<Fitness(RowOf(fs)), fs, RowOf(fs)>>
  BY <1>1, <1>2, <1>5, <1>6
<1>8. ASSUME NEW i \in 1..n PROVE fit[i] <= fit[m]
  <2>1. PICK k \in 1..n : place[k] = i
    BY <1>2, <1>4 DEF IsRanking
  <2>2. fit[i] \in Int /\ fit[m] \in Int
    BY <1>3, <1>6
  <2>3. CASE k = 1
    BY <2>1, <2>2, <2>3
  <2>4. CASE k # 1
    <3>1. 1 < k
      BY <1>1, <2>4
    <3>2. fit[m] > fit[i] \/ fit[m] = fit[i]
      BY <1>1, <1>2, <1>4, <2>1, <3>1 DEF IsRanking
    <3> QED
      BY <2>2, <3>2
  <2> QED
    BY <2>3, <2>4
<1>9. \A i \in 1..n : Fitness(RowOf(population[i])) <= Fitness(RowOf(fs))
  BY <1>2, <1>6, <1>8
<1> QED
  BY <1>1, <1>6, <1>7, <1>9

-----------------------------------------------------------------------------
(***************************************************************************)
(* A population is never empty, the best individual has the fitness and    *)
(* the row of its own run, and the search stops at the first exploit.      *)
(***************************************************************************)
BestInv == /\ best = NoBest \/ /\ best.row = RowOf(best.fs)
                               /\ best.fit = Fitness(RowOf(best.fs))
           /\ search = "found" <=> best # NoBest /\ best.fit >= Exploit
PopulationInv == /\ search # "idle" => /\ \E S : population \in Seq(S)
                                       /\ Len(population) > 0
                 /\ search = "breeding" => \E S : nextGen \in Seq(S)
GAInv == BestInv /\ PopulationInv

LEMMA MinNat ==
  ASSUME NEW a \in Nat, NEW b \in Nat
  PROVE  Min({a, b}) \in Nat
<1>1. \E x \in {a, b} : \A y \in {a, b} : x <= y
  OBVIOUS
<1> QED BY <1>1 DEF Min

LEMMA GAStart == GAInit => GAInv
  BY DEF GAInit, GAInv, BestInv, PopulationInv, NoBest

LEMMA RunGAKeeps ==
  ASSUME GAInv, NEW pool, RunGA(pool) PROVE GAInv'
<1>1. population' \in Seq(Samples(pool, Order)) /\ Len(population') > 0
  <2>1. population' \in [1..Population -> Samples(pool, Order)]
    BY DEF RunGA
  <2>2. Population \in Nat /\ Population > 0
    BY GAAssumption
  <2> QED BY <2>1, <2>2
<1> QED BY <1>1 DEF RunGA, GAInv, BestInv, PopulationInv

LEMMA ScoredLength ==
  ASSUME Len(population) \in Nat, DOMAIN population = 1..Len(population)
  PROVE  Len(Scored) = Len(population) /\ \E T : Scored \in Seq(T)
<1> DEFINE n == Len(population)
           T == {Scored[k] : k \in 1..n}
<1>1. DOMAIN Scored = 1..n /\ Scored = [k \in DOMAIN Scored |-> Scored[k]]
  <2> DEFINE row == [i \in DOMAIN population |-> RowOf(population[i])]
             place == Ranking([i \in DOMAIN population |-> Fitness(row[i])])
  <2>1. Scored = [k \in 1..n |-> <<Fitness(row[place[k]]), population[place[k]], row[place[k]]>>]
    BY DEF Scored
  <2> HIDE DEF row, place
  <2> QED
    BY <2>1
<1>2. Scored \in [1..n -> T]
  BY <1>1
<1>3. ASSUME NEW U, NEW k \in Nat, NEW f \in [1..k -> U] PROVE f \in Seq(U) /\ Len(f) = k
  OBVIOUS
<1> HIDE DEF T, n
<1>4. Scored \in Seq(T) /\ Len(Scored) = n
  BY <1>2, <1>3 DEF n
<1> QED
  BY <1>4 DEF n

LEMMA EvaluateKeeps ==
  ASSUME RunsClassified, GAInv, Evaluate PROVE GAInv'
<1>1. PICK S : population \in Seq(S)
  BY DEF GAInv, PopulationInv, Evaluate
<1>2. Len(population) \in Nat /\ Len(population) > 0 /\ DOMAIN population = 1..Len(population)
  BY <1>1 DEF GAInv, PopulationInv, Evaluate
<1>3. PICK m \in DOMAIN population :
        /\ scored'[1] = <<Fitness(RowOf(population[m])), population[m], RowOf(population[m])>>
        /\ \A i \in DOMAIN population :
             Fitness(RowOf(population[i])) <= Fitness(RowOf(population[m]))
  BY <1>1, <1>2, ScoredRanks DEF Evaluate
<1> DEFINE p == population[m]
<1>4. \E T : scored' \in Seq(T)
  BY <1>2, ScoredLength DEF Evaluate
<1>5. scored'[1][1] = Fitness(RowOf(p)) /\ scored'[1][2] = p /\ scored'[1][3] = RowOf(p)
  BY <1>3
<1>6. BestInv'
  BY <1>5, FitnessSeparates DEF GAInv, BestInv, Evaluate, NoBest, Exploit
<1>7. PopulationInv'
  <2>1. CASE nextGen' = <<>>
    BY <1>1, <1>2, <2>1 DEF PopulationInv, Evaluate
  <2>2. CASE nextGen' = Elites(scored')
    <3>1. PICK T : scored' \in Seq(T)
      BY <1>4
    <3>2. Min({EliteN, Len(scored')}) \in Nat
      BY <3>1, MinNat, GAAssumption
    <3>3. \E U : Elites(scored') \in Seq(U)
      <4> DEFINE n == Min({EliteN, Len(scored')})
      <4>1. Elites(scored') \in [1..n -> {scored'[i][2] : i \in 1..n}]
        BY DEF Elites
      <4>2. ASSUME NEW U, NEW k \in Nat, NEW f \in [1..k -> U] PROVE f \in Seq(U)
        OBVIOUS
      <4> HIDE DEF n
      <4> QED BY <3>2, <4>1, <4>2 DEF n
    <3> QED BY <1>1, <1>2, <2>2, <3>3 DEF PopulationInv, Evaluate
  <2> QED BY <2>1, <2>2 DEF Evaluate
<1> QED BY <1>6, <1>7 DEF GAInv

LEMMA NextGenGrows ==
  ASSUME \E S : nextGen \in Seq(S), NEW fs, nextGen' = Append(nextGen, fs)
  PROVE  \E S : nextGen' \in Seq(S)
<1>1. PICK S : nextGen \in Seq(S)
  OBVIOUS
<1>2. ASSUME NEW T, NEW q \in Seq(T), NEW x \in T PROVE Append(q, x) \in Seq(T)
  OBVIOUS
<1>3. nextGen \in Seq(S \cup {fs})
  BY <1>1
<1> QED BY <1>2, <1>3

LEMMA BreedingKeeps ==
  ASSUME GAInv, Immigrate \/ Breed PROVE GAInv'
<1>1. \E fs : nextGen' = Append(nextGen, fs)
  BY DEF Immigrate, Breed
<1>2. \E S : nextGen' \in Seq(S)
  BY <1>1, NextGenGrows DEF GAInv, PopulationInv, Immigrate, Breed
<1> QED BY <1>2 DEF Immigrate, Breed, GAInv, BestInv, PopulationInv, NoBest

-----------------------------------------------------------------------------
(***************************************************************************)
(* A list of fitnesses that grows by one that is not below its last.       *)
(***************************************************************************)
LEMMA HistoryGrows ==
  ASSUME NEW h \in Seq(Nat), \A i, j \in DOMAIN h : i <= j => h[i] <= h[j],
         NEW x \in Nat, h # <<>> => h[Len(h)] <= x
  PROVE  LET g == Append(h, x)
         IN  /\ g \in Seq(Nat) /\ g # <<>> /\ g[Len(g)] = x
             /\ \A i, j \in DOMAIN g : i <= j => g[i] <= g[j]
<1> DEFINE g == Append(h, x)
           n == Len(h)
<1>1. /\ n \in Nat /\ DOMAIN h = 1..n /\ \A i \in 1..n : h[i] \in Nat
      /\ g \in Seq(Nat) /\ g # <<>> /\ Len(g) = n + 1 /\ DOMAIN g = 1..(n + 1)
      /\ g[n + 1] = x /\ \A i \in 1..n : g[i] = h[i]
      /\ h = <<>> <=> n = 0
  OBVIOUS
<1> HIDE DEF g, n
<1>2. \A i \in 1..n : h[i] <= x
  <2> SUFFICES ASSUME NEW i \in 1..n PROVE h[i] <= x
    OBVIOUS
  <2>1. n \in 1..n /\ i <= n /\ n # 0
    BY <1>1
  <2>2. h[i] <= h[n] /\ h[n] <= x
    BY <1>1, <2>1 DEF n
  <2>3. h[i] \in Nat /\ h[n] \in Nat
    BY <1>1, <2>1
  <2> QED
    BY <2>2, <2>3
<1>3. ASSUME NEW i \in 1..(n + 1), NEW j \in 1..(n + 1), i <= j PROVE g[i] <= g[j]
  <2>1. CASE j = n + 1 /\ i = n + 1
    BY <1>1, <2>1
  <2>2. CASE j = n + 1 /\ i # n + 1
    <3>1. i \in 1..n
      BY <1>1, <2>2
    <3> QED
      BY <1>1, <1>2, <2>2, <3>1
  <2>3. CASE j # n + 1
    <3>1. i \in 1..n /\ j \in 1..n
      BY <1>1, <1>3, <2>3
    <3> QED
      BY <1>1, <1>3, <3>1
  <2> QED
    BY <2>1, <2>2, <2>3
<1> QED
  BY <1>1, <1>3 DEF g

LEMMA MinPositive ==
  ASSUME NEW a \in Nat \ {0}, NEW b \in Nat \ {0}
  PROVE  Min({a, b}) \in Nat /\ 1 \in 1..Min({a, b})
<1>1. \E y \in {a, b} : \A z \in {a, b} : y <= z
  OBVIOUS
<1>2. Min({a, b}) \in {a, b}
  BY <1>1 DEF Min
<1> QED
  BY <1>2

LEMMA EvaluateKeepsElite ==
  ASSUME RunsClassified, GAInv, EliteInv, Evaluate
  PROVE  EliteInv'
<1>1. PICK S : population \in Seq(S)
  BY DEF GAInv, PopulationInv, Evaluate
<1>2. Len(population) \in Nat /\ Len(population) > 0 /\ 1 \in DOMAIN population
      /\ DOMAIN population = 1..Len(population)
  BY <1>1 DEF GAInv, PopulationInv, Evaluate
<1>3. PICK m \in DOMAIN population :
        /\ scored'[1] = <<Fitness(RowOf(population[m])), population[m], RowOf(population[m])>>
        /\ \A i \in DOMAIN population :
             Fitness(RowOf(population[i])) <= Fitness(RowOf(population[m]))
  BY <1>1, <1>2, ScoredRanks DEF Evaluate
<1> DEFINE fs == population[m]
           x == Fitness(RowOf(fs))
           last == history[Len(history)]
<1>4. scored'[1][1] = x /\ scored'[1][2] = fs
  BY <1>3
<1>5. x \in Nat /\ Fitness(RowOf(population[1])) <= x
  BY <1>2, <1>3, FitnessSeparates
<1>6. /\ history \in Seq(Nat) /\ (\A i, j \in DOMAIN history : i <= j => history[i] <= history[j])
      /\ (history = <<>> => best.fit = -1)
      /\ (history # <<>> => best.fit = last /\ last <= x)
  BY <1>5 DEF EliteInv, NeverLosesBest, Evaluate, NoBest
<1>7. /\ history' = Append(history, x)
      /\ best'.fit = IF x > best.fit THEN x ELSE best.fit
      /\ search' \in {"found", "breeding"}
      /\ search' = "breeding" => nextGen' = Elites(scored')
  BY <1>4 DEF Evaluate
<1> HIDE DEF fs, x
<1>8. /\ history' \in Seq(Nat) /\ history' # <<>> /\ history'[Len(history')] = x
      /\ \A i, j \in DOMAIN history' : i <= j => history'[i] <= history'[j]
  BY <1>5, <1>6, <1>7, HistoryGrows
<1>9. best'.fit = x
  <2>1. CASE history = <<>>
    BY <1>5, <1>6, <1>7, <2>1
  <2>2. CASE history # <<>>
    <3>1. last \in Nat
      BY <1>6, <2>2
    <3> HIDE DEF last
    <3> QED
      BY <1>5, <1>6, <1>7, <2>2, <3>1
  <2> QED
    BY <2>1, <2>2
<1>10. Elites(scored') # <<>> /\ Elites(scored')[1] = fs
  <2>1. Len(scored') = Len(population)
    BY <1>2, ScoredLength DEF Evaluate
  <2>2. EliteN \in Nat /\ EliteN > 0
    BY GAAssumption
  <2> DEFINE k == Min({EliteN, Len(scored')})
  <2>3. k \in Nat /\ 1 \in 1..k
    BY <1>2, <2>1, <2>2, MinPositive
  <2>4. Elites(scored') = [i \in 1..k |-> scored'[i][2]]
    BY DEF Elites
  <2> HIDE DEF k
  <2>5. Elites(scored')[1] = scored'[1][2] /\ DOMAIN Elites(scored') # {}
    BY <2>3, <2>4
  <2> QED
    BY <1>4, <2>5
<1>11. NeverLosesBest'
  BY <1>8, <1>9 DEF NeverLosesBest
<1>12. search' = "breeding" =>
         nextGen' # <<>> /\ Fitness(RowOf(nextGen'[1])) = history'[Len(history')]
  BY <1>7, <1>8, <1>10 DEF x
<1> QED
  BY <1>7, <1>8, <1>11, <1>12 DEF EliteInv

LEMMA BreedingKeepsElite ==
  ASSUME GAInv, EliteInv, Immigrate \/ Breed
  PROVE  EliteInv'
<1>1. PICK fs : nextGen' = Append(nextGen, fs)
  BY DEF Immigrate, Breed
<1>2. search = "breeding" /\ UNCHANGED <<search, population, best, history>>
  BY DEF Immigrate, Breed
<1>3. PICK S : nextGen \in Seq(S)
  BY <1>2 DEF GAInv, PopulationInv
<1>4. nextGen # <<>>
  BY <1>2 DEF EliteInv
<1>5. nextGen' # <<>> /\ nextGen'[1] = nextGen[1]
  <2>1. ASSUME NEW T, NEW q \in Seq(T), NEW y \in T, q # <<>>
        PROVE  Append(q, y) # <<>> /\ Append(q, y)[1] = q[1]
    BY <2>1
  <2>2. nextGen \in Seq(S \cup {fs})
    BY <1>3
  <2> QED
    BY <1>1, <1>4, <2>1, <2>2
<1> QED
  BY <1>2, <1>5 DEF EliteInv, NeverLosesBest

LEMMA EliteStep ==
  ASSUME RunsClassified, GAInv, EliteInv, [Next]_searchVars
  PROVE  EliteInv'
<1>1. CASE BeginEvolution
  BY <1>1 DEF BeginEvolution, RunGA, EliteInv, NeverLosesBest
<1>2. CASE Evaluate
  BY <1>2, EvaluateKeepsElite
<1>3. CASE Immigrate \/ Breed
  BY <1>3, BreedingKeepsElite
<1>4. CASE NextGeneration
  BY <1>4 DEF NextGeneration, EliteInv, NeverLosesBest
<1>5. CASE RaiseGA \/ GiveUp
  BY <1>5 DEF RaiseGA, GiveUp, EliteInv, NeverLosesBest
<1>6. CASE UNCHANGED gaVars
  BY <1>6 DEF gaVars, EliteInv, NeverLosesBest
<1> QED
  BY <1>1, <1>2, <1>3, <1>4, <1>5, <1>6
  DEF Next, TakeSlice, BeginSweep, RunCampaign, BeginSearch, Evolve, GANext, searchVars

LEMMA GAStep ==
  ASSUME RunsClassified, GAInv, [Next]_searchVars PROVE GAInv'
<1>1. CASE BeginEvolution
  BY <1>1, RunGAKeeps DEF BeginEvolution
<1>2. CASE Evaluate
  BY <1>2, EvaluateKeeps
<1>3. CASE Immigrate \/ Breed
  BY <1>3, BreedingKeeps
<1>4. CASE NextGeneration
  <2>1. Len(nextGen) > 0
    BY <1>4, GAAssumption DEF NextGeneration, GAInv, PopulationInv
  <2> QED BY <1>4, <2>1 DEF NextGeneration, GAInv, BestInv, PopulationInv, NoBest
<1>5. CASE RaiseGA \/ GiveUp
  BY <1>5 DEF RaiseGA, GiveUp, GAInv, BestInv, PopulationInv, NoBest
<1>6. CASE UNCHANGED gaVars
  BY <1>6 DEF gaVars, GAInv, BestInv, PopulationInv, NoBest
<1> QED BY <1>1, <1>2, <1>3, <1>4, <1>5, <1>6
        DEF Next, TakeSlice, BeginSweep, RunCampaign, BeginSearch, Evolve, GANext, searchVars

(***************************************************************************)
(* The best individual is reported with its own row and fitness, and       *)
(* `found` is said of an exploit and of nothing else (run_ga).             *)
(***************************************************************************)
THEOREM BestReported ==
  ASSUME RunsClassified
  PROVE  Spec => []BestIsItsOwn
<1>1. Init => GAInv
  BY GAStart DEF Init
<1>2. GAInv /\ [Next]_searchVars => GAInv'
  BY GAStep
<1>3. GAInv => BestIsItsOwn
  BY FitnessSeparates DEF GAInv, BestInv, BestIsItsOwn, Exploits
<1> QED BY <1>1, <1>2, <1>3, PTL DEF Spec

(***************************************************************************)
(* No generation is worse than one before it and the reported best is the  *)
(* best of all, for every population, whatever is drawn, crossed and       *)
(* mutated, as elite_n is never below 1 (elites, ga.py:196).               *)
(***************************************************************************)
THEOREM NothingLost ==
  ASSUME RunsClassified
  PROVE  Spec => []NeverLosesBest
<1>1. Init => GAInv /\ EliteInv
  <2>1. GAInit => EliteInv
    BY DEF GAInit, EliteInv, NeverLosesBest
  <2> QED
    BY <2>1, GAStart DEF Init
<1>2. GAInv /\ EliteInv /\ [Next]_searchVars => (GAInv /\ EliteInv)'
  BY GAStep, EliteStep
<1>3. GAInv /\ EliteInv => NeverLosesBest
  BY DEF EliteInv
<1> QED
  BY <1>1, <1>2, <1>3, PTL DEF Spec

-----------------------------------------------------------------------------
(***************************************************************************)
(* The reports of a sweep.  What the reports are built from are folds of   *)
(* the library over sequences; a fold has the value its loop arrives at,   *)
(* one step per element, because a function that satisfies the library's   *)
(* recursion exists.                                                       *)
(***************************************************************************)
LEMMA LastOfRange ==
  ASSUME NEW n \in Nat, NEW s \in SUBSET (1..(n + 1)), n + 1 \in s
  PROVE  Max(s) = n + 1
<1>1. n + 1 \in s /\ \A y \in s : n + 1 >= y
  OBVIOUS
<1>2. \A x \in s : (\A y \in s : x >= y) => x = n + 1
  BY <1>1
<1> QED BY <1>1, <1>2 DEF Max

LEMMA MaxInside ==
  ASSUME NEW n \in Nat, NEW s \in SUBSET (1..n), s # {}
  PROVE  Max(s) \in s /\ \A y \in s : Max(s) >= y
<1> DEFINE T == {n - y : y \in s}
<1>0. \A x \in s : x \in 1..n
  OBVIOUS
<1>1. T \subseteq Nat /\ T # {}
  <2>1. \A x \in s : n - x \in Nat
    BY <1>0
  <2> QED BY <2>1
<1>2. PICK m \in T : \A x \in T : m <= x
  BY <1>1, LeastNat
<1>3. PICK y \in s : m = n - y
  BY <1>2
<1>4. \A x \in s : n - x \in T
  OBVIOUS
<1>5. \A x \in s : y >= x
  <2> TAKE x \in s
  <2>1. n - y <= n - x /\ x \in Int /\ y \in Int
    BY <1>0, <1>2, <1>3, <1>4
  <2> QED BY <2>1
<1> QED BY <1>5 DEF Max

(***************************************************************************)
(* A fold over the positions of a sequence, the last first (FoldLeft).     *)
(***************************************************************************)
FoldsBy(it, base, step, n) ==
  \A s \in SUBSET (1..n) :
    it[s] = IF s = {} THEN base ELSE step[Max(s)][it[s \ {Max(s)}]]

LEMMA FoldExists ==
  ASSUME NEW V, NEW base \in V, NEW n \in Nat, NEW step \in [1..n -> [V -> V]]
  PROVE  \E it \in [SUBSET (1..n) -> V] : FoldsBy(it, base, step, n)
<1> DEFINE G == {m \in 0..n : \E it \in [SUBSET (1..m) -> V] : FoldsBy(it, base, step, m)}
<1>1. 0 \in G
  <2> DEFINE it == [s \in SUBSET (1..0) |-> base]
  <2>1. it \in [SUBSET (1..0) -> V]
    OBVIOUS
  <2>2. \A s \in SUBSET (1..0) : s = {}
    OBVIOUS
  <2>3. FoldsBy(it, base, step, 0)
    BY <2>2 DEF FoldsBy
  <2> HIDE DEF it
  <2>4. 0 \in 0..n
    OBVIOUS
  <2> QED BY <2>1, <2>3, <2>4
<1>2. ASSUME NEW m \in 0..(n - 1), m \in G PROVE m + 1 \in G
  <2>1. PICK it \in [SUBSET (1..m) -> V] : FoldsBy(it, base, step, m)
    BY <1>2
  <2> DEFINE jt == [s \in SUBSET (1..(m + 1)) |->
                      IF m + 1 \in s THEN step[m + 1][it[s \ {m + 1}]] ELSE it[s]]
  <2>2. ASSUME NEW s \in SUBSET (1..(m + 1)), m + 1 \in s
        PROVE  s \ {m + 1} \in SUBSET (1..m)
    BY <2>2
  <2>3. ASSUME NEW s \in SUBSET (1..(m + 1)), m + 1 \notin s
        PROVE  s \in SUBSET (1..m)
    BY <2>3
  <2>4. m + 1 \in 1..n /\ m + 1 \in 0..n /\ m \in Nat
    OBVIOUS
  <2>5. jt \in [SUBSET (1..(m + 1)) -> V]
    <3>1. ASSUME NEW s \in SUBSET (1..(m + 1)) PROVE jt[s] \in V
      <4>1. CASE m + 1 \in s
        BY <2>2, <2>4, <4>1
      <4>2. CASE m + 1 \notin s
        BY <2>3, <4>2
      <4> QED BY <4>1, <4>2
    <3> QED BY <3>1
  <2>6. ASSUME NEW s \in SUBSET (1..(m + 1))
        PROVE  jt[s] = IF s = {} THEN base ELSE step[Max(s)][jt[s \ {Max(s)}]]
    <3>1. CASE m + 1 \in s
      <4>1. Max(s) = m + 1
        BY <2>4, <3>1, LastOfRange
      <4>2. s \ {m + 1} \in SUBSET (1..(m + 1)) /\ m + 1 \notin s \ {m + 1}
        OBVIOUS
      <4>3. jt[s \ {m + 1}] = it[s \ {m + 1}]
        BY <4>2
      <4>4. jt[s] = step[m + 1][it[s \ {m + 1}]]
        BY <3>1
      <4> HIDE DEF jt
      <4> QED BY <3>1, <4>1, <4>3, <4>4
    <3>2. CASE m + 1 \notin s
      <4>1. s \in SUBSET (1..m) /\ jt[s] = it[s]
        BY <2>3, <3>2
      <4>2. it[s] = IF s = {} THEN base ELSE step[Max(s)][it[s \ {Max(s)}]]
        BY <2>1, <4>1 DEF FoldsBy
      <4>3. \A x : /\ s \ {x} \in SUBSET (1..(m + 1)) /\ m + 1 \notin s \ {x}
        BY <3>2
      <4>4. \A x : jt[s \ {x}] = it[s \ {x}]
        BY <4>3
      <4> HIDE DEF jt
      <4> QED BY <4>1, <4>2, <4>4
    <3> QED BY <3>1, <3>2
  <2> HIDE DEF jt
  <2>7. FoldsBy(jt, base, step, m + 1)
    BY <2>6 DEF FoldsBy
  <2> QED BY <2>4, <2>5, <2>7
<1> HIDE DEF G
<1>3. n \in G
  <2>1. \A m \in 0..n : m \in G
    BY <1>1, <1>2, BoundedInd
  <2> QED BY <2>1
<1> QED BY <1>3 DEF G

LEMMA FoldPlaces ==
  ASSUME NEW n \in Nat, NEW k \in 1..n
  PROVE  /\ 1..k \in SUBSET (1..n) /\ 1..k # {} /\ Max(1..k) = k
         /\ (1..k) \ {k} = 1..(k - 1)
<1>1. k - 1 \in Nat /\ (k - 1) + 1 = k
  OBVIOUS
<1>2. 1..k \in SUBSET (1..((k - 1) + 1)) /\ (k - 1) + 1 \in 1..k
  OBVIOUS
<1>3. Max(1..k) = k
  BY <1>1, <1>2, LastOfRange
<1> QED BY <1>3

(***************************************************************************)
(* The names of the reports, one after the other (export_site_data.py,     *)
(* heatmap.py).                                                            *)
(***************************************************************************)
Intern(out, name) == IF name \in ToSet(out) THEN out ELSE Append(out, name)

LEMMA InternedRun ==
  ASSUME NEW S, NEW names \in Seq(S)
  PROVE  \E out : /\ out[0] = <<>> /\ Interned(names) = out[Len(names)]
                  /\ \A k \in 0..Len(names) : out[k] \in Seq(S)
                  /\ \A k \in 1..Len(names) : out[k] = Intern(out[k - 1], names[k])
<1> DEFINE n == Len(names)
           V == Seq(S)
           step == [k \in 1..n |-> [v \in V |-> Intern(v, names[k])]]
           Good(f) == f = [s \in SUBSET DOMAIN names |->
                         IF s = {} THEN <<>>
                         ELSE IF names[Max(s)] \in ToSet(f[s \ {Max(s)}])
                              THEN f[s \ {Max(s)}]
                              ELSE Append(f[s \ {Max(s)}], names[Max(s)])]
           it == CHOOSE f : Good(f)
           out == [k \in 0..n |-> it[1..k]]
<1>1. Interned(names) = it[DOMAIN names]
  BY DEF Interned, FoldLeft, MapThenFoldSet
<1>2. n \in Nat /\ DOMAIN names = 1..n /\ \A k \in 1..n : names[k] \in S
  OBVIOUS
<1>3. \A k \in 1..n, v \in V : Intern(v, names[k]) \in V
  BY <1>2 DEF Intern
<1>4. <<>> \in V
  OBVIOUS
<1>5. PICK f \in [SUBSET (1..n) -> V] : FoldsBy(f, <<>>, step, n)
  <2>1. step \in [1..n -> [V -> V]]
    <3> HIDE DEF V, n
    <3> QED BY <1>3
  <2> HIDE DEF step, n, V
  <2> QED BY <1>2, <1>4, <2>1, FoldExists
<1>6. Good(f)
  <2>1. ASSUME NEW s \in SUBSET (1..n)
        PROVE  f[s] = IF s = {} THEN <<>> ELSE Intern(f[s \ {Max(s)}], names[Max(s)])
    <3>1. CASE s = {}
      BY <1>5, <3>1 DEF FoldsBy
    <3>2. CASE s # {}
      <4>1. Max(s) \in 1..n /\ s \ {Max(s)} \in SUBSET (1..n)
        BY <1>2, <3>2, MaxInside
      <4>2. f[s] = step[Max(s)][f[s \ {Max(s)}]]
        BY <1>5, <3>2 DEF FoldsBy
      <4>3. f[s \ {Max(s)}] \in V
        BY <1>5, <4>1
      <4> HIDE DEF V, n
      <4> QED BY <3>2, <4>1, <4>2, <4>3
    <3> QED BY <3>1, <3>2
  <2> HIDE DEF n, V
  <2> QED BY <1>2, <1>5, <2>1 DEF Intern
<1>7. Good(it)
  BY <1>6
<1>8. ASSUME NEW k \in 1..n PROVE out[k] = Intern(out[k - 1], names[k])
  <2>1. k - 1 \in 0..n /\ k \in 0..n
    OBVIOUS
  <2>2. /\ 1..k \in SUBSET (1..n) /\ 1..k # {} /\ Max(1..k) = k
        /\ (1..k) \ {k} = 1..(k - 1)
    BY <1>2, FoldPlaces
  <2>3. \A s \in SUBSET (1..n) : s # {} =>
          it[s] = Intern(it[s \ {Max(s)}], names[Max(s)])
    BY <1>2, <1>7 DEF Intern
  <2> HIDE DEF it
  <2> QED BY <2>1, <2>2, <2>3
<1>9. out[0] = <<>> /\ Interned(names) = out[n]
  <2>1. 1..0 = {} /\ 0 \in 0..n /\ n \in 0..n
    BY <1>2
  <2>2. it[{}] = <<>>
    BY <1>7
  <2> HIDE DEF it
  <2> QED BY <1>1, <1>2, <2>1, <2>2
<1> HIDE DEF out
<1>10. \A k \in 0..n : out[k] \in V
  <2> DEFINE G == {k \in 0..n : out[k] \in V}
  <2>1. 0 \in G
    <3>1. 0 \in 0..n
      BY <1>2
    <3> HIDE DEF n, V
    <3> QED BY <1>4, <1>9, <3>1
  <2>2. ASSUME NEW k \in 0..(n - 1), k \in G PROVE k + 1 \in G
    <3>1. k + 1 \in 1..n /\ k + 1 \in 0..n /\ k + 1 - 1 = k
      BY <1>2
    <3>2. out[k + 1] = Intern(out[k], names[k + 1])
      BY <1>8, <3>1
    <3> HIDE DEF n, V
    <3> QED BY <1>3, <2>2, <3>1, <3>2
  <2> HIDE DEF G, n, V
  <2>3. \A k \in 0..n : k \in G
    BY <1>2, <2>1, <2>2, BoundedInd
  <2> QED BY <2>3 DEF G
<1> QED BY <1>8, <1>9, <1>10

(***************************************************************************)
(* The cells of the heatmap (heatmap.py).                                  *)
(***************************************************************************)
CellOf(row) == <<row.trigger, row.value, row.outcome>>
AddCell(cells, row) == IF row.outcome # "OK" THEN Append(cells, CellOf(row)) ELSE cells

LEMMA CellsRun ==
  ASSUME NEW R, NEW rows \in Seq(R)
  PROVE  \E out : /\ out[0] = <<>> /\ Cells(rows) = out[Len(rows)]
                  /\ \A k \in 0..Len(rows) : out[k] \in Seq({CellOf(r) : r \in R})
                  /\ \A k \in 1..Len(rows) : out[k] = AddCell(out[k - 1], rows[k])
<1> DEFINE n == Len(rows)
           V == Seq({CellOf(r) : r \in R})
           step == [k \in 1..n |-> [v \in V |-> AddCell(v, rows[k])]]
           Good(f) == f = [s \in SUBSET DOMAIN rows |->
                         IF s = {} THEN <<>>
                         ELSE IF rows[Max(s)].outcome # "OK"
                              THEN Append(f[s \ {Max(s)}],
                                          <<rows[Max(s)].trigger, rows[Max(s)].value,
                                            rows[Max(s)].outcome>>)
                              ELSE f[s \ {Max(s)}]]
           it == CHOOSE f : Good(f)
           out == [k \in 0..n |-> it[1..k]]
<1>1. Cells(rows) = it[DOMAIN rows]
  BY DEF Cells, FoldLeft, MapThenFoldSet
<1>2. n \in Nat /\ DOMAIN rows = 1..n /\ \A k \in 1..n : rows[k] \in R
  OBVIOUS
<1>3. \A k \in 1..n, v \in V : AddCell(v, rows[k]) \in V
  BY <1>2 DEF AddCell
<1>4. <<>> \in V
  OBVIOUS
<1>5. PICK f \in [SUBSET (1..n) -> V] : FoldsBy(f, <<>>, step, n)
  <2>1. step \in [1..n -> [V -> V]]
    <3> HIDE DEF V, n
    <3> QED BY <1>3
  <2> HIDE DEF step, n, V
  <2> QED BY <1>2, <1>4, <2>1, FoldExists
<1>6. Good(f)
  <2>1. ASSUME NEW s \in SUBSET (1..n)
        PROVE  f[s] = IF s = {} THEN <<>> ELSE AddCell(f[s \ {Max(s)}], rows[Max(s)])
    <3>1. CASE s = {}
      BY <1>5, <3>1 DEF FoldsBy
    <3>2. CASE s # {}
      <4>1. Max(s) \in 1..n /\ s \ {Max(s)} \in SUBSET (1..n)
        BY <1>2, <3>2, MaxInside
      <4>2. f[s] = step[Max(s)][f[s \ {Max(s)}]]
        BY <1>5, <3>2 DEF FoldsBy
      <4>3. f[s \ {Max(s)}] \in V
        BY <1>5, <4>1
      <4> HIDE DEF V, n
      <4> QED BY <3>2, <4>1, <4>2, <4>3
    <3> QED BY <3>1, <3>2
  <2> HIDE DEF n, V
  <2> QED BY <1>2, <1>5, <2>1 DEF AddCell, CellOf
<1>7. Good(it)
  BY <1>6
<1>8. ASSUME NEW k \in 1..n PROVE out[k] = AddCell(out[k - 1], rows[k])
  <2>1. k - 1 \in 0..n /\ k \in 0..n
    OBVIOUS
  <2>2. /\ 1..k \in SUBSET (1..n) /\ 1..k # {} /\ Max(1..k) = k
        /\ (1..k) \ {k} = 1..(k - 1)
    BY <1>2, FoldPlaces
  <2>3. \A s \in SUBSET (1..n) : s # {} =>
          it[s] = AddCell(it[s \ {Max(s)}], rows[Max(s)])
    BY <1>2, <1>7 DEF AddCell, CellOf
  <2> HIDE DEF it
  <2> QED BY <2>1, <2>2, <2>3
<1>9. out[0] = <<>> /\ Cells(rows) = out[n]
  <2>1. 1..0 = {} /\ 0 \in 0..n /\ n \in 0..n
    BY <1>2
  <2>2. it[{}] = <<>>
    BY <1>7
  <2> HIDE DEF it
  <2> QED BY <1>1, <1>2, <2>1, <2>2
<1> HIDE DEF out
<1>10. \A k \in 0..n : out[k] \in V
  <2> DEFINE G == {k \in 0..n : out[k] \in V}
  <2>1. 0 \in G
    <3>1. 0 \in 0..n
      BY <1>2
    <3> HIDE DEF n, V
    <3> QED BY <1>4, <1>9, <3>1
  <2>2. ASSUME NEW k \in 0..(n - 1), k \in G PROVE k + 1 \in G
    <3>1. k + 1 \in 1..n /\ k + 1 \in 0..n /\ k + 1 - 1 = k
      BY <1>2
    <3>2. out[k + 1] = AddCell(out[k], rows[k + 1])
      BY <1>8, <3>1
    <3> HIDE DEF n, V
    <3> QED BY <1>3, <2>2, <3>1, <3>2
  <2> HIDE DEF G, n, V
  <2>3. \A k \in 0..n : k \in G
    BY <1>2, <2>1, <2>2, BoundedInd
  <2> QED BY <2>3 DEF G
<1> QED BY <1>8, <1>9, <1>10

(***************************************************************************)
(* The run lengths of the labels (export_site_data.py).                    *)
(***************************************************************************)
RunOn(runs, v) ==
  IF runs # <<>> /\ runs[Len(runs)][1] = v
  THEN [runs EXCEPT ![Len(runs)][2] = @ + 1]
  ELSE Append(runs, <<v, 1>>)

LEMMA RunLengthsRun ==
  ASSUME NEW S, NEW labels \in Seq(S)
  PROVE  \E out : /\ out[0] = <<>> /\ RunLengths(labels) = out[Len(labels)]
                  /\ \A k \in 0..Len(labels) : out[k] \in Seq(S \X (Nat \ {0}))
                  /\ \A k \in 1..Len(labels) : out[k] = RunOn(out[k - 1], labels[k])
<1> DEFINE n == Len(labels)
           V == Seq(S \X (Nat \ {0}))
           step == [k \in 1..n |-> [v \in V |-> RunOn(v, labels[k])]]
           Good(f) == f = [s \in SUBSET DOMAIN labels |->
                         IF s = {} THEN <<>>
                         ELSE IF f[s \ {Max(s)}] # <<>>
                                 /\ f[s \ {Max(s)}][Len(f[s \ {Max(s)}])][1] = labels[Max(s)]
                              THEN [f[s \ {Max(s)}] EXCEPT ![Len(f[s \ {Max(s)}])][2] = @ + 1]
                              ELSE Append(f[s \ {Max(s)}], <<labels[Max(s)], 1>>)]
           it == CHOOSE f : Good(f)
           out == [k \in 0..n |-> it[1..k]]
<1>1. RunLengths(labels) = it[DOMAIN labels]
  BY DEF RunLengths, FoldLeft, MapThenFoldSet
<1>2. n \in Nat /\ DOMAIN labels = 1..n /\ \A k \in 1..n : labels[k] \in S
  OBVIOUS
<1>3. \A k \in 1..n, v \in V : RunOn(v, labels[k]) \in V
  <2> TAKE k \in 1..n, v \in V
  <2>1. CASE v # <<>> /\ v[Len(v)][1] = labels[k]
    <3>1. Len(v) \in DOMAIN v /\ v[Len(v)] \in S \X (Nat \ {0})
      BY <2>1
    <3>2. PICK x \in S, c \in Nat \ {0} : v[Len(v)] = <<x, c>>
      BY <3>1
    <3>3. [v[Len(v)] EXCEPT ![2] = @ + 1] = <<x, c + 1>>
      BY <3>2
    <3> QED BY <2>1, <3>1, <3>3 DEF RunOn
  <2>2. CASE ~(v # <<>> /\ v[Len(v)][1] = labels[k])
    BY <1>2, <2>2 DEF RunOn
  <2> QED BY <2>1, <2>2
<1>4. <<>> \in V
  OBVIOUS
<1>5. PICK f \in [SUBSET (1..n) -> V] : FoldsBy(f, <<>>, step, n)
  <2>1. step \in [1..n -> [V -> V]]
    <3> HIDE DEF V, n
    <3> QED BY <1>3
  <2> HIDE DEF step, n, V
  <2> QED BY <1>2, <1>4, <2>1, FoldExists
<1>6. Good(f)
  <2>1. ASSUME NEW s \in SUBSET (1..n)
        PROVE  f[s] = IF s = {} THEN <<>> ELSE RunOn(f[s \ {Max(s)}], labels[Max(s)])
    <3>1. CASE s = {}
      BY <1>5, <3>1 DEF FoldsBy
    <3>2. CASE s # {}
      <4>1. Max(s) \in 1..n /\ s \ {Max(s)} \in SUBSET (1..n)
        BY <1>2, <3>2, MaxInside
      <4>2. f[s] = step[Max(s)][f[s \ {Max(s)}]]
        BY <1>5, <3>2 DEF FoldsBy
      <4>3. f[s \ {Max(s)}] \in V
        BY <1>5, <4>1
      <4> HIDE DEF V, n
      <4> QED BY <3>2, <4>1, <4>2, <4>3
    <3> QED BY <3>1, <3>2
  <2> HIDE DEF n, V
  <2> QED BY <1>2, <1>5, <2>1 DEF RunOn
<1>7. Good(it)
  BY <1>6
<1>8. ASSUME NEW k \in 1..n PROVE out[k] = RunOn(out[k - 1], labels[k])
  <2>1. k - 1 \in 0..n /\ k \in 0..n
    OBVIOUS
  <2>2. /\ 1..k \in SUBSET (1..n) /\ 1..k # {} /\ Max(1..k) = k
        /\ (1..k) \ {k} = 1..(k - 1)
    BY <1>2, FoldPlaces
  <2>3. \A s \in SUBSET (1..n) : s # {} =>
          it[s] = RunOn(it[s \ {Max(s)}], labels[Max(s)])
    BY <1>2, <1>7 DEF RunOn
  <2> HIDE DEF it
  <2> QED BY <2>1, <2>2, <2>3
<1>9. out[0] = <<>> /\ RunLengths(labels) = out[n]
  <2>1. 1..0 = {} /\ 0 \in 0..n /\ n \in 0..n
    BY <1>2
  <2>2. it[{}] = <<>>
    BY <1>7
  <2> HIDE DEF it
  <2> QED BY <1>1, <1>2, <2>1, <2>2
<1> HIDE DEF out
<1>10. \A k \in 0..n : out[k] \in V
  <2> DEFINE G == {k \in 0..n : out[k] \in V}
  <2>1. 0 \in G
    <3>1. 0 \in 0..n
      BY <1>2
    <3> HIDE DEF n, V
    <3> QED BY <1>4, <1>9, <3>1
  <2>2. ASSUME NEW k \in 0..(n - 1), k \in G PROVE k + 1 \in G
    <3>1. k + 1 \in 1..n /\ k + 1 \in 0..n /\ k + 1 - 1 = k
      BY <1>2
    <3>2. out[k + 1] = RunOn(out[k], labels[k + 1])
      BY <1>8, <3>1
    <3> HIDE DEF n, V
    <3> QED BY <1>3, <2>2, <3>1, <3>2
  <2> HIDE DEF G, n, V
  <2>3. \A k \in 0..n : k \in G
    BY <1>2, <2>1, <2>2, BoundedInd
  <2> QED BY <2>3 DEF G
<1> QED BY <1>8, <1>9, <1>10

(***************************************************************************)
(* The bucketed map, one row after the other (export_site_data.py).        *)
(***************************************************************************)
Worsen(map, row, nb, glen) ==
  LET b == BucketOf(row.trigger, nb, glen)
  IN  IF Severity[row.outcome] > Severity[map[row.value][b]]
      THEN [map EXCEPT ![row.value][b] = row.outcome] ELSE map

RowsFit(R, widths, nb, glen) ==
  \A r \in R : /\ r.value \in widths /\ r.outcome \in Outcomes
               /\ BucketOf(r.trigger, nb, glen) \in 0..(nb - 1)

AllOK(widths, nb) == [k \in widths |-> [b \in 0..(nb - 1) |-> "OK"]]

BucketMaps(widths, nb) == [widths -> [0..(nb - 1) -> Outcomes]]

BucketSteps(out, rows, widths, nb, glen) ==
  /\ out[0] = AllOK(widths, nb) /\ Bucketed(rows, widths, nb, glen) = out[Len(rows)]
  /\ \A k \in 0..Len(rows) : out[k] \in BucketMaps(widths, nb)
  /\ \A k \in 1..Len(rows) : out[k] = Worsen(out[k - 1], rows[k], nb, glen)

LEMMA BucketedRun ==
  ASSUME NEW widths, NEW nb, NEW glen, NEW R, NEW rows \in Seq(R),
         RowsFit(R, widths, nb, glen)
  PROVE  \E out : BucketSteps(out, rows, widths, nb, glen)
<1> DEFINE n == Len(rows)
           V == [widths -> [0..(nb - 1) -> Outcomes]]
           step == [k \in 1..n |-> [v \in V |-> Worsen(v, rows[k], nb, glen)]]
           Good(f) == f = [s \in SUBSET DOMAIN rows |->
                         IF s = {} THEN [k \in widths |-> [b \in 0..(nb - 1) |-> "OK"]]
                         ELSE LET row == rows[Max(s)]
                                  map == f[s \ {Max(s)}]
                                  b == BucketOf(row.trigger, nb, glen)
                              IN  IF Severity[row.outcome] > Severity[map[row.value][b]]
                                  THEN [map EXCEPT ![row.value][b] = row.outcome] ELSE map]
           it == CHOOSE f : Good(f)
           out == [k \in 0..n |-> it[1..k]]
<1>1. Bucketed(rows, widths, nb, glen) = it[DOMAIN rows]
  BY DEF Bucketed, FoldLeft, MapThenFoldSet
<1>2. n \in Nat /\ DOMAIN rows = 1..n /\ \A k \in 1..n : rows[k] \in R
  OBVIOUS
<1>3. \A k \in 1..n, v \in V : Worsen(v, rows[k], nb, glen) \in V
  <2> TAKE k \in 1..n, v \in V
  <2> DEFINE b == BucketOf(rows[k].trigger, nb, glen)
  <2>1. b \in 0..(nb - 1) /\ rows[k].value \in widths /\ rows[k].outcome \in Outcomes
    BY <1>2 DEF RowsFit
  <2>2. [v EXCEPT ![rows[k].value][b] = rows[k].outcome] \in V
    <3> HIDE DEF b
    <3> QED BY <2>1
  <2> QED BY <2>2 DEF Worsen
<1>4. [k \in widths |-> [b \in 0..(nb - 1) |-> "OK"]] \in V
  BY DEF Outcomes
<1>5. PICK f \in [SUBSET (1..n) -> V] :
        FoldsBy(f, [k \in widths |-> [b \in 0..(nb - 1) |-> "OK"]], step, n)
  <2>1. step \in [1..n -> [V -> V]]
    <3> HIDE DEF V, n
    <3> QED BY <1>3
  <2> HIDE DEF step, n, V
  <2> QED BY <1>2, <1>4, <2>1, FoldExists
<1>6. Good(f)
  <2>1. ASSUME NEW s \in SUBSET (1..n)
        PROVE  f[s] = IF s = {} THEN [k \in widths |-> [b \in 0..(nb - 1) |-> "OK"]]
                      ELSE Worsen(f[s \ {Max(s)}], rows[Max(s)], nb, glen)
    <3>1. CASE s = {}
      BY <1>5, <3>1 DEF FoldsBy
    <3>2. CASE s # {}
      <4>1. Max(s) \in 1..n /\ s \ {Max(s)} \in SUBSET (1..n)
        BY <1>2, <3>2, MaxInside
      <4>2. f[s] = step[Max(s)][f[s \ {Max(s)}]]
        BY <1>5, <3>2 DEF FoldsBy
      <4>3. f[s \ {Max(s)}] \in V
        BY <1>5, <4>1
      <4> HIDE DEF V, n
      <4> QED BY <3>2, <4>1, <4>2, <4>3
    <3> QED BY <3>1, <3>2
  <2> HIDE DEF n, V
  <2> QED BY <1>2, <1>5, <2>1 DEF Worsen
<1>7. Good(it)
  BY <1>6
<1>8. ASSUME NEW k \in 1..n PROVE out[k] = Worsen(out[k - 1], rows[k], nb, glen)
  <2>1. k - 1 \in 0..n /\ k \in 0..n
    OBVIOUS
  <2>2. /\ 1..k \in SUBSET (1..n) /\ 1..k # {} /\ Max(1..k) = k
        /\ (1..k) \ {k} = 1..(k - 1)
    BY <1>2, FoldPlaces
  <2>3. \A s \in SUBSET (1..n) : s # {} =>
          it[s] = Worsen(it[s \ {Max(s)}], rows[Max(s)], nb, glen)
    BY <1>2, <1>7 DEF Worsen
  <2> HIDE DEF it
  <2> QED BY <2>1, <2>2, <2>3
<1>9. /\ out[0] = [k \in widths |-> [b \in 0..(nb - 1) |-> "OK"]]
      /\ Bucketed(rows, widths, nb, glen) = out[n]
  <2>1. 1..0 = {} /\ 0 \in 0..n /\ n \in 0..n
    BY <1>2
  <2>2. it[{}] = [k \in widths |-> [b \in 0..(nb - 1) |-> "OK"]]
    BY <1>7
  <2> HIDE DEF it
  <2> QED BY <1>1, <1>2, <2>1, <2>2
<1> HIDE DEF out
<1>10. \A k \in 0..n : out[k] \in V
  <2> DEFINE G == {k \in 0..n : out[k] \in V}
  <2>1. 0 \in G
    <3>1. 0 \in 0..n
      BY <1>2
    <3> HIDE DEF n, V
    <3> QED BY <1>4, <1>9, <3>1
  <2>2. ASSUME NEW k \in 0..(n - 1), k \in G PROVE k + 1 \in G
    <3>1. k + 1 \in 1..n /\ k + 1 \in 0..n /\ k + 1 - 1 = k
      BY <1>2
    <3>2. out[k + 1] = Worsen(out[k], rows[k + 1], nb, glen)
      BY <1>8, <3>1
    <3> HIDE DEF n, V
    <3> QED BY <1>3, <2>2, <3>1, <3>2
  <2> HIDE DEF G, n, V
  <2>3. \A k \in 0..n : k \in G
    BY <1>2, <2>1, <2>2, BoundedInd
  <2> QED BY <2>3 DEF G
<1> HIDE DEF it
<1>11. BucketSteps(out, rows, widths, nb, glen)
  BY <1>8, <1>9, <1>10 DEF BucketSteps, AllOK, BucketMaps
<1> QED BY <1>11

(***************************************************************************)
(* One list after the other (FlattenSeq), and the index of every name.     *)
(***************************************************************************)
Joined(q, r) == q \o r

LEMMA FlattenRun ==
  ASSUME NEW S, NEW seqs \in Seq(Seq(S)), Len(seqs) > 0
  PROVE  \E out : /\ out[1] = seqs[1] /\ FlattenSeq(seqs) = out[Len(seqs)]
                  /\ \A k \in 1..Len(seqs) : out[k] \in Seq(S)
                  /\ \A k \in 1..Len(seqs) : k > 1 => out[k] = Joined(out[k - 1], seqs[k])
<1> DEFINE n == Len(seqs)
           V == Seq(S)
           step == [k \in 1..n |-> [v \in V |-> Joined(v, seqs[k])]]
           Good(f) == f = [i \in 1..Len(seqs) |->
                             IF i = 1 THEN seqs[i] ELSE f[i - 1] \o seqs[i]]
           out == CHOOSE f : Good(f)
<1>1. n \in Nat /\ n > 0 /\ \A k \in 1..n : seqs[k] \in V
  OBVIOUS
<1>2. PICK f \in [SUBSET (1..n) -> V] : FoldsBy(f, <<>>, step, n)
  <2>1. step \in [1..n -> [V -> V]]
    <3>1. \A k \in 1..n, v \in V : Joined(v, seqs[k]) \in V
      BY <1>1 DEF Joined
    <3> HIDE DEF V, n
    <3> QED BY <3>1
  <2>2. <<>> \in V
    OBVIOUS
  <2> HIDE DEF step, n, V
  <2> QED BY <1>1, <2>1, <2>2, FoldExists
<1>3. ASSUME NEW k \in 1..n
      PROVE  f[1..k] = Joined(f[1..(k - 1)], seqs[k]) /\ f[1..k] \in V /\ f[1..(k - 1)] \in V
  <2>1. /\ 1..k \in SUBSET (1..n) /\ 1..k # {} /\ Max(1..k) = k
        /\ (1..k) \ {k} = 1..(k - 1)
    BY <1>1, FoldPlaces
  <2>2. f[1..k] = step[k][f[1..(k - 1)]] /\ 1..(k - 1) \in SUBSET (1..n)
    <3> HIDE DEF step
    <3> QED BY <1>2, <2>1 DEF FoldsBy
  <2>3. f[1..k] \in V /\ f[1..(k - 1)] \in V
    <3> HIDE DEF step, V, n
    <3> QED BY <1>2, <2>1, <2>2
  <2> HIDE DEF V, n
  <2> QED BY <2>2, <2>3
<1> DEFINE g == [i \in 1..n |-> f[1..i]]
<1>4. g[1] = seqs[1]
  <2>1. 1 \in 1..n /\ 1..(1 - 1) = {} /\ {} \in SUBSET (1..n)
    BY <1>1
  <2>2. f[{}] = <<>>
    BY <1>2, <2>1 DEF FoldsBy
  <2>3. f[1..1] = Joined(<<>>, seqs[1]) /\ seqs[1] \in V
    BY <1>1, <1>3, <2>1, <2>2
  <2> QED BY <2>1, <2>3 DEF Joined
<1>5. ASSUME NEW i \in 1..n PROVE g[i] = IF i = 1 THEN seqs[i] ELSE Joined(g[i - 1], seqs[i])
  <2>1. CASE i = 1
    BY <1>4, <2>1
  <2>2. CASE i # 1
    <3>1. i - 1 \in 1..n
      BY <2>2
    <3> QED BY <1>3, <2>2, <3>1
  <2> QED BY <2>1, <2>2
<1>6. Good(g)
  BY <1>5 DEF Joined
<1>7. Good(out)
  BY <1>6
<1>8. FlattenSeq(seqs) = out[n]
  BY <1>1 DEF FlattenSeq
<1> HIDE DEF out
<1>9. /\ out[1] = seqs[1]
      /\ \A k \in 1..n : k > 1 => out[k] = Joined(out[k - 1], seqs[k])
  <2>1. \A k \in 1..n : out[k] = IF k = 1 THEN seqs[k] ELSE Joined(out[k - 1], seqs[k])
    BY <1>7 DEF Joined
  <2>2. 1 \in 1..n
    BY <1>1
  <2>3. out[1] = seqs[1]
    BY <2>1, <2>2
  <2>4. ASSUME NEW k \in 1..n, k > 1 PROVE out[k] = Joined(out[k - 1], seqs[k])
    <3>1. k \in Nat /\ k # 1
      BY <1>1, <2>4
    <3> QED BY <2>1, <3>1
  <2> QED BY <2>3, <2>4
<1>10. \A k \in 1..n : out[k] \in V
  <2> DEFINE G == {k \in 0..n : k > 0 => out[k] \in V}
  <2>1. 0 \in G
    BY <1>1
  <2>2. ASSUME NEW k \in 0..(n - 1), k \in G PROVE k + 1 \in G
    <3>1. k + 1 \in 1..n /\ k + 1 \in 0..n /\ k + 1 - 1 = k /\ seqs[k + 1] \in V
      BY <1>1
    <3> HIDE DEF n
    <3>2. k > 0 => out[k] \in V
      BY <2>2
    <3>3. CASE k = 0
      BY <1>1, <1>9, <3>1, <3>3
    <3>4. CASE k > 0
      <4>1. k + 1 > 1 /\ k \in Nat
        BY <1>1, <3>4
      <4>2. out[k + 1] = Joined(out[k + 1 - 1], seqs[k + 1])
        BY <1>9, <3>1, <4>1
      <4>3. Joined(out[k], seqs[k + 1]) \in V
        BY <3>1, <3>2, <3>4 DEF Joined
      <4> QED BY <3>1, <4>2, <4>3
    <3>5. k \in Nat
      BY <1>1
    <3> QED BY <3>3, <3>4, <3>5
  <2> HIDE DEF G, n, V
  <2>3. \A k \in 0..n : k \in G
    BY <1>1, <2>1, <2>2, BoundedInd
  <2> QED BY <2>3, <1>1 DEF G
<1> QED BY <1>8, <1>9, <1>10

LEMMA FlattenType ==
  ASSUME NEW S, NEW seqs \in Seq(Seq(S))
  PROVE  FlattenSeq(seqs) \in Seq(S)
<1>1. CASE Len(seqs) = 0
  <2>1. FlattenSeq(seqs) = seqs /\ seqs = <<>>
    BY <1>1 DEF FlattenSeq
  <2> QED BY <2>1
<1>2. CASE Len(seqs) > 0
  <2>1. Len(seqs) \in 1..Len(seqs)
    BY <1>2
  <2> QED BY <1>2, <2>1, FlattenRun
<1> QED BY <1>1, <1>2

LEMMA FlattenAppend ==
  ASSUME NEW S, NEW seqs \in Seq(Seq(S)), NEW x \in Seq(S)
  PROVE  FlattenSeq(Append(seqs, x)) = FlattenSeq(seqs) \o x
<1> DEFINE n == Len(seqs)
           more == Append(seqs, x)
<1>1. /\ n \in Nat /\ more \in Seq(Seq(S)) /\ Len(more) = n + 1 /\ more[n + 1] = x
      /\ \A k \in 1..n : more[k] = seqs[k]
  OBVIOUS
<1>2. PICK out : /\ out[1] = more[1] /\ FlattenSeq(more) = out[n + 1]
                 /\ \A k \in 1..(n + 1) : out[k] \in Seq(S)
                 /\ \A k \in 1..(n + 1) : k > 1 => out[k] = Joined(out[k - 1], more[k])
  <2> HIDE DEF more, n
  <2>1. Len(more) > 0 /\ more \in Seq(Seq(S))
    BY <1>1
  <2>2. PICK out : /\ out[1] = more[1] /\ FlattenSeq(more) = out[Len(more)]
                   /\ \A k \in 1..Len(more) : out[k] \in Seq(S)
                   /\ \A k \in 1..Len(more) : k > 1 => out[k] = Joined(out[k - 1], more[k])
    BY <2>1, FlattenRun
  <2> QED BY <1>1, <2>2
<1> HIDE DEF more
<1>3. CASE n = 0
  <2>1. FlattenSeq(seqs) = <<>>
    BY <1>3 DEF FlattenSeq
  <2> QED BY <1>1, <1>2, <1>3, <2>1 DEF more
<1>4. CASE n > 0
  <2>1. PICK pre : /\ pre[1] = seqs[1] /\ FlattenSeq(seqs) = pre[n]
                   /\ \A k \in 1..n : pre[k] \in Seq(S)
                   /\ \A k \in 1..n : k > 1 => pre[k] = Joined(pre[k - 1], seqs[k])
    BY <1>4, FlattenRun
  <2> DEFINE G == {k \in 0..n : k > 0 => pre[k] = out[k]}
  <2>2. 0 \in G
    BY <1>1
  <2>3. ASSUME NEW k \in 0..(n - 1), k \in G PROVE k + 1 \in G
    <3>1. k + 1 \in 1..n /\ k + 1 \in 1..(n + 1) /\ k + 1 \in 0..n /\ k + 1 - 1 = k
      BY <1>1
    <3>2. CASE k = 0
      BY <1>1, <1>2, <2>1, <3>1, <3>2
    <3>3. CASE k > 0
      <4>1. pre[k] = out[k]
        BY <2>3, <3>3
      <4>2. pre[k + 1] = Joined(pre[k], seqs[k + 1]) /\ out[k + 1] = Joined(out[k], more[k + 1])
        <5>1. k + 1 > 1
          BY <3>3
        <5>2. pre[k + 1] = Joined(pre[k + 1 - 1], seqs[k + 1])
          BY <2>1, <3>1, <5>1
        <5>3. out[k + 1] = Joined(out[k + 1 - 1], more[k + 1])
          BY <1>2, <3>1, <5>1
        <5> QED BY <3>1, <5>2, <5>3
      <4> QED BY <1>1, <3>1, <4>1, <4>2
    <3> QED BY <3>2, <3>3
  <2> HIDE DEF G
  <2>4. n \in G
    <3>1. \A k \in 0..n : k \in G
      BY <1>1, <2>2, <2>3, BoundedInd
    <3> QED BY <1>1, <3>1
  <2>5. pre[n] = out[n]
    BY <1>4, <2>4 DEF G
  <2> HIDE DEF n
  <2>6. out[n + 1] = Joined(out[n], x)
    <3>1. n + 1 \in 1..(n + 1) /\ n + 1 > 1 /\ n + 1 - 1 = n
      BY <1>1, <1>4
    <3>2. out[n + 1] = Joined(out[n + 1 - 1], more[n + 1])
      BY <1>1, <1>2, <3>1
    <3> QED BY <1>1, <3>1, <3>2
  <2> QED BY <1>2, <2>1, <2>5, <2>6 DEF more, Joined
<1> QED BY <1>1, <1>3, <1>4

LEMMA InternedIndexes ==
  ASSUME NEW S, NEW names \in Seq(S)
  PROVE  /\ DOMAIN Indexed(names) = DOMAIN names
         /\ \A i \in DOMAIN names :
              Indexed(names)[i] \in Int /\ Interned(names)[Indexed(names)[i] + 1] = names[i]
<1> DEFINE n == Len(names)
<1>1. PICK out : /\ out[0] = <<>> /\ Interned(names) = out[n]
                 /\ \A k \in 0..n : out[k] \in Seq(S)
                 /\ \A k \in 1..n : out[k] = Intern(out[k - 1], names[k])
  BY InternedRun
<1>2. n \in Nat /\ DOMAIN names = 1..n
  OBVIOUS
<1> DEFINE G == {k \in 0..n : \A i \in 1..k : names[i] \in ToSet(out[k])}
<1>3. 0 \in G
  BY <1>2
<1>4. ASSUME NEW k \in 0..(n - 1), k \in G PROVE k + 1 \in G
  <2>1. k + 1 \in 1..n /\ k + 1 \in 0..n /\ k \in 0..n /\ k + 1 - 1 = k
    BY <1>2
  <2>2. out[k + 1] = Intern(out[k], names[k + 1]) /\ out[k] \in Seq(S) /\ names[k + 1] \in S
    BY <1>1, <1>2, <2>1
  <2>3. ToSet(Append(out[k], names[k + 1])) = ToSet(out[k]) \cup {names[k + 1]}
    BY <2>2, AppendToSet
  <2>4. ToSet(out[k]) \subseteq ToSet(out[k + 1]) /\ names[k + 1] \in ToSet(out[k + 1])
    BY <2>2, <2>3 DEF Intern
  <2>5. \A i \in 1..(k + 1) : i \in 1..k \/ i = k + 1
    BY <2>1
  <2> QED BY <1>4, <2>1, <2>4, <2>5
<1> HIDE DEF G
<1>5. n \in G
  <2>1. \A k \in 0..n : k \in G
    BY <1>2, <1>3, <1>4, BoundedInd
  <2> QED BY <1>2, <2>1
<1>6. ASSUME NEW i \in DOMAIN names
      PROVE  Indexed(names)[i] \in Int /\ Interned(names)[Indexed(names)[i] + 1] = names[i]
  <2>1. names[i] \in ToSet(Interned(names))
    BY <1>1, <1>2, <1>5 DEF G
  <2>2. Interned(names) \in Seq(S)
    BY <1>1, <1>2
  <2>3. PICK j \in DOMAIN Interned(names) : Interned(names)[j] = names[i]
    BY <2>1 DEF ToSet
  <2> DEFINE c == CHOOSE k \in DOMAIN Interned(names) : Interned(names)[k] = names[i]
  <2>4. c \in DOMAIN Interned(names) /\ Interned(names)[c] = names[i]
    BY <2>3
  <2>5. Indexed(names)[i] = c - 1
    BY DEF Indexed, IndexIn
  <2> HIDE DEF c
  <2>6. c \in Nat
    BY <2>2, <2>4
  <2> QED BY <2>4, <2>5, <2>6
<1>7. DOMAIN Indexed(names) = DOMAIN names
  BY DEF Indexed
<1> QED BY <1>6, <1>7

(***************************************************************************)
(* Run lengths: written out again they are the labels (rle of              *)
(* export_site_data.py).                                                   *)
(***************************************************************************)
Copies(v, c) == [i \in 1..c |-> v]
Expanded(runs) == [r \in DOMAIN runs |-> Copies(runs[r][1], runs[r][2])]
Leading(q) == [i \in 1..(Len(q) - 1) |-> q[i]]

LEMMA CopiesType ==
  ASSUME NEW S, NEW v \in S, NEW c \in Nat
  PROVE  /\ Copies(v, c) \in Seq(S) /\ Copies(v, 1) = <<v>>
         /\ Copies(v, c + 1) = Append(Copies(v, c), v)
<1>1. Copies(v, c) \in Seq(S) /\ Copies(v, c + 1) \in Seq(S) /\ Copies(v, 1) \in Seq(S)
  BY DEF Copies
<1>2. Len(Copies(v, c)) = c /\ Len(Copies(v, c + 1)) = c + 1 /\ Len(Copies(v, 1)) = 1
  BY DEF Copies
<1>3. /\ \A i \in 1..c : Copies(v, c)[i] = v
      /\ \A i \in 1..(c + 1) : Copies(v, c + 1)[i] = v
      /\ Copies(v, 1)[1] = v
  BY DEF Copies
<1>4. Copies(v, 1) = <<v>>
  BY DEF Copies
<1>5. Copies(v, c + 1) = Append(Copies(v, c), v)
  <2>1. Append(Copies(v, c), v) \in Seq(S) /\ Len(Append(Copies(v, c), v)) = c + 1
    BY <1>1, <1>2
  <2>2. \A i \in 1..(c + 1) : Append(Copies(v, c), v)[i] = v
    BY <1>1, <1>2, <1>3
  <2> QED BY <1>1, <1>2, <1>3, <2>1, <2>2
<1> QED BY <1>1, <1>4, <1>5

LEMMA ExpandedAppend ==
  ASSUME NEW S, NEW runs \in Seq(S \X (Nat \ {0})), NEW v \in S, NEW c \in Nat \ {0}
  PROVE  /\ Expanded(runs) \in Seq(Seq(S))
         /\ Expanded(Append(runs, <<v, c>>)) = Append(Expanded(runs), Copies(v, c))
<1>1. ASSUME NEW q \in Seq(S \X (Nat \ {0}))
      PROVE  /\ Expanded(q) \in Seq(Seq(S)) /\ Len(Expanded(q)) = Len(q)
             /\ DOMAIN Expanded(q) = 1..Len(q)
             /\ \A r \in 1..Len(q) : Expanded(q)[r] = Copies(q[r][1], q[r][2])
  <2>1. DOMAIN q = 1..Len(q) /\ Len(q) \in Nat
    OBVIOUS
  <2>2. ASSUME NEW r \in 1..Len(q) PROVE Copies(q[r][1], q[r][2]) \in Seq(S)
    <3>1. q[r][1] \in S /\ q[r][2] \in Nat
      BY <2>1
    <3> QED BY <3>1, CopiesType
  <2> QED BY <2>1, <2>2 DEF Expanded
<1> DEFINE more == Append(runs, <<v, c>>)
<1>2. /\ more \in Seq(S \X (Nat \ {0})) /\ Len(more) = Len(runs) + 1
      /\ more[Len(runs) + 1] = <<v, c>> /\ \A r \in 1..Len(runs) : more[r] = runs[r]
      /\ Len(runs) \in Nat
  OBVIOUS
<1> HIDE DEF more
<1>3. Copies(v, c) \in Seq(S)
  BY CopiesType
<1> DEFINE lhs == Expanded(more)
           rhs == Append(Expanded(runs), Copies(v, c))
<1>4. lhs \in Seq(Seq(S)) /\ Len(lhs) = Len(runs) + 1
  BY <1>1, <1>2
<1>5. /\ rhs \in Seq(Seq(S)) /\ Len(rhs) = Len(runs) + 1
      /\ rhs[Len(runs) + 1] = Copies(v, c)
      /\ \A r \in 1..Len(runs) : rhs[r] = Expanded(runs)[r]
  BY <1>1, <1>2, <1>3
<1>6. ASSUME NEW r \in 1..(Len(runs) + 1) PROVE lhs[r] = rhs[r]
  <2>1. lhs[r] = Copies(more[r][1], more[r][2])
    BY <1>1, <1>2
  <2>2. CASE r = Len(runs) + 1
    BY <1>2, <1>5, <2>1, <2>2
  <2>3. CASE r \in 1..Len(runs)
    BY <1>1, <1>2, <1>5, <2>1, <2>3
  <2>4. r = Len(runs) + 1 \/ r \in 1..Len(runs)
    BY <1>2
  <2> QED BY <2>2, <2>3, <2>4
<1> HIDE DEF lhs, rhs
<1>7. lhs = rhs
  BY <1>2, <1>4, <1>5, <1>6
<1> QED BY <1>1, <1>7 DEF lhs, rhs, more

LEMMA RunOnFlattens ==
  ASSUME NEW S, NEW runs \in Seq(S \X (Nat \ {0})), NEW v \in S
  PROVE  FlattenSeq(Expanded(RunOn(runs, v))) = Append(FlattenSeq(Expanded(runs)), v)
<1> DEFINE m == Len(runs)
           T == S \X (Nat \ {0})
<1>1. CASE runs # <<>> /\ runs[m][1] = v
  <2>1. m \in Nat /\ m > 0 /\ m \in DOMAIN runs /\ DOMAIN runs = 1..m
    BY <1>1
  <2>2. PICK c \in Nat \ {0} : runs[m] = <<v, c>>
    BY <1>1, <2>1
  <2> DEFINE front == Leading(runs)
  <2>3. /\ front \in Seq(T) /\ Len(front) = m - 1 /\ \A i \in 1..(m - 1) : front[i] = runs[i]
    BY <2>1 DEF Leading
  <2> HIDE DEF front, m, T
  <2>4. runs = Append(front, <<v, c>>)
    <3>1. <<v, c>> \in T
      BY <2>2 DEF T
    <3> DEFINE q == Append(front, <<v, c>>)
    <3>2. /\ q \in Seq(T) /\ Len(q) = m /\ q[m] = <<v, c>>
          /\ \A i \in 1..(m - 1) : q[i] = runs[i]
      BY <2>1, <2>3, <3>1
    <3> HIDE DEF q
    <3>3. \A i \in 1..m : q[i] = runs[i]
      <4>1. \A i \in 1..m : i = m \/ i \in 1..(m - 1)
        BY <2>1
      <4> QED BY <2>2, <3>2, <4>1
    <3>4. q = runs
      <4>1. runs \in Seq(T) /\ Len(runs) = m
        BY DEF T, m
      <4> QED BY <3>2, <3>3, <4>1
    <3> QED BY <3>4 DEF q
  <2>5. RunOn(runs, v) = Append(front, <<v, c + 1>>)
    <3>1. <<v, c + 1>> \in T
      BY <2>2 DEF T
    <3> DEFINE q == Append(front, <<v, c + 1>>)
               p == [runs EXCEPT ![m][2] = @ + 1]
    <3>2. /\ q \in Seq(T) /\ Len(q) = m /\ q[m] = <<v, c + 1>>
          /\ \A i \in 1..(m - 1) : q[i] = runs[i]
      BY <2>1, <2>3, <3>1
    <3>3. [runs[m] EXCEPT ![2] = @ + 1] = <<v, c + 1>>
      BY <2>2
    <3>4. p = [runs EXCEPT ![m] = <<v, c + 1>>]
      BY <3>3
    <3>5. p \in Seq(T) /\ Len(p) = m /\ p[m] = <<v, c + 1>>
          /\ \A i \in 1..(m - 1) : p[i] = runs[i]
      <4>1. runs \in Seq(T) /\ Len(runs) = m
        BY DEF T, m
      <4>2. p = [i \in 1..m |-> IF i = m THEN <<v, c + 1>> ELSE runs[i]]
        BY <2>1, <3>4
      <4> HIDE DEF p
      <4>3. \A i \in 1..m : p[i] \in T
        BY <2>1, <3>1, <4>1, <4>2
      <4>4. p \in Seq(T) /\ Len(p) = m
        <5>1. p \in [1..m -> T]
          BY <4>2, <4>3
        <5> QED BY <2>1, <5>1
      <4>5. p[m] = <<v, c + 1>> /\ \A i \in 1..(m - 1) : p[i] = runs[i]
        BY <2>1, <4>2
      <4> QED BY <4>4, <4>5
    <3>6. RunOn(runs, v) = p
      BY <1>1 DEF RunOn, m
    <3> HIDE DEF q, p
    <3>7. \A i \in 1..m : q[i] = p[i]
      <4>1. \A i \in 1..m : i = m \/ i \in 1..(m - 1)
        BY <2>1
      <4> QED BY <3>2, <3>5, <4>1
    <3>8. q = p
      BY <3>2, <3>5, <3>7
    <3> QED BY <3>6, <3>8 DEF q
  <2> DEFINE flat == FlattenSeq(Expanded(front))
  <2>6. Expanded(front) \in Seq(Seq(S)) /\ flat \in Seq(S)
    BY <2>3, <2>2, ExpandedAppend, FlattenType DEF T
  <2>7. FlattenSeq(Expanded(runs)) = flat \o Copies(v, c)
    <3>1. Copies(v, c) \in Seq(S)
      BY <2>2, CopiesType
    <3>2. Expanded(Append(front, <<v, c>>)) = Append(Expanded(front), Copies(v, c))
      BY <2>2, <2>3, ExpandedAppend DEF T
    <3> QED BY <2>4, <2>6, <3>1, <3>2, FlattenAppend
  <2>8. FlattenSeq(Expanded(RunOn(runs, v))) = flat \o Copies(v, c + 1)
    <3>1. Copies(v, c + 1) \in Seq(S) /\ c + 1 \in Nat \ {0}
      BY <2>2, CopiesType
    <3>2. Expanded(Append(front, <<v, c + 1>>)) = Append(Expanded(front), Copies(v, c + 1))
      BY <2>3, <3>1, ExpandedAppend DEF T
    <3> QED BY <2>5, <2>6, <3>1, <3>2, FlattenAppend
  <2>9. Copies(v, c + 1) = Append(Copies(v, c), v) /\ Copies(v, c) \in Seq(S)
    BY <2>2, CopiesType
  <2> HIDE DEF flat
  <2>10. flat \o Append(Copies(v, c), v) = Append(flat \o Copies(v, c), v)
    BY <2>6, <2>9
  <2> QED BY <2>7, <2>8, <2>9, <2>10
<1>2. CASE ~(runs # <<>> /\ runs[m][1] = v)
  <2>1. RunOn(runs, v) = Append(runs, <<v, 1>>)
    BY <1>2 DEF RunOn
  <2>2. /\ Expanded(runs) \in Seq(Seq(S))
        /\ Expanded(Append(runs, <<v, 1>>)) = Append(Expanded(runs), Copies(v, 1))
    <3>1. 1 \in Nat \ {0}
      OBVIOUS
    <3> QED BY <3>1, ExpandedAppend
  <2>3. Copies(v, 1) = <<v>> /\ <<v>> \in Seq(S)
    BY CopiesType
  <2>4. FlattenSeq(Append(Expanded(runs), <<v>>)) = FlattenSeq(Expanded(runs)) \o <<v>>
    BY <2>2, <2>3, FlattenAppend
  <2>5. FlattenSeq(Expanded(runs)) \in Seq(S)
    BY <2>2, FlattenType
  <2>6. FlattenSeq(Expanded(runs)) \o <<v>> = Append(FlattenSeq(Expanded(runs)), v)
    BY <2>5
  <2> QED BY <2>1, <2>2, <2>3, <2>4, <2>6
<1> QED BY <1>1, <1>2

LEMMA RunsDecode ==
  ASSUME NEW S, NEW labels \in Seq(S)
  PROVE  FlattenSeq(Expanded(RunLengths(labels))) = labels
<1> DEFINE n == Len(labels)
           First(k) == [i \in 1..k |-> labels[i]]
<1>1. PICK out : /\ out[0] = <<>> /\ RunLengths(labels) = out[n]
                 /\ \A k \in 0..n : out[k] \in Seq(S \X (Nat \ {0}))
                 /\ \A k \in 1..n : out[k] = RunOn(out[k - 1], labels[k])
  BY RunLengthsRun
<1>2. n \in Nat /\ \A k \in 1..n : labels[k] \in S
  OBVIOUS
<1> DEFINE G == {k \in 0..n : FlattenSeq(Expanded(out[k])) = First(k)}
<1>3. 0 \in G
  <2>1. Expanded(<<>>) = <<>>
    BY DEF Expanded
  <2>2. FlattenSeq(<<>>) = <<>>
    BY DEF FlattenSeq
  <2>3. First(0) = <<>> /\ 0 \in 0..n
    BY <1>2
  <2> QED BY <1>1, <2>1, <2>2, <2>3
<1>4. ASSUME NEW k \in 0..(n - 1), k \in G PROVE k + 1 \in G
  <2>1. k + 1 \in 1..n /\ k \in 0..n /\ k + 1 \in 0..n /\ k + 1 - 1 = k /\ k \in Nat
    BY <1>2
  <2>2. out[k + 1] = RunOn(out[k], labels[k + 1]) /\ labels[k + 1] \in S
        /\ out[k] \in Seq(S \X (Nat \ {0}))
    BY <1>1, <1>2, <2>1
  <2>3. FlattenSeq(Expanded(out[k + 1])) = Append(First(k), labels[k + 1])
    BY <1>4, <2>2, RunOnFlattens
  <2>4. Append(First(k), labels[k + 1]) = First(k + 1)
    <3>1. First(k) \in Seq(S) /\ Len(First(k)) = k
      BY <1>2, <2>1
    <3>2. First(k + 1) \in Seq(S) /\ Len(First(k + 1)) = k + 1
      BY <1>2, <2>1
    <3> QED BY <2>1, <2>2, <3>1, <3>2
  <2> QED BY <2>1, <2>3, <2>4
<1> HIDE DEF G
<1>5. n \in G
  <2>1. \A k \in 0..n : k \in G
    BY <1>2, <1>3, <1>4, BoundedInd
  <2> QED BY <1>2, <2>1
<1>6. First(n) = labels
  OBVIOUS
<1> QED BY <1>1, <1>5, <1>6 DEF G

(***************************************************************************)
(* The cells are those of the rows that are not OK (heatmap.py).           *)
(***************************************************************************)
LEMMA CellsAreHot ==
  ASSUME NEW R, NEW rows \in Seq(R)
  PROVE  ToSet(Cells(rows))
           = {CellOf(rows[i]) : i \in {j \in DOMAIN rows : rows[j].outcome # "OK"}}
<1> DEFINE n == Len(rows)
           Hot(k) == {CellOf(rows[i]) : i \in {j \in 1..k : rows[j].outcome # "OK"}}
           C == {CellOf(r) : r \in R}
<1>1. PICK out : /\ out[0] = <<>> /\ Cells(rows) = out[n]
                 /\ \A k \in 0..n : out[k] \in Seq(C)
                 /\ \A k \in 1..n : out[k] = AddCell(out[k - 1], rows[k])
  BY CellsRun
<1>2. n \in Nat /\ DOMAIN rows = 1..n /\ \A k \in 1..n : rows[k] \in R
  OBVIOUS
<1> DEFINE G == {k \in 0..n : ToSet(out[k]) = Hot(k)}
<1>3. 0 \in G
  <2>1. ToSet(<<>>) = {} /\ Hot(0) = {} /\ 0 \in 0..n
    BY <1>2 DEF ToSet
  <2> QED BY <1>1, <2>1
<1>4. ASSUME NEW k \in 0..(n - 1), k \in G PROVE k + 1 \in G
  <2>1. k + 1 \in 1..n /\ k \in 0..n /\ k + 1 \in 0..n /\ k + 1 - 1 = k
    BY <1>2
  <2>2. out[k + 1] = AddCell(out[k], rows[k + 1]) /\ rows[k + 1] \in R /\ out[k] \in Seq(C)
    BY <1>1, <1>2, <2>1
  <2>3. \A i : i \in 1..(k + 1) <=> i \in 1..k \/ i = k + 1
    BY <2>1
  <2>4. CASE rows[k + 1].outcome = "OK"
    <3>1. Hot(k + 1) = Hot(k)
      BY <2>3, <2>4
    <3> QED BY <1>4, <2>1, <2>2, <2>4, <3>1 DEF AddCell
  <2>5. CASE rows[k + 1].outcome # "OK"
    <3>1. Hot(k + 1) = Hot(k) \cup {CellOf(rows[k + 1])}
      BY <2>3, <2>5
    <3>2. CellOf(rows[k + 1]) \in C
      BY <2>2
    <3> HIDE DEF C, Hot
    <3>3. ToSet(Append(out[k], CellOf(rows[k + 1]))) = ToSet(out[k]) \cup {CellOf(rows[k + 1])}
      BY <2>2, <3>2, AppendToSet
    <3> QED BY <1>4, <2>1, <2>2, <2>5, <3>1, <3>3 DEF AddCell
  <2> QED BY <2>4, <2>5
<1> HIDE DEF G
<1>5. n \in G
  <2>1. \A k \in 0..n : k \in G
    BY <1>2, <1>3, <1>4, BoundedInd
  <2> QED BY <1>2, <2>1
<1> QED BY <1>1, <1>2, <1>5 DEF G

Badness(rows, k, b, w, nb, glen) ==
  {Severity[rows[i].outcome] :
     i \in {j \in 1..k : rows[j].value = w /\ BucketOf(rows[j].trigger, nb, glen) = b}}
  \cup {Severity["OK"]}

LEMMA SeverityNat == \A o \in Outcomes : Severity[o] \in Nat
  BY DEF Severity, Outcomes

LEMMA TwoLevels ==
  ASSUME NEW A, NEW B, NEW C, NEW m \in [A -> [B -> C]], NEW a \in A, NEW b \in B, NEW x,
         NEW v \in A, NEW d \in B
  PROVE  LET new == [m EXCEPT ![a][b] = x]
         IN  new[v][d] = IF v = a /\ d = b THEN x ELSE m[v][d]
  OBVIOUS

LEMMA BucketsHoldTheWorst ==
  ASSUME NEW widths, NEW nb, NEW glen, NEW R, NEW rows \in Seq(R),
         RowsFit(R, widths, nb, glen),
         NEW w \in widths, NEW b \in 0..(nb - 1)
  PROVE  LET worst == Severity[Bucketed(rows, widths, nb, glen)[w][b]]
             all == Badness(rows, Len(rows), b, w, nb, glen)
         IN  worst = Max(all)
<1> DEFINE n == Len(rows)
           Good(map, k) == LET worst == Severity[map[w][b]]
                               all == Badness(rows, k, b, w, nb, glen)
                           IN  worst \in all /\ \A x \in all : worst >= x
<1>1. PICK out : BucketSteps(out, rows, widths, nb, glen)
  BY BucketedRun
<1>2. n \in Nat /\ DOMAIN rows = 1..n /\ \A k \in 1..n : rows[k] \in R
  OBVIOUS
<1>3. /\ out[0] = AllOK(widths, nb) /\ Bucketed(rows, widths, nb, glen) = out[n]
      /\ \A k \in 0..n : out[k] \in BucketMaps(widths, nb)
      /\ \A k \in 1..n : out[k] = Worsen(out[k - 1], rows[k], nb, glen)
  BY <1>1 DEF BucketSteps
<1> HIDE DEF n
<1> DEFINE G == {k \in 0..n : Good(out[k], k)}
<1>4. 0 \in G
  <2>1. Badness(rows, 0, b, w, nb, glen) = {Severity["OK"]} /\ 0 \in 0..n
    BY <1>2 DEF Badness
  <2>2. out[0][w][b] = "OK" /\ Severity["OK"] \in Nat
    BY <1>3 DEF Severity, AllOK
  <2> QED BY <2>1, <2>2
<1>5. ASSUME NEW k \in 0..(n - 1), k \in G PROVE k + 1 \in G
  <2>1. k + 1 \in 1..n /\ k \in 0..n /\ k + 1 \in 0..n /\ k + 1 - 1 = k
    BY <1>2
  <2> DEFINE row == rows[k + 1]
             c == BucketOf(row.trigger, nb, glen)
             all == Badness(rows, k, b, w, nb, glen)
  <2>2. /\ out[k + 1] = Worsen(out[k], row, nb, glen)
        /\ row.value \in widths /\ row.outcome \in Outcomes /\ c \in 0..(nb - 1)
        /\ out[k] \in [widths -> [0..(nb - 1) -> Outcomes]]
    BY <1>2, <1>3, <2>1 DEF RowsFit, BucketMaps
  <2>3. \A i : i \in 1..(k + 1) <=> i \in 1..k \/ i = k + 1
    BY <2>1
  <2>4. Badness(rows, k + 1, b, w, nb, glen)
          = IF row.value = w /\ c = b THEN all \cup {Severity[row.outcome]} ELSE all
    BY <2>3 DEF Badness
  <2>5. /\ Severity[out[k][w][b]] \in all /\ \A x \in all : Severity[out[k][w][b]] >= x
    BY <1>5
  <2>6. /\ Severity[row.outcome] \in Nat
        /\ \A v \in widths, d \in 0..(nb - 1) : Severity[out[k][v][d]] \in Nat
    BY <2>2, SeverityNat
  <2>7. out[k + 1][w][b] = IF row.value = w /\ c = b
                              /\ Severity[row.outcome] > Severity[out[k][w][b]]
                           THEN row.outcome ELSE out[k][w][b]
    <3> HIDE DEF row, c
    <3>1. out[k + 1] = IF Severity[row.outcome] > Severity[out[k][row.value][c]]
                       THEN [out[k] EXCEPT ![row.value][c] = row.outcome] ELSE out[k]
      BY <2>2 DEF Worsen, c
    <3> DEFINE new == [out[k] EXCEPT ![row.value][c] = row.outcome]
    <3>2. new[w][b] = IF w = row.value /\ b = c THEN row.outcome ELSE out[k][w][b]
      <4>1. ASSUME NEW m \in [widths -> [0..(nb - 1) -> Outcomes]], NEW v \in widths,
                   NEW d \in 0..(nb - 1), NEW x
            PROVE  [m EXCEPT ![v][d] = x][w][b] = IF w = v /\ b = d THEN x ELSE m[w][b]
        OBVIOUS
      <4> QED BY <2>2, <4>1
    <3> HIDE DEF new
    <3>3. CASE Severity[row.outcome] > Severity[out[k][row.value][c]]
      <4>1. out[k + 1] = new
        BY <3>1, <3>3 DEF new
      <4> QED BY <3>2, <3>3, <4>1
    <3>4. CASE ~(Severity[row.outcome] > Severity[out[k][row.value][c]])
      BY <3>1, <3>4
    <3> QED BY <3>3, <3>4
  <2>8. \A x \in all : x \in Nat
    <3>1. \A i \in 1..k : rows[i].outcome \in Outcomes
      BY <1>2, <2>1 DEF RowsFit
    <3>2. "OK" \in Outcomes
      BY DEF Outcomes
    <3> QED BY <3>1, <3>2, SeverityNat DEF Badness
  <2> HIDE DEF row, c, all
  <2>9. Good(out[k + 1], k + 1)
    BY <2>4, <2>5, <2>6, <2>7, <2>8
  <2> QED BY <2>1, <2>9
<1>6. n \in G
  <2> HIDE DEF G
  <2>1. \A k \in 0..n : k \in G
    BY <1>2, <1>4, <1>5, BoundedInd
  <2> QED BY <1>2, <2>1
<1>7. Good(out[n], n)
  BY <1>6
<1> DEFINE worst == Severity[out[n][w][b]]
           all == Badness(rows, n, b, w, nb, glen)
<1>8. \A x \in all : x \in Nat
  <2>1. "OK" \in Outcomes /\ \A i \in 1..n : rows[i].outcome \in Outcomes
    BY <1>2 DEF Outcomes, RowsFit
  <2> QED BY <2>1, SeverityNat DEF Badness
<1>9. worst \in all /\ \A x \in all : worst >= x
  BY <1>7
<1> HIDE DEF worst, all
<1>10. \A y \in all : (\A x \in all : y >= x) => y = worst
  BY <1>8, <1>9
<1>11. Max(all) = worst
  BY <1>9, <1>10 DEF Max
<1> QED BY <1>3, <1>11 DEF worst, all, n

(***************************************************************************)
(* The sweep: one SKIP of one instruction each, and a bucket for each of   *)
(* its triggers (single_fault_sweep(), export_site_data.py).               *)
(***************************************************************************)
LEMMA OneFault ==
  ASSUME NEW f
  PROVE  FaultSet(<<f>>) = <<f>>
<1> DEFINE places == DOMAIN <<f>>
           P == {p \in Bijection(places, places) :
                   \A i, j \in places : i < j => ~KeyLess(<<f>>[p[j]], <<f>>[p[i]])}
           id == [i \in places |-> 1]
<1>1. places = {1}
  OBVIOUS
<1>2. id \in Bijection(places, places)
  BY <1>1 DEF Bijection, Injection, Surjection, IsInjective
<1>3. \A i, j \in places : ~(i < j)
  BY <1>1
<1>4. id \in P
  BY <1>2, <1>3
<1>5. \A p \in Bijection(places, places) : p[1] = 1
  BY <1>1 DEF Bijection, Injection
<1> DEFINE Ordered(p) == \A i, j \in places : i < j => ~KeyLess(<<f>>[p[j]], <<f>>[p[i]])
           inOrder == CHOOSE p \in Bijection(places, places) : Ordered(p)
<1>6. \A p : Ordered(p)
  BY <1>3
<1> HIDE DEF Ordered
<1>7. inOrder \in Bijection(places, places)
  BY <1>2, <1>6
<1>8. inOrder[1] = 1
  BY <1>5, <1>7
<1>9. FaultSet(<<f>>) = [i \in places |-> <<f>>[inOrder[i]]]
  BY DEF FaultSet, Ordered
<1> HIDE DEF inOrder
<1> QED BY <1>1, <1>8, <1>9

LEMMA BucketFits ==
  ASSUME NEW nb \in Nat \ {0}, NEW glen \in Nat \ {0}, NEW t \in 0..(glen - 1)
  PROVE  BucketOf(t, nb, glen) \in 0..(nb - 1)
<1> DEFINE a == t * nb
           q == a \div glen
<1>1. a \in Nat /\ a <= (glen - 1) * nb
  <2>1. t \in Nat /\ t <= glen - 1 /\ nb \in Nat /\ glen - 1 \in Nat
    OBVIOUS
  <2>2. \A x, y, z \in Nat : x <= y => x * z <= y * z
    OBVIOUS
  <2> QED BY <2>1, <2>2
<1>2. (glen - 1) * nb = glen * nb - nb /\ glen * nb \in Nat
  OBVIOUS
<1>3. a < glen * nb
  BY <1>1, <1>2
<1>4. q \in Int /\ glen * q <= a /\ a < glen * q + glen
  <2> HIDE DEF a
  <2> QED BY <1>1
<1> HIDE DEF a, q
<1>5. q >= 0
  <2>1. \A x \in Int : x < 0 => glen * x + glen <= 0
    OBVIOUS
  <2> QED BY <1>1, <1>4, <2>1
<1>6. q < nb
  <2>1. \A x \in Int : x >= nb => glen * x >= glen * nb
    OBVIOUS
  <2>2. glen * q \in Int /\ glen * nb \in Int
    BY <1>4
  <2> QED BY <1>1, <1>3, <1>4, <2>1, <2>2
<1>7. q \in 0..(nb - 1)
  BY <1>4, <1>5, <1>6
<1> QED BY <1>7 DEF BucketOf, a, q

SkipSets == {<<Fault(t, "SKIP", 0, w)>> : t \in 0..(GoldenLen - 1), w \in ToSet(SweepWidths)}

LEMMA SkipSetsTyped ==
  ASSUME GoldenLen \in Nat PROVE SkipSets \subseteq Seq(AnyFault)
<1>1. ToSet(SweepWidths) \subseteq Nat
  BY SearchAssumption DEF ToSet
<1>2. ASSUME NEW t \in 0..(GoldenLen - 1), NEW w \in Nat
      PROVE  <<Fault(t, "SKIP", 0, w)>> \in Seq(AnyFault)
  <2>1. t \in Nat
    OBVIOUS
  <2>2. Fault(t, "SKIP", 0, w) \in AnyFault
    BY <2>1 DEF Fault, AnyFault, FaultModels
  <2> QED BY <2>2
<1>3. ASSUME NEW x \in SkipSets PROVE x \in Seq(AnyFault)
  <2>1. PICK t \in 0..(GoldenLen - 1), w \in ToSet(SweepWidths) :
          x = <<Fault(t, "SKIP", 0, w)>>
    BY DEF SkipSets
  <2>2. w \in Nat
    BY <1>1
  <2>3. <<Fault(t, "SKIP", 0, w)>> \in Seq(AnyFault)
    BY <1>2, <2>2
  <2> QED BY <2>1, <2>3
<1> QED BY <1>3

LEMMA SweepShape ==
  ASSUME GoldenLen \in Nat
  PROVE  Sweep \in Seq(SkipSets)
<1> DEFINE n == GoldenLen
           triggers == [i \in 1..n |-> i - 1]
           skips(t) == [k \in DOMAIN SweepWidths |->
                          FaultSet(<<Fault(t, "SKIP", 0, SweepWidths[k])>>)]
           rows == [i \in 1..n |-> skips(triggers[i])]
<1>1. ASSUME NEW t \in 0..(n - 1) PROVE skips(t) \in Seq(SkipSets) /\ skips(t) \o <<>> = skips(t)
  <2>1. Len(SweepWidths) \in Nat /\ DOMAIN SweepWidths = 1..Len(SweepWidths)
    BY SearchAssumption
  <2>2. ASSUME NEW k \in DOMAIN SweepWidths
        PROVE  FaultSet(<<Fault(t, "SKIP", 0, SweepWidths[k])>>) \in SkipSets
    BY OneFault DEF SkipSets, ToSet
  <2>3. skips(t) \in Seq(SkipSets)
    BY <2>1, <2>2
  <2>4. \A q \in Seq(SkipSets) : q \o <<>> = q
    OBVIOUS
  <2> HIDE DEF skips
  <2> QED BY <2>3, <2>4
<1>2. \A i \in 1..n : triggers[i] \in 0..(n - 1)
  OBVIOUS
<1>3. DOMAIN triggers = 1..n
  OBVIOUS
<1>4. Sweep = FlattenSeq([i \in 1..n |-> skips(triggers[i]) \o <<>>])
  BY <1>3 DEF Sweep, SingleFaultSweep
<1>5. [i \in 1..n |-> skips(triggers[i]) \o <<>>] = rows
  BY <1>1, <1>2
<1>6. rows \in Seq(Seq(SkipSets))
  <2> HIDE DEF skips
  <2>1. \A i \in 1..n : skips(triggers[i]) \in Seq(SkipSets)
    BY <1>1, <1>2
  <2> QED BY <2>1
<1> HIDE DEF rows
<1> QED BY <1>4, <1>5, <1>6, FlattenType

(***************************************************************************)
(* The inductive invariant: until the search begins the campaign is that   *)
(* of the sweep of the golden run that was sliced.                         *)
(***************************************************************************)
SweepInv ==
  /\ execution \in Executions
  /\ phase \in {"slicing", "sweeping"} => CampaignInv
  /\ phase = "sweeping" => feed = Sweep

LEMMA SliceKeepsRun == SliceNext => execution' = execution
  BY DEF SliceNext, OnCode, OnMem, BeginWalk, Walk, EndWalk, trace

LEMMA CampaignKeepsFeed == CampaignNext => feed' = feed
  BY DEF CampaignNext, Caller, WorkerStep, GoldenLength, RunSerially, RaiseSerially,
         ReturnSerially, FeedChunk, CollectMap, FinishMap, CollectStream, Iterate,
         RaiseStream, FinishStream, Finish, InitWorker, Take, RunOne, PutChunk, Die, input

LEMMA SweepIsFeed ==
  ASSUME execution \in Executions
  PROVE  /\ execution \in Seq(Instruction) /\ GoldenLen \in Nat
         /\ Sweep \in Seq(SkipSets) /\ Sweep \in Seq(Seq(AnyFault))
<1>1. execution \in Seq(Instruction)
  BY ExecutionsAssumption
<1>2. GoldenLen \in Nat
  BY <1>1 DEF GoldenLen
<1>3. Sweep \in Seq(SkipSets) /\ SkipSets \subseteq Seq(AnyFault)
  BY <1>2, SweepShape, SkipSetsTyped
<1>4. \A S, T : S \subseteq T => Seq(S) \subseteq Seq(T)
  OBVIOUS
<1> QED BY <1>1, <1>2, <1>3, <1>4

LEMMA CampaignStep == CampaignInv /\ [AnyCall \/ CampaignNext]_campaignVars => CampaignInv'
  BY InvStep, FitKept, HeldKept, TallyKept DEF CampaignInv

LEMMA SweepStart == Init => SweepInv
<1>1. CampaignInit => CampaignInv
  <2>1. CampaignInit => AtRest /\ NothingReceived
    BY DEF CampaignInit, AtRest, NothingReceived
  <2> QED BY <2>1, Start, HeldStart, FitAtRest, TallyCall DEF CampaignInv
<1> QED BY <1>1 DEF Init, SliceInit, SweepInv

LEMMA SweepStep == SweepInv /\ [Next]_searchVars => SweepInv'
<1> SUFFICES ASSUME SweepInv, [Next]_searchVars PROVE SweepInv'
  OBVIOUS
<1>1. CASE TakeSlice
  <2>1. UNCHANGED <<phase, campaignVars>> /\ execution' = execution /\ phase = "slicing"
    BY <1>1, SliceKeepsRun DEF TakeSlice
  <2>2. CampaignInv'
    BY <2>1, CampaignStep DEF SweepInv
  <2> QED BY <2>1, <2>2 DEF SweepInv
<1>2. CASE BeginSweep
  <2>1. PICK d \in Drivers : Call(d, Sweep)
    BY <1>2 DEF BeginSweep
  <2>2. execution' = execution /\ phase = "slicing" /\ phase' = "sweeping"
    BY <1>2 DEF BeginSweep, sliceVars, trace
  <2>3. feed' = Sweep /\ Sweep' = Sweep
    BY <2>1, <2>2 DEF Call, Sweep, GoldenLen
  <2>4. AnyCall
    BY <2>1, <2>3, SweepIsFeed DEF AnyCall, SweepInv
  <2>5. CampaignInv'
    BY <2>2, <2>4, CampaignStep DEF SweepInv
  <2> QED BY <2>2, <2>3, <2>5 DEF SweepInv
<1>3. CASE RunCampaign
  <2>1. execution' = execution /\ phase' = phase /\ feed' = feed /\ CampaignNext
    BY <1>3, CampaignKeepsFeed DEF RunCampaign, sliceVars, trace
  <2>2. Sweep' = Sweep
    BY <2>1 DEF Sweep, GoldenLen
  <2>3. phase \in {"slicing", "sweeping"} => CampaignInv'
    BY <2>1, CampaignStep DEF SweepInv
  <2> QED BY <2>1, <2>2, <2>3 DEF SweepInv
<1>4. CASE BeginSearch \/ BeginEvolution \/ Evolve
  <2>1. execution' = execution /\ phase' \notin {"slicing", "sweeping"}
    BY <1>4 DEF BeginSearch, BeginEvolution, Evolve, sliceVars, trace
  <2> QED BY <2>1 DEF SweepInv
<1>5. CASE UNCHANGED searchVars
  <2>1. execution' = execution /\ phase' = phase /\ UNCHANGED campaignVars
    BY <1>5 DEF searchVars, sliceVars, trace
  <2>2. Sweep' = Sweep /\ feed' = feed
    BY <2>1 DEF Sweep, GoldenLen, campaignVars, input
  <2>3. phase \in {"slicing", "sweeping"} => CampaignInv'
    BY <2>1, CampaignStep DEF SweepInv
  <2> QED BY <2>1, <2>2, <2>3 DEF SweepInv
<1> QED BY <1>1, <1>2, <1>3, <1>4, <1>5 DEF Next

(***************************************************************************)
(* The rows of a finished sweep and the four reports of them.              *)
(***************************************************************************)
SkipRows == {RowOf(fs) : fs \in SkipSets}

LEMMA SkipRow ==
  ASSUME NEW fs \in SkipSets
  PROVE  /\ fs = <<Fault(RowOf(fs).trigger, "SKIP", 0, RowOf(fs).value)>>
         /\ RowOf(fs).trigger \in 0..(GoldenLen - 1)
         /\ RowOf(fs).value \in ToSet(SweepWidths)
         /\ RowOf(fs).model = 0 /\ RowOf(fs).target_reg = 0
         /\ RowOf(fs).outcome = RunOutcome(fs)
<1>1. PICK t \in 0..(GoldenLen - 1), w \in ToSet(SweepWidths) :
        fs = <<Fault(t, "SKIP", 0, w)>>
  BY DEF SkipSets
<1>2. fs[1].trigger = t /\ fs[1].model = "SKIP" /\ fs[1].target = 0 /\ fs[1].value = w
  BY <1>1 DEF Fault
<1>3. ModelCode("SKIP") = 0
  BY DEF ModelCode
<1>4. /\ RowOf(fs).trigger = t /\ RowOf(fs).value = w
      /\ RowOf(fs).model = 0 /\ RowOf(fs).target_reg = 0
      /\ RowOf(fs).outcome = RunOutcome(fs)
  BY <1>2, <1>3 DEF RowOf, FirstTrigger
<1> QED BY <1>1, <1>4

LEMMA SweptSlots ==
  ASSUME SweepInv, SweptRows
  PROVE  /\ GoldenLen \in Nat /\ execution \in Seq(Instruction)
         /\ slots \in Seq(SkipRows) /\ DOMAIN slots = 1..Len(slots)
         /\ \A i \in DOMAIN slots : feed[i] \in SkipSets /\ slots[i] = RowOf(feed[i])
<1>1. WholeInv /\ feed = Sweep /\ execution \in Executions
  BY DEF SweptRows, SweepInv, CampaignInv
<1>2. feed \in Seq(SkipSets) /\ GoldenLen \in Nat /\ execution \in Seq(Instruction)
  BY <1>1, SweepIsFeed
<1>3. /\ slots = [i \in 1..Len(feed) |-> RowOf(feed[i])]
      /\ Len(feed) \in Nat /\ DOMAIN feed = 1..Len(feed)
  BY <1>1, SlotsWhole DEF SweptRows
<1>4. \A i \in 1..Len(feed) : feed[i] \in SkipSets
  BY <1>2, <1>3
<1>5. \A i \in 1..Len(feed) : RowOf(feed[i]) \in SkipRows
  BY <1>4 DEF SkipRows
<1>6. slots \in Seq(SkipRows) /\ DOMAIN slots = 1..Len(feed) /\ Len(slots) = Len(feed)
  BY <1>3, <1>5
<1> QED BY <1>2, <1>3, <1>4, <1>6

LEMMA BucketCountFits ==
  ASSUME NEW glen \in Nat
  PROVE  LET nb == BucketCount(BucketLimit, glen)
         IN  nb \in Nat /\ (nb > 0 => glen > 0)
<1>1. BucketLimit \in Nat /\ BucketLimit > 0
  BY SearchAssumption
<1>2. \E y \in {BucketLimit, glen} : \A z \in {BucketLimit, glen} : y <= z
  BY <1>1
<1>3. LET m == Min({BucketLimit, glen})
      IN  m \in {BucketLimit, glen} /\ \A z \in {BucketLimit, glen} : m <= z
  BY <1>2 DEF Min
<1> QED BY <1>1, <1>3 DEF BucketCount

LEMMA BucketsShown ==
  ASSUME RunsClassified, SweepInv, SweptRows
  PROVE  BucketsShowTheWorst(BucketCount(BucketLimit, GoldenLen))
<1> DEFINE nb == BucketCount(BucketLimit, GoldenLen)
           widths == ToSet(SweepWidths)
<1>1. ASSUME NEW k \in widths, NEW b \in 0..(nb - 1)
      PROVE  Severity[Bucketed(slots, widths, nb, GoldenLen)[k][b]] = WorstIn(k, b, nb)
  <2>1. GoldenLen \in Nat /\ slots \in Seq(SkipRows) /\ DOMAIN slots = 1..Len(slots)
    BY SweptSlots
  <2>2. nb \in Nat /\ (nb > 0 => GoldenLen > 0)
    BY <2>1, BucketCountFits
  <2> HIDE DEF nb
  <2>3. nb \in Nat \ {0} /\ GoldenLen \in Nat \ {0}
    BY <2>1, <2>2
  <2>4. RowsFit(SkipRows, widths, nb, GoldenLen)
    <3>1. ASSUME NEW fs \in SkipSets
          PROVE  /\ RowOf(fs).value \in widths /\ RowOf(fs).outcome \in Outcomes
                 /\ BucketOf(RowOf(fs).trigger, nb, GoldenLen) \in 0..(nb - 1)
      BY <2>3, SkipRow, BucketFits DEF RunsClassified
    <3> QED BY <3>1 DEF RowsFit, SkipRows
  <2> HIDE DEF widths
  <2>5. Severity[Bucketed(slots, widths, nb, GoldenLen)[k][b]]
          = Max(Badness(slots, Len(slots), b, k, nb, GoldenLen))
    BY <2>1, <2>4, BucketsHoldTheWorst
  <2>6. Badness(slots, Len(slots), b, k, nb, GoldenLen)
          = {Severity[slots[i].outcome] :
               i \in {j \in DOMAIN slots : /\ slots[j].value = k
                                           /\ BucketOf(slots[j].trigger, nb, GoldenLen) = b}}
            \cup {Severity["OK"]}
    BY <2>1 DEF Badness
  <2> QED BY <2>5, <2>6 DEF WorstIn
<1> QED BY <1>1 DEF BucketsShowTheWorst

(***************************************************************************)
(* The trace position a label is taken at is its bucket's first one, or    *)
(* the one before it where nb does not divide b * glen.                    *)
(***************************************************************************)
LEMMA InBucket ==
  ASSUME NEW nb \in Nat \ {0}, NEW glen \in Nat \ {0}, NEW t \in Nat, NEW b \in Nat
  PROVE  BucketOf(t, nb, glen) = b <=> b * glen <= t * nb /\ t * nb < b * glen + glen
<1> DEFINE a == t * nb
           q == a \div glen
           c == b * glen
<1>1. a \in Nat /\ c \in Nat
  OBVIOUS
<1>2. q \in Int /\ glen * q <= a /\ a < glen * q + glen
  <2> HIDE DEF a
  <2> QED BY <1>1
<1>3. q = b => c = glen * q
  OBVIOUS
<1>4. \A x \in Int : /\ x < b => glen * x + glen <= b * glen
                     /\ x > b => glen * x >= b * glen + glen
  <2>1. \A x, y \in Int : x <= y => glen * x <= glen * y
    OBVIOUS
  <2>2. \A x \in Int : glen * (x + 1) = glen * x + glen
    OBVIOUS
  <2>3. glen * b = b * glen /\ glen * (b + 1) = b * glen + glen
    OBVIOUS
  <2>4. ASSUME NEW x \in Int
        PROVE  /\ x < b => glen * (x + 1) <= glen * b
               /\ x > b => glen * (b + 1) <= glen * x
    BY <2>1
  <2> QED BY <2>2, <2>3, <2>4
<1> HIDE DEF a, q
<1>5. q < b => glen * q + glen <= c
  BY <1>2, <1>4
<1>6. q > b => glen * q >= c + glen
  BY <1>2, <1>4
<1> HIDE DEF c
<1>7. q = b <=> c <= a /\ a < c + glen
  <2>1. glen * q \in Int
    BY <1>2
  <2> QED BY <1>1, <1>2, <1>3, <1>5, <1>6, <2>1
<1> QED BY <1>7 DEF BucketOf, a, q, c

LEMMA LabelPlace ==
  ASSUME NEW nb \in Nat \ {0}, NEW glen \in Nat \ {0}, nb <= glen, NEW b \in 0..(nb - 1)
  PROVE  LET q == (b * glen) \div nb
             first == Min({t \in 0..(glen - 1) : BucketOf(t, nb, glen) = b})
         IN  /\ q \in 0..(glen - 1)
             /\ \/ first = q
                \/ first = q + 1 /\ first \in 0..(glen - 1) /\ (b * glen) % nb # 0
<1> DEFINE a == b * glen
           q == a \div nb
           r == a % nb
           p == IF r = 0 THEN q ELSE q + 1
           Mine == {t \in 0..(glen - 1) : BucketOf(t, nb, glen) = b}
<1>1. a \in Nat /\ a + glen <= nb * glen
  <2>1. \A x, y, z \in Nat : x <= y => x * z <= y * z
    OBVIOUS
  <2>2. b + 1 \in Nat /\ b + 1 <= nb /\ (b + 1) * glen = a + glen
    OBVIOUS
  <2>3. a \in Nat
    OBVIOUS
  <2> HIDE DEF a
  <2> QED BY <2>1, <2>2, <2>3
<1>2. q \in Int /\ r \in 0..(nb - 1) /\ a = nb * q + r
  <2> HIDE DEF a
  <2> QED BY <1>1
<1> HIDE DEF a, q, r
<1>3. q >= 0
  <2>1. \A x \in Int : x < 0 => nb * x + nb <= 0
    OBVIOUS
  <2> QED BY <1>1, <1>2, <2>1
<1>4. \A x \in Int : nb * x = x * nb /\ (x + 1) * nb = x * nb + nb
  OBVIOUS
<1>5. p \in Nat /\ a <= p * nb /\ p * nb < a + nb /\ p * nb - nb < a
  <2>1. q * nb \in Int /\ a = q * nb + r /\ (q + 1) * nb = q * nb + nb
    BY <1>2, <1>4
  <2>2. CASE r = 0
    BY <1>2, <1>3, <2>1, <2>2
  <2>3. CASE r # 0
    BY <1>2, <1>3, <2>1, <2>3
  <2> QED BY <2>2, <2>3
<1>6. q <= p
  BY <1>2
<1>p. p = q \/ (p = q + 1 /\ r # 0)
  OBVIOUS
<1> HIDE DEF p
<1>7. p \in 0..(glen - 1)
  <2>1. p * nb < nb * glen
    BY <1>1, <1>5
  <2>2. \A x \in Nat : x >= glen => nb * x >= nb * glen
    OBVIOUS
  <2>3. p * nb = nb * p
    BY <1>5
  <2> QED BY <1>5, <2>1, <2>2, <2>3
<1>8. p \in Mine
  <2>1. a <= p * nb /\ p * nb < a + glen
    BY <1>1, <1>5
  <2> QED BY <1>5, <1>7, <2>1, InBucket DEF a
<1>9. ASSUME NEW t \in Mine PROVE p <= t
  <2>1. t \in Nat /\ a <= t * nb
    BY InBucket DEF a
  <2>2. ASSUME t < p PROVE FALSE
    <3>1. \A x, y \in Nat : x <= y => x * nb <= y * nb
      OBVIOUS
    <3>2. (t + 1) * nb <= p * nb
      BY <1>5, <2>1, <2>2, <3>1
    <3>3. t * nb \in Int /\ (t + 1) * nb = t * nb + nb
      BY <2>1
    <3> QED BY <1>1, <1>5, <2>1, <3>2, <3>3
  <2> QED BY <1>5, <2>1, <2>2
<1>10. Min(Mine) = p
  <2>1. Mine \subseteq Int
    OBVIOUS
  <2> HIDE DEF Mine
  <2>2. \A x \in Mine : (\A t \in Mine : x <= t) => x = p
    BY <1>8, <1>9, <2>1
  <2> QED BY <1>8, <1>9, <2>2 DEF Min
<1>11. q \in 0..(glen - 1)
  BY <1>2, <1>3, <1>6, <1>7
<1> QED BY <1>p, <1>7, <1>10, <1>11 DEF a, q, r, Mine

LEMMA LabelsDecoded ==
  ASSUME NEW nb \in Nat
  PROVE  DecodedLabels(nb) = BucketNames(FnsOf(Symbols),
                                         [i \in DOMAIN execution |-> execution[i].pc], nb)
<1> DEFINE pcs == [i \in DOMAIN execution |-> execution[i].pc]
           names == BucketNames(FnsOf(Symbols), pcs, nb)
           labels == Indexed(names)
           runs == RunLengths(labels)
           decoded == FlattenSeq([r \in DOMAIN runs |->
                                    [n \in 1..runs[r][2] |-> runs[r][1]]])
<1>1. names \in Seq({names[b] : b \in 1..nb})
  <2>1. names = [b \in 1..nb |-> names[b]]
    BY DEF BucketNames
  <2> HIDE DEF names
  <2> QED BY <2>1
<1> HIDE DEF names
<1>2. /\ DOMAIN labels = DOMAIN names
      /\ \A i \in DOMAIN names :
           labels[i] \in Int /\ Interned(names)[labels[i] + 1] = names[i]
  BY <1>1, InternedIndexes
<1>3. labels \in Seq(Int)
  <2>1. Len(names) \in Nat /\ DOMAIN names = 1..Len(names)
    BY <1>1
  <2>2. labels = [i \in DOMAIN names |-> labels[i]]
    BY DEF Indexed
  <2> HIDE DEF labels
  <2> QED BY <1>2, <2>1, <2>2
<1> HIDE DEF labels
<1>4. decoded = FlattenSeq(Expanded(runs))
  BY DEF Expanded, Copies
<1> HIDE DEF decoded
<1>5. decoded = labels
  BY <1>3, <1>4, RunsDecode
<1>6. names = [b \in DOMAIN decoded |-> Interned(names)[decoded[b] + 1]]
  <2>1. names = [b \in DOMAIN names |-> names[b]]
    BY <1>1
  <2> QED BY <1>2, <1>5, <2>1
<1> QED BY <1>6 DEF DecodedLabels, decoded, runs, labels, names

LEMMA LabelsShown ==
  ASSUME SweepInv, SweptRows
  PROVE  LabelsNearTheirBucket(BucketCount(BucketLimit, GoldenLen))
<1> DEFINE nb == BucketCount(BucketLimit, GoldenLen)
           pcs == [i \in DOMAIN execution |-> execution[i].pc]
           names == BucketNames(FnsOf(Symbols), pcs, nb)
<1>1. GoldenLen \in Nat /\ execution \in Seq(Instruction)
  BY SweptSlots
<1>2. nb \in Nat /\ nb <= GoldenLen
  <2>1. BucketLimit \in Int /\ GoldenLen \in Int
    BY <1>1, SearchAssumption
  <2>2. nb <= GoldenLen
    BY <2>1, MinOfTwo DEF BucketCount
  <2>3. nb \in Nat
    BY <1>1, BucketCountFits
  <2> QED BY <2>2, <2>3
<1> HIDE DEF nb
<1>3. DecodedLabels(nb) = names
  BY <1>2, LabelsDecoded
<1>4. DOMAIN names = 1..nb
  BY DEF BucketNames
<1>5. \A t \in 0..(GoldenLen - 1) : WhichFn(FnsOf(Symbols), pcs[t + 1]) = FunctionAt(t)
  <2>1. \A t \in 0..(GoldenLen - 1) : t + 1 \in DOMAIN execution
    BY <1>1 DEF GoldenLen
  <2> QED BY <2>1 DEF FunctionAt
<1>6. ASSUME NEW b \in 0..(nb - 1)
      PROVE  LET first == BucketStart(b, nb)
             IN  \/ names[b + 1] = FunctionAt(first)
                 \/ /\ (b * GoldenLen) % nb # 0 /\ first > 0
                    /\ names[b + 1] = FunctionAt(first - 1)
  <2> DEFINE q == (b * GoldenLen) \div nb
             first == BucketStart(b, nb)
  <2>1. nb \in Nat \ {0} /\ GoldenLen \in Nat \ {0} /\ b \in Nat /\ b + 1 \in 1..nb
    BY <1>1, <1>2
  <2>2. /\ q \in 0..(GoldenLen - 1)
        /\ first = q \/ (first = q + 1 /\ (b * GoldenLen) % nb # 0)
    BY <1>2, <2>1, LabelPlace DEF BucketStart
  <2>3. names[b + 1] = WhichFn(FnsOf(Symbols), pcs[q + 1])
    <3>1. Len(pcs) = GoldenLen
      BY <1>1 DEF GoldenLen
    <3>2. (b + 1) - 1 = b
      BY <2>1
    <3> HIDE DEF pcs
    <3> QED BY <2>1, <3>1, <3>2 DEF BucketNames
  <2>4. names[b + 1] = FunctionAt(q)
    <3> HIDE DEF names, pcs, q
    <3> QED BY <1>5, <2>2, <2>3
  <2> HIDE DEF names, q, first
  <2>5. CASE first = q
    BY <2>4, <2>5 DEF first
  <2>6. CASE first = q + 1 /\ (b * GoldenLen) % nb # 0
    <3>1. first > 0 /\ first - 1 = q
      BY <2>2, <2>6
    <3> QED BY <2>4, <2>6, <3>1 DEF first
  <2> QED BY <2>2, <2>5, <2>6
<1> HIDE DEF names
<1>7. LabelsNearTheirBucket(nb)
  BY <1>3, <1>4, <1>6 DEF LabelsNearTheirBucket
<1> QED BY <1>7 DEF nb

LEMMA HeatmapShown ==
  ASSUME SweepInv, SweptRows PROVE HeatmapIsLossless
<1> DEFINE pcs == [i \in DOMAIN execution |-> execution[i].pc]
           fns == FnsOf(Symbols)
           columns == ColumnNames(fns, pcs, GoldenLen)
           hot == {j \in DOMAIN slots : slots[j].outcome # "OK"}
           CellsAt(i) == {x \in ToSet(Cells(slots)) :
                            x[1] = slots[i].trigger /\ x[2] = slots[i].value}
<1>1. /\ GoldenLen \in Nat /\ slots \in Seq(SkipRows)
      /\ \A i \in DOMAIN slots : feed[i] \in SkipSets /\ slots[i] = RowOf(feed[i])
  BY SweptSlots
<1>2. ToSet(Cells(slots)) = {CellOf(slots[j]) : j \in hot}
  BY <1>1, CellsAreHot
<1>3. ASSUME NEW i \in DOMAIN slots
      PROVE  {c[3] : c \in CellsAt(i)} = {slots[i].outcome} \ {"OK"}
  <2>1. ASSUME NEW j \in DOMAIN slots, slots[j].trigger = slots[i].trigger,
               slots[j].value = slots[i].value
        PROVE  slots[j].outcome = slots[i].outcome
    <3>1. feed[j] = feed[i]
      BY <1>1, <2>1, SkipRow
    <3> QED BY <1>1, <3>1
  <2>2. \A j \in DOMAIN slots :
          /\ CellOf(slots[j])[1] = slots[j].trigger /\ CellOf(slots[j])[2] = slots[j].value
          /\ CellOf(slots[j])[3] = slots[j].outcome
    BY DEF CellOf
  <2>3. ASSUME NEW c \in CellsAt(i) PROVE c[3] \in {slots[i].outcome} \ {"OK"}
    <3>1. PICK j \in hot : c = CellOf(slots[j])
      BY <1>2
    <3>2. slots[j].trigger = slots[i].trigger /\ slots[j].value = slots[i].value
      BY <2>2, <3>1
    <3> QED BY <2>1, <2>2, <3>1, <3>2
  <2>4. ASSUME slots[i].outcome # "OK"
        PROVE  CellOf(slots[i]) \in CellsAt(i) /\ CellOf(slots[i])[3] = slots[i].outcome
    BY <1>2, <2>2, <2>4
  <2> HIDE DEF CellsAt
  <2> QED BY <2>3, <2>4
<1>4. ASSUME NEW c \in ToSet(Cells(slots))
      PROVE  Interned(columns)[Indexed(columns)[c[1] + 1] + 1] = WhichFn(fns, pcs[c[1] + 1])
  <2>1. PICK j \in hot : c = CellOf(slots[j])
    BY <1>2
  <2>2. c[1] \in 0..(GoldenLen - 1)
    BY <1>1, <2>1, SkipRow DEF CellOf
  <2>3. c[1] + 1 \in 1..GoldenLen
    BY <1>1, <2>2
  <2>4. columns[c[1] + 1] = WhichFn(fns, pcs[c[1] + 1]) /\ DOMAIN columns = 1..GoldenLen
    BY <2>3 DEF ColumnNames
  <2>5. columns \in Seq({columns[i] : i \in 1..GoldenLen})
    <3>1. columns = [i \in 1..GoldenLen |-> columns[i]]
      BY DEF ColumnNames
    <3> HIDE DEF columns
    <3> QED BY <1>1, <3>1
  <2> HIDE DEF columns, fns, pcs
  <2> QED BY <2>3, <2>4, <2>5, InternedIndexes
<1> QED BY <1>3, <1>4 DEF HeatmapIsLossless

LEMMA RowReplays ==
  ASSUME SweepInv, SweptRows PROVE StoredRowReplays
<1>1. ASSUME NEW i \in DOMAIN slots
      PROVE  \E m \in FaultModels :
               /\ ModelCode(m) = Stored(slots[i]).model
               /\ FaultSet(<<Fault(Stored(slots[i]).trigger, m, Stored(slots[i]).target_reg,
                                   Stored(slots[i]).value)>>) = feed[i]
  <2>1. feed[i] \in SkipSets /\ slots[i] = RowOf(feed[i])
    BY SweptSlots
  <2>2. /\ Stored(slots[i]).model = slots[i].model
        /\ Stored(slots[i]).trigger = slots[i].trigger
        /\ Stored(slots[i]).target_reg = slots[i].target_reg
        /\ Stored(slots[i]).value = slots[i].value
    BY DEF Stored, Schema
  <2>3. "SKIP" \in FaultModels /\ ModelCode("SKIP") = 0
    BY DEF FaultModels, ModelCode
  <2> QED BY <2>1, <2>2, <2>3, SkipRow, OneFault
<1> QED BY <1>1 DEF StoredRowReplays

(***************************************************************************)
(* The reports of a sweep show what it found, for every golden run, widths,*)
(* symbol table and outcome of the runs, and whichever driver ran it:      *)
(* every bucket its worst outcome, the heatmap every outcome at its        *)
(* function, the run lengths a function at most one instruction before its *)
(* bucket, and a stored row the single fault it was (export_site_data.py,  *)
(* heatmap.py, store.py).                                                  *)
(***************************************************************************)
THEOREM SweepReported ==
  ASSUME RunsClassified
  PROVE  Spec => []ReportsShowTheSweep
<1>1. SweepInv => ReportsShowTheSweep
  BY BucketsShown, HeatmapShown, LabelsShown, RowReplays DEF ReportsShowTheSweep
<1> QED BY <1>1, SweepStart, SweepStep, PTL DEF Spec

-----------------------------------------------------------------------------
(***************************************************************************)
(* The experiments of a seeded search.                                     *)
(***************************************************************************)

(***************************************************************************)
(* The sort key of a fault, (trigger, model, mask, target_reg, value), and *)
(* its order: tuples compare at their first difference (faults.py).        *)
(***************************************************************************)
LEMMA KeyTyped ==
  ASSUME NEW f \in AnyFault
  PROVE  /\ FaultKey(f) \in [1..5 -> Int] /\ Len(FaultKey(f)) = 5
         /\ FaultKey(f)[1] = f.trigger
<1>1. ModelCode(f.model) \in Nat
  BY DEF ModelCode, AnyFault, FaultModels
<1> DEFINE k == FaultKey(f)
<1>2. /\ k[1] \in Int /\ k[2] \in Int /\ k[3] \in Int /\ k[4] \in Int /\ k[5] \in Int
      /\ k[1] = f.trigger
  BY <1>1 DEF FaultKey, AnyFault
<1>3. k \in [1..5 -> Int] /\ Len(k) = 5
  <2>1. k \in Seq(Int) /\ Len(k) = 5
    BY <1>1 DEF FaultKey, AnyFault
  <2> HIDE DEF k
  <2> QED BY <2>1
<1> QED BY <1>2, <1>3

(***************************************************************************)
(* Two keys compare like tuples.                                           *)
(***************************************************************************)
Precedes(a, b) == \E i \in 1..5 : a[i] < b[i] /\ \A j \in 1..(i - 1) : a[j] = b[j]

LEMMA KeyLessIs ==
  ASSUME NEW f \in AnyFault, NEW g \in AnyFault
  PROVE  KeyLess(f, g) <=> Precedes(FaultKey(f), FaultKey(g))
<1>1. Len(FaultKey(f)) = 5 /\ Len(FaultKey(g)) = 5
  BY KeyTyped
<1>2. Min({5, 5}) = 5
  BY DEF Min
<1> QED BY <1>1, <1>2 DEF KeyLess, TupleLess, Precedes

LEMMA PrecedesOrders ==
  ASSUME NEW a \in [1..5 -> Int], NEW b \in [1..5 -> Int], NEW c \in [1..5 -> Int]
  PROVE  /\ ~Precedes(a, a)
         /\ Precedes(a, b) /\ Precedes(b, c) => Precedes(a, c)
         /\ a[1] < b[1] => Precedes(a, b)
<1>1. ~Precedes(a, a)
  BY DEF Precedes
<1>2. ASSUME Precedes(a, b), Precedes(b, c) PROVE Precedes(a, c)
  <2>1. PICK i \in 1..5 : a[i] < b[i] /\ \A j \in 1..(i - 1) : a[j] = b[j]
    BY <1>2 DEF Precedes
  <2>2. PICK k \in 1..5 : b[k] < c[k] /\ \A j \in 1..(k - 1) : b[j] = c[j]
    BY <1>2 DEF Precedes
  <2>3. CASE i <= k
    <3>1. a[i] < c[i]
      BY <2>1, <2>2, <2>3
    <3>2. \A j \in 1..(i - 1) : a[j] = c[j]
      BY <2>1, <2>2, <2>3
    <3> QED BY <3>1, <3>2 DEF Precedes
  <2>4. CASE k < i
    <3>1. a[k] < c[k]
      BY <2>1, <2>2, <2>4
    <3>2. \A j \in 1..(k - 1) : a[j] = c[j]
      BY <2>1, <2>2, <2>4
    <3> QED BY <3>1, <3>2 DEF Precedes
  <2> QED BY <2>3, <2>4
<1>3. a[1] < b[1] => Precedes(a, b)
  <2>1. 1 \in 1..5 /\ \A j \in 1..(1 - 1) : FALSE
    OBVIOUS
  <2> QED BY <2>1 DEF Precedes
<1> QED BY <1>1, <1>2, <1>3

LEMMA KeysOrder ==
  ASSUME NEW f \in AnyFault, NEW g \in AnyFault, NEW h \in AnyFault
  PROVE  /\ ~KeyLess(f, f)
         /\ KeyLess(f, g) /\ KeyLess(g, h) => KeyLess(f, h)
         /\ ~KeyLess(g, f) => f.trigger <= g.trigger
<1>1. /\ FaultKey(f) \in [1..5 -> Int] /\ FaultKey(g) \in [1..5 -> Int]
      /\ FaultKey(h) \in [1..5 -> Int]
      /\ FaultKey(f)[1] = f.trigger /\ FaultKey(g)[1] = g.trigger
  BY KeyTyped
<1>2. f.trigger \in Int /\ g.trigger \in Int
  BY DEF AnyFault
<1> QED BY <1>1, <1>2, KeyLessIs, PrecedesOrders

(***************************************************************************)
(* sorted() has an answer for faults too.                                  *)
(***************************************************************************)
InKeyOrder(q, p) ==
  \A i, j \in DOMAIN q : i < j => ~KeyLess(q[p[j]], q[p[i]])

LEMMA SortExists ==
  ASSUME NEW q \in Seq(AnyFault)
  PROVE  \E p \in Bijection(DOMAIN q, DOMAIN q) : InKeyOrder(q, p)
<1> DEFINE n == Len(q)
           Below(i) == {m \in 1..n : KeyLess(q[m], q[i])}
           fit == [i \in 1..n |-> 0 - Cardinality(Below(i))]
<1>1. n \in Nat /\ DOMAIN q = 1..n /\ \A i \in 1..n : q[i] \in AnyFault
  OBVIOUS
<1> HIDE DEF n
<1>2. IsFiniteSet(1..n)
  BY <1>1, FS_Interval
<1>3. \A i \in 1..n : IsFiniteSet(Below(i)) /\ Cardinality(Below(i)) \in Nat
  BY <1>2, FS_Subset, FS_CardinalityType
<1>4. ASSUME NEW i \in 1..n, NEW j \in 1..n, KeyLess(q[j], q[i])
      PROVE  Cardinality(Below(j)) < Cardinality(Below(i))
  <2>1. Below(j) \subseteq Below(i)
    BY <1>1, <1>4, KeysOrder
  <2>2. j \in Below(i) /\ j \notin Below(j)
    BY <1>1, <1>4, KeysOrder
  <2> HIDE DEF Below
  <2>3. Below(j) # Below(i)
    BY <2>2
  <2> QED BY <1>3, <2>1, <2>3, FS_Subset
<1> HIDE DEF Below
<1>5. fit \in [1..n -> Int] /\ DOMAIN fit = 1..n
  BY <1>3
<1>6. \A i \in 1..n : fit[i] = 0 - Cardinality(Below(i))
  OBVIOUS
<1> HIDE DEF fit
<1>7. PICK p \in [1..n -> 1..n] : IsRanking(p, fit)
  BY <1>1, <1>5, RankingExists
<1>8. \A i, j \in 1..n : i < j => \/ fit[p[i]] > fit[p[j]]
                                  \/ fit[p[i]] = fit[p[j]] /\ p[i] < p[j]
  BY <1>5, <1>7 DEF IsRanking
<1>9. \A m \in 1..n : \E k \in 1..n : p[k] = m
  BY <1>5, <1>7 DEF IsRanking
<1>10. \A i, j \in 1..n : i < j => p[i] # p[j]
  BY <1>5, <1>8
<1>11. p \in Bijection(1..n, 1..n)
  <2>1. \A i, j \in 1..n : p[i] = p[j] => i = j
    BY <1>10
  <2> QED BY <1>9, <2>1 DEF Bijection, Injection, Surjection, IsInjective
<1>12. ASSUME NEW i \in 1..n, NEW j \in 1..n, i < j
       PROVE  ~KeyLess(q[p[j]], q[p[i]])
  <2>1. fit[p[i]] >= fit[p[j]] /\ p[i] \in 1..n /\ p[j] \in 1..n
    BY <1>5, <1>8, <1>12
  <2>2. /\ fit[p[i]] = 0 - Cardinality(Below(p[i]))
        /\ fit[p[j]] = 0 - Cardinality(Below(p[j]))
        /\ Cardinality(Below(p[i])) \in Nat /\ Cardinality(Below(p[j])) \in Nat
    BY <1>3, <1>6, <2>1
  <2>3. ~(Cardinality(Below(p[j])) < Cardinality(Below(p[i])))
    BY <2>1, <2>2
  <2> QED BY <1>4, <2>1, <2>3
<1> QED BY <1>1, <1>11, <1>12 DEF InKeyOrder

LEMMA FaultSetSorts ==
  ASSUME NEW q \in Seq(AnyFault)
  PROVE  \E p \in Bijection(DOMAIN q, DOMAIN q) :
           /\ FaultSet(q) = [i \in DOMAIN q |-> q[p[i]]]
           /\ InKeyOrder(q, p)
<1> DEFINE p == CHOOSE p \in Bijection(DOMAIN q, DOMAIN q) : InKeyOrder(q, p)
<1>1. p \in Bijection(DOMAIN q, DOMAIN q) /\ InKeyOrder(q, p)
  BY SortExists
<1>2. FaultSet(q) = [i \in DOMAIN q |-> q[p[i]]]
  BY DEF FaultSet, InKeyOrder
<1> HIDE DEF p
<1> QED BY <1>1, <1>2

LEMMA FaultSetTyped ==
  ASSUME NEW q \in Seq(AnyFault)
  PROVE  /\ FaultSet(q) \in Seq(AnyFault) /\ Len(FaultSet(q)) = Len(q)
         /\ DOMAIN FaultSet(q) = DOMAIN q
         /\ ToSet(FaultSet(q)) = ToSet(q)
         /\ \A i, j \in DOMAIN q : i < j => FaultSet(q)[i].trigger <= FaultSet(q)[j].trigger
<1>1. PICK p \in Bijection(DOMAIN q, DOMAIN q) :
        FaultSet(q) = [i \in DOMAIN q |-> q[p[i]]] /\ InKeyOrder(q, p)
  BY FaultSetSorts
<1> DEFINE n == Len(q)
           s == FaultSet(q)
<1>2. n \in Nat /\ DOMAIN q = 1..n /\ \A i \in 1..n : q[i] \in AnyFault
  OBVIOUS
<1>3. p \in [1..n -> 1..n] /\ \A m \in 1..n : \E k \in 1..n : p[k] = m
  BY <1>1, <1>2 DEF Bijection, Injection, Surjection
<1> HIDE DEF n
<1>4. DOMAIN s = 1..n /\ \A i \in 1..n : s[i] = q[p[i]] /\ s[i] \in AnyFault
  BY <1>1, <1>2, <1>3
<1>5. s = [i \in 1..n |-> s[i]]
  BY <1>1, <1>2, <1>3
<1> HIDE DEF s
<1>6. s \in Seq(AnyFault) /\ Len(s) = n
  BY <1>2, <1>4, <1>5
<1>7. ToSet(s) = ToSet(q)
  BY <1>2, <1>3, <1>4 DEF ToSet
<1>8. \A i, j \in 1..n : i < j => s[i].trigger <= s[j].trigger
  <2>1. \A i, j \in 1..n : i < j => ~KeyLess(s[j], s[i])
    BY <1>1, <1>2, <1>4 DEF InKeyOrder
  <2> QED BY <1>4, <2>1, KeysOrder
<1> QED BY <1>2, <1>4, <1>6, <1>7, <1>8 DEF s, n

(***************************************************************************)
(* A list of faults is separated when its triggers are pairwise far apart, *)
(* in whatever order it is given: the code sorts them first (faults.py).   *)
(***************************************************************************)
FarFrom(f, g, M) == f.trigger - g.trigger >= M \/ g.trigger - f.trigger >= M

PairwiseFar(q, M) == \A i, j \in DOMAIN q : i # j => FarFrom(q[i], q[j], M)

LEMMA SeparatedIs ==
  ASSUME NEW q \in Seq(AnyFault), NEW M \in Nat
  PROVE  Separated(q, M) <=> PairwiseFar(q, M)
<1>1. PICK p \in Bijection(DOMAIN q, DOMAIN q) : FaultSet(q) = [i \in DOMAIN q |-> q[p[i]]]
  BY FaultSetSorts
<1> DEFINE n == Len(q)
           s == FaultSet(q)
<1>2. n \in Nat /\ DOMAIN q = 1..n /\ \A i \in 1..n : q[i] \in AnyFault
  OBVIOUS
<1>3. /\ p \in [1..n -> 1..n] /\ \A m \in 1..n : \E k \in 1..n : p[k] = m
      /\ \A i, j \in 1..n : p[i] = p[j] => i = j
  BY <1>1, <1>2 DEF Bijection, Injection, Surjection, IsInjective
<1> HIDE DEF n
<1>4. \A i \in 1..n : s[i] = q[p[i]] /\ s[i] \in AnyFault
  BY <1>1, <1>2, <1>3
<1>5. Len(s) = n /\ \A i, j \in 1..n : i < j => s[i].trigger <= s[j].trigger
  BY <1>2, FaultSetTyped DEF n
<1>6. Separated(q, M) <=> \A i \in 1..(n - 1) : s[i + 1].trigger - s[i].trigger >= M
  BY <1>5 DEF Separated
<1>7. \A i \in 1..n : s[i].trigger \in Nat
  BY <1>4 DEF AnyFault
<1> HIDE DEF s
<1>8. ASSUME \A i \in 1..(n - 1) : s[i + 1].trigger - s[i].trigger >= M PROVE PairwiseFar(q, M)
  <2>1. ASSUME NEW k \in 1..n, NEW l \in 1..n, k < l
        PROVE  s[l].trigger - s[k].trigger >= M
    <3>1. k \in 1..(n - 1) /\ k + 1 \in 1..n /\ (k + 1 = l \/ k + 1 < l)
      BY <1>2, <2>1
    <3>2. s[k + 1].trigger <= s[l].trigger
      BY <1>5, <1>7, <3>1
    <3>3. s[k + 1].trigger - s[k].trigger >= M
      BY <1>8, <3>1
    <3> QED BY <1>7, <3>1, <3>2, <3>3
  <2>2. ASSUME NEW i \in 1..n, NEW j \in 1..n, i # j PROVE FarFrom(q[i], q[j], M)
    <3>1. PICK k \in 1..n : p[k] = i
      BY <1>3
    <3>2. PICK l \in 1..n : p[l] = j
      BY <1>3
    <3>3. s[k] = q[i] /\ s[l] = q[j] /\ (k < l \/ l < k)
      BY <1>2, <1>4, <2>2, <3>1, <3>2
    <3> QED BY <2>1, <3>3 DEF FarFrom
  <2> QED BY <1>2, <2>2 DEF PairwiseFar
<1>9. ASSUME PairwiseFar(q, M), NEW i \in 1..(n - 1)
      PROVE  s[i + 1].trigger - s[i].trigger >= M
  <2>1. i \in 1..n /\ i + 1 \in 1..n /\ i < i + 1 /\ i # i + 1
    BY <1>2
  <2>2. p[i] \in 1..n /\ p[i + 1] \in 1..n /\ p[i] # p[i + 1]
    <3>1. p[i] = p[i + 1] => i = i + 1
      BY <1>3, <2>1, Zenon
    <3> QED BY <1>3, <2>1, <3>1
  <2>3. FarFrom(s[i], s[i + 1], M)
    BY <1>2, <1>4, <1>9, <2>1, <2>2 DEF PairwiseFar
  <2> DEFINE a == s[i].trigger
             b == s[i + 1].trigger
  <2>4. a <= b /\ a \in Nat /\ b \in Nat
    BY <1>5, <1>7, <2>1
  <2>5. a - b >= M \/ b - a >= M
    BY <2>3 DEF FarFrom
  <2> HIDE DEF a, b
  <2>6. b - a >= M
    BY <2>4, <2>5
  <2> QED BY <2>6 DEF a, b
<1> QED BY <1>6, <1>8, <1>9

(***************************************************************************)
(* Sorted, a separated list has rising triggers.                           *)
(***************************************************************************)
Rising(q) == \A i, j \in DOMAIN q : i < j => q[i].trigger < q[j].trigger

LEMMA SeparatedSorted ==
  ASSUME NEW q \in Seq(AnyFault), NEW M \in Nat
  PROVE  /\ Separated(FaultSet(q), M) <=> Separated(q, M)
         /\ M > 0 /\ Separated(q, M) => Rising(FaultSet(q))
<1>1. PICK p \in Bijection(DOMAIN q, DOMAIN q) : FaultSet(q) = [i \in DOMAIN q |-> q[p[i]]]
  BY FaultSetSorts
<1> DEFINE n == Len(q)
           s == FaultSet(q)
<1>2. n \in Nat /\ DOMAIN q = 1..n /\ \A i \in 1..n : q[i] \in AnyFault
  OBVIOUS
<1>3. /\ p \in [1..n -> 1..n] /\ \A m \in 1..n : \E k \in 1..n : p[k] = m
      /\ \A i, j \in 1..n : p[i] = p[j] => i = j
  BY <1>1, <1>2 DEF Bijection, Injection, Surjection, IsInjective
<1> HIDE DEF n
<1>4. DOMAIN s = 1..n /\ \A i \in 1..n : s[i] = q[p[i]] /\ s[i] \in AnyFault
  BY <1>1, <1>2, <1>3
<1>5. s \in Seq(AnyFault) /\ \A i, j \in 1..n : i < j => s[i].trigger <= s[j].trigger
  BY <1>2, FaultSetTyped DEF n
<1> HIDE DEF s
<1>6. PairwiseFar(s, M) <=> PairwiseFar(q, M)
  <2>1. ASSUME PairwiseFar(q, M) PROVE PairwiseFar(s, M)
    <3>1. ASSUME NEW i \in 1..n, NEW j \in 1..n, i # j PROVE FarFrom(s[i], s[j], M)
      <4>1. p[i] \in 1..n /\ p[j] \in 1..n /\ p[i] # p[j]
        BY <1>3, <3>1
      <4> QED BY <1>2, <1>4, <2>1, <4>1 DEF PairwiseFar
    <3> QED BY <1>4, <3>1 DEF PairwiseFar
  <2>2. ASSUME PairwiseFar(s, M) PROVE PairwiseFar(q, M)
    <3>1. ASSUME NEW i \in 1..n, NEW j \in 1..n, i # j PROVE FarFrom(q[i], q[j], M)
      <4>1. PICK k \in 1..n : p[k] = i
        BY <1>3
      <4>2. PICK l \in 1..n : p[l] = j
        BY <1>3
      <4>3. s[k] = q[i] /\ s[l] = q[j] /\ k # l
        BY <1>4, <3>1, <4>1, <4>2
      <4> QED BY <1>4, <2>2, <4>3 DEF PairwiseFar
    <3> QED BY <1>2, <3>1 DEF PairwiseFar
  <2> QED BY <2>1, <2>2
<1>7. Separated(s, M) <=> Separated(q, M)
  BY <1>5, <1>6, SeparatedIs
<1>8. ASSUME M > 0, Separated(q, M) PROVE Rising(s)
  <2>1. PairwiseFar(s, M)
    BY <1>6, <1>8, SeparatedIs
  <2>2. ASSUME NEW i \in 1..n, NEW j \in 1..n, i < j PROVE s[i].trigger < s[j].trigger
    <3>1. FarFrom(s[i], s[j], M) /\ s[i].trigger <= s[j].trigger
      BY <1>2, <1>4, <1>5, <2>1, <2>2 DEF PairwiseFar
    <3>2. s[i].trigger \in Nat /\ s[j].trigger \in Nat
      BY <1>4 DEF AnyFault
    <3> QED BY <1>8, <3>1, <3>2 DEF FarFrom
  <2> QED BY <1>4, <2>2 DEF Rising
<1> QED BY <1>7, <1>8 DEF s

(***************************************************************************)
(* A set of faults with different triggers has one order.                  *)
(***************************************************************************)
LEMMA RisingPrefix ==
  ASSUME NEW q \in Seq(AnyFault), NEW r \in Seq(AnyFault), Rising(q), Rising(r),
         ToSet(q) = ToSet(r)
  PROVE  \A k \in Nat : k \in DOMAIN q /\ k \in DOMAIN r => q[k] = r[k]
<1> DEFINE Same == {k \in Nat : \A i \in 1..k : i \in DOMAIN q /\ i \in DOMAIN r => q[i] = r[i]}
<1>1. 0 \in Same
  OBVIOUS
<1>2. /\ \A i \in DOMAIN q : i \in Nat /\ q[i].trigger \in Nat
      /\ \A i \in DOMAIN r : i \in Nat /\ r[i].trigger \in Nat
  <2>1. /\ \A i \in DOMAIN q : i \in Nat /\ q[i] \in AnyFault
        /\ \A i \in DOMAIN r : i \in Nat /\ r[i] \in AnyFault
    OBVIOUS
  <2> QED BY <2>1 DEF AnyFault
<1>3. ASSUME NEW k \in Nat, k \in Same PROVE k + 1 \in Same
  <2>1. ASSUME k + 1 \in DOMAIN q, k + 1 \in DOMAIN r PROVE q[k + 1] = r[k + 1]
    <3>1. PICK m \in DOMAIN r : r[m] = q[k + 1]
      BY <2>1 DEF ToSet
    <3>2. PICK l \in DOMAIN q : q[l] = r[k + 1]
      BY <2>1 DEF ToSet
    <3>3. \A i \in 1..k : i \in DOMAIN q /\ i \in DOMAIN r => q[i] = r[i]
      BY <1>3
    <3>4. ~(m < k + 1)
      <4>1. ASSUME m < k + 1 PROVE FALSE
        <5>1. m \in 1..k /\ m \in DOMAIN q
          BY <1>2, <2>1, <4>1
        <5>2. q[m] = q[k + 1]
          BY <3>1, <3>3, <5>1
        <5>3. q[m].trigger < q[k + 1].trigger
          BY <2>1, <4>1, <5>1 DEF Rising
        <5> QED BY <1>2, <2>1, <5>1, <5>2, <5>3
      <4> QED BY <4>1
    <3>5. ~(l < k + 1)
      <4>1. ASSUME l < k + 1 PROVE FALSE
        <5>1. l \in 1..k /\ l \in DOMAIN r
          BY <1>2, <2>1, <4>1
        <5>2. r[l] = r[k + 1]
          BY <3>2, <3>3, <5>1
        <5>3. r[l].trigger < r[k + 1].trigger
          BY <2>1, <4>1, <5>1 DEF Rising
        <5> QED BY <1>2, <2>1, <5>1, <5>2, <5>3
      <4> QED BY <4>1
    <3>6. m > k + 1 => r[k + 1].trigger < q[k + 1].trigger
      BY <2>1, <3>1 DEF Rising
    <3>7. l = k + 1 \/ q[k + 1].trigger < r[k + 1].trigger
      <4>1. l > k + 1 => q[k + 1].trigger < q[l].trigger
        BY <2>1 DEF Rising
      <4> QED BY <1>2, <3>2, <3>5, <4>1
    <3>8. m = k + 1 \/ m > k + 1
      BY <1>2, <3>4
    <3> QED BY <1>2, <2>1, <3>1, <3>2, <3>6, <3>7, <3>8
  <2>2. \A i \in 1..(k + 1) : i \in 1..k \/ i = k + 1
    OBVIOUS
  <2> QED BY <1>3, <2>1, <2>2
<1> HIDE DEF Same
<1>4. \A k \in Nat : k \in Same
  BY <1>1, <1>3, NatInd
<1>5. ASSUME NEW k \in Nat, k \in DOMAIN q, k \in DOMAIN r PROVE q[k] = r[k]
  <2>1. k \in 1..k
    BY <1>5
  <2> QED BY <1>4, <1>5, <2>1 DEF Same
<1> QED BY <1>5

LEMMA RisingShorter ==
  ASSUME NEW q \in Seq(AnyFault), NEW r \in Seq(AnyFault), Rising(q), Rising(r),
         ToSet(q) = ToSet(r)
  PROVE  Len(q) >= Len(r)
<1> SUFFICES ASSUME Len(q) < Len(r) PROVE FALSE
  OBVIOUS
<1> DEFINE i == Len(q) + 1
<1>1. i \in DOMAIN r /\ i \in Nat
  OBVIOUS
<1>2. PICK l \in DOMAIN q : q[l] = r[i]
  BY <1>1 DEF ToSet
<1>3. l \in Nat /\ l < i /\ l \in DOMAIN r
  OBVIOUS
<1> HIDE DEF i
<1>4. r[l] = r[i]
  BY <1>2, <1>3, RisingPrefix
<1>5. r[l].trigger < r[i].trigger
  BY <1>1, <1>3 DEF Rising
<1>6. r[i] \in AnyFault
  BY <1>1
<1>7. r[i].trigger \in Nat
  BY <1>6 DEF AnyFault
<1> QED BY <1>4, <1>5, <1>7

LEMMA RisingUnique ==
  ASSUME NEW q \in Seq(AnyFault), NEW r \in Seq(AnyFault), Rising(q), Rising(r),
         ToSet(q) = ToSet(r)
  PROVE  q = r
<1>1. Len(q) = Len(r)
  BY RisingShorter
<1>2. DOMAIN q = DOMAIN r /\ \A k \in DOMAIN q : q[k] = r[k]
  BY <1>1, RisingPrefix
<1> QED BY <1>2

(***************************************************************************)
(* The combinations that are kept, one after the other (faults.py).        *)
(***************************************************************************)
KeepFar(sets, c, M) == IF Separated(c, M) THEN Append(sets, FaultSet(c)) ELSE sets

StreamSteps(out, combos, stream, M) ==
  /\ out[0] = <<>> /\ stream = out[Len(combos)]
  /\ \A k \in 0..Len(combos) : out[k] \in Seq(Seq(AnyFault))
  /\ \A k \in 1..Len(combos) : out[k] = KeepFar(out[k - 1], combos[k], M)

LEMMA StreamRun ==
  ASSUME NEW pool, NEW order, NEW M, Combinations(pool, order) \in Seq(Seq(AnyFault))
  PROVE  \E out : StreamSteps(out, Combinations(pool, order),
                              MultiFaultStream(pool, order, M), M)
<1> DEFINE n == Len(Combinations(pool, order))
           V == Seq(Seq(AnyFault))
           step == [k \in 1..n |-> [v \in V |-> KeepFar(v, Combinations(pool, order)[k], M)]]
           Good(f) == f = [s \in SUBSET DOMAIN Combinations(pool, order) |->
                         IF s = {} THEN <<>>
                         ELSE IF Separated(Combinations(pool, order)[Max(s)], M)
                              THEN Append(f[s \ {Max(s)}],
                                          FaultSet(Combinations(pool, order)[Max(s)]))
                              ELSE f[s \ {Max(s)}]]
           it == CHOOSE f : Good(f)
           out == [k \in 0..n |-> it[1..k]]
<1>1. MultiFaultStream(pool, order, M) = it[DOMAIN Combinations(pool, order)]
  BY DEF MultiFaultStream, FoldLeft, MapThenFoldSet
<1>2. n \in Nat /\ DOMAIN Combinations(pool, order) = 1..n
      /\ \A k \in 1..n : Combinations(pool, order)[k] \in Seq(AnyFault)
  OBVIOUS
<1>3. \A k \in 1..n, v \in V : KeepFar(v, Combinations(pool, order)[k], M) \in V
  BY <1>2, FaultSetTyped DEF KeepFar
<1>4. <<>> \in V
  OBVIOUS
<1>5. PICK f \in [SUBSET (1..n) -> V] : FoldsBy(f, <<>>, step, n)
  <2>1. step \in [1..n -> [V -> V]]
    <3> HIDE DEF V, n
    <3> QED BY <1>3
  <2> HIDE DEF step, n, V
  <2> QED BY <1>2, <1>4, <2>1, FoldExists
<1>6. Good(f)
  <2>1. ASSUME NEW s \in SUBSET (1..n)
        PROVE  f[s] = IF s = {} THEN <<>> ELSE KeepFar(f[s \ {Max(s)}],
                                 Combinations(pool, order)[Max(s)], M)
    <3>1. CASE s = {}
      BY <1>5, <3>1 DEF FoldsBy
    <3>2. CASE s # {}
      <4>1. Max(s) \in 1..n /\ s \ {Max(s)} \in SUBSET (1..n)
        BY <1>2, <3>2, MaxInside
      <4>2. f[s] = step[Max(s)][f[s \ {Max(s)}]]
        BY <1>5, <3>2 DEF FoldsBy
      <4>3. f[s \ {Max(s)}] \in V
        BY <1>5, <4>1
      <4> HIDE DEF V, n
      <4> QED BY <3>2, <4>1, <4>2, <4>3
    <3> QED BY <3>1, <3>2
  <2> HIDE DEF n, V
  <2> QED BY <1>2, <1>5, <2>1 DEF KeepFar
<1>7. Good(it)
  BY <1>6
<1>8. ASSUME NEW k \in 1..n PROVE out[k] = KeepFar(out[k - 1], Combinations(pool, order)[k], M)
  <2>1. k - 1 \in 0..n /\ k \in 0..n
    OBVIOUS
  <2>2. /\ 1..k \in SUBSET (1..n) /\ 1..k # {} /\ Max(1..k) = k
        /\ (1..k) \ {k} = 1..(k - 1)
    BY <1>2, FoldPlaces
  <2>3. \A s \in SUBSET (1..n) : s # {} =>
          it[s] = KeepFar(it[s \ {Max(s)}], Combinations(pool, order)[Max(s)], M)
    BY <1>2, <1>7 DEF KeepFar
  <2> HIDE DEF it
  <2> QED BY <2>1, <2>2, <2>3
<1>9. out[0] = <<>> /\ MultiFaultStream(pool, order, M) = out[n]
  <2>1. 1..0 = {} /\ 0 \in 0..n /\ n \in 0..n
    BY <1>2
  <2>2. it[{}] = <<>>
    BY <1>7
  <2> HIDE DEF it
  <2> QED BY <1>1, <1>2, <2>1, <2>2
<1> HIDE DEF out
<1>10. \A k \in 0..n : out[k] \in V
  <2> DEFINE G == {k \in 0..n : out[k] \in V}
  <2>1. 0 \in G
    <3>1. 0 \in 0..n
      BY <1>2
    <3> HIDE DEF n, V
    <3> QED BY <1>4, <1>9, <3>1
  <2>2. ASSUME NEW k \in 0..(n - 1), k \in G PROVE k + 1 \in G
    <3>1. k + 1 \in 1..n /\ k + 1 \in 0..n /\ k + 1 - 1 = k
      BY <1>2
    <3>2. out[k + 1] = KeepFar(out[k], Combinations(pool, order)[k + 1], M)
      BY <1>8, <3>1
    <3> HIDE DEF n, V
    <3> QED BY <1>3, <2>2, <3>1, <3>2
  <2> HIDE DEF G, n, V
  <2>3. \A k \in 0..n : k \in G
    BY <1>2, <2>1, <2>2, BoundedInd
  <2> QED BY <2>3 DEF G
<1> QED BY <1>8, <1>9, <1>10 DEF StreamSteps

(***************************************************************************)
(* The near misses of a sweep, one after the other.                        *)
(***************************************************************************)
Missed(found, r) == IF r.outcome = "SDC" THEN Append(found, r.trigger) ELSE found

LEMMA NearMissRun ==
  ASSUME NEW R, slots \in Seq(R), \A r \in R : r.trigger \in Nat
  PROVE  \E out : /\ out[0] = <<>> /\ NearMisses = out[Len(slots)]
                  /\ \A k \in 0..Len(slots) : out[k] \in Seq(Nat)
                  /\ \A k \in 1..Len(slots) : out[k] = Missed(out[k - 1], slots[k])
<1> DEFINE n == Len(slots)
           V == Seq(Nat)
           step == [k \in 1..n |-> [v \in V |-> Missed(v, slots[k])]]
           Good(f) == f = [s \in SUBSET DOMAIN slots |->
                         IF s = {} THEN <<>>
                         ELSE IF slots[Max(s)].outcome = "SDC"
                              THEN Append(f[s \ {Max(s)}], slots[Max(s)].trigger)
                              ELSE f[s \ {Max(s)}]]
           it == CHOOSE f : Good(f)
           out == [k \in 0..n |-> it[1..k]]
<1>1. NearMisses = it[DOMAIN slots]
  BY DEF NearMisses, FoldLeft, MapThenFoldSet
<1>2. n \in Nat /\ DOMAIN slots = 1..n /\ \A k \in 1..n : slots[k] \in R
  OBVIOUS
<1>3. \A k \in 1..n, v \in V : Missed(v, slots[k]) \in V
  BY <1>2 DEF Missed
<1>4. <<>> \in V
  OBVIOUS
<1>5. PICK f \in [SUBSET (1..n) -> V] : FoldsBy(f, <<>>, step, n)
  <2>1. step \in [1..n -> [V -> V]]
    <3> HIDE DEF V, n
    <3> QED BY <1>3
  <2> HIDE DEF step, n, V
  <2> QED BY <1>2, <1>4, <2>1, FoldExists
<1>6. Good(f)
  <2>1. ASSUME NEW s \in SUBSET (1..n)
        PROVE  f[s] = IF s = {} THEN <<>> ELSE Missed(f[s \ {Max(s)}], slots[Max(s)])
    <3>1. CASE s = {}
      BY <1>5, <3>1 DEF FoldsBy
    <3>2. CASE s # {}
      <4>1. Max(s) \in 1..n /\ s \ {Max(s)} \in SUBSET (1..n)
        BY <1>2, <3>2, MaxInside
      <4>2. f[s] = step[Max(s)][f[s \ {Max(s)}]]
        BY <1>5, <3>2 DEF FoldsBy
      <4>3. f[s \ {Max(s)}] \in V
        BY <1>5, <4>1
      <4> HIDE DEF V, n
      <4> QED BY <3>2, <4>1, <4>2, <4>3
    <3> QED BY <3>1, <3>2
  <2> HIDE DEF n, V
  <2> QED BY <1>2, <1>5, <2>1 DEF Missed
<1>7. Good(it)
  BY <1>6
<1>8. ASSUME NEW k \in 1..n PROVE out[k] = Missed(out[k - 1], slots[k])
  <2>1. k - 1 \in 0..n /\ k \in 0..n
    OBVIOUS
  <2>2. /\ 1..k \in SUBSET (1..n) /\ 1..k # {} /\ Max(1..k) = k
        /\ (1..k) \ {k} = 1..(k - 1)
    BY <1>2, FoldPlaces
  <2>3. \A s \in SUBSET (1..n) : s # {} =>
          it[s] = Missed(it[s \ {Max(s)}], slots[Max(s)])
    BY <1>2, <1>7 DEF Missed
  <2> HIDE DEF it
  <2> QED BY <2>1, <2>2, <2>3
<1>9. out[0] = <<>> /\ NearMisses = out[n]
  <2>1. 1..0 = {} /\ 0 \in 0..n /\ n \in 0..n
    BY <1>2
  <2>2. it[{}] = <<>>
    BY <1>7
  <2> HIDE DEF it
  <2> QED BY <1>1, <1>2, <2>1, <2>2
<1> HIDE DEF out
<1>10. \A k \in 0..n : out[k] \in V
  <2> DEFINE G == {k \in 0..n : out[k] \in V}
  <2>1. 0 \in G
    <3>1. 0 \in 0..n
      BY <1>2
    <3> HIDE DEF n, V
    <3> QED BY <1>4, <1>9, <3>1
  <2>2. ASSUME NEW k \in 0..(n - 1), k \in G PROVE k + 1 \in G
    <3>1. k + 1 \in 1..n /\ k + 1 \in 0..n /\ k + 1 - 1 = k
      BY <1>2
    <3>2. out[k + 1] = Missed(out[k], slots[k + 1])
      BY <1>8, <3>1
    <3> HIDE DEF n, V
    <3> QED BY <1>3, <2>2, <3>1, <3>2
  <2> HIDE DEF G, n, V
  <2>3. \A k \in 0..n : k \in G
    BY <1>2, <2>1, <2>2, BoundedInd
  <2> QED BY <2>3 DEF G
<1> QED BY <1>8, <1>9, <1>10

(***************************************************************************)
(* The experiments that are kept, one after the other (faults.py).         *)
(***************************************************************************)
KeepNew(out, fs) ==
  IF \E i \in DOMAIN out : SetKey(out[i]) = SetKey(fs) THEN out ELSE Append(out, fs)

LEMMA DedupeRun ==
  ASSUME NEW S, NEW sets \in Seq(S)
  PROVE  \E out : /\ out[0] = <<>> /\ Dedupe(sets) = out[Len(sets)]
                  /\ \A k \in 0..Len(sets) : out[k] \in Seq(S)
                  /\ \A k \in 1..Len(sets) : out[k] = KeepNew(out[k - 1], sets[k])
<1> DEFINE n == Len(sets)
           V == Seq(S)
           step == [k \in 1..n |-> [v \in V |-> KeepNew(v, sets[k])]]
           Good(f) == f = [s \in SUBSET DOMAIN sets |->
                         IF s = {} THEN <<>>
                         ELSE IF \E i \in DOMAIN f[s \ {Max(s)}] :
                                   SetKey(f[s \ {Max(s)}][i]) = SetKey(sets[Max(s)])
                              THEN f[s \ {Max(s)}] ELSE Append(f[s \ {Max(s)}], sets[Max(s)])]
           it == CHOOSE f : Good(f)
           out == [k \in 0..n |-> it[1..k]]
<1>1. Dedupe(sets) = it[DOMAIN sets]
  BY DEF Dedupe, FoldLeft, MapThenFoldSet
<1>2. n \in Nat /\ DOMAIN sets = 1..n /\ \A k \in 1..n : sets[k] \in S
  OBVIOUS
<1>3. \A k \in 1..n, v \in V : KeepNew(v, sets[k]) \in V
  BY <1>2 DEF KeepNew
<1>4. <<>> \in V
  OBVIOUS
<1>5. PICK f \in [SUBSET (1..n) -> V] : FoldsBy(f, <<>>, step, n)
  <2>1. step \in [1..n -> [V -> V]]
    <3> HIDE DEF V, n
    <3> QED BY <1>3
  <2> HIDE DEF step, n, V
  <2> QED BY <1>2, <1>4, <2>1, FoldExists
<1>6. Good(f)
  <2>1. ASSUME NEW s \in SUBSET (1..n)
        PROVE  f[s] = IF s = {} THEN <<>> ELSE KeepNew(f[s \ {Max(s)}], sets[Max(s)])
    <3>1. CASE s = {}
      BY <1>5, <3>1 DEF FoldsBy
    <3>2. CASE s # {}
      <4>1. Max(s) \in 1..n /\ s \ {Max(s)} \in SUBSET (1..n)
        BY <1>2, <3>2, MaxInside
      <4>2. f[s] = step[Max(s)][f[s \ {Max(s)}]]
        BY <1>5, <3>2 DEF FoldsBy
      <4>3. f[s \ {Max(s)}] \in V
        BY <1>5, <4>1
      <4> HIDE DEF V, n
      <4> QED BY <3>2, <4>1, <4>2, <4>3
    <3> QED BY <3>1, <3>2
  <2> HIDE DEF n, V
  <2> QED BY <1>2, <1>5, <2>1 DEF KeepNew
<1>7. Good(it)
  BY <1>6
<1>8. ASSUME NEW k \in 1..n PROVE out[k] = KeepNew(out[k - 1], sets[k])
  <2>1. k - 1 \in 0..n /\ k \in 0..n
    OBVIOUS
  <2>2. /\ 1..k \in SUBSET (1..n) /\ 1..k # {} /\ Max(1..k) = k
        /\ (1..k) \ {k} = 1..(k - 1)
    BY <1>2, FoldPlaces
  <2>3. \A s \in SUBSET (1..n) : s # {} =>
          it[s] = KeepNew(it[s \ {Max(s)}], sets[Max(s)])
    BY <1>2, <1>7 DEF KeepNew
  <2> HIDE DEF it
  <2> QED BY <2>1, <2>2, <2>3
<1>9. out[0] = <<>> /\ Dedupe(sets) = out[n]
  <2>1. 1..0 = {} /\ 0 \in 0..n /\ n \in 0..n
    BY <1>2
  <2>2. it[{}] = <<>>
    BY <1>7
  <2> HIDE DEF it
  <2> QED BY <1>1, <1>2, <2>1, <2>2
<1> HIDE DEF out
<1>10. \A k \in 0..n : out[k] \in V
  <2> DEFINE G == {k \in 0..n : out[k] \in V}
  <2>1. 0 \in G
    <3>1. 0 \in 0..n
      BY <1>2
    <3> HIDE DEF n, V
    <3> QED BY <1>4, <1>9, <3>1
  <2>2. ASSUME NEW k \in 0..(n - 1), k \in G PROVE k + 1 \in G
    <3>1. k + 1 \in 1..n /\ k + 1 \in 0..n /\ k + 1 - 1 = k
      BY <1>2
    <3>2. out[k + 1] = KeepNew(out[k], sets[k + 1])
      BY <1>8, <3>1
    <3> HIDE DEF n, V
    <3> QED BY <1>3, <2>2, <3>1, <3>2
  <2> HIDE DEF G, n, V
  <2>3. \A k \in 0..n : k \in G
    BY <1>2, <2>1, <2>2, BoundedInd
  <2> QED BY <2>3 DEF G
<1> QED BY <1>8, <1>9, <1>10

(***************************************************************************)
(* One list after another.                                                 *)
(***************************************************************************)
LEMMA JoinedHolds ==
  ASSUME NEW S, NEW a \in Seq(S), NEW b \in Seq(S), NEW x
  PROVE  x \in ToSet(Joined(a, b)) <=> x \in ToSet(a) \/ x \in ToSet(b)
<1> DEFINE j == Joined(a, b)
<1>1. /\ Len(a) \in Nat /\ Len(b) \in Nat
      /\ DOMAIN j = 1..(Len(a) + Len(b))
      /\ \A i \in 1..Len(a) : j[i] = a[i]
      /\ \A i \in 1..Len(b) : j[Len(a) + i] = b[i]
      /\ \A i \in (Len(a) + 1)..(Len(a) + Len(b)) : j[i] = b[i - Len(a)]
  BY DEF Joined
<1>2. DOMAIN a = 1..Len(a) /\ DOMAIN b = 1..Len(b)
  OBVIOUS
<1> HIDE DEF j
<1>3. ASSUME NEW i \in DOMAIN j PROVE j[i] \in ToSet(a) \/ j[i] \in ToSet(b)
  <2>1. CASE i <= Len(a)
    <3>1. i \in 1..Len(a)
      BY <1>1, <2>1
    <3> QED BY <1>1, <1>2, <3>1 DEF ToSet
  <2>2. CASE i > Len(a)
    <3>1. i \in (Len(a) + 1)..(Len(a) + Len(b)) /\ i - Len(a) \in 1..Len(b)
      BY <1>1, <2>2
    <3> QED BY <1>1, <1>2, <3>1 DEF ToSet
  <2> QED BY <1>1, <2>1, <2>2
<1>4. ASSUME NEW i \in DOMAIN a PROVE a[i] \in ToSet(j)
  <2>1. i \in 1..Len(a) /\ i \in DOMAIN j
    BY <1>1, <1>2
  <2> QED BY <1>1, <2>1 DEF ToSet
<1>5. ASSUME NEW i \in DOMAIN b PROVE b[i] \in ToSet(j)
  <2>1. i \in 1..Len(b) /\ Len(a) + i \in DOMAIN j
    BY <1>1, <1>2
  <2> QED BY <1>1, <2>1 DEF ToSet
<1>6. x \in ToSet(j) => x \in ToSet(a) \/ x \in ToSet(b)
  <2> SUFFICES ASSUME x \in ToSet(j) PROVE x \in ToSet(a) \/ x \in ToSet(b)
    OBVIOUS
  <2>1. PICK i \in DOMAIN j : x = j[i]
    BY DEF ToSet
  <2> QED BY <1>3, <2>1
<1>7. x \in ToSet(a) \/ x \in ToSet(b) => x \in ToSet(j)
  <2>1. x \in ToSet(a) => x \in ToSet(j)
    <3> SUFFICES ASSUME x \in ToSet(a) PROVE x \in ToSet(j)
      OBVIOUS
    <3>1. PICK i \in DOMAIN a : x = a[i]
      BY DEF ToSet
    <3> QED BY <1>4, <3>1
  <2>2. x \in ToSet(b) => x \in ToSet(j)
    <3> SUFFICES ASSUME x \in ToSet(b) PROVE x \in ToSet(j)
      OBVIOUS
    <3>1. PICK i \in DOMAIN b : x = b[i]
      BY DEF ToSet
    <3> QED BY <1>5, <3>1
  <2> QED BY <2>1, <2>2
<1> QED BY <1>6, <1>7 DEF j

(***************************************************************************)
(* What a list of lists holds is what its lists hold.                      *)
(***************************************************************************)
LEMMA FlattenHolds ==
  ASSUME NEW S, NEW seqs \in Seq(Seq(S)), NEW x
  PROVE  x \in ToSet(FlattenSeq(seqs)) <=> \E i \in DOMAIN seqs : x \in ToSet(seqs[i])
<1> DEFINE n == Len(seqs)
<1>1. n \in Nat /\ DOMAIN seqs = 1..n /\ \A i \in 1..n : seqs[i] \in Seq(S)
  OBVIOUS
<1>2. CASE n = 0
  <2>1. FlattenSeq(seqs) = <<>> /\ seqs = <<>>
    BY <1>2 DEF FlattenSeq
  <2> QED BY <2>1 DEF ToSet
<1>3. CASE n > 0
  <2>1. PICK out : /\ out[1] = seqs[1] /\ FlattenSeq(seqs) = out[n]
                   /\ \A k \in 1..n : out[k] \in Seq(S)
                   /\ \A k \in 1..n : k > 1 => out[k] = Joined(out[k - 1], seqs[k])
    BY <1>3, FlattenRun
  <2> HIDE DEF n
  <2> DEFINE Held(k) == x \in ToSet(out[k]) <=> \E i \in 1..k : x \in ToSet(seqs[i])
             G == {m \in 0..(n - 1) : Held(m + 1)}
  <2>2. 0 \in G
    <3>1. 0 \in 0..(n - 1) /\ 1..(0 + 1) = {1} /\ 0 + 1 = 1
      BY <1>1, <1>3
    <3>2. Held(0 + 1)
      BY <2>1, <3>1
    <3> HIDE DEF Held
    <3> QED BY <3>1, <3>2
  <2>3. ASSUME NEW m \in 0..(n - 1 - 1), m \in G PROVE m + 1 \in G
    <3>1. /\ m + 1 \in 1..n /\ m + 2 \in 1..n /\ m + 2 > 1 /\ m + 2 - 1 = m + 1
          /\ m + 1 \in 0..(n - 1) /\ (m + 1) + 1 = m + 2
      BY <1>1
    <3>2. out[m + 2] = Joined(out[m + 1], seqs[m + 2])
      BY <2>1, <3>1
    <3>3. x \in ToSet(out[m + 2]) <=> x \in ToSet(out[m + 1]) \/ x \in ToSet(seqs[m + 2])
      <4>1. out[m + 1] \in Seq(S) /\ seqs[m + 2] \in Seq(S)
        BY <1>1, <2>1, <3>1
      <4> QED BY <3>2, <4>1, JoinedHolds
    <3>4. Held(m + 1)
      BY <2>3
    <3>5. \A i \in 1..(m + 2) : i \in 1..(m + 1) \/ i = m + 2
      BY <3>1
    <3>6. \A i \in 1..(m + 1) : i \in 1..(m + 2)
      BY <3>1
    <3>8. m + 2 \in 1..(m + 2)
      BY <3>1
    <3>7. Held(m + 2)
      BY <3>3, <3>4, <3>5, <3>6, <3>8
    <3> HIDE DEF Held
    <3> QED BY <3>1, <3>7
  <2>4. n - 1 \in Nat
    BY <1>1, <1>3
  <2>5. n - 1 \in G
    <3> HIDE DEF G
    <3>1. \A m \in 0..(n - 1) : m \in G
      BY <2>2, <2>3, <2>4, BoundedInd
    <3> QED BY <2>4, <3>1
  <2>6. Held(n)
    <3>1. (n - 1) + 1 = n
      BY <1>1
    <3> HIDE DEF Held
    <3> QED BY <2>5, <3>1
  <2> QED BY <1>1, <2>1, <2>6 
<1> QED BY <1>1, <1>2, <1>3

(***************************************************************************)
(* itertools.combinations(): the tuples of positions of length k + 1 are the*)
(* ones of length k, each followed by every later position.                *)
(***************************************************************************)
TopOf(c) == IF c = <<>> THEN 0 ELSE Last(c)
Longer(n, c) == [m \in 1..(n - TopOf(c)) |-> Append(c, TopOf(c) + m)]
AllLonger(n, tuples) == FlattenSeq([i \in DOMAIN tuples |-> Longer(n, tuples[i])])
Picked(pool, k, tuples) == [i \in DOMAIN tuples |-> [j \in 1..k |-> pool[tuples[i][j]]]]

LEMMA LongerTyped ==
  ASSUME NEW n \in Nat, NEW c \in Seq(1..n)
  PROVE  TopOf(c) \in 0..n /\ Longer(n, c) \in Seq(Seq(1..n))
<1>1. TopOf(c) \in 0..n
  BY DEF TopOf, Last
<1>2. \A m \in 1..(n - TopOf(c)) : TopOf(c) + m \in 1..n
  BY <1>1
<1>3. \A m \in 1..(n - TopOf(c)) : Append(c, TopOf(c) + m) \in Seq(1..n)
  BY <1>2
<1> DEFINE room == n - TopOf(c)
           V == Seq(1..n)
           longer(m) == Append(c, TopOf(c) + m)
<1>4. room \in Nat
  BY <1>1
<1>5. Longer(n, c) \in Seq(Seq(1..n))
  <2>1. \A m \in 1..room : longer(m) \in V
    BY <1>3
  <2> HIDE DEF V, room, longer
  <2>2. [m \in 1..room |-> longer(m)] \in Seq(V)
    BY <1>4, <2>1
  <2> QED BY <2>2 DEF Longer, V, room, longer
<1> QED BY <1>1, <1>5

LEMMA AllLongerTyped ==
  ASSUME NEW n \in Nat, NEW tuples \in Seq(Seq(1..n))
  PROVE  /\ [i \in DOMAIN tuples |-> Longer(n, tuples[i])] \in Seq(Seq(Seq(1..n)))
         /\ AllLonger(n, tuples) \in Seq(Seq(1..n))
<1>1. \A i \in DOMAIN tuples : tuples[i] \in Seq(1..n)
  OBVIOUS
<1>2. \A i \in DOMAIN tuples : Longer(n, tuples[i]) \in Seq(Seq(1..n))
  BY <1>1, LongerTyped
<1> DEFINE V == Seq(Seq(1..n))
           longer(i) == Longer(n, tuples[i])
<1>3. [i \in DOMAIN tuples |-> Longer(n, tuples[i])] \in Seq(Seq(Seq(1..n)))
  <2>1. Len(tuples) \in Nat /\ DOMAIN tuples = 1..Len(tuples)
    OBVIOUS
  <2>2. \A i \in 1..Len(tuples) : longer(i) \in V
    BY <1>2, <2>1
  <2> HIDE DEF V, longer
  <2>3. [i \in 1..Len(tuples) |-> longer(i)] \in Seq(V)
    BY <2>1, <2>2
  <2> QED BY <2>1, <2>3 DEF V, longer
<1> QED BY <1>3, FlattenType DEF AllLonger

LEMMA CombinationsRun ==
  ASSUME NEW S, NEW pool \in Seq(S), NEW k \in Nat
  PROVE  \E out : /\ out[0] = << <<>> >>
                  /\ \A j \in 0..k : out[j] \in Seq(Seq(1..Len(pool)))
                  /\ \A j \in 1..k : out[j] = AllLonger(Len(pool), out[j - 1])
                  /\ Combinations(pool, k) = Picked(pool, k, out[k])
<1> DEFINE n == Len(pool)
           V == Seq(Seq(1..n))
           step == [v \in V |-> AllLonger(n, v)]
           Good(f) == f = [j \in 0..k |-> IF j = 0 THEN << <<>> >> ELSE AllLonger(n, f[j - 1])]
           out == CHOOSE f : Good(f)
<1>1. n \in Nat
  OBVIOUS
<1>2. Combinations(pool, k) = Picked(pool, k, out[k])
  BY DEF Combinations, Picked, AllLonger, Longer, TopOf
<1> HIDE DEF n
<1>3. << <<>> >> \in V
  OBVIOUS
<1>4. step \in [V -> V]
  BY <1>1, AllLongerTyped
<1>5. \A v \in V : step[v] = AllLonger(n, v)
  OBVIOUS
<1> HIDE DEF V, step
<1>6. PICK f \in [0..k -> V] : IsIteration(f, 0..k, << <<>> >>, step)
  BY <1>3, <1>4, PrefixExists
<1>7. Good(f)
  <2>1. \A j \in 0..k : j # 0 => j - 1 \in 0..k
    OBVIOUS
  <2>2. f = [j \in 0..k |-> IF j = 0 THEN << <<>> >> ELSE step[f[j - 1]]]
    BY <1>6 DEF IsIteration
  <2>3. \A j \in 0..k : j # 0 => step[f[j - 1]] = AllLonger(n, f[j - 1])
    BY <1>5, <1>6, <2>1
  <2> QED BY <2>2, <2>3
<1>8. Good(out)
  BY <1>7
<1> HIDE DEF out
<1>9. out[0] = << <<>> >> /\ \A j \in 1..k : out[j] = AllLonger(n, out[j - 1])
  <2>1. 0 \in 0..k /\ \A j \in 1..k : j \in 0..k /\ j # 0
    OBVIOUS
  <2> QED BY <1>8, <2>1
<1>10. \A j \in 0..k : out[j] \in V
  <2> DEFINE G == {j \in 0..k : out[j] \in V}
  <2>1. 0 \in G
    BY <1>3, <1>9
  <2>2. ASSUME NEW j \in 0..(k - 1), j \in G PROVE j + 1 \in G
    <3>1. j + 1 \in 1..k /\ j + 1 \in 0..k /\ j + 1 - 1 = j
      OBVIOUS
    <3>2. out[j + 1] = AllLonger(n, out[j]) /\ out[j] \in V
      BY <1>9, <2>2, <3>1
    <3>3. AllLonger(n, out[j]) \in V
      BY <1>1, <3>2, AllLongerTyped DEF V
    <3> QED BY <3>1, <3>2, <3>3
  <2> HIDE DEF G
  <2>3. \A j \in 0..k : j \in G
    BY <2>1, <2>2, BoundedInd
  <2> QED BY <2>3 DEF G
<1> QED BY <1>2, <1>9, <1>10 DEF n, V

(***************************************************************************)
(* The tuples of positions that itertools.combinations() reaches.          *)
(***************************************************************************)
Ascents(n, k) ==
  {c \in Seq(1..n) : Len(c) = k /\ \A i, j \in 1..k : i < j => c[i] < c[j]}

LEMMA AscentGrows ==
  ASSUME NEW n \in Nat, NEW k \in Nat, NEW d \in Ascents(n, k),
         NEW m \in 1..(n - TopOf(d))
  PROVE  Append(d, TopOf(d) + m) \in Ascents(n, k + 1)
<1> DEFINE e == TopOf(d) + m
           c == Append(d, e)
<1>1. d \in Seq(1..n) /\ Len(d) = k /\ \A i, j \in 1..k : i < j => d[i] < d[j]
  BY DEF Ascents
<1>2. TopOf(d) \in 0..n
  BY <1>1, LongerTyped
<1>3. e \in 1..n /\ e > TopOf(d)
  BY <1>2
<1>4. \A i \in 1..k : d[i] \in 1..n /\ d[i] <= TopOf(d)
  <2> SUFFICES ASSUME NEW i \in 1..k PROVE d[i] \in 1..n /\ d[i] <= TopOf(d)
    OBVIOUS
  <2>1. d # <<>> /\ k \in 1..k /\ TopOf(d) = d[k]
    BY <1>1 DEF TopOf, Last
  <2>2. d[i] \in 1..n /\ d[k] \in 1..n
    BY <1>1, <2>1
  <2>3. i = k \/ d[i] < d[k]
    BY <1>1, <2>1
  <2> QED BY <2>1, <2>2, <2>3
<1> HIDE DEF e
<1>5. /\ c \in Seq(1..n) /\ Len(c) = k + 1 /\ c[k + 1] = e
      /\ \A i \in 1..k : c[i] = d[i]
  BY <1>1, <1>3
<1> HIDE DEF c
<1>6. ASSUME NEW i \in 1..(k + 1), NEW j \in 1..(k + 1), i < j PROVE c[i] < c[j]
  <2>1. i \in 1..k
    BY <1>6
  <2>2. CASE j \in 1..k
    BY <1>1, <1>5, <1>6, <2>1, <2>2
  <2>3. CASE j = k + 1
    BY <1>2, <1>3, <1>4, <1>5, <2>1, <2>3
  <2> QED BY <2>2, <2>3
<1> QED BY <1>5, <1>6 DEF Ascents, c, e

LEMMA AscentShrinks ==
  ASSUME NEW n \in Nat, NEW k \in Nat, NEW c \in Ascents(n, k + 1)
  PROVE  \E d \in Ascents(n, k) : \E m \in 1..(n - TopOf(d)) : c = Append(d, TopOf(d) + m)
<1>1. /\ c \in Seq(1..n) /\ Len(c) = k + 1
      /\ \A i, j \in 1..(k + 1) : i < j => c[i] < c[j]
  BY DEF Ascents
<1> DEFINE d == [i \in 1..k |-> c[i]]
           m == c[k + 1] - TopOf(d)
<1>2. \A i \in 1..(k + 1) : c[i] \in 1..n
  BY <1>1
<1>3. d \in Seq(1..n) /\ Len(d) = k /\ \A i \in 1..k : d[i] = c[i]
  BY <1>2
<1> HIDE DEF d
<1>4. d \in Ascents(n, k)
  BY <1>1, <1>3 DEF Ascents
<1>5. TopOf(d) \in 0..n
  BY <1>3, LongerTyped
<1>6. TopOf(d) < c[k + 1]
  <2>1. CASE k = 0
    BY <1>2, <1>3, <2>1 DEF TopOf
  <2>2. CASE k > 0
    <3>1. d # <<>> /\ k \in 1..k /\ k \in 1..(k + 1) /\ k + 1 \in 1..(k + 1) /\ k < k + 1
      BY <1>3, <2>2
    <3>2. TopOf(d) = c[k]
      BY <1>3, <3>1 DEF TopOf, Last
    <3> QED BY <1>1, <3>1, <3>2
  <2> QED BY <2>1, <2>2
<1>7. c[k + 1] \in 1..n
  BY <1>2
<1>8. m \in 1..(n - TopOf(d)) /\ TopOf(d) + m = c[k + 1]
  BY <1>5, <1>6, <1>7
<1> HIDE DEF m
<1>9. c = Append(d, c[k + 1])
  <2>1. /\ Append(d, c[k + 1]) \in Seq(1..n) /\ Len(Append(d, c[k + 1])) = k + 1
        /\ \A i \in 1..k : Append(d, c[k + 1])[i] = c[i]
        /\ Append(d, c[k + 1])[k + 1] = c[k + 1]
    BY <1>3, <1>7
  <2>2. \A i \in 1..(k + 1) : i \in 1..k \/ i = k + 1
    OBVIOUS
  <2>3. \A i \in 1..(k + 1) : Append(d, c[k + 1])[i] = c[i]
    BY <2>1, <2>2
  <2> QED BY <1>1, <2>1, <2>3
<1> QED BY <1>4, <1>8, <1>9

LEMMA AllLongerHolds ==
  ASSUME NEW n \in Nat, NEW tuples \in Seq(Seq(1..n)), NEW c
  PROVE  c \in ToSet(AllLonger(n, tuples)) <=>
           \E d \in ToSet(tuples) : \E m \in 1..(n - TopOf(d)) : c = Append(d, TopOf(d) + m)
<1> DEFINE rows == [i \in DOMAIN tuples |-> Longer(n, tuples[i])]
<1>1. rows \in Seq(Seq(Seq(1..n))) /\ DOMAIN rows = DOMAIN tuples
  BY AllLongerTyped
<1>2. c \in ToSet(AllLonger(n, tuples)) <=> \E i \in DOMAIN tuples : c \in ToSet(rows[i])
  BY <1>1, FlattenHolds DEF AllLonger
<1>3. ASSUME NEW i \in DOMAIN tuples
      PROVE  c \in ToSet(rows[i]) <=>
               \E m \in 1..(n - TopOf(tuples[i])) : c = Append(tuples[i], TopOf(tuples[i]) + m)
  BY DEF ToSet, Longer
<1> HIDE DEF rows
<1> QED BY <1>2, <1>3 DEF ToSet

LEMMA AscentsReached ==
  ASSUME NEW S, NEW pool \in Seq(S), NEW k \in Nat
  PROVE  \E tuples \in Seq(Ascents(Len(pool), k)) :
           /\ ToSet(tuples) = Ascents(Len(pool), k)
           /\ Combinations(pool, k) = Picked(pool, k, tuples)
<1> DEFINE n == Len(pool)
<1>1. PICK out : /\ out[0] = << <<>> >>
                 /\ \A j \in 0..k : out[j] \in Seq(Seq(1..n))
                 /\ \A j \in 1..k : out[j] = AllLonger(n, out[j - 1])
                 /\ Combinations(pool, k) = Picked(pool, k, out[k])
  BY CombinationsRun
<1>2. n \in Nat
  OBVIOUS
<1> HIDE DEF n
<1> DEFINE G == {j \in 0..k : ToSet(out[j]) = Ascents(n, j)}
<1>3. 0 \in G
  <2>1. ToSet(<< <<>> >>) = {<<>>}
    BY DEF ToSet
  <2>2. Ascents(n, 0) = {<<>>}
    <3>1. <<>> \in Seq(1..n) /\ Len(<<>>) = 0 /\ \A c \in Seq(1..n) : Len(c) = 0 => c = <<>>
      OBVIOUS
    <3>2. 1..0 = {}
      OBVIOUS
    <3> QED BY <3>1, <3>2 DEF Ascents
  <2>3. ToSet(out[0]) = Ascents(n, 0)
    BY <1>1, <2>1, <2>2, Zenon
  <2>4. 0 \in 0..k
    OBVIOUS
  <2> QED BY <2>3, <2>4
<1>4. ASSUME NEW j \in 0..(k - 1), j \in G PROVE j + 1 \in G
  <2>1. /\ j + 1 \in 1..k /\ j + 1 \in 0..k /\ j + 1 - 1 = j /\ j \in Nat /\ j \in 0..k
    OBVIOUS
  <2>2. out[j] \in Seq(Seq(1..n)) /\ ToSet(out[j]) = Ascents(n, j)
    BY <1>1, <1>4, <2>1
  <2>3. out[j + 1] = AllLonger(n, out[j])
    BY <1>1, <2>1
  <2> HIDE DEF G
  <2>4. ASSUME NEW c PROVE c \in ToSet(out[j + 1]) <=> c \in Ascents(n, j + 1)
    <3>1. c \in ToSet(out[j + 1]) <=>
            \E d \in Ascents(n, j) : \E m \in 1..(n - TopOf(d)) : c = Append(d, TopOf(d) + m)
      BY <1>2, <2>2, <2>3, AllLongerHolds
    <3>2. c \in Ascents(n, j + 1) =>
            \E d \in Ascents(n, j) : \E m \in 1..(n - TopOf(d)) : c = Append(d, TopOf(d) + m)
      BY <1>2, <2>1, AscentShrinks
    <3>3. (\E d \in Ascents(n, j) : \E m \in 1..(n - TopOf(d)) : c = Append(d, TopOf(d) + m))
            => c \in Ascents(n, j + 1)
      BY <1>2, <2>1, AscentGrows
    <3> QED BY <3>1, <3>2, <3>3
  <2>5. ToSet(out[j + 1]) = Ascents(n, j + 1)
    BY <2>4
  <2> QED BY <2>1, <2>5 DEF G
<1> HIDE DEF G
<1>5. k \in G
  <2>1. \A j \in 0..k : j \in G
    BY <1>3, <1>4, BoundedInd
  <2> QED BY <2>1
<1>6. ToSet(out[k]) = Ascents(n, k) /\ out[k] \in Seq(Seq(1..n))
  BY <1>1, <1>5 DEF G
<1>7. out[k] \in Seq(Ascents(n, k))
  <2>1. \A i \in DOMAIN out[k] : out[k][i] \in Ascents(n, k)
    BY <1>6 DEF ToSet
  <2> DEFINE q == out[k]
             A == Ascents(n, k)
  <2>2. Len(q) \in Nat /\ DOMAIN q = 1..Len(q) /\ q = [i \in 1..Len(q) |-> q[i]]
    BY <1>6
  <2> HIDE DEF n, q, A
  <2>3. \A i \in 1..Len(q) : q[i] \in A
    BY <2>1, <2>2 DEF q, A
  <2>4. q \in Seq(A)
    BY <2>2, <2>3
  <2> QED BY <2>4 DEF q, A
<1> QED BY <1>1, <1>6, <1>7 DEF n

(***************************************************************************)
(* A combination is drawn from the pool at rising positions.               *)
(***************************************************************************)
Drawn(pool, k, a) == [j \in 1..k |-> pool[a[j]]]

LEMMA CombinationsAre ==
  ASSUME NEW pool \in Seq(AnyFault), NEW k \in Nat
  PROVE  /\ Combinations(pool, k) \in Seq(Seq(AnyFault))
         /\ \A c : c \in ToSet(Combinations(pool, k)) <=>
                     \E a \in Ascents(Len(pool), k) : c = Drawn(pool, k, a)
<1>1. PICK tuples \in Seq(Ascents(Len(pool), k)) :
        /\ ToSet(tuples) = Ascents(Len(pool), k)
        /\ Combinations(pool, k) = Picked(pool, k, tuples)
  BY AscentsReached
<1> DEFINE A == Ascents(Len(pool), k)
           made == Picked(pool, k, tuples)
<1>2. ASSUME NEW a \in A PROVE Drawn(pool, k, a) \in Seq(AnyFault)
  <2>1. a \in Seq(1..Len(pool)) /\ Len(a) = k
    BY DEF Ascents
  <2>2. \A j \in 1..k : a[j] \in 1..Len(pool)
    BY <2>1
  <2>3. \A j \in 1..k : pool[a[j]] \in AnyFault
    BY <2>2
  <2> QED BY <2>3 DEF Drawn
<1> HIDE DEF A
<1>3. /\ Len(tuples) \in Nat /\ DOMAIN tuples = 1..Len(tuples)
      /\ \A i \in 1..Len(tuples) : tuples[i] \in A
  BY DEF A
<1>4. made = [i \in 1..Len(tuples) |-> Drawn(pool, k, tuples[i])]
  BY <1>3 DEF Picked, Drawn
<1> HIDE DEF made
<1>5. made \in Seq(Seq(AnyFault)) /\ DOMAIN made = 1..Len(tuples)
  <2> DEFINE V == Seq(AnyFault)
             drawn(i) == Drawn(pool, k, tuples[i])
  <2>1. \A i \in 1..Len(tuples) : drawn(i) \in V
    BY <1>2, <1>3
  <2>2. made = [i \in 1..Len(tuples) |-> drawn(i)]
    BY <1>4
  <2> HIDE DEF V, drawn
  <2>3. made \in Seq(V) /\ DOMAIN made = 1..Len(tuples)
    BY <1>3, <2>1, <2>2
  <2> QED BY <2>3 DEF V
<1>6. \A i \in 1..Len(tuples) : made[i] = Drawn(pool, k, tuples[i])
  BY <1>4
<1>7. ASSUME NEW c PROVE c \in ToSet(made) <=> \E a \in A : c = Drawn(pool, k, a)
  <2>1. ASSUME NEW a \in A PROVE Drawn(pool, k, a) \in ToSet(made)
    <3>1. PICK i \in 1..Len(tuples) : a = tuples[i]
      BY <1>1, <1>3 DEF ToSet, A
    <3> QED BY <1>5, <1>6, <3>1 DEF ToSet
  <2>2. ASSUME NEW i \in 1..Len(tuples) PROVE \E a \in A : made[i] = Drawn(pool, k, a)
    BY <1>3, <1>6
  <2>3. c \in ToSet(made) => \E i \in 1..Len(tuples) : c = made[i]
    BY <1>5 DEF ToSet
  <2> QED BY <2>1, <2>2, <2>3
<1> QED BY <1>1, <1>5, <1>7 DEF A, made

(***************************************************************************)
(* What the stream yields: the separated combinations, each sorted.        *)
(***************************************************************************)
LEMMA StreamHolds ==
  ASSUME NEW pool \in Seq(AnyFault), NEW order \in Nat, NEW M
  PROVE  /\ MultiFaultStream(pool, order, M) \in Seq(Seq(AnyFault))
         /\ \A s : s \in ToSet(MultiFaultStream(pool, order, M)) <=>
              \E c \in ToSet(Combinations(pool, order)) : Separated(c, M) /\ s = FaultSet(c)
<1> DEFINE combos == Combinations(pool, order)
           n == Len(combos)
<1>1. combos \in Seq(Seq(AnyFault))
  BY CombinationsAre
<1>2. PICK out : StreamSteps(out, combos, MultiFaultStream(pool, order, M), M)
  BY <1>1, StreamRun
<1> HIDE DEF combos
<1>3. n \in Nat /\ DOMAIN combos = 1..n /\ \A k \in 1..n : combos[k] \in Seq(AnyFault)
  BY <1>1
<1>10. /\ out[0] = <<>> /\ MultiFaultStream(pool, order, M) = out[n]
       /\ \A k \in 0..n : out[k] \in Seq(Seq(AnyFault))
       /\ \A k \in 1..n : out[k] = KeepFar(out[k - 1], combos[k], M)
  BY <1>2 DEF StreamSteps
<1> HIDE DEF n
<1>4. ASSUME NEW s
      PROVE  s \in ToSet(out[n]) <=>
               \E i \in 1..n : Separated(combos[i], M) /\ s = FaultSet(combos[i])
  <2> DEFINE Kept(i) == Separated(combos[i], M) /\ s = FaultSet(combos[i])
             Held(k) == s \in ToSet(out[k]) <=> \E i \in 1..k : Kept(i)
             G == {k \in 0..n : Held(k)}
  <2>1. 0 \in G
    <3>1. ToSet(out[0]) = {} /\ 1..0 = {} /\ 0 \in 0..n
      BY <1>3, <1>10 DEF ToSet
    <3>2. Held(0)
      BY <3>1
    <3> HIDE DEF Held
    <3> QED BY <3>1, <3>2
  <2>2. ASSUME NEW k \in 0..(n - 1), k \in G PROVE k + 1 \in G
    <3>1. k + 1 \in 1..n /\ k + 1 \in 0..n /\ k + 1 - 1 = k /\ k \in 0..n /\ k + 1 \in 1..(k + 1)
      BY <1>3
    <3>2. out[k + 1] = KeepFar(out[k], combos[k + 1], M) /\ out[k] \in Seq(Seq(AnyFault))
      BY <1>10, <3>1
    <3>3. s \in ToSet(out[k + 1]) <=> s \in ToSet(out[k]) \/ Kept(k + 1)
      <4>1. CASE Separated(combos[k + 1], M)
        <5>1. out[k + 1] = Append(out[k], FaultSet(combos[k + 1]))
          BY <3>2, <4>1 DEF KeepFar
        <5>2. FaultSet(combos[k + 1]) \in Seq(AnyFault)
          BY <1>3, <3>1, FaultSetTyped
        <5>3. ToSet(out[k + 1]) = ToSet(out[k]) \cup {FaultSet(combos[k + 1])}
          BY <3>2, <5>1, <5>2, AppendToSet
        <5> QED BY <4>1, <5>3
      <4>2. CASE ~Separated(combos[k + 1], M)
        BY <3>2, <4>2 DEF KeepFar
      <4> QED BY <4>1, <4>2
    <3>4. Held(k)
      BY <2>2
    <3>5. \A i \in 1..(k + 1) : i \in 1..k \/ i = k + 1
      OBVIOUS
    <3>6. \A i \in 1..k : i \in 1..(k + 1)
      OBVIOUS
    <3> HIDE DEF Kept
    <3>7. Held(k + 1)
      BY <3>1, <3>3, <3>4, <3>5, <3>6
    <3> HIDE DEF Held
    <3> QED BY <3>1, <3>7
  <2>3. n \in G
    <3> HIDE DEF G
    <3>1. \A k \in 0..n : k \in G
      BY <1>3, <2>1, <2>2, BoundedInd
    <3> QED BY <1>3, <3>1
  <2> QED BY <2>3
<1>5. \A s : s \in ToSet(out[n]) <=>
               \E c \in ToSet(combos) : Separated(c, M) /\ s = FaultSet(c)
  BY <1>3, <1>4 DEF ToSet
<1>6. out[n] \in Seq(Seq(AnyFault))
  BY <1>3, <1>10
<1> QED BY <1>5, <1>6, <1>10 DEF combos

(***************************************************************************)
(* A key tells fault sets apart, so dedupe() keeps every set once.         *)
(***************************************************************************)
LEMMA KeysDiffer ==
  ASSUME NEW f \in AnyFault, NEW g \in AnyFault, FaultKey(f) = FaultKey(g)
  PROVE  f = g
<1>1. /\ f.trigger = g.trigger /\ ModelCode(f.model) = ModelCode(g.model)
      /\ f.target = g.target /\ f.value = g.value /\ f.width = g.width
  BY DEF FaultKey
<1>2. f.model = g.model
  BY <1>1 DEF ModelCode, AnyFault, FaultModels
<1>3. ASSUME NEW h \in AnyFault
      PROVE  h = [trigger |-> h.trigger, model |-> h.model, target |-> h.target,
                  value |-> h.value, width |-> h.width]
  BY DEF AnyFault
<1> QED BY <1>1, <1>2, <1>3

LEMMA SetKeysDiffer ==
  ASSUME NEW q \in Seq(AnyFault), NEW r \in Seq(AnyFault), SetKey(q) = SetKey(r)
  PROVE  q = r
<1>1. DOMAIN q = DOMAIN r
  BY DEF SetKey
<1>2. \A i \in DOMAIN q : FaultKey(q[i]) = FaultKey(r[i])
  BY <1>1 DEF SetKey
<1>3. \A i \in DOMAIN q : q[i] \in AnyFault /\ r[i] \in AnyFault
  BY <1>1
<1>4. \A i \in DOMAIN q : q[i] = r[i]
  BY <1>2, <1>3, KeysDiffer
<1> QED BY <1>1, <1>4

LEMMA DedupeHolds ==
  ASSUME NEW sets \in Seq(Seq(AnyFault))
  PROVE  /\ Dedupe(sets) \in Seq(Seq(AnyFault))
         /\ ToSet(Dedupe(sets)) = ToSet(sets)
         /\ \A i, j \in DOMAIN Dedupe(sets) : Dedupe(sets)[i] = Dedupe(sets)[j] => i = j
<1> DEFINE n == Len(sets)
           V == Seq(Seq(AnyFault))
<1>1. n \in Nat /\ DOMAIN sets = 1..n /\ \A k \in 1..n : sets[k] \in Seq(AnyFault)
  OBVIOUS
<1>2. PICK out : /\ out[0] = <<>> /\ Dedupe(sets) = out[n]
                 /\ \A k \in 0..n : out[k] \in V
                 /\ \A k \in 1..n : out[k] = KeepNew(out[k - 1], sets[k])
  BY DedupeRun
<1> HIDE DEF n
<1> DEFINE Same(k) == ToSet(out[k]) = {sets[i] : i \in 1..k}
           Distinct(q) == \A i, j \in DOMAIN q : q[i] = q[j] => i = j
           G == {k \in 0..n : Same(k) /\ Distinct(out[k])}
<1>3. 0 \in G
  <2>1. ToSet(out[0]) = {} /\ 1..0 = {} /\ 0 \in 0..n /\ DOMAIN out[0] = {}
    BY <1>1, <1>2 DEF ToSet
  <2>2. Same(0) /\ Distinct(out[0])
    BY <2>1
  <2> HIDE DEF Same, Distinct
  <2> QED BY <2>1, <2>2
<1>4. ASSUME NEW k \in 0..(n - 1), k \in G PROVE k + 1 \in G
  <2>1. k + 1 \in 1..n /\ k + 1 \in 0..n /\ k + 1 - 1 = k /\ k \in 0..n /\ k + 1 \in 1..(k + 1)
    BY <1>1
  <2> DEFINE q == out[k]
             fs == sets[k + 1]
  <2>2. out[k + 1] = KeepNew(q, fs) /\ q \in V /\ fs \in Seq(AnyFault)
    BY <1>1, <1>2, <2>1
  <2>3. Same(k) /\ Distinct(q)
    BY <1>4
  <2>4. {sets[i] : i \in 1..(k + 1)} = {sets[i] : i \in 1..k} \cup {fs}
    <3>1. \A i \in 1..(k + 1) : i \in 1..k \/ i = k + 1
      OBVIOUS
    <3>2. \A i \in 1..k : i \in 1..(k + 1)
      OBVIOUS
    <3> QED BY <2>1, <3>1, <3>2
  <2> HIDE DEF fs, G
  <2>5. CASE \E i \in DOMAIN q : SetKey(q[i]) = SetKey(fs)
    <3>1. PICK i \in DOMAIN q : SetKey(q[i]) = SetKey(fs)
      BY <2>5
    <3>2. q[i] = fs
      BY <2>2, <3>1, SetKeysDiffer
    <3>3. fs \in {sets[j] : j \in 1..k}
      BY <2>3, <3>1, <3>2 DEF ToSet
    <3>4. out[k + 1] = q
      BY <2>2, <2>5 DEF KeepNew
    <3>5. Same(k + 1) /\ Distinct(out[k + 1])
      <4>1. Same(k + 1)
        BY <2>3, <2>4, <3>3, <3>4
      <4>2. Distinct(out[k + 1])
        BY <2>3, <3>4
      <4> QED BY <4>1, <4>2
    <3> HIDE DEF Same, Distinct
    <3> QED BY <2>1, <3>5 DEF G
  <2>6. CASE ~(\E i \in DOMAIN q : SetKey(q[i]) = SetKey(fs))
    <3>1. out[k + 1] = Append(q, fs)
      BY <2>2, <2>6 DEF KeepNew
    <3>2. ToSet(out[k + 1]) = ToSet(q) \cup {fs}
      BY <2>2, <3>1, AppendToSet
    <3>3. Same(k + 1)
      BY <2>3, <2>4, <3>2
    <3>4. \A i \in DOMAIN q : q[i] # fs
      BY <2>6
    <3>5. Distinct(out[k + 1])
      <4> HIDE DEF Same, q
      <4>1. /\ Len(q) \in Nat /\ DOMAIN q = 1..Len(q)
            /\ DOMAIN Append(q, fs) = 1..(Len(q) + 1)
            /\ Append(q, fs)[Len(q) + 1] = fs
            /\ \A i \in 1..Len(q) : Append(q, fs)[i] = q[i]
        BY <2>2
      <4>2. ASSUME NEW i \in 1..(Len(q) + 1), NEW j \in 1..(Len(q) + 1),
                   Append(q, fs)[i] = Append(q, fs)[j]
            PROVE  i = j
        <5>1. (i \in 1..Len(q) \/ i = Len(q) + 1) /\ (j \in 1..Len(q) \/ j = Len(q) + 1)
          BY <4>1
        <5> QED BY <2>3, <3>4, <4>1, <4>2, <5>1
      <4> QED BY <3>1, <4>1, <4>2
    <3> HIDE DEF Same, Distinct
    <3> QED BY <2>1, <3>3, <3>5 DEF G
  <2> QED BY <2>5, <2>6
<1>5. n \in G
  <2> HIDE DEF G
  <2>1. \A k \in 0..n : k \in G
    BY <1>1, <1>3, <1>4, BoundedInd
  <2> QED BY <1>1, <2>1
<1>6. {sets[i] : i \in 1..n} = ToSet(sets)
  BY <1>1 DEF ToSet
<1>7. out[n] \in V
  BY <1>1, <1>2
<1> QED BY <1>2, <1>5, <1>6, <1>7

(***************************************************************************)
(* A list without repetitions has as many members as places.               *)
(***************************************************************************)
LEMMA DistinctCount ==
  ASSUME NEW n \in Nat, NEW q, DOMAIN q = 1..n,
         \A i, j \in 1..n : q[i] = q[j] => i = j
  PROVE  IsFiniteSet(ToSet(q)) /\ Cardinality(ToSet(q)) = n
<1> DEFINE h == [i \in 1..n |-> q[i]]
<1>1. h \in Bijection(1..n, ToSet(q))
  <2>1. h \in [1..n -> ToSet(q)]
    BY DEF ToSet
  <2>2. \A i, j \in 1..n : h[i] = h[j] => i = j
    OBVIOUS
  <2>3. \A x \in ToSet(q) : \E i \in 1..n : h[i] = x
    BY DEF ToSet
  <2> HIDE DEF h
  <2> QED BY <2>1, <2>2, <2>3 DEF Bijection, Injection, Surjection, IsInjective
<1>2. IsFiniteSet(1..n) /\ Cardinality(1..n) = n
  BY FS_Interval
<1>3. ExistsBijection(1..n, ToSet(q))
  BY <1>1 DEF ExistsBijection
<1> QED BY <1>2, <1>3, FS_Bijection

(***************************************************************************)
(* Every set of positions is the one of a tuple.                           *)
(***************************************************************************)
LEMMA AscentOf ==
  ASSUME NEW n \in Nat, NEW I \in SUBSET (1..n)
  PROVE  \E a \in Ascents(n, Cardinality(I)) : ToSet(a) = I
<1> DEFINE k == Cardinality(I)
<1>1. IsFiniteSet(I) /\ k \in Nat
  <2>1. IsFiniteSet(1..n)
    BY FS_Interval
  <2>2. IsFiniteSet(I)
    BY <2>1, FS_Subset
  <2> QED BY <2>2, FS_CardinalityType
<1>2. IsFiniteSet(1..k) /\ Cardinality(1..k) = k
  BY <1>1, FS_Interval
<1>3. ExistsBijection(1..k, I)
  BY <1>1, <1>2, FS_SameCardinalityBij
<1> HIDE DEF k
<1>4. PICK b \in Bijection(1..k, I) : TRUE
  BY <1>3 DEF ExistsBijection
<1>5. /\ b \in [1..k -> I] /\ \A x \in I : \E i \in 1..k : b[i] = x
      /\ \A i, j \in 1..k : b[i] = b[j] => i = j
  BY <1>4 DEF Bijection, Injection, Surjection, IsInjective
<1>6. \A i \in 1..k : b[i] \in 1..n /\ b[i] \in I
  BY <1>5
<1> DEFINE fit == [i \in 1..k |-> 0 - b[i]]
<1>7. fit \in [1..k -> Int] /\ DOMAIN fit = 1..k /\ \A i \in 1..k : fit[i] = 0 - b[i]
  BY <1>6
<1> HIDE DEF fit
<1>8. PICK p \in [1..k -> 1..k] : IsRanking(p, fit)
  BY <1>1, <1>7, RankingExists
<1>9. /\ \A m \in 1..k : \E i \in 1..k : p[i] = m
      /\ \A i, j \in 1..k : i < j => \/ fit[p[i]] > fit[p[j]]
                                     \/ fit[p[i]] = fit[p[j]] /\ p[i] < p[j]
  BY <1>7, <1>8 DEF IsRanking
<1> DEFINE a == [i \in 1..k |-> b[p[i]]]
<1>10. ASSUME NEW i \in 1..k, NEW j \in 1..k, i < j PROVE b[p[i]] < b[p[j]]
  <2>1. p[i] \in 1..k /\ p[j] \in 1..k
    BY <1>8
  <2>2. b[p[i]] \in 1..n /\ b[p[j]] \in 1..n
    BY <1>6, <2>1
  <2>3. fit[p[i]] = 0 - b[p[i]] /\ fit[p[j]] = 0 - b[p[j]]
    BY <1>7, <2>1
  <2>4. CASE fit[p[i]] > fit[p[j]]
    BY <2>2, <2>3, <2>4
  <2>5. CASE fit[p[i]] = fit[p[j]] /\ p[i] < p[j]
    <3>1. b[p[i]] = b[p[j]]
      BY <2>2, <2>3, <2>5
    <3>2. p[i] = p[j]
      BY <1>5, <2>1, <3>1
    <3> QED BY <2>1, <2>5, <3>2
  <2> QED BY <1>9, <1>10, <2>4, <2>5
<1>11. a \in Seq(1..n) /\ Len(a) = k /\ \A i \in 1..k : a[i] = b[p[i]]
  <2>1. \A i \in 1..k : b[p[i]] \in 1..n
    BY <1>6, <1>8
  <2> QED BY <1>1, <2>1
<1>12. ToSet(a) = I
  <2>1. DOMAIN a = 1..k
    OBVIOUS
  <2> HIDE DEF a
  <2>2. \A i \in 1..k : a[i] \in I
    BY <1>6, <1>8, <1>11
  <2>3. \A x \in I : \E i \in 1..k : a[i] = x
    <3> SUFFICES ASSUME NEW x \in I PROVE \E i \in 1..k : a[i] = x
      OBVIOUS
    <3>1. PICK m \in 1..k : b[m] = x
      BY <1>5
    <3>2. PICK i \in 1..k : p[i] = m
      BY <1>9
    <3> QED BY <1>11, <3>1, <3>2
  <2> QED BY <2>1, <2>2, <2>3 DEF ToSet
<1> HIDE DEF a
<1>13. a \in Ascents(n, k)
  BY <1>10, <1>11 DEF Ascents
<1> QED BY <1>12, <1>13 DEF k

(***************************************************************************)
(* The experiments that were asked for, of any pool.                       *)
(***************************************************************************)
TriggersOf(S) == {f.trigger : f \in S}

TriggersApart(S, M) ==
  \A f, g \in S : f.trigger < g.trigger => g.trigger - f.trigger >= M

Wanted(pool, k, M) ==
  {S \in kSubset(k, ToSet(pool)) : TriggersApart(S, M) /\ Cardinality(TriggersOf(S)) = k}

LEMMA DrawnIsWanted ==
  ASSUME NEW pool \in Seq(AnyFault), NEW k \in Nat, NEW M \in Nat \ {0},
         NEW a \in Ascents(Len(pool), k), Separated(Drawn(pool, k, a), M)
  PROVE  ToSet(Drawn(pool, k, a)) \in Wanted(pool, k, M)
<1> DEFINE c == Drawn(pool, k, a)
<1>1. a \in Seq(1..Len(pool)) /\ Len(a) = k /\ DOMAIN c = 1..k
  BY DEF Ascents, Drawn
<1>2. \A i \in 1..k : a[i] \in 1..Len(pool) /\ c[i] = pool[a[i]]
  BY <1>1 DEF Drawn
<1>3. \A i \in 1..k : c[i] \in AnyFault /\ c[i] \in ToSet(pool)
  BY <1>2 DEF ToSet
<1>4. c \in Seq(AnyFault)
  <2>1. c = [i \in 1..k |-> c[i]]
    BY DEF Drawn
  <2> HIDE DEF c
  <2> QED BY <1>3, <2>1
<1> HIDE DEF c
<1>5. PairwiseFar(c, M)
  BY <1>4, SeparatedIs DEF c
<1>6. \A i \in 1..k : c[i].trigger \in Nat
  BY <1>3 DEF AnyFault
<1>7. \A i, j \in 1..k : i # j => FarFrom(c[i], c[j], M)
  BY <1>1, <1>5 DEF PairwiseFar
<1>8. \A i, j \in 1..k : c[i].trigger = c[j].trigger => i = j
  BY <1>6, <1>7 DEF FarFrom
<1>9. Cardinality(ToSet(c)) = k
  <2>1. \A i, j \in 1..k : c[i] = c[j] => i = j
    BY <1>8
  <2> QED BY <1>1, <2>1, DistinctCount
<1> DEFINE times == [i \in 1..k |-> c[i].trigger]
<1>10. Cardinality(TriggersOf(ToSet(c))) = k
  <2>1. ToSet(times) = TriggersOf(ToSet(c))
    BY <1>1 DEF ToSet, TriggersOf
  <2>2. DOMAIN times = 1..k /\ \A i, j \in 1..k : times[i] = times[j] => i = j
    BY <1>8
  <2> HIDE DEF times
  <2> QED BY <2>1, <2>2, DistinctCount
<1>11. TriggersApart(ToSet(c), M)
  <2> SUFFICES ASSUME NEW f \in ToSet(c), NEW g \in ToSet(c), f.trigger < g.trigger
               PROVE  g.trigger - f.trigger >= M
    BY DEF TriggersApart
  <2>1. PICK i \in 1..k : f = c[i]
    BY <1>1 DEF ToSet
  <2>2. PICK j \in 1..k : g = c[j]
    BY <1>1 DEF ToSet
  <2>3. i # j
    BY <1>6, <2>1, <2>2
  <2>4. FarFrom(c[i], c[j], M) /\ c[i].trigger \in Nat /\ c[j].trigger \in Nat
    BY <1>6, <1>7, <2>3
  <2> QED BY <2>1, <2>2, <2>4 DEF FarFrom
<1>12. ToSet(c) \subseteq ToSet(pool)
  BY <1>1, <1>3 DEF ToSet
<1> QED BY <1>9, <1>10, <1>11, <1>12 DEF Wanted, kSubset, c

LEMMA WantedIsDrawn ==
  ASSUME NEW pool \in Seq(AnyFault), NEW k \in Nat, NEW M \in Nat \ {0},
         NEW S \in Wanted(pool, k, M)
  PROVE  \E a \in Ascents(Len(pool), k) :
           ToSet(Drawn(pool, k, a)) = S /\ Separated(Drawn(pool, k, a), M)
<1> DEFINE n == Len(pool)
<1>1. /\ S \subseteq ToSet(pool) /\ Cardinality(S) = k
      /\ TriggersApart(S, M) /\ Cardinality(TriggersOf(S)) = k
  BY DEF Wanted, kSubset
<1>2. n \in Nat /\ DOMAIN pool = 1..n /\ \A i \in 1..n : pool[i] \in AnyFault
  OBVIOUS
<1> HIDE DEF n
<1>3. \A f \in S : f \in AnyFault /\ f.trigger \in Nat /\ \E i \in 1..n : pool[i] = f
  <2>1. \A f \in S : \E i \in 1..n : pool[i] = f
    BY <1>1, <1>2 DEF ToSet
  <2>2. \A f \in S : f \in AnyFault
    BY <1>2, <2>1
  <2> QED BY <2>1, <2>2 DEF AnyFault
<1> DEFINE first == [f \in S |-> CHOOSE i \in 1..n : pool[i] = f]
           I == {first[f] : f \in S}
<1>4. first \in [S -> 1..n] /\ \A f \in S : pool[first[f]] = f
  BY <1>3
<1> HIDE DEF first
<1>5. first \in Surjection(S, I)
  BY <1>4 DEF Surjection
<1>6. first \in Injection(S, I)
  BY <1>4 DEF Injection, IsInjective
<1>7. I \in SUBSET (1..n)
  BY <1>4
<1>8. IsFiniteSet(I) /\ IsFiniteSet(S)
  <2>1. IsFiniteSet(1..n)
    BY <1>2, FS_Interval
  <2>2. IsFiniteSet(I)
    BY <1>7, <2>1, FS_Subset
  <2> HIDE DEF I
  <2> QED BY <1>6, <2>2, FS_Injection
<1>9. Cardinality(I) = k
  <2> HIDE DEF I
  <2> QED BY <1>1, <1>5, <1>6, <1>8, FS_Surjection
<1>10. PICK a \in Ascents(n, k) : ToSet(a) = I
  BY <1>2, <1>7, <1>9, AscentOf
<1>11. /\ a \in Seq(1..n) /\ Len(a) = k /\ DOMAIN a = 1..k
       /\ \A i, j \in 1..k : i < j => a[i] < a[j]
  BY DEF Ascents
<1> DEFINE c == Drawn(pool, k, a)
<1>12. /\ DOMAIN c = 1..k /\ c = [j \in 1..k |-> c[j]]
       /\ \A i \in 1..k : c[i] = pool[a[i]]
  BY DEF Drawn
<1> HIDE DEF c
<1>13. \A i \in 1..k : a[i] \in 1..n /\ \E f \in S : a[i] = first[f] /\ c[i] = f
  <2>1. \A i \in 1..k : a[i] \in I /\ a[i] \in 1..n
    <3> HIDE DEF I
    <3>1. \A i \in 1..k : a[i] \in ToSet(a)
      BY <1>11 DEF ToSet
    <3> QED BY <1>7, <1>10, <3>1
  <2> QED BY <1>4, <1>12, <2>1
<1>14. ToSet(c) = S
  <2>1. \A i \in 1..k : c[i] \in S
    BY <1>13
  <2>2. \A f \in S : \E i \in 1..k : c[i] = f
    <3> SUFFICES ASSUME NEW f \in S PROVE \E i \in 1..k : c[i] = f
      OBVIOUS
    <3>1. first[f] \in ToSet(a)
      BY <1>10
    <3>2. PICK i \in 1..k : a[i] = first[f]
      BY <1>11, <3>1 DEF ToSet
    <3> QED BY <1>4, <1>12, <3>2
  <2> QED BY <1>12, <2>1, <2>2 DEF ToSet
<1> DEFINE trig == [f \in S |-> f.trigger]
<1>15. \A f, g \in S : f.trigger = g.trigger => f = g
  <2>1. trig \in Surjection(S, TriggersOf(S))
    BY DEF Surjection, TriggersOf
  <2>2. \A f \in S : trig[f] = f.trigger
    OBVIOUS
  <2> HIDE DEF trig
  <2>3. trig \in Injection(S, TriggersOf(S))
    BY <1>1, <1>8, <2>1, FS_Surjection
  <2> QED BY <2>2, <2>3 DEF Injection, IsInjective
<1>16. c \in Seq(AnyFault)
  <2>1. \A i \in 1..k : c[i] \in AnyFault
    BY <1>3, <1>13
  <2> QED BY <1>12, <2>1
<1>17. ASSUME NEW i \in 1..k, NEW j \in 1..k, i # j PROVE FarFrom(c[i], c[j], M)
  <2>1. a[i] # a[j] /\ a[i] \in 1..n /\ a[j] \in 1..n
    <3>1. i < j \/ j < i
      BY <1>17
    <3> QED BY <1>11, <1>13, <3>1
  <2>2. PICK f \in S : a[i] = first[f] /\ c[i] = f
    BY <1>13
  <2>3. PICK g \in S : a[j] = first[g] /\ c[j] = g
    BY <1>13
  <2>4. f.trigger # g.trigger
    BY <1>15, <2>1, <2>2, <2>3
  <2>5. f.trigger \in Nat /\ g.trigger \in Nat
    BY <1>3
  <2> QED BY <1>1, <2>2, <2>3, <2>4, <2>5 DEF TriggersApart, FarFrom
<1>18. Separated(c, M)
  <2>1. PairwiseFar(c, M)
    BY <1>12, <1>17 DEF PairwiseFar
  <2> QED BY <1>16, <2>1, SeparatedIs
<1> QED BY <1>14, <1>18 DEF c, n

(***************************************************************************)
(* The stream yields the wanted experiments and nothing else.              *)
(***************************************************************************)
LEMMA StreamIsWanted ==
  ASSUME NEW pool \in Seq(AnyFault), NEW k \in Nat, NEW M \in Nat \ {0}
  PROVE  /\ {ToSet(s) : s \in ToSet(MultiFaultStream(pool, k, M))} = Wanted(pool, k, M)
         /\ \A s \in ToSet(MultiFaultStream(pool, k, M)) : s \in Seq(AnyFault) /\ Rising(s)
<1> DEFINE stream == MultiFaultStream(pool, k, M)
           C == ToSet(Combinations(pool, k))
<1>1. \A s : s \in ToSet(stream) <=> \E c \in C : Separated(c, M) /\ s = FaultSet(c)
  BY StreamHolds
<1>2. Combinations(pool, k) \in Seq(Seq(AnyFault))
  BY CombinationsAre
<1>3. \A c \in C : c \in Seq(AnyFault)
  BY <1>2 DEF ToSet
<1>4. \A c : c \in C <=> \E a \in Ascents(Len(pool), k) : c = Drawn(pool, k, a)
  BY CombinationsAre
<1> HIDE DEF stream, C
<1>5. ASSUME NEW s \in ToSet(stream)
      PROVE  s \in Seq(AnyFault) /\ Rising(s) /\ ToSet(s) \in Wanted(pool, k, M)
  <2>1. PICK c \in C : Separated(c, M) /\ s = FaultSet(c)
    BY <1>1
  <2>2. c \in Seq(AnyFault)
    BY <1>3
  <2>3. s \in Seq(AnyFault) /\ ToSet(s) = ToSet(c)
    BY <2>1, <2>2, FaultSetTyped
  <2>4. Rising(s)
    BY <2>1, <2>2, SeparatedSorted
  <2>5. PICK a \in Ascents(Len(pool), k) : c = Drawn(pool, k, a)
    BY <1>4
  <2>6. ToSet(c) \in Wanted(pool, k, M)
    BY <2>1, <2>5, DrawnIsWanted
  <2> QED BY <2>3, <2>4, <2>6
<1>6. ASSUME NEW S \in Wanted(pool, k, M) PROVE \E s \in ToSet(stream) : ToSet(s) = S
  <2>1. PICK a \in Ascents(Len(pool), k) :
          ToSet(Drawn(pool, k, a)) = S /\ Separated(Drawn(pool, k, a), M)
    BY WantedIsDrawn
  <2> DEFINE c == Drawn(pool, k, a)
  <2>2. c \in C /\ ToSet(c) = S /\ Separated(c, M)
    BY <1>4, <2>1
  <2> HIDE DEF c
  <2>3. FaultSet(c) \in ToSet(stream)
    BY <1>1, <2>2
  <2>4. ToSet(FaultSet(c)) = S
    BY <1>3, <2>2, FaultSetTyped
  <2> QED BY <2>3, <2>4
<1>7. {ToSet(s) : s \in ToSet(stream)} = Wanted(pool, k, M)
  BY <1>5, <1>6
<1> QED BY <1>5, <1>7 DEF stream

(***************************************************************************)
(* What is run is what was asked for, from the stream or from dedupe().    *)
(***************************************************************************)
FedWith(sets, W) ==
  /\ {ToSet(sets[i]) : i \in DOMAIN sets} = W
  /\ \A i \in DOMAIN sets : sets[i] \in Seq(AnyFault) /\ Rising(sets[i])

LEMMA WantedIsFed ==
  ASSUME NEW pool \in Seq(AnyFault), NEW k \in Nat, NEW M \in Nat \ {0},
         NEW sets \in Seq(Seq(AnyFault)),
         ToSet(sets) = ToSet(MultiFaultStream(pool, k, M))
  PROVE  FedWith(sets, Wanted(pool, k, M))
<1> DEFINE T == ToSet(sets)
<1>1. /\ {ToSet(s) : s \in T} = Wanted(pool, k, M)
      /\ \A s \in T : s \in Seq(AnyFault) /\ Rising(s)
  BY StreamIsWanted
<1>2. \A i \in DOMAIN sets : sets[i] \in T
  BY DEF ToSet
<1>3. \A s \in T : \E i \in DOMAIN sets : sets[i] = s
  BY DEF ToSet
<1> HIDE DEF T
<1>4. {ToSet(sets[i]) : i \in DOMAIN sets} = {ToSet(s) : s \in T}
  BY <1>2, <1>3
<1> QED BY <1>1, <1>2, <1>4 DEF FedWith

LEMMA DedupedCount ==
  ASSUME NEW pool \in Seq(AnyFault), NEW k \in Nat, NEW M \in Nat \ {0}
  PROVE  LET sets == Dedupe(MultiFaultStream(pool, k, M))
         IN  /\ sets \in Seq(Seq(AnyFault)) /\ FedWith(sets, Wanted(pool, k, M))
             /\ Len(sets) = Cardinality(Wanted(pool, k, M))
<1> DEFINE stream == MultiFaultStream(pool, k, M)
           sets == Dedupe(stream)
           h == [i \in DOMAIN sets |-> ToSet(sets[i])]
<1>1. stream \in Seq(Seq(AnyFault))
  BY StreamHolds
<1> HIDE DEF stream
<1>2. /\ sets \in Seq(Seq(AnyFault)) /\ ToSet(sets) = ToSet(stream)
      /\ \A i, j \in DOMAIN sets : sets[i] = sets[j] => i = j
  BY <1>1, DedupeHolds
<1> HIDE DEF sets
<1>3. FedWith(sets, Wanted(pool, k, M))
  BY <1>2, WantedIsFed DEF stream
<1>4. Len(sets) \in Nat /\ DOMAIN sets = 1..Len(sets)
  BY <1>2
<1>5. \A i, j \in DOMAIN sets : h[i] = h[j] => i = j
  <2> SUFFICES ASSUME NEW i \in DOMAIN sets, NEW j \in DOMAIN sets, h[i] = h[j]
               PROVE  i = j
    OBVIOUS
  <2>1. sets[i] = sets[j]
    BY <1>3, RisingUnique DEF FedWith
  <2> QED BY <1>2, <2>1
<1>6. ToSet(h) = Wanted(pool, k, M)
  <2>1. DOMAIN h = DOMAIN sets /\ \A i \in DOMAIN sets : h[i] = ToSet(sets[i])
    OBVIOUS
  <2> HIDE DEF h
  <2>2. ToSet(h) = {h[i] : i \in DOMAIN sets}
    BY <2>1 DEF ToSet
  <2>3. {h[i] : i \in DOMAIN sets} = {ToSet(sets[i]) : i \in DOMAIN sets}
    BY <2>1
  <2> QED BY <1>3, <2>2, <2>3 DEF FedWith
<1>7. DOMAIN h = 1..Len(sets)
  BY <1>4
<1> HIDE DEF h
<1>8. Len(sets) = Cardinality(Wanted(pool, k, M))
  BY <1>4, <1>5, <1>6, <1>7, DistinctCount
<1> QED BY <1>2, <1>3, <1>8 DEF sets, stream

(***************************************************************************)
(* The candidates of the search.                                           *)
(***************************************************************************)
LEMMA SkipFaultsTyped ==
  ASSUME NEW triggers \in Seq(Nat), NEW widths \in Seq(Nat)
  PROVE  AsSkipFaults(triggers, widths) \in Seq(AnyFault)
<1> DEFINE row(t) == [k \in DOMAIN widths |-> Fault(t, "SKIP", 0, widths[k])]
           rows == [i \in DOMAIN triggers |-> row(triggers[i])]
<1>1. ASSUME NEW t \in Nat, NEW w \in Nat PROVE Fault(t, "SKIP", 0, w) \in AnyFault
  BY DEF Fault, AnyFault, FaultModels
<1>2. ASSUME NEW t \in Nat PROVE row(t) \in Seq(AnyFault)
  <2>1. \A k \in DOMAIN widths : Fault(t, "SKIP", 0, widths[k]) \in AnyFault
    BY <1>1
  <2>2. Len(widths) \in Nat /\ DOMAIN widths = 1..Len(widths)
    OBVIOUS
  <2> DEFINE one(k) == Fault(t, "SKIP", 0, widths[k])
  <2>3. \A k \in 1..Len(widths) : one(k) \in AnyFault
    BY <2>1, <2>2
  <2> HIDE DEF one
  <2>4. [k \in 1..Len(widths) |-> one(k)] \in Seq(AnyFault)
    BY <2>2, <2>3
  <2> QED BY <2>2, <2>4 DEF one
<1>3. rows \in Seq(Seq(AnyFault))
  <2> DEFINE V == Seq(AnyFault)
             one(i) == row(triggers[i])
  <2>1. /\ Len(triggers) \in Nat /\ DOMAIN triggers = 1..Len(triggers)
        /\ \A i \in 1..Len(triggers) : triggers[i] \in Nat
    OBVIOUS
  <2> HIDE DEF row
  <2>2. \A i \in 1..Len(triggers) : one(i) \in V
    BY <1>2, <2>1
  <2> HIDE DEF one, V
  <2>3. [i \in 1..Len(triggers) |-> one(i)] \in Seq(V)
    BY <2>1, <2>2
  <2> QED BY <2>1, <2>3 DEF one, V
<1>4. AsSkipFaults(triggers, widths) = FlattenSeq(rows)
  BY DEF AsSkipFaults
<1> HIDE DEF rows
<1> QED BY <1>3, <1>4, FlattenType

LEMMA PoolTypedFaults ==
  ASSUME SweepInv, SweptRows, idx \in Seq(Nat)
  PROVE  SearchPool \in Seq(AnyFault)
<1>1. slots \in Seq(SkipRows) /\ GoldenLen \in Nat
  BY SweptSlots
<1>2. \A r \in SkipRows : r.trigger \in Nat
  <2> SUFFICES ASSUME NEW fs \in SkipSets PROVE RowOf(fs).trigger \in Nat
    BY DEF SkipRows
  <2>1. RowOf(fs).trigger \in 0..(GoldenLen - 1)
    BY SkipRow
  <2> QED BY <1>1, <2>1
<1>3. NearMisses \in Seq(Nat)
  <2>1. Len(slots) \in 0..Len(slots)
    BY <1>1
  <2> QED BY <1>1, <1>2, <2>1, NearMissRun
<1>4. /\ AsSkipFaults(idx, SearchWidths) \in Seq(AnyFault)
      /\ AsSkipFaults(NearMisses, SearchWidths) \in Seq(AnyFault)
  BY <1>3, SearchAssumption, SkipFaultsTyped
<1> QED BY <1>4 DEF SearchPool

(***************************************************************************)
(* The inductive invariant of the whole search: what the slice lists are   *)
(* triggers.                                                               *)
(***************************************************************************)
SearchInv == SweepInv /\ idx \in Seq(Nat) /\ at \in Int

LEMMA SliceKeepsTriggers ==
  ASSUME SearchInv, SliceNext PROVE idx' \in Seq(Nat) /\ at' \in Int
<1>1. CASE OnCode \/ OnMem
  BY <1>1 DEF OnCode, OnMem, walk, SearchInv
<1>2. CASE BeginWalk
  <2>1. execution \in Seq(Instruction)
    BY ExecutionsAssumption DEF SearchInv, SweepInv
  <2> QED BY <1>2, <2>1 DEF BeginWalk, SearchInv
<1>3. CASE Walk
  <2>1. at' = at - 1 /\ at > 0 /\ (idx' = Append(idx, at - 1) \/ idx' = idx)
    BY <1>3 DEF Walk
  <2>2. at - 1 \in Nat
    BY <2>1 DEF SearchInv
  <2>3. \A q \in Seq(Nat), m \in Nat : Append(q, m) \in Seq(Nat)
    OBVIOUS
  <2> QED BY <2>1, <2>2, <2>3 DEF SearchInv
<1>4. CASE EndWalk
  <2>1. idx' = Reverse(idx) /\ at' = at
    BY <1>4 DEF EndWalk
  <2>2. \A j \in 1..Len(idx) : idx[(Len(idx) - j) + 1] \in Nat
    BY DEF SearchInv
  <2>3. Reverse(idx) \in Seq(Nat)
    BY <2>2 DEF Reverse, SearchInv
  <2> QED BY <2>1, <2>3 DEF SearchInv
<1> QED BY <1>1, <1>2, <1>3, <1>4 DEF SliceNext

LEMMA SearchStart == Init => SearchInv
  BY SweepStart DEF Init, SliceInit, SearchInv

LEMMA SearchStep == SearchInv /\ [Next]_searchVars => SearchInv'
<1> SUFFICES ASSUME SearchInv, [Next]_searchVars PROVE SearchInv'
  OBVIOUS
<1>1. SweepInv'
  BY SweepStep DEF SearchInv
<1>2. CASE TakeSlice
  BY <1>1, <1>2, SliceKeepsTriggers DEF TakeSlice, SearchInv
<1>3. CASE ~TakeSlice
  <2>1. UNCHANGED sliceVars
    BY <1>3 DEF Next, BeginSweep, RunCampaign, BeginSearch, BeginEvolution, Evolve, searchVars
  <2> QED BY <1>1, <2>1 DEF sliceVars, walk, SearchInv
<1> QED BY <1>2, <1>3

LEMMA SearchFed ==
  ASSUME SearchInv, BeginSearch
  PROVE  /\ feed' \in Seq(Seq(AnyFault))
         /\ FedWith(feed', Wanted(SearchPool, Order, MinSeparation))
         /\ driver' # "stream" =>
              Len(feed') = Cardinality(Wanted(SearchPool, Order, MinSeparation))
<1> DEFINE pool == SearchPool
           W == Wanted(pool, Order, MinSeparation)
           sets == MultiFaultStream(pool, Order, MinSeparation)
<1>1. pool \in Seq(AnyFault)
  BY PoolTypedFaults DEF BeginSearch, SearchInv
<1>2. Order \in Nat /\ MinSeparation \in Nat \ {0}
  BY GAAssumption, SearchAssumption
<1>3. driver' # "stream" => feed' = Dedupe(sets)
  BY DEF BeginSearch, Call
<1>4. driver' = "stream" => feed' = sets
  BY DEF BeginSearch, Call
<1> HIDE DEF pool
<1>5. sets \in Seq(Seq(AnyFault)) /\ FedWith(sets, W)
  BY <1>1, <1>2, StreamHolds, WantedIsFed
<1>6. /\ Dedupe(sets) \in Seq(Seq(AnyFault)) /\ FedWith(Dedupe(sets), W)
      /\ Len(Dedupe(sets)) = Cardinality(W)
  BY <1>1, <1>2, DedupedCount
<1> HIDE DEF sets, W
<1> QED BY <1>3, <1>4, <1>5, <1>6 DEF W, pool

(***************************************************************************)
(* The experiments that a seeded search runs are the realisable ones, each *)
(* of them, and once unless they are streamed: every set of Order faults   *)
(* of its candidates whose triggers are MinSeparation apart, for every     *)
(* pool, order and separation (faults.py multi_fault_stream_from_candidates*)
(* and dedupe(), called by cli.py search-seeded).                          *)
(***************************************************************************)
THEOREM ExperimentsComplete == Spec => EveryExperimentOnce
<1>1. Realisable = Wanted(SearchPool, Order, MinSeparation)
  BY DEF Realisable, FarApart, Wanted, TriggersApart, TriggersOf
<1>2. SearchInv /\ BeginSearch =>
        /\ {ToSet(feed'[i]) : i \in DOMAIN feed'} = Realisable
        /\ driver' # "stream" => Len(feed') = Cardinality(Realisable)
        /\ \A i \in DOMAIN feed' : \A j, k \in DOMAIN feed'[i] :
             j < k => feed'[i][j].trigger < feed'[i][k].trigger
  BY <1>1, SearchFed DEF FedWith, Rising
<1> QED BY <1>2, SearchStart, SearchStep, PTL DEF Spec, EveryExperimentOnce

(***************************************************************************)
(* The campaigns of a sweep and of a seeded search are such campaigns, since*)
(* what the generators of faults.py make are lists of fault sets; so what  *)
(* was proved of any campaign holds of them (campaign.py run_fault_sets,   *)
(* run_fault_sets_streaming).                                              *)
(***************************************************************************)
THEOREM SearchKeepsContract ==
  Spec => KeepsContract /\ []RowsFollowSets /\ []ResultIsComplete
<1>1. Init => CampaignInit
  BY DEF Init
<1>2. SearchInv /\ [Next]_searchVars => [AnyCall \/ CampaignNext]_campaignVars
  <2> SUFFICES ASSUME SearchInv, [Next]_searchVars
               PROVE  [AnyCall \/ CampaignNext]_campaignVars
    OBVIOUS
  <2>1. CASE BeginSweep
    <3>1. PICK d \in Drivers : Call(d, Sweep)
      BY <2>1 DEF BeginSweep
    <3>2. Sweep \in Seq(Seq(AnyFault))
      BY SweepIsFeed DEF SearchInv, SweepInv
    <3>3. feed' = Sweep
      BY <3>1 DEF Call
    <3> QED BY <3>1, <3>2, <3>3 DEF AnyCall
  <2>2. CASE BeginSearch
    <3> DEFINE sets == MultiFaultStream(SearchPool, Order, MinSeparation)
    <3>1. PICK d \in Drivers : Call(d, IF d = "stream" THEN sets ELSE Dedupe(sets))
      BY <2>2 DEF BeginSearch
    <3> HIDE DEF sets
    <3>2. Call(d, feed')
      BY <3>1 DEF Call
    <3> QED BY <2>2, <3>1, <3>2, SearchFed DEF AnyCall
  <2> QED BY <2>1, <2>2 DEF Next, TakeSlice, RunCampaign, BeginEvolution, Evolve, searchVars
<1>3. Spec => AnyCampaigns
  BY <1>1, <1>2, SearchStart, SearchStep, PTL DEF Spec, AnyCampaigns
<1> QED BY <1>3, Refinement, RowsInOrder, ResultComplete, PTL

-----------------------------------------------------------------------------
(***************************************************************************)
(* What the genetic search breeds.                                         *)
(***************************************************************************)

(***************************************************************************)
(* What the genetic search handles are fault sets, and while it breeds the *)
(* ranking is that of its population.                                      *)
(***************************************************************************)
BredSets ==
  /\ candidates \in Seq(AnyFault)
  /\ population \in Seq(Seq(AnyFault)) /\ nextGen \in Seq(Seq(AnyFault))
  /\ search = "breeding" =>
       \A i \in DOMAIN scored : scored[i][2] \in ToSet(population)

LEMMA SamplesTyped ==
  ASSUME NEW pool \in Seq(AnyFault)
  PROVE  Samples(pool, Order) \subseteq Seq(AnyFault)
<1>1. Combinations(pool, Order) \in Seq(Seq(AnyFault))
  BY GAAssumption, CombinationsAre
<1>2. \A c \in ToSet(Combinations(pool, Order)) : c \in Seq(AnyFault)
  BY <1>1 DEF ToSet
<1> QED BY <1>2, FaultSetTyped DEF Samples

LEMMA ScoredMembers ==
  ASSUME RunsClassified, NEW S, population \in Seq(S)
  PROVE  \A k \in DOMAIN Scored : Scored[k][2] \in ToSet(population)
<1> DEFINE n == Len(population)
           row == [i \in DOMAIN population |-> RowOf(population[i])]
           fit == [i \in DOMAIN population |-> Fitness(row[i])]
           place == Ranking(fit)
<1>1. n \in Nat /\ DOMAIN population = 1..n
  OBVIOUS
<1>2. DOMAIN fit = 1..n /\ \A i \in 1..n : fit[i] = Fitness(RowOf(population[i]))
  BY <1>1
<1>3. fit \in [1..n -> Int]
  <2>1. \A i \in 1..n : Fitness(RowOf(population[i])) \in Int
    BY FitnessSeparates
  <2> HIDE DEF n
  <2> QED
    BY <1>1, <2>1
<1> HIDE DEF fit, n
<1>4. place \in [1..n -> 1..n]
  <2>1. \E p \in [DOMAIN fit -> DOMAIN fit] : IsRanking(p, fit)
    BY <1>1, <1>2, <1>3, RankingExists
  <2> QED
    BY <1>2, <2>1 DEF Ranking
<1>5. Scored = [k \in DOMAIN population |->
                  <<Fitness(row[place[k]]), population[place[k]], row[place[k]]>>]
  BY DEF Scored, fit
<1> HIDE DEF place
<1> QED BY <1>1, <1>4, <1>5 DEF ToSet

LEMMA ElitesTyped ==
  ASSUME NEW S, NEW ranking, NEW n \in Nat, DOMAIN ranking = 1..n, Len(ranking) = n,
         \A k \in DOMAIN ranking : ranking[k][2] \in S
  PROVE  Elites(ranking) \in Seq(S)
<1> DEFINE m == Min({EliteN, n})
<1>1. m \in Nat /\ m <= n
  <2>1. EliteN \in Nat
    BY GAAssumption
  <2>2. \E x \in {EliteN, n} : \A y \in {EliteN, n} : x <= y
    BY <2>1
  <2> QED BY <2>1, <2>2 DEF Min
<1> HIDE DEF m
<1>2. \A i \in 1..m : ranking[i][2] \in S
  BY <1>1
<1>3. [i \in 1..m |-> ranking[i][2]] \in Seq(S)
  BY <1>1, <1>2
<1> QED BY <1>3 DEF Elites, m

LEMMA SampleSeqs ==
  ASSUME NEW S, S \subseteq AnyFault, IsFiniteSet(S)
  PROVE  SetToSeq(S) \in Seq(AnyFault)
<1> DEFINE k == Cardinality(S)
<1>1. k \in Nat /\ ExistsBijection(1..k, S)
  BY FS_CardinalityType
<1>2. \E f \in [1..k -> S] : IsInjective(f)
  BY <1>1 DEF ExistsBijection, Bijection, Injection
<1>3. SetToSeq(S) \in [1..k -> S]
  BY <1>2 DEF SetToSeq
<1> HIDE DEF k
<1> QED BY <1>1, <1>3

LEMMA MembersFinite ==
  ASSUME NEW q \in Seq(AnyFault) PROVE IsFiniteSet(ToSet(q)) /\ ToSet(q) \subseteq AnyFault
<1>1. IsFiniteSet(1..Len(q)) /\ DOMAIN q = 1..Len(q)
  BY FS_Interval
<1>2. q \in Surjection(DOMAIN q, ToSet(q))
  BY <1>1 DEF Surjection, ToSet
<1>3. IsFiniteSet(ToSet(q))
  BY <1>1, <1>2, FS_Surjection
<1> QED BY <1>3 DEF ToSet

(***************************************************************************)
(* What a generation is bred of (_tournament, _crossover, _mutate).        *)
(***************************************************************************)
LEMMA WinnersAre ==
  ASSUME BredSets, search = "breeding", NEW a \in Winners
  PROVE  a \in ToSet(population) /\ a \in Seq(AnyFault)
<1>1. \E i \in DOMAIN scored : a = scored[i][2]
  BY DEF Winners
<1>2. a \in ToSet(population)
  BY <1>1 DEF BredSets
<1> QED BY <1>2 DEF BredSets, ToSet

LEMMA ChildrenAre ==
  ASSUME NEW a \in Seq(AnyFault), NEW b \in Seq(AnyFault), NEW child \in Children(a, b)
  PROVE  /\ child \in Seq(AnyFault)
         /\ child \in {a, b} \/ Separated(child, MinSeparation)
<1> DEFINE genes == ToSet(a) \cup ToSet(b)
<1>1. IsFiniteSet(genes) /\ genes \subseteq AnyFault
  BY MembersFinite, FS_Union
<1> HIDE DEF genes
<1>2. \A S \in kSubset(Order, genes) : FaultSet(SetToSeq(S)) \in Seq(AnyFault)
  <2> SUFFICES ASSUME NEW S \in kSubset(Order, genes)
               PROVE  FaultSet(SetToSeq(S)) \in Seq(AnyFault)
    OBVIOUS
  <2>1. S \subseteq genes
    BY DEF kSubset
  <2>2. IsFiniteSet(S) /\ S \subseteq AnyFault
    BY <1>1, <2>1, FS_Subset
  <2>3. SetToSeq(S) \in Seq(AnyFault)
    BY <2>2, SampleSeqs
  <2> QED BY <2>3, FaultSetTyped
<1>3. \/ child \in {a, b}
      \/ /\ Separated(child, MinSeparation)
         /\ \E S \in kSubset(Order, genes) : child = FaultSet(SetToSeq(S))
  BY DEF Children, genes
<1> QED BY <1>2, <1>3

LEMMA MutantsAre ==
  ASSUME candidates \in Seq(AnyFault), NEW child \in Seq(AnyFault), NEW fs \in Mutants(child)
  PROVE  /\ fs \in Seq(AnyFault)
         /\ fs = child \/ Separated(fs, MinSeparation)
<1>1. CASE fs = child
  BY <1>1
<1>2. CASE fs # child
  <2> DEFINE changed == {[child EXCEPT ![i] = candidates[c]] :
                           i \in DOMAIN child, c \in DOMAIN candidates}
  <2>1. \A m \in changed : m \in Seq(AnyFault)
    <3> SUFFICES ASSUME NEW i \in DOMAIN child, NEW c \in DOMAIN candidates
                 PROVE  [child EXCEPT ![i] = candidates[c]] \in Seq(AnyFault)
      OBVIOUS
    <3>1. candidates[c] \in AnyFault
      OBVIOUS
    <3> QED BY <3>1
  <2>2. Mutants(child) = {child} \cup
         {FaultSet(m) : m \in {x \in changed : Separated(x, MinSeparation)}}
    BY DEF Mutants
  <2> HIDE DEF changed
  <2>3. PICK m \in changed : fs = FaultSet(m) /\ Separated(m, MinSeparation)
    BY <1>2, <2>2
  <2>4. m \in Seq(AnyFault)
    BY <2>1
  <2>5. MinSeparation \in Nat
    BY SearchAssumption
  <2> QED BY <2>3, <2>4, <2>5, FaultSetTyped, SeparatedSorted
<1> QED BY <1>1, <1>2

LEMMA BredIs ==
  ASSUME BredSets, Breed
  PROVE  \E fs \in Seq(AnyFault) :
           /\ nextGen' = Append(nextGen, fs)
           /\ fs \in ToSet(population) \/ Separated(fs, MinSeparation)
<1>1. PICK a \in Winners, b \in Winners : \E child \in Children(a, b) :
        \E fs \in {child} \cup Mutants(child) : nextGen' = Append(nextGen, fs)
  BY DEF Breed
<1>2. PICK child \in Children(a, b) :
        \E fs \in {child} \cup Mutants(child) : nextGen' = Append(nextGen, fs)
  BY <1>1
<1>3. PICK fs \in {child} \cup Mutants(child) : nextGen' = Append(nextGen, fs)
  BY <1>2
<1>4. /\ a \in ToSet(population) /\ a \in Seq(AnyFault)
      /\ b \in ToSet(population) /\ b \in Seq(AnyFault)
  BY WinnersAre DEF Breed
<1>5. child \in Seq(AnyFault) /\ (child \in {a, b} \/ Separated(child, MinSeparation))
  BY <1>4, ChildrenAre
<1>6. fs \in Seq(AnyFault) /\ (fs = child \/ Separated(fs, MinSeparation))
  BY <1>3, <1>5, MutantsAre DEF BredSets
<1> QED BY <1>3, <1>4, <1>5, <1>6

LEMMA BredStart == GAInit => BredSets
<1>1. \A S : <<>> \in Seq(S)
  OBVIOUS
<1> QED BY <1>1 DEF GAInit, BredSets

LEMMA BredStep ==
  ASSUME RunsClassified, SearchInv, BredSets, [Next]_searchVars PROVE BredSets'
<1>0. \A q \in Seq(Seq(AnyFault)), fs \in Seq(AnyFault) : Append(q, fs) \in Seq(Seq(AnyFault))
  OBVIOUS
<1>1. CASE BeginEvolution
  <2>1. SearchPool \in Seq(AnyFault)
    BY <1>1, PoolTypedFaults DEF BeginEvolution, SearchInv
  <2>2. RunGA(SearchPool)
    BY <1>1 DEF BeginEvolution
  <2>3. population' \in [1..Population -> Seq(AnyFault)]
    BY <2>1, <2>2, SamplesTyped DEF RunGA
  <2>4. Population \in Nat
    BY GAAssumption
  <2>5. population' \in Seq(Seq(AnyFault))
    <3> DEFINE V == Seq(AnyFault)
    <3>1. population' \in [1..Population -> V]
      BY <2>3
    <3> HIDE DEF V
    <3>2. population' \in Seq(V)
      BY <2>4, <3>1
    <3> QED BY <3>2 DEF V
  <2> QED BY <2>1, <2>2, <2>5 DEF RunGA, BredSets
<1>2. CASE Evaluate
  <2>1. /\ scored' = Scored /\ UNCHANGED <<candidates, population>>
        /\ nextGen' = <<>> \/ nextGen' = Elites(scored')
    BY <1>2 DEF Evaluate
  <2>2. \A k \in DOMAIN Scored : Scored[k][2] \in ToSet(population)
    BY ScoredMembers DEF BredSets
  <2>3. \A k \in DOMAIN Scored : Scored[k][2] \in Seq(AnyFault)
    BY <2>2 DEF BredSets, ToSet
  <2>4. /\ Len(population) \in Nat /\ DOMAIN Scored = 1..Len(population)
        /\ Len(Scored) = Len(population)
    BY DEF Scored, BredSets
  <2>5. Elites(Scored) \in Seq(Seq(AnyFault))
    BY <2>3, <2>4, ElitesTyped
  <2>6. <<>> \in Seq(Seq(AnyFault))
    OBVIOUS
  <2> QED BY <2>1, <2>2, <2>5, <2>6 DEF BredSets
<1>3. CASE Immigrate
  <2>1. PICK fs \in RandomIndividuals : nextGen' = Append(nextGen, fs)
    BY <1>3 DEF Immigrate
  <2>2. fs \in Seq(AnyFault)
    BY SamplesTyped DEF RandomIndividuals, BredSets
  <2>3. UNCHANGED <<search, candidates, population, scored>>
    BY <1>3 DEF Immigrate
  <2> QED BY <1>0, <2>1, <2>2, <2>3 DEF BredSets
<1>4. CASE Breed
  <2>1. PICK fs \in Seq(AnyFault) : nextGen' = Append(nextGen, fs)
    BY <1>4, BredIs
  <2>2. UNCHANGED <<search, candidates, population, scored>>
    BY <1>4 DEF Breed
  <2> QED BY <1>0, <2>1, <2>2 DEF BredSets
<1>5. CASE NextGeneration
  <2>1. <<>> \in Seq(Seq(AnyFault))
    OBVIOUS
  <2> QED BY <1>5, <2>1 DEF NextGeneration, BredSets
<1>6. CASE RaiseGA \/ GiveUp
  BY <1>6 DEF RaiseGA, GiveUp, BredSets
<1>7. CASE UNCHANGED gaVars
  BY <1>7 DEF gaVars, BredSets
<1> QED BY <1>1, <1>2, <1>3, <1>4, <1>5, <1>6, <1>7
        DEF Next, TakeSlice, BeginSweep, RunCampaign, BeginSearch, Evolve, GANext, searchVars

(***************************************************************************)
(* Crossover and mutation never make an experiment whose faults are too    *)
(* close together out of ones that are far enough apart, for every pool,   *)
(* population and outcome of the runs: a child that fails _valid() is      *)
(* given up for a parent, a mutation for its original (ga.py).             *)
(***************************************************************************)
THEOREM BreedingSeparates ==
  ASSUME RunsClassified
  PROVE  Spec => BreedingKeepsSeparation
<1>1. Init => SearchInv /\ BredSets
  BY SearchStart, BredStart DEF Init
<1>2. SearchInv /\ BredSets /\ [Next]_searchVars => (SearchInv /\ BredSets)'
  BY SearchStep, BredStep
<1>3. SearchInv /\ BredSets /\ [Next]_searchVars =>
        [Breed => LET bred == Last(nextGen')
                  IN  Separated(bred, MinSeparation) \/ bred \in ToSet(population)]_gaVars
  <2> SUFFICES ASSUME BredSets, Breed
               PROVE  \/ Separated(Last(nextGen'), MinSeparation)
                      \/ Last(nextGen') \in ToSet(population)
    OBVIOUS
  <2>1. PICK fs \in Seq(AnyFault) :
          /\ nextGen' = Append(nextGen, fs)
          /\ fs \in ToSet(population) \/ Separated(fs, MinSeparation)
    BY BredIs
  <2>2. Last(nextGen') = fs
    BY <2>1 DEF Last, BredSets
  <2> QED BY <2>1, <2>2
<1> QED BY <1>1, <1>2, <1>3, PTL DEF Spec, BreedingKeepsSeparation

=============================================================================
