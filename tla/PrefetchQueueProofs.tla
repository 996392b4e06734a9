--------------------------- MODULE PrefetchQueueProofs ---------------------------
(***************************************************************************)
(* Proofs about PrefetchQueue: its types, that the queued keys are those   *)
(* of the queue, and that a record holds text of the options of its key.   *)
(*                                                                         *)
(* The last one crosses three awaits and a change of controllers.  What    *)
(* carries it is Apt: a job of this reader session was made with options   *)
(* that were in force in it.  A new session and a change of options both   *)
(* keep old jobs apt; a pump tests the session of its job in the step that *)
(* takes the key of the record from the options in force.  For the records *)
(* of the reader and of downloads and searches it is enough that their     *)
(* options were in force since the session began or the page was opened.   *)
(***************************************************************************)
EXTENDS PrefetchQueue, SequenceLemmas

\* The jobs whose options were in force in the present session, if they are of it.
Apt == {j \in Job : /\ j.session <= session
                    /\ j.session = session => j.options \in held}

NamedOnce(jobs) == \A x, y \in 1..Len(jobs) : x # y => jobs[x].chunk # jobs[y].chunk

\* The queues with the keys that belong to them.
Queues ==
  {q \in [jobs : Seq(Apt), keys : SUBSET Chunks] :
     Len(q.jobs) <= MaxQueue /\ q.keys = KeysOf(q.jobs) /\ NamedOnce(q.jobs)}

\* The pumps whose job is apt, and which write under its options or say they are late.
Sound ==
  {p \in Awake \cup {Asleep} :
     /\ p.stage \in {"reading", "fetching", "writing"} => p.job \in Apt
     /\ p.stage = "writing" => p.key \in Options /\ (p.job.options = p.key \/ p.late)}

Reader ==
  /\ current \in Nat /\ session \in Nat /\ runSession \in Nat
  /\ loaded \subseteq Chunks /\ options \in held /\ held \subseteq past /\ past \subseteq Options
  /\ warms \in Nat /\ changes \in Nat /\ arrivals \in Nat
Line ==
  /\ [jobs |-> queue, keys |-> queuedKeys] \in Queues
  /\ running \in BOOLEAN /\ scheduled \in BOOLEAN /\ controller \in Pumps \cup {None}
Crew == pumps \in [Pumps -> Sound]
Right == {e \in Record : e.made = e.key \/ e.late}
Records == cache \subseteq Right

PrefetchInv == Reader /\ Line /\ Crew /\ Records
-----------------------------------------------------------------------------
(* The queue.                                                              *)

LEMMA AfterType ==
  ASSUME NEW base \in Chunks, NEW n \in Nat
  PROVE  After(base, n) \in Seq(Chunks)
<1> DEFINE m == Most(0, Least(n, TotalChunks - base))
<1>1. m \in Nat /\ \A i \in 1..m : base + i \in Chunks
  BY PrefetchAssumption DEF Chunks, Most, Least
<1> HIDE DEF m
<1>2. [i \in 1..m |-> base + i] \in Seq(Chunks)
  BY <1>1, IsASeq
<1> QED
  BY <1>2 DEF After, m

LEMMA BeforeType ==
  ASSUME NEW base \in Chunks, NEW n \in Nat
  PROVE  Before(base, n) \in Seq(Chunks)
<1> DEFINE m == Least(n, base - 1)
<1>1. m \in Nat /\ \A i \in 1..m : base - i \in Chunks
  BY PrefetchAssumption DEF Chunks, Least
<1> HIDE DEF m
<1>2. [i \in 1..m |-> base - i] \in Seq(Chunks)
  BY <1>1, IsASeq
<1> QED
  BY <1>2 DEF Before, m

\* buildReaderPrefetchCandidates() names no chunk the book does not have.
LEMMA CandidatesType ==
  ASSUME NEW base \in Chunks, NEW radius \in Radii, NEW direction
  PROVE  Candidates(base, radius, direction) \in Seq(Chunks)
<1> DEFINE half == Most(1, radius \div 2)
<1>1. radius \in Nat /\ half \in Nat
  BY PrefetchAssumption DEF Most
<1> HIDE DEF half
<1>2. /\ Before(base, radius) \in Seq(Chunks) /\ After(base, half) \in Seq(Chunks)
      /\ After(base, radius) \in Seq(Chunks) /\ Before(base, half) \in Seq(Chunks)
  BY <1>1, AfterType, BeforeType
<1>3. /\ Before(base, radius) \o After(base, half) \in Seq(Chunks)
      /\ After(base, radius) \o Before(base, half) \in Seq(Chunks)
  BY <1>2, ConcatProperties
<1> QED
  BY <1>3 DEF Candidates, half

\* What is behind position n of a queue, and the keys that go with it.
LEMMA QueueBehind ==
  ASSUME NEW q \in Queues, NEW n \in 0..Len(q.jobs)
  PROVE  /\ [jobs |-> SubSeq(q.jobs, n+1, Len(q.jobs)),
             keys |-> q.keys \ KeysOf(SubSeq(q.jobs, 1, n))] \in Queues
         /\ Len(SubSeq(q.jobs, n+1, Len(q.jobs))) = Len(q.jobs) - n
<1>1. q.jobs \in Seq(Apt) /\ Len(q.jobs) \in Nat /\ q.keys = KeysOf(q.jobs) /\ NamedOnce(q.jobs)
      /\ Len(q.jobs) <= MaxQueue /\ q.keys \subseteq Chunks
  BY DEF Queues
<1>2. PICK jobs : jobs = q.jobs
  OBVIOUS
<1>3. PICK rest : rest = SubSeq(jobs, n+1, Len(jobs))
  OBVIOUS
<1>4. PICK gone : gone = SubSeq(jobs, 1, n)
  OBVIOUS
<1>5. rest \in Seq(Apt) /\ Len(rest) = Len(jobs) - n /\ \A j \in 1..Len(jobs)-n : rest[j] = jobs[n+j]
  BY <1>1, <1>2, <1>3, SubSeqProperties
<1>6. Len(gone) = n /\ \A j \in 1..n : gone[j] = jobs[j]
  BY <1>1, <1>2, <1>4, SubSeqProperties
<1>7. NamedOnce(rest)
  <2>1. SUFFICES ASSUME NEW x \in 1..Len(jobs)-n, NEW y \in 1..Len(jobs)-n, x # y
                 PROVE  rest[x].chunk # rest[y].chunk
    BY <1>5 DEF NamedOnce
  <2>2. n+x \in 1..Len(jobs) /\ n+y \in 1..Len(jobs) /\ n+x # n+y
    BY <1>1, <1>2, <2>1
  <2>3. jobs[n+x].chunk # jobs[n+y].chunk
    BY <1>1, <1>2, <2>2 DEF NamedOnce
  <2> QED
    BY <1>5, <2>3
<1>8. KeysOf(rest) = KeysOf(jobs) \ KeysOf(gone)
  <2>1. ASSUME NEW c \in KeysOf(rest) PROVE c \in KeysOf(jobs) \ KeysOf(gone)
    <3>1. PICK x \in 1..Len(jobs)-n : c = rest[x].chunk
      BY <1>5 DEF KeysOf
    <3>2. n+x \in 1..Len(jobs) /\ c = jobs[n+x].chunk
      BY <1>1, <1>2, <1>5, <3>1
    <3>3. ASSUME NEW y \in 1..n PROVE gone[y].chunk # c
      <4>1. y \in 1..Len(jobs) /\ y # n+x
        BY <1>1, <1>2
      <4> QED
        BY <1>1, <1>2, <1>6, <3>2, <4>1 DEF NamedOnce
    <3> QED
      BY <1>6, <3>2, <3>3 DEF KeysOf
  <2>2. ASSUME NEW c \in KeysOf(jobs), c \notin KeysOf(gone) PROVE c \in KeysOf(rest)
    <3>1. PICK y \in 1..Len(jobs) : c = jobs[y].chunk
      BY DEF KeysOf
    <3>2. y \notin 1..n
      BY <1>6, <2>2, <3>1 DEF KeysOf
    <3>3. y-n \in 1..Len(jobs)-n /\ n+(y-n) = y
      BY <1>1, <1>2, <3>2
    <3>4. rest[y-n] = jobs[y]
      BY <1>5, <3>3
    <3> QED
      BY <1>5, <3>1, <3>3, <3>4 DEF KeysOf
  <2> QED
    BY <2>1, <2>2
<1>9. Len(rest) <= MaxQueue
  BY <1>1, <1>2, <1>5, PrefetchAssumption
<1> QED
  BY <1>1, <1>2, <1>3, <1>4, <1>5, <1>7, <1>8, <1>9 DEF Queues

LEMMA RoomType ==
  ASSUME NEW q \in Queues
  PROVE  /\ Room(q) \in Queues
         /\ Len(Room(q).jobs) < MaxQueue
         /\ Room(q).keys \subseteq q.keys
<1>1. q.jobs \in Seq(Apt) /\ Len(q.jobs) \in Nat /\ Len(q.jobs) <= MaxQueue
  BY DEF Queues
<1>2. CASE Len(q.jobs) < MaxQueue
  BY <1>1, <1>2, PrefetchAssumption DEF Room
<1>3. CASE Len(q.jobs) >= MaxQueue
  <2>1. 1 \in 0..Len(q.jobs) /\ q.jobs # <<>>
    BY <1>1, <1>3, PrefetchAssumption
  <2>2. PICK rest : rest = SubSeq(q.jobs, 1+1, Len(q.jobs))
    OBVIOUS
  <2>3. PICK keys : keys = q.keys \ KeysOf(SubSeq(q.jobs, 1, 1))
    OBVIOUS
  <2>4. [jobs |-> rest, keys |-> keys] \in Queues /\ Len(rest) = Len(q.jobs) - 1
    BY <2>1, <2>2, <2>3, QueueBehind
  <2>5. Tail(q.jobs) = rest
    BY <1>1, <2>1, <2>2
  <2>6. KeysOf(SubSeq(q.jobs, 1, 1)) = {Head(q.jobs).chunk}
    <3>1. Len(SubSeq(q.jobs, 1, 1)) = 1 /\ SubSeq(q.jobs, 1, 1)[1] = Head(q.jobs)
      BY <1>1, <2>1
    <3>2. 1..1 = {1}
      OBVIOUS
    <3> QED
      BY <3>1, <3>2 DEF KeysOf
  <2>7. Room(q) = [jobs |-> rest, keys |-> keys]
    BY <1>3, <2>3, <2>5, <2>6 DEF Room
  <2> QED
    BY <1>1, <2>3, <2>4, <2>7, PrefetchAssumption
<1> QED
  BY <1>1, <1>2, <1>3, PrefetchAssumption

\* enqueuePrefetch(): the job is apt, its key is new, and there is room for it.
LEMMA EnqueueType ==
  ASSUME Reader, NEW q \in Queues, NEW chunk \in Chunks
  PROVE  Enqueue(q, chunk) \in Queues
<1> DEFINE job == [chunk |-> chunk, current |-> current, session |-> session, options |-> options]
<1>1. CASE chunk \in loaded \/ chunk \in q.keys
  BY <1>1 DEF Enqueue
<1>2. CASE ~(chunk \in loaded \/ chunk \in q.keys)
  <2>1. PICK r : r = Room(q)
    OBVIOUS
  <2>2. PICK jobs : jobs = r.jobs
    OBVIOUS
  <2>3. r \in Queues /\ Len(jobs) < MaxQueue /\ chunk \notin r.keys
    BY <1>2, <2>1, <2>2, RoomType
  <2>4. /\ jobs \in Seq(Apt) /\ Len(jobs) \in Nat /\ r.keys = KeysOf(jobs) /\ NamedOnce(jobs)
        /\ r.keys \subseteq Chunks
    BY <2>2, <2>3 DEF Queues
  <2>5. job \in Apt /\ job.chunk = chunk
    BY DEF Apt, Job, Reader
  <2> HIDE DEF job
  <2>6. PICK more : more = Append(jobs, job)
    OBVIOUS
  <2>7. more \in Seq(Apt) /\ Len(more) = Len(jobs) + 1
        /\ \A j \in 1..Len(jobs)+1 : more[j] = IF j = Len(jobs)+1 THEN job ELSE jobs[j]
    BY <2>4, <2>5, <2>6, AppendProperties
  <2>8. \A j \in 1..Len(jobs) : jobs[j].chunk # chunk
    BY <2>3, <2>4 DEF KeysOf
  <2>9. NamedOnce(more)
    BY <2>4, <2>5, <2>7, <2>8 DEF NamedOnce
  <2>10. KeysOf(more) = KeysOf(jobs) \cup {chunk}
    BY <2>4, <2>5, <2>7 DEF KeysOf
  <2>11. Enqueue(q, chunk) = [jobs |-> more, keys |-> r.keys \cup {chunk}]
    BY <1>2, <2>1, <2>2, <2>6 DEF Enqueue, job
  <2>12. Len(more) <= MaxQueue
    BY <2>3, <2>4, <2>7, PrefetchAssumption
  <2>13. Enqueue(q, chunk).jobs = more /\ Enqueue(q, chunk).keys = KeysOf(more)
         /\ Enqueue(q, chunk) \in [jobs : Seq(Apt), keys : SUBSET Chunks]
    BY <2>4, <2>7, <2>10, <2>11
  <2> QED
    BY <2>9, <2>12, <2>13 DEF Queues
<1> QED
  BY <1>1, <1>2

\* scheduleReaderPrefetch(): however many candidates there are.
LEMMA WarmType ==
  ASSUME Reader, NEW base \in Queues, NEW cs \in Seq(Chunks)
  PROVE  FoldLeft(Enqueue, base, cs) \in Queues
<1> DEFINE D == 1..Len(cs)
           F == [p \in Queues \X D |-> Enqueue(p[1], cs[p[2]])]
           first == [S \in (SUBSET D) \ {{}} |-> Max(S)]
           it == CHOOSE it : it = [S \in SUBSET DOMAIN cs |->
                                     IF S = {} THEN base ELSE Enqueue(it[S \ {Max(S)}], cs[Max(S)])]
<1>1. FoldLeft(Enqueue, base, cs) = it[DOMAIN cs]
  BY DEF FoldLeft, MapThenFoldSet
<1>2. DOMAIN cs = D /\ Len(cs) \in Nat /\ IsFiniteSet(D)
  BY FS_Interval
<1>3. ASSUME NEW q \in Queues, NEW i \in D
      PROVE  Enqueue(q, cs[i]) \in Queues
  <2>1. cs[i] \in Chunks
    OBVIOUS
  <2> QED
    BY <2>1, EnqueueType
<1>4. \A S \in (SUBSET D) \ {{}} : Max(S) \in S
  BY <1>2, MaxProperties
<1>5. PICK g : Folds(g, D, Queues, base, F, first)
  <2>1. \A p \in Queues \X D : F[p] \in Queues
    <3>1. \A p \in Queues \X D : p[1] \in Queues /\ p[2] \in D /\ F[p] = Enqueue(p[1], cs[p[2]])
      OBVIOUS
    <3> QED
      BY <1>3, <3>1
  <2>2. F = [p \in Queues \X D |-> F[p]]
    OBVIOUS
  <2>3. first \in [(SUBSET D) \ {{}} -> D] /\ \A S \in (SUBSET D) \ {{}} : first[S] \in S
    BY <1>4
  <2> HIDE DEF F, first, D, it
  <2>4. Foldable(D, Queues, base, F, first)
    BY <1>2, <2>1, <2>2, <2>3 DEF Foldable
  <2> QED
    BY <2>4, FoldExists
<1> DEFINE h == [S \in SUBSET D |-> IF S = {} THEN base ELSE Enqueue(g[S \ {Max(S)}], cs[Max(S)])]
<1>6. g = h
  <2>1. ASSUME NEW S \in (SUBSET D) \ {{}}
        PROVE  g[S] = Enqueue(g[S \ {Max(S)}], cs[Max(S)])
    <3>1. g[S \ {Max(S)}] \in Queues /\ Max(S) \in D /\ first[S] = Max(S)
      BY <1>4, <1>5 DEF Folds
    <3> QED
      BY <1>5, <3>1 DEF Folds
  <2>2. \A S \in SUBSET D : g[S] = h[S]
    BY <2>1, <1>5 DEF Folds
  <2>3. g = [S \in SUBSET D |-> g[S]] /\ h = [S \in SUBSET D |-> h[S]]
    BY <1>5 DEF Folds
  <2> HIDE DEF h
  <2> QED
    BY <2>2, <2>3
<1>7. it = [S \in SUBSET D |-> IF S = {} THEN base ELSE Enqueue(it[S \ {Max(S)}], cs[Max(S)])]
  BY <1>2, <1>6
<1> HIDE DEF it, F, first, h
<1> DEFINE T == {S \in SUBSET D : it[S] \in Queues}
<1>8. {} \in T
  BY <1>7
<1>9. ASSUME NEW S \in (SUBSET D) \ {{}}
      PROVE  \E x \in S : S \ {x} \in T => S \in T
  <2>1. Max(S) \in S /\ it[S] = Enqueue(it[S \ {Max(S)}], cs[Max(S)])
    BY <1>4, <1>7
  <2>2. it[S \ {Max(S)}] \in Queues => it[S] \in Queues
    BY <1>3, <2>1
  <2> QED
    BY <2>1, <2>2
<1>10. SUBSET D \subseteq T
  <2>1. IsFiniteSet(D)
    BY <1>2
  <2> HIDE DEF T, D
  <2> QED
    BY <2>1, <1>8, <1>9, SubsetInduction
<1>11. it[D] \in Queues
  BY <1>10
<1> QED
  BY <1>1, <1>2, <1>11
-----------------------------------------------------------------------------
(* What becomes of jobs when the reader moves on.                          *)

LEMMA AptRests ==
  ASSUME UNCHANGED readerVars
  PROVE  Apt' = Apt /\ Queues' = Queues /\ Sound' = Sound
<1>1. Apt' = Apt
  BY DEF Apt, readerVars
<1> QED
  BY <1>1 DEF Queues, Sound

\* A new reader session has no old jobs, and changed options are added to the old.
LEMMA AptStays ==
  ASSUME Reader, session' = session + 1 \/ (session' = session /\ held \subseteq held')
  PROVE  Apt \subseteq Apt' /\ Queues \subseteq Queues' /\ Sound \subseteq Sound'
<1>1. Apt \subseteq Apt'
  <2>1. SUFFICES ASSUME NEW j \in Apt PROVE j \in Apt'
    OBVIOUS
  <2>2. j \in Job /\ j.session \in Nat /\ j.session <= session /\ session \in Nat
    BY DEF Apt, Job, Reader
  <2> QED
    BY <2>2 DEF Apt
<1>2. Queues \subseteq Queues'
  <2>1. SUFFICES ASSUME NEW q \in Queues PROVE q \in Queues'
    OBVIOUS
  <2>2. q.jobs \in Seq(Apt')
    BY <1>1, SeqMonotonic DEF Queues
  <2> QED
    BY <2>2 DEF Queues
<1>3. Sound \subseteq Sound'
  BY <1>1 DEF Sound
<1> QED
  BY <1>1, <1>2, <1>3

-----------------------------------------------------------------------------
(* Steps of a pump.                                                        *)

\* A pump at a stage of its job.
LEMMA SoundAsleep ==
  Asleep \in Sound /\ Asleep.stage = "none"
BY DEF Sound, Asleep

LEMMA AwakeType ==
  ASSUME Crew, NEW d \in Pumps, pumps[d].stage # "none"
  PROVE  pumps[d] \in Awake /\ pumps[d] \in Sound
<1>1. pumps[d] \in Sound
  BY DEF Crew
<1> QED
  BY <1>1 DEF Sound, Asleep

LEMMA Finished ==
  ASSUME Crew, UNCHANGED readerVars, NEW d \in Pumps, NEW jobs, NEW keys,
         [jobs |-> jobs, keys |-> keys] \in Queues, NEW waiting \in BOOLEAN,
         Finish(d, jobs, keys, waiting)
  PROVE  Line' /\ Crew'
<1>1. Queues' = Queues /\ Sound' = Sound
  BY AptRests
<1>2. /\ running' = FALSE /\ controller' = None /\ queue' = jobs /\ queuedKeys' = keys
      /\ scheduled' \in BOOLEAN /\ pumps' = [pumps EXCEPT ![d] = Asleep]
  BY DEF Finish, ServeThem
<1>3. Line'
  BY <1>1, <1>2 DEF Line
<1>4. Crew'
  BY <1>1, <1>2, SoundAsleep DEF Crew
<1> QED
  BY <1>3, <1>4

LEMMA Looped ==
  ASSUME Reader, Line, Crew, UNCHANGED readerVars, NEW d \in Pumps, NEW its \in Nat,
         NEW ctl \in Pumps \cup {None}, NEW waiting \in BOOLEAN, Loop(d, its, ctl, waiting)
  PROVE  Line' /\ Crew'
<1> DEFINE I == {j \in 1..Len(queue) : Wanted(queue[j])}
           first == SelectInSeq(queue, Wanted)
           gone == IF first = 0 THEN Len(queue) ELSE first
           jobs == SubSeq(queue, gone + 1, Len(queue))
           keys == queuedKeys \ KeysOf(SubSeq(queue, 1, gone))
<1>1. queue \in Seq(Apt) /\ Len(queue) \in Nat
  BY DEF Line, Queues
<1>2. first = 0 \/ first \in 1..Len(queue)
  <2>1. first = IF I # {} THEN Min(I) ELSE 0
    BY DEF SelectInSeq
  <2>2. I \subseteq Nat
    OBVIOUS
  <2> HIDE DEF first
  <2>3. CASE I = {}
    BY <2>1, <2>3
  <2>4. CASE I # {}
    <3>1. first \in I
      BY <2>1, <2>2, <2>4, MinProperties
    <3> QED
      BY <3>1
  <2> QED
    BY <2>3, <2>4
<1>3. \/ Finish(d, queue, queuedKeys, waiting)
      \/ Finish(d, jobs, keys, waiting)
      \/ /\ first # 0
         /\ queue' = jobs /\ queuedKeys' = keys
         /\ running' = (ctl = d \/ running) /\ controller' = ctl /\ scheduled' = waiting
         /\ pumps' = [pumps EXCEPT ![d] = [Asleep EXCEPT !.stage = "reading", !.job = queue[first],
                                                         !.runSession = its, !.key = options]]
  BY DEF Loop
<1> HIDE DEF first
<1>4. gone \in 0..Len(queue)
  BY <1>1, <1>2
<1> HIDE DEF gone
<1>5. [jobs |-> jobs, keys |-> keys] \in Queues
  <2>1. PICK q : q = [jobs |-> queue, keys |-> queuedKeys]
    OBVIOUS
  <2>2. q \in Queues /\ q.jobs = queue /\ q.keys = queuedKeys
    BY <2>1 DEF Line
  <2> QED
    BY <1>4, <2>2, QueueBehind
<1> HIDE DEF jobs, keys
<1>6. CASE Finish(d, queue, queuedKeys, waiting)
  BY <1>6, Finished DEF Line
<1>7. CASE Finish(d, jobs, keys, waiting)
  BY <1>5, <1>7, Finished
<1>8. ASSUME first # 0, queue' = jobs, queuedKeys' = keys,
             running' = (ctl = d \/ running), controller' = ctl, scheduled' = waiting,
             pumps' = [pumps EXCEPT ![d] = [Asleep EXCEPT !.stage = "reading", !.job = queue[first],
                                                          !.runSession = its, !.key = options]]
      PROVE  Line' /\ Crew'
  <2>1. Queues' = Queues /\ Sound' = Sound
    BY AptRests
  <2>2. PICK j \in Apt : j = queue[first]
    BY <1>1, <1>2, <1>8
  <2>3. PICK p : p = [Asleep EXCEPT !.stage = "reading", !.job = j, !.runSession = its, !.key = options]
    OBVIOUS
  <2>4. p = [stage |-> "reading", job |-> j, runSession |-> its, key |-> options, late |-> FALSE,
             signal |-> None]
    BY <2>3 DEF Asleep
  <2>5. p \in Sound
    BY <2>4 DEF Sound, Awake, Stages, Apt, Reader
  <2>6. Crew'
    BY <1>8, <2>1, <2>2, <2>3, <2>5 DEF Crew
  <2>7. Line'
    BY <1>5, <1>8, <2>1 DEF Line
  <2> QED
    BY <2>6, <2>7
<1> QED
  BY <1>3, <1>6, <1>7, <1>8

LEMMA Resumed ==
  ASSUME Reader, Line, Crew, UNCHANGED readerVars, NEW d \in Pumps, pumps[d].stage # "none", Resume(d)
  PROVE  Line' /\ Crew'
<1>1. pumps[d].runSession \in Nat
  BY AwakeType DEF Awake
<1> QED
  BY <1>1, Looped DEF Resume, Line

LEMMA Broken ==
  ASSUME Line, Crew, UNCHANGED readerVars, NEW d \in Pumps, Break(d)
  PROVE  Line' /\ Crew'
BY Finished DEF Break, Line

\* The steps that only take a pump to its next stage.
LEMMA GoesOn ==
  ASSUME Line, Crew, NEW d \in Pumps, NEW p \in Sound,
         UNCHANGED <<queueVars, readerVars>>, pumps' = [pumps EXCEPT ![d] = p]
  PROVE  Line' /\ Crew'
<1>1. Queues' = Queues /\ Sound' = Sound
  BY AptRests
<1> QED
  BY <1>1 DEF Line, Crew, queueVars

LEMMA ReaderRests ==
  ASSUME Reader, UNCHANGED <<runSession, readerVars, counts>>
  PROVE  Reader'
BY DEF Reader, readerVars, counts

\* A record that is right stays so, whatever it replaces.
LEMMA PutRight ==
  ASSUME Records, NEW e \in Right
  PROVE  Put(e) \subseteq Right
BY DEF Records, Put

\* A text that was asked for with options of since: if they have not changed, since is
\* the options in force alone.
LEMMA ArrivesRight ==
  ASSUME Reader, Records, NEW c \in Chunks, NEW since, since \subseteq Options, Arrives(c, since)
  PROVE  cache' \subseteq Right /\ arrivals' \in Nat
<1>1. PICK o \in since :
        cache' = Put([chunk |-> c, key |-> options, made |-> o, late |-> Changed(since)])
  BY DEF Arrives
<1>2. PICK e : e = [chunk |-> c, key |-> options, made |-> o, late |-> Changed(since)]
  OBVIOUS
<1>3. Changed(since) \/ o = options
  BY DEF Changed
<1>4. Changed(since) \in BOOLEAN /\ options \in Options /\ o \in Options
  BY DEF Changed, Reader
<1>5. e \in Right
  BY <1>2, <1>3, <1>4 DEF Right, Record
<1>6. arrivals' \in Nat
  BY DEF Arrives, Reader
<1> QED
  BY <1>1, <1>2, <1>5, <1>6, PutRight

LEMMA PumpStartsInv ==
  ASSUME PrefetchInv, NEW d \in Pumps, PumpStarts(d)
  PROVE  PrefetchInv'
<1>1. UNCHANGED <<runSession, readerVars, cache, counts>>
  BY DEF PumpStarts
<1>2. CASE running \/ queue = <<>>
  <2>1. scheduled' = FALSE /\ UNCHANGED <<queue, queuedKeys, running, controller, pumps>>
    BY <1>2 DEF PumpStarts
  <2>2. Line' /\ Crew'
    BY <1>1, <2>1, AptRests DEF PrefetchInv, Line, Crew
  <2> QED
    BY <1>1, <2>2, ReaderRests DEF PrefetchInv, Records
<1>3. CASE ~(running \/ queue = <<>>)
  <2>1. Loop(d, runSession, d, FALSE)
    BY <1>3 DEF PumpStarts
  <2>2. runSession \in Nat /\ d \in Pumps \cup {None} /\ FALSE \in BOOLEAN
    BY DEF PrefetchInv, Reader
  <2>3. Line' /\ Crew'
    BY <1>1, <2>1, <2>2, Looped DEF PrefetchInv
  <2> QED
    BY <1>1, <2>3, ReaderRests DEF PrefetchInv, Records
<1> QED
  BY <1>2, <1>3

LEMMA ReadInv ==
  ASSUME PrefetchInv, NEW d \in Pumps, CacheHas(d) \/ CacheLacks(d)
  PROVE  PrefetchInv'
<1>1. pumps[d].stage = "reading" /\ UNCHANGED <<runSession, readerVars, cache, counts>>
  BY DEF CacheHas, CacheLacks
<1>2. \/ Resume(d) \/ Break(d)
      \/ /\ controller # None
         /\ pumps' = [pumps EXCEPT ![d].stage = "fetching", ![d].key = None, ![d].signal = controller]
         /\ UNCHANGED <<queue, queuedKeys, running, controller, scheduled>>
  BY DEF CacheHas, CacheLacks
<1>3. CASE Resume(d) \/ Break(d)
  BY <1>1, <1>3, Resumed, Broken, ReaderRests DEF PrefetchInv, Records
<1>4. ASSUME controller # None,
             pumps' = [pumps EXCEPT ![d].stage = "fetching", ![d].key = None, ![d].signal = controller],
             UNCHANGED <<queue, queuedKeys, running, controller, scheduled>>
      PROVE  PrefetchInv'
  <2>1. pumps[d] \in Awake /\ pumps[d] \in Sound
    BY <1>1, AwakeType DEF PrefetchInv
  <2>2. PICK p : p = [pumps[d] EXCEPT !.stage = "fetching", !.key = None, !.signal = controller]
    OBVIOUS
  <2>3. p \in Awake /\ p.stage = "fetching" /\ p.job = pumps[d].job
    BY <1>4, <2>1, <2>2 DEF Awake, Stages, PrefetchInv, Line
  <2>4. p \in Sound
    BY <1>1, <2>1, <2>3 DEF Sound
  <2>5. pumps' = [pumps EXCEPT ![d] = p]
    BY <1>4, <2>2 DEF PrefetchInv, Crew
  <2>6. Line' /\ Crew'
    BY <1>1, <1>4, <2>4, <2>5, GoesOn DEF PrefetchInv, queueVars
  <2> QED
    BY <1>1, <2>6, ReaderRests DEF PrefetchInv, Records
<1> QED
  BY <1>2, <1>3, <1>4

\* The session of the job is tested when the options of the key are taken.
LEMMA FetchInv ==
  ASSUME PrefetchInv, NEW d \in Pumps, FetchFails(d) \/ TextArrives(d)
  PROVE  PrefetchInv'
<1>1. pumps[d].stage = "fetching" /\ UNCHANGED <<runSession, readerVars, cache, counts>>
  BY DEF FetchFails, TextArrives
<1>2. \/ Break(d)
      \/ /\ SameBook(d)
         /\ pumps' = [pumps EXCEPT ![d].stage = "writing", ![d].signal = None,
                                   ![d].key = options, ![d].late = Changed(held)]
         /\ UNCHANGED <<queue, queuedKeys, running, controller, scheduled>>
  BY DEF FetchFails, TextArrives
<1>3. CASE Break(d)
  BY <1>1, <1>3, Broken, ReaderRests DEF PrefetchInv, Records
<1>4. ASSUME SameBook(d),
             pumps' = [pumps EXCEPT ![d].stage = "writing", ![d].signal = None,
                                    ![d].key = options, ![d].late = Changed(held)],
             UNCHANGED <<queue, queuedKeys, running, controller, scheduled>>
      PROVE  PrefetchInv'
  <2>1. pumps[d] \in Awake /\ pumps[d].job \in Apt
    BY <1>1, AwakeType DEF PrefetchInv, Sound
  <2>2. PICK p : p = [pumps[d] EXCEPT !.stage = "writing", !.signal = None, !.key = options, !.late = Changed(held)]
    OBVIOUS
  <2>3. /\ p \in Awake /\ p.stage = "writing" /\ p.job = pumps[d].job
        /\ p.key = options /\ p.late = Changed(held)
    BY <2>1, <2>2 DEF Awake, Stages, PrefetchInv, Reader, Changed
  <2>4. Changed(held) \/ p.job.options = options
    BY <1>4, <2>1, <2>3 DEF Apt, SameBook, Changed
  <2>5. p \in Sound
    BY <2>1, <2>3, <2>4 DEF Sound, PrefetchInv, Reader
  <2>6. pumps' = [pumps EXCEPT ![d] = p]
    BY <1>4, <2>2 DEF PrefetchInv, Crew
  <2>7. Line' /\ Crew'
    BY <1>1, <1>4, <2>5, <2>6, GoesOn DEF PrefetchInv, queueVars
  <2> QED
    BY <1>1, <2>7, ReaderRests DEF PrefetchInv, Records
<1> QED
  BY <1>2, <1>3, <1>4

LEMMA WriteInv ==
  ASSUME PrefetchInv, NEW d \in Pumps, WriteSettles(d)
  PROVE  PrefetchInv'
<1>1. /\ pumps[d].stage = "writing" /\ UNCHANGED <<queueVars, readerVars, counts>>
      /\ cache' \in {cache, Put(Written(d))}
      /\ pumps' = [pumps EXCEPT ![d] = [Asleep EXCEPT !.stage = "idling",
                                                      !.runSession = pumps[d].runSession]]
  BY DEF WriteSettles
<1>2. /\ pumps[d] \in Awake /\ pumps[d].job \in Apt /\ pumps[d].key \in Options
      /\ pumps[d].job.options = pumps[d].key \/ pumps[d].late
  BY <1>1, AwakeType DEF PrefetchInv, Sound
<1>3. Records'
  <2>1. Written(d) \in Right
    BY <1>2 DEF Written, Right, Record, Awake, Apt, Job
  <2> QED
    BY <1>1, <2>1, PutRight DEF PrefetchInv, Records
<1>4. Line' /\ Crew'
  <2>1. PICK p : p = [Asleep EXCEPT !.stage = "idling", !.runSession = pumps[d].runSession]
    OBVIOUS
  <2>2. p = [stage |-> "idling", job |-> None, runSession |-> pumps[d].runSession, key |-> None,
             late |-> FALSE, signal |-> None]
    BY <2>1 DEF Asleep
  <2>3. p \in Sound
    BY <1>2, <2>2 DEF Sound, Awake, Stages
  <2> QED
    BY <1>1, <2>1, <2>3, GoesOn DEF PrefetchInv
<1>5. Reader'
  BY <1>1, ReaderRests DEF PrefetchInv, queueVars
<1> QED
  BY <1>3, <1>4, <1>5 DEF PrefetchInv

LEMMA IdleInv ==
  ASSUME PrefetchInv, NEW d \in Pumps, IdleTick(d)
  PROVE  PrefetchInv'
<1>1. pumps[d].stage = "idling" /\ Resume(d) /\ UNCHANGED <<runSession, readerVars, cache, counts>>
  BY DEF IdleTick
<1> QED
  BY <1>1, Resumed, ReaderRests DEF PrefetchInv, Records

-----------------------------------------------------------------------------
(* Steps of the reader.                                                    *)

LEMMA WarmInv ==
  ASSUME PrefetchInv, NEW base \in Chunks, NEW radius \in Radii, NEW direction,
         Warm(base, radius, direction)
  PROVE  PrefetchInv'
<1> DEFINE q == FoldLeft(Enqueue, [jobs |-> queue, keys |-> queuedKeys],
                         Candidates(base, radius, direction))
<1>1. /\ UNCHANGED <<running, controller, runSession, pumps, readerVars, cache, changes, arrivals>>
      /\ warms' = warms + 1 /\ queue' = q.jobs /\ queuedKeys' = q.keys
      /\ scheduled' = (scheduled \/ (~running /\ q.jobs # <<>>))
  BY DEF Warm
<1>2. q \in Queues
  BY CandidatesType, WarmType DEF PrefetchInv, Line
<1> HIDE DEF q
<1>3. Queues' = Queues /\ Sound' = Sound
  BY <1>1, AptRests
<1>4. [jobs |-> q.jobs, keys |-> q.keys] = q
  BY <1>2 DEF Queues
<1>5. Line'
  BY <1>1, <1>2, <1>3, <1>4 DEF PrefetchInv, Line
<1>6. Reader' /\ Crew' /\ Records'
  BY <1>1, <1>3 DEF PrefetchInv, Reader, Crew, Records, readerVars
<1> QED
  BY <1>5, <1>6 DEF PrefetchInv

\* abortReaderPrefetch(), whether or not the reader session ends as well.
LEMMA Aborts ==
  ASSUME Reader, Crew, Abort, Sound \subseteq Sound'
  PROVE  Line' /\ Crew'
<1>1. /\ pumps' = [d \in Pumps |->
                     IF controller # None /\ pumps[d].signal = controller
                     THEN [pumps[d] EXCEPT !.signal = Aborted] ELSE pumps[d]]
      /\ controller' = None /\ queue' = <<>> /\ queuedKeys' = {} /\ running' = FALSE
      /\ scheduled' = FALSE
  BY DEF Abort
<1>2. Line'
  <2>1. <<>> \in Seq(Apt') /\ Len(<<>>) = 0 /\ KeysOf(<<>>) = {} /\ NamedOnce(<<>>)
    BY DEF KeysOf, NamedOnce
  <2>2. PICK e : e = [jobs |-> <<>>, keys |-> {}]
    OBVIOUS
  <2>3. e.jobs = <<>> /\ e.keys = {} /\ e \in [jobs : Seq(Apt'), keys : SUBSET Chunks]
    BY <2>1, <2>2
  <2>4. 0 <= MaxQueue
    BY PrefetchAssumption
  <2>5. e \in Queues'
    BY <2>1, <2>3, <2>4 DEF Queues
  <2> QED
    BY <1>1, <2>2, <2>5 DEF Line
<1>3. Crew'
  <2>1. SUFFICES ASSUME NEW d \in Pumps
                 PROVE  pumps'[d] \in Sound
    BY <1>1 DEF Crew
  <2>2. pumps[d] \in Sound
    BY DEF Crew
  <2>3. CASE controller # None /\ pumps[d].signal = controller
    <3>1. pumps[d] \in Awake
      BY <2>2, <2>3 DEF Sound, Asleep
    <3>2. PICK p : p = [pumps[d] EXCEPT !.signal = Aborted]
      OBVIOUS
    <3>3. /\ p \in Awake /\ p.stage = pumps[d].stage /\ p.job = pumps[d].job
          /\ p.key = pumps[d].key /\ p.late = pumps[d].late
      BY <3>1, <3>2 DEF Awake
    <3>4. p \in Sound
      BY <2>2, <3>3 DEF Sound
    <3> QED
      BY <1>1, <2>3, <3>2, <3>4
  <2>4. CASE ~(controller # None /\ pumps[d].signal = controller)
    BY <1>1, <2>2, <2>4
  <2> QED
    BY <2>3, <2>4
<1> QED
  BY <1>2, <1>3

LEMMA SessionInv ==
  ASSUME PrefetchInv, OpenBook \/ GoChunk \/ CloseBook
  PROVE  PrefetchInv'
<1>1. /\ session' = session + 1 /\ held' = {options} /\ loaded' \in {{}, loaded}
      /\ current' \in {session + 1, current, 0} /\ UNCHANGED <<options, past, cache, counts>>
      /\ (Abort \/ UNCHANGED <<queueVars, pumps>>) /\ runSession' \in {runSession, runSession + 1}
  BY DEF OpenBook, GoChunk, CloseBook, ResetScope, Abort, queueVars
<1>2. Queues \subseteq Queues' /\ Sound \subseteq Sound'
  BY <1>1, AptStays DEF PrefetchInv
<1>3. Reader'
  <2>1. current' \in Nat /\ session' \in Nat /\ runSession' \in Nat
    BY <1>1 DEF PrefetchInv, Reader
  <2>2. /\ loaded' \subseteq Chunks /\ options' \in held' /\ held' \subseteq past'
        /\ past' \subseteq Options
    BY <1>1 DEF PrefetchInv, Reader
  <2>3. warms' \in Nat /\ changes' \in Nat /\ arrivals' \in Nat
    BY <1>1 DEF PrefetchInv, Reader, counts
  <2> QED
    BY <2>1, <2>2, <2>3 DEF Reader
<1>4. Line' /\ Crew'
  <2>1. CASE Abort
    BY <1>2, <2>1, Aborts DEF PrefetchInv
  <2>2. CASE UNCHANGED <<queueVars, pumps>>
    BY <1>2, <2>2 DEF PrefetchInv, Line, Crew, queueVars
  <2> QED
    BY <1>1, <2>1, <2>2
<1> QED
  BY <1>1, <1>3, <1>4 DEF PrefetchInv, Records

LEMMA ClearInv ==
  ASSUME PrefetchInv, ClearPrefetch
  PROVE  PrefetchInv'
<1>1. Abort /\ UNCHANGED <<readerVars, cache, counts>> /\ runSession' = runSession + 1
  BY DEF ClearPrefetch, Abort
<1>2. Line' /\ Crew'
  BY <1>1, AptRests, Aborts DEF PrefetchInv
<1> QED
  BY <1>1, <1>2 DEF PrefetchInv, Reader, Records, readerVars, counts

LEMMA ShowInv ==
  ASSUME PrefetchInv, NEW c \in Chunks, ShowChunk(c) \/ HideChunk(c) \/ KeepChunk(c)
  PROVE  PrefetchInv'
<1>1. /\ UNCHANGED <<queueVars, pumps, current, session, options, held, past, warms, changes>>
      /\ loaded' \subseteq Chunks
      /\ Arrives(c, held) \/ Arrives(c, past) \/ UNCHANGED <<cache, arrivals>>
  BY DEF ShowChunk, HideChunk, KeepChunk, readerVars, counts, PrefetchInv, Reader
<1>2. Apt' = Apt
  BY <1>1 DEF Apt
<1>3. Line' /\ Crew'
  BY <1>1, <1>2 DEF PrefetchInv, Line, Crew, Queues, Sound, queueVars
<1>4. Records' /\ arrivals' \in Nat
  <2>1. held \subseteq Options /\ past \subseteq Options
    BY DEF PrefetchInv, Reader
  <2>2. CASE UNCHANGED <<cache, arrivals>>
    BY <2>2 DEF PrefetchInv, Records, Right, Reader
  <2>3. CASE Arrives(c, held) \/ Arrives(c, past)
    <3>1. cache' \subseteq Right /\ arrivals' \in Nat
      BY <2>1, <2>3, ArrivesRight DEF PrefetchInv
    <3> QED
      BY <3>1 DEF Records, Right
  <2> QED
    BY <1>1, <2>2, <2>3
<1>5. Reader'
  BY <1>1, <1>4 DEF PrefetchInv, Reader, queueVars
<1> QED
  BY <1>3, <1>4, <1>5 DEF PrefetchInv

LEMMA ChangeInv ==
  ASSUME PrefetchInv, NEW o \in Options, ChangeOptions(o)
  PROVE  PrefetchInv'
<1>1. /\ UNCHANGED <<queueVars, pumps, current, session, loaded, cache, warms, arrivals>>
      /\ options' = o /\ held' = held \cup {o} /\ past' = past \cup {o} /\ changes' = changes + 1
  BY DEF ChangeOptions
<1>2. Queues \subseteq Queues' /\ Sound \subseteq Sound'
  BY <1>1, AptStays DEF PrefetchInv
<1>3. Line' /\ Crew' /\ Records'
  BY <1>1, <1>2 DEF PrefetchInv, Line, Crew, Records, queueVars
<1>4. Reader'
  BY <1>1 DEF PrefetchInv, Reader, queueVars
<1> QED
  BY <1>3, <1>4 DEF PrefetchInv

LEMMA RestInv ==
  ASSUME PrefetchInv, Quiet \/ UNCHANGED vars
  PROVE  PrefetchInv'
<1>1. UNCHANGED vars
  BY DEF Quiet
<1>2. UNCHANGED <<queueVars, pumps, readerVars, cache, counts>>
  BY <1>1 DEF vars
<1>3. Line' /\ Crew'
  BY <1>2, AptRests DEF PrefetchInv, Line, Crew, queueVars
<1>4. Reader'
  BY <1>2, ReaderRests DEF PrefetchInv, queueVars
<1> QED
  BY <1>2, <1>3, <1>4 DEF PrefetchInv, Records

-----------------------------------------------------------------------------
LEMMA PrefetchInit ==
  ASSUME Init
  PROVE  PrefetchInv
<1>1. Reader /\ Records
  BY PrefetchAssumption DEF Init, Reader, Records
<1>2. Line
  <2>1. <<>> \in Seq(Apt) /\ Len(<<>>) = 0 /\ KeysOf(<<>>) = {} /\ NamedOnce(<<>>)
    BY DEF KeysOf, NamedOnce
  <2>2. PICK e : e = [jobs |-> <<>>, keys |-> {}]
    OBVIOUS
  <2>3. e.jobs = <<>> /\ e.keys = {} /\ e \in [jobs : Seq(Apt), keys : SUBSET Chunks]
    BY <2>1, <2>2
  <2>4. 0 <= MaxQueue
    BY PrefetchAssumption
  <2>5. e \in Queues
    BY <2>1, <2>3, <2>4 DEF Queues
  <2> QED
    BY <2>2, <2>5 DEF Init, Line
<1>3. Crew
  BY SoundAsleep DEF Init, Crew
<1> QED
  BY <1>1, <1>2, <1>3 DEF PrefetchInv

LEMMA PrefetchStep ==
  ASSUME PrefetchInv, [Next]_vars
  PROVE  PrefetchInv'
<1>1. ASSUME NEW base \in Chunks, NEW radius \in Radii, NEW direction \in {"forward", "backward"},
             Warm(base, radius, direction)
      PROVE  PrefetchInv'
  BY <1>1, WarmInv
<1>2. ASSUME NEW d \in Pumps, PumpStarts(d) \/ PumpGoesOn(d)
      PROVE  PrefetchInv'
  BY <1>2, PumpStartsInv, ReadInv, FetchInv, WriteInv, IdleInv DEF PumpGoesOn
<1>3. CASE OpenBook \/ GoChunk \/ ClearPrefetch \/ CloseBook
  BY <1>3, SessionInv, ClearInv
<1>4. CASE Quiet \/ UNCHANGED vars
  BY <1>4, RestInv
<1>5. ASSUME NEW c \in Chunks, ShowChunk(c) \/ HideChunk(c) \/ KeepChunk(c)
      PROVE  PrefetchInv'
  BY <1>5, ShowInv
<1>6. ASSUME NEW o \in Options, ChangeOptions(o)
      PROVE  PrefetchInv'
  BY <1>6, ChangeInv
<1> QED
  BY <1>1, <1>2, <1>3, <1>4, <1>5, <1>6 DEF Next

\* PrefetchInv holds in every state, however many pumps are awake at once.
THEOREM PrefetchInvariance == Spec => []PrefetchInv
<1>1. Init => PrefetchInv
  BY PrefetchInit
<1>2. PrefetchInv /\ [Next]_vars => PrefetchInv'
  BY PrefetchStep
<1> QED
  BY <1>1, <1>2, PTL DEF Spec

\* Every variable keeps its type, and the queue its limit, whatever is warmed.
THEOREM PrefetchTypeCorrect == Spec => []TypeOK
<1>1. ASSUME PrefetchInv
      PROVE  TypeOK
  <2>1. queue \in Seq(Job) /\ Len(queue) <= MaxQueue /\ queuedKeys \subseteq Chunks
    <3>1. Apt \subseteq Job
      BY DEF Apt
    <3>2. queue \in Seq(Apt) /\ Len(queue) <= MaxQueue /\ queuedKeys \subseteq Chunks
      BY <1>1 DEF PrefetchInv, Line, Queues
    <3> QED
      BY <3>1, <3>2, SeqMonotonic
  <2>2. pumps \in [Pumps -> Awake \cup {Asleep}]
    BY <1>1 DEF PrefetchInv, Crew, Sound
  <2> QED
    BY <1>1, <2>1, <2>2 DEF PrefetchInv, Reader, Line, Records, Right, TypeOK
<1> QED
  BY <1>1, PrefetchInvariance, PTL

\* The keys are those of the queued jobs, each of another chunk, through drops from
\* the full queue, aborts and any number of pumps that share it.
THEOREM KeysMatchQueueHolds == Spec => []KeysMatchQueue
<1>1. ASSUME PrefetchInv
      PROVE  KeysMatchQueue
  <2>1. PICK q : q = [jobs |-> queue, keys |-> queuedKeys]
    OBVIOUS
  <2>2. q \in Queues /\ q.jobs = queue /\ q.keys = queuedKeys
    BY <1>1, <2>1 DEF PrefetchInv, Line
  <2> QED
    BY <2>2 DEF Queues, NamedOnce, KeysMatchQueue
<1> QED
  BY <1>1, PrefetchInvariance, PTL

\* Whoever writes it, text is kept under the options it was made with, unless these
\* changed since it may have been asked for: in this reader session for the prefetch and
\* the reader, in this page for downloads and searches.
THEOREM CacheMatchesKeyHolds == Spec => []CacheMatchesKey
<1>1. PrefetchInv => CacheMatchesKey
  BY DEF PrefetchInv, Records, Right, CacheMatchesKey
<1> QED
  BY <1>1, PrefetchInvariance, PTL
=============================================================================
