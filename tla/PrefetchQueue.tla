----------------------------- MODULE PrefetchQueue -----------------------------
(***************************************************************************)
(* The reader's background prefetch of nearby chunks                       *)
(* (features/reader/prefetch-queue.mjs, prefetch-schedule.mjs).            *)
(*                                                                         *)
(* Jobs wait in a short queue; a pump takes them one by one and awaits the *)
(* reader cache, the network and an idle moment in turn.  abort() empties  *)
(* the queue and forgets the pump, but a pump that awaits the cache or an  *)
(* idle moment cannot be stopped: it wakes up beside its successor, with   *)
(* which it shares the queue, the running flag and the controller.         *)
(*                                                                         *)
(* One book is read, and closed and opened again: its chunks have the same *)
(* keys each time.  A step of a pump is all it does between two awaits.    *)
(*                                                                         *)
(* The reader cache has other writers: the reader itself, with the chunks  *)
(* it shows, and offline downloads and searches.  Their requests are not   *)
(* followed one by one; a text of theirs arrives made with any options     *)
(* that it may have been asked for with.                                   *)
(***************************************************************************)
EXTENDS Integers, Sequences, FiniteSets, SequencesExt

CONSTANTS
  Pumps,                  \* how many may be awake at once
  None, Aborted,
  Options, Default,       \* preprocess options of the reader, and the first of them
  TotalChunks, Radii, MaxQueue, MaxLoaded,
  MaxWarms, MaxSessions, MaxAborts, MaxChanges, MaxArrivals  \* bounds on a run

ASSUME PrefetchAssumption ==
  /\ TotalChunks \in Nat \ {0} /\ MaxQueue \in Nat \ {0} /\ Radii \subseteq Nat
  /\ MaxLoaded \in Nat \ {0} /\ Default \in Options
  /\ MaxWarms \in Nat /\ MaxSessions \in Nat /\ MaxAborts \in Nat
  /\ MaxChanges \in Nat /\ MaxArrivals \in Nat
  /\ None \notin Pumps /\ Aborted \notin Pumps /\ None # Aborted

VARIABLES
  queue, queuedKeys, running, controller, scheduled,
  runSession,    \* sessionId of the queue: how often it was aborted
  pumps,
  current,       \* which opening of the book is shown, 0 for none
  session,       \* readerSessionId
  loaded,        \* the chunks shown
  options,       \* the preprocess options in force
  held,          \* those in force at some time since the reader session began
  past,          \* those in force at some time since the page was opened
  cache,         \* the records of the reader cache
  warms, changes, arrivals \* how many there have been

queueVars == <<queue, queuedKeys, running, controller, scheduled, runSession>>
readerVars == <<current, session, loaded, options, held, past>>
counts == <<warms, changes, arrivals>>
vars == <<queueVars, pumps, readerVars, cache, counts>>

Chunks == 1..TotalChunks
Job == [chunk : Chunks, current : Nat, session : Nat, options : Options]
Stages == {"reading", "fetching", "writing", "idling"}
\* A pump, as far as it looks back at it: its job, the queue session it began in, the
\* options it called the cache with, whether they had changed in this reader session
\* when it wrote, and the signal it gave to the network.
Asleep == [stage |-> "none", job |-> None, runSession |-> 0, key |-> None, late |-> FALSE,
           signal |-> None]
Awake == [stage : Stages, job : Job \cup {None}, runSession : Nat, key : Options \cup {None},
          late : BOOLEAN, signal : Pumps \cup {None, Aborted}]
\* A record: the chunk and the options of its key, the options its text was made
\* with, and whether the options had changed since it may have been asked for.
Record == [chunk : Chunks, key : Options, made : Options, late : BOOLEAN]

TypeOK ==
  /\ queue \in Seq(Job) /\ Len(queue) <= MaxQueue
  /\ queuedKeys \subseteq Chunks
  /\ running \in BOOLEAN /\ scheduled \in BOOLEAN
  /\ controller \in Pumps \cup {None}
  /\ runSession \in Nat
  /\ pumps \in [Pumps -> Awake \cup {Asleep}]
  /\ current \in Nat /\ session \in Nat
  /\ loaded \subseteq Chunks
  /\ options \in Options
  /\ cache \subseteq Record
  /\ held \subseteq past /\ past \subseteq Options
  /\ warms \in Nat /\ changes \in Nat /\ arrivals \in Nat

\* A book has just been opened.
Init ==
  /\ queue = <<>>
  /\ queuedKeys = {}
  /\ running = FALSE
  /\ controller = None
  /\ scheduled = FALSE
  /\ runSession = 0
  /\ pumps = [d \in Pumps |-> Asleep]
  /\ current = 1
  /\ session = 1
  /\ loaded = {}
  /\ options = Default
  /\ cache = {}
  /\ held = {Default}
  /\ past = {Default}
  /\ warms = 0
  /\ changes = 0
  /\ arrivals = 0

-----------------------------------------------------------------------------
(* The reader cache.                                                       *)

\* Whether others than the options in force were so since a text may have been asked for.
Changed(since) == since # {options}

\* writeChunkPayloadToCache(): one record for each key.
Put(record) == {e \in cache : e.chunk # record.chunk \/ e.key # record.key} \cup {record}

\* A text arrives that was asked for with options of since: its key has those in force.
Arrives(c, since) ==
  /\ arrivals < MaxArrivals
  /\ arrivals' = arrivals + 1
  /\ \E o \in since :
       cache' = Put([chunk |-> c, key |-> options, made |-> o, late |-> Changed(since)])

-----------------------------------------------------------------------------
(* Scheduling.                                                             *)

Least(a, b) == IF a <= b THEN a ELSE b
Most(a, b) == IF a >= b THEN a ELSE b

\* buildReaderPrefetchCandidates(): radius chunks ahead, half as many behind.
After(base, n) == [i \in 1..Most(0, Least(n, TotalChunks - base)) |-> base + i]
Before(base, n) == [i \in 1..Least(n, base - 1) |-> base - i]
Candidates(base, radius, direction) ==
  LET half == Most(1, radius \div 2)
  IN IF direction = "backward"
     THEN Before(base, radius) \o After(base, half)
     ELSE After(base, radius) \o Before(base, half)

\* enqueuePrefetch() on the queue and its keys; a full queue drops its oldest job.
\* The slips keep the key of the job they drop, or drop none.
RoomKeysKept(q) == IF Len(q.jobs) >= MaxQueue THEN [q EXCEPT !.jobs = Tail(@)] ELSE q
NoRoom(q) == q
Room(q) ==
  IF Len(q.jobs) >= MaxQueue
  THEN [jobs |-> Tail(q.jobs), keys |-> q.keys \ {Head(q.jobs).chunk}]
  ELSE q
Enqueue(q, chunk) ==
  IF chunk \in loaded \/ chunk \in q.keys THEN q
  ELSE [jobs |-> Append(Room(q).jobs, [chunk |-> chunk, current |-> current, session |-> session,
                                       options |-> options]),
        keys |-> Room(q).keys \cup {chunk}]

\* scheduleReaderPrefetch(), unless it coalesces with the call before it.
Warm(base, radius, direction) ==
  /\ current # 0
  /\ warms < MaxWarms
  /\ warms' = warms + 1
  /\ LET q == FoldLeft(Enqueue, [jobs |-> queue, keys |-> queuedKeys],
                       Candidates(base, radius, direction))
     IN /\ queue' = q.jobs
        /\ queuedKeys' = q.keys
        /\ scheduled' = (scheduled \/ (~running /\ q.jobs # <<>>))
  /\ UNCHANGED <<running, controller, runSession, pumps, readerVars, cache, changes, arrivals>>

-----------------------------------------------------------------------------
(* The pump.                                                               *)

Wanted(job) == job.current = current /\ job.session = session /\ job.chunk \notin loaded
KeysOf(jobs) == {jobs[i].chunk : i \in 1..Len(jobs)}

\* The finally block, with the jobs that are left: schedulePump() if there are any.
\* The slip does not look at them.
LeaveThem(jobs, waiting) == waiting
ServeThem(jobs, waiting) == waiting \/ jobs # <<>>
Finish(d, jobs, keys, waiting) ==
  /\ running' = FALSE
  /\ controller' = None
  /\ queue' = jobs
  /\ queuedKeys' = keys
  /\ scheduled' = ServeThem(jobs, waiting)
  /\ pumps' = [pumps EXCEPT ![d] = Asleep]

\* A pump breaks out of its loop or fails: with an AbortError, with the network's,
\* or because the controller was taken away.
Break(d) == Finish(d, queue, queuedKeys, scheduled)

\* The loop from its condition to the next await: jobs nobody wants are thrown away.
Loop(d, its, ctl, waiting) ==
  LET first == SelectInSeq(queue, Wanted)
      gone == IF first = 0 THEN Len(queue) ELSE first
      jobs == SubSeq(queue, gone + 1, Len(queue))
      keys == queuedKeys \ KeysOf(SubSeq(queue, 1, gone))
  IN IF its # runSession THEN Finish(d, queue, queuedKeys, waiting)
     ELSE IF first = 0 \/ ctl = None THEN Finish(d, jobs, keys, waiting)
     ELSE /\ queue' = jobs
          /\ queuedKeys' = keys
          /\ running' = (ctl = d \/ running)
          /\ controller' = ctl
          /\ scheduled' = waiting
          /\ pumps' = [pumps EXCEPT ![d] = [Asleep EXCEPT !.stage = "reading", !.job = queue[first],
                                                          !.runSession = its, !.key = options]]

\* The timer or the idle callback: pumpPrefetch() up to its first await.
PumpStarts(d) ==
  /\ scheduled
  /\ IF running \/ queue = <<>>
     THEN scheduled' = FALSE /\ UNCHANGED <<queue, queuedKeys, running, controller, pumps>>
     ELSE /\ pumps[d] = Asleep
          /\ \A x \in Pumps : pumps[x].signal # d
          /\ Loop(d, runSession, d, FALSE)
  /\ UNCHANGED <<runSession, readerVars, cache, counts>>

Resume(d) == Loop(d, pumps[d].runSession, controller, scheduled)

\* readChunkPayloadFromCache() finds the record,
CacheHas(d) ==
  /\ pumps[d].stage = "reading"
  /\ \E e \in cache : e.chunk = pumps[d].job.chunk /\ e.key = pumps[d].key
  /\ Resume(d)
  /\ UNCHANGED <<runSession, readerVars, cache, counts>>

\* or it has none to give (there is none, it was pruned, or the database failed):
\* the text is asked for, with the signal of the controller there is now.
CacheLacks(d) ==
  /\ pumps[d].stage = "reading"
  /\ IF controller = None THEN Break(d)
     ELSE /\ pumps' = [pumps EXCEPT ![d].stage = "fetching", ![d].key = None,
                                    ![d].signal = controller]
          /\ UNCHANGED <<queue, queuedKeys, running, controller, scheduled>>
  /\ UNCHANGED <<runSession, readerVars, cache, counts>>

FetchFails(d) ==
  /\ pumps[d].stage = "fetching"
  /\ Break(d)
  /\ UNCHANGED <<runSession, readerVars, cache, counts>>

\* The text arrives.  Whether it is still for the book and the session shown decides
\* on its way to the cache; the slip forgets to ask.
AnyBook(d) == controller # None
SameBook(d) ==
  /\ controller # None
  /\ pumps[d].job.current = current
  /\ pumps[d].job.session = session
TextArrives(d) ==
  /\ pumps[d].stage = "fetching"
  /\ pumps[d].signal # Aborted
  /\ IF ~SameBook(d) THEN Break(d)
     ELSE /\ pumps' = [pumps EXCEPT ![d].stage = "writing", ![d].signal = None,
                                    ![d].key = options, ![d].late = Changed(held)]
          /\ UNCHANGED <<queue, queuedKeys, running, controller, scheduled>>
  /\ UNCHANGED <<runSession, readerVars, cache, counts>>

\* writeChunkPayloadToCache() replaces the record of its key, or fails.
Written(d) == [chunk |-> pumps[d].job.chunk, key |-> pumps[d].key,
               made |-> pumps[d].job.options, late |-> pumps[d].late]
WriteSettles(d) ==
  /\ pumps[d].stage = "writing"
  /\ cache' \in {cache, Put(Written(d))}
  /\ pumps' = [pumps EXCEPT ![d] = [Asleep EXCEPT !.stage = "idling",
                                                  !.runSession = pumps[d].runSession]]
  /\ UNCHANGED <<queueVars, readerVars, counts>>

\* idleTick()
IdleTick(d) ==
  /\ pumps[d].stage = "idling"
  /\ Resume(d)
  /\ UNCHANGED <<runSession, readerVars, cache, counts>>

-----------------------------------------------------------------------------
(* The reader around it.                                                   *)

\* abortReaderPrefetch(): only a pump that awaits the network is stopped.
Abort ==
  /\ pumps' = [d \in Pumps |->
                 IF controller # None /\ pumps[d].signal = controller
                 THEN [pumps[d] EXCEPT !.signal = Aborted] ELSE pumps[d]]
  /\ controller' = None
  /\ queue' = <<>>
  /\ queuedKeys' = {}
  /\ running' = FALSE
  /\ scheduled' = FALSE
  /\ runSession' = runSession + 1

\* resetReaderRequestScope()
ResetScope ==
  /\ session < MaxSessions
  /\ runSession < MaxAborts
  /\ Abort
  /\ session' = session + 1
  /\ held' = {options}
  /\ loaded' = {}

OpenBook ==
  /\ ResetScope
  /\ current' = session + 1
  /\ UNCHANGED <<options, past, cache, counts>>

GoChunk ==
  /\ current # 0
  /\ ResetScope
  /\ UNCHANGED <<current, options, past, cache, counts>>

\* Clearing the recovery data of the prefetch aborts it and does nothing else.
ClearPrefetch ==
  /\ runSession < MaxAborts
  /\ Abort
  /\ UNCHANGED <<readerVars, cache, counts>>

\* closeCurrentReaderForRevokedAccess() does not abort the prefetch.
CloseBook ==
  /\ current # 0
  /\ session < MaxSessions
  /\ current' = 0
  /\ session' = session + 1
  /\ held' = {options}
  /\ UNCHANGED <<queueVars, pumps, loaded, options, past, cache, counts>>

\* A chunk is shown, in place of the others or beside them.  It comes from the cache,
\* or from the network and is put there, unless that fails; the reader shows only what
\* was asked for in the present session.
ShowChunk(c) ==
  /\ current # 0
  /\ loaded' \in {{c}, loaded \cup {c}}
  /\ Cardinality(loaded') <= MaxLoaded
  /\ \/ Arrives(c, held)
     \/ UNCHANGED <<cache, arrivals>>
  /\ UNCHANGED <<queueVars, pumps, current, session, options, held, past, warms, changes>>

\* It is scrolled out of the window of chunks.
HideChunk(c) ==
  /\ current # 0
  /\ loaded' = loaded \ {c}
  /\ UNCHANGED <<queueVars, pumps, current, session, options, held, past, cache, counts>>

\* An offline download or a search puts a chunk into the cache.  Both go on in a later
\* session of the reader, and with another book or none shown.
KeepChunk(c) ==
  /\ Arrives(c, past)
  /\ UNCHANGED <<queueVars, pumps, readerVars, warms, changes>>

\* Applying preprocess options: they hold at once, the book is reloaded only after the
\* settings have been sent to the server.
ChangeOptions(o) ==
  /\ changes < MaxChanges
  /\ o # options
  /\ options' = o
  /\ held' = held \cup {o}
  /\ past' = past \cup {o}
  /\ changes' = changes + 1
  /\ UNCHANGED <<queueVars, pumps, current, session, loaded, cache, warms, arrivals>>

\* Nothing waits and nothing is under way.
Quiet ==
  /\ queue = <<>> /\ ~running /\ ~scheduled
  /\ \A d \in Pumps : pumps[d] = Asleep
  /\ UNCHANGED vars

PumpGoesOn(d) ==
  \/ CacheHas(d) \/ CacheLacks(d)
  \/ FetchFails(d) \/ TextArrives(d)
  \/ WriteSettles(d)
  \/ IdleTick(d)

Next ==
  \/ \E base \in Chunks, radius \in Radii, direction \in {"forward", "backward"} :
       Warm(base, radius, direction)
  \/ \E d \in Pumps : PumpStarts(d) \/ PumpGoesOn(d)
  \/ OpenBook \/ GoChunk \/ ClearPrefetch \/ CloseBook \/ Quiet
  \/ \E c \in Chunks : ShowChunk(c) \/ HideChunk(c) \/ KeepChunk(c)
  \/ \E o \in Options : ChangeOptions(o)

\* The browser runs its timers and idle callbacks, and settles what is awaited: an
\* idle callback has a timeout, and a request ends with an answer or an error.
Fairness ==
  /\ WF_vars(\E d \in Pumps : PumpStarts(d))
  /\ \A d \in Pumps : WF_vars(PumpGoesOn(d))

Spec == Init /\ [][Next]_vars /\ Fairness

-----------------------------------------------------------------------------
(* Properties.                                                             *)

\* The set of queued keys and the queue name the same chunks, each once, through
\* drops from the full queue, aborts and pumps that share it: a stale key would keep
\* its chunk out of the prefetch for good (prefetch-queue.mjs:129-136, 180).
KeysMatchQueue ==
  /\ queuedKeys = KeysOf(queue)
  /\ \A i, j \in 1..Len(queue) : i # j => queue[i].chunk # queue[j].chunk

\* A record holds text made with the options of its key, though every writer makes the
\* key when the text arrives, and an older pump may borrow its successor's controller --
\* except after a change of options.  For the prefetch and the reader, which test the
\* session, this is one in that very session: until the reload, which follows the answer
\* of the server, late text is filed under the new options.  Downloads and searches test
\* nothing, so that theirs may be misfiled in any later session: nothing is promised of
\* them once the options have changed in this page (prefetch-queue.mjs:199-205,
\* reader.mjs:601, dom-actions.mjs:135-137, matcher.mjs:637-639, cache-store.mjs:134).
CacheMatchesKey == \A e \in cache : e.made = e.key \/ e.late

\* Queued jobs are always taken up or dropped, also when an aborted pump wakes up late
\* and takes the running flag and the controller from its successor
\* (prefetch-queue.mjs:154, 219-223).
EveryJobIsTaken == queue # <<>> ~> queue = <<>>
=============================================================================
