--------------------------- MODULE ContentWorkerPool ---------------------------
(***************************************************************************)
(* The bounded pool of worker threads that decodes and preprocesses cold   *)
(* TXT files (server/services/content-entry-worker-pool.js).               *)
(*                                                                         *)
(* The main thread owns a FIFO queue of tasks, a stack of idle workers and *)
(* the set of workers that count against the limit.  A worker thread runs  *)
(* in parallel: it takes the posted task, posts one reply, or dies.  What  *)
(* a thread does reaches the main thread later, as a 'message', 'error' or *)
(* 'exit' event, so the main thread's bookkeeping and the real threads     *)
(* disagree most of the time.  Every handler of the main thread is atomic. *)
(*                                                                         *)
(* The `while (queue.length)` loop of drain() is unrolled once: each       *)
(* handler frees at most one slot.  WorkConserving is the negation of the  *)
(* loop's guard, so that invariant is also what justifies the unrolling.   *)
(***************************************************************************)
EXTENDS Naturals, FiniteSets, SequencesExt

CONSTANTS Tasks,        \* the runTask() calls made during a run of the server
          Workers,      \* the Worker objects that can be created
          MaxWorkers,   \* maxWorkers
          NoTask, NoWorker, NoReply

ASSUME MaxWorkersAssumption == MaxWorkers \in Nat \ {0}
ASSUME NullAssumption == /\ NoTask \notin Tasks
                         /\ NoWorker \notin Workers
                         /\ NoReply \notin [id : Tasks, ok : BOOLEAN]

VARIABLES
  queue,        \* tasks waiting for a worker, oldest first
  idleWorkers,  \* stack of workers without a task (may hold dead ones)
  workers,      \* the workers counted against MaxWorkers
  idleTimers,   \* the workers whose idle timer is armed
  currentTask,  \* worker.currentTask
  taskWorker,   \* task.worker
  status,       \* task.started / task.settled and how its promise settled
  closed,       \* close() was called
  thread,       \* the life of each worker's thread
  inbox,        \* the task posted to a thread and not answered yet
  outbox        \* the thread's reply, on its way to the main thread

mainVars   == <<queue, idleWorkers, workers, idleTimers, currentTask, taskWorker, status>>
threadVars == <<thread, inbox, outbox>>
vars       == <<mainVars, closed, threadVars>>

Outcomes == {"resolved", "failed", "aborted"}
Settled(t) == status[t] \in Outcomes

Replies == [id : Tasks, ok : BOOLEAN]

\* "erred": an uncaught error killed the thread, its 'error' event is pending.
\* "stopping": terminate() was called.  "ended": only 'exit' is still to come.
ThreadStates == {"none", "up", "erred", "stopping", "ended", "gone"}

TypeOK ==
  /\ queue \in Seq(Tasks)
  /\ idleWorkers \in Seq(Workers)
  /\ workers \in SUBSET Workers
  /\ idleTimers \in SUBSET Workers
  /\ currentTask \in [Workers -> Tasks \cup {NoTask}]
  /\ taskWorker \in [Tasks -> Workers \cup {NoWorker}]
  /\ status \in [Tasks -> {"new", "queued", "running"} \cup Outcomes]
  /\ closed \in BOOLEAN
  /\ thread \in [Workers -> ThreadStates]
  /\ inbox \in [Workers -> Tasks \cup {NoTask}]
  /\ outbox \in [Workers -> Replies \cup {NoReply}]

Init ==
  /\ queue = <<>>
  /\ idleWorkers = <<>>
  /\ workers = {}
  /\ idleTimers = {}
  /\ currentTask = [w \in Workers |-> NoTask]
  /\ taskWorker = [t \in Tasks |-> NoWorker]
  /\ status = [t \in Tasks |-> "new"]
  /\ closed = FALSE
  /\ thread = [w \in Workers |-> "none"]
  /\ inbox = [w \in Workers |-> NoTask]
  /\ outbox = [w \in Workers |-> NoReply]

-----------------------------------------------------------------------------
(* drain() and what it calls.  The parameters are the values the calling   *)
(* handler has reached: queue, idle stack, workers, timers, current tasks, *)
(* task status and threads.                                                *)

\* Slip: a dead worker that is still on the stack is taken.
AvailableThoughDead(w, ws, ct) == ct[w] = NoTask
Available(w, ws, ct) == w \in ws /\ ct[w] = NoTask

\* No task is handed out.
Rest(q, il, ws, tm, ct, st, th) ==
  /\ queue' = q /\ idleWorkers' = il /\ workers' = ws /\ idleTimers' = tm
  /\ currentTask' = ct /\ status' = st /\ thread' = th
  /\ UNCHANGED <<taskWorker, inbox>>

\* startTask(w, queue.shift()).  The code's test for a settled task is left
\* out: by NoTaskLost the queue holds none.
HandOut(w, q, il, ws, tm, ct, st, th) ==
  LET t == Head(q) IN
  /\ queue' = Tail(q) /\ idleWorkers' = il /\ workers' = ws
  /\ idleTimers' = tm \ {w}
  /\ currentTask' = [ct EXCEPT ![w] = t]
  /\ taskWorker' = [taskWorker EXCEPT ![t] = w]
  /\ status' = [st EXCEPT ![t] = "running"]
  /\ thread' = th
  /\ inbox' = [inbox EXCEPT ![w] = t]

\* idleWorkers.pop() until it yields an available worker.
ReuseIdle(q, il, ws, tm, ct, st, th) ==
  \E k \in 1..Len(il) :
    /\ Available(il[k], ws, ct)
    /\ \A j \in (k+1)..Len(il) : ~Available(il[j], ws, ct)
    /\ HandOut(il[k], q, SubSeq(il, 1, k-1), ws, tm, ct, st, th)

\* The stack held only dead workers and is empty now: createWorker() while the
\* limit allows.  Unused Worker objects are interchangeable.
CreateOrWait(q, il, ws, tm, ct, st, th) ==
  LET new == CHOOSE w \in Workers : th[w] = "none" IN
  /\ \A k \in 1..Len(il) : ~Available(il[k], ws, ct)
  /\ \/ /\ Cardinality(ws) < MaxWorkers
        /\ \E w \in Workers : th[w] = "none"
        /\ HandOut(new, q, <<>>, ws \cup {new}, tm, ct, st, [th EXCEPT ![new] = "up"])
     \/ /\ Cardinality(ws) >= MaxWorkers
        /\ Rest(q, <<>>, ws, tm, ct, st, th)

\* Slip: the queue is not drained.
DrainNever(q, il, ws, tm, ct, st, th) == Rest(q, il, ws, tm, ct, st, th)

Drain(q, il, ws, tm, ct, st, th) ==
  IF closed \/ q = <<>>
  THEN Rest(q, il, ws, tm, ct, st, th)
  ELSE \/ ReuseIdle(q, il, ws, tm, ct, st, th)
       \/ CreateOrWait(q, il, ws, tm, ct, st, th)

\* worker.terminate(): a thread that already died keeps its pending events.
Terminate(th, w) == IF th[w] = "up" THEN [th EXCEPT ![w] = "stopping"] ELSE th

\* scheduleIdleWorkerTerminate(); the slip is to forget it.
ArmNoTimer(w) == idleTimers
ArmTimer(w) == idleTimers \cup {w}

-----------------------------------------------------------------------------
(* The main thread.                                                        *)

\* runTask(payload, {signal}) on an open pool with a live signal.
RunTask(t) ==
  /\ status[t] = "new"
  /\ ~closed
  /\ Drain(Append(queue, t), idleWorkers, workers, idleTimers, currentTask,
           [status EXCEPT ![t] = "queued"], thread)
  /\ UNCHANGED <<closed, outbox>>

\* runTask on a closed pool, or with a signal that has already fired.
RunTaskRejected(t) ==
  /\ status[t] = "new"
  /\ status' = [status EXCEPT ![t] = IF closed THEN "failed" ELSE "aborted"]
  /\ UNCHANGED <<queue, idleWorkers, workers, idleTimers, currentTask, taskWorker, closed, threadVars>>

\* Slip: the aborted task stays in the queue.
AbortQueuedKeepsEntry(t) ==
  /\ status[t] = "queued"
  /\ status' = [status EXCEPT ![t] = "aborted"]
  /\ UNCHANGED <<queue, idleWorkers, workers, idleTimers, currentTask, taskWorker, closed, threadVars>>

\* The task's signal fires while it is queued.
AbortQueued(t) ==
  /\ status[t] = "queued"
  /\ queue' = RemoveFirst(queue, t)
  /\ status' = [status EXCEPT ![t] = "aborted"]
  /\ UNCHANGED <<idleWorkers, workers, idleTimers, currentTask, taskWorker, closed, threadVars>>

\* The task was started and is not settled yet; the slip is to forget the latter.
AbortableForEver(t) == taskWorker[t] # NoWorker
Abortable(t) == status[t] = "running"

\* Slip: the worker is marked idle again instead of being terminated.
AbortRunningReusesWorker(t) ==
  LET w == taskWorker[t] IN
  /\ Abortable(t)
  /\ Drain(queue, Append(idleWorkers, w), workers, idleTimers \cup {w},
           [currentTask EXCEPT ![w] = NoTask],
           [status EXCEPT ![t] = "aborted"], thread)
  /\ UNCHANGED <<closed, outbox>>

\* The task's signal fires while it runs: its worker is thrown away.
AbortRunning(t) ==
  LET w == taskWorker[t] IN
  /\ Abortable(t)
  /\ Drain(queue, RemoveFirst(idleWorkers, w), workers \ {w}, idleTimers,
           [currentTask EXCEPT ![w] = NoTask],
           [status EXCEPT ![t] = "aborted"], Terminate(thread, w))
  /\ UNCHANGED <<closed, outbox>>

\* 'message' from worker w that answers its current task.
HandleMessage(w) ==
  LET t == currentTask[w]
      st == [status EXCEPT ![t] = IF outbox[w].ok THEN "resolved" ELSE "failed"]
      ct == [currentTask EXCEPT ![w] = NoTask]
  IN
  /\ outbox[w] # NoReply
  /\ t # NoTask
  /\ t = outbox[w].id
  /\ outbox' = [outbox EXCEPT ![w] = NoReply]
  /\ IF closed
     THEN Drain(queue, idleWorkers, workers, idleTimers, ct, st, thread)
     ELSE Drain(queue, Append(idleWorkers, w), workers, ArmTimer(w), ct, st, thread)
  /\ UNCHANGED closed

\* 'message' whose task is no longer the worker's: dropped.
IgnoreMessage(w) ==
  /\ outbox[w] # NoReply
  /\ currentTask[w] # outbox[w].id
  /\ outbox' = [outbox EXCEPT ![w] = NoReply]
  /\ UNCHANGED <<mainVars, closed, thread, inbox>>

\* Slips: the task of a dead worker is forgotten, or gets no known outcome.
RejectNobody(w, outcome) == status
RejectUnknown(w, outcome) ==
  IF currentTask[w] # NoTask THEN [status EXCEPT ![currentTask[w]] = "rejected"] ELSE status

\* rejectTask for the task a dead worker leaves behind, if it is unsettled.
RejectCurrent(w, outcome) ==
  IF currentTask[w] # NoTask /\ ~Settled(currentTask[w])
  THEN [status EXCEPT ![currentTask[w]] = outcome]
  ELSE status

\* 'error' of worker w.  The idle stack keeps the dead worker until 'exit'.
HandleError(w) ==
  /\ thread[w] = "erred"
  /\ Drain(queue, idleWorkers, workers \ {w}, idleTimers,
           [currentTask EXCEPT ![w] = NoTask], RejectCurrent(w, "failed"),
           [thread EXCEPT ![w] = "ended"])
  /\ UNCHANGED <<closed, outbox>>

\* 'exit' of worker w; a reply posted before the thread ended comes first.
HandleExit(w) ==
  /\ thread[w] \in {"stopping", "ended"}
  /\ outbox[w] = NoReply
  /\ Drain(queue, RemoveFirst(idleWorkers, w), workers \ {w}, idleTimers,
           [currentTask EXCEPT ![w] = NoTask], RejectCurrent(w, "aborted"),
           [thread EXCEPT ![w] = "gone"])
  /\ UNCHANGED <<closed, outbox>>

\* The idle timer of worker w fires.
IdleTimeout(w) ==
  /\ w \in idleTimers
  /\ idleTimers' = idleTimers \ {w}
  /\ IF closed \/ currentTask[w] # NoTask
     THEN UNCHANGED <<idleWorkers, workers, thread>>
     ELSE /\ idleWorkers' = RemoveFirst(idleWorkers, w)
          /\ workers' = workers \ {w}
          /\ thread' = Terminate(thread, w)
  /\ UNCHANGED <<queue, currentTask, taskWorker, status, closed, inbox, outbox>>

\* close(): queued tasks are rejected now, running ones by their 'exit'.
Close ==
  /\ ~closed
  /\ closed' = TRUE
  /\ queue' = <<>>
  /\ status' = [t \in Tasks |-> IF Contains(queue, t) /\ ~Settled(t) THEN "aborted" ELSE status[t]]
  /\ idleTimers' = idleTimers \ workers
  /\ thread' = [w \in Workers |-> IF w \in workers THEN Terminate(thread, w)[w] ELSE thread[w]]
  /\ workers' = {}
  /\ idleWorkers' = <<>>
  /\ UNCHANGED <<currentTask, taskWorker, inbox, outbox>>

-----------------------------------------------------------------------------
(* The worker threads.                                                     *)

\* The thread answers the posted task; terminate() may come too late for it.
Reply(w) ==
  /\ thread[w] \in {"up", "stopping"}
  /\ inbox[w] # NoTask
  /\ \E ok \in BOOLEAN : outbox' = [outbox EXCEPT ![w] = [id |-> inbox[w], ok |-> ok]]
  /\ inbox' = [inbox EXCEPT ![w] = NoTask]
  /\ UNCHANGED <<mainVars, closed, thread>>

\* An error outside run() (startup, out of memory) kills the thread.
Crash(w) ==
  /\ thread[w] = "up"
  /\ thread' = [thread EXCEPT ![w] = "erred"]
  /\ inbox' = [inbox EXCEPT ![w] = NoTask]
  /\ UNCHANGED <<mainVars, closed, outbox>>

-----------------------------------------------------------------------------
\* Nothing is left to do: the event loop waits.  Any other state without a
\* successor is a deadlock.
Quiescent ==
  /\ \A t \in Tasks : Settled(t)
  /\ \A w \in Workers : thread[w] \in {"none", "gone"}
  /\ UNCHANGED vars

MainNext ==
  \/ \E t \in Tasks : \/ RunTask(t)
                      \/ RunTaskRejected(t)
                      \/ AbortQueued(t)
                      \/ AbortRunning(t)
  \/ \E w \in Workers : \/ HandleMessage(w)
                        \/ IgnoreMessage(w)
                        \/ HandleError(w)
                        \/ HandleExit(w)
                        \/ IdleTimeout(w)
  \/ Close

ThreadNext == \E w \in Workers : Reply(w) \/ Crash(w)

Next == MainNext \/ ThreadNext \/ Quiescent

Spec == Init /\ [][Next]_vars

\* A thread that has a task answers it or dies, and the event loop delivers
\* every event.  Nothing is assumed of callers, timers or close().
Fairness ==
  \A w \in Workers :
    /\ WF_vars(Reply(w) \/ (inbox[w] # NoTask /\ Crash(w)))
    /\ WF_vars(HandleMessage(w) \/ IgnoreMessage(w))
    /\ WF_vars(HandleError(w))
    /\ WF_vars(HandleExit(w))

FairSpec == Spec /\ Fairness

-----------------------------------------------------------------------------
(* What the pool promises.                                                 *)

\* Work conservation: no more workers count than MaxWorkers, and a task waits
\* only while that many all have a task.  Every handler that frees a slot must
\* drain; one that forgets it strands the queue.
WorkConserving ==
  /\ Cardinality(workers) <= MaxWorkers
  /\ ~closed /\ queue # <<>> =>
       /\ Cardinality(workers) = MaxWorkers
       /\ \A w \in workers : currentTask[w] # NoTask

\* task.worker and worker.currentTask agree: a running task has exactly one
\* worker and that worker runs it, so that an abort reaches the right thread; and
\* while the pool is open a worker with a task counts against the limit.
Bound(t) == status[t] = "running" <=> \E w \in Workers : currentTask[w] = t
Binding ==
  /\ \A t \in Tasks : Bound(t)
  /\ \A w \in Workers : currentTask[w] # NoTask =>
       /\ taskWorker[currentTask[w]] = w
       /\ ~closed => w \in workers

\* A worker the pool takes for idle has a thread with nothing to do and no
\* reply on its way: postMessage never reaches a thread that is computing, and
\* no reply is ever taken for another task's.
IdleIsIdle ==
  \A w \in workers : currentTask[w] = NoTask => inbox[w] = NoTask /\ outbox[w] = NoReply

\* Every idle worker of the pool is on the stack and has its timer armed: no
\* thread is kept for ever by a worker that is never reused nor reclaimed.
NoIdleLeak ==
  \A w \in workers : currentTask[w] = NoTask => Contains(idleWorkers, w) /\ w \in idleTimers

\* No task is lost: a queued task is in the queue once, and a running one
\* belongs to a thread that still has an event to deliver.
NoTaskLost ==
  /\ \A t \in Tasks : status[t] = "queued" <=> Contains(queue, t)
  /\ \A i, j \in 1..Len(queue) : i # j => queue[i] # queue[j]
  /\ \A t \in Tasks : status[t] = "running" => thread[taskWorker[t]] \notin {"none", "gone"}

\* terminate() never hits a thread whose task is still wanted, unless the pool
\* is being closed: neither an idle timer that fires late nor the abort of one
\* task may end another one.
NoCollateralTermination ==
  [][\A w \in Workers :
       /\ thread[w] = "up" /\ thread'[w] = "stopping"
       /\ ~closed'
       /\ currentTask[w] # NoTask
       => status'[currentTask[w]] \in Outcomes]_vars

\* Every task handed to runTask settles, one that waits as well as one that finds a
\* slot free and is started at once (content-entry-worker-pool.js:166-187), although
\* threads die, tasks around it are aborted and the pool may be closed under it.
EveryTaskSettles == \A t \in Tasks : status[t] \in {"queued", "running"} ~> Settled(t)

\* The pool is the executor its callers rely on: whatever dies, times out or
\* races, tasks start in order, as early as MaxWorkers allows, and settle once.
Executor == INSTANCE BoundedExecutor
              WITH Capacity <- MaxWorkers, phase <- status, line <- queue, open <- ~closed
ImplementsExecutor == Executor!Spec
=============================================================================
