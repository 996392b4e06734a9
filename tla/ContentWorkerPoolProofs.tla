------------------------ MODULE ContentWorkerPoolProofs ------------------------
(***************************************************************************)
(* The worker pool keeps its bookkeeping for every number of tasks and     *)
(* every limit: WorkConserving, Binding, IdleIsIdle, NoIdleLeak and        *)
(* NoTaskLost are invariants of Spec.                                      *)
(*                                                                         *)
(* Almost every handler ends in drain(), which reads values the handler    *)
(* has computed and not stored.  So the invariant is an operator of those  *)
(* values, Core, and one lemma says that drain() turns Core plus "at most  *)
(* one free slot" (Slots) into the invariant of the next state.            *)
(*                                                                         *)
(* The last section shows that the pool implements BoundedExecutor: the    *)
(* executor counts running tasks where the pool counts workers, and the    *)
(* invariant makes the two agree.                                          *)
(***************************************************************************)
EXTENDS ContentWorkerPool, SequenceLemmas, FiniteSetTheorems

-----------------------------------------------------------------------------
(* The inductive invariant, over the values a handler hands to drain().    *)

CoreTypes(q, il, ws, tm, ct, st, th, ob) ==
  /\ q \in Seq(Tasks)
  /\ il \in Seq(Workers)
  /\ ws \in SUBSET Workers
  /\ tm \in SUBSET Workers
  /\ ct \in [Workers -> Tasks \cup {NoTask}]
  /\ st \in [Tasks -> {"new", "queued", "running"} \cup Outcomes]
  /\ th \in [Workers -> ThreadStates]
  /\ ob \in [Workers -> Replies \cup {NoReply}]
  /\ taskWorker \in [Tasks -> Workers \cup {NoWorker}]
  /\ inbox \in [Workers -> Tasks \cup {NoTask}]
  /\ closed \in BOOLEAN

\* The queue, the tasks' states and the workers' current tasks fit together.
CoreTasks(q, ct, st) ==
  /\ Injective(q)
  /\ \A t \in Tasks : st[t] = "queued" <=> Contains(q, t)
  /\ \A t \in Tasks : st[t] = "running" <=> \E w \in Workers : ct[w] = t
  /\ \A w \in Workers : ct[w] # NoTask => taskWorker[ct[w]] = w

\* Which workers count and which are on the idle stack.
CoreWorkers(q, il, ws, tm, ct) ==
  /\ IsFiniteSet(ws)
  /\ Cardinality(ws) <= MaxWorkers
  /\ closed => ws = {} /\ q = <<>>
  /\ \A w \in Workers : ct[w] # NoTask /\ ~closed => w \in ws
  /\ \A w \in ws : ct[w] = NoTask => Contains(il, w) /\ w \in tm
  /\ Injective(il)
  /\ \A w \in Workers : Contains(il, w) => ct[w] = NoTask

\* The threads behind the workers.
CoreThreads(ws, ct, th, ob) ==
  /\ \A w \in Workers : ct[w] # NoTask => th[w] \in {"up", "erred", "stopping"}
  /\ \A w \in ws : th[w] \in {"up", "erred"}
  /\ \A w \in Workers : inbox[w] = NoTask \/ ob[w] = NoReply
  /\ \A w \in ws : ct[w] = NoTask => inbox[w] = NoTask /\ ob[w] = NoReply
  /\ \A w \in Workers : th[w] = "none" => inbox[w] = NoTask /\ ob[w] = NoReply

Core(q, il, ws, tm, ct, st, th, ob) ==
  /\ CoreTypes(q, il, ws, tm, ct, st, th, ob)
  /\ CoreTasks(q, ct, st)
  /\ CoreWorkers(q, il, ws, tm, ct)
  /\ CoreThreads(ws, ct, th, ob)

PoolCore == Core(queue, idleWorkers, workers, idleTimers, currentTask, status, thread, outbox)

\* Nobody waits while a slot is free, but for one task when one slot is free.
Slots(q, ws, ct) ==
  ~closed /\ Len(q) > 1 =>
    \/ /\ Cardinality(ws) = MaxWorkers
       /\ \A u, v \in ws : ct[u] = NoTask /\ ct[v] = NoTask => u = v
    \/ /\ Cardinality(ws) = MaxWorkers - 1
       /\ \A u \in ws : ct[u] # NoTask

Inv == PoolCore /\ WorkConserving

-----------------------------------------------------------------------------
(* drain().                                                                *)

\* Worker w may take the head of q: it counts, it is idle and off the stack,
\* and if others wait behind that task, all other workers are busy.
Granted(w, q, il, ws, tm, ct, st, th, ob) ==
  /\ CoreTypes(q, il, ws, tm, ct, st, th, ob)
  /\ CoreTasks(q, ct, st)
  /\ CoreWorkers(q, il, ws \ {w}, tm, [ct EXCEPT ![w] = NoTask])
  /\ CoreThreads(ws, ct, th, ob)
  /\ ~closed /\ q # <<>>
  /\ w \in ws /\ ct[w] = NoTask /\ ~Contains(il, w)
  /\ IsFiniteSet(ws) /\ Cardinality(ws) <= MaxWorkers
  /\ Len(q) > 1 => /\ Cardinality(ws) = MaxWorkers
                   /\ \A u \in ws \ {w} : ct[u] # NoTask

LEMMA HandOutKeepsInv ==
  ASSUME NEW q, NEW il, NEW ws, NEW tm, NEW ct, NEW st, NEW th, NEW ob, NEW w,
         Granted(w, q, il, ws, tm, ct, st, th, ob),
         HandOut(w, q, il, ws, tm, ct, st, th),
         outbox' = ob, closed' = closed
  PROVE  Inv'
<1> DEFINE t == Head(q)
<1>1. /\ q \in Seq(Tasks) /\ q # <<>>
      /\ t \in Tasks /\ t = q[1]
      /\ w \in Workers
      /\ ~closed
  BY DEF Granted, CoreTypes
<1>2. /\ Tail(q) \in Seq(Tasks)
      /\ Len(q) \in Nat /\ Len(q) >= 1
      /\ Len(Tail(q)) = Len(q) - 1
      /\ \A i \in 1..Len(q)-1 : Tail(q)[i] = q[i+1]
  BY <1>1, HeadTailProperties
<1>3. /\ Injective(Tail(q))
      /\ \A x : Contains(Tail(q), x) <=> Contains(q, x) /\ x # t
  <2>1. Injective(q)
    BY DEF Granted, CoreTasks
  <2>2. Injective(Tail(q))
    BY <2>1, <1>2 DEF Injective
  <2>3. ASSUME NEW x, Contains(Tail(q), x) PROVE Contains(q, x) /\ x # t
    <3>1. PICK i \in 1..Len(q)-1 : q[i+1] = x
      BY <2>3, <1>2 DEF Contains
    <3> QED BY <3>1, <2>1, <1>1, <1>2 DEF Contains, Injective
  <2>4. ASSUME NEW x, Contains(q, x), x # t PROVE Contains(Tail(q), x)
    <3>1. PICK i \in 1..Len(q) : q[i] = x
      BY <2>4 DEF Contains
    <3>2. i-1 \in 1..Len(q)-1 /\ Tail(q)[i-1] = x
      BY <3>1, <2>4, <1>1, <1>2
    <3> QED BY <3>2, <1>2 DEF Contains
  <2> QED BY <2>2, <2>3, <2>4
<1>4. Contains(q, t)
  BY <1>1, <1>2 DEF Contains
<1> HIDE DEF t
<1>5. /\ queue' = Tail(q) /\ idleWorkers' = il /\ workers' = ws
      /\ idleTimers' = tm \ {w}
      /\ currentTask' = [ct EXCEPT ![w] = t]
      /\ taskWorker' = [taskWorker EXCEPT ![t] = w]
      /\ status' = [st EXCEPT ![t] = "running"]
      /\ thread' = th
      /\ inbox' = [inbox EXCEPT ![w] = t]
      /\ outbox' = ob /\ closed' = FALSE
  BY <1>1 DEF HandOut, t
<1>6. CoreTypes(queue, idleWorkers, workers, idleTimers, currentTask, status, thread, outbox)'
  BY <1>1, <1>2, <1>5 DEF Granted, CoreTypes
<1>7. CoreTasks(queue, currentTask, status)'
  <2>1. st[t] = "queued" /\ (\A u \in Workers : ct[u] # t)
    BY <1>1, <1>4 DEF Granted, CoreTypes, CoreTasks
  <2>2. \A u \in Tasks : status'[u] = "queued" <=> Contains(queue', u)
    BY <1>1, <1>3, <1>5 DEF Granted, CoreTypes, CoreTasks
  <2>3. \A u \in Tasks : status'[u] = "running" <=> \E v \in Workers : currentTask'[v] = u
    BY <1>1, <1>5, <2>1, NullAssumption DEF Granted, CoreTypes, CoreTasks
  <2>4. \A v \in Workers : currentTask'[v] # NoTask => taskWorker'[currentTask'[v]] = v
    BY <1>1, <1>5, <2>1 DEF Granted, CoreTypes, CoreTasks
  <2> QED BY <1>3, <1>5, <2>2, <2>3, <2>4 DEF CoreTasks
<1>8. CoreWorkers(queue, idleWorkers, workers, idleTimers, currentTask)'
  BY <1>1, <1>5, NullAssumption DEF Granted, CoreTypes, CoreWorkers
<1>9. CoreThreads(workers, currentTask, thread, outbox)'
  BY <1>1, <1>5, NullAssumption DEF Granted, CoreTypes, CoreThreads
<1>10. WorkConserving'
  <2>1. queue' # <<>> => Len(q) > 1
    BY <1>2, <1>5
  <2> QED BY <2>1, <1>1, <1>5, NullAssumption DEF Granted, CoreTypes, WorkConserving
<1> QED BY <1>6, <1>7, <1>8, <1>9, <1>10 DEF Inv, PoolCore, Core

LEMMA RestKeepsInv ==
  ASSUME NEW q, NEW il, NEW ws, NEW tm, NEW ct, NEW st, NEW th, NEW ob,
         Core(q, il, ws, tm, ct, st, th, ob),
         Rest(q, il, ws, tm, ct, st, th),
         outbox' = ob, closed' = closed,
         ~closed /\ q # <<>> => /\ Cardinality(ws) = MaxWorkers
                                /\ \A w \in ws : ct[w] # NoTask
  PROVE  Inv'
BY DEF Core, CoreTypes, CoreTasks, CoreWorkers, CoreThreads, Rest, Inv, PoolCore, WorkConserving

LEMMA ReuseIdleKeepsInv ==
  ASSUME NEW q, NEW il, NEW ws, NEW tm, NEW ct, NEW st, NEW th, NEW ob,
         Core(q, il, ws, tm, ct, st, th, ob), Slots(q, ws, ct),
         ~closed, q # <<>>,
         ReuseIdle(q, il, ws, tm, ct, st, th),
         outbox' = ob, closed' = closed
  PROVE  Inv'
<1>1. PICK k \in 1..Len(il) :
         /\ Available(il[k], ws, ct)
         /\ \A j \in (k+1)..Len(il) : ~Available(il[j], ws, ct)
         /\ HandOut(il[k], q, SubSeq(il, 1, k-1), ws, tm, ct, st, th)
  BY DEF ReuseIdle
<1> DEFINE w == il[k]
           rest == SubSeq(il, 1, k-1)
<1>2. /\ il \in Seq(Workers)
      /\ Len(il) \in Nat
      /\ Injective(il)
      /\ w \in ws /\ ct[w] = NoTask
  BY <1>1 DEF Core, CoreTypes, CoreWorkers, Available
<1>3. /\ rest \in Seq(Workers)
      /\ Len(rest) = k-1
      /\ \A i \in 1..k-1 : rest[i] = il[i]
  <2>1. \A i \in 1..k-1 : il[i] \in Workers
    BY <1>2
  <2> QED BY <1>2, <2>1, SubSeqProperties
<1>4. /\ Injective(rest)
      /\ ~Contains(rest, w)
      /\ \A u : Contains(rest, u) => Contains(il, u)
  BY <1>2, <1>3 DEF Injective, Contains
<1>5. ASSUME NEW u \in ws \ {w}, ct[u] = NoTask PROVE Contains(rest, u) /\ u \in tm
  <2>1. Contains(il, u) /\ u \in tm
    BY <1>5 DEF Core, CoreWorkers
  <2>2. PICK i \in 1..Len(il) : il[i] = u
    BY <2>1 DEF Contains
  <2>3. Available(il[i], ws, ct)
    BY <1>5, <2>2 DEF Available
  <2>4. i < k
    BY <1>1, <1>2, <1>5, <2>2, <2>3
  <2> QED BY <1>2, <1>3, <2>1, <2>2, <2>4 DEF Contains
<1>6. Len(q) > 1 => /\ Cardinality(ws) = MaxWorkers
                    /\ \A u \in ws \ {w} : ct[u] # NoTask
  BY <1>2 DEF Slots
<1> HIDE DEF w, rest
<1>7. /\ IsFiniteSet(ws) /\ Cardinality(ws) <= MaxWorkers
      /\ IsFiniteSet(ws \ {w}) /\ Cardinality(ws \ {w}) <= MaxWorkers
  <2>1. IsFiniteSet(ws) /\ Cardinality(ws) <= MaxWorkers /\ Cardinality(ws) \in Nat
    BY FS_CardinalityType DEF Core, CoreWorkers
  <2>2. IsFiniteSet(ws \ {w}) /\ Cardinality(ws \ {w}) = Cardinality(ws) - 1
    BY <2>1, <1>2, FS_RemoveElement
  <2> QED BY <2>1, <2>2, MaxWorkersAssumption
<1>8. Granted(w, q, rest, ws, tm, ct, st, th, ob)
  <2>1. CoreTypes(q, rest, ws, tm, ct, st, th, ob)
    BY <1>3 DEF Core, CoreTypes
  <2>2. CoreWorkers(q, rest, ws \ {w}, tm, [ct EXCEPT ![w] = NoTask])
    BY <1>2, <1>4, <1>5, <1>7, <2>1 DEF Core, CoreTypes, CoreWorkers
  <2> QED BY <1>2, <1>4, <1>6, <1>7, <2>1, <2>2 DEF Granted, Core
<1> QED BY <1>1, <1>8, HandOutKeepsInv DEF w, rest

LEMMA CreateOrWaitKeepsInv ==
  ASSUME NEW q, NEW il, NEW ws, NEW tm, NEW ct, NEW st, NEW th, NEW ob,
         Core(q, il, ws, tm, ct, st, th, ob), Slots(q, ws, ct),
         ~closed, q # <<>>,
         CreateOrWait(q, il, ws, tm, ct, st, th),
         outbox' = ob, closed' = closed
  PROVE  Inv'
<1> DEFINE new == CHOOSE w \in Workers : th[w] = "none"
<1>1. IsFiniteSet(ws) /\ Cardinality(ws) \in Nat /\ Cardinality(ws) <= MaxWorkers
  BY FS_CardinalityType DEF Core, CoreWorkers
<1>2. \A u \in ws : ct[u] # NoTask
  BY DEF CreateOrWait, Available, Contains, Core, CoreTypes, CoreWorkers
<1>3. <<>> \in Seq(Workers) /\ Len(<<>>) = 0 /\ Injective(<<>>) /\ \A x : ~Contains(<<>>, x)
  BY DEF Injective, Contains
<1>4. CASE /\ Cardinality(ws) < MaxWorkers
           /\ \E w \in Workers : th[w] = "none"
           /\ HandOut(new, q, <<>>, ws \cup {new}, tm, ct, st, [th EXCEPT ![new] = "up"])
  <2>1. new \in Workers /\ th[new] = "none"
    BY <1>4
  <2> HIDE DEF new
  <2> DEFINE ws2 == ws \cup {new}
             th2 == [th EXCEPT ![new] = "up"]
  <2>2. new \notin ws
    BY <2>1 DEF Core, CoreThreads
  <2>3. IsFiniteSet(ws2) /\ Cardinality(ws2) = Cardinality(ws) + 1 /\ ws2 \ {new} = ws
    BY <1>1, <2>2, FS_AddElement
  <2>4. Cardinality(ws2) <= MaxWorkers
    BY <1>1, <1>4, <2>3, MaxWorkersAssumption
  <2>5. ct[new] = NoTask /\ inbox[new] = NoTask /\ ob[new] = NoReply
    BY <2>1 DEF Core, CoreTypes, CoreThreads
  <2>6. CoreTypes(q, <<>>, ws2, tm, ct, st, th2, ob)
    BY <1>3, <2>1 DEF Core, CoreTypes, ThreadStates
  <2>7. CoreWorkers(q, <<>>, ws2 \ {new}, tm, [ct EXCEPT ![new] = NoTask])
    BY <1>1, <1>2, <1>3, <2>1, <2>3 DEF Core, CoreTypes, CoreWorkers
  <2>8. CoreThreads(ws2, ct, th2, ob)
    BY <1>2, <2>1, <2>2, <2>5 DEF Core, CoreTypes, CoreThreads
  <2>9. Len(q) > 1 => /\ Cardinality(ws2) = MaxWorkers
                      /\ \A u \in ws2 \ {new} : ct[u] # NoTask
    BY <1>1, <1>2, <1>4, <2>3, MaxWorkersAssumption DEF Slots
  <2> HIDE DEF ws2, th2
  <2>10. Granted(new, q, <<>>, ws2, tm, ct, st, th2, ob)
    BY <1>3, <2>3, <2>4, <2>5, <2>6, <2>7, <2>8, <2>9 DEF Granted, Core, ws2
  <2> QED BY <1>4, <2>10, HandOutKeepsInv DEF ws2, th2
<1>5. CASE Cardinality(ws) >= MaxWorkers /\ Rest(q, <<>>, ws, tm, ct, st, th)
  <2>1. Cardinality(ws) = MaxWorkers
    BY <1>1, <1>5, MaxWorkersAssumption
  <2>2. CoreTypes(q, <<>>, ws, tm, ct, st, th, ob)
    BY <1>3 DEF Core, CoreTypes
  <2>3. CoreWorkers(q, <<>>, ws, tm, ct)
    BY <1>2, <1>3 DEF Core, CoreWorkers
  <2>4. Core(q, <<>>, ws, tm, ct, st, th, ob)
    BY <2>2, <2>3 DEF Core
  <2> QED BY <1>2, <1>5, <2>1, <2>4, RestKeepsInv
<1> QED BY <1>4, <1>5 DEF CreateOrWait

\* drain() restores the invariant after a handler that freed one slot or added
\* one task.
LEMMA DrainKeepsInv ==
  ASSUME NEW q, NEW il, NEW ws, NEW tm, NEW ct, NEW st, NEW th, NEW ob,
         Core(q, il, ws, tm, ct, st, th, ob), Slots(q, ws, ct),
         Drain(q, il, ws, tm, ct, st, th),
         outbox' = ob, closed' = closed
  PROVE  Inv'
<1>1. CASE closed \/ q = <<>>
  BY <1>1, RestKeepsInv DEF Drain
<1>2. CASE ~closed /\ q # <<>>
  BY <1>2, ReuseIdleKeepsInv, CreateOrWaitKeepsInv DEF Drain
<1> QED BY <1>1, <1>2 DEF Core, CoreTypes

-----------------------------------------------------------------------------
(* The initial state and every step.                                       *)

LEMMA InitInv == Init => Inv
<1> SUFFICES ASSUME Init PROVE Inv
  OBVIOUS
<1>1. /\ queue = <<>> /\ idleWorkers = <<>> /\ <<>> \in Seq(Tasks) /\ <<>> \in Seq(Workers)
      /\ Len(<<>>) = 0
  BY DEF Init
<1>2. IsFiniteSet(workers) /\ Cardinality(workers) = 0 /\ 0 <= MaxWorkers
  BY FS_EmptySet, MaxWorkersAssumption DEF Init
<1>3. CoreTypes(queue, idleWorkers, workers, idleTimers, currentTask, status, thread, outbox)
  BY <1>1 DEF Init, CoreTypes, ThreadStates
<1>4. CoreTasks(queue, currentTask, status)
  BY <1>1, NullAssumption DEF Init, CoreTasks, Injective, Contains
<1>5. CoreWorkers(queue, idleWorkers, workers, idleTimers, currentTask)
  BY <1>1, <1>2 DEF Init, CoreWorkers, Injective, Contains
<1>6. CoreThreads(workers, currentTask, thread, outbox)
  BY DEF Init, CoreThreads
<1> QED BY <1>1, <1>2, <1>3, <1>4, <1>5, <1>6 DEF Inv, PoolCore, Core, WorkConserving

\* What the invariant says when tasks wait: there is no free slot.
LEMMA NoSlotWhileWaiting ==
  ASSUME Inv, ~closed, Len(queue) > 0
  PROVE  /\ Cardinality(workers) = MaxWorkers
         /\ \A w \in workers : currentTask[w] # NoTask
BY DEF Inv, PoolCore, Core, CoreTypes, WorkConserving

LEMMA RunTaskKeepsInv ==
  ASSUME Inv, NEW t \in Tasks, RunTask(t)
  PROVE  Inv'
<1> DEFINE q == Append(queue, t)
           st == [status EXCEPT ![t] = "queued"]
<1>1. /\ queue \in Seq(Tasks) /\ Len(queue) \in Nat
      /\ ~Contains(queue, t) /\ status[t] = "new"
      /\ Injective(queue)
  BY DEF Inv, PoolCore, Core, CoreTypes, CoreTasks, RunTask
<1>2. /\ q \in Seq(Tasks) /\ Len(q) = Len(queue) + 1
      /\ q[Len(queue)+1] = t
      /\ \A i \in 1..Len(queue) : q[i] = queue[i]
  BY <1>1, AppendProperties
<1>3. Injective(q) /\ \A x : Contains(q, x) <=> Contains(queue, x) \/ x = t
  <2>1. Injective(q)
    BY <1>1, <1>2 DEF Injective, Contains
  <2>2. ASSUME NEW x PROVE Contains(q, x) <=> Contains(queue, x) \/ x = t
    BY <1>1, <1>2 DEF Contains
  <2> QED BY <2>1, <2>2
<1> HIDE DEF q
<1>4. Core(q, idleWorkers, workers, idleTimers, currentTask, st, thread, outbox)
  <2>1. CoreTypes(q, idleWorkers, workers, idleTimers, currentTask, st, thread, outbox)
    BY <1>2 DEF Inv, PoolCore, Core, CoreTypes
  <2>2. CoreTasks(q, currentTask, st)
    BY <1>1, <1>3 DEF Inv, PoolCore, Core, CoreTypes, CoreTasks
  <2>3. CoreWorkers(q, idleWorkers, workers, idleTimers, currentTask)
    BY DEF Inv, PoolCore, Core, CoreWorkers, RunTask
  <2> QED BY <2>1, <2>2, <2>3 DEF Inv, PoolCore, Core
<1>5. Slots(q, workers, currentTask)
  BY <1>1, <1>2, NoSlotWhileWaiting DEF Slots
<1>6. /\ Drain(q, idleWorkers, workers, idleTimers, currentTask, st, thread)
      /\ outbox' = outbox /\ closed' = closed
  BY DEF RunTask, q
<1> HIDE DEF st
<1> QED BY <1>4, <1>5, <1>6, DrainKeepsInv

LEMMA AbortQueuedKeepsInv ==
  ASSUME Inv, NEW t \in Tasks, AbortQueued(t)
  PROVE  Inv'
<1>1. /\ queue' = RemoveFirst(queue, t)
      /\ status' = [status EXCEPT ![t] = "aborted"]
      /\ UNCHANGED <<idleWorkers, workers, idleTimers, currentTask, taskWorker, closed, thread, inbox, outbox>>
      /\ status[t] = "queued"
  BY DEF AbortQueued, threadVars
<1>2. /\ queue \in Seq(Tasks) /\ Injective(queue) /\ Contains(queue, t)
  BY <1>1 DEF Inv, PoolCore, Core, CoreTypes, CoreTasks
<1>3. /\ queue' \in Seq(Tasks) /\ Injective(queue')
      /\ \A x : Contains(queue', x) <=> Contains(queue, x) /\ x # t
      /\ queue' # <<>> => queue # <<>>
  <2>1. /\ queue' \in Seq(Tasks) /\ Injective(queue')
        /\ \A x : Contains(queue', x) <=> Contains(queue, x) /\ x # t
    BY <1>1, <1>2, RemoveFirstProperties
  <2>2. queue # <<>>
    BY <1>2 DEF Contains
  <2> QED BY <2>1, <2>2
<1>4. CoreTypes(queue, idleWorkers, workers, idleTimers, currentTask, status, thread, outbox)'
  BY <1>1, <1>3 DEF Inv, PoolCore, Core, CoreTypes, Outcomes
<1>5. CoreTasks(queue, currentTask, status)'
  BY <1>1, <1>3 DEF Inv, PoolCore, Core, CoreTypes, CoreTasks
<1>6. CoreWorkers(queue, idleWorkers, workers, idleTimers, currentTask)'
  <2>1. closed => queue = <<>>
    BY DEF Inv, PoolCore, Core, CoreWorkers
  <2>2. closed' => queue' = <<>>
    BY <1>1, <1>3, <2>1
  <2> QED BY <1>1, <2>2 DEF Inv, PoolCore, Core, CoreWorkers
<1>7. CoreThreads(workers, currentTask, thread, outbox)'
  BY <1>1 DEF Inv, PoolCore, Core, CoreThreads
<1>8. WorkConserving'
  BY <1>1, <1>3 DEF Inv, WorkConserving
<1> QED BY <1>4, <1>5, <1>6, <1>7, <1>8 DEF Inv, PoolCore, Core

\* Whatever takes a worker out of the pool (abort, error, exit) leaves values
\* that drain() can work on.
LEMMA LoseWorker ==
  ASSUME Inv, NEW w \in Workers, NEW il, NEW st, NEW th,
         il = idleWorkers \/ il = RemoveFirst(idleWorkers, w),
         th \in [Workers -> ThreadStates],
         \A u \in Workers \ {w} : th[u] = thread[u],
         th[w] # "none",
         st \in [Tasks -> {"new", "queued", "running"} \cup Outcomes],
         \A t \in Tasks : t # currentTask[w] => st[t] = status[t],
         currentTask[w] # NoTask => st[currentTask[w]] \in Outcomes
  PROVE  LET ct == [currentTask EXCEPT ![w] = NoTask]
         IN /\ Core(queue, il, workers \ {w}, idleTimers, ct, st, th, outbox)
            /\ Slots(queue, workers \ {w}, ct)
<1> DEFINE ct == [currentTask EXCEPT ![w] = NoTask]
           ws == workers \ {w}
<1>1. /\ il \in Seq(Workers) /\ Injective(il)
      /\ \A x : Contains(il, x) => Contains(idleWorkers, x)
      /\ \A x : x # w /\ Contains(idleWorkers, x) => Contains(il, x)
  BY RemoveFirstProperties DEF Inv, PoolCore, Core, CoreTypes, CoreWorkers
<1>2. /\ ct \in [Workers -> Tasks \cup {NoTask}]
      /\ ct[w] = NoTask
      /\ \A u \in Workers \ {w} : ct[u] = currentTask[u]
      /\ currentTask[w] \in Tasks \cup {NoTask}
  BY DEF Inv, PoolCore, Core, CoreTypes
<1>3. /\ IsFiniteSet(workers) /\ Cardinality(workers) \in Nat /\ Cardinality(workers) <= MaxWorkers
      /\ IsFiniteSet(ws)
      /\ Cardinality(ws) = IF w \in workers THEN Cardinality(workers) - 1 ELSE Cardinality(workers)
      /\ Cardinality(ws) <= MaxWorkers
  <2>1. IsFiniteSet(workers) /\ Cardinality(workers) \in Nat /\ Cardinality(workers) <= MaxWorkers
    BY FS_CardinalityType DEF Inv, PoolCore, Core, CoreWorkers
  <2>2. /\ IsFiniteSet(ws)
        /\ Cardinality(ws) = IF w \in workers THEN Cardinality(workers) - 1 ELSE Cardinality(workers)
    BY <2>1, FS_RemoveElement
  <2> QED BY <2>1, <2>2, MaxWorkersAssumption
<1>4. Slots(queue, ws, ct)
  <2>1. SUFFICES ASSUME ~closed, Len(queue) > 1
                 PROVE  \/ /\ Cardinality(ws) = MaxWorkers
                           /\ \A u, v \in ws : ct[u] = NoTask /\ ct[v] = NoTask => u = v
                        \/ /\ Cardinality(ws) = MaxWorkers - 1
                           /\ \A u \in ws : ct[u] # NoTask
    BY DEF Slots
  <2>2. Len(queue) \in Nat
    BY DEF Inv, PoolCore, Core, CoreTypes
  <2>3. Cardinality(workers) = MaxWorkers /\ \A u \in workers : currentTask[u] # NoTask
    BY <2>1, <2>2, NoSlotWhileWaiting
  <2>4. \A u \in ws : ct[u] # NoTask
    BY <2>3, <1>2 DEF Inv, PoolCore, Core, CoreTypes
  <2> QED BY <2>3, <2>4, <1>3
<1> HIDE DEF ct, ws
<1>5. CoreTypes(queue, il, ws, idleTimers, ct, st, th, outbox)
  BY <1>1, <1>2 DEF Inv, PoolCore, Core, CoreTypes, ws
<1>6. CoreTasks(queue, ct, st)
  <2>1. Injective(queue)
    BY DEF Inv, PoolCore, Core, CoreTasks
  <2>2. ASSUME NEW t \in Tasks PROVE st[t] = "queued" <=> Contains(queue, t)
    <3>1. status[t] = "queued" <=> Contains(queue, t)
      BY DEF Inv, PoolCore, Core, CoreTasks
    <3>2. CASE t = currentTask[w]
      <4>1. status[t] = "running"
        BY <3>2 DEF Inv, PoolCore, Core, CoreTasks
      <4>2. st[t] # "queued"
        BY <3>2, NullAssumption DEF Outcomes
      <4> QED BY <3>1, <4>1, <4>2
    <3>3. CASE t # currentTask[w]
      BY <3>1, <3>3
    <3> QED BY <3>2, <3>3
  <2>3. ASSUME NEW t \in Tasks PROVE st[t] = "running" <=> \E u \in Workers : ct[u] = t
    <3>1. CASE t = currentTask[w]
      <4>1. st[t] # "running"
        BY <3>1, NullAssumption DEF Outcomes
      <4>2. ASSUME NEW u \in Workers, ct[u] = t PROVE FALSE
        BY <3>1, <4>2, <1>2, NullAssumption DEF Inv, PoolCore, Core, CoreTasks
      <4> QED BY <4>1, <4>2
    <3>2. CASE t # currentTask[w]
      <4>1. st[t] = status[t]
        BY <3>2
      <4>2. (\E u \in Workers : ct[u] = t) <=> (\E u \in Workers : currentTask[u] = t)
        BY <3>2, <1>2, NullAssumption
      <4> QED BY <4>1, <4>2 DEF Inv, PoolCore, Core, CoreTasks
    <3> QED BY <3>1, <3>2
  <2>4. \A u \in Workers : ct[u] # NoTask => taskWorker[ct[u]] = u
    BY <1>2 DEF Inv, PoolCore, Core, CoreTasks
  <2> QED BY <2>1, <2>2, <2>3, <2>4 DEF CoreTasks
<1>7. CoreWorkers(queue, il, ws, idleTimers, ct)
  BY <1>1, <1>2, <1>3 DEF Inv, PoolCore, Core, CoreTypes, CoreWorkers, ws
<1>8. CoreThreads(ws, ct, th, outbox)
  BY <1>2 DEF Inv, PoolCore, Core, CoreTypes, CoreThreads, ws
<1>9. Core(queue, il, ws, idleTimers, ct, st, th, outbox)
  BY <1>5, <1>6, <1>7, <1>8 DEF Core
<1> QED BY <1>4, <1>9 DEF ct, ws

LEMMA AbortRunningKeepsInv ==
  ASSUME Inv, NEW t \in Tasks, AbortRunning(t)
  PROVE  Inv'
<1> DEFINE w == taskWorker[t]
           ct == [currentTask EXCEPT ![w] = NoTask]
           st == [status EXCEPT ![t] = "aborted"]
           th == Terminate(thread, w)
           il == RemoveFirst(idleWorkers, w)
<1>1. w \in Workers /\ currentTask[w] = t /\ t # NoTask
  BY NullAssumption DEF AbortRunning, Abortable, Inv, PoolCore, Core, CoreTypes, CoreTasks
<1>2. /\ th \in [Workers -> ThreadStates]
      /\ \A u \in Workers \ {w} : th[u] = thread[u]
      /\ th[w] # "none"
  BY <1>1 DEF Terminate, ThreadStates, Inv, PoolCore, Core, CoreTypes, CoreThreads
<1>3. /\ st \in [Tasks -> {"new", "queued", "running"} \cup Outcomes]
      /\ \A u \in Tasks : u # t => st[u] = status[u]
      /\ st[t] \in Outcomes
  BY DEF Outcomes, Inv, PoolCore, Core, CoreTypes
<1>4. /\ Drain(queue, il, workers \ {w}, idleTimers, ct, st, th)
      /\ outbox' = outbox /\ closed' = closed
  BY DEF AbortRunning
<1> HIDE DEF w, st, th, il
<1>5. /\ Core(queue, il, workers \ {w}, idleTimers, ct, st, th, outbox)
      /\ Slots(queue, workers \ {w}, ct)
  BY <1>1, <1>2, <1>3, LoseWorker DEF il
<1> HIDE DEF ct
<1> QED BY <1>4, <1>5, DrainKeepsInv

\* rejectTask settles what the dead worker was running, and nothing else.
LEMMA RejectCurrentProperties ==
  ASSUME Inv, NEW w \in Workers, NEW o \in Outcomes
  PROVE  /\ RejectCurrent(w, o) \in [Tasks -> {"new", "queued", "running"} \cup Outcomes]
         /\ \A t \in Tasks : t # currentTask[w] => RejectCurrent(w, o)[t] = status[t]
         /\ currentTask[w] # NoTask => RejectCurrent(w, o)[currentTask[w]] \in Outcomes
BY DEF RejectCurrent, Settled, Inv, PoolCore, Core, CoreTypes

LEMMA HandleErrorKeepsInv ==
  ASSUME Inv, NEW w \in Workers, HandleError(w)
  PROVE  Inv'
<1> DEFINE ct == [currentTask EXCEPT ![w] = NoTask]
           st == RejectCurrent(w, "failed")
           th == [thread EXCEPT ![w] = "ended"]
<1>1. /\ th \in [Workers -> ThreadStates]
      /\ \A u \in Workers \ {w} : th[u] = thread[u]
      /\ th[w] # "none"
  BY DEF ThreadStates, Inv, PoolCore, Core, CoreTypes
<1>2. /\ st \in [Tasks -> {"new", "queued", "running"} \cup Outcomes]
      /\ \A u \in Tasks : u # currentTask[w] => st[u] = status[u]
      /\ currentTask[w] # NoTask => st[currentTask[w]] \in Outcomes
  BY RejectCurrentProperties DEF Outcomes
<1>3. /\ Drain(queue, idleWorkers, workers \ {w}, idleTimers, ct, st, th)
      /\ outbox' = outbox /\ closed' = closed
  BY DEF HandleError
<1> HIDE DEF st, th
<1>4. /\ Core(queue, idleWorkers, workers \ {w}, idleTimers, ct, st, th, outbox)
      /\ Slots(queue, workers \ {w}, ct)
  BY <1>1, <1>2, LoseWorker
<1> HIDE DEF ct
<1> QED BY <1>3, <1>4, DrainKeepsInv

LEMMA HandleExitKeepsInv ==
  ASSUME Inv, NEW w \in Workers, HandleExit(w)
  PROVE  Inv'
<1> DEFINE il == RemoveFirst(idleWorkers, w)
           ct == [currentTask EXCEPT ![w] = NoTask]
           st == RejectCurrent(w, "aborted")
           th == [thread EXCEPT ![w] = "gone"]
<1>1. /\ th \in [Workers -> ThreadStates]
      /\ \A u \in Workers \ {w} : th[u] = thread[u]
      /\ th[w] # "none"
  BY DEF ThreadStates, Inv, PoolCore, Core, CoreTypes
<1>2. /\ st \in [Tasks -> {"new", "queued", "running"} \cup Outcomes]
      /\ \A u \in Tasks : u # currentTask[w] => st[u] = status[u]
      /\ currentTask[w] # NoTask => st[currentTask[w]] \in Outcomes
  BY RejectCurrentProperties DEF Outcomes
<1>3. /\ Drain(queue, il, workers \ {w}, idleTimers, ct, st, th)
      /\ outbox' = outbox /\ closed' = closed
  BY DEF HandleExit
<1> HIDE DEF st, th, il
<1>4. /\ Core(queue, il, workers \ {w}, idleTimers, ct, st, th, outbox)
      /\ Slots(queue, workers \ {w}, ct)
  BY <1>1, <1>2, LoseWorker DEF il
<1> HIDE DEF ct
<1> QED BY <1>3, <1>4, DrainKeepsInv

LEMMA HandleMessageKeepsInv ==
  ASSUME Inv, NEW w \in Workers, HandleMessage(w)
  PROVE  Inv'
<1> DEFINE t == currentTask[w]
           st == [status EXCEPT ![t] = IF outbox[w].ok THEN "resolved" ELSE "failed"]
           ct == [currentTask EXCEPT ![w] = NoTask]
           ob == [outbox EXCEPT ![w] = NoReply]
           il == IF closed THEN idleWorkers ELSE Append(idleWorkers, w)
           tm == IF closed THEN idleTimers ELSE idleTimers \cup {w}
<1>1. /\ t \in Tasks /\ t # NoTask /\ status[t] = "running"
      /\ outbox[w] # NoReply
      /\ inbox[w] = NoTask
      /\ ~closed => w \in workers
  BY DEF HandleMessage, Inv, PoolCore, Core, CoreTypes, CoreTasks, CoreWorkers, CoreThreads
<1>2. /\ ct \in [Workers -> Tasks \cup {NoTask}]
      /\ ct[w] = NoTask
      /\ \A u \in Workers \ {w} : ct[u] = currentTask[u]
      /\ st \in [Tasks -> {"new", "queued", "running"} \cup Outcomes]
      /\ st[t] \in Outcomes
      /\ \A u \in Tasks \ {t} : st[u] = status[u]
      /\ ob \in [Workers -> Replies \cup {NoReply}]
      /\ ob[w] = NoReply
      /\ \A u \in Workers \ {w} : ob[u] = outbox[u]
  BY <1>1 DEF Outcomes, Inv, PoolCore, Core, CoreTypes
<1>3. /\ il \in Seq(Workers) /\ Injective(il)
      /\ \A x : Contains(il, x) <=> Contains(idleWorkers, x) \/ (~closed /\ x = w)
  <2>1. /\ idleWorkers \in Seq(Workers) /\ Injective(idleWorkers) /\ Len(idleWorkers) \in Nat
        /\ ~Contains(idleWorkers, w)
    BY <1>1 DEF Inv, PoolCore, Core, CoreTypes, CoreWorkers
  <2> DEFINE a == Append(idleWorkers, w)
  <2>2. /\ a \in Seq(Workers)
        /\ Len(a) = Len(idleWorkers) + 1
        /\ a[Len(idleWorkers)+1] = w
        /\ \A i \in 1..Len(idleWorkers) : a[i] = idleWorkers[i]
    BY <2>1, AppendProperties
  <2> HIDE DEF a
  <2>3. Injective(a)
    BY <2>1, <2>2 DEF Injective, Contains
  <2>4. ASSUME NEW x PROVE Contains(a, x) <=> Contains(idleWorkers, x) \/ x = w
    BY <2>1, <2>2 DEF Contains
  <2>5. il = IF closed THEN idleWorkers ELSE a
    BY DEF a
  <2> QED BY <2>1, <2>2, <2>3, <2>4, <2>5
<1>4. /\ Drain(queue, il, workers, tm, ct, st, thread)
      /\ outbox' = ob /\ closed' = closed
  BY DEF HandleMessage, ArmTimer
<1>5. Slots(queue, workers, ct)
  <2>1. SUFFICES ASSUME ~closed, Len(queue) > 1
                 PROVE  /\ Cardinality(workers) = MaxWorkers
                        /\ \A u, v \in workers : ct[u] = NoTask /\ ct[v] = NoTask => u = v
    BY DEF Slots
  <2>2. Len(queue) \in Nat
    BY DEF Inv, PoolCore, Core, CoreTypes
  <2>3. Cardinality(workers) = MaxWorkers /\ \A u \in workers : currentTask[u] # NoTask
    BY <2>1, <2>2, NoSlotWhileWaiting
  <2> QED BY <2>3, <1>2 DEF Inv, PoolCore, Core, CoreTypes
<1> HIDE DEF t, st, ct, ob, il
<1>6. CoreTypes(queue, il, workers, tm, ct, st, thread, ob)
  BY <1>2, <1>3 DEF Inv, PoolCore, Core, CoreTypes
<1>7. CoreTasks(queue, ct, st)
  <2>1. ~Contains(queue, t)
    BY <1>1 DEF Inv, PoolCore, Core, CoreTasks
  <2>2. \A u \in Tasks : st[u] = "queued" <=> Contains(queue, u)
    BY <1>2, <2>1 DEF Outcomes, Inv, PoolCore, Core, CoreTasks
  <2>3. ASSUME NEW u \in Tasks PROVE st[u] = "running" <=> \E v \in Workers : ct[v] = u
    <3>1. CASE u = t
      <4>1. \A v \in Workers : ct[v] # t
        BY <1>1, <1>2 DEF t, Inv, PoolCore, Core, CoreTasks
      <4> QED BY <3>1, <4>1, <1>2 DEF Outcomes
    <3>2. CASE u # t
      <4>1. (\E v \in Workers : ct[v] = u) <=> (\E v \in Workers : currentTask[v] = u)
        BY <3>2, <1>2, NullAssumption DEF t
      <4> QED BY <3>2, <4>1, <1>2 DEF Inv, PoolCore, Core, CoreTasks
    <3> QED BY <3>1, <3>2
  <2>4. \A v \in Workers : ct[v] # NoTask => taskWorker[ct[v]] = v
    BY <1>2 DEF Inv, PoolCore, Core, CoreTasks
  <2> QED BY <2>2, <2>3, <2>4 DEF Inv, PoolCore, Core, CoreTasks
<1>8. CoreWorkers(queue, il, workers, tm, ct)
  BY <1>1, <1>2, <1>3 DEF Inv, PoolCore, Core, CoreTypes, CoreWorkers
<1>9. CoreThreads(workers, ct, thread, ob)
  BY <1>1, <1>2 DEF Inv, PoolCore, Core, CoreTypes, CoreThreads
<1>10. Core(queue, il, workers, tm, ct, st, thread, ob)
  BY <1>6, <1>7, <1>8, <1>9 DEF Core
<1> HIDE DEF tm
<1> QED BY <1>4, <1>5, <1>10, DrainKeepsInv

\* The steps that leave queue, tasks and workers alone.
LEMMA ThreadStepKeepsInv ==
  ASSUME Inv, NEW w \in Workers, IgnoreMessage(w) \/ Reply(w) \/ Crash(w)
  PROVE  Inv'
<1>1. /\ UNCHANGED <<queue, idleWorkers, workers, idleTimers, currentTask, taskWorker, status, closed>>
  BY DEF IgnoreMessage, Reply, Crash, mainVars
<1>2. /\ thread' \in [Workers -> ThreadStates]
      /\ inbox' \in [Workers -> Tasks \cup {NoTask}]
      /\ outbox' \in [Workers -> Replies \cup {NoReply}]
      /\ \A u \in Workers : inbox'[u] = NoTask \/ outbox'[u] = NoReply
  <2> USE DEF Inv, PoolCore, Core, CoreTypes, CoreThreads
  <2>1. CASE IgnoreMessage(w)
    BY <2>1 DEF IgnoreMessage
  <2>2. CASE Reply(w)
    <3>1. PICK ok \in BOOLEAN : outbox' = [outbox EXCEPT ![w] = [id |-> inbox[w], ok |-> ok]]
      BY <2>2 DEF Reply
    <3>2. inbox[w] \in Tasks /\ [id |-> inbox[w], ok |-> ok] \in Replies
      BY <2>2 DEF Reply, Replies
    <3>3. thread' = thread /\ inbox' = [inbox EXCEPT ![w] = NoTask]
      BY <2>2 DEF Reply
    <3> QED BY <3>1, <3>2, <3>3
  <2>3. CASE Crash(w)
    BY <2>3 DEF Crash, ThreadStates
  <2> QED BY <2>1, <2>2, <2>3
<1>3. CoreThreads(workers, currentTask, thread, outbox)'
  BY <1>1, <1>2 DEF IgnoreMessage, Reply, Crash, Inv, PoolCore, Core, CoreTypes, CoreThreads
<1>4. CoreTypes(queue, idleWorkers, workers, idleTimers, currentTask, status, thread, outbox)'
  BY <1>1, <1>2 DEF Inv, PoolCore, Core, CoreTypes
<1>5. /\ CoreTasks(queue, currentTask, status)'
      /\ CoreWorkers(queue, idleWorkers, workers, idleTimers, currentTask)'
      /\ WorkConserving'
  BY <1>1 DEF Inv, PoolCore, Core, CoreTasks, CoreWorkers, WorkConserving
<1> QED BY <1>3, <1>4, <1>5 DEF Inv, PoolCore, Core

LEMMA IdleTimeoutKeepsInv ==
  ASSUME Inv, NEW w \in Workers, IdleTimeout(w)
  PROVE  Inv'
<1>1. /\ UNCHANGED <<queue, currentTask, taskWorker, status, closed, inbox, outbox>>
      /\ idleTimers' = idleTimers \ {w}
  BY DEF IdleTimeout
<1>2. CASE closed \/ currentTask[w] # NoTask
  <2>1. UNCHANGED <<idleWorkers, workers, thread>>
    BY <1>2 DEF IdleTimeout
  <2>2. CoreTypes(queue, idleWorkers, workers, idleTimers, currentTask, status, thread, outbox)'
    BY <1>1, <2>1 DEF Inv, PoolCore, Core, CoreTypes
  <2>3. CoreWorkers(queue, idleWorkers, workers, idleTimers, currentTask)'
    BY <1>1, <1>2, <2>1 DEF Inv, PoolCore, Core, CoreWorkers
  <2> QED BY <1>1, <2>1, <2>2, <2>3
          DEF Inv, PoolCore, Core, CoreTasks, CoreThreads, WorkConserving
<1>3. CASE ~closed /\ currentTask[w] = NoTask
  <2>1. /\ idleWorkers' = RemoveFirst(idleWorkers, w)
        /\ workers' = workers \ {w}
        /\ thread' = Terminate(thread, w)
    BY <1>3 DEF IdleTimeout
  <2>2. /\ idleWorkers' \in Seq(Workers) /\ Injective(idleWorkers')
        /\ \A x : Contains(idleWorkers', x) <=> Contains(idleWorkers, x) /\ x # w
    BY <2>1, RemoveFirstProperties DEF Inv, PoolCore, Core, CoreTypes, CoreWorkers
  <2>3. /\ thread' \in [Workers -> ThreadStates]
        /\ \A u \in Workers \ {w} : thread'[u] = thread[u]
        /\ thread'[w] = "none" => thread[w] = "none"
    BY <2>1 DEF Terminate, ThreadStates, Inv, PoolCore, Core, CoreTypes
  <2>4. /\ IsFiniteSet(workers') /\ Cardinality(workers') \in Nat
        /\ Cardinality(workers') <= MaxWorkers
        /\ w \notin workers => workers' = workers
    <3>1. IsFiniteSet(workers) /\ Cardinality(workers) \in Nat /\ Cardinality(workers) <= MaxWorkers
      BY FS_CardinalityType DEF Inv, PoolCore, Core, CoreWorkers
    <3>2. /\ IsFiniteSet(workers')
          /\ Cardinality(workers') = IF w \in workers THEN Cardinality(workers) - 1 ELSE Cardinality(workers)
      BY <2>1, <3>1, FS_RemoveElement
    <3>3. IsFiniteSet(workers') /\ Cardinality(workers') \in Nat
      BY <3>2, FS_CardinalityType
    <3> QED BY <2>1, <3>1, <3>2, <3>3, MaxWorkersAssumption
  <2>5. CoreTypes(queue, idleWorkers, workers, idleTimers, currentTask, status, thread, outbox)'
    BY <1>1, <2>1, <2>2, <2>3 DEF Inv, PoolCore, Core, CoreTypes
  <2>6. CoreTasks(queue, currentTask, status)'
    BY <1>1 DEF Inv, PoolCore, Core, CoreTasks
  <2>7. CoreWorkers(queue, idleWorkers, workers, idleTimers, currentTask)'
    BY <1>1, <1>3, <2>1, <2>2, <2>4 DEF Inv, PoolCore, Core, CoreTypes, CoreWorkers
  <2>8. CoreThreads(workers, currentTask, thread, outbox)'
    BY <1>1, <1>3, <2>1, <2>3 DEF Inv, PoolCore, Core, CoreTypes, CoreThreads
  <2>9. WorkConserving'
    <3>1. w \in workers => ~(~closed /\ queue # <<>>)
      BY <1>3 DEF Inv, WorkConserving
    <3> QED BY <1>1, <2>1, <2>4, <3>1 DEF Inv, WorkConserving
  <2> QED BY <2>5, <2>6, <2>7, <2>8, <2>9 DEF Inv, PoolCore, Core
<1> QED BY <1>2, <1>3 DEF Inv, PoolCore, Core, CoreTypes

LEMMA CloseKeepsInv ==
  ASSUME Inv, Close
  PROVE  Inv'
<1>1. /\ closed' = TRUE /\ queue' = <<>> /\ idleWorkers' = <<>> /\ workers' = {}
      /\ UNCHANGED <<currentTask, taskWorker, inbox, outbox>>
      /\ idleTimers' = idleTimers \ workers
  BY DEF Close
<1>2. /\ <<>> \in Seq(Tasks) /\ <<>> \in Seq(Workers) /\ Len(<<>>) = 0
  OBVIOUS
<1>3. IsFiniteSet({}) /\ Cardinality({}) = 0 /\ 0 <= MaxWorkers
  BY FS_EmptySet, MaxWorkersAssumption
<1>4. /\ status' \in [Tasks -> {"new", "queued", "running"} \cup Outcomes]
      /\ \A t \in Tasks : status'[t] = IF status[t] = "queued" THEN "aborted" ELSE status[t]
  BY DEF Close, Settled, Outcomes, Inv, PoolCore, Core, CoreTypes, CoreTasks
<1>5. /\ thread' \in [Workers -> ThreadStates]
      /\ \A w \in Workers : \/ thread'[w] = thread[w]
                            \/ thread[w] = "up" /\ thread'[w] = "stopping"
  BY DEF Close, Terminate, ThreadStates, Inv, PoolCore, Core, CoreTypes
<1>6. CoreTypes(queue, idleWorkers, workers, idleTimers, currentTask, status, thread, outbox)'
  BY <1>1, <1>2, <1>4, <1>5 DEF Inv, PoolCore, Core, CoreTypes
<1>7. CoreTasks(queue, currentTask, status)'
  BY <1>1, <1>2, <1>4 DEF Inv, PoolCore, Core, CoreTasks, Injective, Contains
<1>8. CoreWorkers(queue, idleWorkers, workers, idleTimers, currentTask)'
  BY <1>1, <1>2, <1>3 DEF CoreWorkers, Injective, Contains
<1>9. CoreThreads(workers, currentTask, thread, outbox)'
  BY <1>1, <1>5 DEF Inv, PoolCore, Core, CoreThreads
<1>10. WorkConserving'
  BY <1>1, <1>3 DEF WorkConserving
<1> QED BY <1>6, <1>7, <1>8, <1>9, <1>10 DEF Inv, PoolCore, Core

LEMMA RunTaskRejectedKeepsInv ==
  ASSUME Inv, NEW t \in Tasks, RunTaskRejected(t)
  PROVE  Inv'
<1>1. /\ UNCHANGED <<queue, idleWorkers, workers, idleTimers, currentTask, taskWorker, closed, thread, inbox, outbox>>
      /\ status[t] = "new"
      /\ status' \in [Tasks -> {"new", "queued", "running"} \cup Outcomes]
      /\ status'[t] \in Outcomes
      /\ \A u \in Tasks \ {t} : status'[u] = status[u]
  BY DEF RunTaskRejected, threadVars, Outcomes, Inv, PoolCore, Core, CoreTypes
<1>2. CoreTasks(queue, currentTask, status)'
  BY <1>1 DEF Inv, PoolCore, Core, CoreTasks, Outcomes
<1>3. CoreTypes(queue, idleWorkers, workers, idleTimers, currentTask, status, thread, outbox)'
  BY <1>1 DEF Inv, PoolCore, Core, CoreTypes
<1> QED BY <1>1, <1>2, <1>3 DEF Inv, PoolCore, Core, CoreWorkers, CoreThreads, WorkConserving

LEMMA NextKeepsInv == Inv /\ [Next]_vars => Inv'
<1> SUFFICES ASSUME Inv, [Next]_vars PROVE Inv'
  OBVIOUS
<1>1. ASSUME NEW t \in Tasks,
             RunTask(t) \/ RunTaskRejected(t) \/ AbortQueued(t) \/ AbortRunning(t)
      PROVE  Inv'
  BY <1>1, RunTaskKeepsInv, RunTaskRejectedKeepsInv, AbortQueuedKeepsInv, AbortRunningKeepsInv
<1>2. ASSUME NEW w \in Workers,
             \/ HandleMessage(w) \/ IgnoreMessage(w) \/ HandleError(w)
             \/ HandleExit(w) \/ IdleTimeout(w) \/ Reply(w) \/ Crash(w)
      PROVE  Inv'
  BY <1>2, HandleMessageKeepsInv, HandleErrorKeepsInv, HandleExitKeepsInv,
     IdleTimeoutKeepsInv, ThreadStepKeepsInv
<1>3. CASE Close
  BY <1>3, CloseKeepsInv
<1>4. CASE UNCHANGED vars
  BY <1>4 DEF vars, mainVars, threadVars, Inv, PoolCore, Core, CoreTypes, CoreTasks,
              CoreWorkers, CoreThreads, WorkConserving
<1> QED BY <1>1, <1>2, <1>3, <1>4 DEF Next, MainNext, ThreadNext, Quiescent

LEMMA InvIsInvariant == Spec => []Inv
BY InitInv, NextKeepsInv, PTL DEF Spec

-----------------------------------------------------------------------------
(* What the invariant gives.                                               *)

LEMMA InvImplies ==
  ASSUME Inv
  PROVE  TypeOK /\ WorkConserving /\ Binding /\ IdleIsIdle /\ NoIdleLeak /\ NoTaskLost
<1> USE DEF Inv, PoolCore, Core
<1>1. TypeOK
  BY DEF TypeOK, CoreTypes
<1>2. Binding
  BY DEF Binding, Bound, CoreTasks, CoreWorkers
<1>3. IdleIsIdle
  BY DEF IdleIsIdle, CoreThreads
<1>4. NoIdleLeak
  BY DEF NoIdleLeak, CoreWorkers
<1>5. NoTaskLost
  <2>1. ASSUME NEW t \in Tasks, status[t] = "running"
        PROVE  thread[taskWorker[t]] \notin {"none", "gone"}
    BY <2>1, NullAssumption DEF CoreTasks, CoreThreads
  <2> QED BY <2>1 DEF NoTaskLost, CoreTasks, Injective
<1> QED BY <1>1, <1>2, <1>3, <1>4, <1>5

\* Every variable keeps its type.
THEOREM TypeCorrect == Spec => []TypeOK
BY InvIsInvariant, InvImplies, PTL

\* For every limit and every number of tasks: the limit is kept, and a task
\* waits only while all MaxWorkers workers have a task.
THEOREM PoolConservesWork == Spec => []WorkConserving
BY InvIsInvariant, InvImplies, PTL

\* A running task and its worker point at each other, and the worker counts
\* against the limit while the pool is open.
THEOREM PoolBinding == Spec => []Binding
BY InvIsInvariant, InvImplies, PTL

\* The pool never posts a task to a thread that is still computing another.
THEOREM PoolIdleIsIdle == Spec => []IdleIsIdle
BY InvIsInvariant, InvImplies, PTL

\* No idle worker is forgotten: it can be reused and will be reclaimed.
THEOREM PoolNoIdleLeak == Spec => []NoIdleLeak
BY InvIsInvariant, InvImplies, PTL

\* No queued task is dropped or doubled, no running one is left without a
\* thread that will settle it.
THEOREM PoolLosesNoTask == Spec => []NoTaskLost
BY InvIsInvariant, InvImplies, PTL

-----------------------------------------------------------------------------
(* terminate() and the tasks it ends.                                      *)

\* drain() starts threads and stops none.
LEMMA DrainStopsNoThread ==
  ASSUME NEW q, NEW il, NEW ws, NEW tm, NEW ct, NEW st, NEW th \in [Workers -> ThreadStates],
         Drain(q, il, ws, tm, ct, st, th)
  PROVE  \A w \in Workers : thread'[w] = "stopping" => th[w] = "stopping"
BY DEF Drain, ReuseIdle, CreateOrWait, HandOut, Rest

\* drain() settles no task and revives none.
LEMMA DrainKeepsOutcomes ==
  ASSUME NEW q \in Seq(Tasks), NEW il, NEW ws, NEW tm, NEW ct, NEW th,
         NEW st \in [Tasks -> {"new", "queued", "running"} \cup Outcomes],
         NEW t \in Tasks, st[t] \in Outcomes, ~Contains(q, t),
         Drain(q, il, ws, tm, ct, st, th)
  PROVE  status'[t] \in Outcomes
<1>1. q # <<>> => Head(q) \in Tasks /\ Head(q) # t
  BY HeadTailProperties DEF Contains
<1> QED BY <1>1 DEF Drain, ReuseIdle, CreateOrWait, HandOut, Rest

\* An idle timer, an abort, an error or an exit ends at most the thread of the
\* task it is about.
THEOREM PoolNoCollateralTermination == Spec => NoCollateralTermination
<1> DEFINE A == \A w \in Workers :
                  /\ thread[w] = "up" /\ thread'[w] = "stopping"
                  /\ ~closed'
                  /\ currentTask[w] # NoTask
                  => status'[currentTask[w]] \in Outcomes
<1>1. Inv /\ [Next]_vars => A
  <2> SUFFICES ASSUME Inv, [Next]_vars, NEW w \in Workers,
                      thread[w] = "up", thread'[w] = "stopping",
                      ~closed', currentTask[w] # NoTask
               PROVE  status'[currentTask[w]] \in Outcomes
    OBVIOUS
  <2> USE DEF Inv, PoolCore, Core, CoreTypes
  <2>1. CASE \E t \in Tasks : RunTask(t) \/ RunTaskRejected(t) \/ AbortQueued(t)
    BY <2>1, DrainStopsNoThread DEF RunTask, RunTaskRejected, AbortQueued, threadVars
  <2>2. ASSUME NEW t \in Tasks, AbortRunning(t) PROVE status'[currentTask[w]] \in Outcomes
    <3> DEFINE u == taskWorker[t]
               th == Terminate(thread, u)
               st == [status EXCEPT ![t] = "aborted"]
    <3>1. u \in Workers /\ currentTask[u] = t /\ ~Contains(queue, t)
      BY <2>2, NullAssumption DEF AbortRunning, Abortable, CoreTasks
    <3>2. th \in [Workers -> ThreadStates] /\ \A v \in Workers \ {u} : th[v] = thread[v]
      BY <3>1 DEF Terminate, ThreadStates
    <3>3. Drain(queue, RemoveFirst(idleWorkers, u), workers \ {u}, idleTimers,
                [currentTask EXCEPT ![u] = NoTask], st, th)
      BY <2>2 DEF AbortRunning
    <3>4. st \in [Tasks -> {"new", "queued", "running"} \cup Outcomes] /\ st[t] \in Outcomes
      BY DEF Outcomes
    <3> HIDE DEF u, th, st
    <3>5. w = u
      BY <3>2, <3>3, DrainStopsNoThread
    <3>6. status'[t] \in Outcomes
      BY <3>1, <3>3, <3>4, DrainKeepsOutcomes
    <3> QED BY <3>1, <3>5, <3>6
  <2>3. ASSUME NEW v \in Workers, HandleMessage(v) PROVE FALSE
    BY <2>3, DrainStopsNoThread DEF HandleMessage
  <2>4. ASSUME NEW v \in Workers, HandleError(v) PROVE FALSE
    <3> DEFINE th == [thread EXCEPT ![v] = "ended"]
    <3>1. th \in [Workers -> ThreadStates] /\ th[w] # "stopping"
      BY DEF ThreadStates
    <3>2. Drain(queue, idleWorkers, workers \ {v}, idleTimers,
                [currentTask EXCEPT ![v] = NoTask], RejectCurrent(v, "failed"), th)
      BY <2>4 DEF HandleError
    <3> HIDE DEF th
    <3> QED BY <3>1, <3>2, DrainStopsNoThread
  <2>5. ASSUME NEW v \in Workers, HandleExit(v) PROVE FALSE
    <3> DEFINE th == [thread EXCEPT ![v] = "gone"]
    <3>1. th \in [Workers -> ThreadStates] /\ th[w] # "stopping"
      BY DEF ThreadStates
    <3>2. Drain(queue, RemoveFirst(idleWorkers, v), workers \ {v}, idleTimers,
                [currentTask EXCEPT ![v] = NoTask], RejectCurrent(v, "aborted"), th)
      BY <2>5 DEF HandleExit
    <3> HIDE DEF th
    <3> QED BY <3>1, <3>2, DrainStopsNoThread
  <2>6. ASSUME NEW v \in Workers, IdleTimeout(v) PROVE FALSE
    BY <2>6 DEF IdleTimeout, Terminate
  <2>7. ASSUME NEW v \in Workers, IgnoreMessage(v) \/ Reply(v) \/ Crash(v) PROVE FALSE
    BY <2>7 DEF IgnoreMessage, Reply, Crash
  <2>8. CASE Close
    BY <2>8 DEF Close
  <2>9. CASE UNCHANGED vars
    BY <2>9 DEF vars, threadVars
  <2> QED BY <2>1, <2>2, <2>3, <2>4, <2>5, <2>6, <2>7, <2>8, <2>9
          DEF Next, MainNext, ThreadNext, Quiescent
<1>2. [][Inv /\ [Next]_vars => A]_vars
  BY <1>1, PTL
<1> QED BY <1>1, InvIsInvariant, PTL DEF Spec, NoCollateralTermination

-----------------------------------------------------------------------------
(* The pool implements the executor.                                       *)

\* The executor's instance has its own copies of library operators.
LEMMA SameCardinality ==
  ASSUME NEW S
  PROVE  Executor!Cardinality(S) = Cardinality(S)
BY DEF Executor!Cardinality, Cardinality

\* The workers with a task.
Busy == {w \in Workers : currentTask[w] # NoTask}

\* While the pool is open, as many tasks run as workers are busy, and all of
\* these count.
LEMMA RunningIsBusy ==
  ASSUME Inv, ~closed
  PROVE  /\ IsFiniteSet(workers) /\ Cardinality(workers) \in Nat /\ Cardinality(workers) <= MaxWorkers
         /\ Busy \subseteq workers
         /\ IsFiniteSet(Busy) /\ Cardinality(Busy) = Cardinality(Executor!Running)
<1>1. IsFiniteSet(workers) /\ Cardinality(workers) <= MaxWorkers /\ Cardinality(workers) \in Nat
  BY FS_CardinalityType DEF Inv, PoolCore, Core, CoreWorkers
<1>2. Busy \subseteq workers
  BY DEF Busy, Inv, PoolCore, Core, CoreWorkers
<1>3. IsFiniteSet(Busy)
  BY <1>1, <1>2, FS_Subset
<1> DEFINE run == Executor!Running
           f == [w \in Busy |-> currentTask[w]]
<1>4. \A w \in Busy : currentTask[w] \in run
  BY DEF Busy, Executor!Running, Inv, PoolCore, Core, CoreTypes, CoreTasks
<1>5. \A v, w \in Busy : currentTask[v] = currentTask[w] => v = w
  BY DEF Busy, Inv, PoolCore, Core, CoreTasks
<1>6. \A t \in run : \E w \in Busy : currentTask[w] = t
  BY NullAssumption DEF Busy, Executor!Running, Inv, PoolCore, Core, CoreTasks
<1> HIDE DEF run
<1>7. f \in Bijection(Busy, run)
  BY <1>4, <1>5, <1>6 DEF Bijection, Injection, Surjection, IsInjective
<1>8. ExistsBijection(Busy, run)
  BY <1>7 DEF ExistsBijection
<1>9. Cardinality(run) = Cardinality(Busy)
  BY <1>3, <1>8, FS_Bijection
<1> QED
  BY <1>1, <1>2, <1>3, <1>9 DEF run

\* What drain() has done to the queue and the tasks, and why.
LEMMA DrainOutcome ==
  ASSUME NEW q, NEW il, NEW ws, NEW tm, NEW ct, NEW st, NEW th,
         Drain(q, il, ws, tm, ct, st, th)
  PROVE  \/ /\ closed \/ q = <<>>
            /\ queue' = q /\ status' = st
         \/ /\ ~closed /\ q # <<>>
            /\ queue' = Tail(q) /\ status' = [st EXCEPT ![Head(q)] = "running"]
            /\ Cardinality(ws) < MaxWorkers \/ \E w \in ws : ct[w] = NoTask
         \/ /\ ~closed /\ q # <<>>
            /\ queue' = q /\ status' = st
            /\ Cardinality(ws) >= MaxWorkers
            /\ \A k \in 1..Len(il) : ~Available(il[k], ws, ct)
<1>1. CASE closed \/ q = <<>>
  BY <1>1 DEF Drain, Rest
<1>2. CASE ~closed /\ q # <<>> /\ ReuseIdle(q, il, ws, tm, ct, st, th)
  BY <1>2 DEF ReuseIdle, HandOut, Available
<1>3. CASE ~closed /\ q # <<>> /\ CreateOrWait(q, il, ws, tm, ct, st, th)
  BY <1>3 DEF CreateOrWait, HandOut, Rest
<1> QED
  BY <1>1, <1>2, <1>3 DEF Drain

LEMMA RunTaskRefines ==
  ASSUME Inv, NEW t \in Tasks, RunTask(t)
  PROVE  Executor!Start(t) \/ Executor!Wait(t)
<1> DEFINE q == Append(queue, t)
           st == [status EXCEPT ![t] = "queued"]
           run == Executor!Running
<1>1. /\ status[t] = "new" /\ ~closed /\ closed' = closed
      /\ Drain(q, idleWorkers, workers, idleTimers, currentTask, st, thread)
  BY DEF RunTask
<1>2. queue \in Seq(Tasks) /\ status \in [Tasks -> {"new", "queued", "running"} \cup Outcomes]
  BY DEF Inv, PoolCore, Core, CoreTypes
<1>3. /\ q \in Seq(Tasks) /\ q # <<>> /\ Len(q) = Len(queue) + 1
      /\ q[Len(queue)+1] = t /\ \A i \in 1..Len(queue) : q[i] = queue[i]
  BY <1>2, AppendProperties
<1>4. /\ IsFiniteSet(workers) /\ Cardinality(workers) \in Nat /\ Cardinality(workers) <= MaxWorkers
      /\ Busy \subseteq workers /\ IsFiniteSet(Busy) /\ Cardinality(Busy) = Cardinality(run)
  BY <1>1, RunningIsBusy
<1> HIDE DEF run
<1>5. CASE /\ queue' = Tail(q) /\ status' = [st EXCEPT ![Head(q)] = "running"]
           /\ Cardinality(workers) < MaxWorkers \/ \E w \in workers : currentTask[w] = NoTask
  <2>1. queue = <<>>
    BY <1>1, <1>5, MaxWorkersAssumption DEF Inv, WorkConserving
  <2>2. q = <<t>> /\ Head(q) = t /\ Tail(q) = <<>>
    BY <2>1
  <2>3. status' = [status EXCEPT ![t] = "running"]
    BY <1>2, <1>5, <2>2
  <2>4. Cardinality(Busy) < MaxWorkers
    <3>1. CASE Cardinality(workers) < MaxWorkers
      <4>1. Cardinality(Busy) <= Cardinality(workers) /\ Cardinality(Busy) \in Nat
        BY <1>4, FS_Subset, FS_CardinalityType
      <4> QED
        BY <1>4, <3>1, <4>1, MaxWorkersAssumption
    <3>2. CASE \E w \in workers : currentTask[w] = NoTask
      <4>1. PICK w \in workers : w \notin Busy
        BY <3>2 DEF Busy
      <4> DEFINE others == workers \ {w}
      <4>2. IsFiniteSet(others) /\ Cardinality(others) = Cardinality(workers) - 1 /\ Busy \subseteq others
        BY <1>4, <4>1, FS_RemoveElement
      <4> HIDE DEF others
      <4>3. Cardinality(Busy) <= Cardinality(others) /\ Cardinality(Busy) \in Nat
        BY <1>4, <4>2, FS_Subset, FS_CardinalityType
      <4> QED
        BY <1>4, <4>2, <4>3, MaxWorkersAssumption
    <3> QED
      BY <1>5, <3>1, <3>2
  <2> QED
    BY <1>1, <1>4, <1>5, <2>1, <2>2, <2>3, <2>4, SameCardinality DEF Executor!Start, run
<1>6. CASE /\ queue' = q /\ status' = st
           /\ Cardinality(workers) >= MaxWorkers
           /\ \A k \in 1..Len(idleWorkers) : ~Available(idleWorkers[k], workers, currentTask)
  <2>1. Cardinality(workers) = MaxWorkers
    BY <1>4, <1>6, MaxWorkersAssumption
  <2>2. workers \subseteq Busy
    BY <1>6 DEF Busy, Available, Contains, Inv, PoolCore, Core, CoreTypes, CoreWorkers
  <2>3. Busy = workers
    BY <1>4, <2>2
  <2> QED
    BY <1>1, <1>4, <1>6, <2>1, <2>3, SameCardinality DEF Executor!Wait, run
<1> HIDE DEF q, st
<1> QED
  BY <1>1, <1>3, <1>5, <1>6, DrainOutcome

\* A slot that is freed goes to the head of the line at once.
LEMMA SettleRefines ==
  ASSUME Inv, NEW t \in Tasks, status[t] = "running", NEW o,
         NEW il, NEW ws, NEW tm, NEW ct, NEW th,
         Drain(queue, il, ws, tm, ct, [status EXCEPT ![t] = o], th), closed' = closed,
         Cardinality(ws) \in Nat,
         ~closed /\ queue # <<>> =>
            \/ Cardinality(ws) < MaxWorkers
            \/ \E k \in 1..Len(il) : Available(il[k], ws, ct)
  PROVE  Executor!Settle(t, o)
<1> DEFINE st == [status EXCEPT ![t] = o]
<1>1. queue \in Seq(Tasks) /\ status \in [Tasks -> {"new", "queued", "running"} \cup Outcomes]
  BY DEF Inv, PoolCore, Core, CoreTypes
<1>2. closed \in BOOLEAN /\ (closed => queue = <<>>)
  BY DEF Inv, PoolCore, Core, CoreTypes, CoreWorkers
<1>3. CASE closed \/ queue = <<>>
  <2>1. queue = <<>> /\ queue' = queue /\ status' = [status EXCEPT ![t] = o]
    BY <1>2, <1>3 DEF Drain, Rest
  <2> QED
    BY <2>1 DEF Executor!Settle
<1>4. CASE ~closed /\ queue # <<>>
  <2>1. ~(Cardinality(ws) >= MaxWorkers /\ \A k \in 1..Len(il) : ~Available(il[k], ws, ct))
    BY <1>4, MaxWorkersAssumption
  <2>2. queue' = Tail(queue) /\ status' = [st EXCEPT ![Head(queue)] = "running"]
    <3> HIDE DEF st
    <3>1. Drain(queue, il, ws, tm, ct, st, th)
      BY DEF st
    <3> QED
      BY <1>4, <2>1, <3>1, DrainOutcome
  <2>3. status' = [status EXCEPT ![t] = o, ![Head(queue)] = "running"]
    BY <2>2
  <2> QED
    BY <1>4, <2>2, <2>3 DEF Executor!Settle
<1> QED
  BY <1>2, <1>3, <1>4

\* The conditions of SettleRefines when worker w goes away.
LEMMA WithoutWorker ==
  ASSUME Inv, NEW w \in Workers, currentTask[w] # NoTask
  PROVE  /\ Cardinality(workers \ {w}) \in Nat
         /\ ~closed => Cardinality(workers \ {w}) < MaxWorkers
         /\ currentTask[w] \in Tasks /\ status[currentTask[w]] = "running"
         /\ taskWorker[currentTask[w]] = w
<1>1. currentTask[w] \in Tasks /\ status[currentTask[w]] = "running" /\ taskWorker[currentTask[w]] = w
  BY DEF Inv, PoolCore, Core, CoreTypes, CoreTasks
<1>2. /\ IsFiniteSet(workers) /\ Cardinality(workers) \in Nat /\ Cardinality(workers) <= MaxWorkers
      /\ ~closed => w \in workers
  BY FS_CardinalityType DEF Inv, PoolCore, Core, CoreWorkers
<1> DEFINE others == workers \ {w}
<1>3. /\ IsFiniteSet(others)
      /\ Cardinality(others) = IF w \in workers THEN Cardinality(workers) - 1 ELSE Cardinality(workers)
  BY <1>2, FS_RemoveElement
<1> HIDE DEF others
<1>4. Cardinality(others) \in Nat
  BY <1>3, FS_CardinalityType
<1>5. ~closed => Cardinality(others) < MaxWorkers
  BY <1>2, <1>3, <1>4, MaxWorkersAssumption
<1> QED
  BY <1>1, <1>4, <1>5 DEF others

\* A worker without a task makes no difference to the tasks when it goes.
LEMMA IdleLoss ==
  ASSUME Inv, NEW w \in Workers, currentTask[w] = NoTask, NEW il, NEW tm, NEW th,
         il = idleWorkers \/ il = RemoveFirst(idleWorkers, w),
         Drain(queue, il, workers \ {w}, tm, [currentTask EXCEPT ![w] = NoTask], status, th)
  PROVE  queue' = queue /\ status' = status
<1> DEFINE ws == workers \ {w}
           ct == [currentTask EXCEPT ![w] = NoTask]
<1>1. CASE closed \/ queue = <<>>
  BY <1>1 DEF Drain, Rest
<1>2. CASE ~closed /\ queue # <<>>
  <2>1. Cardinality(workers) = MaxWorkers /\ \A u \in workers : currentTask[u] # NoTask
    BY <1>2 DEF Inv, WorkConserving
  <2>2. ws = workers /\ ct = currentTask
    BY <2>1 DEF Inv, PoolCore, Core, CoreTypes
  <2>3. Drain(queue, il, workers, tm, currentTask, status, th)
    BY <2>2
  <2>4. ~(Cardinality(workers) < MaxWorkers \/ \E u \in workers : currentTask[u] = NoTask)
    BY <2>1, MaxWorkersAssumption
  <2> QED
    BY <1>2, <2>3, <2>4, DrainOutcome
<1> QED
  BY <1>1, <1>2

LEMMA LossRefines ==
  ASSUME Inv, NEW w \in Workers, NEW o \in {"failed", "aborted"}, NEW il, NEW tm, NEW th,
         il = idleWorkers \/ il = RemoveFirst(idleWorkers, w),
         Drain(queue, il, workers \ {w}, tm, [currentTask EXCEPT ![w] = NoTask],
               RejectCurrent(w, o), th),
         closed' = closed
  PROVE  (\E t \in Tasks : Executor!Settle(t, o)) \/ UNCHANGED Executor!vars
<1>1. CASE currentTask[w] = NoTask
  <2>1. RejectCurrent(w, o) = status
    BY <1>1 DEF RejectCurrent
  <2> QED
    BY <1>1, <2>1, IdleLoss DEF Executor!vars
<1>2. CASE currentTask[w] # NoTask
  <2> DEFINE t == currentTask[w]
             ct == [currentTask EXCEPT ![w] = NoTask]
             ws == workers \ {w}
  <2>1. /\ t \in Tasks /\ status[t] = "running" /\ Cardinality(ws) \in Nat
        /\ ~closed => Cardinality(ws) < MaxWorkers
    BY <1>2, WithoutWorker
  <2>2. RejectCurrent(w, o) = [status EXCEPT ![t] = o]
    BY <1>2, <2>1 DEF RejectCurrent, Settled, Outcomes
  <2>3. Drain(queue, il, ws, tm, ct, [status EXCEPT ![t] = o], th)
    BY <2>2
  <2> HIDE DEF t, ct, ws
  <2>4. Executor!Settle(t, o)
    BY <2>1, <2>3, SettleRefines
  <2> QED
    BY <2>1, <2>4
<1> QED
  BY <1>1, <1>2

LEMMA AbortRunningRefines ==
  ASSUME Inv, NEW t \in Tasks, AbortRunning(t)
  PROVE  Executor!Cancel(t)
<1> DEFINE w == taskWorker[t]
           ct == [currentTask EXCEPT ![w] = NoTask]
           ws == workers \ {w}
           il == RemoveFirst(idleWorkers, w)
           th == Terminate(thread, w)
<1>1. /\ status[t] = "running" /\ closed' = closed
      /\ Drain(queue, il, ws, idleTimers, ct, [status EXCEPT ![t] = "aborted"], th)
  BY DEF AbortRunning, Abortable
<1>2. w \in Workers /\ currentTask[w] = t
  BY <1>1, NullAssumption DEF Inv, PoolCore, Core, CoreTypes, CoreTasks
<1>3. Cardinality(ws) \in Nat /\ (~closed => Cardinality(ws) < MaxWorkers)
  BY <1>2, NullAssumption, WithoutWorker
<1> HIDE DEF w, ct, ws, il, th
<1> QED
  BY <1>1, <1>3, SettleRefines DEF Executor!Cancel

LEMMA HandleMessageRefines ==
  ASSUME Inv, NEW w \in Workers, HandleMessage(w)
  PROVE  \E t \in Tasks : Executor!Finish(t)
<1> DEFINE t == currentTask[w]
           o == IF outbox[w].ok THEN "resolved" ELSE "failed"
           ct == [currentTask EXCEPT ![w] = NoTask]
           il == IF closed THEN idleWorkers ELSE Append(idleWorkers, w)
           tm == IF closed THEN idleTimers ELSE ArmTimer(w)
<1>1. /\ t # NoTask /\ closed' = closed
      /\ Drain(queue, il, workers, tm, ct, [status EXCEPT ![t] = o], thread)
  BY DEF HandleMessage
<1>2. t \in Tasks /\ status[t] = "running"
  BY <1>1, WithoutWorker
<1>3. Cardinality(workers) \in Nat
  BY FS_CardinalityType DEF Inv, PoolCore, Core, CoreWorkers
<1>4. ~closed => \E k \in 1..Len(il) : Available(il[k], workers, ct)
  <2>1. SUFFICES ASSUME ~closed PROVE \E k \in 1..Len(il) : Available(il[k], workers, ct)
    OBVIOUS
  <2>2. w \in workers /\ ct[w] = NoTask /\ idleWorkers \in Seq(Workers)
    BY <1>1, <2>1 DEF Inv, PoolCore, Core, CoreTypes, CoreWorkers
  <2>3. Len(il) \in 1..Len(il) /\ il[Len(il)] = w
    BY <2>1, <2>2, AppendProperties
  <2> QED
    BY <2>2, <2>3 DEF Available
<1> HIDE DEF t, ct, il, tm, o
<1>5. Executor!Settle(t, o)
  BY <1>1, <1>2, <1>3, <1>4, SettleRefines
<1>6. o \in {"resolved", "failed"}
  BY DEF o
<1> QED
  BY <1>2, <1>5, <1>6 DEF Executor!Finish

LEMMA CloseRefines ==
  ASSUME Inv, Close
  PROVE  Executor!Shut
<1>1. \A t \in Tasks : Contains(queue, t) /\ ~Settled(t) <=> status[t] = "queued"
  BY DEF Settled, Outcomes, Inv, PoolCore, Core, CoreTasks
<1>2. status' = [t \in Tasks |-> IF status[t] = "queued" THEN "aborted" ELSE status[t]]
  BY <1>1 DEF Close
<1> QED
  BY <1>2 DEF Close, Executor!Shut

LEMMA AbortQueuedRefines ==
  ASSUME NEW t \in Tasks, AbortQueued(t)
  PROVE  Executor!Withdraw(t)
BY DEF AbortQueued, Executor!Withdraw, RemoveFirst, Executor!RemoveFirst, SelectInSeq,
       Executor!SelectInSeq, RemoveAt, Executor!RemoveAt, Min, Executor!Min

LEMMA StepRefines ==
  ASSUME Inv, [Next]_vars
  PROVE  [Executor!Next]_(Executor!vars)
<1>1. ASSUME NEW t \in Tasks, RunTask(t) PROVE Executor!Next
  BY <1>1, RunTaskRefines DEF Executor!Next
<1>2. ASSUME NEW t \in Tasks, RunTaskRejected(t) PROVE Executor!Refuse(t)
  BY <1>2 DEF RunTaskRejected, Executor!Refuse, Inv, PoolCore, Core, CoreTypes
<1>3. ASSUME NEW t \in Tasks, AbortQueued(t) PROVE Executor!Next
  BY <1>3, AbortQueuedRefines DEF Executor!Next
<1>4. ASSUME NEW t \in Tasks, AbortRunning(t) PROVE Executor!Next
  BY <1>4, AbortRunningRefines DEF Executor!Next
<1>5. ASSUME NEW w \in Workers, HandleMessage(w) PROVE Executor!Next
  BY <1>5, HandleMessageRefines DEF Executor!Next
<1>6. ASSUME NEW w \in Workers, HandleError(w) PROVE Executor!Next \/ UNCHANGED Executor!vars
  <2>1. (\E t \in Tasks : Executor!Settle(t, "failed")) \/ UNCHANGED Executor!vars
    BY <1>6, LossRefines DEF HandleError
  <2> QED
    BY <2>1 DEF Executor!Next, Executor!Finish
<1>7. ASSUME NEW w \in Workers, HandleExit(w) PROVE Executor!Next \/ UNCHANGED Executor!vars
  <2>1. (\E t \in Tasks : Executor!Settle(t, "aborted")) \/ UNCHANGED Executor!vars
    BY <1>7, LossRefines DEF HandleExit
  <2> QED
    BY <2>1 DEF Executor!Next, Executor!Cancel
<1>8. CASE Close
  BY <1>8, CloseRefines DEF Executor!Next
<1>9. ASSUME NEW w \in Workers, IgnoreMessage(w) \/ IdleTimeout(w) \/ Reply(w) \/ Crash(w)
      PROVE  UNCHANGED Executor!vars
  BY <1>9 DEF IgnoreMessage, IdleTimeout, Reply, Crash, mainVars, Executor!vars
<1>10. CASE UNCHANGED vars
  BY <1>10 DEF vars, mainVars, Executor!vars
<1> QED
  BY <1>1, <1>2, <1>3, <1>4, <1>5, <1>6, <1>7, <1>8, <1>9, <1>10
  DEF Next, MainNext, ThreadNext, Quiescent, Executor!Next

\* Whatever dies, times out or races, for any number of tasks, workers and slots:
\* the pool does what the bounded executor does, so that what is shown of the
\* content cache over the executor holds over the pool.
THEOREM PoolImplementsExecutor == Spec => ImplementsExecutor
<1>1. Init => Executor!Init
  BY DEF Init, Executor!Init
<1> QED
  BY <1>1, StepRefines, InvIsInvariant, PTL DEF Spec, ImplementsExecutor, Executor!Spec
=============================================================================
