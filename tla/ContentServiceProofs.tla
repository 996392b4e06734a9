-------------------------- MODULE ContentServiceProofs -------------------------
(***************************************************************************)
(* Proofs about the content service: two parts about ContentCache, and one *)
(* about ChunkBounds.                                                      *)
(*                                                                         *)
(* The first is about the loads: each is wanted, each can be joined, and   *)
(* no reply is older than its request.  That does not depend on what the   *)
(* cache holds, so its invariant CacheInv leaves the cache out.  Queue     *)
(* says what is in the pool's line, Tied that a waiting request and a      *)
(* registered key have a load, and Current that a registered load is as    *)
(* new as its file, until somebody else changes that.                      *)
(*                                                                         *)
(* The second is about the cache: its counter of bytes, its limits, and    *)
(* what a hit yields.  Its invariant Contents is inductive under CacheInv. *)
(* Listed says that no two entries have the same key and that the counter  *)
(* is their sum.  Good is what keeps hits exact: a text and its bounds are *)
(* between the signature they bear and the file's version now, so that an  *)
(* entry of the file's signature now is the text of the file now; an edit  *)
(* only makes that interval longer.  Bytes is a fold over the entries; its *)
(* laws come first.                                                        *)
(*                                                                         *)
(* The third is about the chunks of a text: EndToEnd says that they lie    *)
(* end to end, AllWellCut that each has the right size and ends a line.    *)
(***************************************************************************)
EXTENDS ContentCache, SequenceLemmas, FiniteSetTheorems, TLAPS

Index == [sig : Nat, bounds : Nat]
Record == [key : Keys, sig : Nat, known : Nat \cup {None}, read : Nat \cup {None}, waiters : Nat]

Shape ==
  /\ version \in [Files -> Nat] /\ foreign \in [Files -> Nat]
  /\ index \in [Keys -> Index \cup {None}] /\ dirty \in [Keys -> Index \cup {None}]
  /\ inflight \in [Keys -> Requests \cup {None}]
  /\ load \in [Requests -> Record \cup {None}]
  /\ waits \in [Requests -> Requests \cup {None}]
  /\ asked \in [Requests -> Nat \cup {None}]
  /\ status \in [Requests -> {"new", "waiting", "served", "failed", "aborted"}]
  /\ phase \in [Requests -> {"new", "queued", "running"} \cup Pool!Outcomes]

Queue ==
  /\ line \in Seq(Requests)
  /\ Injective(line)
  /\ \A r \in Requests : Contains(line, r) => phase[r] = "queued"

Active(r) == phase[r] \in {"queued", "running"}
Waiting(r) == {q \in Requests : waits[q] = r}

Tied ==
  /\ \A q \in Requests : status[q] = "waiting" <=> waits[q] # None
  /\ \A k \in Keys : inflight[k] # None => load[inflight[k]] # None /\ load[inflight[k]].key = k

Wanted ==
  \A r \in Requests :
    IF Active(r)
    THEN load[r] # None /\ load[r].waiters = Cardinality(Waiting(r)) /\ Waiting(r) # {}
    ELSE load[r] = None /\ Waiting(r) = {}

\* The text a load has read or will read is not older than version v of its file.
NotOlder(l, v) == l.sig >= v /\ (l.read # None => l.read >= v)

Current ==
  /\ \A r \in Requests :
       load[r] # None => /\ load[r].sig <= version[FileOf[load[r].key]]
                         /\ load[r].read # None => load[r].read >= load[r].sig
  /\ \A k \in Keys :
       inflight[k] # None /\ foreign[FileOf[k]] = 0 => load[inflight[k]].sig = version[FileOf[k]]
  /\ \A q \in Requests :
       waits[q] # None
         => /\ asked[q] \in Nat /\ asked[q] <= version[FileOf[load[waits[q]].key]]
            /\ foreign[FileOf[load[waits[q]].key]] = 0 => NotOlder(load[waits[q]], asked[q])

CacheInv == Shape /\ Queue /\ Tied /\ Wanted /\ Current

-----------------------------------------------------------------------------
(* The pool.                                                               *)

\* r starts to be worked for, and nothing else changes.
Begun(r) ==
  /\ ~Active(r)
  /\ Active(r)'
  /\ \A x \in Requests \ {r} : phase'[x] = phase[x]

\* The tasks in `ended` end, and no other one begins or ends.
Ended(ended) ==
  \A x \in Requests : Active(x)' <=> Active(x) /\ x \notin ended

PhaseType == phase \in [Requests -> {"new", "queued", "running"} \cup Pool!Outcomes]

LEMMA PoolBegins ==
  ASSUME PhaseType, Queue, NEW r \in Requests, Pool!Start(r) \/ Pool!Wait(r)
  PROVE  PhaseType' /\ Queue' /\ Begun(r)
<1>1. CASE Pool!Start(r)
  <2>1. phase[r] = "new" /\ phase' = [phase EXCEPT ![r] = "running"] /\ line' = line
    BY <1>1 DEF Pool!Start
  <2> QED
    BY <2>1 DEF PhaseType, Queue, Begun, Active
<1>2. CASE Pool!Wait(r)
  <2>1. phase[r] = "new" /\ phase' = [phase EXCEPT ![r] = "queued"] /\ line' = Append(line, r)
    BY <1>2 DEF Pool!Wait
  <2>2. ~Contains(line, r)
    BY <2>1 DEF Queue
  <2>3. /\ Append(line, r) \in Seq(Requests) /\ Len(Append(line, r)) = Len(line) + 1
        /\ \A i \in 1..Len(line) + 1 : Append(line, r)[i] = IF i <= Len(line) THEN line[i] ELSE r
    BY DEF Queue
  <2>4. Injective(Append(line, r))
    BY <2>2, <2>3 DEF Injective, Contains, Queue
  <2>5. \A x \in Requests : Contains(Append(line, r), x) => Contains(line, x) \/ x = r
    BY <2>3 DEF Contains, Queue
  <2> QED
    BY <2>1, <2>3, <2>4, <2>5 DEF PhaseType, Queue, Begun, Active
<1> QED
  BY <1>1, <1>2

LEMMA PoolSettles ==
  ASSUME PhaseType, Queue, NEW r \in Requests, NEW o \in Pool!Outcomes, Pool!Settle(r, o)
  PROVE  PhaseType' /\ Queue' /\ Ended({r})
<1>1. phase[r] = "running" /\ o \notin {"queued", "running"}
  BY DEF Pool!Settle, Pool!Outcomes
<1>2. CASE line = <<>>
  <2>1. phase' = [phase EXCEPT ![r] = o] /\ line' = line
    BY <1>2 DEF Pool!Settle
  <2> QED
    BY <1>1, <1>2, <2>1 DEF PhaseType, Queue, Ended, Active, Contains, Injective
<1>3. CASE line # <<>>
  <2> DEFINE h == line[1]
  <2>1. Head(line) = h /\ Len(line) \in Nat \ {0} /\ h \in Requests
    BY <1>3 DEF Queue
  <2>2. phase' = [phase EXCEPT ![r] = o, ![h] = "running"] /\ line' = Tail(line)
    BY <1>3, <2>1 DEF Pool!Settle
  <2>3. phase[h] = "queued" /\ h # r
    BY <1>1, <2>1 DEF Queue, Contains
  <2>4. /\ Tail(line) \in Seq(Requests) /\ Len(Tail(line)) = Len(line) - 1
        /\ \A i \in 1..Len(line)-1 : Tail(line)[i] = line[i+1]
    BY <1>3 DEF Queue
  <2>5. Injective(Tail(line))
    BY <2>1, <2>4 DEF Injective, Queue
  <2>6. \A x \in Requests : Contains(Tail(line), x) => Contains(line, x) /\ x # h
    BY <2>1, <2>4 DEF Contains, Injective, Queue
  <2>7. \A x \in Requests : phase'[x] = IF x = h THEN "running" ELSE IF x = r THEN o ELSE phase[x]
    BY <2>1, <2>2 DEF PhaseType
  <2>8. PhaseType'
    BY <2>1, <2>2 DEF PhaseType, Pool!Outcomes
  <2>9. Queue'
    BY <1>1, <2>2, <2>4, <2>5, <2>6, <2>7 DEF Queue
  <2>10. Ended({r})
    BY <1>1, <2>3, <2>7 DEF Ended, Active
  <2> QED
    BY <2>8, <2>9, <2>10
<1> QED
  BY <1>2, <1>3

LEMMA PoolWithdraws ==
  ASSUME PhaseType, Queue, NEW r \in Requests, Pool!Withdraw(r)
  PROVE  PhaseType' /\ Queue' /\ Ended({r})
<1>1. phase[r] = "queued" /\ phase' = [phase EXCEPT ![r] = "aborted"] /\ line' = RemoveFirst(line, r)
  BY DEF Pool!Withdraw, Pool!RemoveFirst, RemoveFirst, Pool!SelectInSeq, SelectInSeq, Pool!RemoveAt, RemoveAt, Pool!Min, Min
<1>2. /\ RemoveFirst(line, r) \in Seq(Requests) /\ Injective(RemoveFirst(line, r))
      /\ \A x : Contains(RemoveFirst(line, r), x) <=> Contains(line, x) /\ x # r
  BY RemoveFirstProperties DEF Queue
<1> QED
  BY <1>1, <1>2 DEF PhaseType, Queue, Ended, Active, Pool!Outcomes

LEMMA PoolShuts ==
  ASSUME PhaseType, Queue, Pool!Shut
  PROVE  PhaseType' /\ Queue' /\ Ended({r \in Requests : phase[r] = "queued"})
BY DEF Pool!Shut, PhaseType, Queue, Ended, Active, Pool!Outcomes, Contains, Injective

LEMMA PoolRefuses ==
  ASSUME PhaseType, Queue, NEW r \in Requests, Pool!Refuse(r)
  PROVE  PhaseType' /\ Queue' /\ Ended({})
BY DEF Pool!Refuse, PhaseType, Queue, Ended, Active, Pool!Outcomes

LEMMA PoolRests ==
  ASSUME PhaseType, Queue, UNCHANGED poolVars
  PROVE  PhaseType' /\ Queue' /\ Ended({})
BY DEF poolVars, PhaseType, Queue, Ended, Active

-----------------------------------------------------------------------------
(* Loads that end, and requests that begin.                                *)

IndexType == index \in [Keys -> Index \cup {None}] /\ dirty \in [Keys -> Index \cup {None}]

LEMMA LoadsEnd ==
  ASSUME CacheInv, NEW settled \in SUBSET Requests, NEW st \in {"served", "failed", "aborted"},
         SettleLoads(settled, st), Ended(settled), PhaseType', Queue', IndexType',
         UNCHANGED fileVars
  PROVE  CacheInv'
<1>1. /\ load' = [r \in Requests |-> IF r \in settled THEN None ELSE load[r]]
      /\ inflight' = [k \in Keys |-> IF inflight[k] \in settled THEN None ELSE inflight[k]]
      /\ status' = [q \in Requests |-> IF waits[q] \in settled THEN st ELSE status[q]]
      /\ waits' = [q \in Requests |-> IF waits[q] \in settled THEN None ELSE waits[q]]
      /\ asked' = [q \in Requests |-> IF waits[q] \in settled THEN None ELSE asked[q]]
      /\ version' = version /\ foreign' = foreign
  BY DEF SettleLoads, Deregister, fileVars
<1>2. Shape'
  BY <1>1 DEF CacheInv, Shape, PhaseType, IndexType
<1>3. \A r \in Requests : Waiting(r)' = IF r \in settled THEN {} ELSE Waiting(r)
  BY <1>1, NoneAssumption DEF Waiting
<1>4. Tied'
  BY <1>1, NoneAssumption DEF CacheInv, Tied, Shape
<1>5. Wanted'
  BY <1>1, <1>3 DEF CacheInv, Wanted, Ended
<1>6. Current'
  <2>1. ASSUME NEW r \in Requests, load'[r] # None
        PROVE  /\ load'[r].sig <= version'[FileOf[load'[r].key]]
               /\ load'[r].read # None => load'[r].read >= load'[r].sig
    BY <1>1, <2>1 DEF CacheInv, Current
  <2>2. ASSUME NEW k \in Keys, inflight'[k] # None, foreign'[FileOf[k]] = 0
        PROVE  load'[inflight'[k]].sig = version'[FileOf[k]]
    BY <1>1, <2>2 DEF CacheInv, Current, Shape
  <2>3. ASSUME NEW q \in Requests, waits'[q] # None
        PROVE  /\ asked'[q] \in Nat /\ asked'[q] <= version'[FileOf[load'[waits'[q]].key]]
               /\ foreign'[FileOf[load'[waits'[q]].key]] = 0 => NotOlder(load'[waits'[q]], asked'[q])
    <3>1. waits'[q] = waits[q] /\ asked'[q] = asked[q] /\ load'[waits'[q]] = load[waits[q]]
      BY <1>1, <2>3 DEF CacheInv, Shape
    <3> QED
      BY <1>1, <2>3, <3>1 DEF CacheInv, Current
  <2> QED
    BY <2>1, <2>2, <2>3 DEF Current, NotOlder
<1> QED
  BY <1>2, <1>4, <1>5, <1>6 DEF CacheInv

\* A step that leaves the loads and who waits for them alone.
LEMMA LoadsRest ==
  ASSUME CacheInv, UNCHANGED <<fileVars, loadVars, waits, asked>>, Ended({}),
         PhaseType', Queue', IndexType',
         status' \in [Requests -> {"new", "waiting", "served", "failed", "aborted"}],
         \A q \in Requests : status'[q] = "waiting" <=> status[q] = "waiting"
  PROVE  CacheInv'
<1> USE DEF fileVars, loadVars
<1>1. Shape'
  BY DEF CacheInv, Shape, PhaseType, IndexType
<1>2. Tied'
  BY DEF CacheInv, Tied
<1>3. Wanted'
  BY DEF CacheInv, Wanted, Ended, Waiting
<1>4. Current'
  BY DEF CacheInv, Current, NotOlder
<1> QED
  BY <1>1, <1>2, <1>3, <1>4 DEF CacheInv

LEMMA WaitingIsFinite ==
  ASSUME NEW r
  PROVE  IsFiniteSet(Waiting(r))
<1>1. Waiting(r) \subseteq Requests
  BY DEF Waiting
<1> QED
  BY <1>1, FS_Subset, FinitenessAssumption

LEMMA StatType ==
  ASSUME Shape, NEW k \in Keys
  PROVE  /\ FileOf[k] \in Files /\ Stat(k) \in Nat
         /\ \A v : KnownBounds(k, v) \in Nat \cup {None}
BY FileOfAssumption DEF Shape, Stat, KnownBounds, Index

LEMMA EntryType ==
  ASSUME NEW k, NEW v \in Nat, NEW t \in Nat, NEW known \in Nat \cup {None}
  PROVE  /\ Entry(k, v, t, known).key = k /\ Entry(k, v, t, known).sig \in Nat
         /\ Entry(k, v, t, known).bounds \in Nat
BY DEF Entry

LEMMA KeepType ==
  ASSUME IndexType, NEW e, e.key \in Keys, e.sig \in Nat, e.bounds \in Nat, NEW known, Keep(e, known)
  PROVE  IndexType'
BY DEF Keep, IndexType, Index

LEMMA Hit ==
  ASSUME CacheInv, NEW q \in Requests, NEW k \in Keys, RequestHit(q, k)
  PROVE  CacheInv'
<1>1. PhaseType' /\ Queue' /\ Ended({})
  BY PoolRests DEF RequestHit, CacheInv, Shape, PhaseType
<1>2. IndexType' /\ UNCHANGED <<fileVars, loadVars, waits, asked>>
  BY DEF RequestHit, End, indexVars, CacheInv, Shape, IndexType
<1>3. status[q] = "new" /\ status' = [status EXCEPT ![q] = "served"]
  BY DEF RequestHit, End
<1> QED
  BY <1>1, <1>2, <1>3, LoadsRest DEF CacheInv, Shape

LEMMA Local ==
  ASSUME CacheInv, NEW q \in Requests, NEW k \in Keys, RequestLocal(q, k)
  PROVE  CacheInv'
<1> DEFINE known == KnownBounds(k, Stat(k))
           e == Entry(k, Stat(k), Stat(k), known)
<1>1. PhaseType' /\ Queue' /\ Ended({})
  BY PoolRefuses DEF RequestLocal, CacheInv, Shape, PhaseType
<1>2. e.key \in Keys /\ e.sig \in Nat /\ e.bounds \in Nat
  BY StatType, EntryType DEF CacheInv
<1>3. IndexType
  BY DEF CacheInv, Shape, IndexType
<1>4. \E st \in {"served", "failed"} : End(q, st)
  BY DEF RequestLocal
<1>5. Keep(e, known) \/ UNCHANGED indexVars
  BY DEF RequestLocal
<1>6. IndexType'
  <2>1. CASE Keep(e, known)
    BY <1>2, <1>3, <2>1, KeepType
  <2>2. CASE UNCHANGED indexVars
    BY <1>3, <2>2 DEF indexVars, IndexType
  <2> QED
    BY <1>5, <2>1, <2>2
<1>7. UNCHANGED <<fileVars, loadVars, waits, asked>>
  BY DEF RequestLocal, End
<1>8. /\ status' \in [Requests -> {"new", "waiting", "served", "failed", "aborted"}]
      /\ \A x \in Requests : status'[x] = "waiting" <=> status[x] = "waiting"
  BY <1>4 DEF End, CacheInv, Shape
<1> QED
  BY <1>1, <1>6, <1>7, <1>8, LoadsRest

LEMMA Join ==
  ASSUME CacheInv, NEW q \in Requests, NEW k \in Keys, RequestJoin(q, k)
  PROVE  CacheInv'
<1> USE DEF fileVars
<1>0. PICK r \in Requests : r = inflight[k]
  BY DEF RequestJoin, CacheInv, Shape
<1>1. /\ status[q] = "new" /\ status' = [status EXCEPT ![q] = "waiting"]
      /\ waits' = [waits EXCEPT ![q] = r] /\ asked' = [asked EXCEPT ![q] = Stat(k)]
      /\ load' = [load EXCEPT ![r].waiters = @ + 1]
      /\ r # None /\ UNCHANGED <<fileVars, indexVars, inflight, poolVars>>
  BY <1>0 DEF RequestJoin, WaitFor
<1>2. load[r] \in Record /\ load[r].key = k /\ waits[q] = None
  BY <1>0, <1>1 DEF CacheInv, Shape, Tied
<1>3. PhaseType' /\ Queue' /\ Ended({})
  BY <1>1, PoolRests DEF CacheInv, Shape, PhaseType
<1>4. /\ load'[r] \in Record /\ load'[r].key = k /\ load'[r].sig = load[r].sig
      /\ load'[r].read = load[r].read /\ load'[r].waiters = load[r].waiters + 1
      /\ \A x \in Requests \ {r} : load'[x] = load[x]
  BY <1>1, <1>2 DEF CacheInv, Shape, Record
<1>5. FileOf[k] \in Files /\ Stat(k) \in Nat
  BY StatType DEF CacheInv
<1>6. Shape'
  <2>1. load' \in [Requests -> Record \cup {None}]
    <3>1. load' = [x \in Requests |-> load'[x]]
      BY <1>1 DEF CacheInv, Shape
    <3>2. \A x \in Requests : load'[x] \in Record \cup {None}
      BY <1>4 DEF CacheInv, Shape
    <3> QED
      BY <3>1, <3>2
  <2>2. status' \in [Requests -> {"new", "waiting", "served", "failed", "aborted"}]
    BY <1>1 DEF CacheInv, Shape
  <2>3. waits' \in [Requests -> Requests \cup {None}] /\ asked' \in [Requests -> Nat \cup {None}]
    BY <1>1, <1>2, <1>5 DEF CacheInv, Shape
  <2> QED
    BY <1>1, <1>3, <2>1, <2>2, <2>3 DEF CacheInv, Shape, PhaseType, indexVars
<1>7. Tied'
  BY <1>1, <1>2, <1>4, NoneAssumption DEF CacheInv, Tied, Shape, Record
<1>8. Waiting(r)' = Waiting(r) \cup {q} /\ q \notin Waiting(r)
  BY <1>1, <1>2 DEF Waiting, CacheInv, Shape
<1>9. \A x \in Requests \ {r} : Waiting(x)' = Waiting(x)
  BY <1>1, <1>2, NoneAssumption DEF Waiting, CacheInv, Shape
<1>10. Wanted'
  <2>1. Active(r) /\ load[r].waiters = Cardinality(Waiting(r))
    BY <1>2, NoneAssumption DEF CacheInv, Wanted, Record
  <2> DEFINE W == Waiting(r)
  <2>2. IsFiniteSet(W) /\ q \notin W
    BY <1>8, WaitingIsFinite
  <2>3. Cardinality(W \cup {q}) = Cardinality(W) + 1
    <3> HIDE DEF W
    <3> QED
      BY <2>2, FS_AddElement
  <2>4. Active(r)' /\ load'[r] # None /\ load'[r].waiters = Cardinality(Waiting(r)') /\ Waiting(r)' # {}
    <3>1. Active(r)'
      BY <1>2, <1>3, <2>1 DEF Ended
    <3>2. load'[r] # None /\ Waiting(r)' # {}
      BY <1>4, <1>8, NoneAssumption DEF Record
    <3>3. load'[r].waiters = Cardinality(Waiting(r)')
      BY <1>4, <1>8, <2>1, <2>3
    <3> QED
      BY <3>1, <3>2, <3>3
  <2>5. \A x \in Requests \ {r} :
          IF Active(x)'
          THEN load'[x] # None /\ load'[x].waiters = Cardinality(Waiting(x)') /\ Waiting(x)' # {}
          ELSE load'[x] = None /\ Waiting(x)' = {}
    BY <1>3, <1>4, <1>9 DEF CacheInv, Wanted, Ended
  <2> QED
    BY <2>4, <2>5 DEF Wanted, Active, Waiting
<1>11. Current'
  <2>1. \A x \in Requests : load'[x] # None =>
          load[x] # None /\ load'[x].key = load[x].key /\ load'[x].sig = load[x].sig /\ load'[x].read = load[x].read
    BY <1>2, <1>4, NoneAssumption DEF Record
  <2>2. \A x \in Requests : load[x] # None => load'[x] # None
    BY <1>2, <1>4, NoneAssumption DEF Record
  <2>3. ASSUME NEW x \in Requests, load'[x] # None
        PROVE  /\ load'[x].sig <= version'[FileOf[load'[x].key]]
               /\ load'[x].read # None => load'[x].read >= load'[x].sig
    BY <1>1, <2>1, <2>3 DEF CacheInv, Current
  <2>4. ASSUME NEW j \in Keys, inflight'[j] # None, foreign'[FileOf[j]] = 0
        PROVE  load'[inflight'[j]].sig = version'[FileOf[j]]
    <3>1. inflight'[j] = inflight[j] /\ inflight[j] \in Requests
      BY <1>1, <2>4 DEF CacheInv, Shape
    <3>2. load'[inflight[j]] # None
      BY <2>2, <2>4, <3>1 DEF CacheInv, Tied
    <3> QED
      BY <1>1, <2>1, <2>4, <3>1, <3>2 DEF CacheInv, Current
  <2>5. ASSUME NEW p \in Requests, waits'[p] # None
        PROVE  /\ asked'[p] \in Nat /\ asked'[p] <= version'[FileOf[load'[waits'[p]].key]]
               /\ foreign'[FileOf[load'[waits'[p]].key]] = 0 => NotOlder(load'[waits'[p]], asked'[p])
    <3>1. CASE p = q
      <4>1. waits'[p] = r /\ asked'[p] = Stat(k)
        BY <1>1, <3>1 DEF CacheInv, Shape
      <4>2. foreign[FileOf[k]] = 0 => load[r].sig = Stat(k)
        BY <1>0, <1>1 DEF CacheInv, Current, Stat
      <4>3. load[r].read # None => load[r].read >= load[r].sig
        BY <1>2, NoneAssumption DEF CacheInv, Current, Record
      <4>4. /\ FileOf[load'[r].key] = FileOf[k] /\ load'[r].sig = load[r].sig
            /\ load'[r].read = load[r].read
        BY <1>4
      <4>5. version'[FileOf[k]] = Stat(k) /\ foreign'[FileOf[k]] = foreign[FileOf[k]]
        BY <1>1 DEF Stat
      <4>6. Stat(k) >= Stat(k) /\ Stat(k) <= Stat(k) /\ Stat(k) \in Nat
        BY <1>5
      <4>7. foreign[FileOf[k]] = 0 => NotOlder(load'[r], Stat(k))
        BY <4>2, <4>3, <4>4, <4>6 DEF NotOlder
      <4> QED
        BY <4>1, <4>4, <4>5, <4>6, <4>7
    <3>2. CASE p # q
      <4>1. waits'[p] = waits[p] /\ asked'[p] = asked[p] /\ waits[p] \in Requests /\ waits[p] # None
        BY <1>1, <2>5, <3>2 DEF CacheInv, Shape
      <4> DEFINE s == waits[p]
      <4>2. load[s] # None
        BY <4>1 DEF CacheInv, Wanted, Waiting
      <4>3. load'[s].key = load[s].key /\ load'[s].sig = load[s].sig /\ load'[s].read = load[s].read
        BY <2>1, <2>2, <4>1, <4>2
      <4>4. /\ asked[p] \in Nat /\ asked[p] <= version[FileOf[load[s].key]]
            /\ foreign[FileOf[load[s].key]] = 0 => NotOlder(load[s], asked[p])
        BY <4>1 DEF CacheInv, Current
      <4> QED
        BY <1>1, <4>1, <4>3, <4>4 DEF NotOlder
    <3> QED
      BY <3>1, <3>2
  <2> QED
    BY <2>3, <2>4, <2>5 DEF Current, NotOlder
<1> QED
  BY <1>3, <1>6, <1>7, <1>10, <1>11 DEF CacheInv

LEMMA Starts ==
  ASSUME CacheInv, NEW q \in Requests, NEW k \in Keys, RequestLoad(q, k)
  PROVE  CacheInv'
<1> DEFINE v == Stat(k)
           l == [key |-> k, sig |-> v, known |-> KnownBounds(k, v), read |-> None, waiters |-> 1]
<1> USE DEF fileVars
<1>1. /\ status[q] = "new" /\ status' = [status EXCEPT ![q] = "waiting"]
      /\ waits' = [waits EXCEPT ![q] = q] /\ asked' = [asked EXCEPT ![q] = v]
      /\ inflight' = [inflight EXCEPT ![k] = q] /\ load' = [load EXCEPT ![q] = l]
      /\ UNCHANGED <<fileVars, indexVars>>
  BY DEF RequestLoad, WaitFor
<1>2. PhaseType' /\ Queue' /\ Begun(q)
  BY PoolBegins DEF RequestLoad, CacheInv, Shape, PhaseType
<1>3. FileOf[k] \in Files /\ v \in Nat /\ KnownBounds(k, v) \in Nat \cup {None}
  BY StatType DEF CacheInv
<1>4. l \in Record /\ l # None
  BY <1>3, NoneAssumption DEF Record
<1>5. v = version[FileOf[k]]
  BY DEF Stat
<1> HIDE DEF v
<1>6. l.key = k /\ l.sig = v /\ l.read = None /\ l.waiters = 1
  OBVIOUS
<1> HIDE DEF l
<1>7. waits[q] = None /\ load[q] = None /\ Waiting(q) = {}
  BY <1>1, <1>2 DEF CacheInv, Shape, Tied, Wanted, Begun
<1>8. /\ waits' = [x \in Requests |-> IF x = q THEN q ELSE waits[x]]
      /\ asked' = [x \in Requests |-> IF x = q THEN v ELSE asked[x]]
      /\ load' = [x \in Requests |-> IF x = q THEN l ELSE load[x]]
      /\ status' = [x \in Requests |-> IF x = q THEN "waiting" ELSE status[x]]
      /\ inflight' = [x \in Keys |-> IF x = k THEN q ELSE inflight[x]]
  BY <1>1 DEF CacheInv, Shape
<1>9. Shape'
  <2>1. /\ load' \in [Requests -> Record \cup {None}]
        /\ waits' \in [Requests -> Requests \cup {None}]
        /\ inflight' \in [Keys -> Requests \cup {None}]
    BY <1>4, <1>8 DEF CacheInv, Shape
  <2>2. /\ asked' \in [Requests -> Nat \cup {None}]
        /\ status' \in [Requests -> {"new", "waiting", "served", "failed", "aborted"}]
    BY <1>3, <1>8 DEF CacheInv, Shape
  <2> QED
    BY <1>1, <1>2, <2>1, <2>2 DEF CacheInv, Shape, PhaseType, indexVars
<1>10. \A x \in Requests : waits[x] # q
  BY <1>7 DEF Waiting
<1>11. Tied'
  BY <1>4, <1>6, <1>7, <1>8, NoneAssumption DEF CacheInv, Tied, Shape
<1>12. Waiting(q)' = {q}
  BY <1>8, <1>10 DEF Waiting
<1>13. \A x \in Requests \ {q} : Waiting(x)' = Waiting(x)
  BY <1>7, <1>8, NoneAssumption DEF Waiting
<1>14. Wanted'
  <2>1. Active(q)' /\ load'[q] # None /\ load'[q].waiters = Cardinality(Waiting(q)') /\ Waiting(q)' # {}
    BY <1>2, <1>4, <1>6, <1>8, <1>12, FS_Singleton DEF Begun
  <2>2. \A x \in Requests \ {q} : Active(x)' <=> Active(x)
    BY <1>2 DEF Begun, Active
  <2>3. \A x \in Requests \ {q} :
          IF Active(x)'
          THEN load'[x] # None /\ load'[x].waiters = Cardinality(Waiting(x)') /\ Waiting(x)' # {}
          ELSE load'[x] = None /\ Waiting(x)' = {}
    BY <1>8, <1>13, <2>2 DEF CacheInv, Wanted
  <2> QED
    BY <2>1, <2>3 DEF Wanted, Active, Waiting
<1>15. v <= v
  BY <1>3
<1>16. Current'
  <2>1. ASSUME NEW x \in Requests, load'[x] # None
        PROVE  /\ load'[x].sig <= version'[FileOf[load'[x].key]]
               /\ load'[x].read # None => load'[x].read >= load'[x].sig
    BY <1>1, <1>5, <1>6, <1>8, <1>15, <2>1 DEF CacheInv, Current
  <2>2. ASSUME NEW j \in Keys, inflight'[j] # None, foreign'[FileOf[j]] = 0
        PROVE  load'[inflight'[j]].sig = version'[FileOf[j]]
    <3>1. CASE j = k
      BY <1>1, <1>5, <1>6, <1>8, <3>1
    <3>2. CASE j # k
      BY <1>1, <1>7, <1>8, <2>2, <3>2 DEF CacheInv, Current, Tied, Shape
    <3> QED
      BY <3>1, <3>2
  <2>3. ASSUME NEW p \in Requests, waits'[p] # None
        PROVE  /\ asked'[p] \in Nat /\ asked'[p] <= version'[FileOf[load'[waits'[p]].key]]
               /\ foreign'[FileOf[load'[waits'[p]].key]] = 0 => NotOlder(load'[waits'[p]], asked'[p])
    <3>1. CASE p = q
      BY <1>1, <1>3, <1>5, <1>6, <1>8, <1>15, <3>1 DEF NotOlder
    <3>2. CASE p # q
      <4>1. waits'[p] = waits[p] /\ asked'[p] = asked[p] /\ load'[waits'[p]] = load[waits[p]]
        BY <1>8, <1>10, <2>3, <3>2 DEF CacheInv, Shape
      <4> QED
        BY <1>1, <2>3, <4>1 DEF CacheInv, Current
    <3> QED
      BY <3>1, <3>2
  <2> QED
    BY <2>1, <2>2, <2>3 DEF Current, NotOlder
<1> QED
  BY <1>2, <1>9, <1>11, <1>14, <1>16 DEF CacheInv

LEMMA Abort ==
  ASSUME CacheInv, NEW q \in Requests, AbortRequest(q)
  PROVE  CacheInv'
<1> USE DEF fileVars
<1>1. /\ status[q] = "waiting" /\ status' = [status EXCEPT ![q] = "aborted"]
      /\ waits' = [waits EXCEPT ![q] = None] /\ asked' = [asked EXCEPT ![q] = None]
      /\ UNCHANGED <<fileVars, indexVars>>
  BY DEF AbortRequest
<1>2. PICK r \in Requests : r = waits[q]
  BY <1>1 DEF CacheInv, Shape, Tied
<1>3. q \in Waiting(r) /\ IsFiniteSet(Waiting(r))
  BY <1>2, WaitingIsFinite DEF Waiting
<1>4. load[r] \in Record /\ load[r].waiters = Cardinality(Waiting(r)) /\ Active(r)
  BY <1>3 DEF CacheInv, Wanted, Shape
<1>5. IndexType'
  BY <1>1 DEF CacheInv, Shape, IndexType, indexVars
<1>6. CASE LastWaiter(r)
  <2>1. Waiting(r) = {q}
    <3> DEFINE W == Waiting(r)
    <3>1. IsFiniteSet(W) /\ q \in W /\ Cardinality(W) = 1
      BY <1>3, <1>4, <1>6 DEF LastWaiter
    <3> HIDE DEF W
    <3>2. W = {q}
      BY <3>1, FS_Singleton
    <3> QED
      BY <3>2 DEF W
  <2>2. \A x \in Requests : waits[x] \in {r} <=> x = q
    BY <1>2, <2>1 DEF Waiting
  <2>3. load' = [load EXCEPT ![r] = None] /\ Deregister({r}) /\ (Pool!Withdraw(r) \/ Pool!Cancel(r))
    BY <1>2, <1>6 DEF AbortRequest
  <2>4. SettleLoads({r}, "aborted")
    BY <1>1, <2>2, <2>3 DEF SettleLoads, CacheInv, Shape
  <2>5. PhaseType' /\ Queue' /\ Ended({r})
    <3>1. PhaseType /\ Queue /\ "aborted" \in Pool!Outcomes
      BY DEF CacheInv, Shape, PhaseType, Pool!Outcomes
    <3>2. CASE Pool!Withdraw(r)
      BY <3>1, <3>2, PoolWithdraws
    <3>3. CASE Pool!Cancel(r)
      BY <3>1, <3>3, PoolSettles DEF Pool!Cancel
    <3> QED
      BY <2>3, <3>2, <3>3
  <2> QED
    BY <1>1, <1>5, <2>4, <2>5, LoadsEnd
<1>7. CASE ~LastWaiter(r)
  <2>1. load' = [load EXCEPT ![r].waiters = @ - 1] /\ UNCHANGED <<inflight, poolVars>>
    BY <1>2, <1>7 DEF AbortRequest
  <2>2. PhaseType' /\ Queue' /\ Ended({})
    BY <2>1, PoolRests DEF CacheInv, Shape, PhaseType
  <2> DEFINE W == Waiting(r)
  <2>3. IsFiniteSet(W) /\ q \in W /\ Cardinality(W) # 1 /\ Cardinality(W) = load[r].waiters
    BY <1>3, <1>4, <1>7 DEF LastWaiter
  <2>4. Cardinality(W \ {q}) = Cardinality(W) - 1 /\ Cardinality(W) \in Nat /\ W \ {q} # {}
    <3> HIDE DEF W
    <3>1. Cardinality(W \ {q}) = Cardinality(W) - 1
      BY <2>3, FS_RemoveElement
    <3>2. Cardinality(W) \in Nat
      BY <2>3, FS_CardinalityType
    <3>3. W \ {q} # {}
      <4>1. SUFFICES ASSUME W \ {q} = {} PROVE FALSE
        OBVIOUS
      <4>2. W = {q}
        BY <2>3, <4>1
      <4> QED
        BY <2>3, <4>2, FS_Singleton
    <3> QED
      BY <3>1, <3>2, <3>3
  <2>5. Cardinality(W) - 1 \in Nat
    <3>1. Cardinality(W \ {q}) \in Nat
      BY <2>3, FS_RemoveElement, FS_CardinalityType
    <3> QED
      BY <2>4, <3>1
  <2>6. /\ load'[r] \in Record /\ load'[r].key = load[r].key /\ load'[r].sig = load[r].sig
        /\ load'[r].read = load[r].read /\ load'[r].waiters = load[r].waiters - 1
        /\ \A x \in Requests \ {r} : load'[x] = load[x]
    BY <1>4, <2>1, <2>3, <2>5 DEF CacheInv, Shape, Record
  <2> HIDE DEF W
  <2>7. Waiting(r)' = W \ {q} /\ \A x \in Requests \ {r} : Waiting(x)' = Waiting(x)
    BY <1>1, <1>2, NoneAssumption DEF Waiting, CacheInv, Shape, W
  <2>8. Shape'
    <3>1. load' \in [Requests -> Record \cup {None}]
      <4>1. load' = [x \in Requests |-> load'[x]]
        BY <2>1 DEF CacheInv, Shape
      <4>2. \A x \in Requests : load'[x] \in Record \cup {None}
        BY <2>6 DEF CacheInv, Shape
      <4> QED
        BY <4>1, <4>2
    <3>2. /\ waits' \in [Requests -> Requests \cup {None}]
          /\ asked' \in [Requests -> Nat \cup {None}]
          /\ status' \in [Requests -> {"new", "waiting", "served", "failed", "aborted"}]
      BY <1>1 DEF CacheInv, Shape
    <3> QED
      BY <1>1, <2>1, <2>2, <3>1, <3>2 DEF CacheInv, Shape, PhaseType, indexVars
  <2>9. \A x \in Requests : load'[x] # None <=> load[x] # None
    BY <1>4, <2>6, NoneAssumption DEF Record
  <2>10. \A x \in Requests : load[x] # None =>
           load'[x].key = load[x].key /\ load'[x].sig = load[x].sig /\ load'[x].read = load[x].read
    BY <2>6
  <2>11. Tied'
    BY <1>1, <2>1, <2>9, <2>10 DEF CacheInv, Tied, Shape
  <2>12. Wanted'
    <3>1. Active(r)' /\ load'[r] # None /\ load'[r].waiters = Cardinality(Waiting(r)') /\ Waiting(r)' # {}
      <4>1. Active(r)'
        BY <1>4, <2>2 DEF Ended
      <4>2. load'[r] # None
        BY <2>6, NoneAssumption DEF Record
      <4> QED
        BY <2>3, <2>4, <2>6, <2>7, <4>1, <4>2
    <3>2. \A x \in Requests \ {r} :
            IF Active(x)'
            THEN load'[x] # None /\ load'[x].waiters = Cardinality(Waiting(x)') /\ Waiting(x)' # {}
            ELSE load'[x] = None /\ Waiting(x)' = {}
      BY <2>2, <2>6, <2>7 DEF CacheInv, Wanted, Ended
    <3> QED
      BY <3>1, <3>2 DEF Wanted, Active, Waiting
  <2>13. Current'
    <3>1. ASSUME NEW x \in Requests, load'[x] # None
          PROVE  /\ load'[x].sig <= version'[FileOf[load'[x].key]]
                 /\ load'[x].read # None => load'[x].read >= load'[x].sig
      BY <1>1, <2>9, <2>10, <3>1 DEF CacheInv, Current
    <3>2. ASSUME NEW j \in Keys, inflight'[j] # None, foreign'[FileOf[j]] = 0
          PROVE  load'[inflight'[j]].sig = version'[FileOf[j]]
      <4>1. inflight'[j] = inflight[j] /\ inflight[j] \in Requests /\ load[inflight[j]] # None
        BY <2>1, <3>2 DEF CacheInv, Shape, Tied
      <4> QED
        BY <1>1, <2>10, <3>2, <4>1 DEF CacheInv, Current
    <3>3. ASSUME NEW p \in Requests, waits'[p] # None
          PROVE  /\ asked'[p] \in Nat /\ asked'[p] <= version'[FileOf[load'[waits'[p]].key]]
                 /\ foreign'[FileOf[load'[waits'[p]].key]] = 0 => NotOlder(load'[waits'[p]], asked'[p])
      <4> DEFINE s == waits[p]
      <4>1. waits'[p] = s /\ asked'[p] = asked[p] /\ s \in Requests /\ s # None
        BY <1>1, <3>3 DEF CacheInv, Shape
      <4>2. load[s] # None
        BY <4>1 DEF CacheInv, Wanted, Waiting
      <4>3. load'[s].key = load[s].key /\ load'[s].sig = load[s].sig /\ load'[s].read = load[s].read
        BY <2>10, <4>1, <4>2
      <4>4. /\ asked[p] \in Nat /\ asked[p] <= version[FileOf[load[s].key]]
            /\ foreign[FileOf[load[s].key]] = 0 => NotOlder(load[s], asked[p])
        BY <4>1 DEF CacheInv, Current
      <4> QED
        BY <1>1, <4>1, <4>3, <4>4 DEF NotOlder
    <3> QED
      BY <3>1, <3>2, <3>3 DEF Current, NotOlder
  <2> QED
    BY <2>2, <2>8, <2>11, <2>12, <2>13 DEF CacheInv
<1> QED
  BY <1>6, <1>7

LEMMA Reads ==
  ASSUME CacheInv, NEW r \in Requests, ReadFile(r)
  PROVE  CacheInv'
<1> USE DEF fileVars, requestVars
<1>1. /\ phase[r] = "running" /\ load' = [load EXCEPT ![r].read = Stat(load[r].key)]
      /\ UNCHANGED <<fileVars, indexVars, inflight, requestVars, poolVars>>
  BY DEF ReadFile
<1>2. load[r] \in Record
  BY <1>1 DEF CacheInv, Wanted, Shape, Active
<1>3. PICK k \in Keys : k = load[r].key
  BY <1>2 DEF Record
<1>4. FileOf[k] \in Files /\ Stat(k) \in Nat /\ Stat(k) = version[FileOf[k]]
  BY StatType DEF CacheInv, Stat
<1>5. PhaseType' /\ Queue' /\ Ended({})
  BY <1>1, PoolRests DEF CacheInv, Shape, PhaseType
<1>6. /\ load'[r] \in Record /\ load'[r].key = k /\ load'[r].sig = load[r].sig
      /\ load'[r].read = Stat(k) /\ load'[r].waiters = load[r].waiters
      /\ \A x \in Requests \ {r} : load'[x] = load[x]
  BY <1>1, <1>2, <1>3, <1>4 DEF CacheInv, Shape, Record
<1>7. \A x \in Requests :
        /\ load'[x] # None <=> load[x] # None
        /\ load[x] # None => /\ load'[x].key = load[x].key /\ load'[x].sig = load[x].sig
                             /\ load'[x].waiters = load[x].waiters
  BY <1>2, <1>3, <1>6, NoneAssumption DEF Record
<1>8. Shape'
  <2>1. load' = [x \in Requests |-> load'[x]]
    BY <1>1 DEF CacheInv, Shape
  <2>2. \A x \in Requests : load'[x] \in Record \cup {None}
    BY <1>6 DEF CacheInv, Shape
  <2>3. load' \in [Requests -> Record \cup {None}]
    BY <2>1, <2>2
  <2> QED
    BY <1>1, <1>5, <2>3 DEF CacheInv, Shape, PhaseType, indexVars
<1>9. Tied'
  BY <1>1, <1>7 DEF CacheInv, Tied, Shape
<1>10. Wanted'
  BY <1>1, <1>5, <1>7 DEF CacheInv, Wanted, Ended, Waiting
<1>11. load[r].sig <= Stat(k)
  BY <1>2, <1>3, <1>4, NoneAssumption DEF CacheInv, Current, Record
<1>12. Current'
  <2>1. ASSUME NEW x \in Requests, load'[x] # None
        PROVE  /\ load'[x].sig <= version'[FileOf[load'[x].key]]
               /\ load'[x].read # None => load'[x].read >= load'[x].sig
    <3>1. CASE x = r
      BY <1>1, <1>4, <1>6, <1>11, <3>1
    <3>2. CASE x # r
      BY <1>1, <1>6, <2>1, <3>2 DEF CacheInv, Current
    <3> QED
      BY <3>1, <3>2
  <2>2. ASSUME NEW j \in Keys, inflight'[j] # None, foreign'[FileOf[j]] = 0
        PROVE  load'[inflight'[j]].sig = version'[FileOf[j]]
    <3>1. inflight'[j] = inflight[j] /\ inflight[j] \in Requests /\ load[inflight[j]] # None
      BY <1>1, <2>2 DEF CacheInv, Shape, Tied
    <3> QED
      BY <1>1, <1>7, <2>2, <3>1 DEF CacheInv, Current
  <2>3. ASSUME NEW p \in Requests, waits'[p] # None
        PROVE  /\ asked'[p] \in Nat /\ asked'[p] <= version'[FileOf[load'[waits'[p]].key]]
               /\ foreign'[FileOf[load'[waits'[p]].key]] = 0 => NotOlder(load'[waits'[p]], asked'[p])
    <3> DEFINE s == waits[p]
    <3>1. waits'[p] = s /\ asked'[p] = asked[p] /\ s \in Requests /\ s # None
      BY <1>1, <2>3 DEF CacheInv, Shape
    <3>2. /\ asked[p] \in Nat /\ asked[p] <= version[FileOf[load[s].key]]
          /\ foreign[FileOf[load[s].key]] = 0 => NotOlder(load[s], asked[p])
      BY <3>1 DEF CacheInv, Current
    <3>3. CASE s = r
      <4>1. asked[p] <= Stat(k) /\ (foreign[FileOf[k]] = 0 => load[r].sig >= asked[p])
        BY <1>3, <1>4, <3>2, <3>3 DEF NotOlder
      <4>2. Stat(k) >= asked[p]
        BY <1>4, <3>2, <4>1
      <4> QED
        BY <1>1, <1>3, <1>4, <1>6, <3>1, <3>2, <3>3, <4>1, <4>2 DEF NotOlder
    <3>4. CASE s # r
      BY <1>1, <1>6, <3>1, <3>2, <3>4
    <3> QED
      BY <3>3, <3>4
  <2> QED
    BY <2>1, <2>2, <2>3 DEF Current, NotOlder
<1> QED
  BY <1>5, <1>8, <1>9, <1>10, <1>12 DEF CacheInv

\* The record of a load that the pool works for.
LEMMA LoadType ==
  ASSUME CacheInv, NEW r \in Requests, Active(r)
  PROVE  /\ load[r] \in Record /\ load[r].key \in Keys /\ load[r].sig \in Nat
         /\ load[r].known \in Nat \cup {None} /\ load[r].read \in Nat \cup {None}
BY DEF CacheInv, Wanted, Shape, Record

LEMMA Done ==
  ASSUME CacheInv, NEW r \in Requests, LoadDone(r)
  PROVE  CacheInv'
<1> DEFINE e == Entry(load[r].key, load[r].sig, load[r].read, load[r].known)
<1>1. /\ phase[r] = "running" /\ load[r].read # None /\ Pool!Settle(r, "resolved")
      /\ Keep(e, load[r].known) /\ SettleLoads({r}, "served") /\ UNCHANGED fileVars
  BY DEF LoadDone
<1>2. /\ load[r].key \in Keys /\ load[r].sig \in Nat /\ load[r].read \in Nat
      /\ load[r].known \in Nat \cup {None}
  BY <1>1, LoadType DEF Active
<1> HIDE DEF e
<1>3. e.key \in Keys /\ e.sig \in Nat /\ e.bounds \in Nat
  BY <1>2, EntryType DEF e
<1>4. IndexType
  BY DEF CacheInv, Shape, IndexType
<1>5. IndexType'
  BY <1>1, <1>3, <1>4, KeepType
<1>6. PhaseType' /\ Queue' /\ Ended({r})
  BY <1>1, PoolSettles DEF CacheInv, Shape, PhaseType, Pool!Outcomes
<1> QED
  BY <1>1, <1>5, <1>6, LoadsEnd

LEMMA Fallback ==
  ASSUME CacheInv, NEW r \in Requests, LoadFallback(r)
  PROVE  CacheInv'
<1> DEFINE known == KnownBounds(load[r].key, load[r].sig)
           e == Entry(load[r].key, load[r].sig, Stat(load[r].key), known)
<1>1. /\ phase[r] = "running" /\ Pool!Settle(r, "failed") /\ UNCHANGED fileVars
      /\ \/ Keep(e, known) /\ SettleLoads({r}, "served")
         \/ UNCHANGED indexVars /\ SettleLoads({r}, "failed")
  BY DEF LoadFallback
<1>2. load[r].key \in Keys /\ load[r].sig \in Nat
  BY <1>1, LoadType DEF Active
<1>3. Stat(load[r].key) \in Nat /\ known \in Nat \cup {None}
  BY <1>2, StatType DEF CacheInv
<1>4. e.key \in Keys /\ e.sig \in Nat /\ e.bounds \in Nat
  BY <1>2, <1>3, EntryType
<1>5. IndexType
  BY DEF CacheInv, Shape, IndexType
<1>6. IndexType'
  <2>1. CASE Keep(e, known)
    BY <1>4, <1>5, <2>1, KeepType
  <2>2. CASE UNCHANGED indexVars
    BY <1>5, <2>2 DEF indexVars, IndexType
  <2> QED
    BY <1>1, <2>1, <2>2
<1>7. PhaseType' /\ Queue' /\ Ended({r})
  BY <1>1, PoolSettles DEF CacheInv, Shape, PhaseType, Pool!Outcomes
<1> QED
  BY <1>1, <1>6, <1>7, LoadsEnd

LEMMA Dropped ==
  ASSUME CacheInv, NEW r \in Requests, LoadDropped(r)
  PROVE  CacheInv'
<1>1. Pool!Settle(r, "aborted") /\ SettleLoads({r}, "failed") /\ UNCHANGED <<fileVars, indexVars>>
  BY DEF LoadDropped
<1>2. PhaseType' /\ Queue' /\ Ended({r})
  BY <1>1, PoolSettles DEF CacheInv, Shape, PhaseType, Pool!Outcomes
<1>3. IndexType'
  BY <1>1 DEF CacheInv, Shape, IndexType, indexVars
<1> QED
  BY <1>1, <1>2, <1>3, LoadsEnd

LEMMA Closes ==
  ASSUME CacheInv, ClosePool
  PROVE  CacheInv'
<1> DEFINE queued == {r \in Requests : phase[r] = "queued"}
<1>1. Pool!Shut /\ SettleLoads(queued, "failed") /\ UNCHANGED <<fileVars, indexVars>>
  BY DEF ClosePool
<1>2. PhaseType' /\ Queue' /\ Ended(queued)
  BY <1>1, PoolShuts DEF CacheInv, Shape, PhaseType
<1>3. IndexType'
  BY <1>1 DEF CacheInv, Shape, IndexType, indexVars
<1> QED
  BY <1>1, <1>2, <1>3, LoadsEnd

-----------------------------------------------------------------------------
(* Files that change.                                                      *)

\* The loads under way are no longer registered for the file that changed, or
\* somebody else changed it.
LEMMA FileChanges ==
  ASSUME CacheInv, NEW f \in Files, version' = [version EXCEPT ![f] = @ + 1],
         foreign' = foreign \/ foreign' = [foreign EXCEPT ![f] = @ + 1],
         inflight' \in [Keys -> Requests \cup {None}],
         \A k \in Keys : inflight'[k] # None => inflight'[k] = inflight[k],
         \A k \in Keys : inflight'[k] # None /\ FileOf[k] = f => foreign'[f] # 0,
         IndexType', UNCHANGED <<load, requestVars, poolVars>>
  PROVE  CacheInv'
<1> USE DEF requestVars
<1>1. PhaseType' /\ Queue' /\ Ended({})
  BY PoolRests DEF CacheInv, Shape, PhaseType
<1>2. \A g \in Files :
        /\ version[g] \in Nat /\ version'[g] \in Nat /\ version[g] <= version'[g]
        /\ foreign[g] \in Nat /\ foreign'[g] \in Nat
        /\ foreign'[g] = 0 => foreign[g] = 0
        /\ g # f => version'[g] = version[g]
  BY DEF CacheInv, Shape
<1>3. Shape'
  <2>1. version' \in [Files -> Nat] /\ foreign' \in [Files -> Nat]
    BY DEF CacheInv, Shape
  <2> QED
    BY <1>1, <2>1 DEF CacheInv, Shape, PhaseType, IndexType
<1>4. Tied'
  BY DEF CacheInv, Tied
<1>5. Wanted'
  BY <1>1 DEF CacheInv, Wanted, Ended, Waiting
<1>6. \A r \in Requests : load[r] # None =>
        /\ FileOf[load[r].key] \in Files /\ load[r].sig \in Nat
        /\ load[r].sig <= version[FileOf[load[r].key]]
        /\ load[r].read # None => load[r].read >= load[r].sig
  <2>1. SUFFICES ASSUME NEW r \in Requests, load[r] # None
                 PROVE  /\ FileOf[load[r].key] \in Files /\ load[r].sig \in Nat
                        /\ load[r].sig <= version[FileOf[load[r].key]]
                        /\ load[r].read # None => load[r].read >= load[r].sig
    OBVIOUS
  <2>2. load[r].key \in Keys /\ load[r].sig \in Nat
    BY <2>1 DEF CacheInv, Shape, Record
  <2> QED
    BY <2>1, <2>2, FileOfAssumption DEF CacheInv, Current
<1>7. Current'
  <2>1. ASSUME NEW x \in Requests, load[x] # None
        PROVE  load[x].sig <= version'[FileOf[load[x].key]]
    <3> DEFINE g == FileOf[load[x].key]
    <3>1. g \in Files /\ load[x].sig \in Nat /\ load[x].sig <= version[g]
      BY <1>6, <2>1
    <3>2. version[g] \in Nat /\ version'[g] \in Nat /\ version[g] <= version'[g]
      BY <1>2, <3>1
    <3> HIDE DEF g
    <3>3. load[x].sig <= version'[g]
      BY <3>1, <3>2
    <3> QED
      BY <3>3 DEF g
  <2>2. ASSUME NEW j \in Keys, inflight'[j] # None, foreign'[FileOf[j]] = 0
        PROVE  load'[inflight'[j]].sig = version'[FileOf[j]]
    <3>1. inflight'[j] = inflight[j] /\ FileOf[j] \in Files /\ FileOf[j] # f
      BY <2>2, FileOfAssumption
    <3> QED
      BY <1>2, <2>2, <3>1 DEF CacheInv, Current
  <2>3. ASSUME NEW p \in Requests, waits[p] # None
        PROVE  /\ asked[p] \in Nat /\ asked[p] <= version'[FileOf[load[waits[p]].key]]
               /\ foreign'[FileOf[load[waits[p]].key]] = 0 => NotOlder(load[waits[p]], asked[p])
    <3> DEFINE g == FileOf[load[waits[p]].key]
    <3>1. waits[p] \in Requests /\ load[waits[p]] # None
      BY <2>3 DEF CacheInv, Shape, Wanted, Waiting
    <3>2. g \in Files
      BY <1>6, <3>1
    <3>3. asked[p] \in Nat /\ asked[p] <= version[g] /\ (foreign[g] = 0 => NotOlder(load[waits[p]], asked[p]))
      BY <2>3 DEF CacheInv, Current
    <3> HIDE DEF g
    <3>4. asked[p] <= version'[g] /\ (foreign'[g] = 0 => foreign[g] = 0)
      BY <1>2, <3>2, <3>3
    <3> QED
      BY <3>3, <3>4 DEF g
  <2> QED
    BY <1>6, <2>1, <2>2, <2>3 DEF Current, NotOlder
<1> QED
  BY <1>1, <1>3, <1>4, <1>5, <1>7 DEF CacheInv

LEMMA Edits ==
  ASSUME CacheInv, NEW f \in Files, ReplaceEpisode(f) \/ ReplaceFolder(f) \/ ForeignEdit(f)
  PROVE  CacheInv'
<1>1. version' = [version EXCEPT ![f] = @ + 1] /\ UNCHANGED <<load, requestVars, poolVars>>
  BY DEF ReplaceEpisode, ReplaceFolder, ForeignEdit, Edit, loadVars
<1>2. IndexType'
  BY DEF ReplaceEpisode, ReplaceFolder, ForeignEdit, indexVars, CacheInv, Shape, IndexType
<1>3. CASE ReplaceEpisode(f) \/ ReplaceFolder(f)
  <2>1. foreign' = foreign /\ \E ks \in SUBSET Keys : KeysOf(f) \subseteq ks /\ inflight' = Forget(ks)
    BY <1>3 DEF ReplaceEpisode, ReplaceFolder, KeysOf
  <2>2. PICK ks \in SUBSET Keys : KeysOf(f) \subseteq ks /\ inflight' = Forget(ks)
    BY <2>1
  <2>3. /\ inflight' \in [Keys -> Requests \cup {None}]
        /\ \A k \in Keys : inflight'[k] # None => inflight'[k] = inflight[k] /\ FileOf[k] # f
    BY <2>2 DEF Forget, KeysOf, CacheInv, Shape
  <2> QED
    BY <1>1, <1>2, <2>1, <2>3, FileChanges
<1>4. CASE ForeignEdit(f)
  <2>1. inflight' = inflight /\ foreign' = [foreign EXCEPT ![f] = @ + 1]
    BY <1>4 DEF ForeignEdit, loadVars
  <2>2. foreign'[f] # 0 /\ inflight' \in [Keys -> Requests \cup {None}]
    BY <2>1 DEF CacheInv, Shape
  <2> QED
    BY <1>1, <1>2, <2>1, <2>2, FileChanges
<1> QED
  BY <1>3, <1>4

LEMMA Rests ==
  ASSUME CacheInv,
         FlushIndexes \/ (\E i \in 1..MaxEntries : Grow(i)) \/ Quiescent \/ UNCHANGED vars
  PROVE  CacheInv'
<1>1. UNCHANGED <<fileVars, loadVars, requestVars, poolVars>>
  BY DEF FlushIndexes, Grow, Quiescent, vars
<1>2. IndexType'
  <2>1. CASE FlushIndexes
    BY <2>1 DEF FlushIndexes, CacheInv, Shape, IndexType
  <2>2. CASE UNCHANGED indexVars
    BY <2>2 DEF CacheInv, Shape, IndexType, indexVars
  <2> QED
    BY <2>1, <2>2 DEF Grow, Quiescent, vars
<1>3. PhaseType' /\ Queue' /\ Ended({})
  BY <1>1, PoolRests DEF CacheInv, Shape, PhaseType
<1> QED
  BY <1>1, <1>2, <1>3, LoadsRest DEF requestVars, CacheInv, Shape

-----------------------------------------------------------------------------
(* The invariant, and what follows from it.                                *)

LEMMA CacheInit ==
  ASSUME Init
  PROVE  CacheInv
<1>1. Shape
  BY DEF Init, Shape, Pool!Init
<1>2. Queue
  BY DEF Init, Pool!Init, Queue, Injective, Contains
<1>3. Tied /\ Wanted /\ Current
  BY NoneAssumption DEF Init, Pool!Init, Tied, Wanted, Waiting, Active, Current
<1> QED
  BY <1>1, <1>2, <1>3 DEF CacheInv

LEMMA CacheStep ==
  ASSUME CacheInv, [Next]_vars
  PROVE  CacheInv'
<1>1. ASSUME NEW q \in Requests, Request(q)
      PROVE  CacheInv'
  BY <1>1, Hit, Join, Starts, Local DEF Request
<1>2. ASSUME NEW q \in Requests, \/ AbortRequest(q) \/ ReadFile(q) \/ LoadDone(q)
                                 \/ LoadFallback(q) \/ LoadDropped(q)
      PROVE  CacheInv'
  BY <1>2, Abort, Reads, Done, Fallback, Dropped
<1>3. ASSUME NEW f \in Files, ReplaceEpisode(f) \/ ReplaceFolder(f) \/ ForeignEdit(f)
      PROVE  CacheInv'
  BY <1>3, Edits
<1>4. CASE ClosePool
  BY <1>4, Closes
<1>5. CASE FlushIndexes \/ (\E i \in 1..MaxEntries : Grow(i)) \/ Quiescent \/ UNCHANGED vars
  BY <1>5, Rests
<1> QED
  BY <1>1, <1>2, <1>3, <1>4, <1>5 DEF Next

\* CacheInv holds in every state that fileCacheInflight and the pool reach.
THEOREM Invariance == Spec => []CacheInv
<1>1. Init => CacheInv
  BY CacheInit
<1>2. CacheInv /\ [Next]_vars => CacheInv'
  BY CacheStep
<1> QED
  BY <1>1, <1>2, PTL DEF Spec

\* A load is worked for exactly as long as a request waits for it, and its
\* inflight record counts these requests, however they come, give up and end.
THEOREM LoadsAreWantedHolds == Spec => []LoadsAreWanted
<1>1. CacheInv => LoadsAreWanted
  BY DEF CacheInv, Wanted, LoadsAreWanted, Active, Waiting
<1> QED
  BY <1>1, Invariance, PTL

\* A file that only the server changes is never answered for with a text older
\* than the one the request found, whichever load it joined.
THEOREM RepliesAreCurrentHolds == Spec => []RepliesAreCurrent
<1>1. CacheInv => RepliesAreCurrent
  BY DEF CacheInv, Current, NotOlder, RepliesAreCurrent
<1> QED
  BY <1>1, Invariance, PTL

\* The load of a key is replaced by another one only when it has settled or
\* when the server has replaced a file: one decoding at a time.
THEOREM LoadsStayJoinableHolds == Spec => LoadsStayJoinable
<1> DEFINE Joinable == \A k \in Keys :
             LET r == inflight[k] IN
             r # None /\ inflight'[k] # r => load'[r] = None \/ version' # version
<1>1. ASSUME CacheInv, [Next]_vars
      PROVE  Joinable
  <2>1. SUFFICES ASSUME NEW k \in Keys, inflight[k] # None, inflight'[k] # inflight[k]
                 PROVE  load'[inflight[k]] = None \/ version' # version
    OBVIOUS
  <2>2. inflight[k] \in Requests
    BY <1>1, <2>1 DEF CacheInv, Shape
  <2>3. ASSUME NEW settled \in SUBSET Requests, NEW st, SettleLoads(settled, st)
        PROVE  load'[inflight[k]] = None
    BY <2>1, <2>2, <2>3 DEF SettleLoads, Deregister
  <2>4. ASSUME NEW q \in Requests, Request(q)
        PROVE  FALSE
    <3>1. PICK j \in Keys : RequestHit(q, j) \/ RequestJoin(q, j) \/ RequestLoad(q, j) \/ RequestLocal(q, j)
      BY <2>4 DEF Request
    <3>2. UNCHANGED inflight \/ (inflight[j] = None /\ inflight' = [inflight EXCEPT ![j] = q])
      BY <3>1 DEF RequestHit, RequestJoin, RequestLoad, RequestLocal, loadVars
    <3> QED
      BY <1>1, <2>1, <3>2 DEF CacheInv, Shape
  <2>5. ASSUME NEW q \in Requests, AbortRequest(q)
        PROVE  load'[inflight[k]] = None
    <3>1. PICK r \in Requests : r = waits[q]
      BY <1>1, <2>5 DEF AbortRequest, CacheInv, Shape, Tied
    <3>2. Deregister({r}) /\ load' = [load EXCEPT ![r] = None]
      BY <2>1, <2>5, <3>1 DEF AbortRequest
    <3> QED
      BY <1>1, <2>1, <2>2, <3>2 DEF Deregister, CacheInv, Shape
  <2>6. ASSUME NEW q \in Requests, LoadDone(q) \/ LoadFallback(q) \/ LoadDropped(q)
        PROVE  load'[inflight[k]] = None
    <3>1. \E st : SettleLoads({q}, st)
      BY <2>6 DEF LoadDone, LoadFallback, LoadDropped
    <3> QED
      BY <2>3, <3>1
  <2>7. CASE ClosePool
    BY <2>3, <2>7 DEF ClosePool
  <2>8. ASSUME NEW f \in Files, ReplaceEpisode(f) \/ ReplaceFolder(f)
        PROVE  version' # version
    <3>1. version' = [version EXCEPT ![f] = @ + 1] /\ version \in [Files -> Nat]
      BY <1>1, <2>8 DEF ReplaceEpisode, ReplaceFolder, Edit, CacheInv, Shape
    <3>2. version'[f] # version[f]
      BY <3>1
    <3> QED
      BY <3>2
  <2>9. \/ \E q \in Requests : ReadFile(q)
        \/ \E f \in Files : ForeignEdit(f)
        \/ FlushIndexes \/ (\E i \in 1..MaxEntries : Grow(i)) \/ Quiescent \/ UNCHANGED vars
        => UNCHANGED inflight
    BY DEF ReadFile, ForeignEdit, FlushIndexes, Grow, Quiescent, loadVars, vars
  <2> QED
    BY <1>1, <2>1, <2>4, <2>5, <2>6, <2>7, <2>8, <2>9 DEF Next
<1> QED
  BY <1>1, Invariance, PTL DEF Spec, LoadsStayJoinable

-----------------------------------------------------------------------------
(* The bytes of a list of entries, by increments.                          *)

\* Every entry has a size.
LEMMA EntrySize ==
  ASSUME NEW e \in Entries
  PROVE  Size[e.text] \in Nat
BY SizeAssumption DEF Entries

\* b[n] is what the first n entries of c take.
Sums(c, b) ==
  /\ b \in [0..Len(c) -> Nat]
  /\ b[0] = 0
  /\ \A n \in 1..Len(c) : b[n] = b[n-1] + Size[c[n].text]

LEMMA BytesAreSums ==
  ASSUME NEW c \in Seq(Entries)
  PROVE  \E b : Sums(c, b) /\ Bytes(c) = b[Len(c)]
<1> DEFINE D == 1..Len(c)
           F == [p \in Nat \X D |-> p[1] + Size[c[p[2]].text]]
           first == [S \in (SUBSET D) \ {{}} |-> Max(S)]
           it == CHOOSE it : it = [S \in SUBSET DOMAIN c |->
                                     IF S = {} THEN 0 ELSE it[S \ {Max(S)}] + Size[c[Max(S)].text]]
<1>1. Bytes(c) = it[DOMAIN c]
  BY DEF Bytes, FoldLeft, MapThenFoldSet
<1>2. DOMAIN c = D /\ Len(c) \in Nat /\ IsFiniteSet(D)
  BY FS_Interval
<1>3. F \in [Nat \X D -> Nat]
  <2>1. \A i \in D : Size[c[i].text] \in Nat
    <3>1. \A i \in D : c[i] \in Entries
      OBVIOUS
    <3> QED
      BY <3>1, EntrySize
  <2>2. \A p \in Nat \X D : p[1] \in Nat /\ p[2] \in D
    OBVIOUS
  <2>3. \A p \in Nat \X D : F[p] \in Nat
    BY <2>1, <2>2
  <2>4. F = [p \in Nat \X D |-> F[p]]
    OBVIOUS
  <2> HIDE DEF F
  <2> QED
    BY <2>3, <2>4
<1>4. \A S \in (SUBSET D) \ {{}} : Max(S) \in S
  BY <1>2, MaxProperties
<1>5. first \in [(SUBSET D) \ {{}} -> D] /\ \A S \in (SUBSET D) \ {{}} : first[S] \in S
  BY <1>4
<1>6. PICK g : Folds(g, D, Nat, 0, F, first)
  <2> HIDE DEF F, first, D, it
  <2>1. Foldable(D, Nat, 0, F, first)
    BY <1>2, <1>3, <1>5 DEF Foldable
  <2> QED
    BY <2>1, FoldExists
<1>7. g = [S \in SUBSET DOMAIN c |-> IF S = {} THEN 0 ELSE g[S \ {Max(S)}] + Size[c[Max(S)].text]]
  <2>1. ASSUME NEW S \in (SUBSET D) \ {{}} PROVE g[S] = g[S \ {Max(S)}] + Size[c[Max(S)].text]
    <3>1. g[S \ {Max(S)}] \in Nat /\ Max(S) \in D /\ first[S] = Max(S)
      BY <1>4, <1>6 DEF Folds
    <3> QED
      BY <1>6, <3>1 DEF Folds
  <2> DEFINE h == [S \in SUBSET D |-> IF S = {} THEN 0 ELSE g[S \ {Max(S)}] + Size[c[Max(S)].text]]
  <2>2. \A S \in SUBSET D : g[S] = h[S]
    BY <2>1, <1>6 DEF Folds
  <2>3. g = [S \in SUBSET D |-> g[S]] /\ h = [S \in SUBSET D |-> h[S]]
    BY <1>6 DEF Folds
  <2>4. g = h
    <3> HIDE DEF h
    <3> QED
      BY <2>2, <2>3
  <2> QED
    BY <2>4, <1>2
<1> HIDE DEF F, first
<1>8. it = [S \in SUBSET D |-> IF S = {} THEN 0 ELSE it[S \ {Max(S)}] + Size[c[Max(S)].text]]
  BY <1>7, <1>2
<1>9. it[{}] = 0 /\ \A S \in (SUBSET D) \ {{}} : it[S] = it[S \ {Max(S)}] + Size[c[Max(S)].text]
  <2> HIDE DEF it
  <2> QED
    BY <1>8
<1> HIDE DEF it
<1> DEFINE sums == [n \in 0..Len(c) |-> it[1..n]]
<1>10. sums[0] = 0
  BY <1>2, <1>9
<1>11. ASSUME NEW n \in 1..Len(c)
       PROVE  sums[n] = sums[n-1] + Size[c[n].text]
  <2>1. 1..n \in (SUBSET D) \ {{}} /\ n \in Nat \ {0}
    BY <1>2
  <2>2. Max(1..n) = n
    BY <2>1, MaxOfInterval
  <2>3. (1..n) \ {n} = 1..(n-1)
    BY <2>1
  <2>4. it[1..n] = it[1..(n-1)] + Size[c[n].text]
    BY <1>9, <2>1, <2>2, <2>3
  <2> QED
    BY <1>2, <2>4
<1> HIDE DEF sums
<1>12. \A n \in 1..Len(c) : Size[c[n].text] \in Nat
  <2>1. \A n \in 1..Len(c) : c[n] \in Entries
    OBVIOUS
  <2> QED
    BY <2>1, EntrySize
<1>13. \A n \in 0..Len(c) : sums[n] \in Nat
  <2> DEFINE T == {n \in Nat : n \in 0..Len(c) => sums[n] \in Nat}
  <2>1. 0 \in T
    BY <1>10
  <2>2. ASSUME NEW n \in Nat, n \in T PROVE n + 1 \in T
    <3>1. CASE n + 1 \in 0..Len(c)
      <4>1. n \in 0..Len(c) /\ n + 1 \in 1..Len(c) /\ (n + 1) - 1 = n
        BY <1>2, <3>1
      <4>2. sums[n] \in Nat /\ sums[n+1] = sums[n] + Size[c[n+1].text]
        BY <1>11, <2>2, <4>1
      <4> QED
        BY <1>12, <4>1, <4>2
    <3> QED
      BY <3>1
  <2> HIDE DEF T
  <2>3. Nat \subseteq T
    BY <2>1, <2>2, SetInduction
  <2>4. \A n \in 0..Len(c) : n \in T
    BY <1>2, <2>3
  <2> QED
    BY <2>4 DEF T
<1>14. Sums(c, sums)
  BY <1>2, <1>10, <1>11, <1>13 DEF Sums, sums
<1>15. sums[Len(c)] = it[D]
  BY <1>2 DEF sums
<1> QED
  BY <1>1, <1>2, <1>14, <1>15

\* The sum depends on the texts of the entries alone.
LEMMA SameTexts ==
  ASSUME NEW c \in Seq(Entries), NEW d \in Seq(Entries), NEW a, NEW b, Sums(c, a), Sums(d, b),
         NEW n \in 0..Len(c), n <= Len(d), \A i \in 1..n : c[i].text = d[i].text
  PROVE  a[n] = b[n]
<1> DEFINE T == {m \in Nat : m <= n => a[m] = b[m]}
<1>1. Len(c) \in Nat /\ Len(d) \in Nat /\ n \in Nat
  OBVIOUS
<1>2. 0 \in T
  BY DEF Sums
<1>3. ASSUME NEW m \in Nat, m \in T
      PROVE  m + 1 \in T
  <2>1. SUFFICES ASSUME m + 1 <= n
                 PROVE  a[m+1] = b[m+1]
    OBVIOUS
  <2>2. m + 1 \in 1..n /\ m + 1 \in 1..Len(c) /\ m + 1 \in 1..Len(d) /\ (m + 1) - 1 = m
    BY <1>1, <2>1
  <2>3. a[m] = b[m]
    BY <1>3, <2>1, <1>1
  <2>4. a[m+1] = a[m] + Size[c[m+1].text] /\ b[m+1] = b[m] + Size[d[m+1].text]
    BY <2>2 DEF Sums
  <2> QED
    BY <2>2, <2>3, <2>4
<1> HIDE DEF T
<1>4. Nat \subseteq T
  BY <1>2, <1>3, SetInduction
<1> QED
  BY <1>1, <1>4 DEF T

LEMMA BytesOfSameTexts ==
  ASSUME NEW c \in Seq(Entries), NEW d \in Seq(Entries), Len(d) = Len(c),
         \A i \in 1..Len(c) : c[i].text = d[i].text
  PROVE  Bytes(c) = Bytes(d)
<1>1. PICK a, b : /\ Sums(c, a) /\ Bytes(c) = a[Len(c)]
                  /\ Sums(d, b) /\ Bytes(d) = b[Len(d)]
  BY BytesAreSums
<1>2. Len(c) \in 0..Len(c) /\ Len(c) <= Len(d)
  OBVIOUS
<1> QED
  BY <1>1, <1>2, SameTexts

LEMMA BytesType ==
  ASSUME NEW c \in Seq(Entries)
  PROVE  Bytes(c) \in Nat
<1>1. Len(c) \in 0..Len(c)
  OBVIOUS
<1> QED
  BY <1>1, BytesAreSums DEF Sums

LEMMA BytesOfNone ==
  Bytes(<<>>) = 0
<1>1. <<>> \in Seq(Entries) /\ Len(<<>>) = 0
  OBVIOUS
<1> QED
  BY <1>1, BytesAreSums DEF Sums

LEMMA BytesOfAppend ==
  ASSUME NEW c \in Seq(Entries), NEW e \in Entries
  PROVE  Bytes(Append(c, e)) = Bytes(c) + Size[e.text]
<1> DEFINE d == Append(c, e)
<1>1. /\ d \in Seq(Entries) /\ Len(d) = Len(c) + 1 /\ Len(c) \in Nat /\ d[Len(c)+1] = e
      /\ \A i \in 1..Len(c) : d[i] = c[i]
  OBVIOUS
<1> HIDE DEF d
<1>2. PICK a : Sums(c, a) /\ Bytes(c) = a[Len(c)]
  BY BytesAreSums
<1>3. PICK b : Sums(d, b) /\ Bytes(d) = b[Len(d)]
  BY <1>1, BytesAreSums
<1>4. Len(c) \in 0..Len(c) /\ Len(c) <= Len(d)
  BY <1>1
<1>5. a[Len(c)] = b[Len(c)]
  BY <1>1, <1>2, <1>3, <1>4, SameTexts
<1>6. b[Len(d)] = b[Len(d) - 1] + Size[d[Len(d)].text] /\ Len(d) - 1 = Len(c)
  <2>1. Len(d) \in 1..Len(d)
    BY <1>1
  <2> QED
    BY <1>1, <1>3, <2>1 DEF Sums
<1>7. a[Len(c)] \in Nat
  BY <1>1, <1>2 DEF Sums
<1> QED
  BY <1>1, <1>2, <1>3, <1>5, <1>6, <1>7 DEF d

LEMMA BytesOfConcat ==
  ASSUME NEW c \in Seq(Entries), NEW d \in Seq(Entries)
  PROVE  Bytes(c \o d) = Bytes(c) + Bytes(d)
<1> DEFINE T == {t \in Seq(Entries) : Bytes(c \o t) = Bytes(c) + Bytes(t)}
<1>1. <<>> \in T
  <2>1. c \o <<>> = c /\ <<>> \in Seq(Entries)
    BY ConcatEmptySeq
  <2>2. Bytes(c) \in Nat
    BY BytesType
  <2> QED
    BY <2>1, <2>2, BytesOfNone
<1>2. ASSUME NEW t \in T, NEW e \in Entries
      PROVE  Append(t, e) \in T
  <2>1. c \o t \in Seq(Entries) /\ Append(t, e) \in Seq(Entries)
    OBVIOUS
  <2>2. c \o Append(t, e) = Append(c \o t, e)
    OBVIOUS
  <2>3. Bytes(Append(c \o t, e)) = Bytes(c \o t) + Size[e.text]
    BY <2>1, BytesOfAppend
  <2>4. Bytes(Append(t, e)) = Bytes(t) + Size[e.text] /\ Bytes(t) \in Nat /\ Bytes(c) \in Nat
    BY BytesOfAppend, BytesType
  <2>5. Size[e.text] \in Nat
    BY EntrySize
  <2>6. Bytes(c \o t) = Bytes(c) + Bytes(t)
    OBVIOUS
  <2>7. Bytes(c \o Append(t, e)) = Bytes(c) + Bytes(Append(t, e))
    BY <2>2, <2>3, <2>4, <2>5, <2>6
  <2> QED
    BY <2>1, <2>7
<1> HIDE DEF T
<1>3. Seq(Entries) \subseteq T
  BY <1>1, <1>2, SeqInduction
<1> QED
  BY <1>3 DEF T

-----------------------------------------------------------------------------
(* Lists without two entries of a key, and the operations on them.         *)

KeysOnce(c) == \A i, j \in 1..Len(c) : i # j => c[i].key # c[j].key
\* The lists the cache may be of entries in G.
Lists(G) == {c \in Seq(G) : KeysOnce(c)}

LEMMA ListType ==
  ASSUME NEW G \in SUBSET Entries, NEW c \in Lists(G)
  PROVE  /\ c \in Seq(Entries) /\ c \in Seq(G) /\ Len(c) \in Nat
         /\ \A i \in 1..Len(c) : c[i] \in G /\ c[i] \in Entries /\ Size[c[i].text] \in Nat
         /\ Bytes(c) \in Nat
<1>1. c \in Seq(G) /\ c \in Seq(Entries)
  BY SeqMonotonic DEF Lists
<1>2. \A i \in 1..Len(c) : c[i] \in G
  BY <1>1
<1>3. \A i \in 1..Len(c) : c[i] \in Entries /\ Size[c[i].text] \in Nat
  BY <1>2, EntrySize
<1> QED
  BY <1>1, <1>2, <1>3, BytesType

\* What the older and the younger entries take is what all of them take.
LEMMA BytesOfParts ==
  ASSUME NEW c \in Seq(Entries), NEW n \in 0..Len(c)
  PROVE  /\ SubSeq(c, 1, n) \in Seq(Entries) /\ SubSeq(c, n+1, Len(c)) \in Seq(Entries)
         /\ Bytes(c) = Bytes(SubSeq(c, 1, n)) + Bytes(SubSeq(c, n+1, Len(c)))
<1>1. /\ SubSeq(c, 1, n) \in Seq(Entries) /\ SubSeq(c, n+1, Len(c)) \in Seq(Entries)
  OBVIOUS
<1>2. 1 \in 1..Len(c)+1 /\ n \in 1-1..Len(c) /\ Len(c) \in n..Len(c)
  OBVIOUS
<1>3. SubSeq(c, 1, n) \o SubSeq(c, n+1, Len(c)) = c
  <2>1. SubSeq(c, 1, n) \o SubSeq(c, n+1, Len(c)) = SubSeq(c, 1, Len(c))
    BY <1>2, ConcatAdjacentSubSeq
  <2>2. SubSeq(c, 1, Len(c)) = c
    BY SubSeqFull
  <2> QED
    BY <2>1, <2>2
<1>4. Bytes(SubSeq(c, 1, n) \o SubSeq(c, n+1, Len(c))) = Bytes(SubSeq(c, 1, n)) + Bytes(SubSeq(c, n+1, Len(c)))
  BY <1>1, BytesOfConcat
<1> QED
  BY <1>1, <1>3, <1>4

LEMMA BytesWithoutOne ==
  ASSUME NEW c \in Seq(Entries), NEW i \in 1..Len(c)
  PROVE  Bytes(c) = Bytes(RemoveAt(c, i)) + Size[c[i].text]
<1> DEFINE a == SubSeq(c, 1, i-1)
           b == SubSeq(c, i+1, Len(c))
<1>1. i \in 0..Len(c) /\ i-1 \in 0..Len(c) /\ i \in Nat /\ c[i] \in Entries /\ i \in 1..i /\ 1 \in 1..Len(c) /\ i \in 1..Len(c)
  OBVIOUS
<1>2. a \in Seq(Entries) /\ b \in Seq(Entries)
  BY <1>1, BytesOfParts
<1>3. Bytes(c) = Bytes(SubSeq(c, 1, i)) + Bytes(b)
  BY <1>1, BytesOfParts
<1>4. SubSeq(c, 1, i) = Append(a, c[i])
  <2>1. SubSeq(c, 1, i) = a \o <<c[i]>>
    BY <1>1, SubSeqRecursiveSecond
  <2> QED
    BY <1>1, <1>2, <2>1, AppendIsConcat
<1>5. Bytes(Append(a, c[i])) = Bytes(a) + Size[c[i].text]
  BY <1>1, <1>2, BytesOfAppend
<1>6. Bytes(RemoveAt(c, i)) = Bytes(a) + Bytes(b)
  BY <1>2, BytesOfConcat DEF RemoveAt
<1>7. Bytes(a) \in Nat /\ Bytes(b) \in Nat /\ Size[c[i].text] \in Nat
  BY <1>1, <1>2, BytesType, EntrySize
<1> HIDE DEF a, b
<1>8. Bytes(c) = (Bytes(a) + Size[c[i].text]) + Bytes(b)
  BY <1>3, <1>4, <1>5
<1>9. Bytes(RemoveAt(c, i)) + Size[c[i].text] = (Bytes(a) + Size[c[i].text]) + Bytes(b)
  BY <1>6, <1>7
<1> QED
  BY <1>8, <1>9

LEMMA ListWithoutOne ==
  ASSUME NEW G \in SUBSET Entries, NEW c \in Lists(G), NEW i \in 1..Len(c)
  PROVE  /\ RemoveAt(c, i) \in Lists(G)
         /\ Len(RemoveAt(c, i)) = Len(c) - 1
         /\ Bytes(c) = Bytes(RemoveAt(c, i)) + Size[c[i].text]
         /\ \A j \in 1..Len(c)-1 : RemoveAt(c, i)[j].key # c[i].key
<1>1. c \in Seq(G) /\ c \in Seq(Entries) /\ Len(c) \in Nat /\ KeysOnce(c)
  BY ListType DEF Lists
<1>2. PICK d : d = RemoveAt(c, i)
  OBVIOUS
<1>3. d \in Seq(G) /\ Len(d) = Len(c) - 1 /\ \A j \in 1..Len(c)-1 : d[j] = IF j < i THEN c[j] ELSE c[j+1]
  BY <1>1, <1>2, RemoveAtProperties
<1>4. KeysOnce(d)
  <2>1. SUFFICES ASSUME NEW x \in 1..Len(c)-1, NEW y \in 1..Len(c)-1, x # y
                 PROVE  d[x].key # d[y].key
    BY <1>3 DEF KeysOnce
  <2> DEFINE At(z) == IF z < i THEN z ELSE z + 1
  <2>2. At(x) \in 1..Len(c) /\ At(y) \in 1..Len(c) /\ At(x) # At(y)
    BY <1>1, <2>1
  <2>3. d[x] = c[At(x)] /\ d[y] = c[At(y)]
    BY <1>3
  <2> HIDE DEF At
  <2> QED
    BY <1>1, <2>2, <2>3 DEF KeysOnce
<1>5. \A j \in 1..Len(c)-1 : d[j].key # c[i].key
  BY <1>1, <1>3 DEF KeysOnce
<1> QED
  BY <1>1, <1>2, <1>3, <1>4, <1>5, BytesWithoutOne DEF Lists

\* Where the first entry of a key is in a list, or 0.
Position(c, k) == SelectInSeq(c, LAMBDA e : e.key = k)

LEMMA Found ==
  ASSUME NEW c, Len(c) \in Nat, NEW k
  PROVE  \/ Position(c, k) = 0 /\ \A j \in 1..Len(c) : c[j].key # k
         \/ Position(c, k) \in 1..Len(c) /\ c[Position(c, k)].key = k
<1> DEFINE I == {j \in 1..Len(c) : c[j].key = k}
           i == Position(c, k)
<1>1. i = IF I # {} THEN Min(I) ELSE 0
  BY DEF Position, SelectInSeq
<1>2. I \subseteq Nat
  OBVIOUS
<1>3. CASE I = {}
  BY <1>1, <1>3
<1>4. CASE I # {}
  <2>1. i \in I
    BY <1>1, <1>2, <1>4, MinProperties
  <2> QED
    BY <2>1
<1> QED
  BY <1>3, <1>4

\* Lists with the right count.
Counted(G) == {m \in [entries : Lists(G), bytes : Nat] : m.bytes = Bytes(m.entries)}

LEMMA RemovedType ==
  ASSUME NEW G \in SUBSET Entries, NEW m \in Counted(G), NEW k
  PROVE  /\ Removed(m, k) \in Counted(G)
         /\ Len(Removed(m, k).entries) <= Len(m.entries) /\ Removed(m, k).bytes <= m.bytes
         /\ \A j \in 1..Len(Removed(m, k).entries) : Removed(m, k).entries[j].key # k
<1> DEFINE c == m.entries
           i == Position(c, k)
<1>1. c \in Lists(G) /\ m.bytes = Bytes(c) /\ Len(c) \in Nat
  BY ListType DEF Counted
<1>2. \/ i = 0 /\ \A j \in 1..Len(c) : c[j].key # k
      \/ i \in 1..Len(c) /\ c[i].key = k
  BY <1>1, Found
<1>3. Removed(m, k) = IF i = 0 THEN m
                      ELSE [entries |-> RemoveAt(c, i), bytes |-> m.bytes - Size[c[i].text]]
  BY DEF Removed, Position
<1> HIDE DEF i
<1>4. CASE i = 0
  BY <1>1, <1>2, <1>3, <1>4, ListType
<1>5. CASE i \in 1..Len(c) /\ c[i].key = k
  <2> DEFINE d == RemoveAt(c, i)
  <2>1. d \in Lists(G) /\ Len(d) = Len(c) - 1 /\ Bytes(c) = Bytes(d) + Size[c[i].text]
        /\ \A j \in 1..Len(c)-1 : d[j].key # c[i].key
    BY <1>1, <1>5, ListWithoutOne
  <2>2. Bytes(d) \in Nat /\ Size[c[i].text] \in Nat
    BY <1>1, <1>5, <2>1, ListType
  <2> HIDE DEF c, d
  <2>3. m.bytes - Size[c[i].text] = Bytes(d) /\ i # 0
    BY <1>1, <1>5, <2>1, <2>2
  <2>4. Removed(m, k) = [entries |-> d, bytes |-> Bytes(d)]
    BY <1>3, <2>3 DEF d
  <2>5. Removed(m, k) \in Counted(G)
    BY <2>1, <2>2, <2>4 DEF Counted
  <2> QED
    BY <1>1, <1>5, <2>1, <2>2, <2>4, <2>5 DEF c
<1> QED
  BY <1>2, <1>4, <1>5

LEMMA ListWithOneMore ==
  ASSUME NEW G \in SUBSET Entries, NEW c \in Lists(G), NEW e \in G,
         \A j \in 1..Len(c) : c[j].key # e.key
  PROVE  /\ Append(c, e) \in Lists(G)
         /\ Len(Append(c, e)) = Len(c) + 1
         /\ Bytes(Append(c, e)) = Bytes(c) + Size[e.text]
<1>1. c \in Seq(G) /\ c \in Seq(Entries) /\ Len(c) \in Nat /\ KeysOnce(c) /\ e \in Entries
  BY ListType DEF Lists
<1>2. PICK d : d = Append(c, e)
  OBVIOUS
<1>3. d \in Seq(G) /\ Len(d) = Len(c) + 1 /\ \A j \in 1..Len(c)+1 : d[j] = IF j = Len(c)+1 THEN e ELSE c[j]
  BY <1>1, <1>2, AppendProperties
<1>4. KeysOnce(d)
  BY <1>1, <1>3 DEF KeysOnce
<1>5. Bytes(d) = Bytes(c) + Size[e.text]
  BY <1>1, <1>2, BytesOfAppend
<1> QED
  BY <1>2, <1>3, <1>4, <1>5 DEF Lists

LEMMA TouchedNew ==
  ASSUME NEW G \in SUBSET Entries, NEW c \in Lists(G), NEW e \in G,
         \A j \in 1..Len(c) : c[j].key # e.key
  PROVE  Touched(c, e) = Append(c, e)
BY DEF Touched, RemoveFirstMatch

\* A hit changes the order alone.
LEMMA TouchedOld ==
  ASSUME NEW G \in SUBSET Entries, NEW c \in Lists(G), NEW h \in 1..Len(c)
  PROVE  /\ Touched(c, c[h]) \in Lists(G)
         /\ Len(Touched(c, c[h])) = Len(c)
         /\ Bytes(Touched(c, c[h])) = Bytes(c)
<1> DEFINE e == c[h]
           i == Position(c, e.key)
           d == RemoveAt(c, h)
<1>1. Len(c) \in Nat /\ KeysOnce(c) /\ c[h] \in G
  BY ListType DEF Lists
<1>2. i \in 1..Len(c) /\ c[i].key = e.key
  BY <1>1, Found
<1>3. i = h
  <2> HIDE DEF i
  <2> QED
    BY <1>1, <1>2 DEF KeysOnce
<1>4. Touched(c, e) = Append(d, e)
  <2>1. RemoveFirstMatch(c, LAMBDA x : x.key = e.key) = RemoveAt(c, i)
    BY <1>2 DEF RemoveFirstMatch, Position
  <2> QED
    BY <1>3, <2>1 DEF Touched
<1>5. /\ d \in Lists(G) /\ Len(d) = Len(c) - 1 /\ Bytes(c) = Bytes(d) + Size[e.text]
      /\ \A j \in 1..Len(c)-1 : d[j].key # e.key
  BY ListWithoutOne
<1> HIDE DEF d, e
<1>6. Append(d, e) \in Lists(G) /\ Len(Append(d, e)) = Len(d) + 1 /\ Bytes(Append(d, e)) = Bytes(d) + Size[e.text]
  BY <1>1, <1>5, ListWithOneMore DEF e
<1> QED
  BY <1>1, <1>4, <1>5, <1>6 DEF e

LEMMA ListOfYounger ==
  ASSUME NEW G \in SUBSET Entries, NEW c \in Lists(G), NEW n \in 0..Len(c)
  PROVE  /\ SubSeq(c, n+1, Len(c)) \in Lists(G)
         /\ Len(SubSeq(c, n+1, Len(c))) = Len(c) - n
         /\ Bytes(SubSeq(c, 1, n)) \in Nat /\ Bytes(SubSeq(c, n+1, Len(c))) \in Nat
         /\ Bytes(c) = Bytes(SubSeq(c, 1, n)) + Bytes(SubSeq(c, n+1, Len(c)))
<1>1. c \in Seq(G) /\ c \in Seq(Entries) /\ Len(c) \in Nat /\ KeysOnce(c)
  BY ListType DEF Lists
<1>2. PICK d : d = SubSeq(c, n+1, Len(c))
  OBVIOUS
<1>3. d \in Seq(G) /\ Len(d) = Len(c) - n /\ \A j \in 1..Len(c)-n : d[j] = c[n+j]
  BY <1>1, <1>2, SubSeqProperties
<1>4. KeysOnce(d)
  <2>1. SUFFICES ASSUME NEW i \in 1..Len(c)-n, NEW j \in 1..Len(c)-n, i # j
                 PROVE  d[i].key # d[j].key
    BY <1>3 DEF KeysOnce
  <2>2. n+i \in 1..Len(c) /\ n+j \in 1..Len(c) /\ n+i # n+j
    BY <1>1, <2>1
  <2>3. c[n+i].key # c[n+j].key
    BY <1>1, <2>2 DEF KeysOnce
  <2> QED
    BY <1>3, <2>3
<1>5. /\ SubSeq(c, 1, n) \in Seq(Entries) /\ d \in Seq(Entries)
      /\ Bytes(c) = Bytes(SubSeq(c, 1, n)) + Bytes(d)
  BY <1>1, <1>2, BytesOfParts
<1> QED
  BY <1>2, <1>3, <1>4, <1>5, BytesType DEF Lists

\* Pruning a list whose bytes are counted right brings it within the limits.
LEMMA PruneType ==
  ASSUME NEW G \in SUBSET Entries, NEW c \in Lists(G)
  PROVE  /\ Prune(c, Bytes(c)) \in Lists(G)
         /\ WithinLimits(Len(Prune(c, Bytes(c))), Bytes(Prune(c, Bytes(c))))
<1> DEFINE Fits(n) == WithinLimits(Len(c) - n, Bytes(c) - Bytes(SubSeq(c, 1, n)))
           Cut(n) == (n = Len(c) \/ Fits(n)) /\ \A m \in 0..(n-1) : ~Fits(m)
           cut == CHOOSE n \in 0..Len(c) : Cut(n)
           stale == {i \in 1..Len(c) : c[i].age = "stale"}
           rest == SubSeq(c, cut+1, Len(c))
           kept == IF cut > 0 THEN rest ELSE IF stale # {} THEN RemoveAt(c, Min(stale)) ELSE c
<1>1. Prune(c, Bytes(c)) = kept
  BY DEF Prune
<1>2. Len(c) \in Nat /\ Bytes(c) \in Nat
  BY ListType
<1>3. cut \in 0..Len(c) /\ (cut = Len(c) \/ Fits(cut))
  <2> DEFINE T == {n \in 0..Len(c) : n = Len(c) \/ Fits(n)}
  <2> HIDE DEF Fits
  <2>1. T \subseteq Nat /\ Len(c) \in T
    BY <1>2
  <2>2. PICK n \in T : \A y \in T : n <= y
    BY <2>1, LeastNumber
  <2>3. \A m \in 0..(n-1) : ~Fits(m)
    <3>1. SUFFICES ASSUME NEW m \in 0..(n-1), Fits(m) PROVE FALSE
      OBVIOUS
    <3>2. m \in T /\ ~(n <= m)
      BY <1>2, <3>1
    <3> QED
      BY <2>2, <3>2
  <2>4. n \in 0..Len(c) /\ Cut(n)
    BY <2>3
  <2> HIDE DEF Cut
  <2>5. cut \in 0..Len(c) /\ Cut(cut)
    BY <2>4
  <2> QED
    BY <2>5 DEF Cut
<1> HIDE DEF cut
<1>4. /\ rest \in Lists(G) /\ Len(rest) = Len(c) - cut /\ Bytes(SubSeq(c, 1, cut)) \in Nat
      /\ Bytes(rest) \in Nat /\ Bytes(c) = Bytes(SubSeq(c, 1, cut)) + Bytes(rest)
  BY <1>3, ListOfYounger
<1>5. Len(rest) <= MaxEntries /\ Bytes(rest) <= MaxBytes
  <2>1. CASE Fits(cut)
    <3>1. Len(c) - cut <= MaxEntries /\ Bytes(c) - Bytes(SubSeq(c, 1, cut)) <= MaxBytes
      BY <2>1 DEF WithinLimits
    <3>2. Bytes(c) - Bytes(SubSeq(c, 1, cut)) = Bytes(rest)
      <4> HIDE DEF rest
      <4> QED
        BY <1>4
    <3> QED
      BY <1>4, <3>1, <3>2
  <2>2. CASE cut = Len(c)
    <3>1. rest = <<>>
      BY <1>2, <1>4, <2>2, EmptySeq DEF Lists
    <3>2. Len(<<>>) = 0 /\ Bytes(<<>>) = 0
      BY BytesOfNone
    <3> HIDE DEF rest
    <3> QED
      BY <3>1, <3>2, LimitAssumption
  <2> QED
    BY <1>3, <2>1, <2>2
<1>6. CASE cut > 0
  BY <1>1, <1>4, <1>5, <1>6 DEF WithinLimits
<1>7. CASE cut = 0
  <2>1. Len(c) <= MaxEntries /\ Bytes(c) <= MaxBytes
    <3>1. rest = c
      BY <1>2, <1>7, SubSeqFull DEF Lists
    <3> QED
      BY <1>5, <3>1
  <2>2. CASE stale = {}
    BY <1>1, <1>7, <2>1, <2>2 DEF WithinLimits
  <2>3. CASE stale # {}
    <3> DEFINE i == Min(stale)
               d == RemoveAt(c, i)
    <3>1. i \in stale
      <4>1. stale \subseteq Nat
        OBVIOUS
      <4> QED
        BY <4>1, <2>3, MinProperties
    <3>2. i \in 1..Len(c)
      BY <3>1
    <3> HIDE DEF i
    <3>3. d \in Lists(G) /\ Len(d) = Len(c) - 1 /\ Bytes(c) = Bytes(d) + Size[c[i].text]
      BY <3>2, ListWithoutOne
    <3>4. Bytes(d) \in Nat /\ Size[c[i].text] \in Nat
      BY <3>2, <3>3, ListType
    <3>5. Prune(c, Bytes(c)) = d
      BY <1>1, <1>7, <2>3 DEF i
    <3> HIDE DEF d
    <3>6. Len(d) <= MaxEntries /\ Bytes(d) <= MaxBytes
      BY <1>2, <2>1, <3>3, <3>4, LimitAssumption
    <3> QED
      BY <3>3, <3>5, <3>6 DEF WithinLimits
  <2> QED
    BY <2>2, <2>3
<1> QED
  BY <1>2, <1>3, <1>6, <1>7

\* storeFileCacheEntry, on a list whose bytes are counted right.
LEMMA StoreType ==
  ASSUME NEW G \in SUBSET Entries, cache \in Lists(G), totalBytes = Bytes(cache), NEW e \in G, Store(e)
  PROVE  /\ cache' \in Lists(G) /\ totalBytes' = Bytes(cache')
         /\ WithinLimits(Len(cache'), totalBytes')
<1> DEFINE m == Removed([entries |-> cache, bytes |-> totalBytes], e.key)
           c == Touched(m.entries, e)
           kept == Prune(c, m.bytes + Size[e.text])
<1>1. cache' = kept /\ totalBytes' = (m.bytes + Size[e.text]) - (Bytes(c) - Bytes(kept))
  BY DEF Store
<1>2. m \in Counted(G) /\ \A j \in 1..Len(m.entries) : m.entries[j].key # e.key
  <2>1. [entries |-> cache, bytes |-> totalBytes] \in Counted(G)
    BY ListType DEF Counted
  <2> QED
    BY <2>1, RemovedType
<1> HIDE DEF m
<1>3. m.entries \in Lists(G) /\ m.bytes = Bytes(m.entries) /\ m.bytes \in Nat
  BY <1>2 DEF Counted
<1>4. c \in Lists(G) /\ Bytes(c) = m.bytes + Size[e.text]
  BY <1>2, <1>3, TouchedNew, ListWithOneMore
<1> HIDE DEF c
<1>5. kept = Prune(c, Bytes(c)) /\ Bytes(c) \in Nat
  BY <1>4, ListType
<1>6. kept \in Lists(G) /\ WithinLimits(Len(kept), Bytes(kept))
  BY <1>4, <1>5, PruneType
<1>7. Bytes(kept) \in Nat
  BY <1>6, ListType
<1> HIDE DEF kept
<1>8. totalBytes' = Bytes(kept)
  BY <1>1, <1>4, <1>5, <1>7
<1> QED
  BY <1>1, <1>6, <1>8

\* An entry of an older age takes as much.
LEMMA GrowType ==
  ASSUME NEW G \in SUBSET Entries, cache \in Lists(G),
         \A e \in G, a \in Ages : [e EXCEPT !.age = a] \in G, NEW i, Grow(i)
  PROVE  cache' \in Lists(G) /\ Bytes(cache') = Bytes(cache) /\ Len(cache') = Len(cache)
<1>1. i \in 1..Len(cache) /\ \E a \in Ages : cache' = [cache EXCEPT ![i].age = a]
  BY DEF Grow, Ages
<1>2. PICK a \in Ages : cache' = [cache EXCEPT ![i].age = a]
  BY <1>1
<1>3. cache \in Seq(G) /\ cache \in Seq(Entries) /\ KeysOnce(cache) /\ cache[i] \in G
  BY <1>1, ListType DEF Lists
<1>4. /\ [cache[i] EXCEPT !.age = a] \in G /\ [cache[i] EXCEPT !.age = a].key = cache[i].key
      /\ [cache[i] EXCEPT !.age = a].text = cache[i].text
  BY <1>3 DEF Entries
<1>5. cache' = [cache EXCEPT ![i] = [cache[i] EXCEPT !.age = a]]
  BY <1>1, <1>2, <1>3
<1>6. cache' \in Seq(G) /\ Len(cache') = Len(cache)
      /\ \A j \in 1..Len(cache) : cache'[j].key = cache[j].key /\ cache'[j].text = cache[j].text
  <2>1. cache' \in Seq(G) /\ Len(cache') = Len(cache)
    BY <1>1, <1>3, <1>4, <1>5, ExceptSeq
  <2>2. \A j \in 1..Len(cache) : cache'[j] = IF j = i THEN [cache[i] EXCEPT !.age = a] ELSE cache[j]
    BY <1>1, <1>3, <1>5
  <2> QED
    BY <1>4, <2>1, <2>2
<1>7. KeysOnce(cache')
  BY <1>3, <1>6 DEF KeysOnce
<1>8. Bytes(cache') = Bytes(cache)
  <2>1. cache' \in Seq(Entries)
    BY <1>6, SeqMonotonic
  <2> QED
    BY <1>3, <1>6, <2>1, BytesOfSameTexts
<1> QED
  BY <1>6, <1>7, <1>8 DEF Lists

\* clearFileCachePath: whatever it removes, the count follows.
LEMMA ClearedType ==
  ASSUME NEW G \in SUBSET Entries, cache \in Lists(G), totalBytes = Bytes(cache),
         WithinLimits(Len(cache), totalBytes), NEW f
  PROVE  /\ Cleared(f) \in Counted(G)
         /\ WithinLimits(Len(Cleared(f).entries), Cleared(f).bytes)
<1> DEFINE D == 1..Len(cache)
           A == {m \in Counted(G) : WithinLimits(Len(m.entries), m.bytes)}
           Step(m, e) == IF FileOf[e.key] = f THEN Removed(m, e.key) ELSE m
           base == [entries |-> cache, bytes |-> totalBytes]
           F == [p \in A \X D |-> Step(p[1], cache[p[2]])]
           first == [S \in (SUBSET D) \ {{}} |-> Max(S)]
           it == CHOOSE it : it = [S \in SUBSET DOMAIN cache |->
                                     IF S = {} THEN base ELSE Step(it[S \ {Max(S)}], cache[Max(S)])]
<1>1. Cleared(f) = it[DOMAIN cache]
  BY DEF Cleared, FoldLeft, MapThenFoldSet
<1>2. DOMAIN cache = D /\ Len(cache) \in Nat /\ IsFiniteSet(D)
  BY FS_Interval, ListType DEF Lists
<1>3. ASSUME NEW m \in A, NEW e
      PROVE  Step(m, e) \in A
  <2> DEFINE r == Removed(m, e.key)
  <2>1. r \in Counted(G) /\ Len(r.entries) <= Len(m.entries) /\ r.bytes <= m.bytes
    BY RemovedType
  <2>2. m.entries \in Lists(G) /\ m.bytes \in Nat /\ r.entries \in Lists(G) /\ r.bytes \in Nat
    BY <2>1 DEF Counted
  <2>3. Len(m.entries) \in Nat /\ Len(r.entries) \in Nat
    BY <2>2, ListType
  <2> HIDE DEF r
  <2>4. r \in A
    BY <2>1, <2>2, <2>3, LimitAssumption DEF WithinLimits
  <2> QED
    BY <2>4 DEF r
<1>4. base \in A
  BY ListType DEF Counted
<1>5. \A S \in (SUBSET D) \ {{}} : Max(S) \in S
  BY <1>2, MaxProperties
<1> HIDE DEF A, Step, base
<1>6. PICK g : Folds(g, D, A, base, F, first)
  <2>1. \A p \in A \X D : F[p] \in A
    <3>1. \A p \in A \X D : p[1] \in A /\ F[p] = Step(p[1], cache[p[2]])
      OBVIOUS
    <3> QED
      BY <1>3, <3>1
  <2>2. F = [p \in A \X D |-> F[p]]
    OBVIOUS
  <2>3. first \in [(SUBSET D) \ {{}} -> D] /\ \A S \in (SUBSET D) \ {{}} : first[S] \in S
    BY <1>5
  <2> HIDE DEF F, first, D, it
  <2>4. Foldable(D, A, base, F, first)
    BY <1>2, <1>4, <2>1, <2>2, <2>3 DEF Foldable
  <2> QED
    BY <2>4, FoldExists
<1> DEFINE h == [S \in SUBSET D |-> IF S = {} THEN base ELSE Step(g[S \ {Max(S)}], cache[Max(S)])]
<1>7. g = h
  <2>1. ASSUME NEW S \in (SUBSET D) \ {{}}
        PROVE  g[S] = Step(g[S \ {Max(S)}], cache[Max(S)])
    <3>1. g[S \ {Max(S)}] \in A /\ Max(S) \in D /\ first[S] = Max(S)
      BY <1>5, <1>6 DEF Folds
    <3> QED
      BY <1>6, <3>1 DEF Folds
  <2>2. \A S \in SUBSET D : g[S] = h[S]
    BY <2>1, <1>6 DEF Folds
  <2>3. g = [S \in SUBSET D |-> g[S]] /\ h = [S \in SUBSET D |-> h[S]]
    BY <1>6 DEF Folds
  <2> HIDE DEF h
  <2> QED
    BY <2>2, <2>3
<1>8. it = [S \in SUBSET D |-> IF S = {} THEN base ELSE Step(it[S \ {Max(S)}], cache[Max(S)])]
  BY <1>2, <1>7
<1> HIDE DEF it, F, first, h
<1> DEFINE T == {S \in SUBSET D : it[S] \in A}
<1>9. {} \in T
  BY <1>4, <1>8
<1>10. ASSUME NEW S \in (SUBSET D) \ {{}}
       PROVE  \E x \in S : S \ {x} \in T => S \in T
  <2>1. Max(S) \in S /\ it[S] = Step(it[S \ {Max(S)}], cache[Max(S)])
    BY <1>5, <1>8
  <2>2. it[S \ {Max(S)}] \in A => it[S] \in A
    BY <1>3, <2>1
  <2> QED
    BY <2>1, <2>2
<1>11. SUBSET D \subseteq T
  <2>1. IsFiniteSet(D)
    BY <1>2
  <2> HIDE DEF T, D
  <2> QED
    BY <2>1, <1>9, <1>10, SubsetInduction
<1>12. it[D] \in A
  BY <1>11
<1> QED
  BY <1>1, <1>2, <1>12 DEF A

-----------------------------------------------------------------------------
(* What the cache and the indexes hold.                                    *)

Between(a, b, c) == a <= b /\ b <= c

\* The entries, and the indexes of a key, that are as new as they say, and no newer
\* than the file is.
Good == {e \in Entries : Between(e.sig, e.text, Stat(e.key)) /\ Between(e.sig, e.bounds, Stat(e.key))}
Exact(k) == {x \in Indexes : Between(x.sig, x.bounds, Stat(k))} \cup {None}

Edited == \A f \in Files : version[f] <= MaxEdits /\ foreign[f] <= version[f]
Listed == cache \in Lists(Good) /\ totalBytes = Bytes(cache) /\ WithinLimits(Len(cache), totalBytes)
Indexed == \A k \in Keys : index[k] \in Exact(k) /\ dirty[k] \in Exact(k)
Informed ==
  \A r \in Requests :
    load[r] # None
      => /\ load[r].known # None => Between(load[r].sig, load[r].known, Stat(load[r].key))
         /\ load[r].read # None => load[r].read <= Stat(load[r].key)
Forgotten == \A q \in Requests : waits[q] = None => asked[q] = None

Contents == Edited /\ Listed /\ Indexed /\ Informed /\ Forgotten /\ open \in BOOLEAN

\* The bound on a run is a bound on each file's version.
LEMMA EditBound ==
  ASSUME version \in [Files -> Nat], NEW f \in Files, Edit(f)
  PROVE  version[f] < MaxEdits
<1> DEFINE Chosen(S) == CHOOSE x \in S : TRUE
           first == [S \in (SUBSET Files) \ {{}} |-> Chosen(S)]
           F == [p \in Nat \X Files |-> version[p[2]] + p[1]]
           it == CHOOSE it : it = [S \in SUBSET DOMAIN version |->
                                     IF S = {} THEN 0
                                     ELSE version[Chosen(S)] + it[S \ {Chosen(S)}]]
<1>1. it[DOMAIN version] < MaxEdits
  BY DEF Edit, FoldFunction, FoldFunctionOnSet, MapThenFoldSet
<1>2. DOMAIN version = Files /\ IsFiniteSet(Files)
  BY FinitenessAssumption
<1>3. \A S \in (SUBSET Files) \ {{}} : Chosen(S) \in S
  OBVIOUS
<1> HIDE DEF Chosen
<1>4. PICK g : Folds(g, Files, Nat, 0, F, first)
  <2>1. \A p \in Nat \X Files : F[p] \in Nat
    OBVIOUS
  <2>2. F = [p \in Nat \X Files |-> F[p]]
    OBVIOUS
  <2>3. first \in [(SUBSET Files) \ {{}} -> Files] /\ \A S \in (SUBSET Files) \ {{}} : first[S] \in S
    BY <1>3
  <2> HIDE DEF F, first, it
  <2>4. Foldable(Files, Nat, 0, F, first)
    BY <1>2, <2>1, <2>2, <2>3 DEF Foldable
  <2> QED
    BY <2>4, FoldExists
<1> DEFINE h == [S \in SUBSET Files |-> IF S = {} THEN 0
                   ELSE version[Chosen(S)] + g[S \ {Chosen(S)}]]
<1>5. g = h
  <2>1. ASSUME NEW S \in (SUBSET Files) \ {{}}
        PROVE  g[S] = version[Chosen(S)] + g[S \ {Chosen(S)}]
    <3>1. /\ g[S \ {Chosen(S)}] \in Nat /\ Chosen(S) \in Files
          /\ first[S] = Chosen(S)
      BY <1>3, <1>4 DEF Folds
    <3> QED
      BY <1>4, <3>1 DEF Folds
  <2>2. \A S \in SUBSET Files : g[S] = h[S]
    BY <2>1, <1>4 DEF Folds
  <2>3. g = [S \in SUBSET Files |-> g[S]] /\ h = [S \in SUBSET Files |-> h[S]]
    BY <1>4 DEF Folds
  <2> HIDE DEF h
  <2> QED
    BY <2>2, <2>3
<1>6. it = [S \in SUBSET Files |-> IF S = {} THEN 0
                   ELSE version[Chosen(S)] + it[S \ {Chosen(S)}]]
  BY <1>2, <1>5
<1> HIDE DEF it, F, first, h
<1> DEFINE T == {S \in SUBSET Files : it[S] \in Nat /\ \A x \in S : version[x] <= it[S]}
<1>7. {} \in T
  BY <1>6
<1>8. ASSUME NEW S \in (SUBSET Files) \ {{}}
      PROVE  \E x \in S : S \ {x} \in T => S \in T
  <2> DEFINE x == Chosen(S)
  <2>1. x \in S /\ it[S] = version[x] + it[S \ {x}]
    BY <1>3, <1>6
  <2>2. \A y \in S : version[y] \in Nat
    OBVIOUS
  <2> HIDE DEF x
  <2>3. ASSUME S \ {x} \in T PROVE S \in T
    BY <2>1, <2>2, <2>3
  <2> QED
    BY <2>1, <2>3
<1>9. SUBSET Files \subseteq T
  <2>1. IsFiniteSet(Files)
    BY <1>2
  <2> HIDE DEF T
  <2> QED
    BY <2>1, <1>7, <1>8, SubsetInduction
<1>10. version[f] <= it[Files] /\ it[Files] \in Nat /\ version[f] \in Nat
  BY <1>9
<1> QED
  BY <1>1, <1>2, <1>10, LimitAssumption

LEMMA ExactType ==
  ASSUME NEW k, NEW x \in Exact(k), x # None
  PROVE  x.sig \in Nat /\ x.bounds \in Nat /\ Between(x.sig, x.bounds, Stat(k))
<1>1. x \in Indexes /\ Between(x.sig, x.bounds, Stat(k))
  BY DEF Exact
<1> QED
  BY <1>1, LimitAssumption DEF Indexes, Versions

LEMMA StatBound ==
  ASSUME Shape, Edited, NEW k \in Keys
  PROVE  FileOf[k] \in Files /\ Stat(k) \in Nat /\ Stat(k) <= MaxEdits /\ Stat(k) \in Versions
BY StatType, LimitAssumption DEF Edited, Stat, Versions

\* An entry made from a text that was read no earlier than the signature was taken.
LEMMA EntryIsGood ==
  ASSUME Shape, Edited, NEW k \in Keys, NEW v \in Nat, NEW t \in Nat, Between(v, t, Stat(k)),
         NEW known \in Nat \cup {None}, known # None => Between(v, known, Stat(k))
  PROVE  Entry(k, v, t, known) \in Good
<1>1. Stat(k) \in Nat /\ Stat(k) <= MaxEdits
  BY StatBound
<1>2. v \in Versions /\ t \in Versions /\ (known # None => known \in Versions)
  BY <1>1, LimitAssumption DEF Between, Versions
<1> DEFINE b == IF known = None THEN t ELSE known
<1>3. b \in Versions /\ Between(v, b, Stat(k))
  BY <1>2
<1>4. Entry(k, v, t, known) = [key |-> k, sig |-> v, text |-> t, age |-> "fresh", bounds |-> b]
  BY DEF Entry
<1> HIDE DEF b
<1> QED
  BY <1>2, <1>3, <1>4 DEF Good, Entries, Ages

LEMMA KnownIsExact ==
  ASSUME Shape, Indexed, NEW k \in Keys, NEW v
  PROVE  /\ KnownBounds(k, v) \in Nat \cup {None}
         /\ KnownBounds(k, v) # None => Between(v, KnownBounds(k, v), Stat(k))
<1>1. Stat(k) \in Nat /\ KnownBounds(k, v) \in Nat \cup {None}
  BY StatType
<1>2. index[k] # None => Between(index[k].sig, index[k].bounds, Stat(k))
  BY ExactType DEF Indexed
<1> QED
  BY <1>1, <1>2 DEF KnownBounds

\* What is kept is as exact as the entry.
LEMMA KeepContents ==
  ASSUME Shape, Edited, Listed, Indexed, UNCHANGED fileVars, NEW e \in Good, NEW known, Keep(e, known)
  PROVE  Listed' /\ Indexed'
<1>1. UNCHANGED version /\ Good' = Good /\ \A k : Exact(k)' = Exact(k)
  BY DEF fileVars, Good, Exact, Stat
<1>2. Good \in SUBSET Entries
  BY DEF Good
<1>3. Listed'
  <2>1. Store(e)
    BY DEF Keep
  <2>2. /\ cache' \in Lists(Good) /\ totalBytes' = Bytes(cache')
        /\ WithinLimits(Len(cache'), totalBytes')
    BY <1>2, <2>1, StoreType DEF Listed
  <2> QED
    BY <1>1, <2>2 DEF Listed
<1>4. Indexed'
  <2>1. e.key \in Keys /\ [sig |-> e.sig, bounds |-> e.bounds] \in Exact(e.key)
    BY DEF Good, Entries, Exact, Indexes
  <2>2. index' = index /\ (dirty' = dirty \/ dirty' = [dirty EXCEPT ![e.key] = [sig |-> e.sig, bounds |-> e.bounds]])
    BY DEF Keep
  <2>3. dirty \in [Keys -> Index \cup {None}]
    BY DEF Shape
  <2> QED
    BY <1>1, <2>1, <2>2, <2>3 DEF Indexed
<1> QED
  BY <1>3, <1>4

LEMMA ListedRests ==
  ASSUME Listed, Indexed, UNCHANGED <<version, cacheVars, indexVars>>
  PROVE  Listed' /\ Indexed'
<1>1. Good' = Good /\ \A k : Exact(k)' = Exact(k)
  BY DEF Good, Exact, Stat
<1> QED
  BY <1>1 DEF Listed, Indexed, cacheVars, indexVars

\* Loads that end, or only lose or gain a waiter, stay informed.
LEMMA InformedRests ==
  ASSUME Informed, UNCHANGED version,
         \A r \in Requests : load'[r] # None =>
           /\ load[r] # None /\ load'[r].key = load[r].key /\ load'[r].sig = load[r].sig
           /\ load'[r].known = load[r].known /\ load'[r].read = load[r].read
  PROVE  Informed'
<1>1. \A k : Stat(k)' = Stat(k)
  BY DEF Stat
<1> QED
  BY <1>1 DEF Informed

LEMMA EditedRests ==
  ASSUME Edited, UNCHANGED fileVars
  PROVE  Edited'
BY DEF Edited, fileVars

LEMMA SettleContents ==
  ASSUME Shape, Contents, UNCHANGED version, NEW settled \in SUBSET Requests, NEW st, SettleLoads(settled, st)
  PROVE  Informed' /\ Forgotten'
<1>1. /\ load' = [r \in Requests |-> IF r \in settled THEN None ELSE load[r]]
      /\ waits' = [q \in Requests |-> IF waits[q] \in settled THEN None ELSE waits[q]]
      /\ asked' = [q \in Requests |-> IF waits[q] \in settled THEN None ELSE asked[q]]
  BY DEF SettleLoads
<1>2. Informed'
  BY <1>1, InformedRests DEF Contents
<1>3. Forgotten'
  BY <1>1 DEF Contents, Forgotten
<1> QED
  BY <1>2, <1>3

-----------------------------------------------------------------------------
LEMMA HitContents ==
  ASSUME CacheInv, Contents, NEW q \in Requests, NEW k \in Keys, RequestHit(q, k)
  PROVE  Contents'
<1>1. /\ UNCHANGED <<fileVars, totalBytes, indexVars, loadVars, waits, asked, poolVars>>
      /\ \E e \in Hits(k) : cache' = Touched(cache, e)
  BY DEF RequestHit, End
<1>2. Good' = Good /\ (\A j : Exact(j)' = Exact(j)) /\ Good \in SUBSET Entries
  BY <1>1 DEF fileVars, Good, Exact, Stat
<1>3. PICK e \in Hits(k) : cache' = Touched(cache, e)
  BY <1>1
<1>4. cache \in Lists(Good) /\ totalBytes = Bytes(cache) /\ WithinLimits(Len(cache), totalBytes)
  BY DEF Contents, Listed
<1>5. PICK h \in 1..Len(cache) : e = cache[h]
  BY <1>2, <1>4, ListType DEF Hits, Range
<1>6. cache' \in Lists(Good) /\ Len(cache') = Len(cache) /\ Bytes(cache') = Bytes(cache)
  BY <1>2, <1>3, <1>4, <1>5, TouchedOld
<1>7. Listed'
  BY <1>1, <1>2, <1>4, <1>6 DEF Listed
<1>8. Indexed'
  BY <1>1, <1>2 DEF Contents, Indexed, indexVars
<1>9. Informed'
  BY <1>1, InformedRests DEF Contents, fileVars, loadVars
<1>10. Edited' /\ Forgotten' /\ open' \in BOOLEAN
  BY <1>1, EditedRests DEF Contents, Forgotten, poolVars
<1> QED
  BY <1>7, <1>8, <1>9, <1>10 DEF Contents

LEMMA JoinContents ==
  ASSUME CacheInv, Contents, NEW q \in Requests, NEW k \in Keys, RequestJoin(q, k)
  PROVE  Contents'
<1>1. /\ waits' = [waits EXCEPT ![q] = inflight[k]] /\ asked' = [asked EXCEPT ![q] = Stat(k)]
      /\ load' = [load EXCEPT ![inflight[k]].waiters = @ + 1] /\ inflight[k] # None
      /\ UNCHANGED <<fileVars, cacheVars, indexVars, poolVars>>
  BY DEF RequestJoin, WaitFor
<1>2. inflight[k] \in Requests /\ load[inflight[k]] \in Record
  BY <1>1 DEF CacheInv, Shape, Tied
<1>3. ASSUME NEW r \in Requests, load'[r] # None
      PROVE  /\ load[r] # None /\ load'[r].key = load[r].key /\ load'[r].sig = load[r].sig
             /\ load'[r].known = load[r].known /\ load'[r].read = load[r].read
  <2>1. load[r] # None
    BY <1>1, <1>2, <1>3, NoneAssumption DEF CacheInv, Shape, Record
  <2> QED
    BY <1>1, <1>2, <2>1 DEF CacheInv, Shape, Record
<1>4. Informed'
  BY <1>1, <1>3, InformedRests DEF Contents, fileVars
<1>5. Forgotten'
  BY <1>1, <1>2 DEF Contents, Forgotten, CacheInv, Shape
<1> QED
  BY <1>1, <1>4, <1>5, EditedRests, ListedRests DEF Contents, fileVars, poolVars

LEMMA StartContents ==
  ASSUME CacheInv, Contents, NEW q \in Requests, NEW k \in Keys, RequestLoad(q, k)
  PROVE  Contents'
<1> DEFINE l == [key |-> k, sig |-> Stat(k), known |-> KnownBounds(k, Stat(k)), read |-> None, waiters |-> 1]
<1>1. /\ waits' = [waits EXCEPT ![q] = q] /\ asked' = [asked EXCEPT ![q] = Stat(k)]
      /\ load' = [load EXCEPT ![q] = l]
      /\ UNCHANGED <<fileVars, cacheVars, indexVars>>
      /\ Pool!Start(q) \/ Pool!Wait(q)
  BY DEF RequestLoad, WaitFor
<1>2. open' = open
  BY <1>1 DEF Pool!Start, Pool!Wait
<1>3. \A j : Stat(j)' = Stat(j)
  BY <1>1 DEF fileVars, Stat
<1>4. l.key = k /\ l.sig = Stat(k) /\ l.read = None /\ l.known = KnownBounds(k, Stat(k))
  OBVIOUS
<1>5. l.known # None => Between(l.sig, l.known, Stat(k))
  BY <1>4, KnownIsExact DEF CacheInv, Contents
<1>6. \A r \in Requests : load'[r] = IF r = q THEN l ELSE load[r]
  BY <1>1 DEF CacheInv, Shape
<1> HIDE DEF l
<1>7. Informed'
  BY <1>3, <1>4, <1>5, <1>6 DEF Contents, Informed
<1>8. Forgotten'
  BY <1>1, NoneAssumption DEF Contents, Forgotten, CacheInv, Shape
<1> QED
  BY <1>1, <1>2, <1>7, <1>8, EditedRests, ListedRests DEF Contents, fileVars

LEMMA LocalContents ==
  ASSUME CacheInv, Contents, NEW q \in Requests, NEW k \in Keys, RequestLocal(q, k)
  PROVE  Contents'
<1> DEFINE known == KnownBounds(k, Stat(k))
           e == Entry(k, Stat(k), Stat(k), known)
<1>1. /\ UNCHANGED <<fileVars, loadVars, waits, asked>> /\ Pool!Refuse(q)
      /\ Keep(e, known) \/ UNCHANGED <<cacheVars, indexVars>>
  BY DEF RequestLocal, End
<1>2. open' = open
  BY <1>1 DEF Pool!Refuse
<1>3. Stat(k) \in Nat /\ Between(Stat(k), Stat(k), Stat(k))
  BY StatBound DEF CacheInv, Contents, Between
<1>4. known \in Nat \cup {None} /\ (known # None => Between(Stat(k), known, Stat(k)))
  BY KnownIsExact DEF CacheInv, Contents
<1>5. e \in Good
  BY <1>3, <1>4, EntryIsGood DEF CacheInv, Contents
<1> HIDE DEF e, known
<1>6. Listed' /\ Indexed'
  BY <1>1, <1>5, KeepContents, ListedRests DEF CacheInv, Contents, fileVars
<1>7. Informed'
  BY <1>1, InformedRests DEF Contents, fileVars, loadVars
<1> QED
  BY <1>1, <1>2, <1>6, <1>7, EditedRests DEF Contents, Forgotten

LEMMA AbortContents ==
  ASSUME CacheInv, Contents, NEW q \in Requests, AbortRequest(q)
  PROVE  Contents'
<1> DEFINE r == waits[q]
<1>1. /\ waits' = [waits EXCEPT ![q] = None] /\ asked' = [asked EXCEPT ![q] = None]
      /\ UNCHANGED <<fileVars, cacheVars, indexVars>> /\ status[q] = "waiting"
      /\ \/ load' = [load EXCEPT ![r] = None] /\ (Pool!Withdraw(r) \/ Pool!Cancel(r))
         \/ load' = [load EXCEPT ![r].waiters = @ - 1] /\ UNCHANGED poolVars
  BY DEF AbortRequest
<1>2. open' = open
  BY <1>1 DEF Pool!Withdraw, Pool!Cancel, Pool!Settle, poolVars
<1>3. r \in Requests /\ load[r] \in Record
  <2>1. r \in Requests
    BY <1>1 DEF CacheInv, Shape, Tied
  <2> QED
    BY <2>1 DEF CacheInv, Shape, Wanted, Waiting
<1>4. ASSUME NEW x \in Requests, load'[x] # None
      PROVE  /\ load[x] # None /\ load'[x].key = load[x].key /\ load'[x].sig = load[x].sig
             /\ load'[x].known = load[x].known /\ load'[x].read = load[x].read
  <2>1. CASE load' = [load EXCEPT ![r] = None]
    BY <1>3, <1>4, <2>1 DEF CacheInv, Shape
  <2>2. CASE load' = [load EXCEPT ![r].waiters = @ - 1]
    <3>1. load[x] # None
      BY <1>3, <1>4, <2>2, NoneAssumption DEF CacheInv, Shape, Record
    <3> QED
      BY <1>3, <2>2, <3>1 DEF CacheInv, Shape, Record
  <2> QED
    BY <1>1, <2>1, <2>2
<1>5. Informed'
  BY <1>1, <1>4, InformedRests DEF Contents, fileVars
<1>6. Forgotten'
  BY <1>1 DEF Contents, Forgotten, CacheInv, Shape
<1> QED
  BY <1>1, <1>2, <1>5, <1>6, EditedRests, ListedRests DEF Contents, fileVars

LEMMA ReadContents ==
  ASSUME CacheInv, Contents, NEW r \in Requests, ReadFile(r)
  PROVE  Contents'
<1>1. /\ phase[r] = "running" /\ load' = [load EXCEPT ![r].read = Stat(load[r].key)]
      /\ UNCHANGED <<fileVars, cacheVars, indexVars, requestVars, poolVars>>
  BY DEF ReadFile
<1>2. load[r] \in Record /\ load[r].key \in Keys /\ load[r] # None
  BY <1>1, LoadType, NoneAssumption DEF Active, CacheInv, Wanted
<1>3. \A j : Stat(j)' = Stat(j)
  BY <1>1 DEF fileVars, Stat
<1>4. ASSUME NEW x \in Requests, load'[x] # None
      PROVE  /\ load'[x].known # None => Between(load'[x].sig, load'[x].known, Stat(load'[x].key))
             /\ load'[x].read # None => load'[x].read <= Stat(load'[x].key)
  <2>1. CASE x = r
    <3>1. /\ load'[r].key = load[r].key /\ load'[r].sig = load[r].sig
          /\ load'[r].known = load[r].known /\ load'[r].read = Stat(load[r].key)
      BY <1>1, <1>2 DEF CacheInv, Shape, Record
    <3>2. Stat(load[r].key) \in Nat
      BY <1>2, StatBound DEF CacheInv, Contents
    <3> QED
      BY <1>2, <2>1, <3>1, <3>2 DEF Contents, Informed
  <2>2. CASE x # r
    BY <1>1, <1>4, <2>2 DEF Contents, Informed, CacheInv, Shape
  <2> QED
    BY <2>1, <2>2
<1>5. Informed'
  BY <1>3, <1>4 DEF Informed
<1> QED
  BY <1>1, <1>5, EditedRests, ListedRests DEF Contents, fileVars, requestVars, poolVars, Forgotten

LEMMA DoneContents ==
  ASSUME CacheInv, Contents, NEW r \in Requests, LoadDone(r) \/ LoadFallback(r)
  PROVE  Contents'
<1> DEFINE l == load[r]
           found == KnownBounds(l.key, l.sig)
<1>1. /\ phase[r] = "running" /\ UNCHANGED fileVars /\ (\E o \in Pool!Outcomes : Pool!Settle(r, o))
      /\ \E st : SettleLoads({r}, st)
      /\ \/ l.read # None /\ Keep(Entry(l.key, l.sig, l.read, l.known), l.known)
         \/ Keep(Entry(l.key, l.sig, Stat(l.key), found), found)
         \/ UNCHANGED <<cacheVars, indexVars>>
  BY DEF LoadDone, LoadFallback, Pool!Outcomes
<1>2. open' = open
  BY <1>1 DEF Pool!Settle
<1>3. /\ l.key \in Keys /\ l.sig \in Nat /\ l.known \in Nat \cup {None} /\ l.read \in Nat \cup {None}
      /\ l # None
  BY <1>1, LoadType, NoneAssumption DEF Active, CacheInv, Wanted
<1>4. Stat(l.key) \in Nat /\ l.sig <= Stat(l.key)
  BY <1>3, StatBound DEF CacheInv, Contents, Current, Stat
<1>5. /\ l.known # None => Between(l.sig, l.known, Stat(l.key))
      /\ l.read # None => Between(l.sig, l.read, Stat(l.key))
  BY <1>3 DEF CacheInv, Current, Contents, Informed, Between
<1>6. found \in Nat \cup {None} /\ (found # None => Between(l.sig, found, Stat(l.key)))
  BY <1>3, KnownIsExact DEF CacheInv, Contents
<1>7. Shape /\ Edited /\ Listed /\ Indexed
  BY DEF CacheInv, Contents
<1> HIDE DEF found, l
<1>8. Listed' /\ Indexed'
  <2>1. CASE l.read # None /\ Keep(Entry(l.key, l.sig, l.read, l.known), l.known)
    <3>1. Entry(l.key, l.sig, l.read, l.known) \in Good
      BY <1>3, <1>5, <1>7, <2>1, EntryIsGood
    <3> QED
      BY <1>1, <1>7, <2>1, <3>1, KeepContents
  <2>2. CASE Keep(Entry(l.key, l.sig, Stat(l.key), found), found)
    <3>1. Between(l.sig, Stat(l.key), Stat(l.key))
      BY <1>3, <1>4 DEF Between
    <3>2. Entry(l.key, l.sig, Stat(l.key), found) \in Good
      BY <1>3, <1>4, <1>6, <1>7, <3>1, EntryIsGood
    <3> QED
      BY <1>1, <1>7, <2>2, <3>2, KeepContents
  <2>3. CASE UNCHANGED <<cacheVars, indexVars>>
    BY <1>1, <1>7, <2>3, ListedRests DEF fileVars
  <2> QED
    BY <1>1, <2>1, <2>2, <2>3
<1>9. Informed' /\ Forgotten'
  BY <1>1, <1>7, SettleContents DEF fileVars
<1> QED
  BY <1>1, <1>2, <1>7, <1>8, <1>9, EditedRests DEF Contents

LEMMA DroppedContents ==
  ASSUME CacheInv, Contents, ClosePool \/ \E r \in Requests : LoadDropped(r)
  PROVE  Contents'
<1>1. /\ UNCHANGED <<fileVars, cacheVars, indexVars>>
      /\ \E settled \in SUBSET Requests : \E st : SettleLoads(settled, st)
  BY DEF ClosePool, LoadDropped
<1>2. open' \in BOOLEAN
  BY DEF ClosePool, LoadDropped, Pool!Shut, Pool!Settle, Contents
<1>3. Informed' /\ Forgotten'
  BY <1>1, SettleContents DEF CacheInv, fileVars
<1> QED
  BY <1>1, <1>2, <1>3, EditedRests, ListedRests DEF Contents, fileVars

-----------------------------------------------------------------------------
\* A file that changes makes no entry newer than it: what was good stays good.
LEMMA EditContents ==
  ASSUME CacheInv, Contents, NEW f \in Files, ReplaceEpisode(f) \/ ReplaceFolder(f) \/ ForeignEdit(f)
  PROVE  Contents'
<1>1. /\ Edit(f) /\ version' = [version EXCEPT ![f] = @ + 1]
      /\ UNCHANGED <<load, requestVars, poolVars>>
      /\ foreign' = foreign \/ foreign' = [foreign EXCEPT ![f] = @ + 1]
  BY DEF ReplaceEpisode, ReplaceFolder, ForeignEdit, Edit, loadVars
<1>2. version \in [Files -> Nat] /\ foreign \in [Files -> Nat]
  BY DEF CacheInv, Shape
<1>3. version[f] < MaxEdits
  BY <1>1, <1>2, EditBound
<1>4. Edited'
  <2>1. SUFFICES ASSUME NEW g \in Files
                 PROVE  version'[g] <= MaxEdits /\ foreign'[g] <= version'[g]
    BY DEF Edited
  <2>2. version[g] \in Nat /\ foreign[g] \in Nat /\ version[g] <= MaxEdits /\ foreign[g] <= version[g]
    BY <1>2 DEF Contents, Edited
  <2> QED
    BY <1>1, <1>2, <1>3, <2>2, LimitAssumption
<1>5. \A k \in Keys : Stat(k) \in Nat /\ Stat(k)' \in Nat /\ Stat(k) <= Stat(k)'
  <2> TAKE k \in Keys
  <2>1. FileOf[k] \in Files
    BY FileOfAssumption
  <2> QED
    BY <1>1, <1>2, <2>1 DEF Stat
<1>6. ASSUME NEW k \in Keys, NEW a \in Nat, NEW b \in Nat, Between(a, b, Stat(k))
      PROVE  Between(a, b, Stat(k)')
  BY <1>5, <1>6 DEF Between
<1>7. Good \subseteq Good'
  <2>1. SUFFICES ASSUME NEW e \in Good
                 PROVE  e \in Good'
    OBVIOUS
  <2>2. e \in Entries /\ Between(e.sig, e.text, Stat(e.key)) /\ Between(e.sig, e.bounds, Stat(e.key))
    BY DEF Good
  <2>3. e.key \in Keys /\ e.sig \in Nat /\ e.text \in Nat /\ e.bounds \in Nat
    BY <2>2, LimitAssumption DEF Entries, Versions
  <2>4. Between(e.sig, e.text, Stat(e.key)') /\ Between(e.sig, e.bounds, Stat(e.key)')
    BY <1>6, <2>2, <2>3
  <2> QED
    BY <2>2, <2>4 DEF Good
<1>8. \A k \in Keys : Exact(k) \subseteq Exact(k)'
  <2>1. SUFFICES ASSUME NEW k \in Keys, NEW x \in Exact(k), x # None
                 PROVE  x \in Exact(k)'
    BY DEF Exact
  <2>2. x.sig \in Nat /\ x.bounds \in Nat /\ Between(x.sig, x.bounds, Stat(k))
    BY <2>1, ExactType
  <2>3. x \in Indexes
    BY <2>1 DEF Exact
  <2> QED
    BY <1>6, <2>2, <2>3 DEF Exact
<1>9. Listed'
  <2>1. Good \in SUBSET Entries /\ cache \in Lists(Good) /\ totalBytes = Bytes(cache)
        /\ WithinLimits(Len(cache), totalBytes)
    BY DEF Good, Contents, Listed
  <2>2. cache' \in Lists(Good) /\ totalBytes' = Bytes(cache') /\ WithinLimits(Len(cache'), totalBytes')
    <3>1. CASE ReplaceEpisode(f)
      <4>1. Cleared(f) \in Counted(Good) /\ WithinLimits(Len(Cleared(f).entries), Cleared(f).bytes)
        BY <2>1, ClearedType
      <4> QED
        BY <3>1, <4>1 DEF ReplaceEpisode, Counted
    <3>2. CASE ReplaceFolder(f)
      <4>1. cache' = <<>> /\ totalBytes' = 0
        BY <3>2 DEF ReplaceFolder
      <4>2. <<>> \in Lists(Good) /\ Len(<<>>) = 0
        BY DEF Lists, KeysOnce
      <4>3. WithinLimits(0, 0)
        BY LimitAssumption DEF WithinLimits
      <4> QED
        BY <4>1, <4>2, <4>3, BytesOfNone
    <3>3. CASE ForeignEdit(f)
      BY <2>1, <3>3 DEF ForeignEdit, cacheVars
    <3> QED
      BY <3>1, <3>2, <3>3
  <2>3. Lists(Good) \subseteq Lists(Good')
    BY <1>7, SeqMonotonic DEF Lists
  <2> QED
    BY <2>2, <2>3 DEF Listed
<1>10. Indexed'
  <2>1. \A k \in Keys : index'[k] \in {index[k], None} /\ dirty'[k] \in {dirty[k], None}
    <3>1. CASE ReplaceEpisode(f)
      BY <3>1 DEF ReplaceEpisode
    <3>2. CASE ReplaceFolder(f)
      BY <3>2 DEF ReplaceFolder
    <3>3. CASE ForeignEdit(f)
      BY <3>3 DEF ForeignEdit, indexVars
    <3> QED
      BY <3>1, <3>2, <3>3
  <2>2. \A k \in Keys : None \in Exact(k)' /\ index[k] \in Exact(k)' /\ dirty[k] \in Exact(k)'
    BY <1>8 DEF Contents, Indexed, Exact
  <2> QED
    BY <2>1, <2>2 DEF Indexed
<1>11. Informed'
  <2>1. SUFFICES ASSUME NEW r \in Requests, load[r] # None
                 PROVE  /\ load[r].known # None => Between(load[r].sig, load[r].known, Stat(load[r].key)')
                        /\ load[r].read # None => load[r].read <= Stat(load[r].key)'
    BY <1>1 DEF Informed
  <2>2. /\ load[r].key \in Keys /\ load[r].sig \in Nat
        /\ load[r].known \in Nat \cup {None} /\ load[r].read \in Nat \cup {None}
    BY <2>1 DEF CacheInv, Shape, Record
  <2>3. PICK k \in Keys : k = load[r].key /\ k = load'[r].key
    BY <1>1, <2>2
  <2>4. /\ load[r].known # None => Between(load[r].sig, load[r].known, Stat(k))
        /\ load[r].read # None => load[r].read <= Stat(k)
    BY <2>1, <2>3 DEF Contents, Informed
  <2>5. Stat(k) \in Nat /\ Stat(k)' \in Nat /\ Stat(k) <= Stat(k)'
    BY <1>5, <2>3
  <2>6. load[r].read # None => load[r].read <= Stat(k)'
    BY <2>2, <2>4, <2>5
  <2>7. load[r].known # None => Between(load[r].sig, load[r].known, Stat(k)')
    BY <1>6, <2>2, <2>3, <2>4
  <2>8. Stat(load[r].key)' = Stat(k)'
    BY <2>3 DEF Stat
  <2> QED
    BY <2>6, <2>7, <2>8
<1> QED
  BY <1>1, <1>4, <1>9, <1>10, <1>11 DEF Contents, Forgotten, requestVars, poolVars

LEMMA RestContents ==
  ASSUME CacheInv, Contents,
         FlushIndexes \/ (\E i \in 1..MaxEntries : Grow(i)) \/ Quiescent \/ UNCHANGED vars
  PROVE  Contents'
<1>1. UNCHANGED <<fileVars, loadVars, requestVars, poolVars>>
  BY DEF FlushIndexes, Grow, Quiescent, vars
<1>2. Good' = Good /\ \A k : Exact(k)' = Exact(k)
  BY <1>1 DEF fileVars, Good, Exact, Stat
<1>3. Listed' /\ Indexed'
  <2>1. CASE FlushIndexes
    <3>1. UNCHANGED cacheVars
      BY <2>1 DEF FlushIndexes
    <3>2. \A k \in Keys : index'[k] \in {index[k], dirty[k]} /\ dirty'[k] = None
      BY <2>1 DEF FlushIndexes
    <3>3. \A k : None \in Exact(k)
      BY DEF Exact
    <3> QED
      BY <1>2, <3>1, <3>2, <3>3 DEF Contents, Listed, Indexed, cacheVars
  <2>2. CASE \E i \in 1..MaxEntries : Grow(i)
    <3>1. PICK i : Grow(i)
      BY <2>2
    <3>2. Good \in SUBSET Entries /\ \A e \in Good, a \in Ages : [e EXCEPT !.age = a] \in Good
      BY DEF Good, Entries
    <3>3. cache' \in Lists(Good) /\ Bytes(cache') = Bytes(cache) /\ Len(cache') = Len(cache)
      BY <3>1, <3>2, GrowType DEF Contents, Listed
    <3> QED
      BY <1>2, <3>1, <3>3 DEF Contents, Listed, Indexed, indexVars, Grow
  <2>3. CASE Quiescent \/ UNCHANGED vars
    BY <2>3, ListedRests DEF Quiescent, vars, fileVars, Contents
  <2> QED
    BY <2>1, <2>2, <2>3
<1>4. Informed'
  BY <1>1, InformedRests DEF Contents, fileVars, loadVars
<1> QED
  BY <1>1, <1>3, <1>4, EditedRests DEF Contents, Forgotten, requestVars, poolVars

LEMMA ContentsInit ==
  ASSUME Init
  PROVE  Contents
<1>1. Edited /\ Indexed /\ Informed /\ Forgotten /\ open \in BOOLEAN
  BY LimitAssumption DEF Init, Pool!Init, Edited, Indexed, Exact, Informed, Forgotten
<1>2. Listed
  <2>1. <<>> \in Lists(Good) /\ Len(<<>>) = 0
    BY DEF Lists, KeysOnce
  <2>2. WithinLimits(0, 0)
    BY LimitAssumption DEF WithinLimits
  <2> QED
    BY <2>1, <2>2, BytesOfNone DEF Init, Listed
<1> QED
  BY <1>1, <1>2 DEF Contents

LEMMA ContentsStep ==
  ASSUME CacheInv, Contents, [Next]_vars
  PROVE  Contents'
<1>1. ASSUME NEW q \in Requests, Request(q)
      PROVE  Contents'
  BY <1>1, HitContents, JoinContents, StartContents, LocalContents DEF Request
<1>2. ASSUME NEW q \in Requests, \/ AbortRequest(q) \/ ReadFile(q) \/ LoadDone(q)
                                 \/ LoadFallback(q) \/ LoadDropped(q)
      PROVE  Contents'
  BY <1>2, AbortContents, ReadContents, DoneContents, DroppedContents
<1>3. ASSUME NEW f \in Files, ReplaceEpisode(f) \/ ReplaceFolder(f) \/ ForeignEdit(f)
      PROVE  Contents'
  BY <1>3, EditContents
<1>4. CASE ClosePool
  BY <1>4, DroppedContents
<1>5. CASE FlushIndexes \/ (\E i \in 1..MaxEntries : Grow(i)) \/ Quiescent \/ UNCHANGED vars
  BY <1>5, RestContents
<1> QED
  BY <1>1, <1>2, <1>3, <1>4, <1>5 DEF Next

\* Contents holds in every state that the cache reaches.
THEOREM ContentsInvariance == Spec => []Contents
<1>1. Init => Contents
  BY ContentsInit
<1>2. CacheInv /\ Contents /\ [Next]_vars => Contents'
  BY ContentsStep
<1> QED
  BY <1>1, <1>2, Invariance, PTL DEF Spec

\* The counter of bytes is the sum over the entries, through every replacement,
\* pruning, clearing and ageing; both limits hold; no key has two entries.
THEOREM AccountingHolds == Spec => []Accounting
<1>1. Contents => Accounting
  BY DEF Contents, Listed, Lists, KeysOnce, Accounting
<1> QED
  BY <1>1, ContentsInvariance, PTL

\* A hit in the cache or in the index on disk yields the text and the bounds that the
\* file has now, whoever changed it while it was read.
THEOREM HitsAreExactHolds == Spec => []HitsAreExact
<1>1. ASSUME CacheInv, Contents
      PROVE  HitsAreExact
  <2>1. SUFFICES ASSUME NEW k \in Keys
                 PROVE  /\ \A e \in Hits(k) : e.text = Stat(k) /\ e.bounds = Stat(k)
                        /\ KnownBounds(k, Stat(k)) \in {None, Stat(k)}
    BY DEF HitsAreExact
  <2>2. Stat(k) \in Nat
    BY <1>1, StatType DEF CacheInv
  <2>3. ASSUME NEW e \in Hits(k) PROVE e.text = Stat(k) /\ e.bounds = Stat(k)
    <3>1. e \in Good /\ e.key = k /\ e.sig = Stat(k)
      <4>1. Good \in SUBSET Entries /\ cache \in Lists(Good)
        BY <1>1 DEF Good, Contents, Listed
      <4> QED
        BY <4>1, ListType DEF Hits, Range
    <3>2. e.text \in Nat /\ e.bounds \in Nat
      BY <3>1, LimitAssumption DEF Good, Entries, Versions
    <3> QED
      BY <2>2, <3>1, <3>2 DEF Good, Between
  <2>4. KnownBounds(k, Stat(k)) \in {None, Stat(k)}
    BY <1>1, <2>2, KnownIsExact DEF CacheInv, Contents, Between
  <2> QED
    BY <2>3, <2>4
<1> QED
  BY <1>1, Invariance, ContentsInvariance, PTL

\* Every variable keeps its type; no version exceeds the bound on a run.
THEOREM TypeCorrect == Spec => []TypeOK
<1>1. ASSUME CacheInv, Contents
      PROVE  TypeOK
  <2>1. Shape /\ Edited /\ Listed /\ Indexed
    BY <1>1 DEF CacheInv, Contents
  <2>2. \A v : v \in Nat /\ v <= MaxEdits => v \in Versions
    BY LimitAssumption DEF Versions
  <2>3. version \in [Files -> Versions] /\ foreign \in [Files -> Versions]
    <3>1. \A f \in Files : version[f] \in Versions /\ foreign[f] \in Versions
      BY <2>1, <2>2, LimitAssumption DEF Shape, Edited
    <3> QED
      BY <2>1, <3>1 DEF Shape
  <2>4. cache \in Seq(Entries) /\ totalBytes \in Nat
    BY <2>1, ListType DEF Listed, Good
  <2>5. index \in [Keys -> Indexes \cup {None}] /\ dirty \in [Keys -> Indexes \cup {None}]
    BY <2>1 DEF Shape, Indexed, Exact
  <2>6. load \in [Requests -> Loads \cup {None}]
    <3>1. ASSUME NEW r \in Requests, load[r] # None
          PROVE  load[r] \in Loads
      <4> DEFINE l == load[r]
      <4>1. l \in Record /\ l.key \in Keys /\ l.sig \in Nat /\ l.known \in Nat \cup {None}
            /\ l.read \in Nat \cup {None} /\ l.waiters \in Nat
        BY <2>1, <3>1 DEF Shape, Record
      <4>2. Stat(l.key) \in Nat /\ Stat(l.key) <= MaxEdits
        BY <2>1, <4>1, StatBound
      <4>3. /\ l.sig <= Stat(l.key) /\ (l.read # None => l.read <= Stat(l.key))
            /\ l.known # None => Between(l.sig, l.known, Stat(l.key))
        BY <1>1, <3>1 DEF CacheInv, Current, Contents, Informed, Stat
      <4>4. l.waiters \in 1..Cardinality(Requests)
        <5>1. l.waiters = Cardinality(Waiting(r)) /\ Waiting(r) # {}
          BY <1>1, <3>1 DEF CacheInv, Wanted
        <5>2. Waiting(r) \subseteq Requests /\ IsFiniteSet(Requests) /\ IsFiniteSet(Waiting(r))
          BY WaitingIsFinite, FinitenessAssumption DEF Waiting
        <5>3. Cardinality(Waiting(r)) <= Cardinality(Requests) /\ Cardinality(Requests) \in Nat
              /\ Cardinality(Waiting(r)) \in Nat
          BY <5>2, FS_Subset, FS_CardinalityType
        <5>4. Cardinality(Waiting(r)) # 0
          BY <5>1, <5>2, FS_EmptySet
        <5> QED
          BY <5>1, <5>3, <5>4
      <4>5. l.sig \in Versions /\ l.known \in Versions \cup {None} /\ l.read \in Versions \cup {None}
        BY <4>1, <4>2, <4>3, LimitAssumption DEF Between, Versions
      <4> QED
        BY <4>1, <4>4, <4>5 DEF Record, Loads
    <3> QED
      BY <2>1, <3>1 DEF Shape
  <2>7. asked \in [Requests -> Versions \cup {None}]
    <3>1. ASSUME NEW q \in Requests PROVE asked[q] \in Versions \cup {None}
      <4>1. CASE waits[q] = None
        BY <1>1, <4>1 DEF Contents, Forgotten
      <4>2. CASE waits[q] # None
        <5>1. asked[q] \in Nat /\ asked[q] <= version[FileOf[load[waits[q]].key]]
          BY <1>1, <4>2 DEF CacheInv, Current
        <5>2. waits[q] \in Requests /\ load[waits[q]] # None
          BY <1>1, <2>1, <4>2 DEF Shape, CacheInv, Wanted, Waiting
        <5>3. load[waits[q]].key \in Keys
          BY <2>1, <5>2 DEF Shape, Record
        <5>4. Stat(load[waits[q]].key) \in Nat /\ Stat(load[waits[q]].key) <= MaxEdits
          BY <2>1, <5>3, StatBound
        <5> QED
          BY <5>1, <5>4, LimitAssumption DEF Stat, Versions
      <4> QED
        BY <4>1, <4>2
    <3> QED
      BY <2>1, <3>1 DEF Shape
  <2> QED
    BY <1>1, <2>1, <2>3, <2>4, <2>5, <2>6, <2>7 DEF TypeOK, Shape, CacheInv, Queue, Contents
<1> QED
  BY <1>1, Invariance, ContentsInvariance, PTL

-----------------------------------------------------------------------------
(* How a text is cut into chunks.                                          *)

CONSTANTS ChunkSize, Lookahead, MaxLength
VARIABLES length, newlines, pos, chunks, finished, parts

Cutting == INSTANCE ChunkBounds

\* The chunks so far lie end to end up to pos, and the walked ones are the first.
EndToEnd ==
  /\ Cutting!TypeOK
  /\ \A i \in 1..Len(chunks) : chunks[i].start = IF i = 1 THEN 0 ELSE chunks[i-1].end
  /\ pos = IF chunks = <<>> THEN 0 ELSE chunks[Len(chunks)].end
  /\ finished => chunks # <<>> /\ pos = length
  /\ IF finished THEN Len(parts) <= Len(chunks) ELSE parts = <<>>
  /\ \A i \in 1..Len(parts) : parts[i] = chunks[i]

\* What every chunk is alone: not too short or long, and the end of a line.
WellCut(c) ==
  /\ c.end >= c.start + ChunkSize \/ c.end = length
  /\ c.end <= c.start + ChunkSize + Lookahead + 1
  /\ LET seen == {n \in newlines : n >= c.start + ChunkSize /\ n <= c.start + ChunkSize + Lookahead} IN
     IF seen # {} THEN c.end - 1 \in seen /\ \A n \in seen : c.end - 1 <= n
     ELSE c.end = Cutting!Lesser(length, c.start + ChunkSize + Lookahead)

AllWellCut == \A i \in 1..Len(chunks) : WellCut(chunks[i])

\* The two searches of the loop find the first newline in the look-ahead, the
\* place of the boundary included: the second finds none but the one there.
LEMMA LineEndIsFirst ==
  ASSUME Cutting!CutAssumption, Cutting!TypeOK, NEW target \in Nat, target < length
  PROVE  LET seen == {n \in newlines : n >= target /\ n <= target + Lookahead} IN
         /\ Cutting!LineEnd(target) \in Nat
         /\ Cutting!LineEnd(target) > target /\ Cutting!LineEnd(target) <= length
         /\ Cutting!LineEnd(target) <= target + Lookahead + 1
         /\ IF seen # {} THEN /\ Cutting!LineEnd(target) - 1 \in seen
                              /\ \A n \in seen : Cutting!LineEnd(target) - 1 <= n
            ELSE Cutting!LineEnd(target) = Cutting!Lesser(length, target + Lookahead)
<1> DEFINE seen == {n \in newlines : n >= target /\ n <= target + Lookahead}
           next == {n \in newlines : n >= target}
           b    == Cutting!Boundary(target)
           back == {n \in newlines : n <= b}
           end  == Cutting!LineEnd(target)
<1>1. /\ length \in Nat /\ newlines \in SUBSET (0..(length - 1))
      /\ ChunkSize \in Nat \ {0} /\ Lookahead \in Nat /\ Lookahead >= ChunkSize
  BY DEF Cutting!TypeOK, Cutting!Places, Cutting!CutAssumption
<1>2. /\ b \in Nat /\ b = IF length <= target + Lookahead THEN length ELSE target + Lookahead
      /\ b > target
  BY <1>1 DEF Cutting!Boundary, Cutting!Lesser
<1>3. end = IF next # {} /\ Min(next) + 1 <= b THEN Min(next) + 1
            ELSE IF back # {} /\ Max(back) >= target THEN Max(back) + 1 ELSE b
  BY DEF Cutting!LineEnd, Cutting!Min, Cutting!Max, Min, Max
<1>4. \A n \in newlines : n \in Nat /\ n < length
  BY <1>1
<1>5. Cutting!Lesser(length, target + Lookahead) = b
  BY DEF Cutting!Boundary
<1> HIDE DEF end, b
<1>6. next # {} => Min(next) \in next /\ \A x \in next : Min(next) <= x
  <2>1. next \subseteq Nat
    BY <1>4
  <2> QED
    BY <2>1, MinProperties
<1>7. back # {} => Max(back) \in back /\ \A x \in back : Max(back) >= x
  <2>1. \A n \in newlines : n \in 0..length
    BY <1>1, <1>4
  <2>2. back \in SUBSET (0..length)
    BY <2>1
  <2> QED
    BY <1>1, <2>2, MaxBelow
<1> SUFFICES /\ end \in Nat /\ end > target /\ end <= length
             /\ end <= target + Lookahead + 1
             /\ IF seen # {} THEN end - 1 \in seen /\ \A n \in seen : end - 1 <= n
                ELSE end = b
  BY <1>5 DEF end
<1>8. CASE next # {} /\ Min(next) + 1 <= b
  <2>1. PICK m : m = Min(next)
    OBVIOUS
  <2>2. end = m + 1 /\ m \in newlines /\ m >= target /\ \A x \in next : m <= x
    BY <1>3, <1>6, <1>8, <2>1
  <2>3. m \in Nat /\ m < length /\ m <= target + Lookahead
    BY <1>1, <1>2, <1>4, <1>8, <2>1, <2>2
  <2>4. m \in seen /\ \A n \in seen : m <= n
    BY <2>2, <2>3
  <2>5. end - 1 = m
    BY <2>2, <2>3
  <2> HIDE DEF seen, next
  <2> QED
    BY <1>1, <2>2, <2>3, <2>4, <2>5
<1>9. CASE ~(next # {} /\ Min(next) + 1 <= b) /\ back # {} /\ Max(back) >= target
  <2>1. PICK m : m = Max(back)
    OBVIOUS
  <2>2. end = m + 1 /\ m \in newlines /\ m <= b /\ m >= target
    BY <1>3, <1>7, <1>9, <2>1
  <2>3. m \in Nat /\ m < length /\ m <= target + Lookahead
    BY <1>1, <1>2, <1>4, <2>2
  <2>4. m \in next /\ next # {}
    BY <2>2
  <2>5. PICK l : l = Min(next)
    OBVIOUS
  <2>6. l \in Nat /\ ~(l + 1 <= b) /\ l <= m /\ \A x \in next : l <= x
    BY <1>4, <1>6, <1>9, <2>4, <2>5
  <2>7. l = m
    BY <1>2, <2>2, <2>3, <2>6
  <2>8. m \in seen /\ \A n \in seen : m <= n
    BY <2>2, <2>3, <2>6, <2>7
  <2>9. end - 1 = m
    BY <2>2, <2>3
  <2> HIDE DEF seen, next
  <2> QED
    BY <1>1, <2>2, <2>3, <2>8, <2>9
<1>10. CASE ~(next # {} /\ Min(next) + 1 <= b) /\ ~(back # {} /\ Max(back) >= target)
  <2>1. end = b
    BY <1>3, <1>10
  <2>2. ASSUME NEW n \in seen PROVE FALSE
    <3>1. n \in Nat /\ n \in newlines /\ n >= target /\ n < length /\ n <= target + Lookahead
      BY <1>4
    <3>2. n <= b
      BY <1>1, <1>2, <3>1
    <3>3. PICK m : m = Max(back)
      OBVIOUS
    <3>4. n \in back /\ m >= n /\ m \in newlines
      BY <1>7, <3>1, <3>2, <3>3
    <3>5. m \in Nat /\ m >= target
      BY <1>4, <3>1, <3>4
    <3>6. ~(next # {} /\ Min(next) + 1 <= b) /\ ~(back # {} /\ m >= target)
      BY <1>10, <3>3
    <3> HIDE DEF back, next
    <3> QED
      BY <3>4, <3>5, <3>6
  <2> HIDE DEF seen
  <2> QED
    BY <1>1, <1>2, <2>1, <2>2
<1> QED
  BY <1>8, <1>9, <1>10

\* The next chunk makes progress and is well cut.
LEMMA ChunkEndIsWellCut ==
  ASSUME Cutting!CutAssumption, Cutting!TypeOK, pos < length
  PROVE  /\ Cutting!ChunkEnd \in Nat /\ pos < Cutting!ChunkEnd /\ Cutting!ChunkEnd <= length
         /\ WellCut([start |-> pos, end |-> Cutting!ChunkEnd])
<1> DEFINE target == Cutting!Lesser(length, pos + ChunkSize)
           end == IF target < length THEN Cutting!LineEnd(target) ELSE target
<1>1. /\ length \in Nat /\ newlines \in SUBSET (0..(length - 1)) /\ pos \in Nat
      /\ ChunkSize \in Nat \ {0} /\ Lookahead \in Nat /\ Lookahead >= ChunkSize
  BY DEF Cutting!TypeOK, Cutting!Places, Cutting!CutAssumption
<1>2. target \in Nat /\ target > pos /\ target <= length
      /\ target = IF length <= pos + ChunkSize THEN length ELSE pos + ChunkSize
  BY <1>1 DEF Cutting!Lesser
<1>3. Cutting!ChunkEnd = IF end <= pos THEN target ELSE end
  BY DEF Cutting!ChunkEnd
<1> HIDE DEF target
<1>4. CASE target < length
  <2>1. PICK e : e = Cutting!LineEnd(target)
    OBVIOUS
  <2>2. target = pos + ChunkSize
    BY <1>1, <1>2, <1>4
  <2>3. /\ e \in Nat /\ e > target /\ e <= length /\ e <= target + Lookahead + 1
        /\ LET seen == {n \in newlines : n >= target /\ n <= target + Lookahead} IN
           IF seen # {} THEN e - 1 \in seen /\ \A n \in seen : e - 1 <= n
           ELSE e = Cutting!Lesser(length, target + Lookahead)
    BY <1>2, <1>4, <2>1, LineEndIsFirst
  <2>4. Cutting!ChunkEnd = e
    BY <1>1, <1>2, <1>3, <1>4, <2>1, <2>3
  <2>5. WellCut([start |-> pos, end |-> e])
    <3>1. e >= pos + ChunkSize /\ e <= pos + ChunkSize + Lookahead + 1
      BY <1>1, <2>2, <2>3
    <3> QED
      BY <2>2, <2>3, <3>1 DEF WellCut
  <2> QED
    BY <1>1, <1>2, <2>3, <2>4, <2>5
<1>5. CASE ~(target < length)
  <2>1. target = length /\ Cutting!ChunkEnd = length
    BY <1>1, <1>2, <1>3, <1>5
  <2>2. length <= pos + ChunkSize
    BY <1>1, <1>2, <2>1
  <2>3. {n \in newlines : n >= pos + ChunkSize /\ n <= pos + ChunkSize + Lookahead} = {}
    <3>1. \A n \in newlines : n \in Nat /\ n < length
      BY <1>1
    <3>2. \A n \in newlines : ~(n >= pos + ChunkSize)
      BY <1>1, <2>2, <3>1
    <3> QED
      BY <3>2
  <2>4. Cutting!Lesser(length, pos + ChunkSize + Lookahead) = length
        /\ length <= pos + ChunkSize + Lookahead + 1
    BY <1>1, <2>2 DEF Cutting!Lesser
  <2>5. WellCut([start |-> pos, end |-> length])
    BY <2>3, <2>4 DEF WellCut
  <2> QED
    BY <1>1, <2>1, <2>5
<1> QED
  BY <1>4, <1>5

LEMMA CutKeeps ==
  ASSUME Cutting!CutAssumption, EndToEnd, AllWellCut, Cutting!Cut
  PROVE  EndToEnd' /\ AllWellCut'
<1>1. PICK c : c = [start |-> pos, end |-> Cutting!ChunkEnd]
  OBVIOUS
<1>2. /\ ~finished /\ pos < length /\ parts = <<>>
      /\ chunks' = Append(chunks, c) /\ pos' = c.end
      /\ UNCHANGED <<length, newlines, finished, parts>>
  BY <1>1 DEF Cutting!Cut, Cutting!textVars, EndToEnd
<1>3. /\ c.end \in Nat /\ pos < c.end /\ c.end <= length /\ WellCut(c) /\ c.start = pos
  BY <1>1, <1>2, ChunkEndIsWellCut DEF EndToEnd
<1>4. /\ length \in Nat /\ length <= MaxLength /\ MaxLength \in Nat /\ pos \in Nat
      /\ chunks \in Seq(Cutting!Ranges) /\ parts \in Seq(Cutting!Ranges)
      /\ newlines \in SUBSET (0..(length - 1))
  BY DEF EndToEnd, Cutting!TypeOK, Cutting!Places, Cutting!CutAssumption
<1>5. c \in Cutting!Ranges
  <2>1. pos \in 0..MaxLength /\ Cutting!ChunkEnd \in 0..MaxLength
    BY <1>1, <1>2, <1>3, <1>4
  <2> QED
    BY <1>1, <2>1 DEF Cutting!Ranges, Cutting!Places
<1>6. /\ chunks' \in Seq(Cutting!Ranges) /\ Len(chunks') = Len(chunks) + 1 /\ chunks' # <<>>
      /\ \A i \in 1..Len(chunks) : chunks'[i] = chunks[i]
      /\ chunks'[Len(chunks) + 1] = c /\ Len(chunks) \in Nat
  BY <1>2, <1>4, <1>5
<1>7. Cutting!TypeOK'
  <2>1. pos' \in 0..length
    BY <1>2, <1>3, <1>4
  <2> QED
    BY <1>2, <1>6, <2>1 DEF Cutting!TypeOK, EndToEnd, Cutting!Places, Cutting!Ranges
<1>8. ASSUME NEW i \in 1..Len(chunks')
      PROVE  chunks'[i].start = IF i = 1 THEN 0 ELSE chunks'[i-1].end
  <2>1. CASE i \in 1..Len(chunks)
    <3>1. i = 1 \/ i - 1 \in 1..Len(chunks)
      BY <1>6, <2>1
    <3> QED
      BY <1>6, <2>1, <3>1 DEF EndToEnd
  <2>2. CASE i = Len(chunks) + 1
    <3>1. chunks = <<>> => i = 1
      BY <1>4, <2>2
    <3>2. chunks # <<>> => i # 1 /\ i - 1 = Len(chunks) /\ Len(chunks) \in 1..Len(chunks)
      BY <1>4, <1>6, <2>2, EmptySeq
    <3> QED
      BY <1>3, <1>6, <2>2, <3>1, <3>2 DEF EndToEnd
  <2> QED
    BY <1>6, <2>1, <2>2
<1>9. EndToEnd'
  <2>1. \A i \in 1..Len(parts') : parts'[i] = chunks'[i]
    BY <1>2
  <2> QED
    BY <1>2, <1>6, <1>7, <1>8, <2>1 DEF EndToEnd
<1>10. ASSUME NEW i \in 1..Len(chunks') PROVE WellCut(chunks'[i])
  <2>1. CASE i \in 1..Len(chunks)
    BY <1>6, <2>1 DEF AllWellCut
  <2>2. CASE i = Len(chunks) + 1
    BY <1>3, <1>6, <2>2
  <2> QED
    BY <1>6, <2>1, <2>2
<1>11. AllWellCut'
  BY <1>2, <1>10 DEF AllWellCut, WellCut, Cutting!Lesser
<1> QED
  BY <1>9, <1>11

LEMMA FinishKeeps ==
  ASSUME Cutting!CutAssumption, EndToEnd, AllWellCut, Cutting!Finish
  PROVE  EndToEnd' /\ AllWellCut'
<1>1. /\ ~finished /\ pos >= length /\ parts = <<>> /\ finished' = TRUE
      /\ chunks' = IF chunks = <<>> THEN <<[start |-> 0, end |-> 0]>> ELSE chunks
      /\ UNCHANGED <<length, newlines, pos, parts>>
  BY DEF Cutting!Finish, Cutting!textVars, EndToEnd
<1>2. /\ length \in Nat /\ MaxLength \in Nat /\ pos \in 0..length
      /\ chunks \in Seq(Cutting!Ranges) /\ newlines \in SUBSET (0..(length - 1))
      /\ ChunkSize \in Nat /\ Lookahead \in Nat
  BY DEF EndToEnd, Cutting!TypeOK, Cutting!Places, Cutting!CutAssumption
<1>3. pos = length
  BY <1>1, <1>2
<1>4. CASE chunks # <<>>
  BY <1>1, <1>3, <1>4
  DEF EndToEnd, AllWellCut, WellCut, Cutting!Lesser, Cutting!TypeOK, Cutting!Places, Cutting!Ranges
<1>5. CASE chunks = <<>>
  <2>1. PICK c : c = [start |-> 0, end |-> 0]
    OBVIOUS
  <2>2. chunks' = <<c>> /\ c.start = 0 /\ c.end = 0 /\ length = 0 /\ pos = 0
    BY <1>1, <1>3, <1>5, <2>1 DEF EndToEnd
  <2>3. c \in Cutting!Ranges
    BY <1>2, <2>1 DEF Cutting!Ranges, Cutting!Places
  <2>4. chunks' \in Seq(Cutting!Ranges) /\ Len(chunks') = 1 /\ chunks' # <<>> /\ chunks'[1] = c
    BY <2>2, <2>3
  <2>5. newlines = {}
    BY <1>2, <2>2
  <2>6. WellCut(c)
    BY <1>2, <2>2, <2>5 DEF WellCut, Cutting!Lesser
  <2>7. Cutting!TypeOK'
    BY <1>1, <2>4 DEF EndToEnd, Cutting!TypeOK, Cutting!Places, Cutting!Ranges
  <2>8. EndToEnd'
    BY <1>1, <2>2, <2>4, <2>7 DEF EndToEnd
  <2>9. \A i \in 1..Len(chunks') : WellCut(chunks'[i])
    BY <2>4, <2>6
  <2>10. AllWellCut'
    BY <1>1, <2>9 DEF AllWellCut, WellCut, Cutting!Lesser
  <2> QED
    BY <2>8, <2>10
<1> QED
  BY <1>4, <1>5

LEMMA WalkKeeps ==
  ASSUME Cutting!CutAssumption, EndToEnd, AllWellCut, Cutting!Walk
  PROVE  EndToEnd' /\ AllWellCut'
<1>1. PICK n : n = Len(parts) + 1
  OBVIOUS
<1>2. /\ finished /\ Len(parts) < Len(chunks) /\ parts' = Append(parts, Cutting!ChunkByLine(n))
      /\ UNCHANGED <<length, newlines, pos, chunks, finished>>
  BY <1>1 DEF Cutting!Walk, Cutting!textVars
<1>3. chunks \in Seq(Cutting!Ranges) /\ parts \in Seq(Cutting!Ranges)
      /\ Len(parts) \in Nat /\ Len(chunks) \in Nat
  BY DEF EndToEnd, Cutting!TypeOK
<1>4. n \in 1..Len(chunks) /\ n \in Nat /\ n >= 1 /\ n <= Len(chunks)
  BY <1>1, <1>2, <1>3
<1>5. Cutting!ChunkByLine(n) = chunks[n] /\ chunks[n] \in Cutting!Ranges
  <2>1. ~(n < 1) /\ Cutting!Lesser(Len(chunks), n) = n
    BY <1>3, <1>4 DEF Cutting!Lesser
  <2> QED
    BY <1>3, <1>4, <2>1 DEF Cutting!ChunkByLine
<1>6. PICK c \in Cutting!Ranges : c = chunks[n] /\ parts' = Append(parts, c)
  BY <1>2, <1>5
<1>7. /\ parts' \in Seq(Cutting!Ranges) /\ Len(parts') = n
      /\ \A i \in 1..Len(parts) : parts'[i] = parts[i]
      /\ parts'[n] = c
  BY <1>1, <1>3, <1>6
<1>8. \A i \in 1..Len(parts') : parts'[i] = chunks'[i]
  <2> TAKE i \in 1..Len(parts')
  <2>1. i = n \/ i \in 1..Len(parts)
    BY <1>1, <1>3, <1>7
  <2> QED
    BY <1>2, <1>6, <1>7, <2>1 DEF EndToEnd
<1>9. Cutting!TypeOK'
  BY <1>2, <1>7 DEF EndToEnd, Cutting!TypeOK, Cutting!Places, Cutting!Ranges
<1>10. EndToEnd'
  BY <1>2, <1>4, <1>7, <1>8, <1>9 DEF EndToEnd
<1> QED
  BY <1>2, <1>10 DEF AllWellCut, WellCut, Cutting!Lesser

\* EndToEnd and AllWellCut together are inductive.
LEMMA CuttingInvariance ==
  ASSUME Cutting!CutAssumption
  PROVE  Cutting!Spec => [](EndToEnd /\ AllWellCut)
<1>1. Cutting!Init => EndToEnd /\ AllWellCut
  <2> SUFFICES ASSUME Cutting!Init PROVE EndToEnd /\ AllWellCut
    OBVIOUS
  <2>1. length \in 0..MaxLength /\ MaxLength \in Nat /\ pos = 0 /\ finished = FALSE
        /\ chunks = <<>> /\ parts = <<>> /\ newlines \in SUBSET {n \in Cutting!Places : n < length}
    BY DEF Cutting!Init, Cutting!Places, Cutting!CutAssumption
  <2>2. \A n \in Cutting!Places : n < length => n \in 0..(length - 1)
    BY <2>1 DEF Cutting!Places
  <2>3. newlines \in SUBSET (0..(length - 1))
    BY <2>1, <2>2
  <2>4. chunks \in Seq(Cutting!Ranges) /\ parts \in Seq(Cutting!Ranges)
    BY <2>1, EmptySeq
  <2>5. Cutting!TypeOK
    <3>1. length \in Nat /\ pos = 0
      BY <2>1
    <3>2. pos \in 0..length
      BY <3>1
    <3>3. finished \in BOOLEAN
      BY <2>1
    <3> QED
      BY <2>1, <2>3, <2>4, <3>2, <3>3 DEF Cutting!TypeOK, Cutting!Places
  <2> QED
    BY <2>1, <2>5 DEF EndToEnd, AllWellCut
<1>2. EndToEnd /\ AllWellCut /\ [Cutting!Next]_(Cutting!vars) => (EndToEnd /\ AllWellCut)'
  <2> SUFFICES ASSUME EndToEnd, AllWellCut, [Cutting!Next]_(Cutting!vars)
               PROVE  EndToEnd' /\ AllWellCut'
    OBVIOUS
  <2>1. CASE Cutting!Cut
    BY <2>1, CutKeeps
  <2>2. CASE Cutting!Finish
    BY <2>2, FinishKeeps
  <2>3. CASE Cutting!Walk
    BY <2>3, WalkKeeps
  <2>4. CASE UNCHANGED Cutting!vars
    BY <2>4 DEF Cutting!vars, Cutting!textVars, EndToEnd, AllWellCut, WellCut, Cutting!TypeOK,
       Cutting!Places, Cutting!Ranges, Cutting!Lesser
  <2> QED
    BY <2>1, <2>2, <2>3, <2>4 DEF Cutting!Next
<1> QED
  BY <1>1, <1>2, PTL DEF Cutting!Spec

\* The walk over the chunks of any text, with any newlines and any sizes, shows
\* every character once and in order: the ends that buildChunkBounds finds with
\* and without a newline in its look-ahead leave no gap.
THEOREM PartsCoverTextHolds ==
  ASSUME Cutting!CutAssumption
  PROVE  Cutting!Spec => []Cutting!PartsCoverText
<1>1. EndToEnd => Cutting!PartsCoverText
  <2> SUFFICES ASSUME EndToEnd PROVE Cutting!PartsCoverText
    OBVIOUS
  <2>1. chunks \in Seq(Cutting!Ranges) /\ parts \in Seq(Cutting!Ranges)
        /\ Len(parts) \in Nat /\ Len(chunks) \in Nat /\ Len(parts) <= Len(chunks)
    BY DEF EndToEnd, Cutting!TypeOK
  <2>2. ASSUME NEW i \in 1..Len(parts)
        PROVE  parts[i].start = IF i = 1 THEN 0 ELSE parts[i-1].end
    <3>1. i \in 1..Len(chunks) /\ (i # 1 => i - 1 \in 1..Len(parts))
      BY <2>1
    <3> QED
      BY <3>1 DEF EndToEnd
  <2>3. ASSUME finished, Len(parts) = Len(chunks)
        PROVE  parts # <<>> /\ parts[Len(parts)].end = length
    <3>1. chunks # <<>> /\ pos = length /\ chunks[Len(chunks)].end = length
      BY <2>3 DEF EndToEnd
    <3>2. Len(chunks) \in 1..Len(parts) /\ parts # <<>>
      BY <2>1, <2>3, <3>1, EmptySeq
    <3> QED
      BY <2>3, <3>1, <3>2 DEF EndToEnd
  <2> QED
    BY <2>2, <2>3 DEF Cutting!PartsCoverText
<1> QED
  BY <1>1, CuttingInvariance, PTL

\* No chunk is shorter than ChunkSize, save the last, or longer than ChunkSize,
\* the look-ahead and the newline on the boundary.
THEOREM ChunksBoundedHolds ==
  ASSUME Cutting!CutAssumption
  PROVE  Cutting!Spec => []Cutting!ChunksBounded
<1>1. AllWellCut => Cutting!ChunksBounded
  BY DEF AllWellCut, WellCut, Cutting!ChunksBounded
<1> QED
  BY <1>1, CuttingInvariance, PTL

\* Every chunk ends with the first line that ends in its look-ahead, though the
\* code looks for it forwards and then backwards.
THEOREM ChunksEndLinesHolds ==
  ASSUME Cutting!CutAssumption
  PROVE  Cutting!Spec => []Cutting!ChunksEndLines
<1>1. AllWellCut => Cutting!ChunksEndLines
  BY DEF AllWellCut, WellCut, Cutting!ChunksEndLines
<1> QED
  BY <1>1, CuttingInvariance, PTL

\* Positions stay within the text.
THEOREM CuttingTypeCorrect ==
  ASSUME Cutting!CutAssumption
  PROVE  Cutting!Spec => []Cutting!TypeOK
<1>1. EndToEnd => Cutting!TypeOK
  BY DEF EndToEnd
<1> QED
  BY <1>1, CuttingInvariance, PTL
=============================================================================
