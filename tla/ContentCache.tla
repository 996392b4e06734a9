------------------------------ MODULE ContentCache ------------------------------
(***************************************************************************)
(* The in-memory cache of decoded files in front of the worker pool        *)
(* (server/services/content-service.js, getCachedFileEntryAsync).          *)
(*                                                                         *)
(* Requests for the same key share one load; a load that nobody waits for  *)
(* any more is aborted.  A load stats the file first and reads it later,   *)
(* in a worker thread, while the file may be replaced by the server itself *)
(* (which clears the caches) or by somebody else (which does not).         *)
(*                                                                         *)
(* A file's content is its version number, and so is its stat signature.   *)
(* An action is one turn of the event loop, the promise reactions it sets  *)
(* off included: a load that is aborted has settled and is deregistered    *)
(* before the next turn.  The pool is the abstract BoundedExecutor, which  *)
(* ContentWorkerPool implements; its tasks are the loads, and a load bears *)
(* the name of the request that started it.                                *)
(***************************************************************************)
EXTENDS Naturals, FiniteSets, SequencesExt

CONSTANTS Requests,   \* calls of getCachedFileEntryAsync
          Files, Keys, FileOf,  \* a key is a file and its preprocess options
          Size,       \* the bytes of an entry with a given text
          MaxEntries, \* FILE_CACHE_MAX
          MaxBytes,   \* FILE_CACHE_MAX_BYTES
          Capacity,   \* workers in the pool
          MaxEdits,   \* bound: file changes in a run
          None

Versions == 0..MaxEdits

ASSUME FileOfAssumption == FileOf \in [Keys -> Files]
ASSUME SizeAssumption == Size \in [Versions -> Nat]
ASSUME LimitAssumption ==
  MaxEntries \in Nat /\ MaxBytes \in Nat /\ Capacity \in Nat \ {0} /\ MaxEdits \in Nat
ASSUME FinitenessAssumption == IsFiniteSet(Requests) /\ IsFiniteSet(Files)
ASSUME NoneAssumption ==
  /\ None \notin Requests /\ None \notin Nat
  /\ None \notin [sig : Nat, bounds : Nat]
  /\ None \notin [key : Keys, sig : Nat, known : Nat \cup {None}, read : Nat \cup {None}, waiters : Nat]

VARIABLES
  version,    \* what each file contains now
  foreign,    \* changes of each file the server did not make itself
  cache,      \* fileCache: entries in insertion order
  totalBytes, \* fileCacheState.totalBytes
  index,      \* the chunk index of each key on disk
  dirty,      \* dirtyChunkIndexes
  inflight,   \* fileCacheInflight: the load a new request for the key joins
  load,       \* the unsettled inflight records and what their worker has read
  waits,      \* the load a waiting request waits for
  asked,      \* the signature a waiting request has seen
  status,     \* of each request
  phase, line, open  \* the worker pool

fileVars    == <<version, foreign>>
cacheVars   == <<cache, totalBytes>>
indexVars   == <<index, dirty>>
loadVars    == <<inflight, load>>
requestVars == <<waits, asked, status>>
poolVars    == <<phase, line, open>>
vars == <<fileVars, cacheVars, indexVars, loadVars, requestVars, poolVars>>

Pool == INSTANCE BoundedExecutor WITH Tasks <- Requests

Ages    == {"fresh", "expired", "stale"}  \* below the TTL, below FILE_CACHE_STALE_MS, beyond
Entries == [key : Keys, sig : Versions, text : Versions, bounds : Versions, age : Ages]
Indexes == [sig : Versions, bounds : Versions]
Loads   == [key : Keys, sig : Versions, known : Versions \cup {None},
            read : Versions \cup {None}, waiters : 1..Cardinality(Requests)]

TypeOK ==
  /\ version \in [Files -> Versions]
  /\ foreign \in [Files -> Versions]
  /\ cache \in Seq(Entries)
  /\ totalBytes \in Nat
  /\ index \in [Keys -> Indexes \cup {None}]
  /\ dirty \in [Keys -> Indexes \cup {None}]
  /\ inflight \in [Keys -> Requests \cup {None}]
  /\ load \in [Requests -> Loads \cup {None}]
  /\ waits \in [Requests -> Requests \cup {None}]
  /\ asked \in [Requests -> Versions \cup {None}]
  /\ status \in [Requests -> {"new", "waiting", "served", "failed", "aborted"}]
  /\ phase \in [Requests -> {"new", "queued", "running"} \cup Pool!Outcomes]
  /\ line \in Seq(Requests)
  /\ open \in BOOLEAN

Init ==
  /\ version = [f \in Files |-> 0]
  /\ foreign = [f \in Files |-> 0]
  /\ cache = <<>>
  /\ totalBytes = 0
  /\ index = [k \in Keys |-> None]
  /\ dirty = [k \in Keys |-> None]
  /\ inflight = [k \in Keys |-> None]
  /\ load = [q \in Requests |-> None]
  /\ waits = [q \in Requests |-> None]
  /\ asked = [q \in Requests |-> None]
  /\ status = [q \in Requests |-> "new"]
  /\ Pool!Init

-----------------------------------------------------------------------------
(* The cache proper.                                                       *)

Stat(k) == version[FileOf[k]]  \* statSignature

Bytes(c) == FoldLeft(LAMBDA sum, e : sum + Size[e.text], 0, c)

\* removeFileCacheEntry, on the entries and the bytes that are counted for them
Removed(m, k) ==
  LET i == SelectInSeq(m.entries, LAMBDA e : e.key = k) IN
  IF i = 0 THEN m
  ELSE [entries |-> RemoveAt(m.entries, i), bytes |-> m.bytes - Size[m.entries[i].text]]

\* touchFileCacheEntry: the entry becomes the youngest one of its key.
Touched(c, e) == Append(RemoveFirstMatch(c, LAMBDA x : x.key = e.key), e)

WithinLimits(n, bytes) == n <= MaxEntries /\ bytes <= MaxBytes

\* pruneFileCache: the oldest entries go until the limits hold; when they hold
\* already, the oldest stale entry goes.  The result is the set of the indexes
\* of c that stay, given that c takes `bytes` by the counter.
Prune(c, bytes) ==
  LET Rest(n) == SubSeq(c, n+1, Len(c))
      cut == CHOOSE n \in 0..Len(c) :
               /\ n = Len(c) \/ WithinLimits(Len(c) - n, bytes - Bytes(SubSeq(c, 1, n)))
               /\ \A m \in 0..(n-1) : ~WithinLimits(Len(c) - m, bytes - Bytes(SubSeq(c, 1, m)))
      stale == {i \in 1..Len(c) : c[i].age = "stale"}
  IN  IF cut > 0 THEN Rest(cut)
      ELSE IF stale # {} THEN RemoveAt(c, Min(stale)) ELSE c

\* Slip: an entry that replaces another one is counted on top of it.
StoreCountsTwice(e) ==
  LET c == Touched(cache, e)
      bytes == totalBytes + Size[e.text]
      kept == Prune(c, bytes)
  IN  /\ cache' = kept
      /\ totalBytes' = bytes - (Bytes(c) - Bytes(kept))

\* storeFileCacheEntry
Store(e) ==
  LET m == Removed([entries |-> cache, bytes |-> totalBytes], e.key)
      c == Touched(m.entries, e)
      bytes == m.bytes + Size[e.text]
      kept == Prune(c, bytes)
  IN  /\ cache' = kept
      /\ totalBytes' = bytes - (Bytes(c) - Bytes(kept))

\* loadChunkBoundsFromDisk
KnownBounds(k, sig) ==
  IF index[k] # None /\ index[k].sig = sig THEN index[k].bounds ELSE None

\* Slip: the entry is labelled with the signature the file has in the end.
LabelledLate(k, sig, text, known) ==
  [key |-> k, sig |-> Stat(k), text |-> text, age |-> "fresh",
   bounds |-> IF known = None THEN text ELSE known]

\* The entry built from a text; the bounds found on disk are used unseen.
Entry(k, sig, text, known) ==
  [key |-> k, sig |-> sig, text |-> text, age |-> "fresh",
   bounds |-> IF known = None THEN text ELSE known]

\* Store the entry, and schedule its bounds to be written unless known.
Keep(e, known) ==
  /\ Store(e)
  /\ dirty' = IF known = None
              THEN [dirty EXCEPT ![e.key] = [sig |-> e.sig, bounds |-> e.bounds]]
              ELSE dirty
  /\ UNCHANGED index

-----------------------------------------------------------------------------
(* Requests.                                                               *)

\* The first turn of q ends it.
End(q, st) ==
  /\ status[q] = "new"
  /\ status' = [status EXCEPT ![q] = st]
  /\ UNCHANGED <<waits, asked>>

\* waitForInflightRecord
WaitFor(q, r, k) ==
  /\ status[q] = "new"
  /\ status' = [status EXCEPT ![q] = "waiting"]
  /\ waits' = [waits EXCEPT ![q] = r]
  /\ asked' = [asked EXCEPT ![q] = Stat(k)]

\* An entry of this signature, young enough; the slip is to trust its age alone.
HitsWhateverSignature(k) == {e \in Range(cache) : e.key = k /\ e.age = "fresh"}
Hits(k) == {e \in Range(cache) : e.key = k /\ e.sig = Stat(k) /\ e.age = "fresh"}

\* A cache hit moves the entry to the young end.
RequestHit(q, k) ==
  /\ End(q, "served")
  /\ \E e \in Hits(k) : cache' = Touched(cache, e)
  /\ UNCHANGED <<fileVars, totalBytes, indexVars, loadVars, poolVars>>

\* A load is under way: q joins it, whatever signature it has.
RequestJoin(q, k) ==
  LET r == inflight[k] IN
  /\ Hits(k) = {}
  /\ r # None
  /\ WaitFor(q, r, k)
  /\ load' = [load EXCEPT ![r].waiters = @ + 1]
  /\ UNCHANGED <<fileVars, cacheVars, indexVars, inflight, poolVars>>

\* A new load, handed to the pool.
RequestLoad(q, k) ==
  /\ Hits(k) = {}
  /\ inflight[k] = None
  /\ WaitFor(q, q, k)
  /\ Pool!Start(q) \/ Pool!Wait(q)
  /\ inflight' = [inflight EXCEPT ![k] = q]
  /\ load' = [load EXCEPT ![q] = [key |-> k, sig |-> Stat(k), known |-> KnownBounds(k, Stat(k)),
                                  read |-> None, waiters |-> 1]]
  /\ UNCHANGED <<fileVars, cacheVars, indexVars>>

\* The closed pool refuses: the main thread reads the file itself, now, or fails.
RequestLocal(q, k) ==
  /\ Hits(k) = {}
  /\ inflight[k] = None
  /\ ~open /\ Pool!Refuse(q)
  /\ LET known == KnownBounds(k, Stat(k)) IN
     \/ End(q, "served") /\ Keep(Entry(k, Stat(k), Stat(k), known), known)
     \/ End(q, "failed") /\ UNCHANGED <<cacheVars, indexVars>>
  /\ UNCHANGED <<fileVars, loadVars>>

\* Slip: finally() deregisters whatever load its key has now.
DeregisterBlindly(settled) ==
  inflight' = [k \in Keys |-> IF \E r \in settled : load[r].key = k THEN None ELSE inflight[k]]

\* finally(): a load that was cleared meanwhile leaves its successor alone.
Deregister(settled) ==
  inflight' = [k \in Keys |-> IF inflight[k] \in settled THEN None ELSE inflight[k]]

\* The loads settle, and whoever waits for them ends with outcome st.
SettleLoads(settled, st) ==
  LET Ended(q) == waits[q] \in settled IN
  /\ load' = [r \in Requests |-> IF r \in settled THEN None ELSE load[r]]
  /\ Deregister(settled)
  /\ status' = [q \in Requests |-> IF Ended(q) THEN st ELSE status[q]]
  /\ waits' = [q \in Requests |-> IF Ended(q) THEN None ELSE waits[q]]
  /\ asked' = [q \in Requests |-> IF Ended(q) THEN None ELSE asked[q]]

\* Slips: a load is never given up; whoever goes away takes it along.
LastWaiterNever(r) == FALSE
LastWaiterAny(r) == TRUE
LastWaiter(r) == load[r].waiters = 1

\* The signal of a waiting request fires: the last one out aborts the load.
AbortRequest(q) ==
  LET r == waits[q] IN
  /\ status[q] = "waiting"
  /\ status' = [status EXCEPT ![q] = "aborted"]
  /\ waits' = [waits EXCEPT ![q] = None]
  /\ asked' = [asked EXCEPT ![q] = None]
  /\ IF LastWaiter(r)
     THEN /\ load' = [load EXCEPT ![r] = None]
          /\ Deregister({r})
          /\ Pool!Withdraw(r) \/ Pool!Cancel(r)
     ELSE /\ load' = [load EXCEPT ![r].waiters = @ - 1]
          /\ UNCHANGED <<inflight, poolVars>>
  /\ UNCHANGED <<fileVars, cacheVars, indexVars>>

-----------------------------------------------------------------------------
(* Loads.                                                                  *)

\* The worker thread reads the file.
ReadFile(r) ==
  /\ phase[r] = "running"
  /\ load[r].read = None
  /\ load' = [load EXCEPT ![r].read = Stat(load[r].key)]
  /\ UNCHANGED <<fileVars, cacheVars, indexVars, inflight, requestVars, poolVars>>

\* The worker's answer arrives.
LoadDone(r) ==
  LET e == Entry(load[r].key, load[r].sig, load[r].read, load[r].known) IN
  /\ phase[r] = "running"
  /\ load[r].read # None
  /\ Pool!Settle(r, "resolved")
  /\ Keep(e, load[r].known)
  /\ SettleLoads({r}, "served")
  /\ UNCHANGED fileVars

\* The worker failed: the main thread looks up the index again and reads the
\* file itself, or fails as well.
LoadFallback(r) ==
  LET known == KnownBounds(load[r].key, load[r].sig)
      e == Entry(load[r].key, load[r].sig, Stat(load[r].key), known)
  IN
  /\ phase[r] = "running"
  /\ Pool!Settle(r, "failed")
  /\ \/ /\ Keep(e, known)
        /\ SettleLoads({r}, "served")
     \/ /\ SettleLoads({r}, "failed")
        /\ UNCHANGED <<cacheVars, indexVars>>
  /\ UNCHANGED fileVars

\* closeWorkerPool: the loads still in line are aborted under their waiters.
ClosePool ==
  /\ Pool!Shut
  /\ SettleLoads({r \in Requests : phase[r] = "queued"}, "failed")
  /\ UNCHANGED <<fileVars, cacheVars, indexVars>>

\* The closed pool's worker ends without an answer.
LoadDropped(r) ==
  /\ ~open
  /\ Pool!Settle(r, "aborted")
  /\ SettleLoads({r}, "failed")
  /\ UNCHANGED <<fileVars, cacheVars, indexVars>>

-----------------------------------------------------------------------------
(* Files.                                                                  *)

Edit(f) ==
  /\ FoldFunction(+, 0, version) < MaxEdits
  /\ version' = [version EXCEPT ![f] = @ + 1]

\* Slip: requests may still join the loads that are under way.
ForgetOnlyEntries(ks) == inflight
\* clearFileCachePath and clearAllFileCache: the loads go on, unregistered.
Forget(ks) == [k \in Keys |-> IF k \in ks THEN None ELSE inflight[k]]

KeysOf(f) == {k \in Keys : FileOf[k] = f}

\* clearFileCachePath on the cache: the entries of f are removed one by one.
Cleared(f) ==
  FoldLeft(LAMBDA m, e : IF FileOf[e.key] = f THEN Removed(m, e.key) ELSE m,
           [entries |-> cache, bytes |-> totalBytes], cache)

\* The server renames, moves or deletes one episode and another file takes its
\* place: clearFileCachePath in the same turn.
ReplaceEpisode(f) ==
  /\ Edit(f)
  /\ cache' = Cleared(f).entries
  /\ totalBytes' = Cleared(f).bytes
  /\ inflight' = Forget(KeysOf(f))
  /\ index' = [k \in Keys |-> IF k \in KeysOf(f) THEN None ELSE index[k]]
  /\ dirty' = [k \in Keys |-> IF k \in KeysOf(f) THEN None ELSE dirty[k]]
  /\ UNCHANGED <<foreign, load, requestVars, poolVars>>

\* The same when a folder was renamed or deleted: clearAllFileCache, which leaves
\* the index files on disk alone.  (Operations on a novel do both.)
ReplaceFolder(f) ==
  /\ Edit(f)
  /\ cache' = <<>>
  /\ totalBytes' = 0
  /\ inflight' = Forget(Keys)
  /\ dirty' = [k \in Keys |-> None]
  /\ UNCHANGED <<foreign, index, load, requestVars, poolVars>>

\* Somebody else replaces the file: nothing is cleared.
ForeignEdit(f) ==
  /\ Edit(f)
  /\ foreign' = [foreign EXCEPT ![f] = @ + 1]
  /\ UNCHANGED <<cacheVars, indexVars, loadVars, requestVars, poolVars>>

\* The 150 ms timer: each dirty index is written, or its write fails.
FlushIndexes ==
  /\ \E k \in Keys : dirty[k] # None
  /\ \E failed \in SUBSET Keys :
       index' = [k \in Keys |-> IF dirty[k] # None /\ k \notin failed THEN dirty[k] ELSE index[k]]
  /\ dirty' = [k \in Keys |-> None]
  /\ UNCHANGED <<fileVars, cacheVars, loadVars, requestVars, poolVars>>

\* Time passes for one entry.
Grow(i) ==
  /\ i \in 1..Len(cache)
  /\ \/ cache[i].age = "fresh"   /\ cache' = [cache EXCEPT ![i].age = "expired"]
     \/ cache[i].age = "expired" /\ cache' = [cache EXCEPT ![i].age = "stale"]
  /\ UNCHANGED <<fileVars, totalBytes, indexVars, loadVars, requestVars, poolVars>>

-----------------------------------------------------------------------------
Request(q) == \E k \in Keys : \/ RequestHit(q, k)
                              \/ RequestJoin(q, k)
                              \/ RequestLoad(q, k)
                              \/ RequestLocal(q, k)

\* All requests have ended: nothing needs to happen any more.
Quiescent ==
  /\ \A q \in Requests : status[q] \in {"served", "failed", "aborted"}
  /\ UNCHANGED vars

Next ==
  \/ \E q \in Requests : \/ Request(q) \/ AbortRequest(q)
                         \/ ReadFile(q) \/ LoadDone(q) \/ LoadFallback(q) \/ LoadDropped(q)
  \/ \E f \in Files : ReplaceEpisode(f) \/ ReplaceFolder(f) \/ ForeignEdit(f)
  \/ \E i \in 1..MaxEntries : Grow(i)
  \/ FlushIndexes
  \/ ClosePool
  \/ Quiescent

Spec == Init /\ [][Next]_vars

\* EveryTaskSettles of ContentWorkerPool: a running task ends.
Fairness == \A r \in Requests : WF_vars(ReadFile(r)) /\ WF_vars(LoadDone(r) \/ LoadFallback(r) \/ LoadDropped(r))

FairSpec == Spec /\ Fairness

-----------------------------------------------------------------------------
(* What the cache promises.                                                *)

\* The byte counter, kept by increments through replacement, pruning, clearing
\* and ageing, is the sum over the entries; both limits hold; keys are unique.
Accounting ==
  /\ totalBytes = Bytes(cache)
  /\ WithinLimits(Len(cache), totalBytes)
  /\ \A i, j \in 1..Len(cache) : i # j => cache[i].key # cache[j].key

\* What a cache hit yields is exact although the entry was read long after its
\* stat, and the file may have changed in between: the text the file has now,
\* cut at that text's own bounds.  So is what the chunk index on disk yields.
HitsAreExact ==
  \A k \in Keys :
    /\ \A e \in Hits(k) : e.text = Stat(k) /\ e.bounds = Stat(k)
    /\ KnownBounds(k, Stat(k)) \in {None, Stat(k)}

\* Unless somebody else changes the file, a request is never answered with a
\* text older than what it saw, also when it waits for a load that another
\* request had started: such a load was not started before the file was replaced.
RepliesAreCurrent ==
  \A q \in Requests :
    LET l == load[waits[q]] IN
    waits[q] # None /\ foreign[FileOf[l.key]] = 0 =>
      /\ l.sig >= asked[q]
      /\ l.read # None => l.read >= asked[q]

\* A load under way is waited for by exactly as many requests as it counts, at
\* least one, and has the pool work for it; the pool works for no other load.
\* Hence no request waits for ever and no decoding goes on that nobody wants.
LoadsAreWanted ==
  \A r \in Requests :
    LET waiting == {q \in Requests : waits[q] = r} IN
    IF phase[r] \in {"queued", "running"}
    THEN load[r] # None /\ load[r].waiters = Cardinality(waiting) /\ waiting # {}
    ELSE load[r] = None /\ waiting = {}

\* Single flight: while a load is under way the requests for its key can join
\* it, until the server itself replaces files.
LoadsStayJoinable ==
  [][\A k \in Keys :
       LET r == inflight[k] IN
       r # None /\ inflight'[k] # r => load'[r] = None \/ version' # version]_vars

\* Every request is answered, fails or is aborted.
EveryRequestEnds == \A q \in Requests : status[q] = "waiting" ~> status[q] # "waiting"
=============================================================================
