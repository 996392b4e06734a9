# TxT Reader Multi: verification project

TxT Reader Multi is a web reader for plain-text novels. A Node/Express server
(`server/`) scans a library of `.txt` files, decodes and preprocesses them in
worker threads, serves them in chunks, and keeps accounts, sessions and the
reading state of every user in JSON files. An ES-module client
(`public/scripts/rebuild/`) renders the chunks in a virtualised reader, prefetches
and caches them, and synchronises the reading state between a user's devices.

This directory holds TLA+ models of the parts of it where order matters, the TLC
runs that check them on small instances, and TLAPS proofs of the results that
hold for every size.

## 1. Inventory

Handlers of the server's main thread run to completion, and so do the promise
reactions they set off; concurrency comes from worker threads, asynchronous file
operations, timers, aborted requests, several devices, file changes under the
server, and process crashes.

| Component | State | Operations | Interacts with | What must be right |
| --- | --- | --- | --- | --- |
| Content worker pool (`content-entry-worker-pool.js`, `content-entry-worker.js`) | queue, idle stack, counted workers, idle timers, current tasks | `runTask`, abort, `message`/`error`/`exit`, idle timer, `close` | called by the content cache; drives worker threads | tasks settle once, are not lost, and start whenever a slot is free; no thread with wanted work is terminated |
| Content cache (`content-service.js`) | LRU of decoded files, byte counter, shared loads, chunk index on disk | `getCachedFileEntryAsync`, abort, clear path, clear all, index timer | worker pool, file operations, novels and manifest routes | hits are exact, bytes are counted right, loads are shared and given up when nobody wants them |
| JSON store and user state (`json-file-store.js`, `sync-state-service.js`) | state in memory, timers, `dirty`/`writing`, primary and backup file | `set`, `saveSoon`, `flush`, write callbacks, retry, load | state writes, snapshots, restore | what was set reaches the disk; what is on disk never goes back; a readable copy survives |
| State write and sync policy (`state-write-service.js`, `sync-policy-service.js`) | shared and per-device versions and times | save shared, progress, device | client sync; user state | stale writes are refused, accepted ones are not lost, a device does not lock itself out, filtering deletes nothing |
| Client sync (`features/sync`, `progress.mjs`) | the device's own versions, in-flight flag | save progress, periodic push, resume offer | state routes | the device's counter and the server's agree in the end |
| Session store, accounts (`session-store.js`, `account-service.js`, `middleware/auth.js`) | sessions, session versions, debounced file | login, logout, expiry, revoke, load | auth middleware, admin routes | a revoked or logged-out session stays out, also after a restart |
| Sign-up codes (`signup-code-service.js`) | use counts | reserve, create user, roll back | accounts | a code is never used more often than allowed, nor lost to a failure |
| Snapshots (`user-state-service.js`) | snapshot files | create, prune, restore, reset | user state | restore finds its snapshot |
| Block manifests (`block-manifest-service.js`) | hot manifests, disk cache, shared builds | walk the chunks, build, join, clear | content cache | a manifest covers its text; joined builds do not fail with somebody else's abort |
| Library and file operations (`library-service.js`, `fileops-service.js`) | scan cache | rename, move, delete, scan | content cache | caches are cleared with the change |
| Rate limit, disk janitor, audit log | windows, file ages, log file | count, prune, rotate | routes | limits hold across window edges |
| Client prefetch queue (`prefetch-queue.mjs`) | queue, `running`, controller, session number | schedule, pump, abort | chunk cache, content API | one pump at a time, none for a book that was left |
| Client chunk window, virtual layout, search, settings, bookmarks, library UI | one tab's DOM and local storage | | | mostly geometry and rendering |
| Release tools and smoke checks (`tools/`) | none | | | not part of the running system |

`PROJECT.json` lists all of them with their sources, and every hazard with the
line where it bites.

## 2. Plan

1. `ContentWorkerPool` with its abstract specification `BoundedExecutor`, and the
   proofs of its invariants. **Done.**
2. `ContentCache`, composed with `BoundedExecutor`, and the proofs about its loads
   and about what it holds; `ChunkBounds`, how a text is cut. **Done**, without the chunk
   payload cache on disk.
3. `SyncState` over `JsonFileStore`: debounce, serialised writes, retry, backup,
   crash and restart; its abstract specification `DurableRegister` and the proofs
   of its invariants and of the refinement. **Done**, without the periodic
   snapshots.
4. `StateSync`: the server's stale-write rule with several devices that count
   versions themselves, and its proofs. **Done**, without the state that only one
   device writes.
5. `InPlaceFile`, `SignupRegistration` and `SessionAuth`: two stores that are
   saved apart, failing saves, kills; with proofs. **Done**, without expiry.
6. `PrefetchQueue`: the client's queue with pumps that outlive their abort, and its
   proofs. **Done.**

What would come next: `BlockManifest`, whose shared builds lack the count of
waiters that `ContentCache` has; the push of device preferences in `StateSync`; and
the expiry of sessions.

## 3. Modules

Each module maps one turn of Node's event loop, with the promise reactions it sets
off, to one action. Operators whose name tells a mistake (`AvailableThoughDead`,
`LogOnly`, `DeregisterBlindly`, `NeverStale`, `GiveBack`'s `KeepUse`, ...) stand before the definition they imitate,
marked "Slip" in a comment. They are not part of any specification; each is a
plausible bug, and putting it in place of the definition breaks the property
that `PROJECT.json` names beside it.

| Module | Models | Correspondence |
| --- | --- | --- |
| `ContentWorkerPool` | `content-entry-worker-pool.js`, `content-entry-worker.js` | one variable per closure variable (`queue`, `idleWorkers`, `workers`), per field of a task or worker (`currentTask`, `taskWorker`, `status` for `started`/`settled` and the promise), and the thread behind each worker (`thread`, `inbox`, `outbox`); one action per event handler |
| `BoundedExecutor` | what `runTask` promises | a FIFO line before `Capacity` slots; no threads, events or timers |
| `ContentCache` | the asynchronous path of `content-service.js` | `cache`, `totalBytes`, `inflight`, `dirty` are the service's own; `index` is the chunk index on disk; `load` holds an unsettled in-flight record and what its worker read; the pool is `BoundedExecutor` |
| `ChunkBounds` | `buildChunkBounds`, `getChunkByLine` in `content-service.js` (the worker's loop is the same), the loop over chunks in `block-manifest-service.js` | a text is its length and the places of its newlines; `pos` and `chunks` are the loop's `pos` and `bounds`; `parts` are the chunks of the manifest; one turn of a loop is one action |
| `JsonFileStore` | `json-file-store.js` | the primary, the backup and the next file operation of the write under way; the temporary file is implied by `step` and `body` |
| `SyncState` | `sync-state-service.js` and its callers | `state`, `saveTimer`, `retryTimer`, `writing`, `dirty` are the service's own; `up` is the process; a state is its number in the order of `set()` |
| `DurableRegister` | what a user's state promises | a value in memory and a durable one behind it |
| `StateSync` | `state-write-service.js`, `sync-policy-service.js`, the merge and the access filter; `progress.mjs`, `server-state-hydration.mjs`, `theme-editor.mjs`, `bookmarks/model.mjs` | `server` is the stored progress with its version and time; `device` is `app.state` of each page (`progress`, `shared`, `sharedVersion`); `wire` holds requests and replies, in no order; one action per saver, per handler and per reply |
| `InPlaceFile` | `save()` and the loading of `account-service.js` and `signup-code-service.js` | main and backup file; every outcome of a copy and a write, and of a kill at any point |
| `SignupRegistration` | `signup-code-service.js`, `createUser`, the register route | `codes`, `accounts` in memory and their files; `turn` is the save that the request has come to |
| `SessionAuth` | `session-store.js`, session versions in `account-service.js`, the check in `auth.js` | `sessions`, `timer`, `dirty`, `writing` are the store's own; `stored` is its file |
| `PrefetchQueue` | `prefetch-queue.mjs`, `prefetch-schedule.mjs`, and what they share with `reader.mjs`, `cache-store.mjs`, `preprocess.mjs`; the other writers of the reader cache in `load-chunk-side-effects.mjs`, `dom-actions.mjs`, `matcher.mjs` | `queue`, `queuedKeys`, `running`, `controller`, `runSession` are the state object's fields; a pump is one call of the async loop, cut at its awaits; `cache` is the store of chunks, whoever writes it; `held` and `past` are the options a text of the present session, or of the page, may have been asked for with |
| `SequenceLemmas`, `...Proofs` | | lemmas on sequences without one element, on induction over sets and on folds; theorems |
| `MC...` | | instances for TLC |

How they compose: the detailed pool implements the executor (`ImplementsExecutor`),
and the cache uses the executor in the pool's place, so that the cache's
interleavings are explored without the pool's. `SyncState` extends the file store
and implements the register (`ImplementsRegister`). `SignupRegistration` and
`SessionAuth` extend `InPlaceFile`; the session file itself is replaced whole, as
`JsonFileStore` shows, so that `SessionAuth` takes one step for it. `StateSync`
starts from a server that does not restart: what a restart would lose is the
subject of `SyncState`.

What the abstraction leaves out of these modules:

- Pool: what a worker computes; its reply is good or bad. `drain()`'s loop is
  unrolled once, because every handler frees at most one slot; `WorkConserving`
  is the negation of the loop's guard and shows that the unrolled step suffices.
- Cache: a text is the version of the file it was read from, and so is a stat
  signature: two different contents never have the same one. The times an entry
  is fresh, expired (not used) and stale (pruned) are the three ages. Missing
  files, the payload cache on disk and the synchronous reader are not modelled.
  The second look into the cache, when a load is about to begin
  (`content-service.js:700`), is in the same turn as the first and folded into it.
- Sync state: `normalizeState` builds a new object, so a write under way keeps the
  state it was started with; normalising a state again is a stutter. Retry
  delays, error texts and the persistence report are left out.
- Device sync: a position is the time it was saved at; all clocks agree and are
  never read twice with the same result. A lost message is one that stays on its
  way for ever. Of the shared state only the progress is kept, because it is the
  only part that two kinds of request write.
- Sign-up and sessions: an account is the code it was made with, or its session
  version and whether it is enabled. Passwords, roles, access lists, expiry and
  the owner's own session are left out. `stored`, `made`, `unsaved`, `answered`,
  `opened`, `removed` and the like record history for the properties; no guard
  reads them.
- Prefetch: a chunk's text is the options it was made with. The book is opened
  and closed; its chunks have the same keys each time. Four parts of the client
  put chunks into the reader cache, and all make the key when the text arrives.
  The pumps of the prefetch are followed step by step. The requests of the reader
  (`ShowChunk`), of offline downloads and of searches (`KeepChunk`) are not: a
  text of theirs arrives at any time, made with any options it may have been
  asked for with. For the reader these are the options of the present session,
  because it tests the session after its await (`isReaderRequestCurrent`); for
  the other two, which test nothing, all options since the page was opened. Their
  put is taken in the step in which the text arrives. The cache may refuse to
  find a record at any time (`CacheLacks`), which stands for pruning, clearing
  and a failing database. A read also puts the record it found back with a new
  access time, and may so revive one that was replaced meanwhile: this is left
  out, and it brings no record that was not put before.

## 4. Runs

| Run | Instance | States | Shows |
| --- | --- | --- | --- |
| `pool_safety` | 3 tasks, 3 worker objects, `MaxWorkers` 2, symmetry | 97,268 | bookkeeping and threads agree; the refinement |
| `pool_liveness` | 2 tasks, 2 worker objects, `MaxWorkers` 1 | 4,153 | every task settles, whether it waited or was started at once |
| `cache_safety` | 3 requests, 2 files with a key each, 2 entries, 2 bytes, capacity 1, 2 file changes, symmetry | 770,456 | byte counter, freshness, single flight |
| `cache_liveness` | 2 requests, 1 file with 2 keys, 1 entry, 1 change | 17,513 | every request ends |
| `sync_safety` | 3 states, 2 failed writes, 2 kills, 1 damaged file | 4,493 | flags, nothing forgotten, the disk never goes back |
| `sync_intact` | the same without damage | 1,973 | the refinement; every state reaches the disk |
| `devices_sync` | 2 devices, 1 novel, 3 saves, 2 other requests, symmetry | 2.9M | refusals have a cause; nobody goes back |
| `hidden_positions` | 2 devices, 2 novels, 1 save, 3 other steps | violated | a hidden position is deleted (finding) |
| `signup_safety` | 1 code, 3 names, limits 0 and 2, 2 edits, 1 failed save, 2 kills, symmetry | 243k | uses and accounts agree across two files |
| `signup_twice` | the same without edits and kills | violated | a one-time code makes two accounts (finding) |
| `sessions` | 2 tokens, 1 name, 4 edits, 1 failed write, 2 kills, symmetry | 3.4M | revocation and logout are final |
| `prefetch` | 2 chunks, queue and reader of 1, 2 warmings, 3 sessions, 2 aborts, 1 change of options, 1 text by others, 2 pumps | 1.4M | queue and keys, records and options; jobs are taken |

Why the bounds are enough:

- Pool: with two slots and three tasks a task waits while two run, and is handed
  to a slot that an abort, a crash, an idle timeout or an answer frees. Three worker
  objects let one die and be replaced while the other is busy; a worker on the stack
  that is dead, one that is idle and one that is busy occur together.
- Cache: three requests are an initiator, a second waiter and a successor's
  initiator under the same key. The text of version v takes v+1 bytes, so
  `MaxBytes` 2 admits two old texts, one changed text, and not the last one at
  all; the count limit 2 and the byte limit are both reached. One slot makes
  loads queue, the only state in which an abort takes the other branch. Two
  changes of a file let a load be read before, between and after them.
- Sync state: one state can be on disk, the second being written and the third
  set meanwhile. Two kills allow a kill after a start from the backup, two
  failures a retry that fails. One damage puts a bad primary under a good backup.

- Device sync: three saves on two devices are two of one device that overtake
  each other with one of the other between them. The two other steps are a reload
  and a reply that is late, or a saver of settings whose copy is old; a refusal
  without cause needs one of them.
- Sign-up: the limit 2 (and 0, which the code raises to 1) lets a code be used up
  and be partly used; the third name is refused, or taken where the code has given
  back too much. Two kills and a failed save cut two saves in a row, the least
  that loses an answered user. The edits lower a limit and raise it again, or
  delete the code while its accounts remain.
- Sessions: one token is revoked or removed while the other one is logged in. Four
  edits are a creation, a revocation, a deletion and the same name again; a kill
  between two saves leaves the files apart, and the second one shows that the
  first restart has not made it worse. With one name every session is the
  account's own; sessions of two names do not meet in the code.
- Prefetch: two pumps, one aborted and one that works, and two jobs for a queue
  of one, so that one is dropped. Three sessions reopen the book while the pump of
  the session before the last still sleeps; one change of the options lies before,
  in or after any of them, and so does the arrival of one text that the reader, a
  download or a search has asked for. One arrival is enough: a text of theirs
  depends on no other, and what they put matters to a pump only by being found. Its
  fairness is what the browser gives, see below.

Deadlock is checked in all runs; the `Quiescent` action of each specification
says in which states the system may rest.

The one exception in `NeverBackwards` is a behaviour of the code: after a start
from the backup the primary is unreadable, and the next save copies it over the
backup (`json-file-store.js:36`) before the rename. A kill, or a failed rename
followed by a kill, leaves no readable copy. No text of the repository promises
otherwise, so it is recorded as a hazard and not as a finding.

The other exceptions are named in the properties as well, and each is a behaviour
of the code that no document excludes:

- a counter that is set back (`rewound`), by a reply older than the device's saves
  (`theme-editor.mjs:346`) or by a reload. The code loses the count only when the
  read of the reload fails, or until its reply comes; the exception is wider and
  takes in every reload after a save, whether or not the read succeeds;
- a count of uses that a lower limit has cut (`clamped`,
  `signup-code-service.js:230`), and a backup whose copy failed (`copied`);
- a name given to a second account (`recreated`) and a session version lost with
  its kill (`unsettled`), in both of which an old session can match a new account;
- a session removed in memory whose removal no completed write contains;
- options that changed since a text may have been asked for (`late`): in the same
  session for the prefetch and the reader, in the same page for downloads and
  searches. A download that is under way while the options change and the book is
  reloaded leaves text of the old options under the key of the new ones.

Without the exception TLC finds each of these properties violated. For `unsettled`
this takes a larger instance than the one of the run: with `MaxFailures` = 1 it
stays empty, since the save of a new session version and the one at the login must
both fail. With 2, and without the exception, TLC finds `RevokedStaysRevoked`
violated in eight states (such a password change and login, a kill, and the
version given out anew).

### Findings

Two runs expect a violation, because a text of the repository says otherwise.

- `signup_twice`: `signup-code-service.js:298` and
  `docs/multi-user-access-control.md:200` promise that a one-time code is not
  consumed twice. `createUser` adds the account before it is saved and leaves it
  when the save fails (`account-service.js:69`), while the use is given back: the
  next registration with the code succeeds too, and both accounts are stored.
- `hidden_positions`: `docs/multi-user-access-control.md:41` promises that
  responses are filtered without deleting what is stored. A page loaded while a
  novel is hidden keeps the filtered copy and sends all of it with the next
  shared setting; the server takes its progress whole.

### Fairness

- Pool: a thread that has a task answers or dies, and the event loop delivers
  messages, errors and exits. Decoding a file is finite and Node delivers the
  events of a worker. Nobody has to call `runTask`, abort, close, or let an idle
  timer fire.
- Cache: a running load reads its file and ends, which is what `pool_liveness`
  shows of the pool. Requests, aborts and file changes are not fair.
- Sync state: the two timers fire and the file operations of a write end. The
  debounce timer is restarted by each save, so its fairness assumes that saves
  pause; a real stream of saves closer than 120 ms postpones the write. File
  operations fail finitely often (`MaxFailures`): a disk that stays full keeps
  the state in memory for ever, as the code's log message says.
- Prefetch: a scheduled pump starts, and a pump that awaits goes on. Idle callbacks
  are asked for with a timeout, and a request ends with an answer or an error. A
  reader who opens, closes or warms is not fair.

## 5. Proofs

All for every number of tasks, workers, slots, requests, files, devices, users,
codes, saves, failures and kills. The named assumptions of each module say that
limits are numbers, that the null values are not elements of the sets they
complete, and that the requests and the names in use are finitely many, which the
counts of them need.

`ContentWorkerPoolProofs`: the type invariant, `WorkConserving`, `Binding`,
`IdleIsIdle`, `NoIdleLeak`, `NoTaskLost`, and the action property
`NoCollateralTermination`. None of them is inductive alone. A handler changes
the bookkeeping and then calls `drain()` on values that are stored nowhere, so the
inductive invariant is an operator, `Core`, of those values: `CoreTasks` (queue,
task states and current tasks), `CoreWorkers` (who counts, who is on the stack)
and `CoreThreads` (what each thread may be doing). One lemma, `DrainKeepsInv`,
over the two ways to find a worker, shows that `Core` together with `Slots` ("at
most one slot is free while tasks wait") before `drain()` gives the invariant after
it; each handler then only has to establish `Core` and `Slots`.
`SequenceLemmas` has the facts on removing one element of a sequence.

The same module proves `ImplementsExecutor`: with a worker's bookkeeping forgotten,
each handler does what `BoundedExecutor` does in one step, or nothing. What has to be
shown is that the executor sees the same number of free slots. `RunningIsBusy` says
that there are as many running tasks as busy workers, by the bijection that
`Binding` gives; `DrainOutcome` that `drain()` leaves things as they are or gives one
task, the head of the line, to a worker; and `SettleRefines` that the slot of a task
that ends is taken up in that same turn, whether its worker lives (`WithoutWorker`,
`LossRefines` otherwise). This is what allows `ContentCache` to use the executor in
the pool's place.

`SyncStateProofs`: the type invariant, `FlagsAgree`, `NothingForgotten`,
`NeverBackwards`, and `SyncImplementsRegister`: with `MaxDamages = 0` the service
implements `DurableRegister`. What has to be added is the order of the documents
in play, `Ordered`: backup before primary, what a restart would find before
what is being written, that before the state in memory; and `Intact`: a readable
or absent primary unless something was damaged. From the order it follows that a
rename moves forward and a copy changes nothing; `StepRegister` maps each action to
a step of the register or to a stutter.

`ContentServiceProofs` proves all of `ContentCache` but its liveness, in two parts,
and in a third all of `ChunkBounds`.
`LoadsAreWanted`, `RepliesAreCurrent` and `LoadsStayJoinable` do not depend on what
the cache holds, so their invariant, `CacheInv`, leaves it out and has its own types
(`Shape`), for numbers without a bound. `Queue` says that
what stands in the pool's line is there once and queued: an executor that handed a
slot to a task twice would begin work that is over. `Tied` connects requests and
keys with loads, `Wanted` counts the waiters (`FS_AddElement` and
`FS_RemoveElement` when one joins or leaves), and `Current` says that a registered
load has the signature its file has now, which is why a request may join it. Six
lemmas state what a step of the pool begins and ends; `LoadsEnd` covers all the
ways loads settle, the last waiter's abort included.

The second part is about what the cache holds: `Accounting`, `HitsAreExact` and the
type invariant, from `Contents`, which is inductive under `CacheInv`. `Listed` says
that no key has two entries and that the counter is the sum over them. `Bytes` is a
fold; its laws (`BytesOfAppend`, `BytesOfConcat`, `BytesWithoutOne`) make every
increment of the counter right, and `PruneType` shows that the cut `pruneFileCache`
finds exists and brings the list within both limits. For the entries themselves
`HitsAreExact` is not inductive: an entry whose file has changed is not hit and may
hold a text newer than its signature, and so may a load that is under way. What is
kept is an interval, `Good`: the text and its bounds are not older than the signature
they bear, and not newer than the file is now. An edit only makes the interval
longer; when the signature is the file's own the interval is one version, and the
hit is exact. `Exact` says the same of the indexes on disk and the dirty ones,
`Informed` of what a load has found and read.

The third part takes `ChunkBounds` as an instance, `Cutting`, and proves all its
properties. They are about two loops with one actor and no choice, and the proofs cover
every text and all sizes that are not 0 (`CutAssumption`, the hypothesis of the
theorems), so that there is no run for it.
`EndToEnd` says that the chunks so far lie end to end up to `pos` and that the walked
ones are the first of them; `AllWellCut` that each has the right size and ends a line.
The lemma the rest follows from is `LineEndIsFirst`: the loop searches forwards for a
newline that ends within the look-ahead, and else backwards from the boundary. The
backward search can only find a newline on the boundary itself, which the forward one
has rejected by one character; so the two find the first newline of the look-ahead, and
a chunk can be one character longer than `ChunkSize + Lookahead`.

`StateSyncProofs`: the type invariant, `NoFalseConflict`, `OwnSavesInOrder` and
`LocalKeepsNewest`. `Timed` says that nothing is dated in the future. `Counted`
says, of each device that was never set back, that its saves on their way are
numbered in the order they were made, and on which side of the server's version
each of them lies; `OwnSavesInOrder` is then what the stale-write rule does with
such numbers.

`SignupRegistrationProofs`: the type invariant, `UsesAreSpent`, `UsesAreReturned`
and `AnsweredUsersSurvive`. While a turn is under way the count is one ahead of
the accounts; `Known` says whose use that is, `Exact` and `NoneFree` state the
properties with this margin. `NoneFree` is about every pair of a list of codes and
a list of accounts that may be read: memory or a restart's, in any combination.
It holds because the use is saved before the account exists.

`SessionAuthProofs`: the type invariant, `RemovedStaysRemoved`, `UnsavedIsPending`
and `RevokedStaysRevoked`. `OneWrite` says that two snapshots are never written at once,
`GoneForGood` that the snapshot under way does not hold what was removed when it
was taken, `Pending` that it is the newest one unless a timer or a flush is due.
The fourth property, `RevokedStaysRevoked`, is about two files that are saved apart
and may each be set back by a kill. `Versions` compares every copy of a session (in
memory, in the file, in the write under way) with its account in memory and in the
file: none is ahead, and those that were revoked are behind. It is kept because a
save or a kill leaves the accounts of the file, those of memory, those being saved,
or none (`SaveOnDisk`, `StepFollows`), never a mixture or an older version.
Both account models' proofs begin with the same lemmas on a file written in place.

`PrefetchQueueProofs`: the type invariant, `KeysMatchQueue` and `CacheMatchesKey`, for
any number of pumps awake at once. `Queues` is the set of queues that agree with
their keys; `EnqueueType` and `QueueBehind` say that what is enqueued and what a pump
takes away stay in it, `WarmType` that any number of candidates do. `CacheMatchesKey`
relates options that were in force when a job was queued with those in force when
its text arrived, three awaits and perhaps a change of controllers later. `Apt` is
what survives these awaits: a job of the present reader session was made with options
that were in force in it; it is lost by no new session, because then no old job is of
the present one, and by no change of options, which adds to those that were in force.
`TextArrives` tests the session in the step that takes the key. `Sound` says this of
the job of every pump. The records of the other writers need no such history:
`ArrivesRight` says that if the options have not changed since the text may have been
asked for, there is only one set of options it can be made with.

`SequenceLemmas` is what these proofs share. The library's induction theorems
take a predicate and cannot be instantiated with the installed provers, but a set can
be: from the well-foundedness of < follow induction for sets of numbers, of
sequences and of subsets of a finite set, and `FoldExists`, that a fold of a function
has a value of the type the function preserves. `FoldLeft` is defined with CHOOSE;
the lemmas `BytesAreSums`, `ClearedType`, `WarmType` and `EditBound` exhibit the
function that is chosen. So these folds are proved about for lists of any length.

Only model-checked: `EveryTaskSettles`, `EveryRequestEnds`, `EveryStateReachesDisk` and
`EveryJobIsTaken`. Liveness under fairness needs ENABLED, which the prover does not
support. Every other property of a passing run is a theorem.

## 6. Not modelled

`PROJECT.json` names the reason for each component. In short:

- Rendering and layout, coordinates, the chunk window: geometry and floating point
  in one tab. Dialogs, settings panels, the library view: wiring of one tab's DOM.
  They are by far the largest part of the source: the client's scripts alone are
  many times the server, and most of the rest are checks and release tools.
- Character set detection, the division of a chunk into blocks, search, normalisation of JSON
  documents, the CSS filter: functions on strings.
- Static files, headers, fonts, diagnostics, audit log, disk janitor, library scan:
  I/O and wiring.
- The shared builds of block manifests and snapshots have state and a hazard each, listed without a
  property: the first are a second instance of shared loads, under the signal of
  the request that began them; the second are sequences of synchronous file
  operations with nobody else in them.
- Of the modelled components: the chunk payload cache on disk, missing files,
  periodic snapshots, device preferences and the resume offer, expiry of codes
  and sessions, the owner's session, rate limits.
