------------------------------- MODULE SyncState -------------------------------
(***************************************************************************)
(* One user's reading state in memory and on disk                          *)
(* (server/services/sync-state-service.js over json-file-store.js).        *)
(*                                                                         *)
(* A save is debounced, at most one write is under way, a failed write is  *)
(* retried later, and whatever is set meanwhile must be seen by one of the *)
(* two timers or by the end of the write.  The server may be killed at any *)
(* step and starts again from what it finds on disk.                       *)
(***************************************************************************)
EXTENDS JsonFileStore

CONSTANTS MaxSets, MaxFailures, MaxKills, MaxDamages  \* bounds on a run

ASSUME BoundsAssumption ==
  MaxSets \in Nat /\ MaxFailures \in Nat /\ MaxKills \in Nat /\ MaxDamages \in Nat

VARIABLES
  up,          \* the server runs
  state,       \* the state in memory
  saveTimer, retryTimer, writing, dirty,
  sets, failures, kills, damages  \* how many there have been

timerVars == <<saveTimer, retryTimer, writing, dirty>>
countVars == <<sets, failures, kills, damages>>
vars == <<storeVars, up, state, timerVars, countVars>>

TypeOK ==
  /\ StoreTypeOK
  /\ up \in BOOLEAN
  /\ state \in Nat
  /\ saveTimer \in BOOLEAN
  /\ retryTimer \in BOOLEAN
  /\ writing \in BOOLEAN
  /\ dirty \in BOOLEAN
  /\ sets \in Nat
  /\ failures \in Nat
  /\ kills \in Nat
  /\ damages \in Nat

Init ==
  /\ StoreInit
  /\ up = TRUE
  /\ state = 0
  /\ saveTimer = FALSE
  /\ retryTimer = FALSE
  /\ writing = FALSE
  /\ dirty = FALSE
  /\ sets = 0
  /\ failures = 0
  /\ kills = 0
  /\ damages = 0

-----------------------------------------------------------------------------
\* flush() with the value v in memory and the retry timer at r.  The slip is to
\* rely on the write that is under way.
FlushUnlessWriting(v, r) ==
  IF writing \/ r
  THEN UNCHANGED <<dirty, writing, step, body>>
  ELSE dirty' = FALSE /\ writing' = TRUE /\ Begin(v)

Flush(v, r) ==
  IF writing \/ r
  THEN dirty' = TRUE /\ UNCHANGED <<writing, step, body>>
  ELSE dirty' = FALSE /\ writing' = TRUE /\ Begin(v)

\* set() with a new state.
Set ==
  /\ up
  /\ sets < MaxSets
  /\ sets' = sets + 1
  /\ state' = sets + 1

\* An accepted write of shared, progress or device state: set() and saveSoon().
SetAndSaveSoon ==
  /\ Set
  /\ saveTimer' = TRUE
  /\ UNCHANGED <<storeVars, up, retryTimer, writing, dirty, failures, kills, damages>>

\* A reset or a restored snapshot: set() and flush().
SetAndFlush ==
  /\ Set
  /\ Flush(sets + 1, retryTimer)
  /\ UNCHANGED <<primary, bak, up, saveTimer, retryTimer, failures, kills, damages>>

SaveTimerFires ==
  /\ saveTimer
  /\ saveTimer' = FALSE
  /\ Flush(state, retryTimer)
  /\ UNCHANGED <<primary, bak, up, state, retryTimer, countVars>>

RetryTimerFires ==
  /\ retryTimer
  /\ retryTimer' = FALSE
  /\ Flush(state, FALSE)
  /\ UNCHANGED <<primary, bak, up, state, saveTimer, countVars>>

-----------------------------------------------------------------------------
(* The write under way.                                                    *)

WriteAdvances ==
  /\ WriteTmp \/ CopyBackup
  /\ UNCHANGED <<up, state, timerVars, countVars>>

\* writeNext() as the callback of a write that succeeded.
WriteSucceeds ==
  /\ Renamed
  /\ IF dirty
     THEN dirty' = FALSE /\ Begin(state) /\ UNCHANGED writing
     ELSE writing' = FALSE /\ Over /\ UNCHANGED dirty
  /\ UNCHANGED <<up, state, saveTimer, retryTimer, countVars>>

\* Slip: the error is logged and that is all.
LogOnly == UNCHANGED <<dirty, retryTimer>>
RetryLater == dirty' = TRUE /\ retryTimer' = TRUE

WriteFails ==
  /\ failures < MaxFailures
  /\ failures' = failures + 1
  /\ Failed
  /\ Over
  /\ writing' = FALSE
  /\ RetryLater
  /\ UNCHANGED <<up, state, saveTimer, sets, kills, damages>>

-----------------------------------------------------------------------------
(* Restarts.                                                               *)

Kill ==
  /\ up
  /\ kills < MaxKills
  /\ kills' = kills + 1
  /\ up' = FALSE
  /\ Killed
  /\ saveTimer' = FALSE /\ retryTimer' = FALSE /\ writing' = FALSE /\ dirty' = FALSE
  /\ state' = 0
  /\ UNCHANGED <<sets, failures, damages>>

\* The primary is lost while the server is down.
Damage ==
  /\ ~up
  /\ damages < MaxDamages
  /\ damages' = damages + 1
  /\ Damaged
  /\ UNCHANGED <<up, state, timerVars, sets, failures, kills>>

\* createSyncStateService: a state found in the backup is saved again.
Restart ==
  /\ ~up
  /\ up' = TRUE
  /\ state' = Loadable
  /\ saveTimer' = FromBackup
  /\ UNCHANGED <<storeVars, retryTimer, writing, dirty, countVars>>

-----------------------------------------------------------------------------
\* Everything is on disk and nothing more is set: the server is idle.
Quiescent ==
  /\ up
  /\ sets = MaxSets
  /\ ~saveTimer /\ ~retryTimer /\ ~writing
  /\ UNCHANGED vars

Next ==
  \/ SetAndSaveSoon \/ SetAndFlush
  \/ SaveTimerFires \/ RetryTimerFires
  \/ WriteAdvances \/ WriteSucceeds \/ WriteFails
  \/ Kill \/ Damage \/ Restart
  \/ Quiescent

Spec == Init /\ [][Next]_vars

\* Timers fire (the debounce timer once the saves pause), file operations end,
\* and they fail at most MaxFailures times.  Nobody has to set anything.
Fairness ==
  /\ WF_vars(SaveTimerFires)
  /\ WF_vars(RetryTimerFires)
  /\ WF_vars(WriteAdvances \/ WriteSucceeds \/ WriteFails)

FairSpec == Spec /\ Fairness

-----------------------------------------------------------------------------
(* What the service promises.                                              *)

\* The flags tell the truth about the write: `writing` while one is under way,
\* and a retry only between writes.
FlagsAgree ==
  /\ writing <=> step # "idle"
  /\ ~(writing /\ retryTimer)
  /\ dirty => writing \/ retryTimer
  /\ retryTimer => dirty
  /\ writing \/ saveTimer \/ retryTimer => up

\* A state in memory that a restart would not find is on its way: a timer will
\* flush it, the end of the write will see `dirty`, or it is being written.
\* flush() may return early for two reasons; neither may forget the state.
NothingForgotten ==
  up /\ state # Loadable =>
    \/ saveTimer
    \/ dirty
    \/ writing /\ body = state

\* What a restart would find never goes back to an older state, through failed
\* writes, failed copies and kills at any step.  Two exceptions: the primary is
\* damaged; or it was damaged, and the next write copies it over the backup
\* before it replaces it (a kill right then leaves no readable file at all).
Forwards ==
  \/ Loadable' >= Loadable
  \/ damages' # damages
  \/ step = "copy" /\ primary = Bad
NeverBackwards == [][Forwards]_vars

\* The state last set reaches the disk, or a newer one does, unless the server
\* is killed first.
EveryStateReachesDisk ==
  \A v \in 1..MaxSets : (up /\ state = v) ~> (Loadable >= v \/ ~up)

\* Without damage the service is a register whose durable value follows the one
\* in memory, never overtakes it and survives a kill.
Register == INSTANCE DurableRegister WITH value <- state, durable <- Loadable, next <- sets + 1
ImplementsRegister == Register!Spec
=============================================================================
