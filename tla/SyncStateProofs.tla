---------------------------- MODULE SyncStateProofs ----------------------------
(***************************************************************************)
(* Theorems about SyncState, for any number of saves, failed writes, kills *)
(* and damages.  Inv is the inductive invariant; what it adds to the       *)
(* checked invariants is the order of the documents in play: backup before *)
(* primary before the write under way before the state in memory.          *)
(***************************************************************************)
EXTENDS SyncState, TLAPS

Ordered ==
  /\ state <= sets
  /\ body <= sets
  /\ Loadable <= sets
  /\ up => Loadable <= state
  /\ step # "idle" => Loadable <= body /\ body <= state
  /\ Readable(primary) /\ Readable(bak) => bak <= primary
  /\ primary = Absent => ~Readable(bak)

Intact == damages = 0 => primary # Bad

Inv == TypeOK /\ FlagsAgree /\ NothingForgotten /\ Ordered /\ Intact

USE ContentAssumption DEF Readable, Contents, Steps

\* Initially nothing is on disk and nothing needs to be.
LEMMA InitInv == Init => Inv
<1> SUFFICES ASSUME Init PROVE Inv
  OBVIOUS
<1> USE DEF Init, StoreInit
<1>1. TypeOK
  BY DEF TypeOK, StoreTypeOK
<1>2. Loadable = 0
  BY DEF Loadable
<1>3. FlagsAgree /\ Intact
  BY DEF FlagsAgree, Intact
<1>4. NothingForgotten
  BY <1>2 DEF NothingForgotten
<1>5. Ordered
  BY <1>2 DEF Ordered
<1> QED BY <1>1, <1>3, <1>4, <1>5 DEF Inv

\* What flush() leaves behind when the files themselves do not change and the
\* state v in memory is not older than what is on disk.
LEMMA FlushInv ==
  ASSUME Inv, up, up' = TRUE, NEW v \in Nat, NEW r \in BOOLEAN,
         Flush(v, r), state' = v, v >= state, v <= sets', sets' \in Nat, sets' >= sets,
         UNCHANGED <<primary, bak, failures, kills, damages>>,
         saveTimer' \in BOOLEAN, retryTimer' = r, r => retryTimer
  PROVE  Inv'
<1> USE DEF Inv, TypeOK, StoreTypeOK, Flush, Begin
<1>1. Loadable' = Loadable /\ Loadable \in Nat
  BY DEF Loadable
<1>2. TypeOK'
  BY DEF FlagsAgree
<1>3. FlagsAgree'
  BY DEF FlagsAgree
<1>4. NothingForgotten'
  BY <1>1 DEF NothingForgotten, FlagsAgree
<1>5. Ordered'
  BY <1>1 DEF Ordered, FlagsAgree
<1>6. Intact'
  BY DEF Intact
<1> QED BY <1>2, <1>3, <1>4, <1>5, <1>6

\* Every step preserves the invariant.
LEMMA NextInv == Inv /\ [Next]_vars => Inv'
<1> SUFFICES ASSUME Inv, [Next]_vars PROVE Inv'
  OBVIOUS
<1> USE DEF Inv
<1>a. Loadable \in Nat
  BY DEF Loadable, TypeOK, StoreTypeOK
<1>1. CASE SetAndSaveSoon
  BY <1>1, <1>a DEF SetAndSaveSoon, Set, storeVars, TypeOK, StoreTypeOK, FlagsAgree,
                    NothingForgotten, Ordered, Intact, Loadable
<1>2. CASE SetAndFlush
  <2>1. /\ sets + 1 \in Nat /\ sets + 1 >= state
        /\ sets' = sets + 1 /\ sets' >= sets /\ state' = sets + 1
        /\ up /\ up' = TRUE /\ retryTimer \in BOOLEAN
        /\ retryTimer' = retryTimer /\ saveTimer' \in BOOLEAN
    BY <1>2 DEF SetAndFlush, Set, TypeOK, StoreTypeOK, Ordered
  <2>2. Flush(sets + 1, retryTimer) /\ UNCHANGED <<primary, bak, failures, kills, damages>>
    BY <1>2 DEF SetAndFlush
  <2>3. sets + 1 <= sets' /\ sets' \in Nat
    BY <2>1
  <2> QED BY <2>1, <2>2, <2>3, FlushInv
<1>3. CASE SaveTimerFires
  <2>1. /\ state \in Nat /\ state' = state /\ state >= state
        /\ sets' \in Nat /\ sets' >= sets /\ state <= sets'
    BY <1>3 DEF SaveTimerFires, countVars, TypeOK, Ordered
  <2>3. up /\ up' = TRUE
    BY <1>3 DEF SaveTimerFires, FlagsAgree, TypeOK
  <2>4. /\ retryTimer \in BOOLEAN /\ retryTimer' = retryTimer /\ (retryTimer => retryTimer)
        /\ saveTimer' \in BOOLEAN
    BY <1>3 DEF SaveTimerFires, TypeOK
  <2>2. Flush(state, retryTimer) /\ UNCHANGED <<primary, bak, failures, kills, damages>>
    BY <1>3 DEF SaveTimerFires, countVars
  <2> QED BY <2>1, <2>2, <2>3, <2>4, FlushInv
<1>4. CASE RetryTimerFires
  <2>1. /\ state \in Nat /\ state' = state /\ state >= state
        /\ sets' \in Nat /\ sets' >= sets /\ state <= sets'
    BY <1>4 DEF RetryTimerFires, countVars, TypeOK, Ordered
  <2>3. up /\ up' = TRUE
    BY <1>4 DEF RetryTimerFires, FlagsAgree, TypeOK
  <2>4. /\ FALSE \in BOOLEAN /\ retryTimer' = FALSE /\ (FALSE => retryTimer)
        /\ saveTimer' \in BOOLEAN
    BY <1>4 DEF RetryTimerFires, TypeOK
  <2>2. Flush(state, FALSE) /\ UNCHANGED <<primary, bak, failures, kills, damages>>
    BY <1>4 DEF RetryTimerFires, countVars
  <2> QED BY <2>1, <2>2, <2>3, <2>4, FlushInv
<1>5. CASE WriteAdvances
  <2> USE <1>5 DEF WriteAdvances, timerVars, countVars
  <2>1. CASE WriteTmp
    BY <2>1 DEF WriteTmp, TypeOK, StoreTypeOK, FlagsAgree, NothingForgotten, Ordered, Intact, Loadable
  <2>2. CASE CopyBackup
    <3> USE <2>2 DEF CopyBackup, Copy
    <3>1. TypeOK' /\ FlagsAgree' /\ Intact'
      BY DEF TypeOK, StoreTypeOK, FlagsAgree, Intact
    <3>2. Loadable' \in Nat /\ Loadable' <= Loadable
      BY DEF TypeOK, StoreTypeOK, Loadable, Ordered
    <3>3. primary # Bad => Loadable' = Loadable
      BY DEF TypeOK, StoreTypeOK, Loadable, Ordered
    <3>4. Ordered'
      BY <3>2, <1>a DEF TypeOK, StoreTypeOK, Ordered
    <3>5. NothingForgotten'
      BY <3>2, <3>3, <1>a DEF TypeOK, StoreTypeOK, NothingForgotten, FlagsAgree, Ordered, Loadable
    <3> QED BY <3>1, <3>4, <3>5
  <2> QED BY <2>1, <2>2
<1>6. CASE WriteSucceeds
  <2> USE <1>6 DEF WriteSucceeds, Renamed, Begin, Over, countVars
  <2>1. TypeOK' /\ FlagsAgree' /\ Intact'
    BY DEF TypeOK, StoreTypeOK, FlagsAgree, Intact
  <2>2. Loadable' = body /\ body \in Nat
    BY DEF TypeOK, StoreTypeOK, Loadable
  <2>3. state \in Nat /\ sets \in Nat /\ body <= state /\ Loadable <= body /\ state <= sets
    BY DEF TypeOK, Ordered
  <2>4. /\ state' = state /\ sets' = sets /\ up' = up
        /\ body' \in {body, state} /\ (step' # "idle" => body' = state)
    BY DEF FlagsAgree
  <2>5. Readable(bak) => bak <= Loadable
    BY DEF TypeOK, StoreTypeOK, Ordered, Loadable
  <2>6. Readable(bak) => bak <= body
    BY <2>2, <2>3, <2>5, <1>a
  <2>7. Ordered'
    BY <2>2, <2>3, <2>4, <2>6 DEF Ordered
  <2>8. NothingForgotten'
    <3>1. CASE dirty
      BY <3>1 DEF NothingForgotten, FlagsAgree
    <3>2. CASE ~dirty
      BY <3>2, <2>2, <2>3, <2>4 DEF NothingForgotten, FlagsAgree
    <3> QED BY <3>1, <3>2
  <2> QED BY <2>1, <2>7, <2>8
<1>7. CASE WriteFails
  <2> USE <1>7 DEF WriteFails, Failed, Over, RetryLater
  <2>0. StoreTypeOK'
    BY DEF TypeOK, StoreTypeOK
  <2>a. failures' \in Nat /\ sets' \in Nat /\ kills' \in Nat /\ damages' \in Nat /\ state' \in Nat
    BY DEF TypeOK
  <2>b. /\ up' \in BOOLEAN /\ saveTimer' \in BOOLEAN
        /\ retryTimer' \in BOOLEAN /\ writing' \in BOOLEAN /\ dirty' \in BOOLEAN
    BY DEF TypeOK
  <2>1. TypeOK' /\ Intact'
    BY <2>0, <2>a, <2>b DEF TypeOK, Intact
  <2>2. FlagsAgree' /\ NothingForgotten'
    BY DEF FlagsAgree, NothingForgotten
  <2>3. Ordered'
    BY <1>a DEF Ordered, Loadable
  <2> QED BY <2>1, <2>2, <2>3
<1>8. CASE Kill
  <2> USE <1>8 DEF Kill, Killed, PrimaryKept, Copy, Over
  <2>a. StoreTypeOK'
    BY DEF TypeOK, StoreTypeOK
  <2>b. kills' \in Nat /\ sets' \in Nat /\ failures' \in Nat /\ damages' \in Nat /\ state' \in Nat
    BY DEF TypeOK
  <2>c. /\ up' \in BOOLEAN /\ saveTimer' \in BOOLEAN
        /\ retryTimer' \in BOOLEAN /\ writing' \in BOOLEAN /\ dirty' \in BOOLEAN
    BY DEF TypeOK
  <2>0. TypeOK'
    BY <2>a, <2>b, <2>c DEF TypeOK
  <2>1. FlagsAgree' /\ Intact' /\ NothingForgotten'
    BY DEF FlagsAgree, Intact, NothingForgotten
  <2>2. Loadable' \in Nat /\ Loadable' <= Loadable
    BY DEF TypeOK, StoreTypeOK, Loadable, Ordered
  <2>3. Ordered'
    BY <2>2, <1>a DEF TypeOK, StoreTypeOK, Ordered
  <2> QED BY <2>0, <2>1, <2>3
<1>9. CASE Damage
  <2> USE <1>9 DEF Damage, Damaged, timerVars
  <2>1. step = "idle"
    BY DEF FlagsAgree
  <2> QED BY <2>1, <1>a DEF TypeOK, StoreTypeOK, FlagsAgree, NothingForgotten, Ordered, Intact, Loadable
<1>10. CASE Restart
  <2>1. step = "idle"
    BY <1>10 DEF Restart, FlagsAgree
  <2> QED BY <1>10, <2>1, <1>a DEF Restart, FromBackup, storeVars, countVars, TypeOK, StoreTypeOK,
                FlagsAgree, NothingForgotten, Ordered, Intact, Loadable
<1>11. CASE Quiescent \/ UNCHANGED vars
  BY <1>11 DEF Quiescent, vars, storeVars, timerVars, countVars, TypeOK, StoreTypeOK, FlagsAgree,
               NothingForgotten, Ordered, Intact, Loadable
<1> QED BY <1>1, <1>2, <1>3, <1>4, <1>5, <1>6, <1>7, <1>8, <1>9, <1>10, <1>11 DEF Next

\* So the invariant holds throughout.
LEMMA InvIsInvariant == Spec => []Inv
BY InitInv, NextInv, PTL DEF Spec

\* Every variable keeps its type: what is written, kept or found is a document.
THEOREM SyncTypeCorrect == Spec => []TypeOK
<1>1. Inv => TypeOK
  BY DEF Inv
<1> QED BY <1>1, InvIsInvariant, PTL

\* writing, dirty and the two timers never contradict the write under way.
THEOREM SyncFlagsAgree == Spec => []FlagsAgree
<1>1. Inv => FlagsAgree
  BY DEF Inv
<1> QED BY <1>1, InvIsInvariant, PTL

\* However many saves, failures and kills: a state that is not on disk is being
\* written, or something that will write it is pending.
THEOREM SyncForgetsNothing == Spec => []NothingForgotten
<1>1. Inv => NothingForgotten
  BY DEF Inv
<1> QED BY <1>1, InvIsInvariant, PTL

-----------------------------------------------------------------------------
(* What a restart would find.                                              *)

\* The steps that change it, one by one.
LEMMA StepForwards == Inv /\ [Next]_vars => [Forwards]_vars
<1> SUFFICES ASSUME Inv, [Next]_vars PROVE Forwards \/ UNCHANGED vars
  OBVIOUS
<1> USE DEF Inv
<1>a. Loadable \in Nat
  BY DEF Loadable, TypeOK, StoreTypeOK
<1>b. (primary' = primary /\ bak' = bak) => Loadable' = Loadable
  BY DEF Loadable
<1>c. (primary' = primary /\ bak' = bak) => Forwards
  BY <1>a, <1>b DEF Forwards
<1>1. CASE SetAndSaveSoon \/ SetAndFlush \/ SaveTimerFires \/ RetryTimerFires
  BY <1>1, <1>c DEF SetAndSaveSoon, SetAndFlush, SaveTimerFires, RetryTimerFires, storeVars
<1>2. CASE WriteAdvances
  BY <1>2, <1>a, <1>c DEF WriteAdvances, WriteTmp, CopyBackup, Copy, Forwards, Loadable,
                          TypeOK, StoreTypeOK, Ordered
<1>3. CASE WriteSucceeds
  <2>1. Loadable' = body
    BY <1>3 DEF WriteSucceeds, Renamed, Loadable, TypeOK, StoreTypeOK
  <2>2. Loadable <= body /\ body \in Nat
    BY <1>3 DEF WriteSucceeds, Renamed, Ordered, TypeOK, StoreTypeOK
  <2> QED BY <2>1, <2>2, <1>a DEF Forwards
<1>4. CASE WriteFails
  BY <1>4, <1>c DEF WriteFails, Failed
<1>5. CASE Kill
  BY <1>5, <1>a, <1>c DEF Kill, Killed, PrimaryKept, Copy, Forwards, Loadable,
                          TypeOK, StoreTypeOK, Ordered
<1>6. CASE Damage
  <2>1. damages' # damages
    BY <1>6 DEF Damage, TypeOK
  <2> QED BY <2>1 DEF Forwards
<1>7. CASE Restart
  BY <1>7, <1>c DEF Restart, storeVars
<1>8. CASE Quiescent
  BY <1>8 DEF Quiescent
<1> QED BY <1>1, <1>2, <1>3, <1>4, <1>5, <1>6, <1>7, <1>8 DEF Next

\* A restart never finds an older state than an earlier one would have found,
\* unless the primary was damaged.
THEOREM SyncNeverBackwards == Spec => NeverBackwards
BY StepForwards, InvIsInvariant, PTL DEF Spec, NeverBackwards

-----------------------------------------------------------------------------
(* The register.                                                           *)

\* With MaxDamages = 0 no file is ever damaged.
LEMMA NoDamage ==
  ASSUME MaxDamages = 0
  PROVE  Spec => [](damages = 0)
<1>1. Init => damages = 0
  BY DEF Init
<1>2. damages = 0 /\ [Next]_vars => (damages = 0)'
  <2>1. damages = 0 => ~Damage
    BY DEF Damage
  <2>2. SetAndSaveSoon \/ SetAndFlush \/ WriteFails \/ Kill => damages' = damages
    BY DEF SetAndSaveSoon, SetAndFlush, WriteFails, Kill
  <2>3. SaveTimerFires \/ RetryTimerFires \/ WriteAdvances \/ WriteSucceeds \/ Restart =>
          damages' = damages
    BY DEF SaveTimerFires, RetryTimerFires, WriteAdvances, WriteSucceeds, Restart, countVars
  <2>4. Quiescent \/ UNCHANGED vars => damages' = damages
    BY DEF Quiescent, vars, countVars
  <2> QED BY <2>1, <2>2, <2>3, <2>4 DEF Next
<1> QED BY <1>1, <1>2, PTL DEF Spec

\* No file, no state, and the register holds 0.
LEMMA InitRegister == Init => Register!Init
BY DEF Init, StoreInit, Loadable, Register!Init

\* With a readable or absent primary every step is one of the register's.
LEMMA StepRegister ==
  ASSUME Inv, damages = 0, damages' = 0, Next
  PROVE  [Register!Next]_Register!vars
<1> USE DEF Inv
<1>a. Loadable \in Nat /\ state \in Nat /\ sets \in Nat /\ primary # Bad
  BY DEF Loadable, TypeOK, StoreTypeOK, Intact
<1>b. (primary' = primary /\ bak' = bak) => Loadable' = Loadable
  BY DEF Loadable
<1>1. CASE SetAndSaveSoon \/ SetAndFlush
  <2>1. Register!Set
    BY <1>1, <1>b DEF SetAndSaveSoon, SetAndFlush, Set, storeVars, Register!Set
  <2> QED BY <2>1 DEF Register!Next
<1>2. CASE SaveTimerFires \/ RetryTimerFires \/ WriteFails \/ Quiescent
  BY <1>2, <1>b DEF SaveTimerFires, RetryTimerFires, WriteFails, Failed, Quiescent, vars,
                    storeVars, countVars, Register!vars
<1>3. CASE WriteAdvances
  <2>1. Loadable' = Loadable
    BY <1>3, <1>a, <1>b DEF WriteAdvances, WriteTmp, CopyBackup, Copy, Loadable,
                            TypeOK, StoreTypeOK, Ordered
  <2> QED BY <2>1, <1>3 DEF WriteAdvances, countVars, Register!vars
<1>4. CASE WriteSucceeds
  <2>1. Loadable' = body
    BY <1>4 DEF WriteSucceeds, Renamed, Loadable, TypeOK, StoreTypeOK
  <2>2. Loadable <= body /\ body \in Nat /\ body <= state /\ up
    BY <1>4 DEF WriteSucceeds, Renamed, Ordered, FlagsAgree, TypeOK, StoreTypeOK
  <2>3. Register!Persist
    BY <2>1, <2>2, <1>a, <1>4 DEF WriteSucceeds, countVars, Register!Persist
  <2> QED BY <2>3 DEF Register!Next
<1>5. CASE Kill
  <2>1. Loadable' = Loadable
    BY <1>5, <1>a, <1>b DEF Kill, Killed, PrimaryKept, Copy, Loadable,
                            TypeOK, StoreTypeOK, Ordered
  <2>2. Register!Stop
    BY <2>1, <1>5 DEF Kill, Register!Stop
  <2> QED BY <2>2 DEF Register!Next
<1>6. CASE Damage
  BY <1>6 DEF Damage, TypeOK
<1>7. CASE Restart
  <2>1. Register!Start
    BY <1>7, <1>b DEF Restart, storeVars, countVars, Register!Start
  <2> QED BY <2>1 DEF Register!Next
<1> QED BY <1>1, <1>2, <1>3, <1>4, <1>5, <1>6, <1>7 DEF Next

\* Without damage the service implements the register: an acknowledged write of
\* the files is never undone, and nothing is made up.
THEOREM SyncImplementsRegister ==
  ASSUME MaxDamages = 0
  PROVE  Spec => ImplementsRegister
<1>1. Inv /\ damages = 0 /\ (damages = 0)' /\ [Next]_vars => [Register!Next]_Register!vars
  <2>1. UNCHANGED vars => UNCHANGED Register!vars
    BY DEF vars, storeVars, countVars, Loadable, Register!vars
  <2> QED BY <2>1, StepRegister
<1> QED BY <1>1, InitRegister, InvIsInvariant, NoDamage, PTL
        DEF Spec, ImplementsRegister, Register!Spec
=============================================================================
