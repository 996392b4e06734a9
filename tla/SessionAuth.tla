------------------------------ MODULE SessionAuth ------------------------------
(***************************************************************************)
(* User sessions (session-store.js) and the accounts they are checked      *)
(* against (account-service.js, auth.js).                                  *)
(*                                                                         *)
(* A session carries the sessionVersion its account had at login, and is   *)
(* accepted while the account still has it.  Accounts are saved at once,   *)
(* in place; sessions a moment later, in writes that follow one another    *)
(* and replace the file whole (JsonFileStore shows that they do).  After a *)
(* kill the two files need not agree.                                      *)
(*                                                                         *)
(* Not here: the owner's session, which no account can revoke, csrf tokens *)
(* and the expiry of sessions, which holds wherever they are read.         *)
(***************************************************************************)
EXTENDS Naturals, FiniteSets, InPlaceFile

CONSTANTS
  Tokens, Users, None,
  MaxEdits, MaxFailures, MaxKills   \* bounds on a run

Account == [version : Nat \ {0}, enabled : BOOLEAN]
AccountsDoc == [Users -> Account \cup {None}]
NoAccounts == [u \in Users |-> None]
Session == [user : Users, version : Nat \ {0}]
SessionsDoc == [Tokens -> Session \cup {None}]
NoSessions == [t \in Tokens |-> None]

ASSUME SessionAssumption ==
  /\ MaxEdits \in Nat /\ MaxFailures \in Nat /\ MaxKills \in Nat
  /\ None \notin Account /\ None \notin Session /\ None \notin Users
  /\ Absent # Bad
  /\ \A c \in {Absent, Bad} : c \notin AccountsDoc

VARIABLES
  accounts, accountsFile,
  sessions,                 \* in memory
  stored,                   \* the session file
  timer, dirty,             \* saveTimer; a flush has not been written yet
  writing,                  \* the snapshots that are being written, see Snapshot
  edits, failures, kills,   \* how many there have been
  opened,    \* whose session a token has been, if it was ever given out
  removed,   \* tokens whose session was removed
  settled,   \* those of them whose removal is part of a completed write
  revoked,   \* tokens given out before a revocation that was answered with success
  unsettled, \* tokens whose sessionVersion was not in the file of accounts at login
  recreated, \* names that were given to a second account
  lastFailed, \* the last write of the sessions to end failed
  copied      \* every backup of the accounts was copied

storeVars == <<sessions, stored, timer, dirty, writing, lastFailed>>
accountVars == <<accounts, accountsFile, failures, copied>>
ghosts == <<opened, removed, settled, revoked, unsettled, recreated>>
vars == <<storeVars, accountVars, ghosts, edits, kills>>

\* A snapshot of the sessions, with the tokens that had been removed by then.
Snapshot == [sessions : SessionsDoc, removed : SUBSET Tokens]
Now == [sessions |-> sessions, removed |-> {t \in removed : sessions[t] = None}]

TypeOK ==
  /\ accounts \in AccountsDoc /\ accountsFile \in File(AccountsDoc)
  /\ sessions \in SessionsDoc /\ stored \in SessionsDoc
  /\ timer \in BOOLEAN /\ dirty \in BOOLEAN
  /\ writing \subseteq Snapshot
  /\ edits \in Nat /\ failures \in Nat /\ kills \in Nat
  /\ opened \in [Tokens -> Users \cup {None}]
  /\ removed \subseteq Tokens /\ settled \subseteq removed
  /\ revoked \subseteq Tokens /\ unsettled \subseteq Tokens
  /\ recreated \subseteq Users
  /\ lastFailed \in BOOLEAN /\ copied \in BOOLEAN

\* A server that starts for the first time.
Init ==
  /\ accounts = NoAccounts
  /\ accountsFile = NewFile
  /\ sessions = NoSessions
  /\ stored = NoSessions
  /\ timer = FALSE
  /\ dirty = FALSE
  /\ writing = {}
  /\ edits = 0
  /\ failures = 0
  /\ kills = 0
  /\ opened = [t \in Tokens |-> None]
  /\ removed = {}
  /\ settled = {}
  /\ revoked = {}
  /\ unsettled = {}
  /\ recreated = {}
  /\ lastFailed = FALSE
  /\ copied = TRUE

-----------------------------------------------------------------------------
(* Saving the accounts: memory keeps the change whatever becomes of it.    *)

SaveAccounts(doc) ==
  /\ accounts' = doc
  /\ \/ /\ accountsFile' = Written(BackedUp(accountsFile), doc)
        /\ UNCHANGED <<failures, copied>>
     \/ /\ failures < MaxFailures
        /\ failures' = failures + 1
        /\ accountsFile' \in {Written(b, doc) : b \in BackupFails(accountsFile)}
        /\ copied' = FALSE

SaveAccountsFails(doc) ==
  /\ accounts' = doc
  /\ failures < MaxFailures
  /\ failures' = failures + 1
  /\ \/ accountsFile' \in NotWritten(BackedUp(accountsFile)) /\ UNCHANGED copied
     \/ (\E b \in BackupFails(accountsFile) : accountsFile' \in NotWritten(b)) /\ copied' = FALSE

-----------------------------------------------------------------------------
(* The store of sessions.                                                  *)

\* saveSoon() after a change of the sessions.
SaveSoon(doc) == sessions' = doc /\ timer' = TRUE /\ UNCHANGED <<stored, dirty, writing, lastFailed>>

Remove(t) ==
  /\ SaveSoon([sessions EXCEPT ![t] = None])
  /\ removed' = removed \cup {t}

\* flush(): one write at a time; what changes meanwhile is written next.  The slips
\* start a second write, or forget that there is something to write.
FlushAtOnce == dirty' = FALSE /\ writing' = writing \cup {Now}
FlushOnce ==
  IF writing = {} THEN dirty' = FALSE /\ writing' = {Now} ELSE UNCHANGED <<dirty, writing>>
Flush ==
  IF writing = {} THEN dirty' = FALSE /\ writing' = {Now}
  ELSE dirty' = TRUE /\ UNCHANGED writing

TimerFires ==
  /\ timer
  /\ timer' = FALSE
  /\ Flush
  /\ UNCHANGED <<sessions, stored, lastFailed, accountVars, ghosts, edits, kills>>

\* writeNext()
WriteNext(w) ==
  /\ dirty' = FALSE
  /\ writing' = (writing \ {w}) \cup (IF dirty THEN {Now} ELSE {})

WriteEnds(w) ==
  /\ WriteNext(w)
  /\ stored' = w.sessions
  /\ settled' = settled \cup w.removed
  /\ lastFailed' = FALSE
  /\ UNCHANGED <<sessions, timer, accountVars, opened, removed, revoked, unsettled, recreated, edits, kills>>

\* The error is logged; the write is not tried again.
WriteFails(w) ==
  /\ failures < MaxFailures
  /\ failures' = failures + 1
  /\ WriteNext(w)
  /\ lastFailed' = TRUE
  /\ UNCHANGED <<sessions, stored, timer, accounts, accountsFile, copied, ghosts, edits, kills>>

-----------------------------------------------------------------------------
(* Requests.                                                               *)

\* isUserSessionCurrent()
Current(s) ==
  /\ accounts[s.user] # None
  /\ accounts[s.user].enabled
  /\ accounts[s.user].version = s.version
Accepted(t) == sessions[t] # None /\ Current(sessions[t])

\* A request with a session that is not accepted: authGate() removes it.
Refuse(t) ==
  /\ sessions[t] # None
  /\ ~Current(sessions[t])
  /\ Remove(t)
  /\ UNCHANGED <<accountVars, opened, settled, revoked, unsettled, recreated, edits, kills>>

Logout(t) ==
  /\ Accepted(t)
  /\ Remove(t)
  /\ UNCHANGED <<accountVars, opened, settled, revoked, unsettled, recreated, edits, kills>>

\* A login records its time with the account, whether or not that can be saved.
Login(t, u) ==
  /\ opened[t] = None  \* tokens are drawn at random
  /\ accounts[u] # None
  /\ accounts[u].enabled
  /\ SaveAccounts(accounts) \/ SaveAccountsFails(accounts)
  /\ SaveSoon([sessions EXCEPT ![t] = [user |-> u, version |-> accounts[u].version]])
  /\ opened' = [opened EXCEPT ![t] = u]
  /\ unsettled' = IF Loaded(accountsFile', NoAccounts)[u] = accounts[u] THEN unsettled
                  ELSE unsettled \cup {t}
  /\ UNCHANGED <<removed, settled, revoked, recreated, edits, kills>>

\* New accounts start at version 1, whoever had the name before.  The slip starts at 0.
Unversioned == [version |-> 0, enabled |-> TRUE]
NewAccount == [version |-> 1, enabled |-> TRUE]

Revoked(a) == [a EXCEPT !.version = @ + 1]
\* Enabling and disabling an account revokes its sessions too; the slip does not.
OnlyToggled(a) == [a EXCEPT !.enabled = ~@]
Toggled(a) == [Revoked(a) EXCEPT !.enabled = ~@]

With(u, a) == [accounts EXCEPT ![u] = a]

\* The names that are given to a second account in these accounts.
SecondAccounts(doc) ==
  {u \in Users : accounts[u] = None /\ doc[u] # None /\ \E t \in Tokens : opened[t] = u}

CreateUser(u) ==
  /\ edits < MaxEdits
  /\ edits' = edits + 1
  /\ accounts[u] = None
  /\ SaveAccounts(With(u, NewAccount)) \/ SaveAccountsFails(With(u, NewAccount))
  /\ recreated' = recreated \cup SecondAccounts(With(u, NewAccount))
  /\ UNCHANGED <<storeVars, opened, removed, settled, revoked, unsettled, kills>>

\* What the owner's requests make of the account u: revokeUserSessions() and
\* resetPassword(), updateUser() with another enabled, deleteUser().
Revocations(u) == {With(u, Revoked(accounts[u])), With(u, Toggled(accounts[u])), With(u, None)}

Revoke(u) ==
  /\ edits < MaxEdits
  /\ edits' = edits + 1
  /\ accounts[u] # None
  /\ \E doc \in Revocations(u) :
       \/ SaveAccounts(doc) /\ revoked' = revoked \cup {t \in Tokens : opened[t] = u}
       \/ SaveAccountsFails(doc) /\ UNCHANGED revoked
  /\ UNCHANGED <<storeVars, opened, removed, settled, unsettled, recreated, kills>>

\* A user's own change of password keeps the session it is made in, if it is saved.
ChangePassword(t) ==
  /\ edits < MaxEdits
  /\ edits' = edits + 1
  /\ Accepted(t)
  /\ LET u == sessions[t].user
         a == Revoked(accounts[u])
     IN \/ /\ SaveAccounts(With(u, a))
           /\ SaveSoon([sessions EXCEPT ![t].version = a.version])
           /\ revoked' = revoked \cup {x \in Tokens \ {t} : opened[x] = u}
        \/ SaveAccountsFails(With(u, a)) /\ UNCHANGED <<storeVars, revoked>>
  /\ UNCHANGED <<opened, removed, settled, unsettled, recreated, kills>>

-----------------------------------------------------------------------------
\* What the save that a kill cuts off was to write.
Saves ==
  {accounts} \cup UNION {IF accounts[u] = None THEN {With(u, NewAccount)} ELSE Revocations(u) : u \in Users}

\* The server is killed and starts again: load() of both.  A save of the accounts may be
\* cut off; a write of the sessions has replaced the file or it has not.
KillAndRestart ==
  /\ kills < MaxKills
  /\ kills' = kills + 1
  /\ \E doc \in Saves :
       /\ accountsFile' \in Interrupted(accountsFile, doc)
       /\ recreated' = recreated \cup SecondAccounts(doc)
  /\ accounts' = Loaded(accountsFile', NoAccounts)
  /\ \/ UNCHANGED <<stored, settled>>
     \/ \E w \in writing : stored' = w.sessions /\ settled' = settled \cup w.removed
  /\ sessions' = stored'
  /\ timer' = FALSE
  /\ dirty' = FALSE
  /\ writing' = {}
  /\ lastFailed' = FALSE
  /\ UNCHANGED <<failures, copied, opened, removed, revoked, unsettled, edits>>

\* The next request is not there yet.
Wait == ~timer /\ writing = {} /\ UNCHANGED vars

Next ==
  \/ TimerFires
  \/ \E w \in writing : WriteEnds(w) \/ WriteFails(w)
  \/ \E t \in Tokens : Refuse(t) \/ Logout(t) \/ ChangePassword(t)
  \/ \E t \in Tokens, u \in Users : Login(t, u)
  \/ \E u \in Users : CreateUser(u) \/ Revoke(u)
  \/ KillAndRestart
  \/ Wait

Spec == Init /\ [][Next]_vars

-----------------------------------------------------------------------------
(* Properties.                                                             *)

\* A session from before a revocation that was answered with success is not accepted
\* again, not after kills in the middle of any save either - unless a second account
\* has its name, or its version was one that had not been saved when it was opened
\* and was given out anew, or a backup was not copied
\* (account-service.js:88, 114-119, 121; auth.js:79).
RevokedStaysRevoked ==
  copied => \A t \in revoked :
              Accepted(t) => opened[t] \in recreated \/ t \in unsettled

\* Once a write that began after its removal is complete, a session never returns, in
\* memory or on disk: no older snapshot replaces a newer one (session-store.js:122-152).
RemovedStaysRemoved ==
  \A t \in settled :
    /\ sessions[t] = None /\ stored[t] = None
    /\ \A w \in writing : w.sessions[t] = None

\* Whatever the file lacks is about to be written, however changes, timer and writes
\* interleave - unless the last write failed (session-store.js:123-131, 146, 154).
UnsavedIsPending ==
  sessions # stored => timer \/ writing # {} \/ lastFailed
=============================================================================
