--------------------------- MODULE SessionAuthProofs ---------------------------
(***************************************************************************)
(* Proofs about SessionAuth: its types, that a removal that has been       *)
(* written is final, that nothing is left unwritten, and that a revoked    *)
(* session is not accepted again.                                          *)
(*                                                                         *)
(* Two properties look one write ahead: what a write will leave on disk    *)
(* was fixed when it began.  GoneForGood says of the snapshot under way    *)
(* what RemovedStaysRemoved will say of the file, and Pending that it is   *)
(* the newest one unless a timer or the dirty flag says otherwise.         *)
(* Revocation is about two files that are saved apart: Versions compares   *)
(* every copy of a session with every copy of its account.                 *)
(***************************************************************************)
EXTENDS SessionAuth, TLAPS

\* Only tokens that were given out have a session, anywhere.
GivenOut(doc) == \A t \in Tokens : doc[t] # None => opened[t] # None

KnownTokens ==
  /\ GivenOut(sessions) /\ GivenOut(stored)
  /\ \A w \in writing : GivenOut(w.sessions)
  /\ \A t \in removed : opened[t] # None

OneWrite == \A v, w \in writing : v = w

GoneForGood ==
  /\ RemovedStaysRemoved
  /\ \A w \in writing :
       /\ w.removed \subseteq removed
       /\ \A t \in w.removed : sessions[t] = None /\ w.sessions[t] = None

Pending ==
  /\ UnsavedIsPending
  /\ dirty => writing # {}
  /\ ~timer /\ ~dirty => \A w \in writing : w.sessions = sessions

SessionInv == TypeOK /\ KnownTokens /\ OneWrite /\ GoneForGood /\ Pending

-----------------------------------------------------------------------------
(* A file written in place: what a save leaves, and what the next start    *)
(* reads from it.                                                          *)

LEMMA LoadedType ==
  ASSUME NEW docs, NEW f \in File(docs), NEW e \in docs
  PROVE  Loaded(f, e) \in docs
BY DEF Loaded, File

LEMMA FileTypes ==
  ASSUME NEW docs, NEW f \in File(docs), NEW doc \in docs
  PROVE  /\ BackedUp(f) \in File(docs)
         /\ Written(f, doc) \in File(docs)
         /\ NotWritten(f) \subseteq File(docs)
         /\ BackupFails(f) \subseteq File(docs)
BY DEF BackedUp, Written, NotWritten, BackupFails, File

LEMMA InterruptedType ==
  ASSUME NEW docs, NEW f \in File(docs), NEW doc \in docs
  PROVE  Interrupted(f, doc) \subseteq File(docs)
<1>1. BackedUp(f) \in File(docs)
  BY FileTypes
<1>2. Written(BackedUp(f), doc) \in File(docs) /\ NotWritten(BackedUp(f)) \subseteq File(docs)
  BY <1>1, FileTypes
<1>3. [f EXCEPT !.bak = Bad] \in File(docs)
  BY DEF File
<1> QED
  BY <1>2, <1>3 DEF Interrupted

LEMMA WrittenLoads ==
  ASSUME NEW docs, NEW f \in File(docs), NEW doc \in docs \ {Absent, Bad}, NEW e
  PROVE  Loaded(Written(f, doc), e) = doc
BY DEF Loaded, Written, File

\* A write that fails leaves what there was before, or nothing; nothing only if the
\* file could not be read before.
LEMMA NotWrittenLoads ==
  ASSUME NEW docs, NEW f \in File(docs), NEW g \in NotWritten(BackedUp(f)), NEW e, Absent # Bad
  PROVE  /\ Loaded(g, e) \in {Loaded(f, e), e}
         /\ f.main # Bad => Loaded(g, e) = Loaded(f, e)
<1>1. CASE f.main = Absent
  BY <1>1 DEF NotWritten, BackedUp, Loaded, File
<1>2. CASE f.main # Absent
  <2> DEFINE b == [f EXCEPT !.bak = f.main]
  <2>1. g = b \/ g = [b EXCEPT !.main = Bad]
    BY <1>2 DEF NotWritten, BackedUp
  <2>2. g.bak = f.main /\ (g.main = f.main \/ g.main = Bad)
    BY <2>1 DEF File
  <2> QED
    BY <1>2, <2>2 DEF Loaded
<1> QED
  BY <1>1, <1>2

\* The same of a write that is cut off, which may also have been complete.
LEMMA InterruptedLoads ==
  ASSUME NEW docs, NEW f \in File(docs), NEW doc \in docs \ {Absent, Bad},
         NEW g \in Interrupted(f, doc), NEW e, Absent # Bad
  PROVE  /\ Loaded(g, e) \in {Loaded(f, e), doc, e}
         /\ f.main # Bad => Loaded(g, e) \in {Loaded(f, e), doc}
<1>1. CASE g = f
  BY <1>1
<1>2. CASE g = Written(BackedUp(f), doc)
  BY <1>2, FileTypes, WrittenLoads
<1>3. CASE f.main # Absent /\ g = [f EXCEPT !.bak = Bad]
  BY <1>3 DEF Loaded, File
<1>4. CASE g \in NotWritten(BackedUp(f))
  BY <1>4, NotWrittenLoads
<1> QED
  BY <1>1, <1>2, <1>3, <1>4 DEF Interrupted

-----------------------------------------------------------------------------
(* Types of the documents.                                                 *)

LEMMA AccountTypes ==
  ASSUME NEW a \in Account
  PROVE  Revoked(a) \in Account /\ Toggled(a) \in Account
<1>1. Revoked(a) \in Account
  BY DEF Account, Revoked
<1>2. \A b \in Account : [b EXCEPT !.enabled = ~@] \in Account
  BY DEF Account
<1> QED
  BY <1>1, <1>2 DEF Toggled

LEMMA NewAccountType == NewAccount \in Account
BY DEF NewAccount, Account

LEMMA WithType ==
  ASSUME accounts \in AccountsDoc, NEW u \in Users, NEW a \in Account \cup {None}
  PROVE  With(u, a) \in AccountsDoc
BY DEF With, AccountsDoc

LEMMA RevocationsType ==
  ASSUME accounts \in AccountsDoc, NEW u \in Users, accounts[u] # None
  PROVE  Revocations(u) \subseteq AccountsDoc
<1>1. accounts[u] \in Account
  BY DEF AccountsDoc
<1> QED
  BY <1>1, AccountTypes, WithType DEF Revocations

LEMMA SavesType ==
  ASSUME accounts \in AccountsDoc
  PROVE  Saves \subseteq AccountsDoc
<1>1. ASSUME NEW u \in Users
      PROVE  (IF accounts[u] = None THEN {With(u, NewAccount)} ELSE Revocations(u)) \subseteq AccountsDoc
  BY NewAccountType, WithType, RevocationsType
<1> QED
  BY <1>1 DEF Saves

\* What any save of the accounts leaves has the types of TypeOK.
LEMMA AccountsType ==
  ASSUME TypeOK, NEW doc \in AccountsDoc, SaveAccounts(doc) \/ SaveAccountsFails(doc)
  PROVE  /\ accounts' \in AccountsDoc /\ accountsFile' \in File(AccountsDoc)
         /\ failures' \in Nat /\ copied' \in BOOLEAN
<1>1. accountsFile \in File(AccountsDoc) /\ failures \in Nat /\ copied \in BOOLEAN
  BY DEF TypeOK
<1>2. BackedUp(accountsFile) \in File(AccountsDoc) /\ BackupFails(accountsFile) \subseteq File(AccountsDoc)
  BY <1>1, FileTypes
<1>3. \A f \in File(AccountsDoc) : Written(f, doc) \in File(AccountsDoc) /\ NotWritten(f) \subseteq File(AccountsDoc)
  BY FileTypes
<1>4. CASE SaveAccounts(doc)
  <2>1. failures' = failures \/ failures' = failures + 1
    BY <1>4 DEF SaveAccounts
  <2>2. copied' = copied \/ copied' = FALSE
    BY <1>4 DEF SaveAccounts
  <2>3. accounts' \in AccountsDoc
    BY <1>4 DEF SaveAccounts, SaveAccountsFails
  <2>4. failures' \in Nat
    BY <1>1, <2>1
  <2>5. copied' \in BOOLEAN
    BY <1>1, <2>2
  <2>6. accountsFile' \in File(AccountsDoc)
    BY <1>2, <1>3, <1>4 DEF SaveAccounts
  <2> QED
    BY <2>3, <2>4, <2>5, <2>6
<1>5. CASE SaveAccountsFails(doc)
  <2>1. failures' = failures + 1
    BY <1>5 DEF SaveAccountsFails
  <2>2. copied' = copied \/ copied' = FALSE
    BY <1>5 DEF SaveAccountsFails
  <2>3. accounts' \in AccountsDoc
    BY <1>5 DEF SaveAccounts, SaveAccountsFails
  <2>4. failures' \in Nat
    BY <1>1, <2>1
  <2>5. copied' \in BOOLEAN
    BY <1>1, <2>2
  <2>6. accountsFile' \in File(AccountsDoc)
    BY <1>2, <1>3, <1>5 DEF SaveAccountsFails
  <2> QED
    BY <2>3, <2>4, <2>5, <2>6
<1> QED
  BY <1>4, <1>5

LEMMA NowType == ASSUME TypeOK PROVE Now \in Snapshot
BY DEF TypeOK, Now, Snapshot

LEMMA SessionsTypes ==
  ASSUME TypeOK, NEW t \in Tokens, NEW s \in Session \cup {None}
  PROVE  [sessions EXCEPT ![t] = s] \in SessionsDoc
BY DEF TypeOK, SessionsDoc

-----------------------------------------------------------------------------
(* Steps of the store of sessions.                                         *)

LEMMA TypeStore ==
  ASSUME TypeOK, GoneForGood, TimerFires \/ \E w \in writing : WriteEnds(w) \/ WriteFails(w)
  PROVE  TypeOK'
<1>1. Now \in Snapshot
  BY NowType
<1>2. CASE TimerFires
  <2>1. dirty' \in BOOLEAN /\ writing' \subseteq Snapshot
    BY <1>1, <1>2 DEF TimerFires, Flush, TypeOK
  <2> QED
    BY <1>2, <2>1 DEF TimerFires, TypeOK, accountVars, ghosts
<1>3. ASSUME NEW w \in writing, WriteEnds(w) \/ WriteFails(w)
      PROVE  TypeOK'
  <2>1. dirty' \in BOOLEAN /\ writing' \subseteq Snapshot
    BY <1>1, <1>3 DEF WriteEnds, WriteFails, WriteNext, TypeOK
  <2>2. w.sessions \in SessionsDoc /\ w.removed \subseteq Tokens
    BY DEF TypeOK, Snapshot
  <2>3. w.removed \subseteq removed
    BY DEF GoneForGood
  <2>4. CASE WriteFails(w)
    BY <2>1, <2>4 DEF WriteFails, TypeOK, ghosts
  <2>5. CASE WriteEnds(w)
    <3>1. stored' \in SessionsDoc /\ removed' = removed /\ settled' \subseteq removed \cup w.removed
      BY <2>2, <2>5 DEF WriteEnds, TypeOK
    <3> QED
      BY <2>1, <2>3, <2>5, <3>1 DEF WriteEnds, TypeOK, accountVars
  <2> QED
    BY <1>3, <2>4, <2>5
<1> QED
  BY <1>2, <1>3

-----------------------------------------------------------------------------
(* Steps of the requests, and the restart.                                 *)

LEMMA TypeRequests ==
  ASSUME TypeOK, NEW t \in Tokens,
         Refuse(t) \/ Logout(t) \/ ChangePassword(t) \/ \E u \in Users : Login(t, u)
  PROVE  TypeOK'
<1>1. CASE Refuse(t) \/ Logout(t)
  <2>1. sessions' \in SessionsDoc /\ removed' \subseteq Tokens /\ settled' \subseteq removed'
    BY <1>1, SessionsTypes DEF Refuse, Logout, Remove, SaveSoon, TypeOK
  <2> QED
    BY <1>1, <2>1 DEF Refuse, Logout, Remove, SaveSoon, TypeOK, accountVars
<1>2. CASE ChangePassword(t)
  <2> DEFINE u == sessions[t].user
             a == Revoked(accounts[u])
  <2>1. sessions[t] \in Session /\ u \in Users /\ accounts[u] \in Account
    BY <1>2 DEF ChangePassword, Accepted, Current, TypeOK, SessionsDoc, AccountsDoc, Session
  <2>2. a \in Account /\ With(u, a) \in AccountsDoc
    BY <2>1, AccountTypes, WithType DEF TypeOK
  <2>3. SaveAccounts(With(u, a)) \/ SaveAccountsFails(With(u, a))
    BY <1>2 DEF ChangePassword
  <2>4. /\ accounts' \in AccountsDoc /\ accountsFile' \in File(AccountsDoc)
        /\ failures' \in Nat /\ copied' \in BOOLEAN
    BY <2>2, <2>3, AccountsType
  <2>5. [sessions EXCEPT ![t].version = a.version] \in SessionsDoc
    BY <2>1, <2>2 DEF TypeOK, SessionsDoc, Session, Account
  <2>6. sessions' \in SessionsDoc /\ revoked' \subseteq Tokens /\ edits' \in Nat
    BY <1>2, <2>5 DEF ChangePassword, SaveSoon, storeVars, TypeOK
  <2>7. timer' = TRUE \/ timer' = timer
    BY <1>2 DEF ChangePassword, SaveSoon, storeVars
  <2>8. UNCHANGED <<stored, dirty, writing, lastFailed, opened, removed, settled, unsettled, recreated, kills>>
    BY <1>2 DEF ChangePassword, SaveSoon, storeVars
  <2> QED
    BY <2>4, <2>6, <2>7, <2>8 DEF TypeOK
<1>3. ASSUME NEW u \in Users, Login(t, u) PROVE TypeOK'
  <2>1. accounts \in AccountsDoc /\ accounts[u] \in Account
    BY <1>3 DEF Login, TypeOK, AccountsDoc
  <2>2. /\ accounts' \in AccountsDoc /\ accountsFile' \in File(AccountsDoc)
        /\ failures' \in Nat /\ copied' \in BOOLEAN
    BY <1>3, <2>1, AccountsType DEF Login
  <2>3. [user |-> u, version |-> accounts[u].version] \in Session
    BY <2>1 DEF Session, Account
  <2>4. sessions' \in SessionsDoc
    BY <1>3, <2>3, SessionsTypes DEF Login, SaveSoon
  <2>5. opened' \in [Tokens -> Users \cup {None}] /\ unsettled' \subseteq Tokens
    BY <1>3 DEF Login, TypeOK
  <2>6. timer' = TRUE /\ UNCHANGED <<stored, dirty, writing, lastFailed, removed, settled, revoked, recreated, edits, kills>>
    BY <1>3 DEF Login, SaveSoon
  <2> QED
    BY <2>2, <2>4, <2>5, <2>6 DEF TypeOK
<1> QED
  BY <1>1, <1>2, <1>3

LEMMA TypeOwner ==
  ASSUME TypeOK, NEW u \in Users, CreateUser(u) \/ Revoke(u)
  PROVE  TypeOK'
<1>1. PICK doc \in AccountsDoc : SaveAccounts(doc) \/ SaveAccountsFails(doc)
  <2>1. CASE CreateUser(u)
    BY <2>1, NewAccountType, WithType DEF CreateUser, TypeOK
  <2>2. CASE Revoke(u)
    BY <2>2, RevocationsType DEF Revoke, TypeOK
  <2> QED
    BY <2>1, <2>2
<1>2. /\ accounts' \in AccountsDoc /\ accountsFile' \in File(AccountsDoc)
      /\ failures' \in Nat /\ copied' \in BOOLEAN
  BY <1>1, AccountsType
<1>3. revoked' \subseteq Tokens /\ recreated' \subseteq Users /\ edits' \in Nat
  BY DEF CreateUser, Revoke, SecondAccounts, TypeOK
<1>4. UNCHANGED <<storeVars, opened, removed, settled, unsettled, kills>>
  BY DEF CreateUser, Revoke
<1> QED
  BY <1>2, <1>3, <1>4 DEF TypeOK, storeVars

LEMMA TypeRestart ==
  ASSUME TypeOK, GoneForGood, KillAndRestart
  PROVE  TypeOK'
<1>1. accounts \in AccountsDoc /\ accountsFile \in File(AccountsDoc)
  BY DEF TypeOK
<1>2. PICK doc \in AccountsDoc :
        /\ accountsFile' \in Interrupted(accountsFile, doc)
        /\ recreated' = recreated \cup SecondAccounts(doc)
  BY <1>1, SavesType DEF KillAndRestart
<1>3. accountsFile' \in File(AccountsDoc)
  BY <1>1, <1>2, InterruptedType
<1>4. NoAccounts \in AccountsDoc
  BY DEF NoAccounts, AccountsDoc
<1>5. accounts' \in AccountsDoc
  BY <1>3, <1>4, LoadedType DEF KillAndRestart
<1>6. stored' \in SessionsDoc /\ sessions' \in SessionsDoc /\ removed' = removed /\ settled' \subseteq removed'
  BY DEF KillAndRestart, TypeOK, Snapshot, GoneForGood
<1>7. recreated' \subseteq Users
  BY <1>2 DEF SecondAccounts, TypeOK
<1>8. /\ timer' = FALSE /\ dirty' = FALSE /\ writing' = {} /\ lastFailed' = FALSE /\ kills' = kills + 1
      /\ UNCHANGED <<failures, copied, opened, revoked, unsettled, edits>>
  BY DEF KillAndRestart
<1>9. timer' \in BOOLEAN /\ dirty' \in BOOLEAN /\ lastFailed' \in BOOLEAN /\ copied' \in BOOLEAN
  BY <1>8 DEF TypeOK
<1>10. kills' \in Nat /\ writing' \subseteq Snapshot
  BY <1>8 DEF TypeOK
<1> QED
  BY <1>3, <1>5, <1>6, <1>7, <1>8, <1>9, <1>10 DEF TypeOK

-----------------------------------------------------------------------------
(* What is known of the tokens.                                            *)

LEMMA KnownStore ==
  ASSUME KnownTokens, TimerFires \/ \E w \in writing : WriteEnds(w) \/ WriteFails(w)
  PROVE  KnownTokens'
<1>1. GivenOut(Now.sessions)
  BY DEF Now, KnownTokens
<1>2. UNCHANGED <<sessions, opened, removed>>
  BY DEF TimerFires, WriteEnds, WriteFails, ghosts
<1>3. \A w \in writing' : w \in writing \/ w = Now
  BY DEF TimerFires, Flush, WriteEnds, WriteFails, WriteNext
<1>4. stored' = stored \/ \E w \in writing : stored' = w.sessions
  BY DEF TimerFires, WriteEnds, WriteFails
<1> QED
  BY <1>1, <1>2, <1>3, <1>4 DEF KnownTokens, GivenOut

LEMMA KnownRequests ==
  ASSUME TypeOK, KnownTokens, NEW t \in Tokens,
         Refuse(t) \/ Logout(t) \/ ChangePassword(t) \/ \E u \in Users : Login(t, u)
  PROVE  KnownTokens'
<1>1. UNCHANGED <<stored, writing>>
  BY DEF Refuse, Logout, Remove, ChangePassword, Login, SaveSoon, storeVars
<1>2. \A x \in Tokens : opened[x] # None => opened'[x] # None
  BY DEF Refuse, Logout, ChangePassword, Login, TypeOK
<1>3. \A x \in Tokens \ {t} : sessions'[x] = sessions[x]
  BY DEF Refuse, Logout, Remove, ChangePassword, Login, SaveSoon, storeVars, TypeOK, SessionsDoc
<1>4. sessions'[t] # None => opened'[t] # None
  BY SessionAssumption
  DEF Refuse, Logout, Remove, ChangePassword, Accepted, Login, SaveSoon, storeVars, TypeOK,
      SessionsDoc, KnownTokens, GivenOut
<1>5. \A x \in removed' : x \in removed \/ (x = t /\ opened[t] # None)
  BY DEF Refuse, Logout, Accepted, Remove, ChangePassword, Login, KnownTokens, GivenOut
<1>6. removed \subseteq Tokens
  BY DEF TypeOK
<1>7. GivenOut(sessions)'
  BY <1>2, <1>3, <1>4 DEF KnownTokens, GivenOut
<1>8. GivenOut(stored)' /\ \A w \in writing' : GivenOut(w.sessions)'
  BY <1>1, <1>2 DEF KnownTokens, GivenOut
<1>9. \A x \in removed' : opened'[x] # None
  BY <1>2, <1>5, <1>6 DEF KnownTokens
<1> QED
  BY <1>7, <1>8, <1>9 DEF KnownTokens

LEMMA KnownRest ==
  ASSUME KnownTokens, (\E u \in Users : CreateUser(u) \/ Revoke(u)) \/ KillAndRestart \/ UNCHANGED vars
  PROVE  KnownTokens'
<1>1. UNCHANGED <<opened, removed>>
  BY DEF CreateUser, Revoke, KillAndRestart, vars, ghosts
<1>2. writing' \subseteq writing
  BY DEF CreateUser, Revoke, KillAndRestart, storeVars, vars
<1>3. /\ stored' = stored \/ \E w \in writing : stored' = w.sessions
      /\ sessions' = sessions \/ sessions' = stored'
  BY DEF CreateUser, Revoke, KillAndRestart, storeVars, vars
<1> QED
  BY <1>1, <1>2, <1>3 DEF KnownTokens, GivenOut

-----------------------------------------------------------------------------
(* One write at a time, and what it will leave.                            *)

LEMMA OneWriteKept ==
  ASSUME OneWrite, Next \/ UNCHANGED vars
  PROVE  OneWrite'
<1>1. CASE \E w \in writing : WriteEnds(w) \/ WriteFails(w)
  BY <1>1 DEF WriteEnds, WriteFails, WriteNext, OneWrite
<1>2. CASE TimerFires
  BY <1>2 DEF TimerFires, Flush, OneWrite
<1>3. CASE ~TimerFires /\ ~\E w \in writing : WriteEnds(w) \/ WriteFails(w)
  <2>1. writing' \subseteq writing
    BY <1>3
    DEF Next, Refuse, Logout, Remove, ChangePassword, Login, CreateUser, Revoke, SaveSoon,
        KillAndRestart, Wait, storeVars, vars
  <2> QED
    BY <2>1 DEF OneWrite
<1> QED
  BY <1>1, <1>2, <1>3

LEMMA GoneStore ==
  ASSUME OneWrite, GoneForGood, TimerFires \/ \E w \in writing : WriteEnds(w) \/ WriteFails(w)
  PROVE  GoneForGood'
<1>1. Now.sessions = sessions /\ Now.removed \subseteq removed /\ \A t \in Now.removed : sessions[t] = None
  BY DEF Now
<1>2. UNCHANGED <<sessions, removed>>
  BY DEF TimerFires, WriteEnds, WriteFails, ghosts
<1>3. CASE TimerFires
  <2>1. UNCHANGED <<stored, settled>> /\ \A w \in writing' : w \in writing \/ w = Now
    BY <1>3 DEF TimerFires, Flush, ghosts
  <2> QED
    BY <1>1, <1>2, <2>1 DEF GoneForGood, RemovedStaysRemoved
<1>4. ASSUME NEW w \in writing, WriteEnds(w) \/ WriteFails(w)
      PROVE  GoneForGood'
  <2>1. \A v \in writing' : v = Now
    BY <1>4 DEF WriteEnds, WriteFails, WriteNext, OneWrite
  <2>2. \/ UNCHANGED <<stored, settled>>
        \/ stored' = w.sessions /\ settled' = settled \cup w.removed
    BY <1>4 DEF WriteEnds, WriteFails, ghosts
  <2> QED
    BY <1>1, <1>2, <2>1, <2>2 DEF GoneForGood, RemovedStaysRemoved
<1> QED
  BY <1>3, <1>4

LEMMA GoneRequests ==
  ASSUME TypeOK, KnownTokens, GoneForGood, NEW t \in Tokens,
         Refuse(t) \/ Logout(t) \/ ChangePassword(t) \/ \E u \in Users : Login(t, u)
  PROVE  GoneForGood'
<1>1. UNCHANGED <<stored, writing, settled>> /\ removed \subseteq removed'
  BY DEF Refuse, Logout, Remove, ChangePassword, Login, SaveSoon, storeVars
<1>2. \A x \in removed : sessions[x] = None => sessions'[x] = None
  <2> SUFFICES ASSUME NEW x \in removed, sessions[x] = None PROVE sessions'[x] = None
    OBVIOUS
  <2>1. x \in Tokens /\ opened[x] # None
    BY DEF TypeOK, KnownTokens
  <2>2. CASE Refuse(t) \/ Logout(t) \/ ChangePassword(t)
    BY <2>1, <2>2 DEF Refuse, Logout, Remove, ChangePassword, Accepted, SaveSoon, storeVars, TypeOK, SessionsDoc
  <2>3. CASE \E u \in Users : Login(t, u)
    BY <2>1, <2>3 DEF Login, SaveSoon, TypeOK, SessionsDoc
  <2> QED
    BY <2>2, <2>3
<1>3. settled \subseteq removed
  BY DEF TypeOK
<1> QED
  BY <1>1, <1>2, <1>3 DEF GoneForGood, RemovedStaysRemoved

LEMMA GoneRest ==
  ASSUME GoneForGood, (\E u \in Users : CreateUser(u) \/ Revoke(u)) \/ KillAndRestart \/ UNCHANGED vars
  PROVE  GoneForGood'
<1>1. CASE KillAndRestart
  BY <1>1 DEF KillAndRestart, GoneForGood, RemovedStaysRemoved
<1>2. CASE (\E u \in Users : CreateUser(u) \/ Revoke(u)) \/ UNCHANGED vars
  BY <1>2 DEF CreateUser, Revoke, storeVars, vars, ghosts, GoneForGood, RemovedStaysRemoved
<1> QED
  BY <1>1, <1>2

-----------------------------------------------------------------------------
(* What is still to be written.                                            *)

LEMMA PendingKept ==
  ASSUME TypeOK, OneWrite, Pending, Next \/ UNCHANGED vars
  PROVE  Pending'
<1>1. Now.sessions = sessions
  BY DEF Now
<1>2. CASE TimerFires
  BY <1>1, <1>2 DEF TimerFires, Flush, Pending, UnsavedIsPending
<1>3. ASSUME NEW w \in writing, WriteEnds(w) \/ WriteFails(w)
      PROVE  Pending'
  <2>1. writing' = IF dirty THEN {Now} ELSE {}
    BY <1>3 DEF WriteEnds, WriteFails, WriteNext, OneWrite
  <2>2. ~dirty' /\ timer' = timer /\ sessions' = sessions
    BY <1>3 DEF WriteEnds, WriteFails, WriteNext
  <2>3. lastFailed' \/ stored' = w.sessions
    BY <1>3 DEF WriteEnds, WriteFails
  <2> QED
    BY <1>1, <2>1, <2>2, <2>3 DEF Pending, UnsavedIsPending
<1>4. CASE KillAndRestart
  BY <1>4 DEF KillAndRestart, Pending, UnsavedIsPending
<1>5. CASE /\ ~TimerFires /\ ~KillAndRestart
           /\ ~\E w \in writing : WriteEnds(w) \/ WriteFails(w)
  <2>1. UNCHANGED <<stored, writing, dirty, lastFailed>>
    BY <1>5
    DEF Next, Refuse, Logout, Remove, ChangePassword, Login, CreateUser, Revoke, SaveSoon,
        Wait, storeVars, vars
  <2>2. timer' = TRUE \/ (timer' = timer /\ sessions' = sessions)
    BY <1>5
    DEF Next, Refuse, Logout, Remove, ChangePassword, Login, CreateUser, Revoke, SaveSoon,
        Wait, storeVars, vars
  <2> QED
    BY <2>1, <2>2 DEF Pending, UnsavedIsPending
<1> QED
  BY <1>2, <1>3, <1>4, <1>5

-----------------------------------------------------------------------------
(* The theorems.                                                           *)

LEMMA SessionInvInit == Init => SessionInv
<1> SUFFICES ASSUME Init PROVE SessionInv
  OBVIOUS
<1>1. TypeOK
  BY DEF Init, TypeOK, NoAccounts, AccountsDoc, NewFile, File, NoSessions, SessionsDoc
<1>2. KnownTokens /\ OneWrite
  BY DEF Init, KnownTokens, GivenOut, NoSessions, OneWrite
<1>3. GoneForGood /\ Pending
  BY DEF Init, GoneForGood, RemovedStaysRemoved, Pending, UnsavedIsPending
<1> QED
  BY <1>1, <1>2, <1>3 DEF SessionInv

LEMMA SessionInvNext == SessionInv /\ [Next]_vars => SessionInv'
<1> SUFFICES ASSUME TypeOK, KnownTokens, OneWrite, GoneForGood, Pending, Next \/ UNCHANGED vars
             PROVE  TypeOK' /\ KnownTokens' /\ OneWrite' /\ GoneForGood' /\ Pending'
  BY DEF SessionInv
<1>1. OneWrite' /\ Pending'
  BY OneWriteKept, PendingKept
<1>2. CASE TimerFires \/ \E w \in writing : WriteEnds(w) \/ WriteFails(w)
  BY <1>1, <1>2, TypeStore, KnownStore, GoneStore
<1>3. ASSUME NEW t \in Tokens,
             Refuse(t) \/ Logout(t) \/ ChangePassword(t) \/ \E u \in Users : Login(t, u)
      PROVE  TypeOK' /\ KnownTokens' /\ OneWrite' /\ GoneForGood' /\ Pending'
  BY <1>1, <1>3, TypeRequests, KnownRequests, GoneRequests
<1>4. ASSUME NEW u \in Users, CreateUser(u) \/ Revoke(u)
      PROVE  TypeOK' /\ KnownTokens' /\ OneWrite' /\ GoneForGood' /\ Pending'
  BY <1>1, <1>4, TypeOwner, KnownRest, GoneRest
<1>5. CASE KillAndRestart
  BY <1>1, <1>5, TypeRestart, KnownRest, GoneRest
<1>6. CASE UNCHANGED vars
  <2>1. TypeOK'
    BY <1>6 DEF TypeOK, vars, storeVars, accountVars, ghosts
  <2> QED
    BY <1>1, <1>6, <2>1, KnownRest, GoneRest
<1> QED
  BY <1>2, <1>3, <1>4, <1>5, <1>6 DEF Next, Wait

\* Every reachable state satisfies the inductive invariant.
THEOREM Invariance == Spec => []SessionInv
BY SessionInvInit, SessionInvNext, PTL DEF Spec

\* Accounts, sessions and both files keep their types for any number of tokens and users.
THEOREM TypeCorrect == Spec => []TypeOK
<1>1. SessionInv => TypeOK
  BY DEF SessionInv
<1> QED
  BY <1>1, Invariance, PTL

\* A removal that is part of a completed write is final, in memory, on disk and in the
\* write under way, however many writes fail and wherever a kill strikes
\* (session-store.js:122-152).
THEOREM RemovedStaysRemovedHolds == Spec => []RemovedStaysRemoved
<1>1. SessionInv => RemovedStaysRemoved
  BY DEF SessionInv, GoneForGood
<1> QED
  BY <1>1, Invariance, PTL

\* Unless the last write failed, what the file lacks is about to be written
\* (session-store.js:123-131, 154).
THEOREM UnsavedIsPendingHolds == Spec => []UnsavedIsPending
<1>1. SessionInv => UnsavedIsPending
  BY DEF SessionInv, Pending
<1> QED
  BY <1>1, Invariance, PTL

-----------------------------------------------------------------------------
(* Revocation.  A session may be in memory, in the file and in the write   *)
(* under way, with different versions; its account in memory and in the    *)
(* file of accounts.  Versions compares each with each.                    *)

OnDisk == Loaded(accountsFile, NoAccounts)
Copies == {sessions, stored} \cup {w.sessions : w \in writing}
Excused(t) == opened[t] \in recreated \/ t \in unsettled

OwnNames == \A c \in Copies, t \in Tokens : c[t] # None => c[t].user = opened[t]

RevokedAreKnown == \A t \in revoked : opened[t] # None

\* No copy of a session is ahead of its account, and one that was revoked is behind.
Within(t, c, d) ==
  c[t] # None /\ d[opened[t]] # None =>
    /\ c[t].version =< d[opened[t]].version
    /\ t \in revoked => c[t].version < d[opened[t]].version

Versions ==
  copied => \A t \in Tokens : ~Excused(t) =>
              \A c \in Copies, d \in {accounts, OnDisk} : Within(t, c, d)

RevokedInv == OwnNames /\ RevokedAreKnown /\ Versions

LEMMA CopiesTypes ==
  ASSUME SessionInv
  PROVE  /\ Copies \subseteq SessionsDoc /\ accounts \in AccountsDoc /\ OnDisk \in AccountsDoc
         /\ \A c \in Copies, t \in Tokens : c[t] # None => c[t] \in Session /\ opened[t] \in Users
<1>1. Copies \subseteq SessionsDoc
  BY DEF Copies, SessionInv, TypeOK, Snapshot
<1>2. \A c \in Copies : GivenOut(c)
  BY DEF Copies, SessionInv, KnownTokens
<1>3. accounts \in AccountsDoc /\ accountsFile \in File(AccountsDoc) /\ opened \in [Tokens -> Users \cup {None}]
  BY DEF SessionInv, TypeOK
<1>4. NoAccounts \in AccountsDoc
  BY DEF NoAccounts, AccountsDoc
<1>5. OnDisk \in AccountsDoc
  BY <1>3, <1>4, LoadedType DEF OnDisk
<1> QED
  BY <1>1, <1>2, <1>3, <1>5 DEF SessionsDoc, GivenOut

\* What a save that copied its backup leaves on disk.
LEMMA SaveOnDisk ==
  ASSUME SessionInv, NEW doc \in AccountsDoc, SaveAccounts(doc) \/ SaveAccountsFails(doc), copied'
  PROVE  /\ copied /\ accounts' = doc
         /\ OnDisk' \in {doc, OnDisk, NoAccounts}
         /\ SaveAccounts(doc) => OnDisk' = doc
<1>1. accountsFile \in File(AccountsDoc) /\ doc \in AccountsDoc \ {Absent, Bad} /\ Absent # Bad
  BY SessionAssumption DEF SessionInv, TypeOK
<1>2. accounts' = doc
  BY DEF SaveAccounts, SaveAccountsFails
<1>3. CASE SaveAccounts(doc)
  <2>1. accountsFile' = Written(BackedUp(accountsFile), doc) /\ copied' = copied
    BY <1>3 DEF SaveAccounts
  <2>2. OnDisk' = doc
    BY <1>1, <2>1, FileTypes, WrittenLoads DEF OnDisk
  <2> QED
    BY <1>2, <2>1, <2>2
<1>4. CASE SaveAccountsFails(doc) /\ ~SaveAccounts(doc)
  <2>1. accountsFile' \in NotWritten(BackedUp(accountsFile)) /\ copied' = copied
    BY <1>4 DEF SaveAccountsFails
  <2>2. Loaded(accountsFile', NoAccounts) \in {Loaded(accountsFile, NoAccounts), NoAccounts}
    BY <1>1, <2>1, NotWrittenLoads
  <2> QED
    BY <1>2, <1>4, <2>1, <2>2 DEF OnDisk
<1> QED
  BY <1>3, <1>4

LEMMA RevocationsAreNewer ==
  ASSUME accounts \in AccountsDoc, NEW u \in Users, accounts[u] # None, NEW doc \in Revocations(u)
  PROVE  /\ \A v \in Users \ {u} : doc[v] = accounts[v]
         /\ doc[u] # None => doc[u].version = accounts[u].version + 1
<1>1. accounts[u] \in Account /\ accounts \in [Users -> Account \cup {None}]
  BY DEF AccountsDoc
<1>2. Revoked(accounts[u]).version = accounts[u].version + 1 /\ Revoked(accounts[u]) \in Account
  BY <1>1 DEF Revoked, Account
<1>3. Toggled(accounts[u]).version = accounts[u].version + 1
  BY <1>2 DEF Toggled, Account
<1> QED
  BY <1>1, <1>2, <1>3 DEF Revocations, With

\* What a save writes is not older than memory, account by account.
LEMMA SavesAreNewer ==
  ASSUME accounts \in AccountsDoc, NEW doc \in Saves, NEW u \in Users, accounts[u] # None, doc[u] # None
  PROVE  accounts[u].version =< doc[u].version
<1>1. accounts[u].version \in Nat
  BY DEF AccountsDoc, Account
<1>2. CASE doc = accounts
  BY <1>1, <1>2
<1>3. ASSUME NEW v \in Users, doc \in (IF accounts[v] = None THEN {With(v, NewAccount)} ELSE Revocations(v))
      PROVE  accounts[u].version =< doc[u].version
  <2>1. CASE accounts[v] = None
    <3>1. doc[u] = accounts[u]
      BY <1>3, <2>1 DEF With, AccountsDoc
    <3> QED
      BY <1>1, <3>1
  <2>2. CASE accounts[v] # None
    BY <1>1, <1>3, <2>2, RevocationsAreNewer
  <2> QED
    BY <2>1, <2>2
<1> QED
  BY <1>2, <1>3 DEF Saves

\* A copy that there was before a step is not ahead of the accounts after it.
LEMMA LaterAccounts ==
  ASSUME SessionInv, RevokedInv, copied, NEW doc \in Saves, NEW d \in {accounts, OnDisk, NoAccounts, doc},
         SecondAccounts(doc) \subseteq recreated', recreated \subseteq recreated', unsettled \subseteq unsettled',
         NEW t \in Tokens, opened'[t] = opened[t], ~Excused(t)', NEW c \in Copies
  PROVE  Within(t, c, d)
<1> SUFFICES ASSUME c[t] # None, d[opened[t]] # None
             PROVE  /\ c[t].version =< d[opened[t]].version
                    /\ t \in revoked => c[t].version < d[opened[t]].version
  BY DEF Within
<1>1. ~Excused(t)
  BY DEF Excused
<1>2. \A e \in {accounts, OnDisk} : Within(t, c, e)
  BY <1>1 DEF RevokedInv, Versions
<1>3. opened[t] \in Users /\ c[t] \in Session /\ accounts \in AccountsDoc
  BY CopiesTypes
<1>4. CASE d \in {accounts, OnDisk}
  BY <1>2, <1>4 DEF Within
<1>5. d # NoAccounts
  BY <1>3 DEF NoAccounts
<1>6. CASE d = doc
  <2>1. accounts[opened[t]] # None
    BY <1>3, <1>6 DEF SecondAccounts, Excused
  <2>2. accounts[opened[t]].version =< doc[opened[t]].version
    BY <1>3, <1>6, <2>1, SavesAreNewer
  <2>3. /\ c[t].version =< accounts[opened[t]].version
        /\ t \in revoked => c[t].version < accounts[opened[t]].version
    BY <1>2, <2>1 DEF Within
  <2>4. accounts[opened[t]].version \in Nat /\ doc[opened[t]].version \in Nat /\ c[t].version \in Nat
    <3>1. doc \in AccountsDoc
      BY <1>3, SavesType
    <3> QED
      BY <1>3, <1>6, <2>1, <3>1 DEF AccountsDoc, Account, Session
  <2> QED
    BY <1>6, <2>2, <2>3, <2>4
<1> QED
  BY <1>4, <1>5, <1>6

-----------------------------------------------------------------------------
(* What a step does to the accounts, to the ghosts and to the copies.      *)

AccountsFollow ==
  \E doc \in Saves : /\ SecondAccounts(doc) \subseteq recreated'
                     /\ {accounts', OnDisk'} \subseteq {accounts, OnDisk, NoAccounts, doc}
ExcusesStay == recreated \subseteq recreated' /\ unsettled \subseteq unsettled'

LEMMA SaveFollows ==
  ASSUME SessionInv, NEW doc \in Saves, SaveAccounts(doc) \/ SaveAccountsFails(doc), copied',
         SecondAccounts(doc) \subseteq recreated'
  PROVE  copied /\ AccountsFollow
<1>1. doc \in AccountsDoc
  BY SavesType DEF SessionInv, TypeOK
<1> QED
  BY <1>1, SaveOnDisk DEF AccountsFollow

LEMMA StepFollows ==
  ASSUME SessionInv, Next \/ UNCHANGED vars, copied'
  PROVE  copied /\ AccountsFollow /\ ExcusesStay
<1>1. accounts \in Saves /\ SecondAccounts(accounts) = {}
  BY DEF Saves, SecondAccounts
<1>2. CASE UNCHANGED accountVars /\ UNCHANGED ghosts
  BY <1>1, <1>2 DEF accountVars, ghosts, AccountsFollow, ExcusesStay, OnDisk
<1>3. CASE UNCHANGED <<accounts, accountsFile, copied, recreated, unsettled>>
  BY <1>1, <1>3 DEF AccountsFollow, ExcusesStay, OnDisk
<1>4. ASSUME NEW t \in Tokens, NEW u \in Users, Login(t, u)
      PROVE  copied /\ AccountsFollow /\ ExcusesStay
  BY <1>1, <1>4, SaveFollows DEF Login, ExcusesStay
<1>5. ASSUME NEW t \in Tokens, ChangePassword(t)
      PROVE  copied /\ AccountsFollow /\ ExcusesStay
  <2> DEFINE u == sessions[t].user
             doc == With(u, Revoked(accounts[u]))
  <2>1. u \in Users /\ accounts[u] # None
    BY <1>5 DEF ChangePassword, Accepted, Current, SessionInv, TypeOK, SessionsDoc, Session
  <2>2. doc \in Saves /\ SecondAccounts(doc) = {}
    <3>1. doc \in Revocations(u)
      BY DEF Revocations
    <3>2. \A v \in Users \ {u} : doc[v] = accounts[v]
      BY <2>1, <3>1, RevocationsAreNewer DEF SessionInv, TypeOK
    <3> QED
      BY <2>1, <3>1, <3>2 DEF Saves, SecondAccounts
  <2>3. SaveAccounts(doc) \/ SaveAccountsFails(doc)
    BY <1>5 DEF ChangePassword
  <2>4. UNCHANGED <<unsettled, recreated>>
    BY <1>5 DEF ChangePassword
  <2> QED
    BY <2>2, <2>3, <2>4, SaveFollows DEF ExcusesStay
<1>6. ASSUME NEW u \in Users, CreateUser(u)
      PROVE  copied /\ AccountsFollow /\ ExcusesStay
  <2> DEFINE doc == With(u, NewAccount)
  <2>1. doc \in Saves
    BY <1>6 DEF CreateUser, Saves
  <2>2. /\ SaveAccounts(doc) \/ SaveAccountsFails(doc)
        /\ recreated' = recreated \cup SecondAccounts(doc) /\ unsettled' = unsettled
    BY <1>6 DEF CreateUser
  <2> QED
    BY <2>1, <2>2, SaveFollows DEF ExcusesStay
<1>7. ASSUME NEW u \in Users, Revoke(u)
      PROVE  copied /\ AccountsFollow /\ ExcusesStay
  <2>1. PICK doc \in Revocations(u) : SaveAccounts(doc) \/ SaveAccountsFails(doc)
    BY <1>7 DEF Revoke
  <2>2. accounts[u] # None /\ UNCHANGED <<unsettled, recreated>>
    BY <1>7 DEF Revoke
  <2>3. doc \in Saves
    BY <2>1, <2>2 DEF Saves
  <2>4. \A v \in Users \ {u} : doc[v] = accounts[v]
    BY <2>1, <2>2, RevocationsAreNewer DEF SessionInv, TypeOK
  <2>5. SecondAccounts(doc) = {}
    BY <2>2, <2>4 DEF SecondAccounts
  <2> QED
    BY <2>1, <2>2, <2>3, <2>5, SaveFollows DEF ExcusesStay
<1>8. CASE KillAndRestart
  <2>1. PICK doc \in Saves : /\ accountsFile' \in Interrupted(accountsFile, doc)
                             /\ recreated' = recreated \cup SecondAccounts(doc)
    BY <1>8 DEF KillAndRestart
  <2>2. /\ accountsFile \in File(AccountsDoc) /\ doc \in AccountsDoc \ {Absent, Bad} /\ Absent # Bad
    BY SavesType, SessionAssumption DEF SessionInv, TypeOK
  <2>3. OnDisk' \in {OnDisk, doc, NoAccounts} /\ accounts' = OnDisk'
    BY <1>8, <2>1, <2>2, InterruptedLoads DEF KillAndRestart, OnDisk
  <2>4. UNCHANGED <<copied, unsettled>>
    BY <1>8 DEF KillAndRestart
  <2> QED
    BY <2>1, <2>3, <2>4 DEF AccountsFollow, ExcusesStay
<1>9. CASE TimerFires \/ UNCHANGED vars \/ Wait
  BY <1>2, <1>9 DEF TimerFires, Wait, vars
<1>10. ASSUME NEW w \in writing, WriteEnds(w) \/ WriteFails(w)
       PROVE  copied /\ AccountsFollow /\ ExcusesStay
  BY <1>3, <1>10 DEF WriteEnds, WriteFails, accountVars, ghosts
<1>11. ASSUME NEW t \in Tokens, Refuse(t) \/ Logout(t)
       PROVE  copied /\ AccountsFollow /\ ExcusesStay
  BY <1>3, <1>11 DEF Refuse, Logout, accountVars
<1> QED
  BY <1>4, <1>5, <1>6, <1>7, <1>8, <1>9, <1>10, <1>11 DEF Next

\* A password that was changed and saved: the session goes on with the new version.
Renewed(t) ==
  LET u == sessions[t].user
      a == Revoked(accounts[u])
  IN /\ Accepted(t)
     /\ SaveAccounts(With(u, a))
     /\ SaveSoon([sessions EXCEPT ![t].version = a.version])
     /\ revoked' = revoked \cup {x \in Tokens \ {t} : opened[x] = u}
     /\ opened' = opened

\* A copy after a step was there before it, or a login or a change of password made it.
LEMMA CopiesAfter ==
  ASSUME SessionInv, Next \/ UNCHANGED vars, NEW c \in Copies', NEW t \in Tokens, c[t] # None
  PROVE  \/ \E b \in Copies : b[t] = c[t]
         \/ c = sessions' /\ ((\E u \in Users : Login(t, u)) \/ Renewed(t))
<1>1. sessions \in [Tokens -> Session \cup {None}]
  BY DEF SessionInv, TypeOK, SessionsDoc
<1>2. CASE UNCHANGED storeVars
  BY <1>2 DEF storeVars, Copies
<1>3. CASE TimerFires
  BY <1>3 DEF TimerFires, Flush, Now, Copies
<1>4. ASSUME NEW w \in writing, WriteEnds(w) \/ WriteFails(w)
      PROVE  \E b \in Copies : b[t] = c[t]
  BY <1>4 DEF WriteEnds, WriteFails, WriteNext, Now, Copies
<1>5. ASSUME NEW x \in Tokens, Refuse(x) \/ Logout(x)
      PROVE  \E b \in Copies : b[t] = c[t]
  BY <1>1, <1>5 DEF Refuse, Logout, Remove, SaveSoon, Copies
<1>6. ASSUME NEW x \in Tokens, NEW u \in Users, Login(x, u)
      PROVE  (\E b \in Copies : b[t] = c[t]) \/ (c = sessions' /\ x = t)
  BY <1>1, <1>6 DEF Login, SaveSoon, Copies
<1>7. ASSUME NEW x \in Tokens, ChangePassword(x)
      PROVE  (\E b \in Copies : b[t] = c[t]) \/ (c = sessions' /\ x = t /\ Renewed(t))
  <2>1. CASE UNCHANGED storeVars
    BY <1>2, <2>1 DEF storeVars, Copies
  <2>2. CASE Renewed(x)
    <3>1. \A y \in Tokens \ {x} : sessions'[y] = sessions[y]
      BY <1>1, <2>2 DEF Renewed, SaveSoon
    <3>2. UNCHANGED <<stored, writing>>
      BY <2>2 DEF Renewed, SaveSoon
    <3> QED
      BY <2>2, <3>1, <3>2 DEF Copies
  <2> QED
    BY <1>7, <2>1, <2>2 DEF ChangePassword, Renewed
<1>8. CASE KillAndRestart
  BY <1>8 DEF KillAndRestart, Copies
<1>9. CASE \E u \in Users : CreateUser(u) \/ Revoke(u)
  BY <1>2, <1>9 DEF CreateUser, Revoke
<1> QED
  BY <1>2, <1>3, <1>4, <1>5, <1>6, <1>7, <1>8, <1>9 DEF Next, Wait, vars

-----------------------------------------------------------------------------
(* Revocation holds through each step.                                     *)

\* An answered revocation leaves every copy of the user's sessions behind.
LEMMA RevocationIsAhead ==
  ASSUME SessionInv, RevokedInv, copied, NEW u \in Users, accounts[u] # None, NEW doc \in Revocations(u),
         NEW t \in Tokens, ~Excused(t), opened[t] = u, NEW c \in Copies, c[t] # None, doc[u] # None
  PROVE  c[t].version < doc[u].version
<1>1. doc[u].version = accounts[u].version + 1 /\ accounts[u].version \in Nat
  BY CopiesTypes, RevocationsAreNewer DEF AccountsDoc, Account
<1>2. c[t].version =< accounts[u].version /\ c[t].version \in Nat
  BY CopiesTypes DEF RevokedInv, Versions, Within, Session
<1> QED
  BY <1>1, <1>2

\* What a change of password writes, and which session it keeps.
LEMMA RenewedIsLevel ==
  ASSUME SessionInv, RevokedInv, copied, copied', NEW t \in Tokens, Renewed(t), ~Excused(t)
  PROVE  /\ t \notin revoked'
         /\ \A d \in {accounts', OnDisk'} : Within(t, sessions, d)'
<1> DEFINE u == sessions[t].user
           a == Revoked(accounts[u])
           doc == With(u, a)
<1>1. sessions[t] \in Session /\ sessions[t] # None /\ opened[t] = u /\ u \in Users /\ sessions \in Copies
  <2>1. sessions[t] # None /\ sessions \in Copies
    BY DEF Renewed, Accepted, Copies
  <2> QED
    BY <2>1, CopiesTypes DEF RevokedInv, OwnNames
<1>2. accounts \in AccountsDoc /\ accounts[u] \in Account /\ accounts[u].version = sessions[t].version
  BY <1>1, CopiesTypes DEF Renewed, Accepted, Current, AccountsDoc
<1>3. accounts[u] # None
  BY <1>2, SessionAssumption
<1>4. t \notin revoked
  <2>1. t \in revoked => sessions[t].version < accounts[u].version
    BY <1>1, <1>3 DEF RevokedInv, Versions, Within
  <2> QED
    BY <1>2, <2>1 DEF Account
<1>5. t \notin revoked'
  BY <1>4 DEF Renewed
<1>6. a \in Account /\ doc[u] = a /\ doc \in AccountsDoc
  BY <1>1, <1>2, AccountTypes, WithType DEF With, AccountsDoc
<1>7. SaveAccounts(doc)
  BY DEF Renewed
<1>8. accounts' = doc /\ OnDisk' = doc
  BY <1>6, <1>7, SaveOnDisk
<1>9. sessions'[t].version = a.version
  <2>1. sessions' = [sessions EXCEPT ![t].version = a.version] /\ sessions \in SessionsDoc
    BY <1>1, CopiesTypes DEF Renewed, SaveSoon
  <2> QED
    BY <1>1, <2>1 DEF SessionsDoc, Session
<1>10. opened'[t] = u
  BY <1>1 DEF Renewed
<1> QED
  BY <1>5, <1>6, <1>8, <1>9, <1>10 DEF Within, Account

\* A login takes the version its account has in memory; in the file it has the same,
\* or the token is unsettled.
LEMMA LoginIsLevel ==
  ASSUME SessionInv, RevokedInv, copied', NEW t \in Tokens, NEW u \in Users, Login(t, u), ~Excused(t)'
  PROVE  /\ t \notin revoked'
         /\ \A d \in {accounts', OnDisk'} : Within(t, sessions, d)'
<1>1. accounts \in AccountsDoc /\ accounts[u] \in Account /\ accounts' = accounts
  BY CopiesTypes DEF Login, SaveAccounts, SaveAccountsFails, AccountsDoc
<1>2. opened'[t] = u /\ sessions'[t].version = accounts[u].version
  BY DEF Login, SaveSoon, SessionInv, TypeOK, SessionsDoc
<1>3. OnDisk'[u] = accounts[u]
  BY DEF Login, Excused, OnDisk
<1>4. t \notin revoked'
  BY DEF Login, RevokedInv, RevokedAreKnown
<1> QED
  BY <1>1, <1>2, <1>3, <1>4 DEF Within, Account

\* Whom a step revokes: the sessions of one user, whose account it moves ahead.
LEMMA WhoIsRevoked ==
  ASSUME SessionInv, Next \/ UNCHANGED vars, copied', NEW t \in Tokens, t \in revoked', t \notin revoked
  PROVE  /\ opened' = opened
         /\ \E u \in Users : /\ opened[t] = u /\ accounts[u] # None
                             /\ \E doc \in Revocations(u) : accounts' = doc /\ OnDisk' = doc
<1>1. CASE \E u \in Users : Revoke(u)
  <2>1. PICK u \in Users : Revoke(u)
    BY <1>1
  <2>2. accounts[u] # None /\ Revocations(u) \subseteq AccountsDoc /\ opened' = opened
    BY <2>1, RevocationsType DEF Revoke, SessionInv, TypeOK
  <2>3. PICK doc \in Revocations(u) : SaveAccounts(doc) /\ revoked' = revoked \cup {x \in Tokens : opened[x] = u}
    BY <2>1 DEF Revoke
  <2>4. accounts' = doc /\ OnDisk' = doc
    BY <2>2, <2>3, SaveOnDisk
  <2> QED
    BY <2>2, <2>3, <2>4
<1>2. ASSUME NEW x \in Tokens, ChangePassword(x)
      PROVE  /\ opened' = opened
             /\ \E u \in Users : /\ opened[t] = u /\ accounts[u] # None
                                 /\ \E doc \in Revocations(u) : accounts' = doc /\ OnDisk' = doc
  <2> DEFINE u == sessions[x].user
             doc == With(u, Revoked(accounts[u]))
  <2>1. u \in Users /\ accounts[u] # None /\ opened' = opened
    BY <1>2 DEF ChangePassword, Accepted, Current, SessionInv, TypeOK, SessionsDoc, Session
  <2>2. SaveAccounts(doc) /\ opened[t] = u
    BY <1>2 DEF ChangePassword
  <2>3. doc \in Revocations(u)
    BY DEF Revocations
  <2>4. doc \in AccountsDoc
    BY <2>1, <2>3, RevocationsType DEF SessionInv, TypeOK
  <2>5. accounts' = doc /\ OnDisk' = doc
    BY <2>2, <2>4, SaveOnDisk
  <2> QED
    BY <2>1, <2>2, <2>3, <2>5
<1>3. CASE ~(\E u \in Users : Revoke(u)) /\ ~\E x \in Tokens : ChangePassword(x)
  <2>1. revoked' = revoked
    BY <1>3
    DEF Next, TimerFires, WriteEnds, WriteFails, Refuse, Logout, Login, CreateUser, KillAndRestart, Wait,
        ghosts, vars
  <2> QED
    BY <2>1
<1> QED
  BY <1>1, <1>2, <1>3

LEMMA VersionsKept ==
  ASSUME SessionInv, RevokedInv, Next \/ UNCHANGED vars
  PROVE  Versions'
<1> SUFFICES ASSUME copied', NEW t \in Tokens, ~Excused(t)', NEW c \in Copies', c[t] # None,
                    NEW d \in {accounts', OnDisk'}
             PROVE  Within(t, c, d)'
  BY DEF Versions, Within
<1>1. copied /\ AccountsFollow /\ ExcusesStay
  BY StepFollows
<1>2. CASE c = sessions' /\ \E u \in Users : Login(t, u)
  BY <1>2, LoginIsLevel DEF Within
<1>3. CASE c = sessions' /\ Renewed(t)
  <2>1. ~Excused(t)
    BY <1>1, <1>3 DEF Excused, ExcusesStay, Renewed
  <2> QED
    BY <1>1, <1>3, <2>1, RenewedIsLevel DEF Within
<1>4. ASSUME NEW b \in Copies, b[t] = c[t]
      PROVE  Within(t, c, d)'
  <2>1. opened[t] \in Users /\ b[t] # None
    BY <1>4, CopiesTypes
  <2>2. opened'[t] = opened[t]
    BY <2>1, SessionAssumption
    DEF Next, TimerFires, WriteEnds, WriteFails, Refuse, Logout, ChangePassword, Login, CreateUser,
        Revoke, KillAndRestart, Wait, ghosts, vars, SessionInv, TypeOK
  <2>3. ~Excused(t)
    BY <1>1, <2>2 DEF Excused, ExcusesStay
  <2>4. PICK doc \in Saves : /\ SecondAccounts(doc) \subseteq recreated'
                             /\ {accounts', OnDisk'} \subseteq {accounts, OnDisk, NoAccounts, doc}
    BY <1>1 DEF AccountsFollow
  <2>5. Within(t, b, d)
    BY <1>1, <2>2, <2>4, LaterAccounts DEF ExcusesStay
  <2>6. CASE t \in revoked' => t \in revoked
    BY <1>4, <2>2, <2>5, <2>6 DEF Within
  <2>7. CASE t \in revoked' /\ t \notin revoked
    <3>1. d[opened[t]] # None => b[t].version < d[opened[t]].version
      BY <1>1, <2>1, <2>3, <2>7, WhoIsRevoked, RevocationIsAhead
    <3> QED
      BY <1>4, <2>2, <2>5, <3>1 DEF Within
  <2> QED
    BY <2>6, <2>7
<1> QED
  BY <1>2, <1>3, <1>4, CopiesAfter

LEMMA NamesKept ==
  ASSUME SessionInv, RevokedInv, Next \/ UNCHANGED vars
  PROVE  OwnNames' /\ RevokedAreKnown'
<1>1. \A x \in Tokens : opened[x] # None => opened'[x] = opened[x]
  BY DEF Next, TimerFires, WriteEnds, WriteFails, Refuse, Logout, ChangePassword, Login, CreateUser,
         Revoke, KillAndRestart, Wait, ghosts, vars, SessionInv, TypeOK
<1>2. OwnNames'
  <2> SUFFICES ASSUME NEW c \in Copies', NEW t \in Tokens, c[t] # None
               PROVE  c[t].user = opened'[t]
    BY DEF OwnNames
  <2>1. ASSUME NEW b \in Copies, b[t] = c[t]
        PROVE  c[t].user = opened'[t]
    BY <1>1, <2>1, CopiesTypes, SessionAssumption DEF RevokedInv, OwnNames
  <2>2. ASSUME c = sessions', NEW u \in Users, Login(t, u)
        PROVE  c[t].user = opened'[t]
    BY <2>2 DEF Login, SaveSoon, SessionInv, TypeOK, SessionsDoc
  <2>3. ASSUME c = sessions', Renewed(t)
        PROVE  c[t].user = opened'[t]
    <3>1. sessions \in Copies /\ sessions[t] # None /\ opened' = opened
      BY <2>3 DEF Renewed, Accepted, Copies
    <3>2. sessions[t].user = opened[t] /\ sessions[t] \in Session /\ sessions \in SessionsDoc
      BY <3>1, CopiesTypes DEF RevokedInv, OwnNames
    <3>3. sessions' = [sessions EXCEPT ![t].version = Revoked(accounts[sessions[t].user]).version]
      BY <2>3 DEF Renewed, SaveSoon
    <3>4. sessions'[t].user = sessions[t].user
      BY <3>2, <3>3 DEF SessionsDoc, Session
    <3> QED
      BY <2>3, <3>1, <3>2, <3>4
  <2> QED
    BY <2>1, <2>2, <2>3, CopiesAfter
<1>3. \A t \in revoked' : t \in Tokens /\ (t \in revoked \/ opened[t] \in Users)
  BY DEF Next, TimerFires, WriteEnds, WriteFails, Refuse, Logout, ChangePassword, Accepted, Current, Login,
         CreateUser, Revoke, KillAndRestart, Wait, ghosts, vars, SessionInv, TypeOK, SessionsDoc, Session
<1>4. RevokedAreKnown'
  BY <1>1, <1>3, SessionAssumption DEF RevokedInv, RevokedAreKnown, SessionInv, TypeOK
<1> QED
  BY <1>2, <1>4

\* The comparisons of versions hold throughout.
THEOREM RevokedInvariance == Spec => []RevokedInv
<1>1. Init => RevokedInv
  BY DEF Init, RevokedInv, OwnNames, RevokedAreKnown, Versions, Within, Copies, NoSessions
<1>2. SessionInv /\ RevokedInv /\ [Next]_vars => RevokedInv'
  BY VersionsKept, NamesKept DEF RevokedInv
<1> QED
  BY <1>1, <1>2, Invariance, PTL DEF Spec

\* No session from before a revocation that was answered with success is accepted again,
\* with the excuses the property names, for any number of users, sessions, failed saves
\* and kills (account-service.js:88, 114-119, 121; auth.js:79).
THEOREM RevokedStaysRevokedHolds == Spec => []RevokedStaysRevoked
<1>1. SessionInv /\ RevokedInv => RevokedStaysRevoked
  <2> SUFFICES ASSUME SessionInv, RevokedInv, copied, NEW t \in revoked, Accepted(t), ~Excused(t)
               PROVE  FALSE
    BY DEF RevokedStaysRevoked, Excused
  <2>1. t \in Tokens /\ sessions \in Copies /\ sessions[t] # None
    BY DEF SessionInv, TypeOK, Accepted, Copies
  <2>2. sessions[t].user = opened[t] /\ sessions[t] \in Session
    BY <2>1, CopiesTypes DEF RevokedInv, OwnNames
  <2>3. accounts[opened[t]] # None /\ accounts[opened[t]].version = sessions[t].version
    BY <2>2 DEF Accepted, Current
  <2>4. sessions[t].version < accounts[opened[t]].version
    BY <2>1, <2>3 DEF RevokedInv, Versions, Within
  <2> QED
    BY <2>2, <2>3, <2>4 DEF Session
<1> QED
  BY <1>1, Invariance, RevokedInvariance, PTL

=============================================================================
