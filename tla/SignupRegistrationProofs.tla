------------------------ MODULE SignupRegistrationProofs ------------------------
(***************************************************************************)
(* Proofs about SignupRegistration: its types, that uses are spent, that   *)
(* unused ones are returned, and that answered users survive.              *)
(*                                                                         *)
(* A use is counted in one store before the account appears in the other,  *)
(* so every property holds with a margin of one while a turn is under way. *)
(* Known says who that margin belongs to, Exact how the count stands       *)
(* while nothing failed, NoneFree that any codes that may be read go with  *)
(* any accounts that may be read, and Kept that the promised users are in  *)
(* both places a start may read from.                                      *)
(***************************************************************************)
EXTENDS SignupRegistration, FiniteSetTheorems, TLAPS

\* The documents that name no code that was never issued.
IssuedCodes(of) == {doc \in CodesDoc : \A c \in Codes : doc[c] # None => c \in of}
IssuedAccounts(of) == {doc \in AccountsDoc : \A u \in Users : doc[u] # None => doc[u] \in of}

\* The turn has reserved a use that has not made an account yet.
Reserving == turn.save \in {"reserve", "create"}

Known ==
  /\ codes \in IssuedCodes(issued) /\ codesFile \in File(IssuedCodes(issued))
  /\ accounts \in IssuedAccounts(issued) /\ accountsFile \in File(IssuedAccounts(issued))
  /\ \A c \in Codes \ issued : made[c] = 0
  /\ Reserving => /\ turn.code \in Codes /\ turn.user \in Users
                  /\ codes[turn.code] # None
                  /\ codes[turn.code].usedCount = turn.previous + 1
  /\ turn.save = "create" => accounts[turn.user] = turn.code
  /\ turn.save = "confirm" => turn.user \in Users /\ accounts[turn.user] # None

Exact ==
  failures = 0 /\ kills = 0
    => \A c \in Codes \ clamped :
         codes[c] # None
           => codes[c].usedCount = made[c] + (IF Reserving /\ turn.code = c THEN 1 ELSE 0)

\* The users whose registration was answered, and the one whose answer is next.
Promised == answered \cup (IF turn.save = "confirm" THEN {turn.user} ELSE {})

Keeps(users, doc) == \A u \in users : doc[u] # None

Kept ==
  copied /\ tears < 2 => /\ Keeps(Promised, accounts)
                         /\ Keeps(Promised, Loaded(accountsFile, NoAccounts))
                         /\ tears = 0 => accountsFile.main # Bad

\* Spent() of any two documents, with any users left out and any codes excepted.
Covers(codesDoc, accountsDoc, free, excepted) ==
  \A c \in Codes \ excepted :
    codesDoc[c] # None => Cardinality(MadeWith(accountsDoc, c) \ free) <= codesDoc[c].usedCount

CodesRead == {codes, Loaded(codesFile, NoCodes)}
AccountsRead == {accounts, Loaded(accountsFile, NoAccounts)}

\* What the accounts hold of the code at hand, without the user that is being made.
WithinPrevious(accountsDoc) ==
  Cardinality(MadeWith(accountsDoc, turn.code)
                \ (unsaved \cup (IF turn.save = "create" THEN {turn.user} ELSE {})))
    <= turn.previous

NoneFree ==
  copied =>
    /\ \A k \in CodesRead, a \in AccountsRead : Covers(k, a, unsaved, clamped)
    /\ Reserving /\ turn.code \notin clamped => \A a \in AccountsRead : WithinPrevious(a)
    /\ turn.save = "create" => Loaded(codesFile, NoCodes) = codes

SignupInv == TypeOK /\ Known /\ Exact /\ Kept /\ NoneFree

-----------------------------------------------------------------------------
(* A file written in place: what a save leaves, and what the next start    *)
(* reads from it.                                                          *)

LEMMA LoadedType ==
  ASSUME NEW docs, NEW f \in File(docs), NEW e \in docs
  PROVE  Loaded(f, e) \in docs
BY DEF Loaded, File

LEMMA FileTypes ==
  ASSUME NEW docs, NEW f \in File(docs), NEW doc \in docs
  PROVE  /\ BackedUp(f) \in File(docs)
         /\ Written(f, doc) \in File(docs)
         /\ NotWritten(f) \subseteq File(docs)
         /\ BackupFails(f) \subseteq File(docs)
BY DEF BackedUp, Written, NotWritten, BackupFails, File

LEMMA InterruptedType ==
  ASSUME NEW docs, NEW f \in File(docs), NEW doc \in docs
  PROVE  Interrupted(f, doc) \subseteq File(docs)
<1>1. BackedUp(f) \in File(docs)
  BY FileTypes
<1>2. Written(BackedUp(f), doc) \in File(docs) /\ NotWritten(BackedUp(f)) \subseteq File(docs)
  BY <1>1, FileTypes
<1>3. [f EXCEPT !.bak = Bad] \in File(docs)
  BY DEF File
<1> QED
  BY <1>2, <1>3 DEF Interrupted

LEMMA WrittenLoads ==
  ASSUME NEW docs, NEW f \in File(docs), NEW doc \in docs \ {Absent, Bad}, NEW e
  PROVE  Loaded(Written(f, doc), e) = doc
BY DEF Loaded, Written, File

\* A write that fails leaves what there was before, or nothing; nothing only if the
\* file could not be read before.
LEMMA NotWrittenLoads ==
  ASSUME NEW docs, NEW f \in File(docs), NEW g \in NotWritten(BackedUp(f)), NEW e, Absent # Bad
  PROVE  /\ Loaded(g, e) \in {Loaded(f, e), e}
         /\ f.main # Bad => Loaded(g, e) = Loaded(f, e)
<1>1. CASE f.main = Absent
  BY <1>1 DEF NotWritten, BackedUp, Loaded, File
<1>2. CASE f.main # Absent
  <2> DEFINE b == [f EXCEPT !.bak = f.main]
  <2>1. g = b \/ g = [b EXCEPT !.main = Bad]
    BY <1>2 DEF NotWritten, BackedUp
  <2>2. g.bak = f.main /\ (g.main = f.main \/ g.main = Bad)
    BY <2>1 DEF File
  <2> QED
    BY <1>2, <2>2 DEF Loaded
<1> QED
  BY <1>1, <1>2

\* The same of a write that is cut off, which may also have been complete.
LEMMA InterruptedLoads ==
  ASSUME NEW docs, NEW f \in File(docs), NEW doc \in docs \ {Absent, Bad},
         NEW g \in Interrupted(f, doc), NEW e, Absent # Bad
  PROVE  /\ Loaded(g, e) \in {Loaded(f, e), doc, e}
         /\ f.main # Bad => Loaded(g, e) \in {Loaded(f, e), doc}
<1>1. CASE g = f
  BY <1>1
<1>2. CASE g = Written(BackedUp(f), doc)
  BY <1>2, FileTypes, WrittenLoads
<1>3. CASE f.main # Absent /\ g = [f EXCEPT !.bak = Bad]
  BY <1>3 DEF Loaded, File
<1>4. CASE g \in NotWritten(BackedUp(f))
  BY <1>4, NotWrittenLoads
<1> QED
  BY <1>1, <1>2, <1>3, <1>4 DEF Interrupted

-----------------------------------------------------------------------------
(* Documents and files.                                                    *)

LEMMA EmptyDocs ==
  ASSUME NEW of
  PROVE  NoCodes \in IssuedCodes(of) /\ NoAccounts \in IssuedAccounts(of)
BY DEF NoCodes, NoAccounts, CodesDoc, AccountsDoc, IssuedCodes, IssuedAccounts

LEMMA IssuedMore ==
  ASSUME NEW s, NEW t, s \subseteq t
  PROVE  /\ IssuedCodes(s) \subseteq IssuedCodes(t) /\ IssuedCodes(s) \subseteq CodesDoc
         /\ IssuedAccounts(s) \subseteq IssuedAccounts(t) /\ IssuedAccounts(s) \subseteq AccountsDoc
BY DEF IssuedCodes, IssuedAccounts

LEMMA FileMore ==
  ASSUME NEW s, NEW t, s \subseteq t
  PROVE  File(s) \subseteq File(t)
BY DEF File

\* A save, whatever becomes of it, leaves a file of the same documents.
LEMMA SaveTypes ==
  ASSUME TypeOK, NEW docs, NEW f \in File(docs), NEW doc \in docs, NEW r,
         Save(f, doc, r) \/ SaveError(f, r)
  PROVE  /\ r \in File(docs)
         /\ failures' \in Nat /\ failures' >= failures /\ copied' \in BOOLEAN
         /\ copied' => copied
<1>1. failures \in Nat /\ copied \in BOOLEAN
  BY DEF TypeOK
<1>2. BackedUp(f) \in File(docs) /\ BackupFails(f) \subseteq File(docs)
  BY FileTypes
<1>3. \A g \in File(docs) : Written(g, doc) \in File(docs) /\ NotWritten(g) \subseteq File(docs)
  BY FileTypes
<1>4. r \in File(docs)
  BY <1>2, <1>3 DEF Save, SaveError
<1>5. failures' = failures \/ failures' = failures + 1
  BY DEF Save, SaveError
<1>6. copied' = copied \/ copied' = FALSE
  BY DEF Save, SaveError
<1>7. failures' \in Nat /\ failures' >= failures
  BY <1>1, <1>5
<1>8. copied' \in BOOLEAN
  BY <1>1, <1>6
<1>9. copied' => copied
  BY <1>6
<1> QED
  BY <1>4, <1>7, <1>8, <1>9

\* What the next start reads, if the backup was copied.
LEMMA SaveLoads ==
  ASSUME NEW docs, NEW f \in File(docs), NEW doc \in docs \ {Absent, Bad}, NEW r, NEW e, copied',
         Save(f, doc, r) 
  PROVE  Loaded(r, e) = doc /\ r.main # Bad
<1>1. r = Written(BackedUp(f), doc) /\ BackedUp(f) \in File(docs)
  BY FileTypes DEF Save
<1>2. r.main = doc
  BY <1>1 DEF Written, File
<1> QED
  BY <1>1, <1>2, WrittenLoads

LEMMA SaveErrorLoads ==
  ASSUME NEW docs, NEW f \in File(docs), NEW r, NEW e, copied', SaveError(f, r)
  PROVE  /\ Loaded(r, e) \in {Loaded(f, e), e}
         /\ f.main # Bad => Loaded(r, e) = Loaded(f, e)
BY SignupAssumption, NotWrittenLoads DEF SaveError

-----------------------------------------------------------------------------
(* The saves of the two stores.                                            *)

\* The two files have been saved, one of them or none, whatever became of it.
LEMMA CodesStep ==
  ASSUME TypeOK, Known, CodesSaved \/ CodesNotSaved
  PROVE  /\ codesFile' \in File(IssuedCodes(issued)) /\ UNCHANGED <<accountsFile, tears>>
         /\ failures' \in Nat /\ failures' >= failures /\ copied' \in BOOLEAN
         /\ copied' => copied
<1>1. codes \in IssuedCodes(issued) /\ codesFile \in File(IssuedCodes(issued))
  BY DEF Known
<1>2. Save(codesFile, codes, codesFile') \/ SaveError(codesFile, codesFile')
  BY DEF CodesSaved, CodesNotSaved
<1>3. UNCHANGED <<accountsFile, tears>>
  BY DEF CodesSaved, CodesNotSaved
<1> QED
  BY <1>1, <1>2, <1>3, SaveTypes

LEMMA AccountsStep ==
  ASSUME TypeOK, Known, AccountsSaved \/ AccountsNotSaved
  PROVE  /\ accountsFile' \in File(IssuedAccounts(issued)) /\ UNCHANGED codesFile
         /\ failures' \in Nat /\ failures' >= failures /\ copied' \in BOOLEAN
         /\ copied' => copied
         /\ tears' \in 0..2
<1>1. accounts \in IssuedAccounts(issued) /\ accountsFile \in File(IssuedAccounts(issued))
  BY DEF Known
<1>2. Save(accountsFile, accounts, accountsFile') \/ SaveError(accountsFile, accountsFile')
  BY DEF AccountsSaved, AccountsNotSaved
<1>3. UNCHANGED codesFile /\ tears' \in {Mended, Torn}
  BY DEF AccountsSaved, AccountsNotSaved
<1>4. tears' \in 0..2
  BY <1>3 DEF TypeOK, Mended, Torn, Least
<1> QED
  BY <1>1, <1>2, <1>3, <1>4, SaveTypes

LEMMA GoodDocs ==
  /\ CodesDoc \subseteq CodesDoc \ {Absent, Bad}
  /\ AccountsDoc \subseteq AccountsDoc \ {Absent, Bad}
BY SignupAssumption

\* What a start would read of the codes after a step of theirs, and of the accounts.
LEMMA CodesLoads ==
  ASSUME TypeOK, copied'
  PROVE  /\ CodesSaved => Loaded(codesFile', NoCodes) = codes
         /\ CodesNotSaved => Loaded(codesFile', NoCodes) \in {Loaded(codesFile, NoCodes), NoCodes}
<1>1. codes \in CodesDoc \ {Absent, Bad} /\ codesFile \in File(CodesDoc)
  BY GoodDocs DEF TypeOK
<1> QED
  BY <1>1, SaveLoads, SaveErrorLoads DEF CodesSaved, CodesNotSaved

LEMMA AccountsLoads ==
  ASSUME TypeOK, copied'
  PROVE  /\ AccountsSaved => /\ Loaded(accountsFile', NoAccounts) = accounts
                             /\ accountsFile'.main # Bad
         /\ AccountsNotSaved =>
              /\ Loaded(accountsFile', NoAccounts) \in {Loaded(accountsFile, NoAccounts), NoAccounts}
              /\ accountsFile.main # Bad
                   => Loaded(accountsFile', NoAccounts) = Loaded(accountsFile, NoAccounts)
<1>1. accounts \in AccountsDoc \ {Absent, Bad} /\ accountsFile \in File(AccountsDoc)
  BY GoodDocs DEF TypeOK
<1> QED
  BY <1>1, SaveLoads, SaveErrorLoads DEF AccountsSaved, AccountsNotSaved

-----------------------------------------------------------------------------
(* What the owner and the turns do in memory.                              *)

LEMMA TurnTypes ==
  ASSUME TypeOK
  PROVE  /\ turn.save \in SavesCodes \cup SavesAccounts \cup {"none"}
         /\ turn.code \in Codes \cup {None} /\ turn.user \in Users \cup {None} /\ turn.previous \in Nat
         /\ \A what \in SavesCodes \cup SavesAccounts \cup {"none"} :
              /\ [turn EXCEPT !.save = what]
                   \in [save : SavesCodes \cup SavesAccounts \cup {"none"}, code : Codes \cup {None},
                        user : Users \cup {None}, previous : Nat]
              /\ Saving(what) = [save |-> what, code |-> None, user |-> None, previous |-> 0]
BY DEF TypeOK, Saving, Idle

LEMMA IdleType ==
  Idle \in [save : SavesCodes \cup SavesAccounts \cup {"none"}, code : Codes \cup {None},
            user : Users \cup {None}, previous : Nat]
BY DEF Idle

LEMMA MaxUsesType == ASSUME NEW limit \in Limits PROVE MaxUses(limit) \in Nat \ {0}
BY SignupAssumption DEF MaxUses

\* The codes with one of them counted anew.
LEMMA WithUsesTypes ==
  ASSUME codes \in CodesDoc, NEW c \in Codes, codes[c] # None, NEW count \in Nat
  PROVE  /\ WithUses(c, count) \in CodesDoc
         /\ WithUses(c, count)[c] # None /\ WithUses(c, count)[c].usedCount = count
         /\ \A x \in Codes \ {c} : WithUses(c, count)[x] = codes[x]
<1>1. codes[c] \in Code
  BY DEF CodesDoc
<1>2. [codes[c] EXCEPT !.usedCount = count] \in Code /\ [codes[c] EXCEPT !.usedCount = count].usedCount = count
  BY <1>1 DEF Code
<1>3. WithUses(c, count) = [codes EXCEPT ![c] = [codes[c] EXCEPT !.usedCount = count]]
  BY DEF WithUses
<1> QED
  BY <1>2, <1>3, SignupAssumption DEF CodesDoc

-----------------------------------------------------------------------------
(* Types and what is known of the turn.                                    *)

\* Known bounds the documents, and TypeOK the rest.
LEMMA TypeOfDocs ==
  ASSUME NEW of
  PROVE  /\ IssuedCodes(of) \subseteq CodesDoc /\ File(IssuedCodes(of)) \subseteq File(CodesDoc)
         /\ IssuedAccounts(of) \subseteq AccountsDoc /\ File(IssuedAccounts(of)) \subseteq File(AccountsDoc)
<1>1. IssuedCodes(of) \subseteq CodesDoc /\ IssuedAccounts(of) \subseteq AccountsDoc
  BY IssuedMore
<1> QED
  BY <1>1, FileMore

LEMMA TypeDocs ==
  ASSUME Known'
  PROVE  /\ codes' \in CodesDoc /\ codesFile' \in File(CodesDoc)
         /\ accounts' \in AccountsDoc /\ accountsFile' \in File(AccountsDoc)
<1>1. /\ codes' \in IssuedCodes(issued') /\ codesFile' \in File(IssuedCodes(issued'))
      /\ accounts' \in IssuedAccounts(issued') /\ accountsFile' \in File(IssuedAccounts(issued'))
  BY DEF Known
<1> QED
  BY <1>1, TypeOfDocs

LEMMA KnownCreateCode ==
  ASSUME TypeOK, Known, NEW c \in Codes, NEW limit \in Limits, CreateCode(c, limit)
  PROVE  TypeOK' /\ Known'
<1> DEFINE new == [maxUses |-> MaxUses(limit), usedCount |-> 0, enabled |-> TRUE]
<1>1. new \in Code
  BY MaxUsesType DEF Code
<1>2. codes' = [codes EXCEPT ![c] = new] /\ issued' = issued \cup {c} /\ turn' = Saving("edit")
  BY DEF CreateCode
<1>3. codes' \in IssuedCodes(issued')
  BY <1>1, <1>2 DEF Known, IssuedCodes, CodesDoc
<1>4. IssuedCodes(issued) \subseteq IssuedCodes(issued') /\ IssuedAccounts(issued) \subseteq IssuedAccounts(issued')
  BY <1>2, IssuedMore
<1>5. UNCHANGED <<accounts, fileVars, counts, clamped, made, unsaved, answered, tears, copied>>
  BY DEF CreateCode
<1>6. turn'.save = "edit"
  BY <1>2 DEF Saving, Idle
<1>7. Known'
  BY <1>2, <1>3, <1>4, <1>5, <1>6, FileMore DEF Known, fileVars, Reserving
<1>8. turn' \in [save : SavesCodes \cup SavesAccounts \cup {"none"}, code : Codes \cup {None},
                 user : Users \cup {None}, previous : Nat]
  BY <1>2 DEF Saving, Idle, SavesCodes
<1>9. issued' \subseteq Codes
  BY <1>2 DEF TypeOK
<1> QED
  BY <1>5, <1>7, <1>8, <1>9, TypeDocs DEF TypeOK, fileVars, counts

LEMMA KnownEdits ==
  ASSUME TypeOK, Known,
         \/ \E c \in Codes, limit \in Limits, enabled \in BOOLEAN : UpdateCode(c, limit, enabled)
         \/ \E c \in Codes : DeleteCode(c)
         \/ \E u \in Users : DeleteUser(u)
         \/ UpdateUser
  PROVE  TypeOK' /\ Known'
<1>1. codes' \in IssuedCodes(issued)
  <2>1. ASSUME NEW c \in Codes, NEW limit \in Limits, NEW enabled \in BOOLEAN, UpdateCode(c, limit, enabled)
        PROVE  codes' \in IssuedCodes(issued)
    <3> DEFINE used == Least(codes[c].usedCount, MaxUses(limit))
    <3>1. codes[c] \in Code /\ c \in issued
      BY <2>1 DEF UpdateCode, Known, IssuedCodes, CodesDoc
    <3>2. used \in Nat /\ MaxUses(limit) \in Nat \ {0}
      BY <3>1, MaxUsesType DEF Least, Code
    <3>3. [maxUses |-> MaxUses(limit), usedCount |-> used, enabled |-> enabled] \in Code
      BY <3>2 DEF Code
    <3>4. codes' = [codes EXCEPT ![c] = [maxUses |-> MaxUses(limit), usedCount |-> used, enabled |-> enabled]]
      BY <2>1 DEF UpdateCode
    <3> QED
      BY <3>1, <3>3, <3>4 DEF Known, IssuedCodes, CodesDoc
  <2>2. ASSUME NEW c \in Codes, DeleteCode(c) PROVE codes' \in IssuedCodes(issued)
    BY <2>2 DEF DeleteCode, Known, IssuedCodes, CodesDoc
  <2>3. CASE UNCHANGED codes
    BY <2>3 DEF Known
  <2> QED
    BY <2>1, <2>2, <2>3 DEF DeleteUser, UpdateUser
<1>2. accounts' \in IssuedAccounts(issued)
  <2>1. ASSUME NEW u \in Users, DeleteUser(u) PROVE accounts' \in IssuedAccounts(issued)
    BY <2>1 DEF DeleteUser, Known, IssuedAccounts, AccountsDoc
  <2>2. CASE UNCHANGED accounts
    BY <2>2 DEF Known
  <2> QED
    BY <2>1, <2>2 DEF UpdateCode, DeleteCode, UpdateUser
<1>3. turn' = Saving("edit") \/ turn' = Saving("account")
  BY DEF UpdateCode, DeleteCode, DeleteUser, UpdateUser
<1>4. UNCHANGED <<fileVars, failures, kills, issued, made, unsaved, tears, copied>>
  BY DEF UpdateCode, DeleteCode, DeleteUser, UpdateUser, ghosts
<1>5. turn'.save \notin {"reserve", "create", "confirm"}
  BY <1>3 DEF Saving, Idle
<1>6. Known'
  BY <1>1, <1>2, <1>4, <1>5 DEF Known, Reserving, fileVars
<1>7. turn' \in [save : SavesCodes \cup SavesAccounts \cup {"none"}, code : Codes \cup {None},
                 user : Users \cup {None}, previous : Nat]
  BY <1>3 DEF Saving, Idle, SavesCodes, SavesAccounts
<1>8. edits' \in Nat /\ clamped' \subseteq Codes /\ answered' \subseteq Users
  BY DEF UpdateCode, DeleteCode, DeleteUser, UpdateUser, Edit, ghosts, TypeOK
<1> QED
  BY <1>4, <1>6, <1>7, <1>8, TypeDocs DEF TypeOK

LEMMA KnownReserve ==
  ASSUME TypeOK, Known, NEW c \in Codes, NEW u \in Users, Reserve(c, u)
  PROVE  TypeOK' /\ Known'
<1>1. codes[c] # None /\ codes[c] \in Code /\ c \in issued
  BY DEF Reserve, Usable, Known, IssuedCodes, CodesDoc
<1>2. codes[c].usedCount \in Nat /\ codes' = WithUses(c, codes[c].usedCount + 1)
  BY <1>1 DEF Reserve, Count, Code
<1>3. /\ codes' \in CodesDoc /\ codes'[c] # None /\ codes'[c].usedCount = codes[c].usedCount + 1
      /\ \A x \in Codes \ {c} : codes'[x] = codes[x]
  BY <1>1, <1>2, WithUsesTypes DEF TypeOK
<1>4. codes' \in IssuedCodes(issued)
  BY <1>1, <1>3 DEF Known, IssuedCodes
<1>5. turn' = [save |-> "reserve", code |-> c, user |-> u, previous |-> codes[c].usedCount]
  BY DEF Reserve
<1>6. UNCHANGED <<accounts, fileVars, counts, ghosts, tears, copied>>
  BY DEF Reserve
<1>7. Known'
  BY <1>3, <1>4, <1>5, <1>6 DEF Known, Reserving, fileVars, ghosts
<1>8. turn' \in [save : SavesCodes \cup SavesAccounts \cup {"none"}, code : Codes \cup {None},
                 user : Users \cup {None}, previous : Nat]
  BY <1>2, <1>5 DEF SavesCodes
<1> QED
  BY <1>6, <1>7, <1>8, TypeDocs DEF TypeOK, fileVars, counts, ghosts

\* The count that is given back, where there is one to give back.
LEMMA GivenBack ==
  ASSUME TypeOK, Known, Reserving
  PROVE  /\ GiveBack \in IssuedCodes(issued)
         /\ GiveBack[turn.code] # None /\ GiveBack[turn.code].usedCount = turn.previous
         /\ \A x \in Codes \ {turn.code} : GiveBack[x] = codes[x]
<1>1. turn.code \in Codes /\ codes[turn.code] # None /\ turn.previous \in Nat /\ codes \in CodesDoc
  BY TurnTypes DEF Known, TypeOK
<1>2. /\ GiveBack \in CodesDoc
      /\ GiveBack[turn.code] # None /\ GiveBack[turn.code].usedCount = turn.previous
      /\ \A x \in Codes \ {turn.code} : GiveBack[x] = codes[x]
  BY <1>1, WithUsesTypes DEF GiveBack
<1> QED
  BY <1>1, <1>2 DEF Known, IssuedCodes

LEMMA KnownReserved ==
  ASSUME TypeOK, Known, Reserved
  PROVE  TypeOK' /\ Known'
<1>1. /\ codesFile' \in File(IssuedCodes(issued)) /\ UNCHANGED <<accountsFile, tears>>
      /\ failures' \in Nat /\ copied' \in BOOLEAN
  BY CodesStep DEF Reserved
<1>2. UNCHANGED <<edits, kills, ghosts>> /\ turn.save = "reserve"
  BY DEF Reserved
<1>3. Reserving /\ turn.code \in Codes /\ turn.user \in Users /\ codes[turn.code] # None
      /\ codes[turn.code].usedCount = turn.previous + 1
  BY <1>2 DEF Known, Reserving
<1>4. CASE accounts[turn.user] = None
  <2>1. accounts' = [accounts EXCEPT ![turn.user] = turn.code] /\ turn' = [turn EXCEPT !.save = "create"]
        /\ UNCHANGED codes
    BY <1>4 DEF Reserved
  <2>2. turn.code \in issued
    BY <1>3 DEF Known, IssuedCodes
  <2>3. accounts' \in IssuedAccounts(issued) /\ accounts'[turn.user] = turn.code
    BY <1>3, <2>1, <2>2 DEF Known, IssuedAccounts, AccountsDoc
  <2>4. turn'.save = "create" /\ turn'.code = turn.code /\ turn'.user = turn.user /\ turn'.previous = turn.previous
    BY <2>1 DEF TypeOK
  <2>5. Known'
    BY <1>1, <1>2, <1>3, <2>1, <2>3, <2>4 DEF Known, ghosts
  <2>6. turn' \in [save : SavesCodes \cup SavesAccounts \cup {"none"}, code : Codes \cup {None},
                   user : Users \cup {None}, previous : Nat]
    BY <2>1, TurnTypes DEF SavesAccounts
  <2> QED
    BY <1>1, <1>2, <2>5, <2>6, TypeDocs DEF TypeOK, ghosts
<1>5. CASE accounts[turn.user] # None
  <2>1. codes' = GiveBack /\ turn' = [turn EXCEPT !.save = "restore"] /\ UNCHANGED accounts
    BY <1>5 DEF Reserved
  <2>2. codes' \in IssuedCodes(issued)
    BY <1>3, <2>1, GivenBack
  <2>3. turn'.save = "restore"
    BY <2>1 DEF TypeOK
  <2>4. Known'
    BY <1>1, <1>2, <2>1, <2>2, <2>3 DEF Known, Reserving, ghosts
  <2>5. turn' \in [save : SavesCodes \cup SavesAccounts \cup {"none"}, code : Codes \cup {None},
                   user : Users \cup {None}, previous : Nat]
    BY <2>1, TurnTypes DEF SavesCodes
  <2> QED
    BY <1>1, <1>2, <2>4, <2>5, TypeDocs DEF TypeOK, ghosts
<1> QED
  BY <1>4, <1>5

LEMMA KnownCreated ==
  ASSUME TypeOK, Known, Created
  PROVE  TypeOK' /\ Known'
<1>1. /\ accountsFile' \in File(IssuedAccounts(issued)) /\ UNCHANGED codesFile
      /\ failures' \in Nat /\ copied' \in BOOLEAN /\ tears' \in 0..2
  BY AccountsStep DEF Created
<1>2. UNCHANGED <<codes, accounts, edits, kills, issued, clamped, unsaved, answered>>
      /\ turn' = [turn EXCEPT !.save = "confirm"] /\ made' = [made EXCEPT ![turn.code] = @ + 1]
  BY DEF Created
<1>3. turn.code \in Codes /\ turn.user \in Users /\ codes[turn.code] # None /\ accounts[turn.user] = turn.code
  BY DEF Created, Known, Reserving
<1>4. turn.code \in issued /\ turn.code # None
  BY <1>3, SignupAssumption DEF Known, IssuedCodes
<1>5. turn'.save = "confirm" /\ turn'.user = turn.user
  BY <1>2 DEF TypeOK
<1>6. made' \in [Codes -> Nat] /\ \A c \in Codes \ issued : made'[c] = 0
  BY <1>2, <1>4 DEF Known, TypeOK
<1>7. Known'
  BY <1>1, <1>2, <1>3, <1>4, <1>5, <1>6 DEF Known, Reserving
<1>8. turn' \in [save : SavesCodes \cup SavesAccounts \cup {"none"}, code : Codes \cup {None},
                 user : Users \cup {None}, previous : Nat]
  BY <1>2, TurnTypes DEF SavesCodes
<1> QED
  BY <1>1, <1>2, <1>6, <1>7, <1>8, TypeDocs DEF TypeOK

LEMMA KnownCreateFails ==
  ASSUME TypeOK, Known, CreateFails
  PROVE  TypeOK' /\ Known'
<1>1. /\ accountsFile' \in File(IssuedAccounts(issued)) /\ UNCHANGED codesFile
      /\ failures' \in Nat /\ copied' \in BOOLEAN /\ tears' \in 0..2
  BY AccountsStep DEF CreateFails
<1>2. UNCHANGED <<accounts, edits, kills, issued, clamped, made, answered>>
      /\ turn' = [turn EXCEPT !.save = "restore"] /\ unsaved' = unsaved \cup {turn.user}
  BY DEF CreateFails
<1>3. codes' \in IssuedCodes(issued) /\ turn.user \in Users
  BY GivenBack DEF CreateFails, Reserving, Known
<1>4. turn'.save = "restore"
  BY <1>2 DEF TypeOK
<1>5. Known'
  BY <1>1, <1>2, <1>3, <1>4 DEF Known, Reserving
<1>6. turn' \in [save : SavesCodes \cup SavesAccounts \cup {"none"}, code : Codes \cup {None},
                 user : Users \cup {None}, previous : Nat]
  BY <1>2, TurnTypes DEF SavesCodes
<1> QED
  BY <1>1, <1>2, <1>3, <1>5, <1>6, TypeDocs DEF TypeOK

LEMMA KnownEnds ==
  ASSUME TypeOK, Known, Confirmed \/ Finished \/ Fails
  PROVE  TypeOK' /\ Known'
<1>1. CodesSaved \/ CodesNotSaved \/ AccountsSaved \/ AccountsNotSaved
  BY DEF Confirmed, Finished, Fails
<1>2. /\ codesFile' \in File(IssuedCodes(issued)) /\ accountsFile' \in File(IssuedAccounts(issued))
      /\ failures' \in Nat /\ copied' \in BOOLEAN /\ tears' \in 0..2
  BY <1>1, CodesStep, AccountsStep DEF Known, TypeOK
<1>3. UNCHANGED <<codes, accounts, edits, kills, issued, clamped, made, unsaved>> /\ turn' = Idle
  BY DEF Confirmed, Finished, Fails, ghosts
<1>4. answered' \subseteq Users
  BY DEF Confirmed, Finished, Fails, ghosts, Known, TypeOK
<1>5. turn'.save = "none"
  BY <1>3 DEF Idle
<1>6. Known'
  BY <1>2, <1>3, <1>5 DEF Known, Reserving
<1> QED
  BY <1>2, <1>3, <1>4, <1>6, IdleType, TypeDocs DEF TypeOK

LEMMA KnownRestart ==
  ASSUME TypeOK, Known, KillAndRestart
  PROVE  TypeOK' /\ Known'
<1>1. codesFile' \in File(IssuedCodes(issued))
  BY InterruptedType DEF KillAndRestart, Known
<1>2. accountsFile' \in File(IssuedAccounts(issued))
  BY InterruptedType DEF KillAndRestart, Known
<1>3. codes' \in IssuedCodes(issued) /\ accounts' \in IssuedAccounts(issued)
  BY <1>1, <1>2, EmptyDocs, LoadedType DEF KillAndRestart, Load
<1>4. UNCHANGED <<edits, failures, issued, clamped, made, unsaved, answered, copied>> /\ turn' = Idle
      /\ kills' = kills + 1
  BY DEF KillAndRestart, ghosts
<1>5. tears' \in 0..2
  BY DEF KillAndRestart, Torn, Least, TypeOK
<1>6. turn'.save = "none"
  BY <1>4 DEF Idle
<1>7. Known'
  BY <1>1, <1>2, <1>3, <1>4, <1>6 DEF Known, Reserving
<1> QED
  BY <1>4, <1>5, <1>7, IdleType, TypeDocs DEF TypeOK

LEMMA KnownNext == ASSUME TypeOK, Known, Next \/ UNCHANGED vars PROVE TypeOK' /\ Known'
<1>1. CASE UNCHANGED vars
  BY <1>1 DEF TypeOK, Known, Reserving, vars, fileVars, counts, ghosts
<1>2. CASE OwnerSteps
  BY <1>2, KnownCreateCode, KnownEdits DEF OwnerSteps
<1>3. CASE RegisterSteps
  BY <1>3, KnownReserve, KnownReserved, KnownCreated, KnownCreateFails, KnownEnds DEF RegisterSteps
<1> QED
  BY <1>1, <1>2, <1>3, KnownEnds, KnownRestart DEF Next, Wait

-----------------------------------------------------------------------------
(* Uses are returned.                                                      *)

\* The owner gives no code new uses, but for a code that is new itself.
LEMMA OwnerCounts ==
  ASSUME TypeOK, OwnerSteps, NEW c \in Codes \ clamped', codes'[c] # None
  PROVE  c \notin clamped /\ (\/ codes[c] # None /\ codes'[c].usedCount = codes[c].usedCount
                              \/ c \notin issued /\ codes'[c].usedCount = 0)
<1>1. ASSUME NEW x \in Codes, NEW limit \in Limits, CreateCode(x, limit)
      PROVE  c \notin clamped /\ (\/ codes[c] # None /\ codes'[c].usedCount = codes[c].usedCount
                                  \/ c \notin issued /\ codes'[c].usedCount = 0)
  BY <1>1 DEF CreateCode, TypeOK, CodesDoc
<1>2. ASSUME NEW x \in Codes, NEW limit \in Limits, NEW enabled \in BOOLEAN, UpdateCode(x, limit, enabled)
      PROVE  c \notin clamped /\ codes[c] # None /\ codes'[c].usedCount = codes[c].usedCount
  <2>1. CASE c # x
    BY <1>2, <2>1 DEF UpdateCode, TypeOK, CodesDoc
  <2>2. CASE c = x
    <3>1. codes[c] # None /\ codes'[c].usedCount = Least(codes[c].usedCount, MaxUses(limit))
      BY <1>2, <2>2 DEF UpdateCode, TypeOK, CodesDoc
    <3>2. codes[c].usedCount \in Nat /\ MaxUses(limit) \in Nat
      BY <3>1, MaxUsesType DEF TypeOK, CodesDoc, Code
    <3>3. c \notin clamped /\ ~(Least(codes[c].usedCount, MaxUses(limit)) < codes[c].usedCount)
      BY <1>2, <2>2 DEF UpdateCode
    <3> QED
      BY <3>1, <3>2, <3>3 DEF Least
  <2> QED
    BY <2>1, <2>2
<1>3. ASSUME NEW x \in Codes, DeleteCode(x)
      PROVE  c \notin clamped /\ codes[c] # None /\ codes'[c].usedCount = codes[c].usedCount
  BY <1>3 DEF DeleteCode, ghosts, TypeOK, CodesDoc
<1>4. CASE UNCHANGED <<codes, clamped>>
  BY <1>4
<1> QED
  BY <1>1, <1>2, <1>3, <1>4 DEF OwnerSteps, DeleteUser, UpdateUser, ghosts

LEMMA ExactOwner ==
  ASSUME TypeOK, Known, Exact, OwnerSteps
  PROVE  Exact'
<1>1. UNCHANGED <<failures, kills, made>>
  BY DEF OwnerSteps, CreateCode, UpdateCode, DeleteCode, DeleteUser, UpdateUser, counts, ghosts
<1>2. ~Reserving /\ ~Reserving'
  BY DEF OwnerSteps, CreateCode, UpdateCode, DeleteCode, DeleteUser, UpdateUser, Edit, Saving, Idle, Reserving
<1>3. \A c \in Codes \ clamped' :
        codes'[c] # None
          => c \notin clamped /\ (\/ codes[c] # None /\ codes'[c].usedCount = codes[c].usedCount
                                  \/ c \notin issued /\ codes'[c].usedCount = 0)
  BY OwnerCounts
<1>4. \A c \in Codes \ issued : made[c] = 0
  BY DEF Known
<1> QED
  BY <1>1, <1>2, <1>3, <1>4 DEF Exact

LEMMA ExactTurn ==
  ASSUME TypeOK, Known, Exact, RegisterSteps \/ Finished \/ Fails \/ KillAndRestart
  PROVE  Exact'
<1>1. failures \in Nat /\ kills \in Nat /\ made \in [Codes -> Nat]
  BY DEF TypeOK
<1>2. ASSUME NEW c \in Codes, NEW u \in Users, Reserve(c, u) PROVE Exact'
  <2>1. codes[c] # None /\ codes[c] \in Code /\ codes[c].usedCount \in Nat
    BY <1>2 DEF Reserve, Usable, TypeOK, CodesDoc, Code
  <2>2. codes' = WithUses(c, codes[c].usedCount + 1)
    BY <1>2 DEF Reserve, Count
  <2>3. /\ codes'[c].usedCount = codes[c].usedCount + 1
        /\ \A x \in Codes \ {c} : codes'[x] = codes[x]
    BY <2>1, <2>2, WithUsesTypes DEF TypeOK
  <2>4. ~Reserving /\ Reserving' /\ turn'.code = c /\ UNCHANGED <<failures, kills, clamped, made>>
    BY <1>2 DEF Reserve, Idle, Reserving, counts, ghosts
  <2> QED
    BY <1>1, <2>1, <2>3, <2>4 DEF Exact
<1>3. CASE Reserved
  <2>1. Reserving /\ turn.code \in Codes /\ codes[turn.code].usedCount = turn.previous + 1
        /\ codes[turn.code] # None /\ turn.previous \in Nat
    BY <1>3 DEF Reserved, Reserving, Known, TypeOK
  <2>2. UNCHANGED <<kills, clamped, made>> /\ (failures' = failures \/ failures' = failures + 1)
    BY <1>3 DEF Reserved, ghosts, CodesSaved, Save
  <2>3. CASE accounts[turn.user] = None
    <3>1. UNCHANGED codes /\ turn' = [turn EXCEPT !.save = "create"]
      BY <1>3, <2>3 DEF Reserved
    <3>2. Reserving' /\ turn'.code = turn.code
      BY <3>1 DEF Reserving, TypeOK
    <3> QED
      BY <1>1, <2>1, <2>2, <3>1, <3>2 DEF Exact
  <2>4. CASE accounts[turn.user] # None
    <3>1. codes' = GiveBack /\ turn' = [turn EXCEPT !.save = "restore"]
      BY <1>3, <2>4 DEF Reserved
    <3>2. ~Reserving'
      BY <3>1 DEF Reserving, TypeOK
    <3> QED
      BY <1>1, <2>1, <2>2, <3>1, <3>2, GivenBack DEF Exact
  <2> QED
    BY <2>3, <2>4
<1>4. CASE Created
  <2>1. Reserving /\ turn.code \in Codes /\ ~Reserving'
    BY <1>4 DEF Created, Reserving, Known, TypeOK
  <2>2. UNCHANGED <<codes, kills, clamped>> /\ made' = [made EXCEPT ![turn.code] = @ + 1]
        /\ (failures' = failures \/ failures' = failures + 1)
    BY <1>4 DEF Created, AccountsSaved, Save
  <2>3. \A c \in Codes : codes[c] # None => codes[c].usedCount \in Nat
    BY DEF TypeOK, CodesDoc, Code
  <2> QED
    BY <1>1, <2>1, <2>2, <2>3 DEF Exact
<1>5. CASE CreateFails \/ Fails
  <2>1. failures' = failures + 1
    BY <1>5 DEF CreateFails, Fails, CodesNotSaved, AccountsNotSaved, SaveError
  <2> QED
    BY <1>1, <2>1 DEF Exact
<1>6. CASE Confirmed \/ Finished
  <2>1. UNCHANGED <<codes, kills, clamped, made>> /\ (failures' = failures \/ failures' = failures + 1)
    BY <1>6 DEF Confirmed, Finished, CodesSaved, AccountsSaved, Save, ghosts
  <2>2. ~Reserving /\ ~Reserving'
    BY <1>6 DEF Confirmed, Finished, Reserving, Idle
  <2> QED
    BY <1>1, <2>1, <2>2 DEF Exact
<1>7. CASE KillAndRestart
  BY <1>1, <1>7 DEF KillAndRestart, Exact
<1> QED
  BY <1>2, <1>3, <1>4, <1>5, <1>6, <1>7 DEF RegisterSteps

LEMMA ExactNext == ASSUME TypeOK, Known, Exact, Next \/ UNCHANGED vars PROVE Exact'
<1>1. CASE UNCHANGED vars
  BY <1>1 DEF Exact, Reserving, vars, counts, ghosts
<1> QED
  BY <1>1, ExactOwner, ExactTurn DEF Next, Wait

-----------------------------------------------------------------------------
(* Promised users are kept.                                                *)

LEMMA KeptOwner ==
  ASSUME TypeOK, Known, Kept, OwnerSteps
  PROVE  Kept'
<1>1. UNCHANGED <<accountsFile, tears, copied>>
  BY DEF OwnerSteps, CreateCode, UpdateCode, DeleteCode, DeleteUser, UpdateUser, fileVars
<1>2. Promised = answered /\ Promised' = answered'
  BY DEF OwnerSteps, CreateCode, UpdateCode, DeleteCode, DeleteUser, UpdateUser, Edit, Saving, Idle, Promised
<1>3. CASE UNCHANGED <<accounts, answered>>
  BY <1>1, <1>2, <1>3 DEF Kept, Keeps
<1>4. ASSUME NEW u \in Users, DeleteUser(u) PROVE Kept'
  <2>1. answered' = answered \ {u} /\ accounts' = [accounts EXCEPT ![u] = None] /\ answered \subseteq Users
    BY <1>4 DEF DeleteUser, TypeOK
  <2>2. \A x \in answered' : x \in answered /\ accounts'[x] = accounts[x]
    BY <2>1 DEF TypeOK, AccountsDoc
  <2> QED
    BY <1>1, <1>2, <2>2 DEF Kept, Keeps
<1> QED
  BY <1>3, <1>4 DEF OwnerSteps, CreateCode, UpdateCode, DeleteCode, UpdateUser, ghosts

LEMMA KeptTurn ==
  ASSUME TypeOK, Known, Kept, RegisterSteps \/ Finished \/ Fails
  PROVE  Kept'
<1> SUFFICES ASSUME copied', tears' < 2
             PROVE  /\ Keeps(Promised', accounts')
                    /\ Keeps(Promised', Loaded(accountsFile', NoAccounts))
                    /\ tears' = 0 => accountsFile'.main # Bad
  BY DEF Kept
<1>1. \/ UNCHANGED <<accountsFile, tears>> /\ (copied' => copied)
      \/ AccountsSaved \/ AccountsNotSaved
  BY CodesStep DEF RegisterSteps, Reserve, Reserved, Created, CreateFails, Confirmed, Finished, Fails, fileVars
<1>2. copied /\ tears < 2
  BY <1>1, AccountsStep DEF AccountsSaved, AccountsNotSaved, Mended, Torn, Least, TypeOK
<1>3. Keeps(Promised, accounts) /\ Keeps(Promised, Loaded(accountsFile, NoAccounts))
      /\ (tears = 0 => accountsFile.main # Bad)
  BY <1>2 DEF Kept
<1>4. CASE \E c \in Codes, u \in Users : Reserve(c, u)
  <2>1. UNCHANGED <<accounts, accountsFile, tears, answered>>
    BY <1>4 DEF Reserve, fileVars, ghosts
  <2>2. Promised' = answered
    BY <1>4, <2>1 DEF Reserve, Promised
  <2> QED
    BY <1>3, <2>1, <2>2 DEF Keeps, Promised
<1>5. CASE Reserved
  <2>1. UNCHANGED <<accountsFile, tears, answered>> /\ turn.save = "reserve"
    BY <1>5, CodesStep DEF Reserved, ghosts
  <2>2. turn'.save # "confirm"
    BY <1>5 DEF Reserved, TypeOK
  <2>3. Promised' = answered /\ answered \subseteq Users
    BY <2>1, <2>2 DEF Promised, TypeOK
  <2>4. turn.user \in Users /\ turn.code # None
    BY <2>1, SignupAssumption DEF Known, Reserving
  <2>5. \A x \in answered : accounts[x] # None => accounts'[x] # None
    BY <1>5, <2>3, <2>4 DEF Reserved, TypeOK, AccountsDoc
  <2> QED
    BY <1>3, <2>1, <2>3, <2>5 DEF Keeps, Promised
<1>6. CASE Created
  <2>1. UNCHANGED <<accounts, answered>> /\ turn.save = "create" /\ turn' = [turn EXCEPT !.save = "confirm"]
    BY <1>6 DEF Created
  <2>2. Promised' = answered \cup {turn.user}
    BY <2>1 DEF Promised, TypeOK
  <2>3. accounts[turn.user] # None
    BY <2>1, SignupAssumption DEF Known, Reserving
  <2>4. Keeps(Promised', accounts)
    BY <1>3, <2>2, <2>3 DEF Keeps, Promised
  <2> QED
    BY <1>6, <2>1, <2>4, AccountsLoads DEF Created
<1>7. CASE CreateFails
  <2>1. UNCHANGED <<accounts, answered>> /\ turn' = [turn EXCEPT !.save = "restore"]
    BY <1>7 DEF CreateFails
  <2>2. Promised' = answered
    BY <2>1 DEF Promised, TypeOK
  <2>3. tears = 0 /\ tears' = 1
    BY <1>7 DEF CreateFails, AccountsNotSaved, Torn, Least, TypeOK
  <2>4. Loaded(accountsFile', NoAccounts) = Loaded(accountsFile, NoAccounts)
    BY <1>3, <1>7, <2>3, AccountsLoads DEF CreateFails
  <2> QED
    BY <1>3, <2>1, <2>2, <2>3, <2>4 DEF Keeps, Promised
<1>8. CASE Confirmed
  <2>1. UNCHANGED <<accounts, accountsFile, tears>> /\ turn.save = "confirm"
        /\ answered' = answered \cup {turn.user} /\ turn' = Idle
    BY <1>8, CodesStep DEF Confirmed
  <2>2. Promised' = Promised
    BY <2>1 DEF Promised, Idle
  <2> QED
    BY <1>3, <2>1, <2>2
<1>9. CASE Finished \/ Fails
  <2>1. UNCHANGED <<accounts, answered>> /\ turn' = Idle
    BY <1>9 DEF Finished, Fails, ghosts
  <2>2. Promised' = answered
    BY <2>1 DEF Promised, Idle
  <2>3. CASE UNCHANGED <<accountsFile, tears>>
    BY <1>3, <2>1, <2>2, <2>3 DEF Keeps, Promised
  <2>4. CASE AccountsSaved
    BY <1>3, <2>1, <2>2, <2>4, AccountsLoads DEF Keeps, Promised
  <2>5. CASE AccountsNotSaved
    <3>1. tears = 0 /\ tears' = 1
      BY <2>5 DEF AccountsNotSaved, Torn, Least, TypeOK
    <3>2. Loaded(accountsFile', NoAccounts) = Loaded(accountsFile, NoAccounts)
      BY <1>3, <2>5, <3>1, AccountsLoads
    <3> QED
      BY <1>3, <2>1, <2>2, <3>1, <3>2 DEF Keeps, Promised
  <2> QED
    BY <1>1, <2>3, <2>4, <2>5
<1> QED
  BY <1>4, <1>5, <1>6, <1>7, <1>8, <1>9 DEF RegisterSteps

\* What a start reads of the accounts after a kill.
LEMMA AccountsReread ==
  ASSUME TypeOK, KillAndRestart
  PROVE  /\ accounts' \in {Loaded(accountsFile, NoAccounts), accounts, NoAccounts}
         /\ accountsFile.main # Bad => accounts' \in {Loaded(accountsFile, NoAccounts), accounts}
<1>1. accounts \in AccountsDoc \ {Absent, Bad} /\ accountsFile \in File(AccountsDoc)
  BY GoodDocs DEF TypeOK
<1>2. accounts' = Loaded(accountsFile', NoAccounts)
  BY DEF KillAndRestart, Load
<1>3. accountsFile' = accountsFile \/ accountsFile' \in Interrupted(accountsFile, accounts)
  BY DEF KillAndRestart
<1> QED
  BY <1>1, <1>2, <1>3, InterruptedLoads, SignupAssumption

LEMMA KeptRestart ==
  ASSUME TypeOK, Kept, KillAndRestart
  PROVE  Kept'
<1> SUFFICES ASSUME copied', tears' < 2
             PROVE  /\ Keeps(Promised', accounts')
                    /\ Keeps(Promised', Loaded(accountsFile', NoAccounts))
                    /\ tears' = 0 => accountsFile'.main # Bad
  BY DEF Kept
<1>1. Promised' = answered /\ accounts' = Loaded(accountsFile', NoAccounts) /\ copied
  BY DEF KillAndRestart, Load, Promised, Idle, ghosts
<1>2. CASE UNCHANGED <<accountsFile, tears>>
  BY <1>1, <1>2 DEF Kept, Keeps, Promised
<1>3. CASE tears' = Torn
  <2>1. tears = 0 /\ tears' = 1
    BY <1>3 DEF Torn, Least, TypeOK
  <2>2. accounts' \in {Loaded(accountsFile, NoAccounts), accounts}
    BY <1>1, <2>1, AccountsReread DEF Kept
  <2> QED
    BY <1>1, <2>1, <2>2 DEF Kept, Keeps, Promised
<1> QED
  BY <1>2, <1>3 DEF KillAndRestart

LEMMA KeptNext == ASSUME TypeOK, Known, Kept, Next \/ UNCHANGED vars PROVE Kept'
<1>1. CASE UNCHANGED vars
  BY <1>1 DEF Kept, Promised, vars, fileVars, ghosts
<1> QED
  BY <1>1, KeptOwner, KeptTurn, KeptRestart DEF Next, Wait

-----------------------------------------------------------------------------
(* Uses are spent.                                                         *)

LEMMA MadeFinite ==
  ASSUME NEW doc, NEW c, NEW free
  PROVE  IsFiniteSet(MadeWith(doc, c) \ free) /\ Cardinality(MadeWith(doc, c) \ free) \in Nat
<1>1. MadeWith(doc, c) \ free \subseteq Users
  BY DEF MadeWith
<1> QED
  BY <1>1, SignupAssumption, FS_Subset, FS_CardinalityType

LEMMA FewerMade ==
  ASSUME NEW doc, NEW c, NEW free, NEW S \in SUBSET (MadeWith(doc, c) \ free)
  PROVE  Cardinality(S) \in Nat /\ Cardinality(S) <= Cardinality(MadeWith(doc, c) \ free)
BY MadeFinite, FS_Subset, FS_CardinalityType

LEMMA FewerThan ==
  ASSUME NEW a, NEW b, NEW c, NEW free, NEW free2, NEW n \in Nat,
         MadeWith(b, c) \ free2 \subseteq MadeWith(a, c) \ free,
         Cardinality(MadeWith(a, c) \ free) <= n
  PROVE  Cardinality(MadeWith(b, c) \ free2) <= n
<1>1. /\ Cardinality(MadeWith(b, c) \ free2) \in Nat
      /\ Cardinality(MadeWith(b, c) \ free2) <= Cardinality(MadeWith(a, c) \ free)
  BY FewerMade
<1> QED
  BY <1>1, MadeFinite

\* Fewer accounts, more free users and more excepted codes leave fewer to be covered.
LEMMA CoversFewer ==
  ASSUME NEW k \in CodesDoc, NEW a, NEW free, NEW excepted, Covers(k, a, free, excepted),
         NEW a2, NEW free2, NEW excepted2, excepted \subseteq excepted2,
         \A c \in Codes : MadeWith(a2, c) \ free2 \subseteq MadeWith(a, c) \ free
  PROVE  Covers(k, a2, free2, excepted2)
<1> SUFFICES ASSUME NEW c \in Codes \ excepted2, k[c] # None
             PROVE  Cardinality(MadeWith(a2, c) \ free2) <= k[c].usedCount
  BY DEF Covers
<1>1. Cardinality(MadeWith(a, c) \ free) <= k[c].usedCount /\ k[c].usedCount \in Nat
  BY DEF Covers, CodesDoc, Code
<1>2. /\ Cardinality(MadeWith(a2, c) \ free2) \in Nat
      /\ Cardinality(MadeWith(a2, c) \ free2) <= Cardinality(MadeWith(a, c) \ free)
  BY FewerMade
<1> QED
  BY <1>1, <1>2, MadeFinite

LEMMA CoversEmpty ==
  /\ \A a, free, excepted : Covers(NoCodes, a, free, excepted)
  /\ \A k \in CodesDoc : \A free, excepted : Covers(k, NoAccounts, free, excepted)
<1>1. \A a, free, excepted : Covers(NoCodes, a, free, excepted)
  BY DEF Covers, NoCodes
<1>2. \A c \in Codes : \A free : MadeWith(NoAccounts, c) \ free = {}
  BY SignupAssumption DEF MadeWith, NoAccounts
<1>3. \A k \in CodesDoc, c \in Codes : k[c] # None => k[c].usedCount \in Nat
  BY DEF CodesDoc, Code
<1>4. ASSUME NEW k \in CodesDoc, NEW free, NEW excepted PROVE Covers(k, NoAccounts, free, excepted)
  <2> SUFFICES ASSUME NEW c \in Codes, k[c] # None
               PROVE  Cardinality(MadeWith(NoAccounts, c) \ free) <= k[c].usedCount
    BY DEF Covers
  <2>1. Cardinality(MadeWith(NoAccounts, c) \ free) = 0
    BY <1>2, FS_EmptySet
  <2> QED
    BY <1>3, <2>1
<1> QED
  BY <1>1, <1>4

\* What may be read are documents; those of the accounts name issued codes only.
LEMMA ReadTypes ==
  ASSUME TypeOK, Known
  PROVE  CodesRead \subseteq CodesDoc /\ AccountsRead \subseteq IssuedAccounts(issued)
BY EmptyDocs, LoadedType, TypeOfDocs DEF Known, CodesRead, AccountsRead

LEMMA FreeOwner ==
  ASSUME TypeOK, Known, NoneFree, OwnerSteps
  PROVE  NoneFree'
<1> SUFFICES ASSUME copied'
             PROVE  /\ \A k \in CodesRead', a \in AccountsRead' : Covers(k, a, unsaved', clamped')
                    /\ ~Reserving' /\ turn'.save # "create"
  BY DEF NoneFree
<1>1. UNCHANGED <<codesFile, accountsFile, unsaved, copied>>
  BY DEF OwnerSteps, CreateCode, UpdateCode, DeleteCode, DeleteUser, UpdateUser, fileVars, ghosts
<1>2. ~Reserving' /\ turn'.save # "create"
  BY DEF OwnerSteps, CreateCode, UpdateCode, DeleteCode, DeleteUser, UpdateUser, Edit, Saving, Idle, Reserving
<1>3. clamped \subseteq clamped'
  BY DEF OwnerSteps, CreateCode, UpdateCode, DeleteCode, DeleteUser, UpdateUser, ghosts
<1>4. \A c \in Codes : MadeWith(accounts', c) \subseteq MadeWith(accounts, c)
  <2>1. CASE UNCHANGED accounts
    BY <2>1
  <2>2. ASSUME NEW u \in Users, DeleteUser(u)
        PROVE  \A c \in Codes : MadeWith(accounts', c) \subseteq MadeWith(accounts, c)
    BY <2>2, SignupAssumption DEF DeleteUser, MadeWith, TypeOK, AccountsDoc
  <2> QED
    BY <2>1, <2>2 DEF OwnerSteps, CreateCode, UpdateCode, DeleteCode, UpdateUser
<1>5. ASSUME NEW a \in AccountsRead'
      PROVE  \E b \in AccountsRead : \A c \in Codes : MadeWith(a, c) \subseteq MadeWith(b, c)
  BY <1>1, <1>4, <1>5 DEF AccountsRead
<1>6. ASSUME NEW k \in CodesRead, NEW a \in AccountsRead'
      PROVE  Covers(k, a, unsaved', clamped')
  <2>1. PICK b \in AccountsRead : \A c \in Codes : MadeWith(a, c) \subseteq MadeWith(b, c)
    BY <1>5, <1>6
  <2>2. Covers(k, b, unsaved, clamped) /\ k \in CodesDoc
    BY <1>1, <1>6, <2>1, ReadTypes DEF NoneFree
  <2> QED
    BY <1>1, <1>3, <2>1, <2>2, CoversFewer
<1>7. ASSUME NEW a \in AccountsRead'
      PROVE  Covers(codes', a, unsaved', clamped')
  <2> SUFFICES ASSUME NEW c \in Codes \ clamped', codes'[c] # None
               PROVE  Cardinality(MadeWith(a, c) \ unsaved') <= codes'[c].usedCount
    BY DEF Covers
  <2>1. CASE codes[c] # None /\ codes'[c].usedCount = codes[c].usedCount
    <3>1. codes \in CodesRead
      BY DEF CodesRead
    <3> QED
      BY <1>6, <1>7, <2>1, <3>1 DEF Covers
  <2>2. CASE c \notin issued /\ codes'[c].usedCount = 0
    <3>1. PICK b \in AccountsRead : \A x \in Codes : MadeWith(a, x) \subseteq MadeWith(b, x)
      BY <1>5, <1>7
    <3>2. MadeWith(b, c) = {}
      BY <2>2, <3>1, ReadTypes, SignupAssumption DEF MadeWith, IssuedAccounts
    <3>3. MadeWith(a, c) \ unsaved' = {}
      BY <3>1, <3>2
    <3> QED
      BY <2>2, <3>3, FS_EmptySet
  <2> QED
    BY <2>1, <2>2, OwnerCounts
<1>8. ASSUME NEW k \in CodesRead' PROVE k = codes' \/ k \in CodesRead
  BY <1>1, <1>8 DEF CodesRead
<1> QED
  BY <1>2, <1>6, <1>7, <1>8

LEMMA FreeReserve ==
  ASSUME TypeOK, Known, NoneFree, NEW c \in Codes, NEW u \in Users, Reserve(c, u)
  PROVE  NoneFree'
<1>1. /\ UNCHANGED <<accounts, codesFile, accountsFile, unsaved, clamped, copied>>
      /\ turn' = [save |-> "reserve", code |-> c, user |-> u, previous |-> codes[c].usedCount]
      /\ codes[c] # None /\ codes' = WithUses(c, codes[c].usedCount + 1)
  BY DEF Reserve, Usable, Count, fileVars, ghosts
<1> SUFFICES ASSUME copied
             PROVE  /\ \A k \in CodesRead', a \in AccountsRead' : Covers(k, a, unsaved, clamped)
                    /\ c \notin clamped
                         => \A a \in AccountsRead : Cardinality(MadeWith(a, c) \ unsaved) <= codes[c].usedCount
  BY <1>1 DEF NoneFree, WithinPrevious, AccountsRead
<1>2. codes[c].usedCount \in Nat
  BY <1>1 DEF TypeOK, CodesDoc, Code
<1>3. /\ codes'[c] # None /\ codes'[c].usedCount = codes[c].usedCount + 1
      /\ \A x \in Codes \ {c} : codes'[x] = codes[x]
  BY <1>1, <1>2, WithUsesTypes DEF TypeOK
<1>4. \A a \in AccountsRead : Covers(codes, a, unsaved, clamped)
  BY DEF NoneFree, CodesRead
<1>5. ASSUME NEW a \in AccountsRead PROVE Covers(codes', a, unsaved, clamped)
  <2> SUFFICES ASSUME NEW x \in Codes \ clamped, codes'[x] # None
               PROVE  Cardinality(MadeWith(a, x) \ unsaved) <= codes'[x].usedCount
    BY DEF Covers
  <2>1. codes[x] # None
    BY <1>1, <1>3
  <2>2. Cardinality(MadeWith(a, x) \ unsaved) <= codes[x].usedCount
    BY <1>4, <1>5, <2>1 DEF Covers
  <2> QED
    BY <1>2, <1>3, <2>2, MadeFinite
<1>6. \A a \in AccountsRead : Covers(Loaded(codesFile, NoCodes), a, unsaved, clamped)
  BY DEF NoneFree, CodesRead
<1>7. c \notin clamped => \A a \in AccountsRead : Cardinality(MadeWith(a, c) \ unsaved) <= codes[c].usedCount
  BY <1>1, <1>4 DEF Covers
<1> QED
  BY <1>1, <1>5, <1>6, <1>7 DEF CodesRead, AccountsRead

\* The count that is given back still covers the accounts, without the user of the turn.
LEMMA FreeGivenBack ==
  ASSUME TypeOK, Known, NoneFree, copied, Reserving, NEW a \in AccountsRead
  PROVE  Covers(GiveBack, a, unsaved \cup (IF turn.save = "create" THEN {turn.user} ELSE {}), clamped)
<1> DEFINE free == unsaved \cup (IF turn.save = "create" THEN {turn.user} ELSE {})
<1> SUFFICES ASSUME NEW c \in Codes \ clamped, GiveBack[c] # None
             PROVE  Cardinality(MadeWith(a, c) \ free) <= GiveBack[c].usedCount
  BY DEF Covers
<1>1. CASE c = turn.code
  BY <1>1, GivenBack DEF NoneFree, WithinPrevious
<1>2. CASE c # turn.code
  <2>1. GiveBack[c] = codes[c]
    BY <1>2, GivenBack
  <2>2. Cardinality(MadeWith(a, c) \ unsaved) <= codes[c].usedCount /\ codes[c].usedCount \in Nat
    BY <2>1 DEF NoneFree, CodesRead, Covers, TypeOK, CodesDoc, Code
  <2>3. MadeWith(a, c) \ free \subseteq MadeWith(a, c) \ unsaved
    OBVIOUS
  <2>4. Cardinality(MadeWith(a, c) \ free) <= codes[c].usedCount
    <3> HIDE DEF free
    <3> QED
      BY <2>2, <2>3, FewerThan
  <2> QED
    BY <2>1, <2>4
<1> QED
  BY <1>1, <1>2

LEMMA FreeReserved ==
  ASSUME TypeOK, Known, NoneFree, Reserved
  PROVE  NoneFree'
<1> SUFFICES ASSUME copied' PROVE NoneFree'
  BY DEF NoneFree
<1>1. /\ copied /\ Loaded(codesFile', NoCodes) = codes
      /\ UNCHANGED <<accountsFile, unsaved, clamped>> /\ turn.save = "reserve" /\ Reserving
  BY CodesStep, CodesLoads DEF Reserved, Reserving, ghosts
<1>2. /\ turn.code \in Codes /\ turn.user \in Users
      /\ codes[turn.code] # None /\ codes[turn.code].usedCount = turn.previous + 1
      /\ turn.previous \in Nat
  BY <1>1 DEF Known, TypeOK
<1>3. /\ \A a \in AccountsRead : Covers(codes, a, unsaved, clamped)
      /\ turn.code \notin clamped
           => \A a \in AccountsRead : Cardinality(MadeWith(a, turn.code) \ unsaved) <= turn.previous
  BY <1>1 DEF NoneFree, CodesRead, WithinPrevious
<1>4. CASE accounts[turn.user] # None
  <2>1. codes' = GiveBack /\ UNCHANGED accounts /\ turn' = [turn EXCEPT !.save = "restore"]
    BY <1>4 DEF Reserved
  <2>2. turn'.save = "restore"
    BY <2>1 DEF TypeOK
  <2>3. \A a \in AccountsRead : Covers(GiveBack, a, unsaved, clamped)
    BY <1>1, FreeGivenBack
  <2> QED
    BY <1>1, <1>3, <2>1, <2>2, <2>3 DEF NoneFree, CodesRead, AccountsRead, Reserving
<1>5. CASE accounts[turn.user] = None
  <2>1. /\ UNCHANGED codes /\ turn' = [turn EXCEPT !.save = "create"]
        /\ accounts' = [accounts EXCEPT ![turn.user] = turn.code]
    BY <1>5 DEF Reserved
  <2>2. turn'.save = "create" /\ turn'.code = turn.code /\ turn'.user = turn.user /\ turn'.previous = turn.previous
    BY <2>1 DEF TypeOK
  <2>3. \A c \in Codes : MadeWith(accounts', c) \subseteq MadeWith(accounts, c) \cup {turn.user}
    BY <2>1 DEF MadeWith, TypeOK, AccountsDoc
  <2>4. \A c \in Codes \ {turn.code} : MadeWith(accounts', c) \subseteq MadeWith(accounts, c)
    BY <1>2, <2>1 DEF MadeWith, TypeOK, AccountsDoc
  <2>5. ASSUME NEW a \in AccountsRead', turn.code \notin clamped
        PROVE  Cardinality(MadeWith(a, turn.code) \ (unsaved \cup {turn.user})) <= turn.previous
    <3>1. PICK b \in AccountsRead : MadeWith(a, turn.code) \subseteq MadeWith(b, turn.code) \cup {turn.user}
      BY <1>1, <1>2, <2>3 DEF AccountsRead
    <3> DEFINE S == MadeWith(a, turn.code) \ (unsaved \cup {turn.user})
               T == MadeWith(b, turn.code) \ unsaved
    <3>2. S \in SUBSET T
      BY <3>1
    <3>3. Cardinality(T) <= turn.previous /\ Cardinality(T) \in Nat
      BY <1>3, <2>5, <3>1, MadeFinite
    <3>4. Cardinality(S) \in Nat /\ Cardinality(S) <= Cardinality(T)
      BY <3>2, FewerMade
    <3> HIDE DEF S, T
    <3>5. Cardinality(S) <= turn.previous
      BY <1>2, <3>3, <3>4
    <3> QED
      BY <3>5 DEF S
  <2>6. Covers(codes, accounts', unsaved, clamped)
    <3> SUFFICES ASSUME NEW c \in Codes \ clamped, codes[c] # None
                 PROVE  Cardinality(MadeWith(accounts', c) \ unsaved) <= codes[c].usedCount
      BY DEF Covers
    <3>1. CASE c # turn.code
      <4>1. MadeWith(accounts', c) \ unsaved \subseteq MadeWith(accounts, c) \ unsaved
        BY <2>4, <3>1
      <4>2. Cardinality(MadeWith(accounts, c) \ unsaved) <= codes[c].usedCount /\ codes[c].usedCount \in Nat
        BY <1>3 DEF AccountsRead, Covers, TypeOK, CodesDoc, Code
      <4> QED
        BY <4>1, <4>2, FewerThan
    <3>2. CASE c = turn.code
      <4> DEFINE S == MadeWith(accounts, c) \ unsaved
      <4>1. MadeWith(accounts', c) \ unsaved \subseteq S \cup {turn.user}
        BY <2>3
      <4>2. Cardinality(S) <= turn.previous /\ IsFiniteSet(S) /\ Cardinality(S) \in Nat
        BY <1>3, <3>2, MadeFinite DEF AccountsRead
      <4>3. IsFiniteSet(S \cup {turn.user}) /\ Cardinality(S \cup {turn.user}) <= Cardinality(S) + 1
        <5>1. /\ IsFiniteSet(S \cup {turn.user})
              /\ Cardinality(S \cup {turn.user}) = IF turn.user \in S THEN Cardinality(S) ELSE Cardinality(S) + 1
          BY <4>2, FS_AddElement
        <5> HIDE DEF S
        <5> QED
          BY <4>2, <5>1
      <4>4. Cardinality(MadeWith(accounts', c) \ unsaved) <= Cardinality(S \cup {turn.user})
        BY <4>1, <4>3, FS_Subset
      <4>5. Cardinality(S \cup {turn.user}) \in Nat /\ Cardinality(MadeWith(accounts', c) \ unsaved) \in Nat
        BY <4>3, FS_CardinalityType, MadeFinite
      <4> QED
        BY <1>2, <3>2, <4>2, <4>3, <4>4, <4>5
    <3> QED
      BY <3>1, <3>2
  <2>7. \A a \in AccountsRead' : Covers(codes, a, unsaved, clamped)
    BY <1>1, <1>3, <2>6 DEF AccountsRead
  <2>8. CodesRead' = {codes}
    BY <1>1, <2>1 DEF CodesRead
  <2>9. Reserving' /\ turn'.code \notin clamped' => \A a \in AccountsRead' : WithinPrevious(a)'
    BY <1>1, <2>2, <2>5 DEF WithinPrevious
  <2> QED
    BY <1>1, <2>1, <2>2, <2>7, <2>8, <2>9 DEF NoneFree
<1> QED
  BY <1>4, <1>5

LEMMA FreeCreated ==
  ASSUME TypeOK, Known, NoneFree, Created
  PROVE  NoneFree'
<1> SUFFICES ASSUME copied' PROVE NoneFree'
  BY DEF NoneFree
<1>1. /\ copied /\ Loaded(accountsFile', NoAccounts) = accounts
      /\ UNCHANGED <<codes, codesFile, accounts, unsaved, clamped>>
      /\ turn' = [turn EXCEPT !.save = "confirm"]
  BY AccountsStep, AccountsLoads DEF Created
<1>2. turn'.save = "confirm"
  BY <1>1 DEF TypeOK
<1>3. CodesRead' = CodesRead /\ AccountsRead' \subseteq AccountsRead
  BY <1>1 DEF CodesRead, AccountsRead
<1> QED
  BY <1>1, <1>2, <1>3 DEF NoneFree, Reserving

LEMMA FreeCreateFails ==
  ASSUME TypeOK, Known, NoneFree, CreateFails
  PROVE  NoneFree'
<1> SUFFICES ASSUME copied' PROVE NoneFree'
  BY DEF NoneFree
<1>1. /\ copied /\ Loaded(accountsFile', NoAccounts) \in {Loaded(accountsFile, NoAccounts), NoAccounts}
      /\ UNCHANGED <<codesFile, accounts, clamped>>
      /\ turn' = [turn EXCEPT !.save = "restore"] /\ codes' = GiveBack
      /\ unsaved' = unsaved \cup {turn.user} /\ turn.save = "create" /\ Reserving
  BY AccountsStep, AccountsLoads DEF CreateFails, Reserving
<1>2. turn'.save = "restore"
  BY <1>1 DEF TypeOK
<1>3. \A k \in CodesRead' : k = GiveBack \/ k \in CodesRead
  BY <1>1 DEF CodesRead
<1>4. \A a \in AccountsRead' : a \in AccountsRead \/ a = NoAccounts
  BY <1>1 DEF AccountsRead
<1>5. GiveBack \in CodesDoc /\ CodesRead \subseteq CodesDoc
  BY <1>1, GivenBack, TypeOfDocs, ReadTypes
<1>6. ASSUME NEW a \in AccountsRead PROVE Covers(GiveBack, a, unsaved', clamped)
  BY <1>1, <1>6, FreeGivenBack
<1>7. ASSUME NEW k \in CodesRead, NEW a \in AccountsRead PROVE Covers(k, a, unsaved', clamped)
  <2>1. Covers(k, a, unsaved, clamped) /\ k \in CodesDoc
    BY <1>1, <1>5, <1>7 DEF NoneFree
  <2>2. \A c \in Codes : MadeWith(a, c) \ unsaved' \subseteq MadeWith(a, c) \ unsaved
    BY <1>1
  <2> QED
    BY <2>1, <2>2, CoversFewer
<1>8. \A k \in CodesDoc : Covers(k, NoAccounts, unsaved', clamped)
  BY CoversEmpty
<1>9. \A k \in CodesRead', a \in AccountsRead' : Covers(k, a, unsaved', clamped')
  BY <1>1, <1>3, <1>4, <1>5, <1>6, <1>7, <1>8
<1> QED
  BY <1>2, <1>9 DEF NoneFree, Reserving

\* When a turn ends or is cut off, each store reads what it read before, what it
\* held in memory, or nothing.
LEMMA FreeAtRest ==
  ASSUME TypeOK, Known, NoneFree, copied, UNCHANGED <<unsaved, clamped>>, turn' = Idle,
         CodesRead' \subseteq CodesRead \cup {NoCodes}, AccountsRead' \subseteq AccountsRead \cup {NoAccounts}
  PROVE  NoneFree'
<1>1. ~Reserving' /\ turn'.save # "create"
  BY DEF Idle, Reserving
<1>2. \A k \in CodesRead, a \in AccountsRead : Covers(k, a, unsaved, clamped)
  BY DEF NoneFree
<1>3. CodesRead \cup {NoCodes} \subseteq CodesDoc
  BY ReadTypes, EmptyDocs, TypeOfDocs
<1>4. \A k \in CodesRead \cup {NoCodes}, a \in AccountsRead \cup {NoAccounts} : Covers(k, a, unsaved, clamped)
  BY <1>2, <1>3, CoversEmpty
<1> QED
  BY <1>1, <1>4 DEF NoneFree

LEMMA FreeEnds ==
  ASSUME TypeOK, Known, NoneFree, Confirmed \/ Finished \/ Fails
  PROVE  NoneFree'
<1> SUFFICES ASSUME copied' PROVE NoneFree'
  BY DEF NoneFree
<1>1. UNCHANGED <<codes, accounts, unsaved, clamped>> /\ turn' = Idle
  BY DEF Confirmed, Finished, Fails, ghosts
<1>2. CASE CodesSaved \/ CodesNotSaved
  <2>1. copied /\ UNCHANGED accountsFile
        /\ Loaded(codesFile', NoCodes) \in {codes, Loaded(codesFile, NoCodes), NoCodes}
    BY <1>2, CodesStep, CodesLoads
  <2> QED
    BY <1>1, <2>1, FreeAtRest DEF CodesRead, AccountsRead
<1>3. CASE AccountsSaved \/ AccountsNotSaved
  <2>1. copied /\ UNCHANGED codesFile
        /\ Loaded(accountsFile', NoAccounts) \in {accounts, Loaded(accountsFile, NoAccounts), NoAccounts}
    BY <1>3, AccountsStep, AccountsLoads
  <2> QED
    BY <1>1, <2>1, FreeAtRest DEF CodesRead, AccountsRead
<1> QED
  BY <1>2, <1>3 DEF Confirmed, Finished, Fails

LEMMA FreeRestart ==
  ASSUME TypeOK, Known, NoneFree, KillAndRestart
  PROVE  NoneFree'
<1> SUFFICES ASSUME copied' PROVE NoneFree'
  BY DEF NoneFree
<1>1. /\ copied /\ UNCHANGED <<unsaved, clamped>> /\ turn' = Idle
      /\ codes' = Loaded(codesFile', NoCodes) /\ accounts' = Loaded(accountsFile', NoAccounts)
  BY DEF KillAndRestart, Load, ghosts
<1>2. accounts' \in AccountsRead \cup {NoAccounts}
  BY AccountsReread DEF AccountsRead
<1>3. codes' \in CodesRead \cup {NoCodes}
  <2>1. codes \in CodesDoc \ {Absent, Bad} /\ codesFile \in File(CodesDoc)
    BY GoodDocs DEF TypeOK
  <2>2. codesFile' = codesFile \/ codesFile' \in Interrupted(codesFile, codes)
    BY DEF KillAndRestart
  <2> QED
    BY <1>1, <2>1, <2>2, InterruptedLoads, SignupAssumption DEF CodesRead
<1>4. CodesRead' = {codes'} /\ AccountsRead' = {accounts'}
  BY <1>1 DEF CodesRead, AccountsRead
<1> QED
  BY <1>1, <1>2, <1>3, <1>4, FreeAtRest

LEMMA FreeNext == ASSUME TypeOK, Known, NoneFree, Next \/ UNCHANGED vars PROVE NoneFree'
<1>1. CASE UNCHANGED vars
  BY <1>1 DEF NoneFree, CodesRead, AccountsRead, WithinPrevious, Reserving, vars, fileVars, ghosts
<1>2. CASE RegisterSteps
  BY <1>2, FreeReserve, FreeReserved, FreeCreated, FreeCreateFails, FreeEnds DEF RegisterSteps
<1> QED
  BY <1>1, <1>2, FreeOwner, FreeEnds, FreeRestart DEF Next, Wait

-----------------------------------------------------------------------------
(* The theorems.                                                           *)

LEMMA SignupInvInit == Init => SignupInv
<1> SUFFICES ASSUME Init PROVE SignupInv
  OBVIOUS
<1>1. Known
  BY EmptyDocs DEF Init, Known, Reserving, Idle, NewFile, File
<1>2. TypeOK
  BY EmptyDocs, TypeOfDocs, IdleType DEF Init, TypeOK, NewFile, File
<1>3. Exact
  BY DEF Init, Exact, NoCodes
<1>4. Kept
  BY SignupAssumption DEF Init, Kept, Keeps, Promised, Idle, NewFile
<1>5. NoneFree
  <2>1. CodesRead = {NoCodes} /\ ~Reserving /\ turn.save # "create"
    BY DEF Init, CodesRead, Loaded, NewFile, Reserving, Idle
  <2> QED
    BY <2>1, CoversEmpty DEF NoneFree
<1> QED
  BY <1>1, <1>2, <1>3, <1>4, <1>5 DEF SignupInv

LEMMA SignupInvNext == SignupInv /\ [Next]_vars => SignupInv'
BY KnownNext, ExactNext, KeptNext, FreeNext DEF SignupInv

\* Every reachable state satisfies the inductive invariant.
THEOREM Invariance == Spec => []SignupInv
BY SignupInvInit, SignupInvNext, PTL DEF Spec

\* Codes, accounts, files and turns keep their types for any number of codes and users.
THEOREM TypeCorrect == Spec => []TypeOK
<1>1. SignupInv => TypeOK
  BY DEF SignupInv
<1> QED
  BY <1>1, Invariance, PTL

\* A use that made an account stays spent, in memory and in the two files, wherever a
\* kill or a failed save strikes (signup-code-service.js:298).
THEOREM UsesAreSpentHolds == Spec => []UsesAreSpent
<1>1. SignupInv => UsesAreSpent
  BY DEF SignupInv, NoneFree, CodesRead, AccountsRead, Covers, UsesAreSpent, Spent
<1> QED
  BY <1>1, Invariance, PTL

\* Between requests, while nothing has failed, a code has counted exactly the accounts
\* it made (signup-code-service.js:306).
THEOREM UsesAreReturnedHolds == Spec => []UsesAreReturned
<1>1. SignupInv => UsesAreReturned
  BY DEF SignupInv, TypeOK, Exact, Reserving, Idle, UsesAreReturned
<1> QED
  BY <1>1, Invariance, PTL

\* A user whose registration was answered with success survives all restarts, but for
\* two saves of the accounts in a row that were cut off (account-service.js:65).
THEOREM AnsweredUsersSurviveHolds == Spec => []AnsweredUsersSurvive
<1>1. SignupInv => AnsweredUsersSurvive
  BY DEF SignupInv, Kept, Keeps, Promised, AnsweredUsersSurvive
<1> QED
  BY <1>1, Invariance, PTL
=============================================================================
