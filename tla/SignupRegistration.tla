--------------------------- MODULE SignupRegistration ---------------------------
(***************************************************************************)
(* Registration with a sign-up code (signup-code-service.js) and the       *)
(* accounts it makes (account-service.js, auth-routes.js).                 *)
(*                                                                         *)
(* Everything of a request happens in one turn of the event loop, so the   *)
(* only actors are the turn, the file system and whoever kills the server. *)
(* A turn is cut into the saves it makes: reserve a use of the code,       *)
(* create the account, then confirm the use or give it back.  Codes and    *)
(* accounts live in two files that no transaction ties together.           *)
(***************************************************************************)
EXTENDS Naturals, FiniteSets, InPlaceFile

CONSTANTS
  Codes, Users, None,
  Limits,                 \* what the owner may enter for maxUses
  MaxEdits, MaxFailures, MaxKills   \* bounds on a run

Code == [maxUses : Nat \ {0}, usedCount : Nat, enabled : BOOLEAN]
CodesDoc == [Codes -> Code \cup {None}]
AccountsDoc == [Users -> Codes \cup {None}]
NoCodes == [c \in Codes |-> None]
NoAccounts == [u \in Users |-> None]

ASSUME SignupAssumption ==
  /\ Limits \subseteq Nat
  /\ IsFiniteSet(Users)
  /\ MaxEdits \in Nat /\ MaxFailures \in Nat /\ MaxKills \in Nat
  /\ None \notin Codes /\ None \notin Code
  /\ Absent # Bad
  /\ \A c \in {Absent, Bad} : c \notin CodesDoc /\ c \notin AccountsDoc

VARIABLES
  codes, accounts,          \* in memory; an account is the code it was made with
  codesFile, accountsFile,
  turn,                     \* the request under way and the save it has come to
  edits, failures, kills,   \* how many there have been
  issued,    \* the codes there have ever been
  clamped,   \* those whose count of uses a lower limit has cut
  made,      \* how many accounts each code has made
  unsaved,   \* users whose creation once failed when it was saved
  answered,  \* users whose registration was answered with success
  tears,     \* incomplete saves of the accounts in a row; two stay two
  copied     \* every backup so far was copied

fileVars == <<codesFile, accountsFile>>
ghosts == <<issued, clamped, made, unsaved, answered>>
counts == <<edits, failures, kills>>
vars == <<codes, accounts, fileVars, turn, counts, ghosts, tears, copied>>

SavesCodes == {"reserve", "confirm", "restore", "edit"}
SavesAccounts == {"create", "account"}
Idle == [save |-> "none", code |-> None, user |-> None, previous |-> 0]

TypeOK ==
  /\ codes \in CodesDoc
  /\ accounts \in AccountsDoc
  /\ codesFile \in File(CodesDoc)
  /\ accountsFile \in File(AccountsDoc)
  /\ turn \in [save : SavesCodes \cup SavesAccounts \cup {"none"}, code : Codes \cup {None},
               user : Users \cup {None}, previous : Nat]
  /\ edits \in Nat /\ failures \in Nat /\ kills \in Nat
  /\ issued \subseteq Codes /\ clamped \subseteq Codes
  /\ made \in [Codes -> Nat]
  /\ unsaved \subseteq Users /\ answered \subseteq Users
  /\ tears \in 0..2
  /\ copied \in BOOLEAN

\* A server that starts for the first time.
Init ==
  /\ codes = NoCodes
  /\ accounts = NoAccounts
  /\ codesFile = NewFile
  /\ accountsFile = NewFile
  /\ turn = Idle
  /\ edits = 0
  /\ failures = 0
  /\ kills = 0
  /\ issued = {}
  /\ clamped = {}
  /\ made = [c \in Codes |-> 0]
  /\ unsaved = {}
  /\ answered = {}
  /\ tears = 0
  /\ copied = TRUE

-----------------------------------------------------------------------------
(* The owner's requests.                                                   *)

Saving(what) == [Idle EXCEPT !.save = what]
Least(a, b) == IF a <= b THEN a ELSE b

\* A code has at least one use.  The slip takes the number as it was entered.
AsEntered(limit) == limit
MaxUses(limit) == IF limit = 0 THEN 1 ELSE limit

CreateCode(c, limit) ==
  /\ turn = Idle
  /\ c \notin issued  \* its id is drawn at random
  /\ codes' = [codes EXCEPT ![c] = [maxUses |-> MaxUses(limit), usedCount |-> 0, enabled |-> TRUE]]
  /\ issued' = issued \cup {c}
  /\ turn' = Saving("edit")
  /\ UNCHANGED <<accounts, fileVars, counts, clamped, made, unsaved, answered, tears, copied>>

\* A change of the owner's; a bound keeps their number finite.
Edit == turn = Idle /\ edits < MaxEdits /\ edits' = edits + 1

\* updateCode() with a limit, revokeCode() with FALSE: the count of uses never exceeds
\* the limit.
UpdateCode(c, limit, enabled) ==
  /\ Edit
  /\ codes[c] # None
  /\ LET max == MaxUses(limit)
         used == Least(codes[c].usedCount, max)
     IN /\ codes' = [codes EXCEPT ![c] = [maxUses |-> max, usedCount |-> used, enabled |-> enabled]]
        /\ clamped' = IF used < codes[c].usedCount THEN clamped \cup {c} ELSE clamped
  /\ turn' = Saving("edit")
  /\ UNCHANGED <<accounts, fileVars, failures, kills, issued, made, unsaved, answered, tears, copied>>

DeleteCode(c) ==
  /\ Edit
  /\ codes[c] # None
  /\ codes' = [codes EXCEPT ![c] = None]
  /\ turn' = Saving("edit")
  /\ UNCHANGED <<accounts, fileVars, failures, kills, ghosts, tears, copied>>

DeleteUser(u) ==
  /\ Edit
  /\ accounts[u] # None
  /\ accounts' = [accounts EXCEPT ![u] = None]
  /\ answered' = answered \ {u}
  /\ turn' = Saving("account")
  /\ UNCHANGED <<codes, fileVars, failures, kills, issued, clamped, made, unsaved, tears, copied>>

\* Any other change of an account, and every login, saves all accounts too.
UpdateUser ==
  /\ Edit
  /\ accounts # NoAccounts
  /\ turn' = Saving("account")
  /\ UNCHANGED <<codes, accounts, fileVars, failures, kills, ghosts, tears, copied>>

-----------------------------------------------------------------------------
(* consumeCodeForRegistration().                                           *)

Usable(c) ==
  /\ codes[c] # None
  /\ codes[c].enabled
  /\ codes[c].usedCount < codes[c].maxUses

WithUses(c, count) == [codes EXCEPT ![c].usedCount = count]

\* The slip leaves the counting for later.
CountLater(c) == codes
Count(c) == WithUses(c, codes[c].usedCount + 1)

\* The use is counted before the account exists.  An expired code, which could be
\* refused here at any time, changes nothing.
Reserve(c, u) ==
  /\ turn = Idle
  /\ Usable(c)
  /\ codes' = Count(c)
  /\ turn' = [save |-> "reserve", code |-> c, user |-> u, previous |-> codes[c].usedCount]
  /\ UNCHANGED <<accounts, fileVars, counts, ghosts, tears, copied>>

\* save() of either store that succeeds; a backup that was not copied counts as a failure.
Save(f, doc, result) ==
  \/ /\ result = Written(BackedUp(f), doc)
     /\ UNCHANGED <<failures, copied>>
  \/ /\ failures < MaxFailures
     /\ result \in {Written(b, doc) : b \in BackupFails(f)}
     /\ failures' = failures + 1
     /\ copied' = FALSE

\* save() that reports an error.
SaveError(f, result) ==
  /\ failures < MaxFailures
  /\ failures' = failures + 1
  /\ \/ result \in NotWritten(BackedUp(f)) /\ UNCHANGED copied
     \/ (\E b \in BackupFails(f) : result \in NotWritten(b)) /\ copied' = FALSE

Mended == IF tears = 1 THEN 0 ELSE tears
Torn == Least(tears + 1, 2)

CodesSaved == Save(codesFile, codes, codesFile') /\ UNCHANGED <<accountsFile, tears>>
CodesNotSaved == SaveError(codesFile, codesFile') /\ UNCHANGED <<accountsFile, tears>>
AccountsSaved ==
  Save(accountsFile, accounts, accountsFile') /\ tears' = Mended /\ UNCHANGED codesFile
AccountsNotSaved ==
  SaveError(accountsFile, accountsFile') /\ tears' = Torn /\ UNCHANGED codesFile

\* The reservation is saved: createUser() adds the account, unless the name is taken.
\* The slip forgets to give the use back.
KeepUse == codes
GiveBack == WithUses(turn.code, turn.previous)

Reserved ==
  /\ turn.save = "reserve"
  /\ CodesSaved
  /\ IF accounts[turn.user] = None
     THEN /\ accounts' = [accounts EXCEPT ![turn.user] = turn.code]
          /\ turn' = [turn EXCEPT !.save = "create"]
          /\ UNCHANGED codes
     ELSE /\ codes' = GiveBack
          /\ turn' = [turn EXCEPT !.save = "restore"]
          /\ UNCHANGED accounts
  /\ UNCHANGED <<edits, kills, ghosts>>

\* The account is saved; the code notes who used it.
Created ==
  /\ turn.save = "create"
  /\ AccountsSaved
  /\ made' = [made EXCEPT ![turn.code] = @ + 1]
  /\ turn' = [turn EXCEPT !.save = "confirm"]
  /\ UNCHANGED <<codes, accounts, edits, kills, issued, clamped, unsaved, answered>>

\* The account could not be saved: it stays in memory all the same.
CreateFails ==
  /\ turn.save = "create"
  /\ AccountsNotSaved
  /\ codes' = GiveBack
  /\ unsaved' = unsaved \cup {turn.user}
  /\ turn' = [turn EXCEPT !.save = "restore"]
  /\ UNCHANGED <<accounts, edits, kills, issued, clamped, made, answered>>

Confirmed ==
  /\ turn.save = "confirm"
  /\ CodesSaved
  /\ answered' = answered \cup {turn.user}
  /\ turn' = Idle
  /\ UNCHANGED <<codes, accounts, edits, kills, issued, clamped, made, unsaved>>

\* The last save of any other request.
Finished ==
  /\ turn' = Idle
  /\ \/ turn.save \in {"restore", "edit"} /\ CodesSaved
     \/ turn.save = "account" /\ AccountsSaved
  /\ UNCHANGED <<codes, accounts, edits, kills, ghosts>>

\* A request ends with an error: what it changed in memory stays changed.
Fails ==
  /\ turn' = Idle
  /\ \/ turn.save \in SavesCodes /\ CodesNotSaved
     \/ turn.save = "account" /\ AccountsNotSaved
  /\ UNCHANGED <<codes, accounts, edits, kills, ghosts>>

-----------------------------------------------------------------------------
\* load() of both services.
Load ==
  /\ codes' = Loaded(codesFile', NoCodes)
  /\ accounts' = Loaded(accountsFile', NoAccounts)

\* The server is killed, perhaps in the middle of a save, and starts again.
KillAndRestart ==
  /\ kills < MaxKills
  /\ kills' = kills + 1
  /\ turn' = Idle
  /\ IF turn.save \in SavesCodes
     THEN codesFile' \in Interrupted(codesFile, codes)
     ELSE UNCHANGED codesFile
  /\ IF turn.save \in SavesAccounts
     THEN accountsFile' \in Interrupted(accountsFile, accounts) /\ tears' = Torn
     ELSE UNCHANGED <<accountsFile, tears>>
  /\ Load
  /\ UNCHANGED <<edits, failures, ghosts, copied>>

OwnerSteps ==
  \/ \E c \in Codes, limit \in Limits : CreateCode(c, limit)
  \/ \E c \in Codes, limit \in Limits, enabled \in BOOLEAN : UpdateCode(c, limit, enabled)
  \/ \E c \in Codes : DeleteCode(c)
  \/ \E u \in Users : DeleteUser(u)
  \/ UpdateUser

RegisterSteps ==
  \/ \E c \in Codes, u \in Users : Reserve(c, u)
  \/ Reserved \/ Created \/ CreateFails \/ Confirmed

\* The server waits for the next request.
Wait == turn = Idle /\ UNCHANGED vars

Next == OwnerSteps \/ RegisterSteps \/ Finished \/ Fails \/ KillAndRestart \/ Wait

Spec == Init /\ [][Next]_vars

-----------------------------------------------------------------------------
MadeWith(doc, c) == {u \in Users : doc[u] = c}
\* No account of these two documents came for free: each code counts at least the
\* accounts made with it, but for users whose own save had failed.
Spent(codesDoc, accountsDoc) ==
  \A c \in Codes \ clamped :
    codesDoc[c] # None
      => Cardinality(MadeWith(accountsDoc, c) \ unsaved) <= codesDoc[c].usedCount

\* Wherever the server is killed, and whichever of the two saves fails, a use that
\* made an account stays spent: in memory, and in what the next start reads from the
\* two files - unless a backup was not copied (signup-code-service.js:298: the
\* reservation is saved before the account exists).
UsesAreSpent ==
  copied => /\ Spent(codes, accounts)
            /\ Spent(Loaded(codesFile, NoCodes), Loaded(accountsFile, NoAccounts))

\* A registration that is refused gives its use back: while nothing failed, a code has
\* counted exactly the accounts it made (signup-code-service.js:306).
UsesAreReturned ==
  turn = Idle /\ failures = 0 /\ kills = 0
    => \A c \in Codes \ clamped : codes[c] # None => codes[c].usedCount = made[c]

\* A user who was told that the registration succeeded is there after any restart, if
\* no two saves of the accounts in a row were cut off: the save after a cut-off
\* one copies the broken file over the backup (account-service.js:65).
AnsweredUsersSurvive ==
  copied /\ tears < 2
    => \A u \in answered : accounts[u] # None /\ Loaded(accountsFile, NoAccounts)[u] # None

\* A code makes no more accounts than the owner allowed (signup-code-service.js:298:
\* "so a one-time code cannot be consumed twice").
NoExtraAccounts ==
  \A c \in Codes \ clamped :
    codes[c] # None => Cardinality(MadeWith(accounts, c)) <= codes[c].maxUses
=============================================================================
