------------------------------ MODULE InPlaceFile ------------------------------
(***************************************************************************)
(* A JSON document that is written in place: the account store and the     *)
(* store of sign-up codes (save() of account-service.js and                *)
(* signup-code-service.js) copy the file to its .bak and then overwrite    *)
(* it, both synchronously.  A write that fails or is cut off by a kill     *)
(* leaves a file nobody can parse.                                         *)
(***************************************************************************)

CONSTANTS Absent, Bad  \* no file; a file that JSON.parse rejects

File(docs) == [main : docs \cup {Absent, Bad}, bak : docs \cup {Absent, Bad}]
NewFile == [main |-> Absent, bak |-> Absent]

\* loadJsonWithBackup() with the empty document to fall back on.
Loaded(f, empty) ==
  IF f.main \notin {Absent, Bad} THEN f.main
  ELSE IF f.bak \notin {Absent, Bad} THEN f.bak
  ELSE empty

\* copyFileSync to the backup, whatever the file holds.  Its error is ignored: the
\* old backup stays, or is gone.  The slip makes no backup.
NotBackedUp(f) == f
BackedUp(f) == IF f.main = Absent THEN f ELSE [f EXCEPT !.bak = f.main]
BackupFails(f) == IF f.main = Absent THEN {} ELSE {f, [f EXCEPT !.bak = Absent]}

\* writeFileSync: complete, or refused, or cut off after the file was truncated.
Written(f, doc) == [f EXCEPT !.main = doc]
NotWritten(f) == {f, [f EXCEPT !.main = Bad]}

\* What a kill during a save leaves, wherever it strikes.
Interrupted(f, doc) ==
  {f, Written(BackedUp(f), doc)}
    \cup (IF f.main = Absent THEN {} ELSE {[f EXCEPT !.bak = Bad]})
    \cup NotWritten(BackedUp(f))
=============================================================================
