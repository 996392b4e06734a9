----------------------------- MODULE JsonFileStore -----------------------------
(***************************************************************************)
(* A JSON document kept in a primary file and its .bak                     *)
(* (server/repositories/json-file-store.js).                               *)
(*                                                                         *)
(* A write is four asynchronous file operations: create the directory,     *)
(* write a temporary file, copy the primary over the backup, rename the    *)
(* temporary file over the primary.  Its caller's callback runs at the end *)
(* and is part of the same action in the modules that extend this one.     *)
(*                                                                         *)
(* A document is its number, in the order in which documents were made;    *)
(* 0 is the fallback a load yields when it finds no readable file.         *)
(***************************************************************************)
EXTENDS Naturals

CONSTANTS Absent, Bad  \* no file; a file that JSON.parse rejects

ASSUME ContentAssumption == Absent \notin Nat /\ Bad \notin Nat /\ Absent # Bad

VARIABLES primary, bak,
          step,  \* the next file operation of the write under way
          body   \* what it writes

storeVars == <<primary, bak, step, body>>

Contents == Nat \cup {Absent, Bad}
Steps == {"idle", "tmp", "copy", "rename"}

StoreTypeOK ==
  /\ primary \in Contents
  /\ bak \in Contents
  /\ step \in Steps
  /\ body \in Nat

StoreInit ==
  /\ primary = Absent
  /\ bak = Absent
  /\ step = "idle"
  /\ body = 0

Readable(c) == c \in Nat

\* What loadJsonWithBackup finds now.  Slip: a file that exists is taken.
FromBackup == ~Readable(primary) /\ Readable(bak)
LoadableIfExists == IF primary # Absent THEN primary ELSE IF Readable(bak) THEN bak ELSE 0
Loadable == IF Readable(primary) THEN primary ELSE IF Readable(bak) THEN bak ELSE 0

\* atomicWriteJson is called.
Begin(v) == step' = "tmp" /\ body' = v

\* mkdir and writeFile succeed.
WriteTmp ==
  /\ step = "tmp"
  /\ step' = "copy"
  /\ UNCHANGED <<primary, bak, body>>

\* What copyFile, whose error is ignored, makes of the backup: without a primary
\* nothing; a failure keeps it or removes it.
Copy == IF primary = Absent THEN {bak} ELSE {primary, bak, Absent}

CopyBackup ==
  /\ step = "copy"
  /\ bak' \in Copy
  /\ step' = "rename"
  /\ UNCHANGED <<primary, body>>

\* The write is over, with or without an error; Begin may follow at once.
Renamed == step = "rename" /\ primary' = body /\ UNCHANGED bak
Failed  == step \in {"tmp", "rename"} /\ UNCHANGED <<primary, bak>>
Over    == step' = "idle" /\ UNCHANGED body

\* The primary after the process was killed.  Slip: it was written in place.
PrimaryTorn == IF step = "rename" THEN {primary, Bad} ELSE {primary}
PrimaryKept == {primary}

\* The process is killed; a copy it was making is torn.
Killed ==
  /\ primary' \in PrimaryKept
  /\ bak' \in IF step = "copy" /\ primary # Absent THEN Copy \cup {Bad} ELSE {bak}
  /\ Over

\* The file system loses the primary, which nobody had synced.
Damaged ==
  /\ primary # Bad
  /\ primary' = Bad
  /\ UNCHANGED <<bak, step, body>>
=============================================================================
