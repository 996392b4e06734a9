---------------------------- MODULE BoundedExecutor ----------------------------
(***************************************************************************)
(* What runTask() promises its callers: a FIFO line in front of Capacity   *)
(* slots.  A task runs at once while a slot is free, a freed slot goes to  *)
(* the head of the line in the same step, and a task settles once.  The    *)
(* specification knows no threads, events, idle workers or timers.         *)
(***************************************************************************)
EXTENDS Naturals, FiniteSets, SequencesExt

CONSTANTS Tasks, Capacity

VARIABLES phase,  \* where each task is
          line,   \* waiting tasks, oldest first
          open    \* the executor accepts tasks

vars == <<phase, line, open>>

Outcomes == {"resolved", "failed", "aborted"}
Running  == {t \in Tasks : phase[t] = "running"}

Init ==
  /\ phase = [t \in Tasks |-> "new"]
  /\ line = <<>>
  /\ open = TRUE

\* A slot is free: nobody waits, the task runs at once.
Start(t) ==
  /\ open
  /\ phase[t] = "new"
  /\ Cardinality(Running) < Capacity
  /\ phase' = [phase EXCEPT ![t] = "running"]
  /\ UNCHANGED <<line, open>>

Wait(t) ==
  /\ open
  /\ phase[t] = "new"
  /\ Cardinality(Running) = Capacity
  /\ phase' = [phase EXCEPT ![t] = "queued"]
  /\ line' = Append(line, t)
  /\ UNCHANGED open

Refuse(t) ==
  /\ phase[t] = "new"
  /\ phase' = [phase EXCEPT ![t] = IF open THEN "aborted" ELSE "failed"]
  /\ UNCHANGED <<line, open>>

Withdraw(t) ==
  /\ phase[t] = "queued"
  /\ phase' = [phase EXCEPT ![t] = "aborted"]
  /\ line' = RemoveFirst(line, t)
  /\ UNCHANGED open

\* A running task settles with outcome o and hands its slot on.
Settle(t, o) ==
  /\ phase[t] = "running"
  /\ IF line = <<>>
     THEN /\ phase' = [phase EXCEPT ![t] = o]
          /\ line' = line
     ELSE /\ phase' = [phase EXCEPT ![t] = o, ![Head(line)] = "running"]
          /\ line' = Tail(line)
  /\ UNCHANGED open

\* The caller of a running task gives it up.
Cancel(t) == Settle(t, "aborted")

\* Only a closed executor drops a running task by itself.
Finish(t) ==
  \/ Settle(t, "resolved")
  \/ Settle(t, "failed")
  \/ ~open /\ Settle(t, "aborted")

Shut ==
  /\ open
  /\ open' = FALSE
  /\ phase' = [t \in Tasks |-> IF phase[t] = "queued" THEN "aborted" ELSE phase[t]]
  /\ line' = <<>>

Next ==
  \/ \E t \in Tasks : Start(t) \/ Wait(t) \/ Refuse(t) \/ Withdraw(t) \/ Cancel(t) \/ Finish(t)
  \/ Shut

Spec == Init /\ [][Next]_vars
=============================================================================
