----------------------------- MODULE JobOutcome -----------------------------
(***************************************************************************)
(* What publishing one job promises (central/kernel/publishing.py, PB1 to  *)
(* PB9): an asker is told at once that the job failed and is not to be     *)
(* asked for yet, or else gets an outcome recorded after it asked, however *)
(* often workers die in between.                                           *)
(***************************************************************************)
CONSTANT Handles   \* those who publish the job and wait for it

VARIABLES
  latest,  \* the job's latest outcome: "none", "ok", "transient" or "terminal"
  asks     \* what became of each handle

promise == <<latest, asks>>

Init ==
  /\ latest = "none"
  /\ asks = [h \in Handles |-> "new"]

\* The job is on its way, or has failed and is settled without it.
Ask(h) ==
  /\ asks[h] = "new"
  /\ asks' = [asks EXCEPT ![h] = "owed"]
  /\ UNCHANGED latest

Settle(h) ==
  /\ asks[h] = "new" /\ latest \in {"transient", "terminal"}
  /\ asks' = [asks EXCEPT ![h] = "settled"]
  /\ UNCHANGED latest

\* An outcome is recorded: whoever asked before it may have it.
Record(status) ==
  /\ latest' = status
  /\ asks' = [h \in Handles |-> IF asks[h] = "owed" THEN "served" ELSE asks[h]]

Answer(h) ==
  /\ asks[h] = "served"
  /\ asks' = [asks EXCEPT ![h] = "answered"]
  /\ UNCHANGED latest

Statuses == {"ok", "transient", "terminal"}

Next ==
  \/ \E h \in Handles : Ask(h) \/ Settle(h) \/ Answer(h)
  \/ \E status \in Statuses : Record(status)

Serve == (\E h \in Handles : asks[h] = "owed") /\ \E status \in Statuses : Record(status)

\* What never happens; Spec adds what must.
Safety == Init /\ [][Next]_promise

Spec ==
  /\ Safety
  /\ WF_promise(Serve)
  /\ \A h \in Handles : WF_promise(Answer(h))
==============================================================================
