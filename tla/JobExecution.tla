---------------------------- MODULE JobExecution ----------------------------
(***************************************************************************)
(* One job of the content runtime (central/infra): its copies in the       *)
(* queue, the workers that run them and die, the rescue of what dead       *)
(* workers held, its outcome row, and those who publish it and wait.       *)
(*                                                                         *)
(* Times are what is left of them, so the clock needs no bound.  A slot is *)
(* a delivery: it is taken until its row is closed and its process is done *)
(* with it.  A wait that times out may begin again, so it is left out, and *)
(* so are the purges, which take rows a week and a month old.              *)
(***************************************************************************)
EXTENDS Naturals

CONSTANTS
  Slots,       \* deliveries that run at once
  Handles,     \* those who publish the job and wait
  Retry,       \* the job's backoff delays
  MaxWait,     \* bound: how long a retry window may be
  MaxExtras,   \* bound: those who publish it and do not wait, and rescues that die
  MaxUpsets    \* bound: processes that die, and heartbeats a living one is late with

ASSUME RetryAssumption == Retry \in Nat /\ MaxWait \in Nat \ {0}
ASSUME JobBounds == MaxExtras \in Nat /\ MaxUpsets \in Nat

VARIABLES
  exclusive,  \* whether the job is an asset fetch, and has a running lock
  todo,       \* the pending copy, at most one (queueing_lock)
  run,        \* the delivery in each slot
  outcome,    \* the job_outcomes row
  handle,     \* each publisher's handle
  entry,      \* the newest outcome the process's OutcomeFeed has for the waiters
  rescue,     \* the stalled row RescueStalledJobs is busy with
  extras, upsets

jobVars == <<exclusive, todo, run, outcome, handle, entry, rescue, extras, upsets>>
queue   == <<todo, run, rescue>>
asking  == <<handle, entry>>

-----------------------------------------------------------------------------

NoCopy == [attempt |-> 0, left |-> MaxWait + 1]
Idle   == [row |-> FALSE, live |-> FALSE, beats |-> FALSE, attempt |-> 0,
           step |-> "idle", left |-> 0]
NoOutcome == [seq |-> 0, status |-> "none", left |-> 0]
NoRescue  == [step |-> "none"]

Steps == {"handle", "redeliver", "carry", "requeued", "finish"}

Deliveries == [row : BOOLEAN, live : BOOLEAN, beats : BOOLEAN,
               attempt : 0..Retry, step : Steps, left : 0..MaxWait]
Rescues    == [step : {"republish", "close"}, slot : Slots, open : BOOLEAN,
               attempt : 0..Retry]

\* A copy is pending at most once; a slot holds a row or a process, or nothing; and
\* the row a rescue is busy with is still in its slot.
JobTypeOK ==
  /\ exclusive \in BOOLEAN
  /\ todo = NoCopy \/ todo \in [attempt : 0..Retry, left : 0..MaxWait]
  /\ run \in [Slots -> {Idle} \cup {d \in Deliveries : d.row \/ d.live}]
  /\ outcome \in [seq : Nat, status : {"none", "ok", "transient", "terminal"},
                  left : 0..MaxWait]
  /\ entry \in 0..outcome.seq
  /\ handle \in [Handles -> [state : {"new", "asked", "waiting", "settled", "answered"},
                             since : 0..outcome.seq]]
  /\ rescue = NoRescue \/ rescue \in {r \in Rescues : r.open => run[r.slot].row}
  /\ extras \in Nat /\ upsets \in Nat

\* job_queue.defer: merged into the pending copy when there is one.
Deferred(attempt, left) ==
  IF todo = NoCopy THEN [attempt |-> attempt, left |-> left] ELSE todo

\* A bug to catch: the pending copy keeps its own count, as a fresh request's.
Carried_Never(attempt) == todo

\* carry_attempt_async.
Carried(attempt) ==
  IF todo = NoCopy \/ todo.attempt >= attempt THEN todo ELSE [todo EXCEPT !.attempt = attempt]

-----------------------------------------------------------------------------
(* A delivery *)

\* Slots are alike: a delivery takes one of the free ones.
FreeSlot == CHOOSE s \in Slots : run[s] = Idle

\* execute reads the stored outcome first: a copy that comes before its retry is due
\* is asked for again as it is, and any other is handled.
Begun ==
  LET early == outcome.status = "transient" /\ outcome.left > 0
  IN [row |-> TRUE, live |-> TRUE, beats |-> TRUE, attempt |-> todo.attempt,
      step |-> IF early THEN "redeliver" ELSE "handle",
      left |-> IF early THEN outcome.left ELSE 0]

\* procrastinate_fetch_job: one running copy of an asset fetch.
Fetch(s) ==
  /\ run[s] = Idle /\ s = FreeSlot /\ todo # NoCopy /\ todo.left = 0
  /\ exclusive => \A t \in Slots : ~run[t].row
  /\ run' = [run EXCEPT ![s] = Begun]
  /\ todo' = NoCopy
  /\ UNCHANGED <<exclusive, outcome, asking, rescue, extras, upsets>>

At(s, step) == run[s].live /\ run[s].step = step

\* A bug to catch: the attempt after the last delay is retried as well.
MoreAttempts_OneTooMany(attempt) == attempt <= Retry

MoreAttempts(attempt) == attempt < Retry

\* The handler ends and its outcome is committed; only then is a retry asked for.
Settle(s, status, left) ==
  /\ At(s, "handle")
  /\ status # "transient" => left = 0
  /\ status = "transient" /\ MoreAttempts(run[s].attempt) => left > 0
  /\ outcome' = [seq |-> outcome.seq + 1, status |-> status, left |-> left]
  /\ run' = [run EXCEPT ![s] =
       IF status = "transient" /\ MoreAttempts(@.attempt)
         THEN [@ EXCEPT !.step = "redeliver", !.left = left, !.attempt = run[s].attempt + 1]
         ELSE [@ EXCEPT !.step = "finish"]]
  /\ UNCHANGED <<exclusive, todo, asking, rescue, extras, upsets>>

\* _redeliver: a copy of its own, or the pending one, whose count is then raised.
Redeliver(s) ==
  /\ At(s, "redeliver")
  /\ todo' = Deferred(run[s].attempt, run[s].left)
  /\ run' = [run EXCEPT ![s].step = IF todo = NoCopy THEN "requeued" ELSE "carry",
                        ![s].left = 0]
  /\ UNCHANGED <<exclusive, outcome, asking, rescue, extras, upsets>>

Carry(s) ==
  /\ At(s, "carry")
  /\ todo' = Carried(run[s].attempt)
  /\ run' = [run EXCEPT ![s].step = "requeued"]
  /\ UNCHANGED <<exclusive, outcome, asking, rescue, extras, upsets>>

\* The row a rescue is busy with is gone when its slot is done with it.
Gone(s) == IF rescue.step # "none" /\ rescue.slot = s THEN [rescue EXCEPT !.open = FALSE]
           ELSE rescue

\* finish_job; a row the rescue closed is left as it is (_CompletionGuard).
Finish(s) ==
  /\ At(s, "requeued") \/ At(s, "finish")
  /\ run' = [run EXCEPT ![s] = Idle]
  /\ rescue' = Gone(s)
  /\ UNCHANGED <<exclusive, todo, outcome, asking, extras, upsets>>

\* The process dies, or stops because its completion cannot be written.
Crash(s) ==
  /\ run[s].live /\ upsets < MaxUpsets
  /\ run' = [run EXCEPT ![s] = IF @.row THEN [@ EXCEPT !.live = FALSE, !.beats = FALSE]
                                        ELSE Idle]
  /\ upsets' = upsets + 1
  /\ UNCHANGED <<exclusive, todo, outcome, asking, rescue, extras>>

\* A living worker's heartbeat is late, so that it looks dead; one that comes again
\* before anyone has looked might as well have been on time.
Lapse(s) ==
  /\ run[s].live /\ run[s].row /\ run[s].beats /\ upsets < MaxUpsets
  /\ run' = [run EXCEPT ![s].beats = FALSE]
  /\ upsets' = upsets + 1
  /\ UNCHANGED <<exclusive, todo, outcome, asking, rescue, extras>>

-----------------------------------------------------------------------------
(* RescueStalledJobs: a new copy first, then the stalled row is closed *)

RescueFinds(s) ==
  /\ rescue = NoRescue /\ run[s].row /\ ~run[s].beats
  /\ rescue' = [step |-> "republish", slot |-> s, open |-> TRUE, attempt |-> run[s].attempt]
  /\ UNCHANGED <<exclusive, todo, run, outcome, asking, extras, upsets>>

\* A bug to catch: the stalled row is closed without a copy in its place.
Republish_Not == UNCHANGED todo

Republish == todo' = Deferred(rescue.attempt, 0)

RescueRepublishes ==
  /\ rescue.step = "republish"
  /\ Republish
  /\ rescue' = [rescue EXCEPT !.step = "close"]
  /\ UNCHANGED <<exclusive, run, outcome, asking, extras, upsets>>

\* A row no longer `doing` refuses the close; the next run looks again.
RescueCloses ==
  /\ rescue.step = "close"
  /\ run' = IF ~rescue.open THEN run
            ELSE [run EXCEPT ![rescue.slot] =
                    IF @.live THEN [@ EXCEPT !.row = FALSE] ELSE Idle]
  /\ rescue' = NoRescue
  /\ UNCHANGED <<exclusive, todo, outcome, asking, extras, upsets>>

\* The rescue's own worker dies half way.
RescueStops ==
  /\ rescue # NoRescue /\ extras < MaxExtras
  /\ rescue' = NoRescue
  /\ extras' = extras + 1
  /\ UNCHANGED <<exclusive, todo, run, outcome, asking, upsets>>

-----------------------------------------------------------------------------
(* Publishing and waiting *)

\* publish: settled at once inside a retry window and after a terminal outcome, else
\* a copy is pending and the handle is for what is newer than now.
Refused(retryTerminal) ==
  \/ outcome.status = "transient" /\ outcome.left > 0
  \/ outcome.status = "terminal" /\ ~retryTerminal

Publish(h) ==
  /\ handle[h].state = "new"
  /\ \E retryTerminal \in BOOLEAN :
       IF Refused(retryTerminal)
       THEN /\ handle' = [handle EXCEPT ![h].state = "settled"]
            /\ UNCHANGED todo
       ELSE /\ handle' = [handle EXCEPT ![h] = [state |-> "asked", since |-> outcome.seq]]
            /\ todo' = Deferred(0, 0)
  /\ UNCHANGED <<exclusive, run, outcome, entry, rescue, extras, upsets>>

\* A caller that lets its handle go.
Request ==
  /\ extras < MaxExtras /\ ~Refused(TRUE)
  /\ todo' = Deferred(0, 0)
  /\ extras' = extras + 1
  /\ UNCHANGED <<exclusive, run, outcome, asking, rescue, upsets>>

Waiting == {h \in Handles : handle[h].state = "waiting"}

\* wait_for registers before it reads.
Wait(h) ==
  /\ handle[h].state = "asked"
  /\ handle' = [handle EXCEPT ![h].state = "waiting"]
  /\ UNCHANGED <<exclusive, queue, outcome, entry, extras, upsets>>

\* A bug to catch: a read that comes late replaces a newer row.
Newer_Any(n) == n

\* _offer: a read that comes late never replaces a newer row.
Newer(n) == IF entry < n THEN n ELSE entry

\* A read for the waiters ends, told by a NOTIFY or not; begun earlier, it may have
\* found any row that has been.
Offer(n) ==
  /\ Waiting # {} /\ n \in 1..outcome.seq
  /\ entry' = Newer(n)
  /\ UNCHANGED <<exclusive, queue, outcome, handle, extras, upsets>>

\* The last waiter takes the entry with it.
Answer(h) ==
  /\ h \in Waiting /\ entry > handle[h].since
  /\ handle' = [handle EXCEPT ![h] = [state |-> "answered", since |-> 0]]
  /\ entry' = IF Waiting = {h} THEN 0 ELSE entry
  /\ UNCHANGED <<exclusive, queue, outcome, extras, upsets>>

\* Time passes.
Less(n) == IF n = 0 THEN 0 ELSE n - 1

Passes ==
  /\ outcome.left > 0 \/ todo.left \in 1..MaxWait \/ \E s \in Slots : run[s].left > 0
  /\ outcome' = [outcome EXCEPT !.left = Less(@)]
  /\ todo' = IF todo = NoCopy THEN todo ELSE [todo EXCEPT !.left = Less(@)]
  /\ run' = [s \in Slots |-> [run[s] EXCEPT !.left = Less(@)]]
  /\ UNCHANGED <<exclusive, asking, rescue, extras, upsets>>

-----------------------------------------------------------------------------

JobInit ==
  /\ exclusive \in BOOLEAN
  /\ todo = NoCopy /\ run = [s \in Slots |-> Idle] /\ outcome = NoOutcome
  /\ handle = [h \in Handles |-> [state |-> "new", since |-> 0]]
  /\ entry = 0 /\ rescue = NoRescue /\ extras = 0 /\ upsets = 0

Settles(s) == \E status \in {"ok", "transient", "terminal"}, left \in 0..MaxWait :
                Settle(s, status, left)

JobNext ==
  \/ \E s \in Slots : \/ Fetch(s) \/ Settles(s) \/ Redeliver(s) \/ Carry(s)
                      \/ Finish(s) \/ Crash(s) \/ Lapse(s) \/ RescueFinds(s)
  \/ RescueRepublishes \/ RescueCloses \/ RescueStops
  \/ \E h \in Handles : Publish(h) \/ Wait(h) \/ Answer(h)
  \/ \E n \in 1..outcome.seq : Offer(n)
  \/ Request \/ Passes

JobSpec == JobInit /\ [][JobNext]_jobVars

\* Workers that live go on, the rescue comes every minute, the feed rechecks every
\* second, and the clock runs: no more is needed than that one of them does.
JobGoesOn ==
  \/ \E s \in Slots : \/ Fetch(s) \/ Settles(s) \/ Redeliver(s) \/ Carry(s)
                      \/ Finish(s) \/ RescueFinds(s)
  \/ RescueRepublishes \/ RescueCloses
  \/ \E h \in Handles : Wait(h) \/ Answer(h)
  \/ Offer(outcome.seq) \/ Passes

JobFairness == WF_jobVars(JobGoesOn)

JobFairSpec == JobSpec /\ JobFairness

-----------------------------------------------------------------------------
(* Properties *)

Owed(h) == handle[h].state \in {"asked", "waiting"} /\ handle[h].since = outcome.seq

\* A row whose delivery has yet to record an outcome, or to put a copy in its place.
Promising(s) == run[s].row /\ run[s].step \in {"handle", "redeliver"}

\* "Closing first would open a window with no copy at all" (queue_ops.py): while a
\* publisher is owed an outcome a copy of the job is pending or held by a row that
\* is rescued should its worker die, whoever crashes between which two steps.
OwedHasCopy ==
  (\E h \in Handles : Owed(h)) => todo # NoCopy \/ \E s \in Slots : Promising(s)

\* "a redelivery that merged into a pending copy must not reset the backoff"
\* (carry_attempt_async): once an asset fetch has asked for its redelivery, and until
\* its row is closed, a copy is pending that counts on from it, also when the copy is
\* another publisher's.
BackoffIsKept ==
  exclusive =>
    \A s \in Slots :
      run[s].row /\ run[s].step = "requeued" =>
        todo # NoCopy /\ todo.attempt >= run[s].attempt

\* What JobOutcome speaks of, in this module's state.
Promise == INSTANCE JobOutcome WITH
  latest <- outcome.status,
  asks   <- [h \in Handles |->
               IF handle[h].state \notin {"asked", "waiting"} THEN handle[h].state
               ELSE IF Owed(h) THEN "owed" ELSE "served"]

\* PB1 to PB9 (kernel/publishing.py): a publisher is settled at once only while the
\* stored outcome says so, and otherwise is answered, in the end, with an outcome that
\* was recorded after it asked; crashes, late heartbeats and late reads included.
ImplementsOutcome == Promise!Spec
==============================================================================
