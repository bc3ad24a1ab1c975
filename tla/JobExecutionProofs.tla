------------------------- MODULE JobExecutionProofs -------------------------
(***************************************************************************)
(* What JobExecution promises, for any number of workers and publishers,   *)
(* any backoff and any bounds.                                             *)
(*                                                                         *)
(* The argument: only a fetch clears the pending copy, and it leaves a row *)
(* that promises in its place.  A rescue closes a row only after it made a *)
(* pending copy, so another copy than the row it closes stands (CloseSafe).*)
(* While an asset fetch runs nothing is fetched, so a copy its redelivery  *)
(* found or made is still pending (CopyWaits).                             *)
(***************************************************************************)
EXTENDS JobExecution, TLAPS

SomeoneOwed == \E h \in Handles : Owed(h)

\* The row a rescue is about to close is not the only copy of an owed job.
CloseSafe ==
  rescue.step = "close" /\ rescue.open /\ SomeoneOwed =>
    todo # NoCopy \/ \E s \in Slots \ {rescue.slot} : Promising(s)

\* An asset fetch that merged its redelivery finds the copy still pending.
CopyWaits ==
  exclusive =>
    \A s \in Slots : run[s].row /\ run[s].step = "carry" => todo # NoCopy

Copied == OwedHasCopy /\ BackoffIsKept /\ CloseSafe /\ CopyWaits

JobInv == JobTypeOK /\ Copied

-----------------------------------------------------------------------------
(* What the operators return *)

USE RetryAssumption, JobBounds

Copies == [attempt : 0..Retry, left : 0..MaxWait]
States == {"new", "asked", "waiting", "settled", "answered"}

LEMMA NoCopyIsNone == NoCopy \notin Copies
  BY DEF NoCopy, Copies

LEMMA DeferredIsCopy ==
  ASSUME JobTypeOK, NEW attempt \in 0..Retry, NEW left \in 0..MaxWait
  PROVE  /\ Deferred(attempt, left) \in Copies
         /\ Deferred(attempt, left) # NoCopy
         /\ todo # NoCopy => Deferred(attempt, left) = todo
         /\ todo = NoCopy => Deferred(attempt, left).attempt = attempt
  BY NoCopyIsNone DEF JobTypeOK, Deferred, Copies

LEMMA CarriedIsCopy ==
  ASSUME JobTypeOK, NEW attempt \in 0..Retry
  PROVE  /\ todo = NoCopy => Carried(attempt) = NoCopy
         /\ todo # NoCopy => /\ Carried(attempt) \in Copies
                             /\ Carried(attempt) # NoCopy
                             /\ Carried(attempt).attempt >= todo.attempt
                             /\ Carried(attempt).attempt >= attempt
  BY NoCopyIsNone DEF JobTypeOK, Carried, Copies

LEMMA BegunIsDelivery ==
  ASSUME JobTypeOK, todo # NoCopy
  PROVE  /\ Begun \in Deliveries /\ Begun.row /\ Begun.live
         /\ Begun.step \in {"handle", "redeliver"}
  BY DEF JobTypeOK, Begun, Deliveries, Steps

LEMMA IdleHasNothing == ~Idle.row /\ ~Idle.live /\ Idle.step = "idle" /\ Idle.left = 0
  BY DEF Idle

\* What a slot holds is idle, or a delivery that is there.
LEMMA SlotType ==
  ASSUME JobTypeOK, NEW s \in Slots
  PROVE  /\ run[s] = Idle \/ (run[s] \in Deliveries /\ (run[s].row \/ run[s].live))
         /\ run[s].live \/ run[s].row => run[s] \in Deliveries
         /\ run[s].step = "idle" => run[s] = Idle
  BY IdleHasNothing DEF JobTypeOK, Deliveries, Steps

-----------------------------------------------------------------------------
(* Types *)

LEMMA InitType == JobInit => JobTypeOK
  BY NoCopyIsNone DEF JobInit, JobTypeOK, Idle, NoOutcome, NoRescue, Deliveries

\* A delivery moves on to another step, with another count and another wait.
Moved(d, step, left, attempt) ==
  [d EXCEPT !.step = step, !.left = left, !.attempt = attempt]

LEMMA MovedOn ==
  ASSUME NEW d \in Deliveries, NEW step \in Steps, NEW left \in 0..MaxWait,
         NEW attempt \in 0..Retry
  PROVE  /\ Moved(d, step, left, attempt) \in Deliveries
         /\ Moved(d, step, left, attempt).row = d.row
         /\ Moved(d, step, left, attempt).live = d.live
         /\ Moved(d, step, left, attempt).step = step
         /\ Moved(d, step, left, attempt).attempt = attempt
  BY DEF Deliveries, Moved

\* A slot that changes to a delivery, or to nothing, keeps the table's type.
LEMMA RunType ==
  ASSUME JobTypeOK, NEW s \in Slots, NEW d \in Deliveries \cup {Idle},
         d # Idle => d.row \/ d.live
  PROVE  [run EXCEPT ![s] = d] \in [Slots -> {Idle} \cup {x \in Deliveries : x.row \/ x.live}]
  BY DEF JobTypeOK

\* The outcome is newer, and the delivery goes on to its redelivery or its end.
LEMMA SettleMoves ==
  ASSUME JobTypeOK, NEW s \in Slots, Settles(s)
  PROVE  /\ run' \in [Slots -> {Idle} \cup {x \in Deliveries : x.row \/ x.live}]
         /\ run'[s].row = run[s].row /\ run'[s].step \in {"redeliver", "finish"}
         /\ \A t \in Slots \ {s} : run'[t] = run[t]
         /\ outcome' \in [seq : Nat, status : {"ok", "transient", "terminal"},
                         left : 0..MaxWait]
         /\ outcome'.seq = outcome.seq + 1
         /\ UNCHANGED <<exclusive, todo, handle, entry, rescue, extras, upsets>>
  <1> PICK status \in {"ok", "transient", "terminal"}, left \in 0..MaxWait :
        Settle(s, status, left)
    BY DEF Settles
  <1>1. run[s] \in Deliveries /\ run[s].live
    BY SlotType DEF Settle, At
  <1>4. /\ outcome' \in [seq : Nat, status : {"ok", "transient", "terminal"},
                        left : 0..MaxWait]
        /\ outcome'.seq = outcome.seq + 1
        /\ UNCHANGED <<exclusive, todo, handle, entry, rescue, extras, upsets>>
    BY DEF Settle, JobTypeOK, asking
  <1>2. CASE status = "transient" /\ MoreAttempts(run[s].attempt)
    <2> DEFINE d == Moved(run[s], "redeliver", left, run[s].attempt + 1)
    <2>1. run[s].attempt + 1 \in 0..Retry /\ "redeliver" \in Steps
      BY <1>1, <1>2 DEF Deliveries, Steps, MoreAttempts
    <2>2. d \in Deliveries /\ d.live /\ d.row = run[s].row /\ d.step = "redeliver"
      BY <1>1, <2>1, MovedOn
    <2>3. run' = [run EXCEPT ![s] = d]
      BY <1>2 DEF Settle, Moved
    <2> QED BY <1>4, <2>2, <2>3, RunType DEF JobTypeOK
  <1>3. CASE ~(status = "transient" /\ MoreAttempts(run[s].attempt))
    <2> DEFINE d == [run[s] EXCEPT !.step = "finish"]
    <2>1. d \in Deliveries /\ d.live /\ d.row = run[s].row /\ d.step = "finish"
      BY <1>1 DEF Deliveries, Steps
    <2>2. run' = [run EXCEPT ![s] = d]
      BY <1>3 DEF Settle
    <2> QED BY <1>4, <2>1, <2>2, RunType DEF JobTypeOK
  <1> QED BY <1>2, <1>3, <1>4

\* What an action does to one slot: it goes on to a delivery with the same row, or
\* the row and the process that held it are gone.
SlotMoves(s) ==
  /\ run' \in [Slots -> {Idle} \cup {x \in Deliveries : x.row \/ x.live}]
  /\ \A t \in Slots \ {s} : run'[t] = run[t]

LEMMA RedeliverMoves ==
  ASSUME JobTypeOK, NEW s \in Slots, Redeliver(s)
  PROVE  /\ SlotMoves(s) /\ run'[s].row = run[s].row /\ run[s].step = "redeliver"
         /\ run'[s].step = IF todo = NoCopy THEN "requeued" ELSE "carry"
         /\ run'[s].attempt = run[s].attempt /\ run[s].attempt \in 0..Retry
         /\ run[s].left \in 0..MaxWait
  <1>1. run[s] \in Deliveries /\ run[s].live /\ run[s].step = "redeliver"
    BY SlotType DEF Redeliver, At
  <1> DEFINE step == IF todo = NoCopy THEN "requeued" ELSE "carry"
             d == Moved(run[s], step, 0, run[s].attempt)
  <1>3. run' = [run EXCEPT ![s] = d]
    BY <1>1 DEF Redeliver, Moved, JobTypeOK, Deliveries
  <1>2. /\ d \in Deliveries /\ d.row = run[s].row /\ d.live = run[s].live
        /\ d.step = step /\ d.attempt = run[s].attempt
    <2>1. step \in Steps /\ 0 \in 0..MaxWait /\ run[s].attempt \in 0..Retry
      BY <1>1 DEF Steps, Deliveries
    <2> HIDE DEF step
    <2> QED BY <1>1, <2>1 DEF Moved, Deliveries
  <1>4. run[s].attempt \in 0..Retry /\ run[s].left \in 0..MaxWait
    BY <1>1 DEF Deliveries
  <1> QED BY <1>1, <1>2, <1>3, <1>4, RunType DEF JobTypeOK, SlotMoves

LEMMA CarryMoves ==
  ASSUME JobTypeOK, NEW s \in Slots, Carry(s)
  PROVE  /\ SlotMoves(s) /\ run'[s].row = run[s].row /\ run[s].step = "carry"
         /\ run'[s].step = "requeued"
         /\ run'[s].attempt = run[s].attempt /\ run[s].attempt \in 0..Retry
  <1>1. run[s] \in Deliveries /\ run[s].live /\ run[s].step = "carry"
    BY SlotType DEF Carry, At
  <1> DEFINE d == [run[s] EXCEPT !.step = "requeued"]
  <1>2. /\ d \in Deliveries /\ d.row = run[s].row /\ d.live = run[s].live
        /\ d.step = "requeued" /\ d.attempt = run[s].attempt
        /\ run[s].attempt \in 0..Retry
    BY <1>1 DEF Deliveries, Steps
  <1>3. run' = [run EXCEPT ![s] = d]
    BY DEF Carry
  <1> QED BY <1>1, <1>2, <1>3, RunType DEF JobTypeOK, SlotMoves

\* A process that dies, and a heartbeat that is late, leave row, step and count.
LEMMA UpsetMoves ==
  ASSUME JobTypeOK, NEW s \in Slots, Crash(s) \/ Lapse(s)
  PROVE  /\ SlotMoves(s)
         /\ run[s].row => /\ run'[s].row /\ run'[s].step = run[s].step
                          /\ run'[s].attempt = run[s].attempt
         /\ ~run[s].row => ~run'[s].row
  <1>1. run[s] \in Deliveries /\ run[s].live
    BY SlotType DEF Crash, Lapse
  <1>2. CASE Crash(s) /\ ~run[s].row
    <2>1. run' = [run EXCEPT ![s] = Idle]
      BY <1>2 DEF Crash
    <2> QED BY <1>2, <2>1, RunType, IdleHasNothing DEF JobTypeOK, SlotMoves
  <1>3. CASE Crash(s) /\ run[s].row
    <2> DEFINE d == [run[s] EXCEPT !.live = FALSE, !.beats = FALSE]
    <2>1. d \in Deliveries /\ d.row /\ d.step = run[s].step /\ d.attempt = run[s].attempt
      BY <1>1, <1>3 DEF Deliveries
    <2>2. run' = [run EXCEPT ![s] = d]
      BY <1>3 DEF Crash
    <2> QED BY <1>3, <2>1, <2>2, RunType DEF JobTypeOK, SlotMoves
  <1>4. CASE Lapse(s)
    <2> DEFINE d == [run[s] EXCEPT !.beats = FALSE]
    <2>1. d \in Deliveries /\ d.row /\ d.step = run[s].step /\ d.attempt = run[s].attempt
      BY <1>1, <1>4 DEF Deliveries, Lapse
    <2>2. run' = [run EXCEPT ![s] = d]
      BY <1>4 DEF Lapse
    <2> QED BY <1>4, <2>1, <2>2, RunType DEF JobTypeOK, SlotMoves, Lapse
  <1> QED BY <1>2, <1>3, <1>4

\* The rescue's close takes the row and leaves the process, if it lives.
LEMMA CloseMoves ==
  ASSUME JobTypeOK, RescueCloses, rescue.open
  PROVE  rescue.slot \in Slots /\ SlotMoves(rescue.slot) /\ ~run'[rescue.slot].row
  <1>1. rescue.slot \in Slots /\ run[rescue.slot].row
    BY DEF JobTypeOK, RescueCloses, NoRescue, Rescues
  <1> DEFINE s == rescue.slot
  <1>2. run[s] \in Deliveries
    BY <1>1, SlotType
  <1>3. CASE run[s].live
    <2> DEFINE d == [run[s] EXCEPT !.row = FALSE]
    <2>1. d \in Deliveries /\ d.live /\ ~d.row
      BY <1>2, <1>3 DEF Deliveries
    <2>2. run' = [run EXCEPT ![s] = d]
      BY <1>3 DEF RescueCloses
    <2> QED BY <1>1, <2>1, <2>2, RunType DEF JobTypeOK, SlotMoves
  <1>4. CASE ~run[s].live
    <2>1. run' = [run EXCEPT ![s] = Idle]
      BY <1>4 DEF RescueCloses
    <2> QED BY <1>1, <2>1, RunType, IdleHasNothing DEF JobTypeOK, SlotMoves
  <1> QED BY <1>3, <1>4

LEMMA PassesMoves ==
  ASSUME JobTypeOK, Passes
  PROVE  /\ run' \in [Slots -> {Idle} \cup {x \in Deliveries : x.row \/ x.live}]
         /\ \A s \in Slots : /\ run'[s].row = run[s].row /\ run'[s].step = run[s].step
                             /\ run'[s].attempt = run[s].attempt
         /\ todo = NoCopy => todo' = NoCopy
         /\ todo # NoCopy => /\ todo' \in Copies /\ todo' # NoCopy
                             /\ todo'.attempt = todo.attempt
         /\ outcome' \in [seq : Nat, status : {"none", "ok", "transient", "terminal"},
                         left : 0..MaxWait]
         /\ outcome'.seq = outcome.seq /\ outcome'.status = outcome.status
  <1>1. \A n \in 0..MaxWait : Less(n) \in 0..MaxWait
    BY DEF Less
  <1>2. ASSUME NEW s \in Slots
        PROVE  /\ run'[s] \in {Idle} \cup {x \in Deliveries : x.row \/ x.live}
               /\ run'[s].row = run[s].row /\ run'[s].step = run[s].step
               /\ run'[s].attempt = run[s].attempt
    <2>1. run'[s] = [run[s] EXCEPT !.left = Less(run[s].left)]
      BY DEF Passes
    <2>2. CASE run[s] = Idle
      BY <2>1, <2>2 DEF Idle, Less
    <2>3. CASE run[s] \in Deliveries /\ (run[s].row \/ run[s].live)
      BY <1>1, <2>1, <2>3 DEF Deliveries
    <2> QED BY <2>2, <2>3, SlotType
  <1>3. run' = [s \in Slots |-> run'[s]]
    BY DEF Passes
  <1>4. /\ todo = NoCopy => todo' = NoCopy
        /\ todo # NoCopy => /\ todo' \in Copies /\ todo' # NoCopy
                            /\ todo'.attempt = todo.attempt
    BY <1>1, NoCopyIsNone DEF Passes, JobTypeOK, Copies
  <1>5. /\ outcome' \in [seq : Nat, status : {"none", "ok", "transient", "terminal"},
                        left : 0..MaxWait]
        /\ outcome'.seq = outcome.seq /\ outcome'.status = outcome.status
    BY <1>1 DEF Passes, JobTypeOK
  <1> QED BY <1>2, <1>3, <1>4, <1>5

\* Every step keeps the types.
LEMMA TypeStep == JobTypeOK /\ [JobNext]_jobVars => JobTypeOK'
  <1> SUFFICES ASSUME JobTypeOK, [JobNext]_jobVars PROVE JobTypeOK'
    OBVIOUS
  <1> USE DEF queue, asking
  <1>1. ASSUME NEW s \in Slots, Fetch(s) PROVE JobTypeOK'
    <2>1. run' \in [Slots -> {Idle} \cup {x \in Deliveries : x.row \/ x.live}]
      BY <1>1, BegunIsDelivery, RunType DEF Fetch
    <2>2. rescue' = NoRescue \/ rescue' \in {r \in Rescues : r.open => run'[r.slot].row}
      BY <1>1, IdleHasNothing DEF Fetch, JobTypeOK, Rescues
    <2> QED BY <1>1, <2>1, <2>2 DEF Fetch, JobTypeOK
  <1>2. ASSUME NEW s \in Slots, Settles(s) PROVE JobTypeOK'
    <2>1. rescue' = NoRescue \/ rescue' \in {r \in Rescues : r.open => run'[r.slot].row}
      BY <1>2, SettleMoves DEF JobTypeOK, Rescues
    <2>2. 0..outcome.seq \subseteq 0..outcome'.seq
      BY <1>2, SettleMoves DEF JobTypeOK
    <2> QED BY <1>2, <2>1, <2>2, SettleMoves DEF JobTypeOK
  <1>3. ASSUME NEW s \in Slots, Redeliver(s) PROVE JobTypeOK'
    <2>1. rescue' = NoRescue \/ rescue' \in {r \in Rescues : r.open => run'[r.slot].row}
      BY <1>3, RedeliverMoves DEF JobTypeOK, Rescues, Redeliver, SlotMoves
    <2>2. todo' \in Copies
      BY <1>3, RedeliverMoves, DeferredIsCopy DEF Redeliver
    <2> QED BY <1>3, <2>1, <2>2, RedeliverMoves DEF JobTypeOK, Redeliver, SlotMoves, Copies
  <1>4. ASSUME NEW s \in Slots, Carry(s) PROVE JobTypeOK'
    <2>1. rescue' = NoRescue \/ rescue' \in {r \in Rescues : r.open => run'[r.slot].row}
      BY <1>4, CarryMoves DEF JobTypeOK, Rescues, Carry, SlotMoves
    <2>2. todo' = NoCopy \/ todo' \in Copies
      BY <1>4, CarryMoves, CarriedIsCopy DEF Carry
    <2> QED BY <1>4, <2>1, <2>2, CarryMoves DEF JobTypeOK, Carry, SlotMoves, Copies
  <1>5. ASSUME NEW s \in Slots, Finish(s) PROVE JobTypeOK'
    <2>1. run' \in [Slots -> {Idle} \cup {x \in Deliveries : x.row \/ x.live}]
      BY <1>5, RunType DEF Finish
    <2>2. rescue' = NoRescue \/ rescue' \in {r \in Rescues : r.open => run'[r.slot].row}
      BY <1>5 DEF Finish, Gone, JobTypeOK, Rescues, NoRescue
    <2> QED BY <1>5, <2>1, <2>2 DEF Finish, JobTypeOK
  <1>6. ASSUME NEW s \in Slots, Crash(s) \/ Lapse(s) PROVE JobTypeOK'
    <2>1. /\ run' \in [Slots -> {Idle} \cup {x \in Deliveries : x.row \/ x.live}]
          /\ \A t \in Slots : run[t].row => run'[t].row
      BY <1>6, UpsetMoves DEF SlotMoves
    <2>2. /\ upsets' \in Nat
          /\ UNCHANGED <<exclusive, todo, outcome, handle, entry, rescue, extras>>
      BY <1>6 DEF Crash, Lapse, JobTypeOK
    <2>3. rescue' = NoRescue \/ rescue' \in {r \in Rescues : r.open => run'[r.slot].row}
      BY <2>1, <2>2 DEF JobTypeOK, Rescues
    <2> QED BY <2>1, <2>2, <2>3 DEF JobTypeOK
  <1>7. ASSUME NEW s \in Slots, RescueFinds(s) PROVE JobTypeOK'
    <2>1. run[s].attempt \in 0..Retry
      BY <1>7, SlotType DEF RescueFinds, Deliveries
    <2> QED BY <1>7, <2>1 DEF RescueFinds, JobTypeOK, Rescues
  <1>8. CASE RescueRepublishes
    <2>1. rescue \in Rescues /\ (rescue.open => run[rescue.slot].row)
      BY <1>8 DEF RescueRepublishes, JobTypeOK, NoRescue
    <2>2. todo' \in Copies
      BY <1>8, <2>1, DeferredIsCopy DEF RescueRepublishes, Republish, Rescues
    <2> QED BY <1>8, <2>1, <2>2 DEF RescueRepublishes, JobTypeOK, Rescues, Copies
  <1>9. CASE RescueCloses
    BY <1>9, CloseMoves DEF RescueCloses, JobTypeOK, SlotMoves
  <1>10. CASE RescueStops
    BY <1>10 DEF RescueStops, JobTypeOK
  <1>11. ASSUME NEW h \in Handles, Publish(h) PROVE JobTypeOK'
    <2>1. todo' = NoCopy \/ todo' \in Copies
      BY <1>11, DeferredIsCopy DEF Publish, JobTypeOK, Copies
    <2> QED BY <1>11, <2>1 DEF Publish, JobTypeOK, Copies
  <1>12. ASSUME NEW h \in Handles, Wait(h) PROVE JobTypeOK'
    BY <1>12 DEF Wait, JobTypeOK
  <1>13. ASSUME NEW h \in Handles, Answer(h) PROVE JobTypeOK'
    BY <1>13 DEF Answer, JobTypeOK
  <1>14. ASSUME NEW n \in 1..outcome.seq, Offer(n) PROVE JobTypeOK'
    BY <1>14 DEF Offer, Newer, JobTypeOK
  <1>15. CASE Request
    <2>1. todo' \in Copies
      BY <1>15, DeferredIsCopy DEF Request
    <2> QED BY <1>15, <2>1 DEF Request, JobTypeOK, Copies
  <1>16. CASE Passes
    <2>1. rescue' = NoRescue \/ rescue' \in {r \in Rescues : r.open => run'[r.slot].row}
      BY <1>16, PassesMoves DEF Passes, JobTypeOK, Rescues
    <2>2. todo' = NoCopy \/ todo' \in Copies
      BY <1>16, PassesMoves DEF Passes
    <2> QED BY <1>16, <2>1, <2>2, PassesMoves DEF Passes, JobTypeOK, Copies
  <1>17. CASE UNCHANGED jobVars
    BY <1>17 DEF jobVars, JobTypeOK
  <1> QED BY <1>1, <1>2, <1>3, <1>4, <1>5, <1>6, <1>7, <1>8, <1>9, <1>10, <1>11, <1>12,
             <1>13, <1>14, <1>15, <1>16, <1>17 DEF JobNext

-----------------------------------------------------------------------------
(* The copies *)

\* Nobody is newly owed where neither a handle nor the outcome's sequence changes.
LEMMA OwedSame ==
  ASSUME UNCHANGED handle, outcome'.seq = outcome.seq
  PROVE  SomeoneOwed' <=> SomeoneOwed
  BY DEF SomeoneOwed, Owed

\* A pending copy that stays pending, and counts no less, is all that is asked for
\* where no row changes step and none is about to be closed that was not.
LEMMA CopyStays ==
  ASSUME JobTypeOK, Copied, todo' # NoCopy,
         todo # NoCopy => todo'.attempt >= todo.attempt /\ todo'.attempt \in Nat,
         UNCHANGED <<exclusive, run>>
  PROVE  Copied'
  <1>1. OwedHasCopy' /\ CloseSafe' /\ CopyWaits'
    BY DEF OwedHasCopy, CloseSafe, CopyWaits
  <1>2. BackoffIsKept'
    <2> SUFFICES ASSUME exclusive, NEW s \in Slots, run[s].row, run[s].step = "requeued"
                 PROVE  todo'.attempt >= run[s].attempt
      BY DEF BackoffIsKept
    <2>1. run[s].attempt \in Nat
      BY SlotType DEF Deliveries
    <2>2. todo # NoCopy /\ todo.attempt >= run[s].attempt
      BY DEF Copied, BackoffIsKept
    <2>3. todo.attempt \in Nat
      BY <2>2 DEF JobTypeOK
    <2> QED BY <2>1, <2>2, <2>3
  <1> QED BY <1>1, <1>2 DEF Copied

\* Nothing is lost where the pending copy and the rows stay, with their steps and
\* counts, but for rows that promise nothing and a rescue that is given up.
LEMMA CopiedKept ==
  ASSUME Copied, SomeoneOwed' => SomeoneOwed, UNCHANGED exclusive,
         todo' = NoCopy <=> todo = NoCopy,
         todo # NoCopy => todo'.attempt = todo.attempt,
         \A s \in Slots : /\ run'[s].row => /\ run[s].row /\ run'[s].step = run[s].step
                                            /\ run'[s].attempt = run[s].attempt
                          /\ Promising(s) => run'[s].row,
         rescue'.step = "close" /\ rescue'.open => rescue' = rescue
  PROVE  Copied'
  <1>1. \A s \in Slots : Promising(s) => Promising(s)'
    BY DEF Promising
  <1>2. OwedHasCopy'
    BY <1>1 DEF Copied, OwedHasCopy, SomeoneOwed
  <1>3. CloseSafe'
    BY <1>1 DEF Copied, CloseSafe
  <1>4. BackoffIsKept' /\ CopyWaits'
    BY DEF Copied, BackoffIsKept, CopyWaits
  <1> QED BY <1>2, <1>3, <1>4 DEF Copied

\* No step leaves an owed job without a copy, or a redelivery without its backoff.
LEMMA CopyStep == JobTypeOK /\ Copied /\ [JobNext]_jobVars => Copied'
  <1> SUFFICES ASSUME JobTypeOK, Copied, [JobNext]_jobVars PROVE Copied'
    OBVIOUS
  <1> USE DEF queue, asking
  <1>1. ASSUME NEW s \in Slots, Fetch(s) PROVE Copied'
    <2>1. /\ run[s] = Idle /\ run' = [run EXCEPT ![s] = Begun] /\ todo' = NoCopy
          /\ exclusive => \A t \in Slots : ~run[t].row
          /\ UNCHANGED <<exclusive, outcome, handle, rescue>>
      BY <1>1 DEF Fetch
    <2>2. run'[s] = Begun /\ \A t \in Slots \ {s} : run'[t] = run[t]
      BY <2>1 DEF JobTypeOK
    <2>3. Promising(s)'
      BY <1>1, <2>2, BegunIsDelivery DEF Promising, Fetch
    <2>4. rescue.step = "close" /\ rescue.open => rescue.slot # s
      BY <2>1, IdleHasNothing DEF JobTypeOK, NoRescue, Rescues
    <2>5. OwedHasCopy' /\ CloseSafe'
      BY <2>1, <2>3, <2>4 DEF OwedHasCopy, CloseSafe
    <2>6. exclusive => \A t \in Slots : ~(run'[t].row /\ run'[t].step \in {"requeued", "carry"})
      BY <1>1, <2>1, <2>2, BegunIsDelivery DEF Fetch
    <2> QED BY <2>1, <2>5, <2>6 DEF Copied, BackoffIsKept, CopyWaits
  <1>2. ASSUME NEW s \in Slots, Settles(s) PROVE Copied'
    <2>1. ~SomeoneOwed'
      BY <1>2, SettleMoves DEF SomeoneOwed, Owed, JobTypeOK
    <2>2. OwedHasCopy' /\ CloseSafe'
      BY <2>1 DEF OwedHasCopy, CloseSafe, SomeoneOwed
    <2>3. BackoffIsKept' /\ CopyWaits'
      BY <1>2, SettleMoves DEF Copied, BackoffIsKept, CopyWaits
    <2> QED BY <2>2, <2>3 DEF Copied
  <1>3. ASSUME NEW s \in Slots, Redeliver(s) PROVE Copied'
    <2>1. /\ todo' \in Copies /\ todo' # NoCopy
          /\ todo # NoCopy => todo' = todo
          /\ todo = NoCopy => todo'.attempt = run[s].attempt
      BY <1>3, RedeliverMoves, DeferredIsCopy DEF Redeliver
    <2>2. OwedHasCopy' /\ CloseSafe' /\ CopyWaits'
      BY <2>1 DEF OwedHasCopy, CloseSafe, CopyWaits
    <2>3. BackoffIsKept'
      <3> SUFFICES ASSUME exclusive, NEW t \in Slots, run'[t].row, run'[t].step = "requeued"
                   PROVE  todo'.attempt >= run'[t].attempt
        BY <1>3, <2>1 DEF BackoffIsKept, Redeliver
      <3>1. CASE t = s
        BY <1>3, <2>1, <3>1, RedeliverMoves
      <3>2. CASE t # s
        BY <1>3, <2>1, <3>2, RedeliverMoves DEF SlotMoves, Copied, BackoffIsKept
      <3> QED BY <3>1, <3>2
    <2> QED BY <2>2, <2>3 DEF Copied
  <1>4. ASSUME NEW s \in Slots, Carry(s) PROVE Copied'
    <2>1. /\ UNCHANGED <<exclusive, rescue, handle, outcome>>
          /\ todo = NoCopy => todo' = NoCopy
          /\ todo # NoCopy => /\ todo' # NoCopy /\ todo' \in Copies
                              /\ todo'.attempt >= todo.attempt
                              /\ todo'.attempt >= run[s].attempt
      BY <1>4, CarryMoves, CarriedIsCopy DEF Carry
    <2>2. \A t \in Slots : Promising(t)' <=> Promising(t)
      BY <1>4, CarryMoves DEF SlotMoves, Promising
    <2>3. OwedHasCopy' /\ CloseSafe'
      BY <2>1, <2>2, OwedSame DEF Copied, OwedHasCopy, CloseSafe, SomeoneOwed
    <2>4. CopyWaits'
      BY <1>4, <2>1, CarryMoves DEF SlotMoves, Copied, CopyWaits
    <2>5. BackoffIsKept'
      <3> SUFFICES ASSUME exclusive, NEW t \in Slots, run'[t].row, run'[t].step = "requeued"
                   PROVE  todo' # NoCopy /\ todo'.attempt >= run'[t].attempt
        BY <2>1 DEF BackoffIsKept
      <3>1. CASE t = s
        BY <1>4, <2>1, <3>1, CarryMoves DEF Copied, CopyWaits
      <3>2. CASE t # s
        <4>1. run'[t] = run[t] /\ todo # NoCopy /\ todo.attempt >= run[t].attempt
          BY <1>4, <3>2, CarryMoves DEF SlotMoves, Copied, BackoffIsKept
        <4>2. run[t].attempt \in Nat /\ todo.attempt \in Nat
          BY <4>1, SlotType DEF Deliveries, JobTypeOK
        <4> QED BY <2>1, <4>1, <4>2 DEF Copies
      <3> QED BY <3>1, <3>2
    <2> QED BY <2>3, <2>4, <2>5 DEF Copied
  <1>5. ASSUME NEW s \in Slots, Finish(s) PROVE Copied'
    <2>1. /\ run' = [run EXCEPT ![s] = Idle] /\ run[s].step \in {"requeued", "finish"}
          /\ UNCHANGED <<exclusive, todo, handle, outcome>> /\ rescue' = Gone(s)
      BY <1>5 DEF Finish, At
    <2>2. \A t \in Slots : /\ run'[t].row => /\ run[t].row /\ run'[t].step = run[t].step
                                             /\ run'[t].attempt = run[t].attempt
                           /\ Promising(t) => run'[t].row
      BY <2>1, IdleHasNothing DEF JobTypeOK, Promising
    <2>3. rescue'.step = "close" /\ rescue'.open => rescue' = rescue
      BY <2>1 DEF Gone, JobTypeOK, Rescues
    <2>4. SomeoneOwed' => SomeoneOwed
      BY <2>1, OwedSame
    <2> QED BY <2>1, <2>2, <2>3, <2>4, CopiedKept
  <1>6. ASSUME NEW s \in Slots, Crash(s) \/ Lapse(s) PROVE Copied'
    <2>1. UNCHANGED <<exclusive, todo, handle, outcome, rescue>>
      BY <1>6 DEF Crash, Lapse
    <2>2. \A t \in Slots : /\ run'[t].row => /\ run[t].row /\ run'[t].step = run[t].step
                                             /\ run'[t].attempt = run[t].attempt
                           /\ Promising(t) => run'[t].row
      BY <1>6, UpsetMoves DEF SlotMoves, Promising
    <2>3. SomeoneOwed' => SomeoneOwed
      BY <2>1, OwedSame
    <2> QED BY <2>1, <2>2, <2>3, CopiedKept
  <1>7. ASSUME NEW s \in Slots, RescueFinds(s) PROVE Copied'
    <2>1. UNCHANGED <<exclusive, todo, run, handle, outcome>> /\ rescue'.step = "republish"
      BY <1>7 DEF RescueFinds
    <2> QED BY <2>1, OwedSame, CopiedKept DEF Promising
  <1>8. CASE RescueRepublishes
    <2>1. rescue \in Rescues
      BY <1>8 DEF RescueRepublishes, JobTypeOK, NoRescue
    <2>2. /\ todo' \in Copies /\ todo' # NoCopy
          /\ todo # NoCopy => todo' = todo
      BY <1>8, <2>1, DeferredIsCopy DEF RescueRepublishes, Republish, Rescues
    <2> QED BY <1>8, <2>2, CopyStays DEF RescueRepublishes, Copies, JobTypeOK
  <1>9. CASE RescueCloses
    <2>1. UNCHANGED <<exclusive, todo, handle, outcome>> /\ rescue' = NoRescue
      BY <1>9 DEF RescueCloses
    <2>2. CASE rescue.open
      <3>1. /\ rescue.slot \in Slots /\ ~run'[rescue.slot].row
            /\ \A t \in Slots \ {rescue.slot} : run'[t] = run[t]
        BY <1>9, <2>2, CloseMoves DEF SlotMoves
      <3>2. OwedHasCopy'
        BY <1>9, <2>1, <2>2, <3>1, OwedSame
           DEF RescueCloses, Copied, OwedHasCopy, CloseSafe, SomeoneOwed, Promising
      <3>3. BackoffIsKept' /\ CopyWaits' /\ CloseSafe'
        BY <2>1, <3>1 DEF Copied, BackoffIsKept, CopyWaits, CloseSafe, NoRescue
      <3> QED BY <3>2, <3>3 DEF Copied
    <2>3. CASE ~rescue.open
      <3>1. UNCHANGED run
        BY <1>9, <2>3 DEF RescueCloses
      <3> QED BY <2>1, <3>1, OwedSame, CopiedKept DEF Promising, NoRescue
    <2> QED BY <2>2, <2>3
  <1>10. CASE RescueStops
    <2>1. UNCHANGED <<exclusive, todo, run, handle, outcome>> /\ rescue' = NoRescue
      BY <1>10 DEF RescueStops
    <2> QED BY <2>1, OwedSame, CopiedKept DEF Promising, NoRescue
  <1>11. ASSUME NEW h \in Handles, Publish(h) PROVE Copied'
    <2>1. UNCHANGED <<exclusive, run, outcome, rescue>>
      BY <1>11 DEF Publish
    <2>2. CASE todo' = Deferred(0, 0)
      <3>1. /\ todo' \in Copies /\ todo' # NoCopy
            /\ todo # NoCopy => todo' = todo
        BY <2>2, DeferredIsCopy
      <3> QED BY <2>1, <3>1, CopyStays DEF Copies, JobTypeOK
    <2>3. CASE handle' = [handle EXCEPT ![h].state = "settled"] /\ UNCHANGED todo
      <3>1. SomeoneOwed' => SomeoneOwed
        BY <2>1, <2>3 DEF SomeoneOwed, Owed, JobTypeOK
      <3> QED BY <2>1, <2>3, <3>1 DEF Copied, OwedHasCopy, BackoffIsKept, CloseSafe,
                 CopyWaits, SomeoneOwed, Promising
    <2> QED BY <1>11, <2>2, <2>3 DEF Publish
  <1>12. ASSUME NEW h \in Handles, Wait(h) \/ Answer(h) PROVE Copied'
    <2>1. UNCHANGED <<exclusive, todo, run, outcome, rescue>>
      BY <1>12 DEF Wait, Answer
    <2>2. SomeoneOwed' => SomeoneOwed
      <3>1. CASE Wait(h)
        BY <3>1 DEF SomeoneOwed, Owed, JobTypeOK, Wait
      <3>2. CASE Answer(h)
        BY <3>2 DEF SomeoneOwed, Owed, JobTypeOK, Answer
      <3> QED BY <1>12, <3>1, <3>2
    <2> QED BY <2>1, <2>2 DEF Copied, OwedHasCopy, BackoffIsKept, CloseSafe,
               CopyWaits, SomeoneOwed, Promising
  <1>13. ASSUME NEW n \in 1..outcome.seq, Offer(n) PROVE Copied'
    <2>1. UNCHANGED <<exclusive, todo, run, outcome, rescue, handle>>
      BY <1>13 DEF Offer
    <2> QED BY <2>1, OwedSame, CopiedKept DEF Promising
  <1>14. CASE Request
    <2>1. /\ todo' \in Copies /\ todo' # NoCopy
          /\ todo # NoCopy => todo' = todo
      BY <1>14, DeferredIsCopy DEF Request
    <2> QED BY <1>14, <2>1, CopyStays DEF Request, Copies, JobTypeOK
  <1>15. CASE Passes
    <2>1. UNCHANGED <<exclusive, handle, rescue>> /\ outcome'.seq = outcome.seq
      BY <1>15, PassesMoves DEF Passes
    <2>2. /\ todo' = NoCopy <=> todo = NoCopy
          /\ todo # NoCopy => todo'.attempt = todo.attempt
      BY <1>15, PassesMoves
    <2>3. \A s \in Slots : /\ run'[s].row = run[s].row /\ run'[s].step = run[s].step
                          /\ run'[s].attempt = run[s].attempt
      BY <1>15, PassesMoves
    <2> QED BY <2>1, <2>2, <2>3, OwedSame, CopiedKept DEF Promising
  <1>16. CASE UNCHANGED jobVars
    BY <1>16, OwedSame, CopiedKept DEF jobVars, Promising
  <1> QED BY <1>1, <1>2, <1>3, <1>4, <1>5, <1>6, <1>7, <1>8, <1>9, <1>10, <1>11, <1>12,
             <1>13, <1>14, <1>15, <1>16 DEF JobNext

-----------------------------------------------------------------------------
(* What follows *)

LEMMA InitCopied == JobInit => Copied
  BY NoCopyIsNone, IdleHasNothing
     DEF JobInit, Copied, OwedHasCopy, BackoffIsKept, CloseSafe, CopyWaits, Owed, NoRescue

LEMMA JobInvariance == JobSpec => []JobInv
  <1>1. JobInit => JobInv
    BY InitType, InitCopied DEF JobInv
  <1>2. JobInv /\ [JobNext]_jobVars => JobInv'
    BY TypeStep, CopyStep DEF JobInv
  <1> QED BY <1>1, <1>2, PTL DEF JobSpec

\* The tables of one job hold what their rows can hold (JobTypeOK): a row a rescue is
\* busy with included, which it reads before it publishes and closes after.
THEOREM JobTypes == JobSpec => []JobTypeOK
  BY JobInvariance, PTL DEF JobInv

\* While a publisher is owed an outcome a copy of the job is pending or held by a row
\* that is rescued should its worker die (OwedHasCopy): the rescue's order, a new copy
\* first, then the close, with any number of crashes and of rescues in between.
THEOREM NoCopyLost == JobSpec => []OwedHasCopy
  BY JobInvariance, PTL DEF JobInv, Copied

\* An asset fetch that asked for its redelivery counts on from there, whichever copy
\* the redelivery merged into (BackoffIsKept; _redeliver and carry_attempt_async).
THEOREM BackoffCarried == JobSpec => []BackoffIsKept
  BY JobInvariance, PTL DEF JobInv, Copied

-----------------------------------------------------------------------------
(* The promise to publishers *)

Asks(h) ==
  IF handle[h].state \notin {"asked", "waiting"} THEN handle[h].state
  ELSE IF Owed(h) THEN "owed" ELSE "served"

LEMMA PromiseInit == JobInit => Promise!Init
  BY DEF JobInit, NoOutcome, Promise!Init

\* Every step of one job is a step of the promise, or leaves it as it is.
LEMMA PromiseStep ==
  JobTypeOK /\ JobTypeOK' /\ [JobNext]_jobVars => [Promise!Next]_(Promise!promise)
  <1> SUFFICES ASSUME JobTypeOK, JobTypeOK', [JobNext]_jobVars
               PROVE  [Promise!Next]_(Promise!promise)
    OBVIOUS
  <1> USE DEF queue, asking
  <1> DEFINE asks == [h \in Handles |-> Asks(h)]
  <1>a. ASSUME UNCHANGED handle, outcome'.seq = outcome.seq,
               outcome'.status = outcome.status
        PROVE  UNCHANGED Promise!promise
    BY <1>a DEF Promise!promise, Owed
  <1>1. ASSUME NEW s \in Slots, Settles(s) PROVE Promise!Next
    <2>1. outcome'.status \in Promise!Statuses
      BY <1>1, SettleMoves DEF Promise!Statuses
    <2>2. ASSUME NEW h \in Handles
          PROVE  Asks(h)' = IF Asks(h) = "owed" THEN "served" ELSE Asks(h)
      <3>1. handle' = handle /\ outcome'.seq = outcome.seq + 1
        BY <1>1, SettleMoves
      <3>2. /\ outcome.seq \in Nat /\ handle[h].since \in 0..outcome.seq
            /\ handle[h].state \in States
        BY DEF JobTypeOK, States
      <3> QED BY <3>1, <3>2 DEF Asks, Owed, States
    <2>3. Promise!Record(outcome'.status)
      BY <2>2 DEF Promise!Record, Asks, Owed
    <2> QED BY <2>1, <2>3 DEF Promise!Next, Promise!Record
  <1>2. ASSUME NEW h \in Handles, Publish(h) PROVE Promise!Next
    <2>1. /\ outcome' = outcome /\ handle[h].state = "new"
          /\ \A g \in Handles \ {h} : handle'[g] = handle[g]
      BY <1>2 DEF Publish, JobTypeOK
    <2>2. CASE handle' = [handle EXCEPT ![h] = [state |-> "asked", since |-> outcome.seq]]
      <3>1. handle'[h].state = "asked" /\ handle'[h].since = outcome.seq
        BY <2>2 DEF JobTypeOK
      <3>2. asks' = [asks EXCEPT ![h] = "owed"] /\ asks[h] = "new"
        BY <2>1, <3>1 DEF Asks, Owed
      <3>3. Promise!Ask(h)
        BY <2>1, <3>2 DEF Promise!Ask, Asks
      <3> QED BY <3>3 DEF Promise!Next
    <2>3. CASE handle' = [handle EXCEPT ![h].state = "settled"]
               /\ \E retryTerminal \in BOOLEAN : Refused(retryTerminal)
      <3>1. handle'[h].state = "settled"
        BY <2>3 DEF JobTypeOK
      <3>2. asks' = [asks EXCEPT ![h] = "settled"] /\ asks[h] = "new"
        BY <2>1, <3>1 DEF Asks, Owed
      <3>3. outcome.status \in {"transient", "terminal"}
        BY <2>3 DEF Refused
      <3>4. Promise!Settle(h)
        BY <2>1, <3>2, <3>3 DEF Promise!Settle, Asks
      <3> QED BY <3>4 DEF Promise!Next
    <2> QED BY <1>2, <2>2, <2>3 DEF Publish
  <1>3. ASSUME NEW h \in Handles, Wait(h) PROVE UNCHANGED Promise!promise
    <2>1. /\ outcome' = outcome /\ handle[h].state = "asked" /\ handle'[h].state = "waiting"
          /\ handle'[h].since = handle[h].since
          /\ \A g \in Handles \ {h} : handle'[g] = handle[g]
      BY <1>3 DEF Wait, JobTypeOK
    <2>2. \A g \in Handles : Asks(g)' = Asks(g)
      BY <2>1 DEF Asks, Owed
    <2> QED BY <2>1, <2>2 DEF Promise!promise, Asks, Owed
  <1>4. ASSUME NEW h \in Handles, Answer(h) PROVE Promise!Next
    <2>1. /\ outcome' = outcome /\ handle[h].state = "waiting"
          /\ handle[h].since # outcome.seq /\ handle'[h].state = "answered"
          /\ \A g \in Handles \ {h} : handle'[g] = handle[g]
      BY <1>4 DEF Answer, Waiting, JobTypeOK
    <2>2. asks' = [asks EXCEPT ![h] = "answered"] /\ asks[h] = "served"
      BY <2>1 DEF Asks, Owed
    <2>3. Promise!Answer(h)
      BY <2>1, <2>2 DEF Promise!Answer, Asks
    <2> QED BY <2>3 DEF Promise!Next
  <1>5. CASE Passes
    BY <1>a, <1>5, PassesMoves DEF Passes
  <1>6. CASE UNCHANGED <<handle, outcome>>
    BY <1>a, <1>6
  <1> QED
    BY <1>1, <1>2, <1>3, <1>4, <1>5, <1>6
       DEF JobNext, Fetch, Redeliver, Carry, Finish, Crash, Lapse, RescueFinds,
           RescueRepublishes, RescueCloses, RescueStops, Offer, Request, jobVars

\* Whatever one job does is allowed by the promise to its publishers (the safety part of
\* ImplementsOutcome; PB1 to PB9): a handle is settled only while the stored outcome
\* says so, and answered only with an outcome recorded after it asked.  That it is
\* answered in the end stays with the run.
THEOREM KeepsPromise == JobSpec => Promise!Safety
  <1>1. JobSpec => []JobTypeOK
    BY JobTypes
  <1>2. JobTypeOK /\ JobTypeOK' /\ [JobNext]_jobVars => [Promise!Next]_(Promise!promise)
    BY PromiseStep
  <1> QED BY <1>1, <1>2, PromiseInit, PTL DEF JobSpec, Promise!Safety

=============================================================================
