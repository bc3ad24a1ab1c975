--------------------------- MODULE ControlDelivery ---------------------------
(***************************************************************************)
(* The sequenced delivery of a Player's control State and its applied      *)
(* receipt: Central's `player_control_sessions` row (central/registry.py)  *)
(* against one Player process (player/service.py), which receives the same *)
(* State over several transports at once: the HTTP polls of its loops and  *)
(* one websocket.                                                          *)
(*                                                                         *)
(* A State's payload is abstracted to its digest, a member of Contents.    *)
(* Random tokens (delivery ids, nonces) are drawn from a counter that      *)
(* starts again in each epoch: less than what `secrets.token_hex` gives,   *)
(* whose values never come twice.                                          *)
(***************************************************************************)
EXTENDS Naturals, Sequences

CONSTANTS
  Contents,     \* the state digests Central may project
  NoContent,    \* the digest of no State
  Polls,        \* the Player's loops that poll: the control loop, and the
                \* observation loop when its feedback was refused as stale
  Socket,       \* the websocket's loop
  MaxQueue,     \* bound: States buffered in the websocket
  MaxChanges,   \* bound: changes of what Central projects
  MaxUpsets     \* bound: what nobody schedules: late ACKs, failed cycles, lost
                \* requests, restarts, other enrollments

ASSUME ContentsAssumption == Contents # {} /\ NoContent \notin Contents
ASSUME LoopsAssumption == Socket \notin Polls
ASSUME BoundsAssumption ==
  /\ MaxQueue \in Nat \ {0}
  /\ MaxChanges \in Nat
  /\ MaxUpsets \in Nat

VARIABLES
  epoch,      \* players.authority_epoch
  row,        \* the player_control_sessions row of that epoch
  content,    \* the digest of the State Central would project now
  minted,     \* random tokens drawn in this epoch
  session,    \* the Player's registration: its authority epoch, or NoSession
  located,    \* PlayerService._located
  hello,      \* PlayerService._hello_epoch
  highest,    \* _highest_control_sequence and _highest_control_delivery_id
  installed,  \* the State the Player's executor last took
  receipt,    \* _applied_proof_receipt
  grants,     \* per content: are its Commits new, taken or refused here
  task,       \* each transport's turn: the State in hand, its ACK, the answer
  inbox,      \* States on their way to each transport
  acks,       \* ACK requests Central has not served
  changes,    \* changes so far
  upsets      \* unscheduled events so far

centralVars == <<epoch, row, minted>>
playerVars  == <<session, located, hello, highest, installed, receipt, grants>>
wallVars    == <<content, changes>>
vars == <<centralVars, wallVars, playerVars, task, inbox, acks, upsets>>

-----------------------------------------------------------------------------

Loops     == Polls \cup {Socket}
Results   == {"applied", "rejected"}
NoSession == 0
NoId      == 0

NoPending == [id |-> NoId, digest |-> NoContent, live |-> FALSE]
NoApplied == [seq |-> 0, id |-> NoId, digest |-> NoContent]
NoLast    == [seq |-> 0, id |-> NoId, digest |-> NoContent, result |-> "none"]
NoState   == [epoch |-> 0, seq |-> 0, id |-> NoId, digest |-> NoContent]
NoReceipt == [epoch |-> 0, seq |-> 0, id |-> NoId, digest |-> NoContent,
              nonce |-> NoId]

\* Registry._reset_control: the row a fresh epoch opens with.
OpenRow == [status |-> "open", issued |-> 0, pending |-> NoPending,
            applied |-> NoApplied, last |-> NoLast, nonce |-> NoId]

IdleTask == [stage |-> "idle", state |-> NoState, result |-> "none",
             unrevised |-> FALSE, receipt |-> NoReceipt]

States   == [epoch : Nat, seq : Nat, id : Nat, digest : Contents \cup {NoContent}]
Receipts == [epoch : Nat, seq : Nat, id : Nat, digest : Contents \cup {NoContent},
             nonce : Nat]
Acks     == [loop : Loops, epoch : Nat, id : Nat, result : Results, live : BOOLEAN]
Rows     == [status  : {"open", "negotiated"},
             issued  : Nat,
             pending : [id : Nat, digest : Contents \cup {NoContent}, live : BOOLEAN],
             applied : [seq : Nat, id : Nat, digest : Contents \cup {NoContent}],
             last    : [seq : Nat, id : Nat, digest : Contents \cup {NoContent},
                        result : Results \cup {"none"}],
             nonce   : Nat]
Turns    == [stage : {"idle", "applied", "acking", "answered"}, state : States,
             result : Results \cup {"none"}, unrevised : BOOLEAN,
             receipt : Receipts]
Tasks    == {t \in Turns : t.stage = "applied" => t.result \in Results}

\* Every variable holds what the row, the service fields and the wire can hold.
TypeOK ==
  /\ epoch \in Nat /\ minted \in Nat /\ content \in Contents /\ upsets \in Nat /\ changes \in Nat
  /\ row \in Rows
  /\ session \in Nat /\ located \in BOOLEAN /\ hello \in Nat
  /\ highest \in [seq : Nat, id : Nat]
  /\ installed \in States
  /\ receipt \in Receipts
  /\ grants \in [Contents -> {"new", "taken", "refused"}]
  /\ task \in [Loops -> Tasks]
  /\ inbox \in [Loops -> Seq(States)]
  /\ acks \in SUBSET Acks

\* One of the bounded, unscheduled events.
Upset == upsets < MaxUpsets /\ upsets' = upsets + 1

-----------------------------------------------------------------------------
(* Central: central/registry.py *)

\* acceptance_evidence.applied_is_latest: nothing issued, pending or rejected
\* since the applied delivery.
AppliedIsLatest(r) ==
  /\ r.status = "negotiated"
  /\ r.pending.id = NoId
  /\ r.issued = r.applied.seq
  /\ r.last.seq = r.applied.seq
  /\ r.last.result = "applied"
  /\ r.last.id = r.applied.id
  /\ r.last.digest = r.applied.digest
  /\ r.nonce # NoId

\* acceptance_evidence.current_control_receipt_matches.
ReceiptMatches(c) ==
  /\ AppliedIsLatest(row)
  /\ c.epoch = epoch
  /\ c.id = row.applied.id
  /\ c.seq = row.applied.seq
  /\ c.digest = row.applied.digest
  /\ c.nonce = row.nonce

\* Registry.enroll's control part: a new epoch, negotiation open again. Every
\* token of the epoch before it stops authenticating.
OpenEpoch ==
  /\ epoch' = epoch + 1
  /\ row' = OpenRow
  /\ minted' = 0

Authentic(e) == e = epoch

\* Room on a transport: a poll has one request under way, the websocket a buffer.
CanReceive(l) ==
  IF l = Socket THEN Len(inbox[l]) < MaxQueue
                ELSE task[l].stage = "idle" /\ inbox[l] = <<>>

\* What every read of the State checks before it projects one (control_state).
Serving(l) ==
  /\ session # NoSession /\ located /\ hello = session
  /\ Authentic(session)
  /\ row.status = "negotiated"
  /\ CanReceive(l)

Deliver(l, seq, id, digest) ==
  inbox' = [inbox EXCEPT ![l] = Append(@, [epoch |-> epoch, seq |-> seq,
                                            id |-> id, digest |-> digest])]

\* A bug to catch: an expired challenge still stands.
PendingStands_Expired == row.pending.id # NoId /\ row.pending.digest = content

PendingStands == row.pending.id # NoId /\ row.pending.digest = content /\ row.pending.live

\* A bug to catch: what the Player already applied is challenged again.
Unchanged_Forgotten == FALSE

Unchanged == AppliedIsLatest(row) /\ row.applied.digest = content

\* A bug to catch: a new delivery under the sequence of the last one.
Issued_SameSequence(id) ==
  [row EXCEPT !.issued = IF @ = 0 THEN 1 ELSE @,
              !.pending = [id |-> id, digest |-> content, live |-> TRUE],
              !.nonce = NoId]

\* The row once delivery `id` of the State is issued.
Issued(id) ==
  [row EXCEPT !.issued = @ + 1,
              !.pending = [id |-> id, digest |-> content, live |-> TRUE],
              !.nonce = NoId]

\* The same pending challenge is sent again while the State has not changed.
ResendPending(l) ==
  /\ Serving(l)
  /\ PendingStands
  /\ Deliver(l, row.issued, row.pending.id, content)
  /\ UNCHANGED <<centralVars, wallVars, playerVars, task, acks, upsets>>

\* Unchanged since the Player applied it: the same delivery again.
ResendApplied(l) ==
  /\ Serving(l)
  /\ ~PendingStands
  /\ Unchanged
  /\ Deliver(l, row.applied.seq, row.applied.id, content)
  /\ UNCHANGED <<centralVars, wallVars, playerVars, task, acks, upsets>>

\* Anything else is a new delivery, which ends the applied one's currency.
IssueNew(l) ==
  /\ Serving(l)
  /\ ~PendingStands
  /\ ~Unchanged
  /\ minted' = minted + 1
  /\ row' = Issued(minted')
  /\ Deliver(l, row'.issued, minted', content)
  /\ UNCHANGED <<epoch, wallVars, playerVars, task, acks, upsets>>

\* 60 seconds pass.
PendingExpires ==
  /\ row.pending.live
  /\ Upset
  /\ row' = [row EXCEPT !.pending.live = FALSE]
  /\ UNCHANGED <<epoch, minted, wallVars, playerVars, task, inbox, acks>>

\* Plans, Commits, revocations or configuration change what Central projects.
ContentChanges ==
  /\ changes < MaxChanges
  /\ changes' = changes + 1
  /\ content' \in Contents \ {content}
  /\ UNCHANGED <<centralVars, playerVars, task, inbox, acks, upsets>>

\* The answer to one ACK, to the transport that still waits for it.
Answer(m, r) ==
  /\ acks' = acks \ {m}
  /\ task' = IF m.live
               THEN [task EXCEPT ![m.loop].stage = "answered",
                                 ![m.loop].receipt = r]
               ELSE task

\* A bug to catch: a receipt without its nonce.
AppliedReceipt_NoNonce(r) ==
  [epoch |-> epoch, seq |-> r.applied.seq, id |-> r.applied.id,
   digest |-> r.applied.digest]

AppliedReceipt(r) ==
  [epoch |-> epoch, seq |-> r.applied.seq, id |-> r.applied.id,
   digest |-> r.applied.digest, nonce |-> r.nonce]

\* A bug to catch: any ACK settles whatever is pending.
Settles_Any(m) == row.pending.id # NoId /\ row.pending.live

Settles(m) == row.pending.id = m.id /\ row.pending.live

\* An ACK of the pending delivery, in time: recorded, with a nonce when applied.
AckPending(m) ==
  /\ Authentic(m.epoch) /\ row.status = "negotiated"
  /\ Settles(m)
  /\ LET done == [seq |-> row.issued, id |-> row.pending.id, digest |-> row.pending.digest]
     IN  row' = [row EXCEPT
           !.pending = NoPending,
           !.last = [seq |-> done.seq, id |-> done.id, digest |-> done.digest,
                     result |-> m.result],
           !.applied = IF m.result = "applied" THEN done ELSE @,
           !.nonce = IF m.result = "applied" THEN minted + 1 ELSE NoId]
  /\ minted' = IF m.result = "applied" THEN minted + 1 ELSE minted
  /\ Answer(m, IF m.result = "applied" THEN AppliedReceipt(row') ELSE NoReceipt)
  /\ UNCHANGED <<epoch, wallVars, playerVars, inbox, upsets>>

\* The re-sent applied delivery did not take: its receipt is no longer current.
AckUnapplies(m) ==
  /\ Authentic(m.epoch) /\ row.status = "negotiated"
  /\ row.pending.id # m.id
  /\ m.result # "applied" /\ AppliedIsLatest(row) /\ row.applied.id = m.id
  /\ row' = [row EXCEPT !.last.result = m.result, !.nonce = NoId]
  /\ Answer(m, NoReceipt)
  /\ UNCHANGED <<epoch, minted, wallVars, playerVars, inbox, upsets>>

\* The applied ACK again: the receipt it earned, replayed while still current.
AckReplayed(m) ==
  /\ Authentic(m.epoch) /\ row.status = "negotiated"
  /\ row.pending.id # m.id
  /\ m.result = "applied" /\ AppliedIsLatest(row) /\ row.applied.id = m.id
  /\ Answer(m, AppliedReceipt(row))
  /\ UNCHANGED <<centralVars, wallVars, playerVars, inbox, upsets>>

\* A stale, late or superseded ACK changes nothing.
AckRefused(m) ==
  /\ Authentic(m.epoch)
  /\ \/ row.pending.id = m.id /\ ~row.pending.live
     \/ row.pending.id # m.id /\ ~(AppliedIsLatest(row) /\ row.applied.id = m.id)
  /\ Answer(m, NoReceipt)
  /\ UNCHANGED <<centralVars, wallVars, playerVars, inbox, upsets>>

\* Under a token of an epoch that has passed, the request is 401: no answer.
AckUnauthorized(m) ==
  /\ ~Authentic(m.epoch)
  /\ acks' = acks \ {m}
  /\ UNCHANGED <<centralVars, wallVars, playerVars, task, inbox, upsets>>

-----------------------------------------------------------------------------
(* The Player process: player/service.py *)

\* Bumping _control_proof_revision: it is only ever compared with the value an
\* ACK captured, so each ACK under way keeps whether it was bumped since.
Revised(t) == [l \in Loops |-> [t[l] EXCEPT !.unrevised = FALSE]]

\* The cycle's tasks are cancelled; a request already sent may still be served,
\* or never (an ACK left in acks is a lost one).
CancelLoops ==
  /\ task' = [l \in Loops |-> IdleTask]
  /\ inbox' = [l \in Loops |-> <<>>]
  /\ acks' = {[m EXCEPT !.live = FALSE] : m \in acks}

\* _apply_state's first gate, on the sequence.
Superseded(s) == s.seq < highest.seq

\* A bug to catch: a transport's State is taken whatever the other one brought.
Accepts_AnyOrder(s) == s.epoch = session

\* _apply_state's gates: this registration's State, of the highest delivery or a
\* newer one (the highest sequence under another id is a conflict, an error).
Accepts(s) ==
  /\ s.epoch = session
  /\ ~Superseded(s)
  /\ s.seq > highest.seq \/ s.id = highest.id

\* _apply_state for an older delivery than the highest: no effect, no ACK.
DropSuperseded(l) ==
  /\ task[l].stage = "idle" /\ inbox[l] # <<>>
  /\ Superseded(Head(inbox[l]))
  /\ inbox' = [inbox EXCEPT ![l] = Tail(@)]
  /\ UNCHANGED <<centralVars, wallVars, playerVars, task, acks, upsets>>

\* _apply_state on the GLib thread: the delivery becomes the highest, the State
\* is taken, and each Commit not seen before is accepted or refused. A new plan
\* or a new epoch forgets the Commits seen.
ApplyState(l) ==
  /\ task[l].stage = "idle" /\ inbox[l] # <<>>
  /\ LET s == Head(inbox[l])
         newer == s.seq > highest.seq
         fresh == installed.epoch # s.epoch
     IN  /\ Accepts(s)
         /\ highest' = [seq |-> s.seq, id |-> s.id]
         /\ receipt' = IF newer THEN NoReceipt ELSE receipt
         /\ installed' = s
         /\ \E forget \in (IF fresh THEN {TRUE}
                           ELSE IF installed.digest # s.digest THEN BOOLEAN
                           ELSE {FALSE}),
               verdict \in {"taken", "refused"} :
              LET known   == IF forget THEN [c \in Contents |-> "new"] ELSE grants
                  outcome == IF known[s.digest] = "new" THEN verdict ELSE "taken"
              IN  /\ grants' = IF known[s.digest] = "new"
                                 THEN [known EXCEPT ![s.digest] = verdict] ELSE known
                  /\ task' = [(IF newer THEN Revised(task) ELSE task)
                               EXCEPT ![l] = [IdleTask EXCEPT
                                 !.stage = "applied", !.state = s,
                                 !.result = IF outcome = "taken" THEN "applied"
                                                                 ELSE "rejected"]]
  /\ inbox' = [inbox EXCEPT ![l] = Tail(@)]
  /\ UNCHANGED <<centralVars, wallVars, session, located, hello, acks, upsets>>

\* _ack_control up to its POST: a result that is not "applied" first drops the
\* receipt and revises; then the revision is captured and the ACK sent.
SendAck(l) ==
  /\ task[l].stage = "applied"
  /\ session # NoSession /\ hello = session
  /\ LET failed == task[l].result # "applied"
     IN  /\ receipt' = IF failed THEN NoReceipt ELSE receipt
         /\ task' = [(IF failed THEN Revised(task) ELSE task)
                      EXCEPT ![l].stage = "acking", ![l].unrevised = TRUE]
  /\ acks' = acks \cup {[loop |-> l, epoch |-> session, id |-> task[l].state.id,
                         result |-> task[l].result, live |-> TRUE]}
  /\ UNCHANGED <<centralVars, wallVars, session, located, hello, highest, installed,
                 grants, inbox, upsets>>

\* A bug to catch: only the delivery is compared, not what happened meanwhile.
MayHold_Unguarded(l) ==
  LET t == task[l] IN
  /\ t.result = "applied" /\ t.receipt # NoReceipt
  /\ t.receipt.epoch = session
  /\ t.receipt.id = t.state.id /\ t.receipt.seq = t.state.seq

\* Whether the answer's receipt may be held: it names this delivery, nothing
\* revised the proof since the ACK left, and the delivery is still the highest.
MayHold(l) ==
  LET t == task[l] IN
  /\ t.result = "applied" /\ t.receipt # NoReceipt
  /\ t.receipt.epoch = session
  /\ t.receipt.id = t.state.id /\ t.receipt.seq = t.state.seq
  /\ t.unrevised
  /\ highest = [seq |-> t.receipt.seq, id |-> t.receipt.id]

\* _ack_control after its POST returned.
TakeAnswer(l) ==
  /\ task[l].stage = "answered"
  /\ receipt' = IF MayHold(l) THEN task[l].receipt ELSE receipt
  /\ task' = [task EXCEPT ![l] = IdleTask]
  /\ UNCHANGED <<centralVars, wallVars, session, located, hello, highest, installed,
                 grants, inbox, acks, upsets>>

\* dispatch abandoned at its deadline: the State in hand is never applied.
MainLoopLate(l) ==
  /\ task[l].stage = "idle" /\ inbox[l] # <<>>
  /\ Upset
  /\ inbox' = [inbox EXCEPT ![l] = Tail(@)]
  /\ UNCHANGED <<centralVars, wallVars, playerVars, task, acks>>

\* Any error but 401 ends the session cycle; the registration is kept for now.
CycleFails ==
  /\ located
  /\ Upset
  /\ CancelLoops
  /\ located' = FALSE
  /\ UNCHANGED <<centralVars, wallVars, session, hello, highest, installed, receipt,
                 grants>>

\* The executor refuses the configuration or the plan: the delivery is already
\* the highest, the State is not taken, and the error ends the cycle.
ApplyFails(l) ==
  /\ task[l].stage = "idle" /\ inbox[l] # <<>>
  /\ LET s == Head(inbox[l]) IN
       /\ Accepts(s)
       /\ highest' = [seq |-> s.seq, id |-> s.id]
       /\ receipt' = IF s.seq > highest.seq THEN NoReceipt ELSE receipt
  /\ Upset
  /\ CancelLoops
  /\ located' = FALSE
  /\ UNCHANGED <<centralVars, wallVars, session, hello, installed, grants>>

\* 401: Central no longer knows the registration, so it is dropped.
Unauthorized ==
  /\ session # NoSession /\ located /\ ~Authentic(session)
  /\ CancelLoops
  /\ located' = FALSE /\ session' = NoSession /\ receipt' = NoReceipt
  /\ UNCHANGED <<centralVars, wallVars, hello, highest, installed, grants, upsets>>

\* locate_central: a new Session object, which keeps the registration only at
\* the origin that issued it.
LocateCentral ==
  /\ ~located
  /\ located' = TRUE
  /\ session' \in {session, NoSession}
  /\ session' # session => Upset
  /\ session' = session => UNCHANGED upsets
  /\ receipt' = NoReceipt
  /\ task' = Revised(task)
  /\ UNCHANGED <<centralVars, wallVars, hello, highest, installed, grants, inbox, acks>>

\* enroll: a fresh epoch, sequence and registration.
Enroll ==
  /\ located /\ session = NoSession
  /\ OpenEpoch
  /\ session' = epoch'
  /\ hello' = 0
  /\ highest' = [seq |-> 0, id |-> NoId]
  /\ receipt' = NoReceipt
  /\ task' = Revised(task)
  /\ UNCHANGED <<wallVars, located, installed, grants, inbox, acks, upsets>>

\* Another enrollment of the same device: this one's answer was lost, or another
\* process holds the device's key.
EnrollElsewhere ==
  /\ Upset
  /\ OpenEpoch
  /\ UNCHANGED <<wallVars, playerVars, task, inbox, acks>>

\* hello_protocol: negotiate before either transport reads a State.
Hello ==
  /\ located /\ session # NoSession /\ hello # session /\ Authentic(session)
  /\ row' = [row EXCEPT !.status = "negotiated"]
  /\ \/ hello' = session /\ UNCHANGED <<located, upsets>>
     \/ Upset /\ located' = FALSE /\ UNCHANGED hello    \* the answer is lost
  /\ UNCHANGED <<epoch, minted, wallVars, session, highest, installed, receipt,
                 grants, task, inbox, acks>>

\* The Player process is restarted: nothing of it survives.
Restart ==
  /\ Upset
  /\ CancelLoops
  /\ session' = NoSession /\ located' = FALSE /\ hello' = 0
  /\ highest' = [seq |-> 0, id |-> NoId]
  /\ installed' = NoState /\ receipt' = NoReceipt
  /\ grants' = [c \in Contents |-> "new"]
  /\ UNCHANGED <<centralVars, wallVars>>

-----------------------------------------------------------------------------

Init ==
  /\ epoch = 0 /\ row = OpenRow /\ minted = 0
  /\ content \in Contents
  /\ session = NoSession /\ located = FALSE /\ hello = 0
  /\ highest = [seq |-> 0, id |-> NoId]
  /\ installed = NoState /\ receipt = NoReceipt
  /\ grants = [c \in Contents |-> "new"]
  /\ task = [l \in Loops |-> IdleTask]
  /\ inbox = [l \in Loops |-> <<>>]
  /\ acks = {}
  /\ upsets = 0 /\ changes = 0

ServeState(l) == ResendPending(l) \/ ResendApplied(l) \/ IssueNew(l)

ServeAck(m) ==
  AckPending(m) \/ AckUnapplies(m) \/ AckReplayed(m) \/ AckRefused(m) \/ AckUnauthorized(m)

PlayerStep(l) == ApplyState(l) \/ DropSuperseded(l) \/ SendAck(l) \/ TakeAnswer(l)

Session == LocateCentral \/ Enroll \/ Hello \/ Unauthorized

Next ==
  \/ \E l \in Loops : ServeState(l) \/ PlayerStep(l)
                        \/ MainLoopLate(l) \/ ApplyFails(l)
  \/ \E m \in acks : ServeAck(m)
  \/ Session
  \/ PendingExpires \/ ContentChanges
  \/ CycleFails \/ EnrollElsewhere \/ Restart

Spec == Init /\ [][Next]_vars

-----------------------------------------------------------------------------
(* Properties *)

\* While Central calls the applied delivery the latest and the Player's
\* registration is of that epoch, the Player's executor holds exactly that
\* delivery's State and has met no newer one (the join of
\* acceptance_evidence.py that app links and acceptance rely on).
LatestIsInstalled ==
  AppliedIsLatest(row) /\ session = epoch =>
    /\ installed = [epoch |-> epoch, seq |-> row.applied.seq,
                    id |-> row.applied.id, digest |-> row.applied.digest]
    /\ highest.seq = row.applied.seq

\* A receipt the Player may prove a process with names the State its executor
\* holds now, under its own registration: _apply_state and _ack_control drop it
\* whenever that stops being so.
ReceiptNamesInstalled ==
  receipt # NoReceipt =>
    /\ receipt.epoch = session
    /\ installed = [epoch |-> receipt.epoch, seq |-> receipt.seq,
                    id |-> receipt.id, digest |-> receipt.digest]

\* In one epoch a delivery sequence names one delivery and one State, on either
\* transport: _apply_state's control_sequence_conflict never fires.
SequenceNamesOneDelivery ==
  \A l, k \in Loops : \A i \in DOMAIN inbox[l] :
    /\ inbox[l][i].epoch = session
    /\ inbox[l][i].seq = highest.seq => inbox[l][i].id = highest.id
    /\ \A j \in DOMAIN inbox[k] :
         inbox[k][j].seq = inbox[l][i].seq => inbox[k][j] = inbox[l][i]

\* The two transports race, and still a Player under one registration never goes
\* back to a State older than one it has taken.
NeverGoesBack ==
  [][session' = session /\ installed.epoch = session
       => installed'.seq >= installed.seq]_vars

\* registry.py's "stays current until the state really changes": however often
\* the State is polled, acknowledged late or acknowledged twice, the receipt a
\* Player holds stops being current only when Central would project another
\* State, another enrollment begins, or this delivery failed to re-apply.
CurrentUntilChanged ==
  [][ReceiptMatches(receipt) /\ row.applied.digest = content /\ receipt' = receipt
       => \/ ReceiptMatches(receipt)'
          \/ epoch' # epoch
          \/ row'.last.result = "rejected"]_vars

\* registry.py:418-420, "A partial application never counts": a delivery with a
\* Commit the Player refused is never the applied one.
PartialNeverCounts ==
  AppliedIsLatest(row) /\ session = epoch => grants[row.applied.digest] # "refused"

-----------------------------------------------------------------------------
(* Liveness *)

\* The service's loops run on, each request is served or times out, and a dead
\* registration is renewed. The websocket owes nothing: the poll alone suffices.
Fairness ==
  /\ WF_vars(\E l \in Polls : ServeState(l))
  /\ \A l \in Loops : WF_vars(ApplyState(l)) /\ WF_vars(DropSuperseded(l))
                     /\ WF_vars(SendAck(l)) /\ WF_vars(TakeAnswer(l))
  /\ WF_vars(\E m \in acks : m.live /\ ServeAck(m))
  /\ WF_vars(LocateCentral) /\ WF_vars(Enroll) /\ WF_vars(Hello)
  /\ WF_vars(Unauthorized)

FairSpec == Spec /\ Fairness

\* Once changes and faults stop, the Player comes to hold a receipt Central calls
\* current, for the State Central projects.
ReceiptBecomesCurrent ==
  <>[](ReceiptMatches(receipt) /\ row.applied.digest = content)
=============================================================================
