------------------------ MODULE ControlDeliveryProofs ------------------------
(***************************************************************************)
(* What ControlDelivery promises, for any State digests, any number of     *)
(* polling loops and any bounds.                                           *)
(*                                                                         *)
(* The argument: a State a Player can still meet is the delivery Central   *)
(* counts as the last one exactly when it has its sequence (SentOK), the   *)
(* executor never falls behind a State it answered for (TasksOK, AcksOK),  *)
(* and so an ACK that settles the last delivery proves it is installed     *)
(* (Latest).                                                               *)
(***************************************************************************)
EXTENDS ControlDelivery, TLAPS

\* The Player's registration is the one Central knows.
Live == session # NoSession /\ session = epoch

\* The delivery that holds the last issued sequence.
CurId     == IF row.pending.id # NoId THEN row.pending.id ELSE row.last.id
CurDigest == IF row.pending.id # NoId THEN row.pending.digest ELSE row.last.digest

Range(q) == {q[i] : i \in DOMAIN q}

\* The States the Player has not finished with.
SentOf(b, t) == (UNION {Range(b[l]) : l \in Loops})
                  \cup {t[l].state : l \in {k \in Loops : t[k].stage # "idle"}}
Sent == SentOf(inbox, task)

CountersOK ==
  /\ session <= epoch /\ installed.epoch <= epoch
  /\ row.status = "negotiated" => epoch > 0
  /\ installed.epoch = NoSession => installed = NoState

RowOK ==
  /\ row.pending.id <= minted /\ row.last.id <= minted
  /\ row.pending.live => row.pending.id # NoId
  /\ row.pending.id = NoId => row.last.seq = row.issued
  /\ row.status = "open" => row.nonce = NoId

\* No State is on its way to a Player that is not connected.
Quiet ==
  ~located \/ session = NoSession \/ hello # session => Sent = {}

SentOK ==
  \A s \in Sent :
    /\ s.epoch = session
    /\ Live => /\ s.seq <= row.issued /\ s.id <= minted
               /\ s.seq = row.issued <=> s.id = CurId
               /\ s.id = CurId => s.digest = CurDigest

Agree ==
  \A s \in Sent :
    /\ \A t \in Sent : s.seq = t.seq => s = t
    /\ installed.epoch = session /\ installed.seq = s.seq => installed = s
    /\ s.seq = highest.seq => s.id = highest.id

HighestOK ==
  Live => /\ highest.seq <= row.issued
          /\ highest.seq = row.issued => highest.id = CurId

InstalledOK ==
  session # NoSession /\ installed.epoch = session =>
    /\ installed.seq <= highest.seq
    /\ Live /\ installed.seq = row.issued =>
         installed.id = CurId /\ installed.digest = CurDigest

TasksOK ==
  \A l \in Loops : task[l].stage # "idle" =>
    installed.epoch = session /\ installed.seq >= task[l].state.seq

AcksOK ==
  \A m \in acks :
    /\ m.epoch <= epoch
    /\ Live /\ m.epoch = session =>
         /\ m.id <= minted
         /\ m.id = CurId => installed.epoch = session /\ installed.seq = row.issued
    /\ m.live => /\ m.epoch = session
                 /\ task[m.loop].stage = "acking"
                 /\ task[m.loop].state.id = m.id
                 /\ task[m.loop].result = m.result

Latest ==
  Live /\ AppliedIsLatest(row) =>
    installed.epoch = session /\ installed.seq = row.issued

ReceiptOK ==
  receipt # NoReceipt =>
    /\ session # NoSession
    /\ ReceiptNamesInstalled
    /\ highest = [seq |-> receipt.seq, id |-> receipt.id]

AnswersOK ==
  \A l \in Loops :
    /\ task[l].receipt # NoReceipt => task[l].stage = "answered"
    /\ task[l].receipt # NoReceipt /\ task[l].receipt.id = task[l].state.id
         => task[l].receipt.digest = task[l].state.digest

Inv ==
  /\ TypeOK
  /\ CountersOK /\ RowOK /\ Quiet /\ SentOK /\ Agree /\ HighestOK
  /\ InstalledOK /\ TasksOK /\ AcksOK /\ Latest /\ ReceiptOK /\ AnswersOK

-----------------------------------------------------------------------------
(* Sequences *)

LEMMA RangeAppend ==
  ASSUME NEW S, NEW q \in Seq(S), NEW x \in S
  PROVE  Range(Append(q, x)) = Range(q) \cup {x}
  <1>1. /\ DOMAIN Append(q, x) = 1..(Len(q) + 1) /\ DOMAIN q = 1..Len(q)
        /\ \A i \in 1..Len(q) : Append(q, x)[i] = q[i]
        /\ Append(q, x)[Len(q) + 1] = x
        /\ Len(q) \in Nat
    OBVIOUS
  <1>2. 1..(Len(q) + 1) = 1..Len(q) \cup {Len(q) + 1}
    BY <1>1
  <1> QED BY <1>1, <1>2 DEF Range

LEMMA RangeHeadTail ==
  ASSUME NEW S, NEW q \in Seq(S), q # <<>>
  PROVE  /\ Head(q) \in Range(q) /\ Head(q) \in S
         /\ Tail(q) \in Seq(S) /\ Range(Tail(q)) \subseteq Range(q)
  BY DEF Range

-----------------------------------------------------------------------------
(* Types *)

USE DEF Loops, Results, NoSession, NoId

LEMMA ConstantTypes ==
  /\ NoPending \in [id : Nat, digest : Contents \cup {NoContent}, live : BOOLEAN]
  /\ OpenRow \in Rows /\ NoState \in States /\ NoReceipt \in Receipts
  /\ IdleTask \in Tasks
  BY DEF OpenRow, Rows, NoPending, NoApplied, NoLast, NoState, States, NoReceipt,
         Receipts, IdleTask, Tasks, Turns

LEMMA InitType == Init => TypeOK
  <1> SUFFICES ASSUME Init PROVE TypeOK
    OBVIOUS
  <1>1. inbox \in [Loops -> Seq(States)] /\ task \in [Loops -> Tasks]
    BY ConstantTypes DEF Init
  <1>2. /\ grants \in [Contents -> {"new", "taken", "refused"}]
        /\ highest \in [seq : Nat, id : Nat] /\ acks \in SUBSET Acks
    BY DEF Init
  <1> QED BY <1>1, <1>2, ConstantTypes DEF Init, TypeOK

\* What a transport takes from its buffer keeps the buffers' type.
LEMMA TailType ==
  ASSUME TypeOK, NEW l \in Loops, inbox[l] # <<>>
  PROVE  /\ Head(inbox[l]) \in States
         /\ [inbox EXCEPT ![l] = Tail(@)] \in [Loops -> Seq(States)]
  BY RangeHeadTail DEF TypeOK

LEMMA RevisedType ==
  ASSUME NEW t \in [Loops -> Tasks]
  PROVE  Revised(t) \in [Loops -> Tasks]
  BY DEF Revised, Tasks, Turns

\* A bounded event's counter.
LEMMA UpsetType == TypeOK /\ Upset => upsets' \in Nat
  BY DEF TypeOK, Upset

LEMMA CancelType ==
  ASSUME TypeOK, CancelLoops
  PROVE  /\ task' \in [Loops -> Tasks] /\ inbox' \in [Loops -> Seq(States)]
         /\ acks' \in SUBSET Acks
  <1>1. task' \in [Loops -> Tasks] /\ inbox' \in [Loops -> Seq(States)]
    BY ConstantTypes DEF CancelLoops
  <1>2. acks' \in SUBSET Acks
    <2>1. \A m \in Acks : [m EXCEPT !.live = FALSE] \in Acks
      BY DEF Acks
    <2> QED BY <2>1 DEF CancelLoops, TypeOK
  <1> QED BY <1>1, <1>2

LEMMA DeliverType ==
  ASSUME TypeOK, NEW l \in Loops, NEW seq \in Nat, NEW id \in Nat,
         NEW digest \in Contents, Deliver(l, seq, id, digest)
  PROVE  inbox' \in [Loops -> Seq(States)]
  <1> DEFINE new == [epoch |-> epoch, seq |-> seq, id |-> id, digest |-> digest]
  <1>1. new \in States
    BY DEF TypeOK, States
  <1>2. inbox' = [inbox EXCEPT ![l] = Append(inbox[l], new)]
    BY DEF Deliver
  <1>3. Append(inbox[l], new) \in Seq(States)
    BY <1>1 DEF TypeOK
  <1> QED BY <1>2, <1>3 DEF TypeOK

LEMMA RowParts ==
  ASSUME TypeOK
  PROVE  /\ row.status \in {"open", "negotiated"} /\ row.issued \in Nat /\ row.nonce \in Nat
         /\ row.pending \in [id : Nat, digest : Contents \cup {NoContent}, live : BOOLEAN]
         /\ row.applied \in [seq : Nat, id : Nat, digest : Contents \cup {NoContent}]
         /\ row.last \in [seq : Nat, id : Nat, digest : Contents \cup {NoContent},
                           result : Results \cup {"none"}]
         /\ row = [status |-> row.status, issued |-> row.issued, pending |-> row.pending,
                   applied |-> row.applied, last |-> row.last, nonce |-> row.nonce]
  BY DEF TypeOK, Rows

\* A row put together again from typed parts is one.
LEMMA RowType ==
  ASSUME NEW status \in {"open", "negotiated"}, NEW issued \in Nat, NEW nonce \in Nat,
         NEW pending \in [id : Nat, digest : Contents \cup {NoContent}, live : BOOLEAN],
         NEW applied \in [seq : Nat, id : Nat, digest : Contents \cup {NoContent}],
         NEW last \in [seq : Nat, id : Nat, digest : Contents \cup {NoContent},
                       result : Results \cup {"none"}]
  PROVE  [status |-> status, issued |-> issued, pending |-> pending,
          applied |-> applied, last |-> last, nonce |-> nonce] \in Rows
  BY DEF Rows

\* Issuing: what the row becomes.
LEMMA IssuedRow ==
  ASSUME TypeOK, NEW l \in Loops, IssueNew(l)
  PROVE  /\ minted' = minted + 1 /\ minted' \in Nat
         /\ row' = [status |-> row.status, issued |-> row.issued + 1,
                    pending |-> [id |-> minted + 1, digest |-> content, live |-> TRUE],
                    applied |-> row.applied, last |-> row.last, nonce |-> NoId]
  <1>1. minted' = minted + 1 /\ minted' \in Nat
    BY DEF IssueNew, TypeOK
  <1>2. row' = [row EXCEPT !.issued = row.issued + 1,
                  !.pending = [id |-> minted + 1, digest |-> content, live |-> TRUE],
                  !.nonce = NoId]
    BY <1>1 DEF IssueNew, Issued
  <1> QED BY <1>1, <1>2, RowParts

LEMMA ServeType ==
  ASSUME TypeOK, NEW l \in Loops, ServeState(l)
  PROVE  TypeOK'
  <1>1. CASE ResendPending(l)
    <2>1. inbox' \in [Loops -> Seq(States)]
      BY <1>1, RowParts, DeliverType DEF ResendPending, TypeOK
    <2> QED BY <1>1, <2>1 DEF ResendPending, TypeOK, centralVars, wallVars, playerVars
  <1>2. CASE ResendApplied(l)
    <2>1. row.applied.seq \in Nat /\ row.applied.id \in Nat /\ content \in Contents
      BY RowParts DEF TypeOK
    <2>2. inbox' \in [Loops -> Seq(States)]
      BY <1>2, <2>1, DeliverType DEF ResendApplied
    <2> QED BY <1>2, <2>2 DEF ResendApplied, TypeOK, centralVars, wallVars, playerVars
  <1>3. CASE IssueNew(l)
    <2>1. [id |-> minted + 1, digest |-> content, live |-> TRUE]
            \in [id : Nat, digest : Contents \cup {NoContent}, live : BOOLEAN]
      BY DEF TypeOK
    <2>2. minted' \in Nat /\ row'.issued \in Nat
      BY <1>3, IssuedRow, RowParts
    <2>4. row' \in Rows
      <3>1. row.issued + 1 \in Nat /\ NoId \in Nat
        BY RowParts
      <3>2. [status |-> row.status, issued |-> row.issued + 1,
             pending |-> [id |-> minted + 1, digest |-> content, live |-> TRUE],
             applied |-> row.applied, last |-> row.last, nonce |-> NoId] \in Rows
        BY <2>1, <3>1, RowParts DEF Rows
      <3> QED BY <1>3, <3>2, IssuedRow
    <2>3. inbox' \in [Loops -> Seq(States)]
      BY <1>3, <2>2, DeliverType DEF IssueNew, TypeOK
    <2> QED BY <1>3, <2>2, <2>3, <2>4 DEF IssueNew, TypeOK, wallVars, playerVars
  <1> QED BY <1>1, <1>2, <1>3 DEF ServeState

LEMMA AnswerType ==
  ASSUME TypeOK, NEW m \in acks, NEW r \in Receipts, Answer(m, r)
  PROVE  acks' \in SUBSET Acks /\ task' \in [Loops -> Tasks]
  <1>1. m.loop \in Loops
    BY DEF TypeOK, Acks
  <1>2. [task[m.loop] EXCEPT !.stage = "answered", !.receipt = r] \in Tasks
    <2>1. task[m.loop] \in Tasks
      BY <1>1 DEF TypeOK
    <2> QED BY <2>1 DEF Tasks, Turns
  <1>3. task' = task \/ task' = [task EXCEPT ![m.loop] =
                                  [task[m.loop] EXCEPT !.stage = "answered", !.receipt = r]]
    BY <1>1 DEF Answer, TypeOK
  <1> QED BY <1>1, <1>2, <1>3 DEF Answer, TypeOK

\* An ACK that settles the pending delivery: what the row becomes.
LEMMA SettledRow ==
  ASSUME TypeOK, NEW m \in acks, AckPending(m)
  PROVE  LET done == [seq |-> row.issued, id |-> row.pending.id,
                      digest |-> row.pending.digest]
             yes  == m.result = "applied"
         IN  /\ minted' = IF yes THEN minted + 1 ELSE minted
             /\ row' = [status |-> row.status, issued |-> row.issued,
                        pending |-> NoPending,
                        applied |-> IF yes THEN done ELSE row.applied,
                        last |-> [seq |-> done.seq, id |-> done.id,
                                  digest |-> done.digest, result |-> m.result],
                        nonce |-> IF yes THEN minted + 1 ELSE NoId]
  BY RowParts DEF AckPending

LEMMA AckType ==
  ASSUME TypeOK, NEW m \in acks, ServeAck(m)
  PROVE  TypeOK'
  <1>m. m \in Acks
    BY DEF TypeOK
  <1>1. CASE AckPending(m)
    <2>a. /\ m.result \in Results /\ minted \in Nat
          /\ [seq |-> row.issued, id |-> row.pending.id, digest |-> row.pending.digest]
               \in [seq : Nat, id : Nat, digest : Contents \cup {NoContent}]
          /\ [seq |-> row.issued, id |-> row.pending.id, digest |-> row.pending.digest,
              result |-> m.result]
               \in [seq : Nat, id : Nat, digest : Contents \cup {NoContent},
                    result : Results \cup {"none"}]
      BY <1>m, RowParts DEF TypeOK, Acks
    <2>1. row' \in Rows /\ minted' \in Nat
      <3>1. minted' \in Nat
        BY <1>1, <2>a, SettledRow
      <3>2. /\ row'.status = row.status /\ row'.issued = row.issued
            /\ row'.pending = NoPending
            /\ row'.applied \in [seq : Nat, id : Nat, digest : Contents \cup {NoContent}]
            /\ row'.last \in [seq : Nat, id : Nat, digest : Contents \cup {NoContent},
                              result : Results \cup {"none"}]
            /\ row'.nonce \in Nat
        <4>1. CASE m.result = "applied"
          BY <1>1, <2>a, <4>1, SettledRow
        <4>2. CASE m.result # "applied"
          BY <1>1, <2>a, <4>2, SettledRow, RowParts, ConstantTypes
        <4> QED BY <4>1, <4>2
      <3>3. row' = [status |-> row'.status, issued |-> row'.issued,
                    pending |-> row'.pending, applied |-> row'.applied,
                    last |-> row'.last, nonce |-> row'.nonce]
        BY <1>1, SettledRow
      <3> QED BY <3>1, <3>2, <3>3, RowParts, RowType, ConstantTypes
    <2>2. AppliedReceipt(row') \in Receipts
      BY <2>1 DEF AppliedReceipt, Receipts, Rows, TypeOK
    <2>3. acks' \in SUBSET Acks /\ task' \in [Loops -> Tasks]
      BY <1>1, <2>2, ConstantTypes, AnswerType DEF AckPending
    <2> QED BY <1>1, <2>1, <2>3 DEF AckPending, TypeOK, wallVars, playerVars
  <1>2. CASE AckUnapplies(m)
    <2>1. row' \in Rows
      BY <1>2, <1>m DEF AckUnapplies, TypeOK, Rows, Acks
    <2>2. acks' \in SUBSET Acks /\ task' \in [Loops -> Tasks]
      BY <1>2, ConstantTypes, AnswerType DEF AckUnapplies
    <2> QED BY <1>2, <2>1, <2>2 DEF AckUnapplies, TypeOK, wallVars, playerVars
  <1>3. CASE AckReplayed(m)
    <2>1. AppliedReceipt(row) \in Receipts
      BY DEF AppliedReceipt, Receipts, Rows, TypeOK
    <2>2. acks' \in SUBSET Acks /\ task' \in [Loops -> Tasks]
      BY <1>3, <2>1, AnswerType DEF AckReplayed
    <2> QED BY <1>3, <2>2 DEF AckReplayed, TypeOK, centralVars, wallVars, playerVars
  <1>4. CASE AckRefused(m)
    <2>1. acks' \in SUBSET Acks /\ task' \in [Loops -> Tasks]
      BY <1>4, ConstantTypes, AnswerType DEF AckRefused
    <2> QED BY <1>4, <2>1 DEF AckRefused, TypeOK, centralVars, wallVars, playerVars
  <1>5. CASE AckUnauthorized(m)
    BY <1>5 DEF AckUnauthorized, TypeOK, centralVars, wallVars, playerVars
  <1> QED BY <1>1, <1>2, <1>3, <1>4, <1>5 DEF ServeAck

\* One transport's turn.
LEMMA ApplyType ==
  ASSUME TypeOK, NEW l \in Loops, ApplyState(l)
  PROVE  TypeOK'
  <1> DEFINE s == Head(inbox[l])
  <1>1. s \in States /\ inbox' \in [Loops -> Seq(States)]
    BY TailType DEF ApplyState
  <1>2. PICK forget \in BOOLEAN, verdict \in {"taken", "refused"} :
          LET known   == IF forget THEN [c \in Contents |-> "new"] ELSE grants
              outcome == IF known[s.digest] = "new" THEN verdict ELSE "taken"
          IN  /\ grants' = IF known[s.digest] = "new"
                             THEN [known EXCEPT ![s.digest] = verdict] ELSE known
              /\ task' = [(IF s.seq > highest.seq THEN Revised(task) ELSE task)
                           EXCEPT ![l] = [IdleTask EXCEPT
                             !.stage = "applied", !.state = s,
                             !.result = IF outcome = "taken" THEN "applied"
                                                             ELSE "rejected"]]
    BY DEF ApplyState
  <1>3. grants' \in [Contents -> {"new", "taken", "refused"}]
    BY <1>2 DEF TypeOK
  <1>4. \A result \in Results :
          [IdleTask EXCEPT !.stage = "applied", !.state = s, !.result = result] \in Tasks
    BY <1>1, ConstantTypes DEF Tasks, Turns
  <1>5. task' \in [Loops -> Tasks]
    <2>1. (IF s.seq > highest.seq THEN Revised(task) ELSE task) \in [Loops -> Tasks]
      BY RevisedType DEF TypeOK
    <2> QED BY <1>2, <1>4, <2>1
  <1>6. /\ highest' \in [seq : Nat, id : Nat] /\ receipt' \in Receipts
        /\ installed' \in States
    BY <1>1, ConstantTypes DEF ApplyState, TypeOK, States
  <1> QED BY <1>1, <1>3, <1>5, <1>6 DEF ApplyState, TypeOK, centralVars, wallVars

LEMMA SendType ==
  ASSUME TypeOK, NEW l \in Loops, SendAck(l)
  PROVE  TypeOK'
  <1>1. task[l] \in Tasks /\ session \in Nat /\ task \in [Loops -> Tasks]
    BY DEF TypeOK
  <1>2. [loop |-> l, epoch |-> session, id |-> task[l].state.id,
         result |-> task[l].result, live |-> TRUE] \in Acks
    BY <1>1 DEF SendAck, Acks, Tasks, Turns, States
  <1>3. acks' \in SUBSET Acks
    BY <1>2 DEF SendAck, TypeOK
  <1>4. \A t \in [Loops -> Tasks] :
          [t EXCEPT ![l].stage = "acking", ![l].unrevised = TRUE] \in [Loops -> Tasks]
    <2> TAKE t \in [Loops -> Tasks]
    <2>1. [t[l] EXCEPT !.stage = "acking", !.unrevised = TRUE] \in Tasks
      BY DEF Tasks, Turns
    <2>2. [t EXCEPT ![l] = [t[l] EXCEPT !.stage = "acking", !.unrevised = TRUE]]
            \in [Loops -> Tasks]
      BY <2>1
    <2>3. [t EXCEPT ![l].stage = "acking", ![l].unrevised = TRUE]
            = [t EXCEPT ![l] = [t[l] EXCEPT !.stage = "acking", !.unrevised = TRUE]]
      OBVIOUS
    <2> QED BY <2>2, <2>3
  <1>5. task' \in [Loops -> Tasks]
    <2> DEFINE t == IF task[l].result # "applied" THEN Revised(task) ELSE task
    <2>1. t \in [Loops -> Tasks]
      BY <1>1, RevisedType
    <2>2. task' = [t EXCEPT ![l].stage = "acking", ![l].unrevised = TRUE]
      BY DEF SendAck
    <2> HIDE DEF t
    <2> QED BY <1>4, <2>1, <2>2
  <1>6. receipt' \in Receipts
    BY ConstantTypes DEF SendAck, TypeOK
  <1> QED BY <1>3, <1>5, <1>6 DEF SendAck, TypeOK, centralVars, wallVars

LEMMA PlayerType ==
  ASSUME TypeOK, NEW l \in Loops, PlayerStep(l) \/ MainLoopLate(l) \/ ApplyFails(l)
  PROVE  TypeOK'
  <1>1. CASE ApplyState(l)
    BY <1>1, ApplyType
  <1>2. CASE DropSuperseded(l)
    BY <1>2, TailType DEF DropSuperseded, TypeOK, centralVars, wallVars, playerVars
  <1>3. CASE SendAck(l)
    BY <1>3, SendType
  <1>4. CASE TakeAnswer(l)
    <2>1. task' \in [Loops -> Tasks] /\ receipt' \in Receipts
      BY <1>4, ConstantTypes DEF TakeAnswer, TypeOK, Tasks, Turns
    <2> QED BY <1>4, <2>1 DEF TakeAnswer, TypeOK, centralVars, wallVars
  <1>5. CASE MainLoopLate(l)
    BY <1>5, TailType DEF MainLoopLate, Upset, TypeOK, centralVars, wallVars, playerVars
  <1>6. CASE ApplyFails(l)
    <2>1. Head(inbox[l]) \in States
      BY <1>6, TailType DEF ApplyFails
    <2>2. highest' \in [seq : Nat, id : Nat] /\ receipt' \in Receipts
      BY <1>6, <2>1, ConstantTypes DEF ApplyFails, TypeOK, States
    <2>3. /\ task' \in [Loops -> Tasks] /\ inbox' \in [Loops -> Seq(States)]
          /\ acks' \in SUBSET Acks
      BY <1>6, CancelType DEF ApplyFails
    <2>4. upsets' \in Nat /\ located' \in BOOLEAN
      BY <1>6, UpsetType DEF ApplyFails
    <2> QED BY <1>6, <2>2, <2>3, <2>4 DEF ApplyFails, TypeOK, centralVars, wallVars
  <1> QED BY <1>1, <1>2, <1>3, <1>4, <1>5, <1>6 DEF PlayerStep

LEMMA OtherType ==
  ASSUME TypeOK,
         \/ Session \/ PendingExpires \/ ContentChanges
         \/ CycleFails \/ EnrollElsewhere \/ Restart
  PROVE  TypeOK'
  <1>t. Revised(task) \in [Loops -> Tasks]
    BY RevisedType DEF TypeOK
  <1>1. CASE LocateCentral
    BY <1>1, <1>t, ConstantTypes
       DEF LocateCentral, Upset, TypeOK, centralVars, wallVars
  <1>2. CASE Enroll
    BY <1>2, <1>t, ConstantTypes DEF Enroll, OpenEpoch, TypeOK, wallVars
  <1>3. CASE Hello
    <2>1. row' \in Rows
      BY <1>3 DEF Hello, TypeOK, Rows
    <2>2. upsets' \in Nat
      BY <1>3, UpsetType DEF Hello, TypeOK
    <2>3. located' \in BOOLEAN /\ hello' \in Nat
      BY <1>3, Zenon DEF Hello, TypeOK
    <2> QED BY <1>3, <2>1, <2>2, <2>3 DEF Hello, TypeOK, wallVars
  <1>4. CASE Unauthorized
    BY <1>4, CancelType, ConstantTypes DEF Unauthorized, TypeOK, centralVars, wallVars
  <1>5. CASE PendingExpires
    <2>1. row' \in Rows
      BY <1>5 DEF PendingExpires, TypeOK, Rows
    <2> QED BY <1>5, <2>1 DEF PendingExpires, Upset, TypeOK, wallVars, playerVars
  <1>6. CASE ContentChanges
    BY <1>6 DEF ContentChanges, TypeOK, centralVars, playerVars
  <1>7. CASE CycleFails
    <2>1. upsets' \in Nat /\ located' \in BOOLEAN
      BY <1>7, UpsetType DEF CycleFails
    <2> QED BY <1>7, <2>1, CancelType DEF CycleFails, TypeOK, centralVars, wallVars
  <1>8. CASE EnrollElsewhere
    BY <1>8, ConstantTypes DEF EnrollElsewhere, OpenEpoch, Upset, TypeOK, wallVars,
       playerVars
  <1>9. CASE Restart
    <2>1. /\ grants' \in [Contents -> {"new", "taken", "refused"}]
          /\ highest' \in [seq : Nat, id : Nat]
      BY <1>9 DEF Restart
    <2>2. upsets' \in Nat /\ located' \in BOOLEAN
      BY <1>9, UpsetType DEF Restart
    <2> QED BY <1>9, <2>1, <2>2, CancelType, ConstantTypes
            DEF Restart, TypeOK, centralVars, wallVars
  <1> QED BY <1>1, <1>2, <1>3, <1>4, <1>5, <1>6, <1>7, <1>8, <1>9 DEF Session

LEMMA NextType == TypeOK /\ [Next]_vars => TypeOK'
  <1> SUFFICES ASSUME TypeOK, [Next]_vars PROVE TypeOK'
    OBVIOUS
  <1>1. CASE Next
    BY <1>1, ServeType, PlayerType, AckType, OtherType DEF Next
  <1>2. CASE UNCHANGED vars
    BY <1>2 DEF vars, centralVars, wallVars, playerVars, TypeOK
  <1> QED BY <1>1, <1>2

\* Every reachable state is well typed: the row, the service's fields and what
\* is on the wire keep their shapes through every handler and every fault.
THEOREM TypeCorrect == Spec => []TypeOK
  BY InitType, NextType, PTL DEF Spec

-----------------------------------------------------------------------------
(* What becomes of the States under way *)

LEMMA SentMember ==
  \A b, t, s : s \in SentOf(b, t) <=>
    \E l \in Loops : s \in Range(b[l]) \/ (t[l].stage # "idle" /\ s = t[l].state)
  <1> SUFFICES ASSUME NEW b, NEW t, NEW s
               PROVE  s \in SentOf(b, t) <=> \E l \in Loops :
                        s \in Range(b[l]) \/ (t[l].stage # "idle" /\ s = t[l].state)
    OBVIOUS
  <1> DEFINE A == UNION {Range(b[l]) : l \in Loops}
             B == {t[l].state : l \in {k \in Loops : t[k].stage # "idle"}}
  <1>1. s \in A <=> \E l \in Loops : s \in Range(b[l])
    OBVIOUS
  <1>2. s \in B <=> \E l \in Loops : t[l].stage # "idle" /\ s = t[l].state
    OBVIOUS
  <1>3. SentOf(b, t) = A \cup B
    BY DEF SentOf
  <1> HIDE DEF A, B
  <1> QED BY <1>1, <1>2, <1>3, Zenon

LEMMA SentHere ==
  ASSUME NEW s
  PROVE  /\ s \in Sent <=> \E l \in Loops :
              s \in Range(inbox[l]) \/ (task[l].stage # "idle" /\ s = task[l].state)
         /\ s \in Sent' <=> \E l \in Loops :
              s \in Range(inbox'[l]) \/ (task'[l].stage # "idle" /\ s = task'[l].state)
  <1>1. Sent' = SentOf(inbox', task') /\ Sent = SentOf(inbox, task)
    BY DEF Sent
  <1> QED BY <1>1, SentMember

LEMMA SentType == TypeOK => Sent \subseteq States
  <1> SUFFICES ASSUME TypeOK, NEW l \in Loops
               PROVE  Range(inbox[l]) \subseteq States /\ task[l].state \in States
    BY SentMember DEF Sent
  <1>1. inbox[l] \in Seq(States) /\ task[l] \in Tasks
    BY DEF TypeOK
  <1> QED BY <1>1 DEF Range, Tasks, Turns

\* A turn that goes on keeps its State.
TurnsKept(K) ==
  \A k \in K : task'[k].stage # "idle" =>
                 task[k].stage # "idle" /\ task'[k].state = task[k].state

LEMMA RevisedKeeps ==
  ASSUME NEW t \in [Loops -> Tasks], NEW k \in Loops
  PROVE  /\ Revised(t)[k].stage = t[k].stage /\ Revised(t)[k].state = t[k].state
         /\ Revised(t)[k].result = t[k].result /\ Revised(t)[k].receipt = t[k].receipt
  BY DEF Revised, Tasks, Turns

LEMMA TurnsSent ==
  ASSUME inbox' = inbox, TurnsKept(Loops)
  PROVE  Sent' \subseteq Sent
  BY SentMember DEF Sent, TurnsKept

LEMMA TailSent ==
  ASSUME TypeOK, NEW l \in Loops, inbox[l] # <<>>,
         inbox' = [inbox EXCEPT ![l] = Tail(@)], TurnsKept(Loops \ {l}),
         task'[l].stage # "idle" => task'[l].state = Head(inbox[l])
  PROVE  Sent' \subseteq Sent /\ Head(inbox[l]) \in Sent
  <1>1. /\ Head(inbox[l]) \in Range(inbox[l])
        /\ Range(Tail(inbox[l])) \subseteq Range(inbox[l])
    BY RangeHeadTail DEF TypeOK
  <1>2. inbox'[l] = Tail(inbox[l]) /\ \A k \in Loops \ {l} : inbox'[k] = inbox[k]
    BY DEF TypeOK
  <1>3. \A k \in Loops : Range(inbox'[k]) \subseteq Range(inbox[k])
    BY <1>1, <1>2
  <1>4. ASSUME NEW s \in Sent' PROVE s \in Sent
    <2>1. PICK k \in Loops :
            s \in Range(inbox'[k]) \/ (task'[k].stage # "idle" /\ s = task'[k].state)
      BY <1>4, SentHere
    <2> QED BY <1>1, <1>3, <2>1, SentHere DEF TurnsKept
  <1> QED BY <1>1, <1>4, SentHere

LEMMA CancelSent ==
  ASSUME TypeOK, CancelLoops
  PROVE  /\ Sent' = {}
         /\ \A l \in Loops : task'[l] = IdleTask
         /\ \A m \in acks' : ~m.live
  <1>1. \A l \in Loops : inbox'[l] = <<>> /\ task'[l] = IdleTask
    BY DEF CancelLoops
  <1>2. \A l \in Loops : task'[l].stage = "idle" /\ Range(inbox'[l]) = {}
    BY <1>1 DEF IdleTask, Range
  <1>3. Sent' = {}
    BY <1>2, SentMember DEF Sent
  <1>4. \A m \in acks' : ~m.live
    BY DEF CancelLoops, TypeOK, Acks
  <1> QED BY <1>1, <1>3, <1>4

LEMMA DeliverSent ==
  ASSUME TypeOK, NEW l \in Loops, NEW seq \in Nat, NEW id \in Nat,
         NEW digest \in Contents, Deliver(l, seq, id, digest), task' = task
  PROVE  Sent' = Sent \cup {[epoch |-> epoch, seq |-> seq, id |-> id,
                             digest |-> digest]}
  <1> DEFINE new == [epoch |-> epoch, seq |-> seq, id |-> id, digest |-> digest]
  <1>1. new \in States /\ inbox[l] \in Seq(States)
    BY DEF TypeOK, States
  <1>2. inbox'[l] = Append(inbox[l], new) /\ \A k \in Loops \ {l} : inbox'[k] = inbox[k]
    BY DEF Deliver, TypeOK
  <1> HIDE DEF new
  <1>3. Range(inbox'[l]) = Range(inbox[l]) \cup {new}
    BY <1>1, <1>2, RangeAppend
  <1>4. \A s :
          /\ s \in Sent <=> \E k \in Loops :
               s \in Range(inbox[k]) \/ (task[k].stage # "idle" /\ s = task[k].state)
          /\ s \in Sent' <=> \E k \in Loops :
               s \in Range(inbox'[k]) \/ (task[k].stage # "idle" /\ s = task[k].state)
    BY SentHere
  <1>6. \A k \in Loops : \A s : s \in Range(inbox'[k])
                             <=> s \in Range(inbox[k]) \/ (k = l /\ s = new)
    BY <1>2, <1>3
  <1>5. Sent' = Sent \cup {new}
    BY <1>4, <1>6
  <1> QED BY <1>5 DEF new

-----------------------------------------------------------------------------
(* The invariant is inductive *)

LEMMA Numbers ==
  ASSUME TypeOK
  PROVE  /\ epoch \in Nat /\ minted \in Nat /\ session \in Nat
         /\ row.issued \in Nat /\ row.pending.id \in Nat /\ row.applied.seq \in Nat
         /\ row.applied.id \in Nat /\ row.last.seq \in Nat /\ row.last.id \in Nat
         /\ highest.seq \in Nat /\ highest.id \in Nat
         /\ highest = [seq |-> highest.seq, id |-> highest.id]
         /\ installed \in States /\ \A s \in Sent : s \in States
  BY RowParts, SentType DEF TypeOK, States

LEMMA StateParts ==
  ASSUME NEW s \in States
  PROVE  /\ s.epoch \in Nat /\ s.seq \in Nat /\ s.id \in Nat
         /\ s = [epoch |-> s.epoch, seq |-> s.seq, id |-> s.id, digest |-> s.digest]
  BY DEF States

LEMMA InitInv == Init => Inv
  <1> SUFFICES ASSUME Init PROVE Inv
    OBVIOUS
  <1>1. TypeOK
    BY InitType
  <1>2. Sent = {}
    <2>1. \A l \in Loops : Range(inbox[l]) = {} /\ task[l].stage = "idle"
      BY DEF Init, Range, IdleTask
    <2> QED BY <2>1, SentHere
  <1>3. ~Live /\ acks = {} /\ receipt = NoReceipt /\ installed = NoState
    BY DEF Init, Live
  <1>4. \A l \in Loops : task[l].stage = "idle" /\ task[l].receipt = NoReceipt
    BY DEF Init, IdleTask
  <1>5. CountersOK /\ RowOK
    BY DEF Init, CountersOK, RowOK, OpenRow, NoPending, NoLast, NoState
  <1>6. Quiet /\ SentOK /\ Agree /\ AcksOK
    BY <1>2, <1>3 DEF Quiet, SentOK, Agree, AcksOK
  <1>7. HighestOK /\ InstalledOK /\ Latest /\ ReceiptOK
    BY <1>3 DEF Init, HighestOK, InstalledOK, Latest, ReceiptOK, NoState
  <1>8. TasksOK /\ AnswersOK
    BY <1>4 DEF TasksOK, AnswersOK
  <1> QED BY <1>1, <1>5, <1>6, <1>7, <1>8 DEF Inv

\* Central sends the State it counts as the last one again.
LEMMA ResendInv ==
  ASSUME Inv, TypeOK', Live, located, hello = session, NEW l \in Loops,
         NEW digest \in Contents, digest = CurDigest,
         Deliver(l, row.issued, CurId, digest),
         UNCHANGED <<centralVars, wallVars, playerVars, task, acks, upsets>>
  PROVE  Inv'
  <1> DEFINE new == [epoch |-> epoch, seq |-> row.issued, id |-> CurId, digest |-> digest]
  <1>1. TypeOK /\ CurId \in Nat
    BY Numbers DEF Inv, CurId
  <1>2. Sent' = Sent \cup {new}
    BY <1>1, Numbers, DeliverSent
  <1>3. UNCHANGED <<epoch, row, minted, session, located, hello, highest, installed,
                    receipt, task, acks>>
    BY DEF centralVars, playerVars
  <1>4. CurId' = CurId /\ CurDigest' = CurDigest /\ Live' = Live
    BY <1>3 DEF CurId, CurDigest, Live
  <1>5. new.epoch = session /\ new.seq = row.issued /\ new.id = CurId /\ new.digest = CurDigest
    BY DEF Live
  <1> HIDE DEF new
  <1>6. Quiet'
    BY <1>3 DEF Quiet, Live
  <1>7. SentOK'
    BY <1>1, <1>2, <1>3, <1>4, <1>5, Numbers DEF Inv, SentOK, CurId, RowOK
  <1>8. Agree'
    <2>1. \A t \in States : t.epoch = session /\ t.seq = row.issued /\ t.id = CurId
                              /\ t.digest = CurDigest => t = new
      BY StateParts DEF new, Live
    <2>2. \A t \in Sent : t.seq = new.seq => t = new
      BY <1>1, <1>5, <2>1, Numbers DEF Inv, SentOK, Live
    <2>3. installed.epoch = session /\ installed.seq = new.seq => installed = new
      BY <1>1, <1>5, <2>1, Numbers DEF Inv, InstalledOK, Live
    <2>4. new.seq = highest.seq => new.id = highest.id
      BY <1>5 DEF Inv, HighestOK
    <2> QED BY <1>2, <1>3, <2>2, <2>3, <2>4 DEF Inv, Agree
  <1>9. CountersOK' /\ RowOK'
    BY <1>3 DEF Inv, CountersOK, RowOK
  <1>10. HighestOK' /\ InstalledOK' /\ Latest'
    BY <1>3, <1>4 DEF Inv, HighestOK, InstalledOK, Latest, AppliedIsLatest
  <1>11. TasksOK' /\ AcksOK'
    BY <1>3, <1>4 DEF Inv, TasksOK, AcksOK
  <1>12. ReceiptOK' /\ AnswersOK'
    BY <1>3 DEF Inv, ReceiptOK, ReceiptNamesInstalled, AnswersOK
  <1> QED BY <1>6, <1>7, <1>8, <1>9, <1>10, <1>11, <1>12 DEF Inv

\* A new delivery: no State under way, no ACK and no receipt is of it yet.
LEMMA IssueInv ==
  ASSUME Inv, TypeOK', NEW l \in Loops, IssueNew(l)
  PROVE  Inv'
  <1> DEFINE new == [epoch |-> epoch, seq |-> row.issued + 1, id |-> minted + 1,
                     digest |-> content]
  <1>1. TypeOK /\ content \in Contents
    BY DEF Inv, TypeOK
  <1>2. /\ minted' = minted + 1 /\ row'.issued = row.issued + 1
        /\ row'.pending = [id |-> minted + 1, digest |-> content, live |-> TRUE]
        /\ row'.last = row.last /\ row'.status = row.status /\ row'.nonce = NoId
    <2>1. minted' = minted + 1
      BY <1>1, IssuedRow
    <2>2. row' = [status |-> row.status, issued |-> row.issued + 1,
                  pending |-> [id |-> minted + 1, digest |-> content, live |-> TRUE],
                  applied |-> row.applied, last |-> row.last, nonce |-> NoId]
      BY <1>1, IssuedRow
    <2> QED BY <2>1, <2>2
  <1>3. Sent' = Sent \cup {new}
    <2>1. Deliver(l, row.issued + 1, minted + 1, content) /\ task' = task
      BY <1>2 DEF IssueNew
    <2>2. row.issued + 1 \in Nat /\ minted + 1 \in Nat
      BY <1>1, Numbers
    <2> QED BY <1>1, <2>1, <2>2, DeliverSent
  <1>4. UNCHANGED <<epoch, session, located, hello, highest, installed, receipt, task, acks>>
    BY DEF IssueNew, playerVars
  <1>5. CurId' = minted + 1 /\ CurDigest' = content /\ Live /\ Live'
    BY <1>1, <1>2, <1>4, Numbers DEF CurId, CurDigest, Live, IssueNew, Serving, Authentic
  <1>6. new.epoch = session /\ new.seq = row.issued + 1 /\ new.id = minted + 1
        /\ new.digest = content
    BY <1>5 DEF Live
  <1> HIDE DEF new
  <1>7. Quiet'
    BY <1>4 DEF Quiet, IssueNew, Serving
  <1>8. SentOK'
    <2>1. \A s \in Sent : s.epoch = session /\ s.seq <= row.issued /\ s.id <= minted
                            /\ s.seq \in Nat /\ s.id \in Nat
      BY <1>1, <1>5, Numbers, StateParts DEF Inv, SentOK
    <2> QED BY <1>1, <1>2, <1>3, <1>4, <1>5, <1>6, <2>1, Numbers DEF SentOK
  <1>9. Agree'
    <2>1. \A t \in Sent : t.seq # new.seq
      BY <1>1, <1>5, <1>6, Numbers, StateParts DEF Inv, SentOK
    <2>2. highest.seq # new.seq /\ (installed.epoch = session => installed.seq # new.seq)
      BY <1>1, <1>5, <1>6, Numbers, StateParts DEF Inv, HighestOK, InstalledOK, Live
    <2> QED BY <1>3, <1>4, <2>1, <2>2 DEF Inv, Agree
  <1>10. CountersOK' /\ RowOK'
    <2>1. row.last.id <= minted + 1
      BY <1>1, Numbers DEF Inv, RowOK
    <2> QED BY <1>1, <1>2, <1>4, <2>1, Numbers DEF Inv, CountersOK, RowOK
  <1>11. HighestOK' /\ InstalledOK'
    BY <1>1, <1>2, <1>4, <1>5, Numbers, StateParts DEF Inv, HighestOK, InstalledOK
  <1>12. Latest'
    BY <1>1, <1>2, Numbers DEF Latest, AppliedIsLatest
  <1>13. TasksOK'
    BY <1>4 DEF Inv, TasksOK
  <1>14. AcksOK'
    <2>1. \A m \in acks : m.id \in Nat
      BY <1>1 DEF TypeOK, Acks
    <2> QED BY <1>1, <1>2, <1>4, <1>5, <2>1, Numbers DEF Inv, AcksOK
  <1>15. ReceiptOK' /\ AnswersOK'
    BY <1>4 DEF Inv, ReceiptOK, ReceiptNamesInstalled, AnswersOK
  <1> QED BY <1>7, <1>8, <1>9, <1>10, <1>11, <1>12, <1>13, <1>14, <1>15 DEF Inv

LEMMA ServeInv ==
  ASSUME Inv, TypeOK', NEW l \in Loops, ServeState(l)
  PROVE  Inv'
  <1>1. CASE ResendPending(l)
    <2>1. Live /\ located /\ hello = session /\ content \in Contents
      BY <1>1 DEF ResendPending, Serving, Authentic, Live, Inv, TypeOK
    <2>2. CurId = row.pending.id /\ CurDigest = content
      BY <1>1 DEF ResendPending, PendingStands, CurId, CurDigest
    <2> QED BY <1>1, <2>1, <2>2, ResendInv DEF ResendPending
  <1>2. CASE ResendApplied(l)
    <2>1. Live /\ located /\ hello = session /\ content \in Contents
      BY <1>2 DEF ResendApplied, Serving, Authentic, Live, Inv, TypeOK
    <2>2. CurId = row.applied.id /\ CurDigest = content /\ row.issued = row.applied.seq
      BY <1>2 DEF ResendApplied, Unchanged, AppliedIsLatest, CurId, CurDigest
    <2> QED BY <1>2, <2>1, <2>2, ResendInv DEF ResendApplied
  <1>3. CASE IssueNew(l)
    BY <1>3, IssueInv
  <1> QED BY <1>1, <1>2, <1>3 DEF ServeState

\* Fewer States under way, and neither Central nor the registration moved.
LEMMA NarrowInv ==
  ASSUME Inv, Sent' \subseteq Sent, UNCHANGED <<centralVars, session>>
  PROVE  /\ SentOK' /\ RowOK'
         /\ CurId' = CurId /\ CurDigest' = CurDigest /\ Live' = Live
         /\ UNCHANGED <<epoch, row, minted, session>>
  <1>1. UNCHANGED <<epoch, row, minted, session>>
    BY DEF centralVars
  <1>2. CurId' = CurId /\ CurDigest' = CurDigest /\ Live' = Live
    BY <1>1 DEF CurId, CurDigest, Live
  <1> QED BY <1>1, <1>2 DEF Inv, SentOK, RowOK

\* The executor and the highest delivery stay, so what is under way still agrees.
LEMMA NarrowAgree ==
  ASSUME Inv, Sent' \subseteq Sent, UNCHANGED <<centralVars, session, installed, highest>>
  PROVE  /\ Agree' /\ CountersOK' /\ HighestOK' /\ InstalledOK' /\ Latest'
  <1>1. UNCHANGED <<epoch, row, minted, session, installed, highest>>
    BY NarrowInv
  <1>2. Agree' /\ CountersOK'
    BY <1>1 DEF Inv, Agree, CountersOK
  <1>3. HighestOK' /\ InstalledOK' /\ Latest'
    BY <1>1, NarrowInv DEF Inv, HighestOK, InstalledOK, Latest, AppliedIsLatest
  <1> QED BY <1>2, <1>3

LEMMA TurnsMember ==
  ASSUME TypeOK, NEW l \in Loops
  PROVE  /\ task[l] \in Tasks /\ task[l].state \in States /\ task[l].receipt \in Receipts
         /\ task[l].stage # "idle" => task[l].state \in Sent
  BY SentHere DEF TypeOK, Tasks, Turns

\* A registration stands while a State is under way.
LEMMA SentLive ==
  ASSUME Inv, NEW s \in Sent
  PROVE  located /\ session # NoSession /\ hello = session /\ s.epoch = session
  BY DEF Inv, Quiet, SentOK

LEMMA DropInv ==
  ASSUME Inv, TypeOK', NEW l \in Loops, DropSuperseded(l) \/ MainLoopLate(l)
  PROVE  Inv'
  <1>1. /\ TypeOK /\ task[l].stage = "idle" /\ inbox[l] # <<>>
        /\ inbox' = [inbox EXCEPT ![l] = Tail(@)]
        /\ UNCHANGED <<centralVars, playerVars, task, acks>>
    BY DEF DropSuperseded, MainLoopLate, Inv
  <1>2. UNCHANGED <<session, located, hello, highest, installed, receipt, task, acks>>
    BY <1>1 DEF playerVars
  <1>3. Sent' \subseteq Sent
    BY <1>1, <1>2, TailSent DEF TurnsKept
  <1>4. Quiet'
    BY <1>2, <1>3 DEF Inv, Quiet
  <1>5. TasksOK' /\ AcksOK'
    BY <1>1, <1>2, <1>3, NarrowInv DEF Inv, TasksOK, AcksOK
  <1>6. ReceiptOK' /\ AnswersOK'
    BY <1>2 DEF Inv, ReceiptOK, ReceiptNamesInstalled, AnswersOK
  <1> QED BY <1>1, <1>2, <1>3, <1>4, <1>5, <1>6, NarrowInv, NarrowAgree DEF Inv

\* The State in hand becomes the executor's: nothing under way is newer than what
\* the executor then holds unless it is newer than the highest delivery too.
LEMMA ApplyInv ==
  ASSUME Inv, TypeOK', NEW l \in Loops, ApplyState(l)
  PROVE  Inv'
  <1> DEFINE s == Head(inbox[l])
  <1>1. /\ TypeOK /\ task[l].stage = "idle" /\ inbox[l] # <<>> /\ Accepts(s)
        /\ inbox' = [inbox EXCEPT ![l] = Tail(@)] /\ installed' = s
        /\ highest' = [seq |-> s.seq, id |-> s.id]
        /\ receipt' = IF s.seq > highest.seq THEN NoReceipt ELSE receipt
        /\ UNCHANGED <<centralVars, session, located, hello, acks>>
    BY DEF ApplyState, Inv
  <1>2. /\ task'[l].state = s /\ task'[l].stage = "applied"
        /\ task'[l].receipt = NoReceipt
        /\ \A k \in Loops \ {l} : /\ task'[k].stage = task[k].stage
                                  /\ task'[k].state = task[k].state
                                  /\ task'[k].result = task[k].result
                                  /\ task'[k].receipt = task[k].receipt
    <2> DEFINE t == IF s.seq > highest.seq THEN Revised(task) ELSE task
    <2>1. PICK r \in Results :
            task' = [t EXCEPT ![l] = [IdleTask EXCEPT
                       !.stage = "applied", !.state = s, !.result = r]]
      BY DEF ApplyState
    <2>2. /\ t \in [Loops -> Tasks]
          /\ \A k \in Loops : /\ t[k].stage = task[k].stage /\ t[k].state = task[k].state
                              /\ t[k].result = task[k].result
                              /\ t[k].receipt = task[k].receipt
      <3>1. task \in [Loops -> Tasks]
        BY <1>1 DEF TypeOK
      <3> QED BY <3>1, RevisedType, RevisedKeeps
    <2> HIDE DEF t
    <2> QED BY <2>1, <2>2 DEF IdleTask
  <1>3. Sent' \subseteq Sent /\ s \in Sent
    BY <1>1, <1>2, TailSent DEF TurnsKept
  <1>4. s \in States /\ s.epoch = session /\ session # NoSession
    BY <1>1, <1>3, SentLive, Numbers
  <1>5. highest.seq <= s.seq /\ (s.seq > highest.seq \/ s.id = highest.id)
    <2>1. s.seq \in Nat /\ highest.seq \in Nat
      BY <1>1, <1>4, Numbers, StateParts
    <2>2. ~(s.seq < highest.seq) /\ (s.seq > highest.seq \/ s.id = highest.id)
      BY <1>1 DEF Accepts, Superseded
    <2> QED BY <2>1, <2>2
  <1>6. installed.epoch = session => installed.seq <= s.seq
    BY <1>1, <1>4, <1>5, Numbers, StateParts DEF Inv, InstalledOK
  <1> HIDE DEF s
  <1>7. Quiet'
    BY <1>1, <1>3 DEF Inv, Quiet
  <1>8. Agree'
    BY <1>1, <1>3 DEF Inv, Agree
  <1>9. CountersOK'
    BY <1>1, <1>4, NarrowInv, <1>3 DEF Inv, CountersOK
  <1>10. HighestOK' /\ InstalledOK'
    <2>1. Live => /\ s.seq <= row.issued
                  /\ s.seq = row.issued => s.id = CurId /\ s.digest = CurDigest
      BY <1>3 DEF Inv, SentOK
    <2>2. highest'.seq = s.seq /\ highest'.id = s.id /\ s.seq \in Nat
      BY <1>1, <1>4, StateParts
    <2> QED BY <1>1, <1>3, <2>1, <2>2, NarrowInv DEF HighestOK, InstalledOK
  <1>11. TasksOK'
    <2> SUFFICES ASSUME NEW k \in Loops, task'[k].stage # "idle"
                 PROVE  installed'.epoch = session' /\ installed'.seq >= task'[k].state.seq
      BY DEF TasksOK
    <2>1. CASE k = l
      BY <1>1, <1>2, <1>4, <2>1, StateParts
    <2>2. CASE k # l
      <3>1. task'[k].state = task[k].state /\ task[k].stage # "idle"
        BY <1>2, <2>2
      <3>2. installed.epoch = session /\ installed.seq >= task[k].state.seq
        BY <3>1 DEF Inv, TasksOK
      <3>3. task[k].state.seq \in Nat /\ installed.seq \in Nat /\ s.seq \in Nat
        BY <1>1, <1>4, TurnsMember, StateParts, Numbers
      <3> QED BY <1>1, <1>4, <1>6, <3>1, <3>2, <3>3
    <2> QED BY <2>1, <2>2
  <1>12. Live /\ installed.epoch = session /\ installed.seq = row.issued => s.seq = row.issued
    <2>1. Live => s.seq <= row.issued
      BY <1>3 DEF Inv, SentOK
    <2> QED BY <1>1, <1>4, <1>6, <2>1, Numbers, StateParts
  <1>13. AcksOK'
    <2> SUFFICES ASSUME NEW m \in acks
                 PROVE  /\ m.epoch <= epoch'
                        /\ Live' /\ m.epoch = session' =>
                             /\ m.id <= minted'
                             /\ m.id = CurId' => installed'.epoch = session'
                                                   /\ installed'.seq = row'.issued
                        /\ m.live => /\ m.epoch = session'
                                     /\ task'[m.loop].stage = "acking"
                                     /\ task'[m.loop].state.id = m.id
                                     /\ task'[m.loop].result = m.result
      BY <1>1 DEF AcksOK
    <2>1. m.loop \in Loops
      BY <1>1 DEF TypeOK, Acks
    <2>2. /\ m.epoch <= epoch
          /\ Live /\ m.epoch = session =>
               /\ m.id <= minted
               /\ m.id = CurId => installed.epoch = session /\ installed.seq = row.issued
          /\ m.live => /\ m.epoch = session
                       /\ task[m.loop].stage = "acking"
                       /\ task[m.loop].state.id = m.id
                       /\ task[m.loop].result = m.result
      BY DEF Inv, AcksOK
    <2>3. m.live => m.loop \in Loops \ {l}
      BY <1>1, <2>1, <2>2
    <2>4. Live => installed'.epoch = session
      BY <1>1, <1>4
    <2> QED BY <1>1, <1>2, <1>3, <1>12, <2>2, <2>3, <2>4, NarrowInv
  <1>14. Latest'
    BY <1>1, <1>3, <1>4, <1>12, NarrowInv DEF Inv, Latest, AppliedIsLatest
  <1>15. ReceiptOK'
    <2> SUFFICES ASSUME receipt' # NoReceipt PROVE ReceiptOK'
      BY DEF ReceiptOK
    <2>1. receipt' = receipt /\ ~(s.seq > highest.seq)
      BY <1>1
    <2>2. highest' = highest
      BY <1>1, <1>4, <1>5, <2>1, Numbers, StateParts
    <2>3. installed = s
      <3>1. installed.epoch = session /\ installed.seq = receipt.seq
        BY <2>1 DEF Inv, ReceiptOK, ReceiptNamesInstalled
      <3>2. receipt.seq = highest.seq
        BY <2>1 DEF Inv, ReceiptOK
      <3>3. s.seq = highest.seq
        BY <1>1, <2>2, Numbers
      <3> QED BY <1>3, <3>1, <3>2, <3>3 DEF Inv, Agree
    <2> QED BY <1>1, <2>1, <2>2, <2>3 DEF Inv, ReceiptOK, ReceiptNamesInstalled
  <1>16. AnswersOK'
    BY <1>2 DEF Inv, AnswersOK
  <1> QED BY <1>1, <1>3, <1>7, <1>8, <1>9, <1>10, <1>11, <1>13, <1>14, <1>15, <1>16, NarrowInv
          DEF Inv

\* An ACK leaves: of a delivery the executor has met.
LEMMA SendInv ==
  ASSUME Inv, TypeOK', NEW l \in Loops, SendAck(l)
  PROVE  Inv'
  <1> DEFINE new == [loop |-> l, epoch |-> session, id |-> task[l].state.id,
                     result |-> task[l].result, live |-> TRUE]
  <1>1. /\ TypeOK /\ task[l].stage = "applied" /\ acks' = acks \cup {new}
        /\ receipt' \in {receipt, NoReceipt} /\ inbox' = inbox
        /\ UNCHANGED <<centralVars, session, located, hello, highest, installed>>
    BY DEF SendAck, Inv
  <1>2. /\ task'[l].stage = "acking"
        /\ \A k \in Loops : /\ k # l => task'[k].stage = task[k].stage
                            /\ task'[k].state = task[k].state
                            /\ task'[k].result = task[k].result
                            /\ task'[k].receipt = task[k].receipt
    <2> DEFINE t == IF task[l].result # "applied" THEN Revised(task) ELSE task
    <2>1. task' = [t EXCEPT ![l].stage = "acking", ![l].unrevised = TRUE]
      BY DEF SendAck
    <2>2. /\ t \in [Loops -> Tasks]
          /\ \A k \in Loops : /\ t[k].stage = task[k].stage /\ t[k].state = task[k].state
                              /\ t[k].result = task[k].result
                              /\ t[k].receipt = task[k].receipt
      <3>1. task \in [Loops -> Tasks]
        BY <1>1 DEF TypeOK
      <3> QED BY <3>1, RevisedType, RevisedKeeps
    <2>3. t[l] \in Tasks
      BY <2>2
    <2> HIDE DEF t
    <2>4. /\ task'[l] = [t[l] EXCEPT !.stage = "acking", !.unrevised = TRUE]
          /\ \A k \in Loops \ {l} : task'[k] = t[k]
      BY <2>1, <2>2
    <2>5. /\ task'[l].stage = "acking" /\ task'[l].state = t[l].state
          /\ task'[l].result = t[l].result /\ task'[l].receipt = t[l].receipt
      BY <2>3, <2>4 DEF Tasks, Turns
    <2>6. \A k \in Loops : /\ k # l => task'[k].stage = t[k].stage
                           /\ task'[k].state = t[k].state
                           /\ task'[k].result = t[k].result
                           /\ task'[k].receipt = t[k].receipt
      <3> TAKE k \in Loops
      <3> QED BY <2>4, <2>5, Zenon
    <2>7. \A k \in Loops : /\ t[k].stage = task[k].stage /\ t[k].state = task[k].state
                           /\ t[k].result = task[k].result
                           /\ t[k].receipt = task[k].receipt
      BY <2>2
    <2> QED BY <2>5, <2>6, <2>7
  <1>3. Sent' \subseteq Sent
    BY <1>1, <1>2, TurnsSent DEF TurnsKept
  <1>4. Quiet'
    BY <1>1, <1>3 DEF Inv, Quiet
  <1>5. TasksOK'
    BY <1>1, <1>2 DEF Inv, TasksOK
  <1>6. AcksOK'
    <2> SUFFICES ASSUME NEW m \in acks'
                 PROVE  /\ m.epoch <= epoch'
                        /\ Live' /\ m.epoch = session' =>
                             /\ m.id <= minted'
                             /\ m.id = CurId' => installed'.epoch = session'
                                                   /\ installed'.seq = row'.issued
                        /\ m.live => /\ m.epoch = session'
                                     /\ task'[m.loop].stage = "acking"
                                     /\ task'[m.loop].state.id = m.id
                                     /\ task'[m.loop].result = m.result
      BY DEF AcksOK
    <2>1. CASE m \in acks
      <3>1. m.loop \in Loops
        BY <1>1, <2>1 DEF TypeOK, Acks
      <3>2. /\ m.epoch <= epoch
            /\ Live /\ m.epoch = session =>
                 /\ m.id <= minted
                 /\ m.id = CurId => installed.epoch = session /\ installed.seq = row.issued
            /\ m.live => /\ m.epoch = session
                         /\ task[m.loop].stage = "acking"
                         /\ task[m.loop].state.id = m.id
                         /\ task[m.loop].result = m.result
        BY <2>1 DEF Inv, AcksOK
      <3> QED BY <1>1, <1>2, <1>3, <3>1, <3>2, NarrowInv
    <2>2. CASE m = new
      <3> DEFINE s == task[l].state
      <3>1. s \in Sent /\ s \in States
        BY <1>1, TurnsMember
      <3>2. m.epoch = session /\ m.loop = l /\ m.id = s.id /\ m.result = task[l].result
        BY <2>2
      <3>3. Live => s.id <= minted /\ (s.id = CurId => s.seq = row.issued)
        BY <3>1 DEF Inv, SentOK
      <3>4. installed.epoch = session /\ installed.seq >= s.seq
        BY <1>1 DEF Inv, TasksOK
      <3>5. Live => installed.seq <= row.issued
        BY <1>1, <3>4, Numbers, StateParts DEF Inv, InstalledOK, HighestOK, Live
      <3>6. Live /\ s.id = CurId => installed.seq = row.issued
        BY <1>1, <3>1, <3>3, <3>4, <3>5, Numbers, StateParts
      <3>7. session <= epoch
        BY DEF Inv, CountersOK
      <3> HIDE DEF s
      <3> QED BY <1>1, <1>2, <1>3, <3>2, <3>3, <3>4, <3>6, <3>7, NarrowInv DEF s
    <2> QED BY <1>1, <2>1, <2>2
  <1>7. ReceiptOK'
    BY <1>1 DEF Inv, ReceiptOK, ReceiptNamesInstalled
  <1>8. AnswersOK'
    BY <1>1, <1>2 DEF Inv, AnswersOK
  <1> QED BY <1>1, <1>3, <1>4, <1>5, <1>6, <1>7, <1>8, NarrowInv, NarrowAgree DEF Inv

\* The answer's receipt is held only when it names what the executor holds.
LEMMA TakeInv ==
  ASSUME Inv, TypeOK', NEW l \in Loops, TakeAnswer(l)
  PROVE  Inv'
  <1>1. /\ TypeOK /\ task[l].stage = "answered"
        /\ task' = [task EXCEPT ![l] = IdleTask] /\ inbox' = inbox /\ acks' = acks
        /\ receipt' = IF MayHold(l) THEN task[l].receipt ELSE receipt
        /\ UNCHANGED <<centralVars, session, located, hello, highest, installed>>
    BY DEF TakeAnswer, Inv
  <1>2. /\ task'[l].stage = "idle" /\ task'[l].receipt = NoReceipt
        /\ \A k \in Loops \ {l} : task'[k] = task[k]
    BY <1>1 DEF TypeOK, IdleTask
  <1>3. Sent' \subseteq Sent
    BY <1>1, <1>2, TurnsSent DEF TurnsKept
  <1>4. Quiet'
    BY <1>1, <1>3 DEF Inv, Quiet
  <1>5. TasksOK' /\ AnswersOK'
    BY <1>1, <1>2 DEF Inv, TasksOK, AnswersOK
  <1>6. AcksOK'
    <2>1. \A m \in acks : m.loop \in Loops /\ (m.live => m.loop # l)
      BY <1>1 DEF Inv, AcksOK, TypeOK, Acks
    <2> QED BY <1>1, <1>2, <1>3, <2>1, NarrowInv DEF Inv, AcksOK
  <1>7. ReceiptOK'
    <2>1. CASE ~MayHold(l)
      BY <1>1, <2>1 DEF Inv, ReceiptOK, ReceiptNamesInstalled
    <2>2. CASE MayHold(l)
      <3> DEFINE r == task[l].receipt
                 s == task[l].state
      <3>1. /\ r.epoch = session /\ r.id = s.id /\ r.seq = s.seq /\ r # NoReceipt
            /\ highest = [seq |-> r.seq, id |-> r.id]
        BY <2>2 DEF MayHold
      <3>2. s \in Sent /\ s \in States /\ session # NoSession /\ s.epoch = session
        BY <1>1, TurnsMember, SentLive
      <3>3. installed.epoch = session /\ installed.seq >= s.seq
        BY <1>1 DEF Inv, TasksOK
      <3>4. installed.seq <= highest.seq
        BY <3>2, <3>3 DEF Inv, InstalledOK
      <3>5. installed.seq = s.seq
        BY <1>1, <3>1, <3>2, <3>3, <3>4, Numbers, StateParts
      <3>6. installed = s
        BY <3>2, <3>3, <3>5 DEF Inv, Agree
      <3>7. r.digest = s.digest
        BY <3>1 DEF Inv, AnswersOK
      <3>8. installed = [epoch |-> r.epoch, seq |-> r.seq, id |-> r.id, digest |-> r.digest]
        BY <3>1, <3>2, <3>6, <3>7, StateParts
      <3> HIDE DEF s
      <3> QED BY <1>1, <2>2, <3>1, <3>2, <3>8 DEF ReceiptOK, ReceiptNamesInstalled
    <2> QED BY <2>1, <2>2
  <1> QED BY <1>1, <1>3, <1>4, <1>5, <1>6, <1>7, NarrowInv, NarrowAgree DEF Inv

\* The cycle is torn down: nothing is under way, and no ACK is waited for.
LEMMA CancelInv ==
  ASSUME Inv, CancelLoops, UNCHANGED <<centralVars, session>>
  PROVE  /\ Sent' = {} /\ Quiet' /\ TasksOK' /\ AnswersOK'
         /\ \A m \in acks' : ~m.live /\ \E n \in acks : m.epoch = n.epoch /\ m.id = n.id
  <1>1. TypeOK
    BY DEF Inv
  <1>2. Sent' = {} /\ \A l \in Loops : task'[l] = IdleTask
    BY <1>1, CancelSent
  <1>3. \A m \in acks' : ~m.live /\ \E n \in acks : m.epoch = n.epoch /\ m.id = n.id
    BY <1>1 DEF CancelLoops, TypeOK, Acks
  <1>4. Quiet'
    BY <1>2 DEF Quiet
  <1>5. TasksOK' /\ AnswersOK'
    BY <1>2 DEF TasksOK, AnswersOK, IdleTask
  <1> QED BY <1>2, <1>3, <1>4, <1>5

LEMMA CycleInv ==
  ASSUME Inv, TypeOK', CycleFails
  PROVE  Inv'
  <1>1. CancelLoops /\ UNCHANGED <<centralVars, session, installed, highest, receipt>>
    BY DEF CycleFails
  <1>2. Sent' \subseteq Sent
    BY <1>1, CancelInv
  <1>3. AcksOK'
    BY <1>1, <1>2, CancelInv, NarrowInv DEF Inv, AcksOK
  <1>4. ReceiptOK'
    BY <1>1 DEF Inv, ReceiptOK, ReceiptNamesInstalled
  <1> QED BY <1>1, <1>2, <1>3, <1>4, CancelInv, NarrowInv, NarrowAgree DEF Inv

LEMMA ApplyFailsInv ==
  ASSUME Inv, TypeOK', NEW l \in Loops, ApplyFails(l)
  PROVE  Inv'
  <1> DEFINE s == Head(inbox[l])
  <1>1. /\ TypeOK /\ inbox[l] # <<>> /\ Accepts(s) /\ CancelLoops
        /\ highest' = [seq |-> s.seq, id |-> s.id]
        /\ receipt' = IF s.seq > highest.seq THEN NoReceipt ELSE receipt
        /\ UNCHANGED <<centralVars, session, installed>>
    BY DEF ApplyFails, Inv
  <1>2. s \in Sent
    <2>1. s \in Range(inbox[l])
      BY <1>1, RangeHeadTail DEF TypeOK
    <2> QED BY <2>1, SentHere
  <1>3. s \in States /\ s.epoch = session /\ session # NoSession
    BY <1>1, <1>2, SentLive, Numbers
  <1>4. s.seq \in Nat /\ highest.seq \in Nat /\ installed.seq \in Nat
    BY <1>1, <1>3, Numbers, StateParts
  <1>5. ~(s.seq < highest.seq) /\ (s.seq > highest.seq \/ s.id = highest.id)
    BY <1>1 DEF Accepts, Superseded
  <1> HIDE DEF s
  <1>6. Sent' \subseteq Sent /\ Sent' = {}
    BY <1>1, CancelInv
  <1>7. Agree' /\ CountersOK'
    BY <1>1, <1>6, NarrowInv DEF Inv, Agree, CountersOK
  <1>8. HighestOK'
    <2>1. Live => s.seq <= row.issued /\ (s.seq = row.issued => s.id = CurId)
      BY <1>2 DEF Inv, SentOK
    <2> QED BY <1>1, <1>6, <2>1, NarrowInv DEF HighestOK
  <1>9. InstalledOK'
    <2>1. installed.epoch = session => installed.seq <= s.seq
      BY <1>3, <1>4, <1>5 DEF Inv, InstalledOK
    <2> QED BY <1>1, <1>6, <2>1, NarrowInv DEF Inv, InstalledOK
  <1>10. AcksOK' /\ Latest'
    BY <1>1, <1>6, CancelInv, NarrowInv DEF Inv, AcksOK, Latest, AppliedIsLatest
  <1>11. ReceiptOK'
    <2> SUFFICES ASSUME receipt' # NoReceipt PROVE ReceiptOK'
      BY DEF ReceiptOK
    <2>1. receipt' = receipt /\ ~(s.seq > highest.seq)
      BY <1>1
    <2>2. highest' = highest
      BY <1>1, <1>4, <1>5, <2>1, Numbers
    <2> QED BY <1>1, <2>1, <2>2 DEF Inv, ReceiptOK, ReceiptNamesInstalled
  <1> QED BY <1>1, <1>6, <1>7, <1>8, <1>9, <1>10, <1>11, CancelInv, NarrowInv DEF Inv

\* Without a registration nothing is claimed of Central's row.
LEMMA DroppedInv ==
  ASSUME Inv, TypeOK', Unauthorized \/ Restart
  PROVE  Inv'
  <1>1. /\ CancelLoops /\ session' = NoSession /\ receipt' = NoReceipt
        /\ UNCHANGED <<epoch, row, minted>>
        /\ installed' = installed \/ installed' = NoState
    BY DEF Unauthorized, Restart, centralVars
  <1>2. TypeOK
    BY DEF Inv
  <1>3. Sent' = {} /\ \A l \in Loops : task'[l] = IdleTask
    BY <1>1, <1>2, CancelSent
  <1>4. \A m \in acks' : ~m.live /\ \E n \in acks : m.epoch = n.epoch
    BY <1>1, <1>2 DEF CancelLoops, TypeOK, Acks
  <1>5. ~Live'
    BY <1>1 DEF Live
  <1>6. CountersOK' /\ RowOK'
    BY <1>1, <1>2, Numbers DEF Inv, CountersOK, RowOK, NoState
  <1>7. Quiet' /\ SentOK' /\ Agree'
    BY <1>3 DEF Quiet, SentOK, Agree
  <1>8. HighestOK' /\ InstalledOK' /\ Latest' /\ ReceiptOK'
    BY <1>1, <1>5 DEF HighestOK, InstalledOK, Latest, ReceiptOK
  <1>9. TasksOK' /\ AnswersOK'
    BY <1>3 DEF TasksOK, AnswersOK, IdleTask
  <1>10. AcksOK'
    BY <1>1, <1>4, <1>5 DEF Inv, AcksOK
  <1> QED BY <1>6, <1>7, <1>8, <1>9, <1>10 DEF Inv

LEMMA LocateInv ==
  ASSUME Inv, TypeOK', LocateCentral
  PROVE  Inv'
  <1>1. /\ TypeOK /\ ~located /\ receipt' = NoReceipt /\ session' \in {session, NoSession}
        /\ task' = Revised(task) /\ inbox' = inbox
        /\ UNCHANGED <<centralVars, highest, installed, acks>>
    BY DEF LocateCentral, Inv
  <1>2. Sent = {}
    BY <1>1 DEF Inv, Quiet
  <1>3. \A l \in Loops : task[l].stage = "idle"
    BY <1>1, <1>2, TurnsMember
  <1>4. \A l \in Loops : task'[l].stage = "idle" /\ task'[l].receipt = task[l].receipt
    <2>1. task \in [Loops -> Tasks]
      BY <1>1 DEF TypeOK
    <2> QED BY <1>1, <1>3, <2>1, RevisedKeeps
  <1>5. Sent' = {}
    BY <1>1, <1>2, <1>4, TurnsSent DEF TurnsKept
  <1>6. UNCHANGED <<epoch, row, minted>> /\ (session' = session \/ ~Live')
    BY <1>1 DEF centralVars, Live
  <1>7. CountersOK' /\ RowOK'
    BY <1>1, <1>6, Numbers DEF Inv, CountersOK, RowOK
  <1>8. Quiet' /\ SentOK' /\ Agree'
    BY <1>5 DEF Quiet, SentOK, Agree
  <1>9. HighestOK' /\ InstalledOK' /\ Latest'
    BY <1>1, <1>6 DEF Inv, HighestOK, InstalledOK, Latest, Live, CurId, CurDigest,
                      AppliedIsLatest
  <1>10. TasksOK' /\ AnswersOK'
    BY <1>3, <1>4 DEF Inv, TasksOK, AnswersOK
  <1>11. AcksOK'
    <2>1. \A m \in acks : ~m.live
      BY <1>1, <1>3 DEF Inv, AcksOK, TypeOK, Acks
    <2> QED BY <1>1, <1>6, <2>1 DEF Inv, AcksOK, Live, CurId
  <1>12. ReceiptOK'
    BY <1>1 DEF ReceiptOK
  <1> QED BY <1>7, <1>8, <1>9, <1>10, <1>11, <1>12 DEF Inv

LEMMA EnrollInv ==
  ASSUME Inv, TypeOK', Enroll
  PROVE  Inv'
  <1>1. /\ TypeOK /\ session = NoSession /\ receipt' = NoReceipt
        /\ epoch' = epoch + 1 /\ session' = epoch' /\ row' = OpenRow /\ minted' = 0
        /\ highest' = [seq |-> 0, id |-> NoId]
        /\ task' = Revised(task) /\ inbox' = inbox /\ UNCHANGED <<installed, acks>>
    BY DEF Enroll, OpenEpoch, Inv
  <1>2. Sent = {}
    BY <1>1 DEF Inv, Quiet
  <1>3. \A l \in Loops : task[l].stage = "idle"
    BY <1>1, <1>2, TurnsMember
  <1>4. \A l \in Loops : task'[l].stage = "idle" /\ task'[l].receipt = task[l].receipt
    <2>1. task \in [Loops -> Tasks]
      BY <1>1 DEF TypeOK
    <2> QED BY <1>1, <1>3, <2>1, RevisedKeeps
  <1>5. Sent' = {}
    BY <1>1, <1>2, <1>4, TurnsSent DEF TurnsKept
  <1>6. /\ row'.pending.id = 0 /\ ~row'.pending.live /\ row'.last.id = 0
        /\ row'.last.seq = 0 /\ row'.issued = 0 /\ row'.nonce = 0 /\ row'.status = "open"
    BY <1>1 DEF OpenRow, NoPending, NoLast
  <1>7. installed'.epoch < epoch' /\ epoch \in Nat /\ epoch' > 0
    BY <1>1, Numbers, StateParts DEF Inv, CountersOK
  <1>8. CountersOK' /\ RowOK'
    BY <1>1, <1>6, <1>7, Numbers, StateParts DEF Inv, CountersOK, RowOK
  <1>9. Quiet' /\ SentOK' /\ Agree'
    BY <1>5 DEF Quiet, SentOK, Agree
  <1>10. HighestOK' /\ InstalledOK'
    BY <1>1, <1>6, <1>7, Numbers, StateParts DEF HighestOK, InstalledOK, CurId
  <1>11. Latest' /\ ReceiptOK'
    BY <1>1, <1>6 DEF Latest, AppliedIsLatest, ReceiptOK
  <1>12. TasksOK' /\ AnswersOK'
    BY <1>3, <1>4 DEF Inv, TasksOK, AnswersOK
  <1>13. AcksOK'
    <2>1. \A m \in acks : ~m.live /\ m.epoch <= epoch /\ m.epoch \in Nat
      BY <1>1, <1>3 DEF Inv, AcksOK, TypeOK, Acks
    <2> QED BY <1>1, <1>7, <2>1 DEF AcksOK
  <1> QED BY <1>8, <1>9, <1>10, <1>11, <1>12, <1>13 DEF Inv

\* Another enrollment: the registration held here is no longer the known one.
LEMMA ElsewhereInv ==
  ASSUME Inv, TypeOK', EnrollElsewhere
  PROVE  Inv'
  <1>1. /\ TypeOK /\ epoch' = epoch + 1 /\ row' = OpenRow /\ minted' = 0
        /\ UNCHANGED <<session, located, hello, highest, installed, receipt, task, inbox, acks>>
    BY DEF EnrollElsewhere, OpenEpoch, Inv, playerVars
  <1>2. ~Live' /\ Sent' = Sent
    BY <1>1, Numbers, SentHere DEF Inv, CountersOK, Live, Sent
  <1>3. /\ row'.pending.id = 0 /\ ~row'.pending.live /\ row'.last.id = 0
        /\ row'.last.seq = 0 /\ row'.issued = 0 /\ row'.nonce = 0 /\ row'.status = "open"
    BY <1>1 DEF OpenRow, NoPending, NoLast
  <1>4. CountersOK' /\ RowOK'
    BY <1>1, <1>3, Numbers, StateParts DEF Inv, CountersOK, RowOK
  <1>5. Quiet' /\ SentOK' /\ Agree'
    BY <1>1, <1>2 DEF Inv, Quiet, SentOK, Agree
  <1>6. HighestOK' /\ InstalledOK' /\ Latest'
    BY <1>1, <1>2 DEF Inv, HighestOK, InstalledOK, Latest
  <1>7. TasksOK' /\ ReceiptOK' /\ AnswersOK'
    BY <1>1 DEF Inv, TasksOK, ReceiptOK, ReceiptNamesInstalled, AnswersOK
  <1>8. AcksOK'
    <2>1. \A m \in acks : m.epoch \in Nat
      BY <1>1 DEF TypeOK, Acks
    <2> QED BY <1>1, <1>2, <2>1, Numbers DEF Inv, AcksOK
  <1> QED BY <1>4, <1>5, <1>6, <1>7, <1>8 DEF Inv

\* The row's delivery part stays: negotiation, expiry, a changed projection.
LEMMA QuietRowInv ==
  ASSUME Inv, TypeOK', Hello \/ PendingExpires \/ ContentChanges
  PROVE  Inv'
  <1>1. /\ UNCHANGED <<epoch, minted, session, highest, installed, receipt, task, inbox, acks>>
        /\ row'.issued = row.issued /\ row'.pending.id = row.pending.id
        /\ row'.pending.digest = row.pending.digest /\ row'.applied = row.applied
        /\ row'.last = row.last /\ row'.nonce = row.nonce
        /\ row'.status = row.status \/ row'.status = "negotiated"
        /\ row'.pending.live = row.pending.live \/ ~row'.pending.live
    <2>1. row \in Rows
      BY DEF Inv, TypeOK
    <2> QED BY <2>1 DEF Hello, PendingExpires, ContentChanges, centralVars, playerVars, Rows
  <1>2. /\ Sent' = Sent /\ CurId' = CurId /\ CurDigest' = CurDigest /\ Live' = Live
    BY <1>1 DEF Sent, CurId, CurDigest, Live
  <1>3. row.nonce # NoId => row.status = "negotiated"
    BY DEF Inv, TypeOK, Rows, RowOK
  <1>4. CountersOK' /\ RowOK'
    <2>1. row'.status = "negotiated" => epoch > 0
      <3>1. CASE Hello
        BY <3>1, Numbers DEF Hello, Authentic, Inv
      <3>2. CASE PendingExpires \/ ContentChanges
        <4>1. row'.status = row.status
          BY <3>2 DEF PendingExpires, ContentChanges, centralVars, Inv, TypeOK, Rows
        <4> QED BY <4>1 DEF Inv, CountersOK
      <3> QED BY <3>1, <3>2
    <2> QED BY <1>1, <2>1 DEF Inv, CountersOK, RowOK
  <1>5. Quiet'
    <2>1. CASE Hello
      <3>1. Sent' = {}
        BY <1>2, <2>1 DEF Inv, Quiet, Hello
      <3> QED BY <3>1 DEF Quiet
    <2>2. CASE PendingExpires \/ ContentChanges
      <3>1. UNCHANGED <<located, session, hello>>
        BY <2>2 DEF PendingExpires, ContentChanges, playerVars
      <3> QED BY <1>2, <3>1 DEF Inv, Quiet
    <2> QED BY <2>1, <2>2
  <1>6. SentOK' /\ Agree' /\ HighestOK' /\ InstalledOK'
    BY <1>1, <1>2 DEF Inv, SentOK, Agree, HighestOK, InstalledOK
  <1>7. Latest'
    BY <1>1, <1>2, <1>3 DEF Inv, Latest, AppliedIsLatest
  <1>8. TasksOK' /\ AcksOK'
    BY <1>1, <1>2 DEF Inv, TasksOK, AcksOK
  <1>9. ReceiptOK' /\ AnswersOK'
    BY <1>1 DEF Inv, ReceiptOK, ReceiptNamesInstalled, AnswersOK
  <1> QED BY <1>4, <1>5, <1>6, <1>7, <1>8, <1>9 DEF Inv

\* One turn waits for each answer, so an answer disturbs no other turn.
LEMMA AnswerInv ==
  ASSUME Inv, NEW m \in acks, NEW r, Answer(m, r), inbox' = inbox,
         m.live /\ r # NoReceipt /\ r.id = m.id => r.digest = task[m.loop].state.digest
  PROVE  /\ Sent' \subseteq Sent /\ TurnsKept(Loops) /\ AnswersOK'
         /\ \A n \in acks' :
              /\ n \in acks
              /\ n.live => /\ task'[n.loop].stage = "acking"
                           /\ task'[n.loop].state.id = n.id
                           /\ task'[n.loop].result = n.result
  <1>1. /\ TypeOK /\ acks' = acks \ {m} /\ m.loop \in Loops
        /\ task \in [Loops -> Tasks]
    BY DEF Answer, Inv, TypeOK, Acks
  <1>2. CASE ~m.live
    <2>1. task' = task
      BY <1>2 DEF Answer
    <2> QED BY <1>1, <2>1, TurnsSent DEF TurnsKept, Inv, AnswersOK, AcksOK
  <1>3. CASE m.live
    <2>1. /\ task[m.loop].stage = "acking" /\ task[m.loop].state.id = m.id
          /\ task[m.loop].result = m.result /\ m.epoch = session
      BY <1>3 DEF Inv, AcksOK
    <2>2. task' = [task EXCEPT ![m.loop] =
                     [task[m.loop] EXCEPT !.stage = "answered", !.receipt = r]]
      BY <1>1, <1>3 DEF Answer
    <2>3. /\ task'[m.loop].stage = "answered" /\ task'[m.loop].receipt = r
          /\ task'[m.loop].state = task[m.loop].state
          /\ \A k \in Loops \ {m.loop} : task'[k] = task[k]
      <3>1. task[m.loop] \in Tasks
        BY <1>1
      <3> QED BY <1>1, <2>2, <3>1 DEF Tasks, Turns
    <2>4. TurnsKept(Loops)
      BY <2>1, <2>3 DEF TurnsKept
    <2>5. Sent' \subseteq Sent
      BY <2>4, TurnsSent
    <2>6. AnswersOK'
      BY <1>3, <2>1, <2>3 DEF Inv, AnswersOK
    <2>7. ASSUME NEW n \in acks', n.live
          PROVE  /\ task'[n.loop].stage = "acking" /\ task'[n.loop].state.id = n.id
                 /\ task'[n.loop].result = n.result
      <3>1. /\ n \in acks /\ n # m /\ n \in Acks /\ m \in Acks
        BY <1>1 DEF TypeOK
      <3>2. /\ task[n.loop].stage = "acking" /\ task[n.loop].state.id = n.id
            /\ task[n.loop].result = n.result /\ n.epoch = session
        BY <2>7, <3>1 DEF Inv, AcksOK
      <3>3. n.loop # m.loop
        BY <1>3, <2>1, <2>7, <3>1, <3>2 DEF Acks
      <3>4. n.loop \in Loops
        BY <3>1 DEF Acks
      <3> QED BY <2>3, <3>2, <3>3, <3>4
    <2> QED BY <1>1, <2>4, <2>5, <2>6, <2>7
  <1> QED BY <1>2, <1>3

\* What a State under way has once its ACK is served.
LEMMA AckedDigest ==
  ASSUME Inv, NEW m \in acks, m.live, Authentic(m.epoch), m.id = CurId
  PROVE  task[m.loop].state.digest = CurDigest
  <1>1. /\ TypeOK /\ m.loop \in Loops /\ task[m.loop].stage = "acking"
        /\ task[m.loop].state.id = m.id /\ m.epoch = session
    BY DEF Inv, AcksOK, TypeOK, Acks
  <1>2. task[m.loop].state \in Sent
    BY <1>1, TurnsMember
  <1>3. Live
    BY <1>1, <1>2, SentLive DEF Authentic, Live
  <1> QED BY <1>1, <1>2, <1>3 DEF Inv, SentOK

LEMMA AckPendingInv ==
  ASSUME Inv, TypeOK', NEW m \in acks, AckPending(m)
  PROVE  Inv'
  <1> DEFINE done == [seq |-> row.issued, id |-> row.pending.id, digest |-> row.pending.digest]
             yes  == m.result = "applied"
             r    == IF yes THEN AppliedReceipt(row') ELSE NoReceipt
  <1>1. /\ TypeOK /\ Authentic(m.epoch) /\ row.status = "negotiated"
        /\ row.pending.id = m.id /\ row.pending.live /\ Answer(m, r) /\ inbox' = inbox
        /\ UNCHANGED <<epoch, session, located, hello, highest, installed, receipt>>
    BY DEF AckPending, Settles, Inv, playerVars
  <1>2. /\ minted' \in {minted, minted + 1}
        /\ row' = [status |-> row.status, issued |-> row.issued, pending |-> NoPending,
                   applied |-> IF yes THEN done ELSE row.applied,
                   last |-> [seq |-> done.seq, id |-> done.id, digest |-> done.digest,
                             result |-> m.result],
                   nonce |-> IF yes THEN minted + 1 ELSE NoId]
    BY <1>1, SettledRow
  <1>3. /\ row'.status = row.status /\ row'.issued = row.issued
        /\ row'.pending = NoPending /\ (yes => row'.applied = done)
        /\ row'.last = [seq |-> row.issued, id |-> row.pending.id,
                        digest |-> row.pending.digest, result |-> m.result]
    BY <1>2
  <1>4. row.pending.id # NoId
    BY <1>1 DEF Inv, RowOK
  <1>5. /\ CurId = m.id /\ CurDigest = row.pending.digest
        /\ CurId' = CurId /\ CurDigest' = CurDigest /\ Live' = Live
    BY <1>1, <1>3, <1>4 DEF CurId, CurDigest, NoPending, Live
  <1>6. m.live /\ r # NoReceipt /\ r.id = m.id => r.digest = task[m.loop].state.digest
    <2>1. r # NoReceipt => r.digest = row.pending.digest
      BY <1>3 DEF AppliedReceipt
    <2> QED BY <1>1, <1>5, <2>1, AckedDigest
  <1> HIDE DEF r, done, yes
  <1>7. /\ Sent' \subseteq Sent /\ TurnsKept(Loops) /\ AnswersOK'
        /\ \A n \in acks' :
             /\ n \in acks
             /\ n.live => /\ task'[n.loop].stage = "acking"
                          /\ task'[n.loop].state.id = n.id
                          /\ task'[n.loop].result = n.result
    BY <1>1, <1>6, AnswerInv
  <1>8. minted' \in Nat /\ minted <= minted'
    BY <1>1, <1>2, Numbers
  <1>9. RowOK' /\ CountersOK'
    <2>1. row.pending.id <= minted
      BY DEF Inv, RowOK
    <2>2. row.pending.id <= minted' /\ 0 <= minted'
      BY <1>1, <1>8, <2>1, Numbers
    <2> QED BY <1>1, <1>3, <2>2 DEF Inv, RowOK, CountersOK, NoPending
  <1>10. Quiet' /\ TasksOK'
    BY <1>1, <1>7 DEF Inv, Quiet, TasksOK, TurnsKept
  <1>11. SentOK'
    <2>1. \A s \in Sent : s.id \in Nat
      BY <1>1, Numbers, StateParts
    <2>2. \A s \in Sent : s.id <= minted => s.id <= minted'
      BY <1>1, <1>8, <2>1, Numbers
    <2> QED BY <1>1, <1>3, <1>5, <1>7, <2>2 DEF Inv, SentOK
  <1>12. Agree'
    BY <1>1, <1>7 DEF Inv, Agree
  <1>13. HighestOK' /\ InstalledOK'
    BY <1>1, <1>3, <1>5 DEF Inv, HighestOK, InstalledOK
  <1>14. AcksOK'
    <2>1. \A n \in acks : n.id \in Nat
      BY <1>1 DEF TypeOK, Acks
    <2>2. \A n \in acks : n.id <= minted => n.id <= minted'
      BY <1>1, <1>8, <2>1, Numbers
    <2> QED BY <1>1, <1>3, <1>5, <1>7, <2>2 DEF Inv, AcksOK
  <1>15. Latest'
    BY <1>1, <1>3, <1>5 DEF Inv, AcksOK, Latest, Authentic, Live
  <1>16. ReceiptOK'
    BY <1>1 DEF Inv, ReceiptOK, ReceiptNamesInstalled
  <1> QED BY <1>7, <1>9, <1>10, <1>11, <1>12, <1>13, <1>14, <1>15, <1>16 DEF Inv

\* The other ACKs leave the row's delivery as it is.
LEMMA AckOtherInv ==
  ASSUME Inv, TypeOK', NEW m \in acks,
         AckUnapplies(m) \/ AckReplayed(m) \/ AckRefused(m) \/ AckUnauthorized(m)
  PROVE  Inv'
  <1>1. /\ TypeOK /\ inbox' = inbox
        /\ UNCHANGED <<epoch, minted, session, located, hello, highest, installed, receipt>>
    BY DEF AckUnapplies, AckReplayed, AckRefused, AckUnauthorized, Inv, centralVars, playerVars
  <1>2. /\ row'.issued = row.issued /\ row'.status = row.status
        /\ row'.pending = row.pending /\ row'.last.seq = row.last.seq
        /\ row'.last.id = row.last.id /\ row'.last.digest = row.last.digest
        /\ row'.nonce \in {row.nonce, NoId}
        /\ AppliedIsLatest(row') => AppliedIsLatest(row)
    <2>1. CASE AckUnapplies(m)
      <3>1. row' = [row EXCEPT !.last = [row.last EXCEPT !.result = m.result], !.nonce = NoId]
        BY <2>1 DEF AckUnapplies
      <3>2. row \in Rows
        BY <1>1 DEF TypeOK
      <3>3. /\ row'.nonce = NoId /\ row'.issued = row.issued /\ row'.status = row.status
            /\ row'.pending = row.pending /\ row'.last.seq = row.last.seq
            /\ row'.last.id = row.last.id /\ row'.last.digest = row.last.digest
        BY <3>1, <3>2 DEF Rows
      <3> QED BY <3>3 DEF AppliedIsLatest
    <2>2. CASE ~AckUnapplies(m)
      BY <2>2 DEF AckReplayed, AckRefused, AckUnauthorized, centralVars
    <2> QED BY <2>1, <2>2
  <1>3. CurId' = CurId /\ CurDigest' = CurDigest /\ Live' = Live
    BY <1>1, <1>2 DEF CurId, CurDigest, Live
  <1>4. /\ Sent' \subseteq Sent /\ TurnsKept(Loops) /\ AnswersOK'
        /\ \A n \in acks' :
             /\ n \in acks
             /\ n.live => /\ task'[n.loop].stage = "acking"
                          /\ task'[n.loop].state.id = n.id
                          /\ task'[n.loop].result = n.result
    <2>1. CASE AckUnapplies(m) \/ AckRefused(m)
      <3>1. Answer(m, NoReceipt)
        BY <2>1 DEF AckUnapplies, AckRefused
      <3> QED BY <1>1, <3>1, AnswerInv
    <2>2. CASE AckReplayed(m)
      <3>1. /\ Answer(m, AppliedReceipt(row)) /\ Authentic(m.epoch)
            /\ AppliedReceipt(row).digest = row.applied.digest
            /\ m.id = CurId /\ CurDigest = row.applied.digest
        BY <2>2 DEF AckReplayed, AppliedReceipt, AppliedIsLatest, CurId, CurDigest
      <3> QED BY <1>1, <3>1, AnswerInv, AckedDigest
    <2>3. CASE AckUnauthorized(m)
      <3>1. task' = task /\ acks' = acks \ {m}
        BY <2>3 DEF AckUnauthorized
      <3> QED BY <1>1, <3>1, TurnsSent DEF TurnsKept, Inv, AnswersOK, AcksOK
    <2> QED BY <2>1, <2>2, <2>3
  <1>5. CountersOK' /\ RowOK'
    BY <1>1, <1>2 DEF Inv, CountersOK, RowOK
  <1>6. Quiet' /\ TasksOK'
    BY <1>1, <1>4 DEF Inv, Quiet, TasksOK, TurnsKept
  <1>7. SentOK' /\ Agree'
    BY <1>1, <1>2, <1>3, <1>4 DEF Inv, SentOK, Agree
  <1>8. HighestOK' /\ InstalledOK' /\ Latest'
    BY <1>1, <1>2, <1>3 DEF Inv, HighestOK, InstalledOK, Latest
  <1>9. AcksOK'
    BY <1>1, <1>2, <1>3, <1>4 DEF Inv, AcksOK
  <1>10. ReceiptOK'
    BY <1>1 DEF Inv, ReceiptOK, ReceiptNamesInstalled
  <1> QED BY <1>4, <1>5, <1>6, <1>7, <1>8, <1>9, <1>10 DEF Inv

LEMMA NextInv == Inv /\ [Next]_vars => Inv'
  <1> SUFFICES ASSUME Inv, [Next]_vars PROVE Inv'
    OBVIOUS
  <1>t. TypeOK'
    BY NextType DEF Inv
  <1>1. ASSUME NEW l \in Loops, ServeState(l) PROVE Inv'
    BY <1>t, <1>1, ServeInv
  <1>2. ASSUME NEW l \in Loops, PlayerStep(l) \/ MainLoopLate(l) \/ ApplyFails(l) PROVE Inv'
    BY <1>t, <1>2, DropInv, ApplyInv, SendInv, TakeInv, ApplyFailsInv DEF PlayerStep
  <1>3. ASSUME NEW m \in acks, ServeAck(m) PROVE Inv'
    BY <1>t, <1>3, AckPendingInv, AckOtherInv DEF ServeAck
  <1>4. CASE Session \/ CycleFails \/ Restart
    BY <1>t, <1>4, LocateInv, EnrollInv, QuietRowInv, DroppedInv, CycleInv DEF Session
  <1>5. CASE PendingExpires \/ ContentChanges \/ EnrollElsewhere
    BY <1>t, <1>5, QuietRowInv, ElsewhereInv
  <1>6. CASE UNCHANGED vars
    <2>1. UNCHANGED <<epoch, row, minted, session, located, hello, highest, installed,
                      receipt, task, inbox, acks>>
      BY <1>6 DEF vars, centralVars, playerVars
    <2>2. /\ Sent' = Sent /\ CurId' = CurId /\ CurDigest' = CurDigest /\ Live' = Live
      BY <2>1 DEF Sent, CurId, CurDigest, Live
    <2>3. CountersOK' /\ RowOK' /\ Quiet' /\ SentOK' /\ Agree'
      BY <2>1, <2>2 DEF Inv, CountersOK, RowOK, Quiet, SentOK, Agree
    <2>4. HighestOK' /\ InstalledOK' /\ TasksOK' /\ AcksOK' /\ Latest'
      BY <2>1, <2>2 DEF Inv, HighestOK, InstalledOK, TasksOK, AcksOK, Latest, AppliedIsLatest
    <2>5. ReceiptOK' /\ AnswersOK'
      BY <2>1 DEF Inv, ReceiptOK, ReceiptNamesInstalled, AnswersOK
    <2> QED BY <1>t, <2>3, <2>4, <2>5 DEF Inv
  <1> QED BY <1>1, <1>2, <1>3, <1>4, <1>5, <1>6 DEF Next

THEOREM InvHolds == Spec => []Inv
  BY InitInv, NextInv, PTL DEF Spec

-----------------------------------------------------------------------------
(* What follows *)

\* The join that acceptance_evidence.py and the app links rely on: a delivery
\* Central counts as the latest applied one is what the registered Player's
\* executor holds.
THEOREM AppliedMeansInstalled == Spec => []LatestIsInstalled
  <1>1. Inv => LatestIsInstalled
    <2> SUFFICES ASSUME Inv, AppliedIsLatest(row), session = epoch
                 PROVE  /\ installed = [epoch |-> epoch, seq |-> row.applied.seq,
                                        id |-> row.applied.id, digest |-> row.applied.digest]
                        /\ highest.seq = row.applied.seq
      BY DEF LatestIsInstalled
    <2>1. TypeOK /\ Live
      BY Numbers DEF Inv, CountersOK, AppliedIsLatest, Live
    <2>2. /\ row.applied.seq = row.issued /\ CurId = row.applied.id
          /\ CurDigest = row.applied.digest
      BY DEF AppliedIsLatest, CurId, CurDigest
    <2>3. installed.epoch = session /\ installed.seq = row.issued
      BY <2>1 DEF Inv, Latest
    <2>4. installed.id = CurId /\ installed.digest = CurDigest /\ installed.seq <= highest.seq
      BY <2>1, <2>3 DEF Inv, InstalledOK, Live
    <2>5. highest.seq <= row.issued
      BY <2>1 DEF Inv, HighestOK
    <2> QED BY <2>1, <2>2, <2>3, <2>4, <2>5, Numbers, StateParts
  <1> QED BY <1>1, InvHolds, PTL

\* The proof of its process a Player may give names what its executor holds now.
THEOREM HeldReceiptIsTrue == Spec => []ReceiptNamesInstalled
  <1>1. Inv => ReceiptNamesInstalled
    BY DEF Inv, ReceiptOK, ReceiptNamesInstalled
  <1> QED BY <1>1, InvHolds, PTL

\* Whichever transport brings a delivery, its sequence names it.
THEOREM SequencesAgree == Spec => []SequenceNamesOneDelivery
  <1>1. Inv => SequenceNamesOneDelivery
    <2>1. ASSUME Inv, NEW l \in Loops, NEW i \in DOMAIN inbox[l] PROVE inbox[l][i] \in Sent
      <3>1. inbox[l][i] \in Range(inbox[l])
        BY DEF Range
      <3> QED BY <3>1, SentHere
    <2> QED BY <2>1 DEF Inv, SentOK, Agree, SequenceNamesOneDelivery
  <1> QED BY <1>1, InvHolds, PTL

\* The transports race and yet a registered Player never returns to an older State.
THEOREM NoReturn == Spec => NeverGoesBack
  <1>1. Inv /\ [Next]_vars =>
          (session' = session /\ installed.epoch = session => installed'.seq >= installed.seq)
    <2> SUFFICES ASSUME Inv, [Next]_vars, session' = session, installed.epoch = session
                 PROVE  installed'.seq >= installed.seq
      OBVIOUS
    <2>1. TypeOK /\ installed.seq \in Nat
      BY Numbers, StateParts DEF Inv
    <2>2. ASSUME NEW l \in Loops, ApplyState(l) PROVE installed'.seq >= installed.seq
      <3> DEFINE s == Head(inbox[l])
      <3>1. s \in Sent
        <4>1. inbox[l] # <<>>
          BY <2>2 DEF ApplyState
        <4>2. s \in Range(inbox[l])
          BY <2>1, <4>1, RangeHeadTail DEF TypeOK
        <4> QED BY <4>2, SentHere
      <3>2. installed' = s /\ ~(s.seq < highest.seq)
        BY <2>2 DEF ApplyState, Accepts, Superseded
      <3> HIDE DEF s
      <3>3. installed.seq <= highest.seq
        BY <3>1, SentLive DEF Inv, InstalledOK
      <3>4. s.seq \in Nat /\ highest.seq \in Nat
        BY <2>1, <3>1, Numbers, StateParts
      <3> QED BY <2>1, <3>2, <3>3, <3>4
    <2>3. CASE Restart
      <3>1. installed = NoState /\ installed' = NoState
        BY <2>3 DEF Restart, Inv, CountersOK
      <3> QED BY <2>1, <3>1
    <2>4. CASE installed' = installed
      BY <2>1, <2>4
    <2>5. installed' = installed \/ Restart \/ \E l \in Loops : ApplyState(l)
      BY DEF Next, Session, ServeState, PlayerStep, ServeAck, vars, playerVars,
             ResendPending, ResendApplied, IssueNew, DropSuperseded, SendAck, TakeAnswer,
             MainLoopLate, ApplyFails, AckPending, AckUnapplies, AckReplayed, AckRefused,
             AckUnauthorized, LocateCentral, Enroll, Hello, Unauthorized, PendingExpires,
             ContentChanges, CycleFails, EnrollElsewhere
    <2> QED BY <2>2, <2>3, <2>4, <2>5
  <1>2. [][Inv /\ [Next]_vars]_vars => NeverGoesBack
    BY <1>1, PTL DEF NeverGoesBack
  <1> QED BY <1>1, InvHolds, PTL DEF Spec, NeverGoesBack

\* A receipt stays current until the State changes ("stays current until the state really
\* changes", registry.py): polls, late and repeated ACKs and expired challenges leave it.
THEOREM StaysCurrent == Spec => CurrentUntilChanged
  <1> DEFINE Kept == ReceiptMatches(receipt)' \/ epoch' # epoch \/ row'.last.result = "rejected"
  <1>1. Inv /\ [Next]_vars =>
          (ReceiptMatches(receipt) /\ row.applied.digest = content /\ receipt' = receipt => Kept)
    <2> SUFFICES ASSUME Inv, [Next]_vars, ReceiptMatches(receipt),
                        row.applied.digest = content, receipt' = receipt
                 PROVE  Kept
      OBVIOUS
    <2>1. /\ AppliedIsLatest(row) /\ TypeOK /\ RowOK
          /\ row.pending \in [id : Nat, digest : Contents \cup {NoContent}, live : BOOLEAN]
          /\ row = [status |-> row.status, issued |-> row.issued, pending |-> row.pending,
                    applied |-> row.applied, last |-> row.last, nonce |-> row.nonce]
      BY RowParts DEF Inv, ReceiptMatches
    <2>2. ASSUME row' = row, epoch' = epoch PROVE Kept
      BY <2>2 DEF ReceiptMatches
    <2>3. ASSUME NEW l \in Loops, IssueNew(l) PROVE Kept
      BY <2>1, <2>3 DEF IssueNew, Unchanged
    <2>4. CASE PendingExpires
      BY <2>1, <2>4 DEF PendingExpires, RowOK, AppliedIsLatest
    <2>5. ASSUME NEW m \in acks, AckPending(m) PROVE Kept
      BY <2>1, <2>5 DEF AckPending, Settles, RowOK, AppliedIsLatest
    <2>6. ASSUME NEW m \in acks, AckUnapplies(m) PROVE Kept
      <3>1. m.result = "rejected"
        BY <2>1, <2>6 DEF AckUnapplies, TypeOK, Acks, Results
      <3>2. row' = [row EXCEPT !.last.result = m.result, !.nonce = NoId]
        BY <2>6 DEF AckUnapplies
      <3>3. row'.last = [row.last EXCEPT !.result = m.result]
        BY <2>1, <3>2
      <3>4. row.last.result = "applied"
        BY <2>1 DEF AppliedIsLatest
      <3>5. row.last \in [seq : Nat, id : Nat, digest : Contents \cup {NoContent},
                          result : Results \cup {"none"}]
        BY <2>1, RowParts
      <3> QED BY <3>1, <3>3, <3>5
    <2>7. CASE Hello
      <3>1. row' = row
        BY <2>1, <2>7 DEF Hello, AppliedIsLatest
      <3> QED BY <2>2, <2>7, <3>1 DEF Hello
    <2>8. CASE Enroll \/ EnrollElsewhere
      BY <2>1, <2>8, Numbers DEF Enroll, EnrollElsewhere, OpenEpoch
    <2>9. \/ row' = row /\ epoch' = epoch
          \/ PendingExpires \/ Hello \/ Enroll \/ EnrollElsewhere
          \/ \E l \in Loops : IssueNew(l)
          \/ \E m \in acks : AckPending(m) \/ AckUnapplies(m)
      BY DEF Next, Session, ServeState, PlayerStep, ServeAck, vars, centralVars,
             ResendPending, ResendApplied, ApplyState, DropSuperseded, SendAck, TakeAnswer,
             MainLoopLate, ApplyFails, AckReplayed, AckRefused, AckUnauthorized,
             LocateCentral, Unauthorized, ContentChanges, CycleFails, Restart
    <2> QED BY <2>2, <2>3, <2>4, <2>5, <2>6, <2>7, <2>8, <2>9
  <1>2. [][Inv /\ [Next]_vars]_vars => CurrentUntilChanged
    BY <1>1, PTL DEF CurrentUntilChanged
  <1> QED BY <1>1, InvHolds, PTL DEF Spec, CurrentUntilChanged

=============================================================================
