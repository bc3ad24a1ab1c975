----------------------------- MODULE CursorReader -----------------------------
(***************************************************************************)
(* Central's drain of one Node stream (nodeapi/hub.py NodeLink and         *)
(* nodeapi/pull.py CursorReader): a reader with a cursor of its own over   *)
(* consumers that are thrown away, committed with what it read.            *)
(*                                                                         *)
(* A sequence is written as its distance from epoch_origin(epoch), since   *)
(* two creations of a stream share none.  Epochs are numbered; the code    *)
(* only compares them for equality.                                        *)
(***************************************************************************)
EXTENDS Naturals, Sequences

CONSTANTS
  MaxStreams,    \* bound: creations of the stream
  MaxMessages,  \* bound: messages published in one creation
  DrainBatch,   \* DRAIN_BATCH, the messages one pull asks for
  MaxMishaps    \* bound: deliveries lost, consumers lost, links or Centrals that die

ASSUME ReaderBounds ==
  /\ MaxStreams \in Nat \ {0} /\ MaxMessages \in Nat /\ DrainBatch \in Nat \ {0} /\ MaxMishaps \in Nat

VARIABLES
  stream,    \* the Node's stream: its creation, its length and what it still keeps
  consumer,  \* the server's side of the reader's consumer
  reader,    \* the CursorReader in memory, or NoReader
  link,      \* where NodeLink is, and what it has seen
  committed, \* the store: the stream's cursor, and its gap and record rows in order
  mishaps

readerVars == <<stream, consumer, reader, link, committed, mishaps>>

-----------------------------------------------------------------------------

Token(epoch, seq) == [epoch |-> epoch, seq |-> seq]
NoToken    == Token(0, 0)
NoReader   == [cursor |-> NoToken, epoch |-> 0, delivered |-> 0, pending |-> <<>>, attached |-> FALSE]
NoConsumer == [epoch |-> 0, next |-> 0, count |-> 0]

\* A row: what was read (and the creation it was really published in), what the stream
\* dropped, or how an epoch ended.
Row(kind, epoch, from, to, of) == [kind |-> kind, epoch |-> epoch, from |-> from, to |-> to, of |-> of]
Read(epoch, seq, of)    == Row("read", epoch, seq, seq, of)
Gap(epoch, after, upTo) == Row("gap", epoch, after + 1, upTo, epoch)
Ended(token)            == Row("end", token.epoch, token.seq + 1, token.seq, token.epoch)

Phases == {"reconcile", "listed", "look", "create", "check", "pull", "commit"}

-----------------------------------------------------------------------------
(* The Node: its components publish, its stream drops and is made again *)

NodePublishes ==
  /\ stream.there /\ stream.last < MaxMessages
  /\ stream' = [stream EXCEPT !.last = @ + 1, !.kept = @ \cup {stream.last + 1}]
  /\ UNCHANGED <<consumer, reader, link, committed, mishaps>>

\* A full stream drops its oldest message, a keyed one the older value of a key.
StreamDrops ==
  /\ stream.there
  /\ \E m \in stream.kept : stream' = [stream EXCEPT !.kept = @ \ {m}]
  /\ UNCHANGED <<consumer, reader, link, committed, mishaps>>

\* Its consumers go with it.
StreamGoes ==
  /\ stream.there
  /\ stream' = [stream EXCEPT !.there = FALSE, !.last = 0, !.kept = {}]
  /\ consumer' = NoConsumer
  /\ UNCHANGED <<reader, link, committed, mishaps>>

StreamIsMade ==
  /\ ~stream.there /\ stream.epoch < MaxStreams
  /\ stream' = [epoch |-> stream.epoch + 1, there |-> TRUE, last |-> 0, kept |-> {}]
  /\ UNCHANGED <<consumer, reader, link, committed, mishaps>>

-----------------------------------------------------------------------------
(* NodeLink.reconcile *)

LinkGoes(phase) == link' = [link EXCEPT !.phase = phase]

\* What the names and descriptions say of the stream.
Lists ==
  /\ link.phase = "reconcile"
  /\ link' = [phase |-> "listed", seen |-> IF stream.there THEN stream.epoch ELSE 0]
  /\ UNCHANGED <<stream, consumer, reader, committed, mishaps>>

\* A cursor whose stream is gone ends its epoch; a stream without a reader gets one.
Applies ==
  /\ link.phase = "listed"
  /\ IF link.seen = 0
     THEN /\ committed' = IF committed.cursor = NoToken THEN committed
                          ELSE [cursor |-> NoToken, rows |-> Append(committed.rows, Ended(committed.cursor))]
          /\ reader' = NoReader /\ consumer' = NoConsumer
          /\ LinkGoes("reconcile")
     ELSE /\ reader' = IF reader.attached THEN reader
                       ELSE [NoReader EXCEPT !.cursor = committed.cursor, !.attached = TRUE]
          /\ LinkGoes("look")
          /\ UNCHANGED <<committed, consumer>>
  /\ UNCHANGED <<stream, mishaps>>

-----------------------------------------------------------------------------
(* CursorReader.read *)

\* StreamAbsent: the drain ends and the link reconciles.
StreamIsAbsent == ~stream.there /\ LinkGoes("reconcile") /\ UNCHANGED <<stream, consumer, reader, committed, mishaps>>

PullBegins == link' = [phase |-> "pull", seen |-> 0]

\* A reader with a consumer goes on with it; one without makes it, in three calls.
LooksForConsumer ==
  /\ link.phase = "look"
  /\ IF reader.epoch # 0
     THEN PullBegins /\ UNCHANGED <<stream, consumer, reader, committed, mishaps>>
     ELSE \/ StreamIsAbsent
          \/ /\ stream.there
             /\ link' = [phase |-> "create", seen |-> stream.epoch]
             /\ UNCHANGED <<stream, consumer, reader, committed, mishaps>>

\* A bug to catch: the cursor of an earlier creation is kept for this one.
StartsAt_Kept == IF reader.cursor = NoToken THEN Token(link.seen, 0) ELSE reader.cursor

\* Where the consumer of epoch link.seen starts: at the cursor, or before the first.
StartsAt == IF reader.cursor.epoch = link.seen THEN reader.cursor ELSE Token(link.seen, 0)

Creates ==
  /\ link.phase = "create"
  /\ \/ StreamIsAbsent
     \/ /\ stream.there
        /\ consumer' = [epoch |-> stream.epoch, next |-> StartsAt.seq + 1, count |-> 0]
        /\ LinkGoes("check")
        /\ UNCHANGED <<stream, reader, committed, mishaps>>

\* A bug to catch: the stream's epoch is not looked at again after the create.
SameEpoch_NotChecked == TRUE

SameEpoch == stream.epoch = link.seen

\* The cursor, and the end of the old epoch, change only once a consumer exists.
Checks ==
  /\ link.phase = "check"
  /\ \/ StreamIsAbsent
     \/ /\ stream.there
        /\ IF SameEpoch
           THEN /\ reader' = [reader EXCEPT
                     !.cursor = StartsAt, !.epoch = link.seen, !.delivered = 0,
                     !.pending = IF reader.cursor.epoch \in {0, link.seen} THEN @
                                 ELSE Append(@, Ended(reader.cursor))]
                /\ PullBegins
                /\ UNCHANGED consumer
           ELSE /\ consumer' = NoConsumer
                /\ LinkGoes("look")
                /\ UNCHANGED reader
        /\ UNCHANGED <<stream, committed, mishaps>>

\* What the consumer has still to deliver, in order.
Due == {m \in stream.kept : m >= consumer.next}

\* Nothing sent to the consumer is missing: the next delivery's consumer sequence follows the last.
InOrder == reader.delivered = consumer.count

\* _take: the message, with the gap before it.
Taken(seq) ==
  IF seq <= reader.cursor.seq THEN reader
  ELSE LET cursor == reader.cursor
           gap == IF seq = cursor.seq + 1 THEN <<>> ELSE <<Gap(cursor.epoch, cursor.seq, seq - 1)>>
       IN [reader EXCEPT !.cursor.seq = seq,
             !.pending = @ \o gap \o <<Read(cursor.epoch, seq, consumer.epoch)>>]

\* The server sends a pull its next message; `seen` counts them.
Sends(m) ==
  /\ link.phase = "pull" /\ link.seen < DrainBatch
  /\ consumer # NoConsumer /\ m \in Due /\ \A n \in Due : m <= n
  /\ consumer' = [consumer EXCEPT !.next = m + 1, !.count = @ + 1]
  /\ link' = [link EXCEPT !.seen = @ + 1]
  /\ UNCHANGED <<stream, committed>>

Delivers ==
  \E m \in stream.kept :
    /\ Sends(m) /\ InOrder
    /\ reader' = [Taken(m) EXCEPT !.delivered = @ + 1]
    /\ UNCHANGED mishaps

DeliveryIsLost ==
  \E m \in stream.kept :
    Sends(m) /\ mishaps < MaxMishaps /\ mishaps' = mishaps + 1 /\ UNCHANGED reader

\* A full batch or a closing status, which never overtakes the delivery before it.
Closes ==
  consumer # NoConsumer /\ InOrder /\ (link.seen > 0 \/ Due = {})

\* A bug to catch: silence, and a consumer deleted, are taken for an empty stream.
Intact_Silent(complete) == TRUE

Intact(complete) == complete

\* The pull's end: closed, or with a jump, a consumer deleted or silence, which costs the consumer.
PullEnds ==
  /\ link.phase = "pull"
  /\ \E complete \in BOOLEAN :
       /\ complete => Closes
       /\ IF complete \/ consumer = NoConsumer \/ ~InOrder THEN UNCHANGED mishaps
          ELSE mishaps < MaxMishaps /\ mishaps' = mishaps + 1
       /\ reader' = [reader EXCEPT !.epoch = IF Intact(complete) THEN @ ELSE 0]
       /\ consumer' = IF Intact(complete) THEN consumer ELSE NoConsumer
       /\ link' = [phase |-> "commit", seen |-> IF Intact(complete) THEN 1 ELSE 0]
  /\ UNCHANGED <<stream, committed>>

\* The connection fails under a call: the cursor stands, what a pull received is not taken, a consumer
\* just made is left behind, and the drain reads again or the link reconciles.
CallRaises ==
  /\ link.phase \in {"create", "check", "pull"} /\ mishaps < MaxMishaps
  /\ link.phase = "pull" => \A i \in DOMAIN reader.pending : reader.pending[i].kind = "end"
  /\ mishaps' = mishaps + 1
  /\ LinkGoes("look") \/ LinkGoes("reconcile")
  /\ consumer' = IF link.phase = "pull" THEN consumer ELSE NoConsumer
  /\ UNCHANGED <<stream, reader, committed>>

\* The batch's rows and its cursor in one transaction; the link reconciles after a batch
\* that cost the consumer, a birth, or other names on the bus.
Commits ==
  /\ link.phase = "commit"
  /\ committed' = [cursor |-> reader.cursor, rows |-> committed.rows \o reader.pending]
  /\ reader' = [reader EXCEPT !.pending = <<>>]
  /\ LinkGoes("reconcile") \/ (link.seen = 1 /\ LinkGoes("look"))
  /\ UNCHANGED <<stream, consumer, mishaps>>

-----------------------------------------------------------------------------
(* Mishaps *)

\* The server reaps the consumer.
ConsumerIsLost ==
  /\ consumer # NoConsumer /\ mishaps < MaxMishaps
  /\ consumer' = NoConsumer
  /\ mishaps' = mishaps + 1
  /\ UNCHANGED <<stream, reader, link, committed>>

\* The link's client closes, or Central stops: the next link starts from the store.
LinkEnds ==
  /\ link.phase # "reconcile" /\ mishaps < MaxMishaps
  /\ reader' = NoReader /\ consumer' = NoConsumer
  /\ link' = [phase |-> "reconcile", seen |-> 0]
  /\ mishaps' = mishaps + 1
  /\ UNCHANGED <<stream, committed>>

-----------------------------------------------------------------------------

ReaderInit ==
  /\ stream = [epoch |-> 1, there |-> TRUE, last |-> 0, kept |-> {}]
  /\ consumer = NoConsumer /\ reader = NoReader
  /\ link = [phase |-> "reconcile", seen |-> 0]
  /\ committed = [cursor |-> NoToken, rows |-> <<>>] /\ mishaps = 0

NodeLinkStep ==
  \/ Lists \/ Applies \/ LooksForConsumer \/ Creates \/ Checks
  \/ Delivers \/ DeliveryIsLost \/ PullEnds \/ CallRaises \/ Commits

ReaderNext ==
  \/ NodePublishes \/ StreamDrops \/ StreamGoes \/ StreamIsMade
  \/ NodeLinkStep \/ ConsumerIsLost \/ LinkEnds

\* A running link goes on; nothing makes the Node publish, or its stream stay.
ReaderFairness == WF_readerVars(NodeLinkStep)

ReaderSpec == ReaderInit /\ [][ReaderNext]_readerVars /\ ReaderFairness

-----------------------------------------------------------------------------
(* Properties *)

Tokens == [epoch : 0..MaxStreams, seq : 0..MaxMessages]

ReaderTypeOK ==
  /\ stream \in [epoch : 1..MaxStreams, there : BOOLEAN, last : 0..MaxMessages, kept : SUBSET (1..MaxMessages)]
  /\ reader.cursor \in Tokens /\ committed.cursor \in Tokens
  /\ link.phase \in Phases
  /\ consumer.epoch \in {0, stream.epoch}
  /\ reader.epoch \in {0, reader.cursor.epoch}

\* Where the first `i` rows end, if their epoch goes on.
After(rows, i) == IF i = 0 \/ rows[i].kind = "end" THEN NoToken ELSE Token(rows[i].epoch, rows[i].to)

Opens(rows, i)   == rows[i].from = 1 /\ \A j \in 1..(i - 1) : rows[j].epoch < rows[i].epoch
Follows(rows, i) == rows[i].from = After(rows, i - 1).seq + 1 /\ rows[i].epoch = After(rows, i - 1).epoch

Contiguous(rows, cursor) ==
  /\ \A i \in DOMAIN rows :
       /\ rows[i].of = rows[i].epoch
       /\ IF After(rows, i - 1) = NoToken THEN Opens(rows, i) ELSE Follows(rows, i)
  /\ After(rows, Len(rows)) = IF cursor.seq > 0 THEN cursor ELSE NoToken

\* "a gap row ..., the raw record keyed (stream, epoch, sequence) ..., then the cursor. A
\* crash mid-commit resumes from the store's cursor" (hub.py): the rows of every epoch
\* follow one another without a hole, an overlap or a repeat, an epoch ends once, where it
\* was read to, no message is recorded under another creation's epoch, and the cursor is
\* where the rows end.
RowsAreContiguous == Contiguous(committed.rows, committed.cursor)

\* "A stream-sequence jump with a contiguous consumer sequence is what the stream itself
\* dropped" (pull.py): no message is counted as lost while the stream still has it.
GapsAreDropped ==
  \A i \in DOMAIN committed.rows :
    LET row == committed.rows[i]
    IN row.kind = "gap" /\ row.epoch = stream.epoch => (row.from..row.to) \cap stream.kept = {}

\* What a reader committed is every message once, and as lost only what the stream dropped.
RowsAreTrue == RowsAreContiguous /\ GapsAreDropped

\* Every message the stream keeps is read in the end, or the stream goes, through lost
\* deliveries, lost consumers, links that end and creations under a create.
CatchesUp ==
  <>[](stream.there =>
         \A m \in stream.kept : committed.cursor.epoch = stream.epoch /\ m <= committed.cursor.seq)
==============================================================================
