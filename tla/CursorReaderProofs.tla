-------------------------- MODULE CursorReaderProofs --------------------------
(***************************************************************************)
(* What a reader commits is every message once, and as lost only what the  *)
(* stream dropped, for any number of creations, messages and mishaps.      *)
(*                                                                         *)
(* The argument: the committed rows, and those with what the reader has    *)
(* read but not committed, are each a sound log up to their cursor; while  *)
(* nothing sent to the reader's consumer is missing, that consumer goes on *)
(* exactly where the reader stands.                                        *)
(***************************************************************************)
EXTENDS CursorReader, SequenceTheorems, TLAPS

Rows == [kind : {"read", "gap", "end"}, epoch : Nat, from : Nat, to : Nat, of : Nat]

Streams   == [epoch : 1..MaxStreams, there : BOOLEAN, last : 0..MaxMessages, kept : SUBSET (1..MaxMessages)]
Consumers == [epoch : Nat, next : Nat, count : Nat]
Readers   == [cursor : Tokens, epoch : 0..MaxStreams, delivered : Nat, pending : Seq(Rows), attached : BOOLEAN]
Stores    == [cursor : Tokens, rows : Seq(Rows)]

\* The types of every variable; a stream that is gone keeps nothing.
ReaderFields ==
  /\ stream \in Streams /\ stream.kept \subseteq 1..stream.last
  /\ consumer \in Consumers /\ reader \in Readers /\ committed \in Stores
  /\ link \in [phase : Phases, seen : Nat] /\ mishaps \in Nat
  /\ reader.epoch \in {0, reader.cursor.epoch}
  /\ ~reader.attached => reader = NoReader

\* The rows are of creations there were, none of one later than the cursor's, and a cursor
\* at 0 has none of its own.
EpochsOK(s, rows, cursor) ==
  /\ cursor.epoch <= s.epoch
  /\ cursor.epoch = 0 => cursor.seq = 0
  /\ \A i \in DOMAIN rows :
       LET epoch == rows[i].epoch IN
         /\ epoch \in 1..s.epoch
         /\ cursor.epoch # 0 => epoch <= cursor.epoch /\ (cursor.seq = 0 => epoch < cursor.epoch)
         /\ cursor.epoch = 0 /\ s.there => epoch < s.epoch

GapsOK(s, rows) ==
  \A i \in DOMAIN rows :
    LET row == rows[i]
    IN row.kind = "gap" /\ row.epoch = s.epoch
         => (s.there => row.to <= s.last) /\ (row.from..row.to) \cap s.kept = {}

\* What rows that end at a cursor are beside a stream.
Sound(s, rows, cursor) == Contiguous(rows, cursor) /\ EpochsOK(s, rows, cursor) /\ GapsOK(s, rows)

\* A link has seen the stream as it was: one it saw gone is another creation now.
LinkOK ==
  /\ link.phase \in {"look", "create", "check", "pull", "commit"} => reader.attached
  /\ link.phase = "listed" =>
       link.seen <= stream.epoch /\ (link.seen = 0 /\ stream.there => committed.cursor.epoch < stream.epoch)
  /\ link.phase \in {"create", "check"} => reader.epoch = 0 /\ link.seen \in 1..stream.epoch
  /\ link.phase = "pull" => reader.epoch # 0

\* A consumer is of the stream as it is; nothing missing, it goes on where the reader stands.
ConsumerOK ==
  consumer # NoConsumer =>
    /\ consumer.epoch = stream.epoch /\ stream.there
    /\ IF link.phase = "check"
       THEN stream.epoch = link.seen => consumer.next = StartsAt.seq + 1 /\ consumer.count = 0
       ELSE /\ reader.epoch = stream.epoch
            /\ reader.delivered <= consumer.count
            /\ InOrder => consumer.next = reader.cursor.seq + 1

LogsOK ==
  /\ Sound(stream, committed.rows, committed.cursor)
  /\ reader.attached => Sound(stream, committed.rows \o reader.pending, reader.cursor)

ReaderInv == ReaderFields /\ LinkOK /\ ConsumerOK /\ LogsOK

-----------------------------------------------------------------------------
(* Sound logs *)

LEMMA TokenIs ==
  ASSUME NEW t \in Tokens
  PROVE  /\ t.epoch \in Nat /\ t.seq \in Nat /\ t = Token(t.epoch, t.seq)
         /\ NoToken \in Tokens
  BY ReaderBounds DEF Tokens, Token, NoToken

\* A row appended leaves those before it where they were.
LEMMA AppendIs ==
  ASSUME NEW rows \in Seq(Rows), NEW row \in Rows
  PROVE  /\ Append(rows, row) \in Seq(Rows) /\ Len(rows) \in Nat
         /\ DOMAIN rows = 1..Len(rows) /\ DOMAIN Append(rows, row) = 1..(Len(rows) + 1)
         /\ \A i \in DOMAIN rows : rows[i] \in Rows /\ Append(rows, row)[i] = rows[i]
         /\ Append(rows, row)[Len(rows) + 1] = row
         /\ Len(Append(rows, row)) = Len(rows) + 1
         /\ \A i \in 0..Len(rows) : After(Append(rows, row), i) = After(rows, i)
  <1> DEFINE more == Append(rows, row)
  <1>1. /\ more \in Seq(Rows) /\ Len(rows) \in Nat
        /\ DOMAIN rows = 1..Len(rows) /\ DOMAIN more = 1..(Len(rows) + 1)
        /\ \A i \in DOMAIN rows : rows[i] \in Rows /\ more[i] = rows[i]
        /\ more[Len(rows) + 1] = row /\ Len(more) = Len(rows) + 1
    OBVIOUS
  <1>2. \A i \in 0..Len(rows) : After(more, i) = After(rows, i)
    BY <1>1 DEF After
  <1> QED BY <1>1, <1>2

\* ... and how each opens or follows.
LEMMA AppendKeeps ==
  ASSUME NEW rows \in Seq(Rows), NEW row \in Rows, NEW i \in DOMAIN rows
  PROVE  /\ Opens(rows, i) => Opens(Append(rows, row), i)
         /\ Follows(rows, i) => Follows(Append(rows, row), i)
  <1> DEFINE more == Append(rows, row)
  <1>1. /\ DOMAIN rows = 1..Len(rows) /\ Len(rows) \in Nat
        /\ \A j \in DOMAIN rows : more[j] = rows[j]
        /\ \A j \in 0..Len(rows) : After(more, j) = After(rows, j)
    BY AppendIs
  <1> HIDE DEF more
  <1>2. Opens(rows, i) => Opens(more, i)
    BY <1>1 DEF Opens
  <1>3. Follows(rows, i) => Follows(more, i)
    BY <1>1 DEF Follows
  <1> QED BY <1>2, <1>3 DEF more

\* A row that starts where the cursor stands, and opens its epoch or follows in it.
LEMMA AppendedContiguous ==
  ASSUME NEW rows \in Seq(Rows), NEW cursor \in Tokens, NEW row \in Rows, NEW end \in Tokens,
         Contiguous(rows, cursor), cursor.epoch # 0,
         cursor.seq = 0 => \A i \in DOMAIN rows : rows[i].epoch < cursor.epoch,
         row.epoch = cursor.epoch, row.of = row.epoch, row.from = cursor.seq + 1,
         IF row.kind = "end" THEN end.seq = 0 ELSE row.to > 0 /\ end = Token(row.epoch, row.to)
  PROVE  Contiguous(Append(rows, row), end)
  <1> DEFINE more == Append(rows, row)
  <1>1. /\ Len(rows) \in Nat /\ DOMAIN rows = 1..Len(rows) /\ DOMAIN more = 1..(Len(rows) + 1)
        /\ \A i \in DOMAIN rows : more[i] = rows[i]
        /\ more[Len(rows) + 1] = row /\ Len(more) = Len(rows) + 1
        /\ \A i \in 0..Len(rows) : After(more, i) = After(rows, i)
    BY AppendIs
  <1>2. ASSUME NEW i \in DOMAIN rows
        PROVE  /\ more[i].of = more[i].epoch
               /\ IF After(more, i - 1) = NoToken THEN Opens(more, i) ELSE Follows(more, i)
    <2>a. (Opens(rows, i) => Opens(more, i)) /\ (Follows(rows, i) => Follows(more, i))
      BY AppendKeeps
    <2> HIDE DEF more
    <2>1. i - 1 \in 0..Len(rows)
      BY <1>1
    <2>2. After(more, i - 1) = After(rows, i - 1)
      BY <1>1, <2>1
    <2>3. /\ rows[i].of = rows[i].epoch
          /\ IF After(rows, i - 1) = NoToken THEN Opens(rows, i) ELSE Follows(rows, i)
      BY DEF Contiguous
    <2>b. more[i] = rows[i]
      BY <1>1
    <2>4. CASE After(rows, i - 1) = NoToken
      BY <2>a, <2>b, <2>2, <2>3, <2>4
    <2>5. CASE After(rows, i - 1) # NoToken
      BY <2>a, <2>b, <2>2, <2>3, <2>5
    <2> QED BY <2>4, <2>5
  <1> HIDE DEF more
  <1>3. LET i == Len(rows) + 1 IN
          IF After(more, i - 1) = NoToken THEN Opens(more, i) ELSE Follows(more, i)
    <2>1. After(more, Len(rows)) = IF cursor.seq > 0 THEN cursor ELSE NoToken
      BY <1>1 DEF Contiguous
    <2>2. CASE cursor.seq > 0
      BY <1>1, <2>1, <2>2, TokenIs DEF Follows, NoToken, Token
    <2>3. CASE cursor.seq = 0
      BY <1>1, <2>1, <2>3, TokenIs DEF Opens
    <2> QED BY <2>2, <2>3, TokenIs
  <1>4. After(more, Len(more)) = IF end.seq > 0 THEN end ELSE NoToken
    <2>1. After(more, Len(more)) = IF row.kind = "end" THEN NoToken ELSE Token(row.epoch, row.to)
      BY <1>1 DEF After
    <2>2. row.kind # "end" => end.seq = row.to
      BY DEF Token
    <2> QED BY <2>1, <2>2
  <1>5. ASSUME NEW i \in DOMAIN more
        PROVE  /\ more[i].of = more[i].epoch
               /\ IF After(more, i - 1) = NoToken THEN Opens(more, i) ELSE Follows(more, i)
    <2>1. i \in DOMAIN rows \/ i = Len(rows) + 1
      BY <1>1
    <2>2. CASE i = Len(rows) + 1
      BY <1>1, <1>3, <2>2
    <2> QED BY <1>2, <2>1, <2>2
  <1> QED BY <1>4, <1>5 DEF Contiguous, more

\* What is read, or was dropped, after the cursor goes on in its epoch.
LEMMA GoesOn ==
  ASSUME NEW s \in Streams, NEW rows \in Seq(Rows), NEW cursor \in Tokens, NEW row \in Rows,
         NEW end \in Tokens, Sound(s, rows, cursor), cursor.epoch # 0,
         row.kind # "end", row.epoch = cursor.epoch, row.of = row.epoch,
         row.from = cursor.seq + 1, row.to > 0, end = Token(row.epoch, row.to),
         row.kind = "gap" /\ row.epoch = s.epoch
           => (s.there => row.to <= s.last) /\ (row.from..row.to) \cap s.kept = {}
  PROVE  Sound(s, Append(rows, row), end)
  <1>1. Contiguous(Append(rows, row), end)
    BY AppendedContiguous DEF Sound, EpochsOK
  <1>2. EpochsOK(s, Append(rows, row), end)
    BY AppendIs, TokenIs DEF Sound, EpochsOK, Token, Streams
  <1>3. GapsOK(s, Append(rows, row))
    BY AppendIs DEF Sound, GapsOK
  <1> QED BY <1>1, <1>2, <1>3 DEF Sound

\* The end of an epoch, as the link or the reader writes it.
LEMMA EndsEpoch ==
  ASSUME NEW s \in Streams, NEW rows \in Seq(Rows), NEW cursor \in Tokens, NEW end \in Tokens,
         Sound(s, rows, cursor), cursor.epoch # 0, end.seq = 0,
         end.epoch \in {0, s.epoch}, end.epoch # 0 \/ s.there => cursor.epoch < s.epoch
  PROVE  Ended(cursor) \in Rows /\ Sound(s, Append(rows, Ended(cursor)), end)
  <1>1. Ended(cursor) \in Rows
    BY TokenIs DEF Ended, Row, Rows
  <1>2. Contiguous(Append(rows, Ended(cursor)), end)
    BY <1>1, AppendedContiguous, TokenIs DEF Sound, EpochsOK, Ended, Row
  <1>3. EpochsOK(s, Append(rows, Ended(cursor)), end)
    BY <1>1, AppendIs, TokenIs DEF Sound, EpochsOK, Ended, Row, Streams
  <1>4. GapsOK(s, Append(rows, Ended(cursor)))
    BY <1>1, AppendIs DEF Sound, GapsOK, Ended, Row
  <1> QED BY <1>1, <1>2, <1>3, <1>4 DEF Sound

\* A reader without a cursor starts before the first of the stream there is.
LEMMA BeginsEpoch ==
  ASSUME NEW s \in Streams, NEW rows \in Seq(Rows), Sound(s, rows, NoToken), s.there
  PROVE  Sound(s, rows, Token(s.epoch, 0))
  BY DEF Sound, Contiguous, EpochsOK, NoToken, Token, Streams

\* What the stream does leaves a log sound: what it drops or gains is no part of a gap, and a
\* creation is later than all rows.
LEMMA StaysSound ==
  ASSUME NEW s \in Streams, NEW t \in Streams, NEW rows \in Seq(Rows), NEW cursor \in Tokens,
         Sound(s, rows, cursor),
         \/ /\ t.epoch = s.epoch /\ (t.there => s.there /\ s.last <= t.last)
            /\ t.kept \subseteq s.kept \cup {n \in Nat : s.there /\ n > s.last}
         \/ t.epoch > s.epoch
  PROVE  Sound(t, rows, cursor)
  <1>0. \A i \in DOMAIN rows : rows[i] \in Rows
    OBVIOUS
  <1>1. Contiguous(rows, cursor)
    BY DEF Sound
  <1>2. s.epoch <= t.epoch /\ s.epoch \in Nat /\ t.epoch \in Nat /\ s.last \in Nat /\ t.last \in Nat
    BY DEF Streams
  <1>3. EpochsOK(s, rows, cursor) /\ GapsOK(s, rows)
    BY DEF Sound
  <1>4. cursor.epoch \in Nat
    BY TokenIs
  <1>5. cursor.epoch <= t.epoch /\ (cursor.epoch = 0 => cursor.seq = 0)
    BY <1>2, <1>3, <1>4 DEF EpochsOK
  <1>6. ASSUME NEW i \in DOMAIN rows
        PROVE  LET epoch == rows[i].epoch IN
                 /\ epoch \in 1..t.epoch
                 /\ cursor.epoch # 0 => epoch <= cursor.epoch /\ (cursor.seq = 0 => epoch < cursor.epoch)
                 /\ cursor.epoch = 0 /\ t.there => epoch < t.epoch
    <2>1. LET epoch == rows[i].epoch IN
            /\ epoch \in 1..s.epoch
            /\ cursor.epoch # 0 => epoch <= cursor.epoch /\ (cursor.seq = 0 => epoch < cursor.epoch)
            /\ cursor.epoch = 0 /\ s.there => epoch < s.epoch
      BY <1>3 DEF EpochsOK
    <2> QED BY <1>2, <2>1
  <1>7. ASSUME NEW i \in DOMAIN rows, rows[i].kind = "gap", rows[i].epoch = t.epoch
        PROVE  (t.there => rows[i].to <= t.last) /\ (rows[i].from..rows[i].to) \cap t.kept = {}
    <2>1. rows[i].epoch <= s.epoch
      BY <1>2, <1>3 DEF EpochsOK
    <2>2. t.epoch = s.epoch
      BY <1>2, <1>7, <2>1
    <2>3. (s.there => rows[i].to <= s.last) /\ (rows[i].from..rows[i].to) \cap s.kept = {}
      BY <1>3, <1>7, <2>2 DEF GapsOK
    <2>4. rows[i].to \in Nat /\ rows[i].from \in Nat
      BY <1>0 DEF Rows
    <2>5. /\ t.there => s.there /\ s.last <= t.last
          /\ t.kept \subseteq s.kept \cup {n \in Nat : s.there /\ n > s.last}
      BY <1>2, <2>2
    <2> QED BY <1>2, <2>3, <2>4, <2>5
  <1>8. EpochsOK(t, rows, cursor)
    BY <1>5, <1>6 DEF EpochsOK
  <1>9. GapsOK(t, rows)
    BY <1>7 DEF GapsOK
  <1> QED BY <1>1, <1>8, <1>9 DEF Sound

-----------------------------------------------------------------------------
(* The steps *)

LEMMA InitReaderInv == ReaderInit => ReaderInv
  <1> SUFFICES ASSUME ReaderInit PROVE ReaderInv
    OBVIOUS
  <1> USE ReaderBounds DEF ReaderInit
  <1>1. ReaderFields
    BY DEF ReaderFields, Streams, Consumers, Readers, Stores, Tokens, Phases, NoReader, NoConsumer,
           NoToken, Token
  <1>2. Sound(stream, committed.rows, committed.cursor)
    BY DEF Sound, Contiguous, EpochsOK, GapsOK, After, NoToken, Token
  <1> QED BY <1>1, <1>2 DEF ReaderInv, LinkOK, ConsumerOK, LogsOK, NoReader, NoToken, Token

\* What the stream does, and the consumers that go with it.
LEMMA StreamMoves ==
  ASSUME ReaderInv, stream' \in Streams, stream'.kept \subseteq 1..stream'.last,
         consumer' \in {consumer, NoConsumer}, UNCHANGED <<reader, link, committed, mishaps>>,
         \/ /\ stream'.epoch = stream.epoch /\ (stream'.there => stream.there /\ stream.last <= stream'.last)
            /\ stream'.kept \subseteq stream.kept \cup {n \in Nat : stream.there /\ n > stream.last}
            /\ stream'.there \/ consumer' = NoConsumer
         \/ stream'.epoch > stream.epoch /\ consumer' = NoConsumer
  PROVE  ReaderInv'
  <1>1. /\ stream \in Streams /\ committed.rows \in Seq(Rows) /\ committed.cursor \in Tokens
        /\ reader.pending \in Seq(Rows) /\ reader.cursor \in Tokens
    BY DEF ReaderInv, ReaderFields, Readers, Stores
  <1>2. ReaderFields'
    BY DEF ReaderInv, ReaderFields, Consumers, NoConsumer
  <1>3. Sound(stream', committed.rows, committed.cursor)
    BY <1>1, StaysSound DEF ReaderInv, LogsOK
  <1>4. reader.attached => Sound(stream', committed.rows \o reader.pending, reader.cursor)
    <2>1. committed.rows \o reader.pending \in Seq(Rows)
      BY <1>1
    <2> QED BY <1>1, <2>1, StaysSound DEF ReaderInv, LogsOK
  <1>5. LogsOK'
    BY <1>3, <1>4 DEF LogsOK
  <1>6. LinkOK'
    BY <1>1, <1>3, TokenIs DEF ReaderInv, LinkOK, LogsOK, Sound, EpochsOK, ReaderFields, Streams
  <1>7. ConsumerOK'
    BY <1>1 DEF ReaderInv, ConsumerOK, StartsAt, InOrder
  <1> QED BY <1>2, <1>5, <1>6, <1>7 DEF ReaderInv

LEMMA StreamSteps ==
  ASSUME ReaderInv, NodePublishes \/ StreamDrops \/ StreamGoes \/ StreamIsMade
  PROVE  ReaderInv'
  <1>0. stream \in Streams /\ stream.kept \subseteq 1..stream.last /\ MaxMessages \in Nat
    BY ReaderBounds DEF ReaderInv, ReaderFields
  <1>1. CASE NodePublishes
    <2>1. /\ stream' = [stream EXCEPT !.last = stream.last + 1, !.kept = stream.kept \cup {stream.last + 1}]
          /\ stream.there /\ stream.last < MaxMessages
          /\ UNCHANGED <<consumer, reader, link, committed, mishaps>>
      BY <1>1 DEF NodePublishes
    <2>2. /\ stream' \in Streams /\ stream'.epoch = stream.epoch /\ stream'.there
          /\ stream'.last = stream.last + 1 /\ stream'.kept = stream.kept \cup {stream.last + 1}
      <3>1. stream.last + 1 \in 1..MaxMessages /\ stream.kept \cup {stream.last + 1} \subseteq 1..MaxMessages
        BY <1>0, <2>1 DEF Streams
      <3>2. stream' = [epoch |-> stream.epoch, there |-> stream.there, last |-> stream.last + 1,
                       kept |-> stream.kept \cup {stream.last + 1}]
        BY <1>0, <2>1 DEF Streams
      <3>3. stream.last + 1 \in 0..MaxMessages /\ stream.epoch \in 1..MaxStreams /\ stream.there
        BY <1>0, <2>1, <3>1 DEF Streams
      <3> QED BY <3>1, <3>2, <3>3 DEF Streams
    <2>3. /\ stream'.kept \subseteq 1..stream'.last /\ stream.last <= stream'.last
          /\ stream'.kept \subseteq stream.kept \cup {n \in Nat : stream.there /\ n > stream.last}
      BY <1>0, <2>1, <2>2 DEF Streams
    <2> QED BY <2>1, <2>2, <2>3, StreamMoves
  <1>2. CASE StreamDrops
    BY <1>0, <1>2, StreamMoves DEF StreamDrops, Streams
  <1>3. CASE StreamGoes
    <2>1. /\ stream' \in Streams /\ stream'.epoch = stream.epoch /\ ~stream'.there /\ stream'.kept = {}
          /\ consumer' = NoConsumer /\ UNCHANGED <<reader, link, committed, mishaps>>
      <3>1. stream' = [epoch |-> stream.epoch, there |-> FALSE, last |-> 0, kept |-> {}]
        BY <1>0, <1>3 DEF StreamGoes, Streams
      <3>2. stream.epoch \in 1..MaxStreams /\ 0 \in 0..MaxMessages
        BY <1>0 DEF Streams
      <3> QED BY <1>3, <3>1, <3>2 DEF StreamGoes, Streams
    <2> QED BY <2>1, StreamMoves
  <1>4. CASE StreamIsMade
    <2>1. consumer = NoConsumer
      BY <1>4 DEF ReaderInv, ConsumerOK, StreamIsMade
    <2>2. /\ stream' \in Streams /\ stream'.epoch > stream.epoch /\ stream'.kept = {}
          /\ UNCHANGED <<consumer, reader, link, committed, mishaps>>
      <3>1. stream' = [epoch |-> stream.epoch + 1, there |-> TRUE, last |-> 0, kept |-> {}]
        BY <1>4 DEF StreamIsMade
      <3>2. stream.epoch + 1 \in 1..MaxStreams /\ stream.epoch + 1 > stream.epoch /\ 0 \in 0..MaxMessages
        BY <1>0, <1>4, ReaderBounds DEF StreamIsMade, Streams
      <3> QED BY <1>4, <3>1, <3>2 DEF StreamIsMade, Streams
    <2> QED BY <2>1, <2>2, StreamMoves
  <1> QED BY <1>1, <1>2, <1>3, <1>4

\* A step that leaves the logs alone.
LEMMA LogsStay ==
  ASSUME LogsOK, UNCHANGED <<stream, committed, reader.attached, reader.cursor, reader.pending>>
  PROVE  LogsOK'
  BY DEF LogsOK

LEMMA ListsStep ==
  ASSUME ReaderInv, Lists
  PROVE  ReaderInv'
  <1> USE DEF Lists
  <1>1. ReaderFields'
    BY DEF ReaderInv, ReaderFields, Phases, Streams
  <1>2. LinkOK'
    BY DEF ReaderInv, LinkOK, ReaderFields, Streams
  <1>3. ConsumerOK'
    BY DEF ReaderInv, ConsumerOK, InOrder
  <1> QED BY <1>1, <1>2, <1>3, LogsStay DEF ReaderInv

LEMMA AppliesStep ==
  ASSUME ReaderInv, Applies
  PROVE  ReaderInv'
  <1>0. /\ stream \in Streams /\ committed \in Stores /\ reader \in Readers
        /\ committed.rows \in Seq(Rows) /\ committed.cursor \in Tokens /\ NoToken \in Tokens
    BY TokenIs DEF ReaderInv, ReaderFields, Stores
  <1>1. CASE link.seen = 0
    <2>0. /\ reader' = NoReader /\ consumer' = NoConsumer /\ stream' = stream /\ mishaps' = mishaps
          /\ link' = [link EXCEPT !.phase = "reconcile"] /\ link.phase = "listed"
          /\ committed' = IF committed.cursor = NoToken THEN committed
                          ELSE [cursor |-> NoToken, rows |-> Append(committed.rows, Ended(committed.cursor))]
      BY <1>1 DEF Applies, LinkGoes
    <2>1. Sound(stream, committed'.rows, committed'.cursor) /\ committed' \in Stores
      <3>1. CASE committed.cursor = NoToken
        BY <1>0, <2>0, <3>1 DEF ReaderInv, LogsOK
      <3>2. CASE committed.cursor # NoToken
        <4>1. Sound(stream, committed.rows, committed.cursor)
          BY DEF ReaderInv, LogsOK
        <4>2. committed.cursor.epoch # 0
          BY <1>0, <3>2, <4>1, TokenIs DEF Sound, EpochsOK, NoToken, Token
        <4>3. stream.there => committed.cursor.epoch < stream.epoch
          BY <1>1, <2>0 DEF ReaderInv, LinkOK
        <4>4. /\ Ended(committed.cursor) \in Rows
              /\ Sound(stream, Append(committed.rows, Ended(committed.cursor)), NoToken)
          <5>1. NoToken.seq = 0 /\ NoToken.epoch = 0
            BY DEF NoToken, Token
          <5> QED BY <1>0, <4>1, <4>2, <4>3, <5>1, EndsEpoch
        <4> QED BY <1>0, <2>0, <3>2, <4>4 DEF Stores
      <3> QED BY <3>1, <3>2
    <2>2. ReaderFields'
      <3>1. NoReader \in Readers
        BY <1>0, ReaderBounds DEF Readers, NoReader
      <3>2. NoReader.epoch = 0 /\ NoConsumer \in Consumers
        BY DEF NoReader, Consumers, NoConsumer
      <3> QED BY <2>0, <2>1, <3>1, <3>2 DEF ReaderInv, ReaderFields, Phases
    <2>3. LinkOK' /\ ConsumerOK'
      BY <2>0 DEF ReaderInv, LinkOK, ConsumerOK, ReaderFields, Phases
    <2>4. LogsOK'
      BY <2>0, <2>1 DEF LogsOK, NoReader
    <2> QED BY <2>2, <2>3, <2>4 DEF ReaderInv
  <1>2. CASE link.seen # 0
    <2> DEFINE r == [NoReader EXCEPT !.cursor = committed.cursor, !.attached = TRUE]
    <2>0. /\ reader' = (IF reader.attached THEN reader ELSE r)
          /\ UNCHANGED <<stream, consumer, committed, mishaps>>
          /\ link' = [link EXCEPT !.phase = "look"] /\ link.phase = "listed"
      BY <1>2 DEF Applies, LinkGoes
    <2>1. /\ r \in Readers /\ r.epoch = 0 /\ r.attached /\ r.pending = <<>>
          /\ r.cursor = committed.cursor
      <3>1. NoReader \in Readers
        BY <1>0, ReaderBounds DEF Readers, NoReader
      <3>2. r \in Readers
        BY <1>0, <3>1 DEF Readers
      <3> QED BY <3>2 DEF NoReader
    <2> HIDE DEF r
    <2>2. ReaderFields'
      BY <2>0, <2>1 DEF ReaderInv, ReaderFields, Phases
    <2>3. LinkOK'
      BY <2>0, <2>1 DEF ReaderInv, LinkOK, ReaderFields, Phases
    <2>4. ConsumerOK'
      <3>1. CASE reader.attached
        BY <2>0, <3>1 DEF ReaderInv, ConsumerOK, InOrder
      <3>2. CASE ~reader.attached
        <4>1. reader.epoch = 0
          BY <3>2 DEF ReaderInv, ReaderFields, NoReader
        <4>2. consumer = NoConsumer
          BY <1>0, <2>0, <4>1 DEF ReaderInv, ConsumerOK, Streams
        <4> QED BY <2>0, <4>2 DEF ConsumerOK
      <3> QED BY <3>1, <3>2
    <2>5. LogsOK'
      <3>1. committed.rows \o <<>> = committed.rows
        BY <1>0
      <3> QED BY <2>0, <2>1, <3>1 DEF ReaderInv, LogsOK
    <2> QED BY <2>2, <2>3, <2>4, <2>5 DEF ReaderInv
  <1> QED BY <1>1, <1>2

LEMMA ConcatAppend ==
  ASSUME NEW rows \in Seq(Rows), NEW more \in Seq(Rows), NEW row \in Rows
  PROVE  /\ rows \o Append(more, row) = Append(rows \o more, row)
         /\ Append(more, row) \in Seq(Rows) /\ rows \o Append(more, row) \in Seq(Rows)
  <1>1. Append(more, row) = more \o <<row>> /\ <<row>> \in Seq(Rows)
    BY AppendIsConcat
  <1>2. rows \o (more \o <<row>>) = (rows \o more) \o <<row>>
    BY <1>1, ConcatAssociative
  <1>3. Append(rows \o more, row) = (rows \o more) \o <<row>>
    <2>1. rows \o more \in Seq(Rows)
      OBVIOUS
    <2> QED BY <2>1, AppendIsConcat
  <1>4. Append(more, row) \in Seq(Rows)
    OBVIOUS
  <1>5. rows \o Append(more, row) \in Seq(Rows)
    BY <1>4
  <1> QED BY <1>1, <1>2, <1>3, <1>4, <1>5

LEMMA AbsentStep ==
  ASSUME ReaderInv, StreamIsAbsent
  PROVE  ReaderInv'
  <1> USE DEF StreamIsAbsent, LinkGoes
  <1>1. ReaderFields' /\ LinkOK'
    BY DEF ReaderInv, ReaderFields, Phases, LinkOK
  <1>2. consumer = NoConsumer /\ consumer' = NoConsumer
    BY DEF ReaderInv, ConsumerOK
  <1>3. ConsumerOK'
    BY <1>2 DEF ConsumerOK
  <1> QED BY <1>1, <1>3, LogsStay DEF ReaderInv

LEMMA LooksStep ==
  ASSUME ReaderInv, LooksForConsumer
  PROVE  ReaderInv'
  <1>1. CASE StreamIsAbsent
    BY <1>1, AbsentStep
  <1>2. CASE ~StreamIsAbsent
    <2>1. /\ UNCHANGED <<stream, consumer, reader, committed, mishaps>> /\ link.phase = "look"
          /\ \/ reader.epoch # 0 /\ link' = [phase |-> "pull", seen |-> 0]
             \/ reader.epoch = 0 /\ link' = [phase |-> "create", seen |-> stream.epoch]
      BY <1>2 DEF LooksForConsumer, PullBegins
    <2>2. stream.epoch \in Nat /\ stream.epoch \in 1..stream.epoch
      BY DEF ReaderInv, ReaderFields, Streams
    <2>3. ReaderFields' /\ LinkOK'
      BY <2>1, <2>2 DEF ReaderInv, ReaderFields, Phases, LinkOK
    <2>4. ConsumerOK'
      BY <2>1 DEF ReaderInv, ConsumerOK, InOrder
    <2> QED BY <2>1, <2>3, <2>4, LogsStay DEF ReaderInv
  <1> QED BY <1>1, <1>2

\* Where a consumer of the stream there is starts.
LEMMA StartsAtIs ==
  ASSUME ReaderInv, link.phase \in {"create", "check"}
  PROVE  StartsAt \in Tokens /\ StartsAt.epoch = link.seen
  <1>1. /\ stream \in Streams /\ reader.cursor \in Tokens /\ link.seen \in 1..stream.epoch
        /\ MaxStreams \in Nat /\ MaxMessages \in Nat
    BY ReaderBounds DEF ReaderInv, ReaderFields, Readers, LinkOK
  <1>2. Token(link.seen, 0) \in Tokens
    BY <1>1 DEF Tokens, Token, Streams
  <1> QED BY <1>1, <1>2 DEF StartsAt, Token

LEMMA CreatesStep ==
  ASSUME ReaderInv, Creates
  PROVE  ReaderInv'
  <1>1. CASE StreamIsAbsent
    BY <1>1, AbsentStep
  <1>2. CASE ~StreamIsAbsent
    <2>1. /\ UNCHANGED <<stream, reader, committed, mishaps>> /\ link.phase = "create" /\ stream.there
          /\ consumer' = [epoch |-> stream.epoch, next |-> StartsAt.seq + 1, count |-> 0]
          /\ link' = [link EXCEPT !.phase = "check"]
      BY <1>2 DEF Creates, LinkGoes
    <2>2. StartsAt.seq \in Nat /\ stream.epoch \in Nat
      BY <2>1, StartsAtIs, TokenIs DEF ReaderInv, ReaderFields, Streams
    <2>3. ReaderFields' /\ LinkOK'
      BY <2>1, <2>2 DEF ReaderInv, ReaderFields, Phases, LinkOK, Consumers
    <2>4. link'.phase = "check" /\ link'.seen = link.seen
      BY <2>1 DEF ReaderInv, ReaderFields
    <2>5. StartsAt' = StartsAt
      BY <2>1, <2>4 DEF StartsAt
    <2>6. ConsumerOK'
      BY <2>1, <2>4, <2>5 DEF ConsumerOK
    <2> QED BY <2>1, <2>3, <2>6, LogsStay DEF ReaderInv
  <1> QED BY <1>1, <1>2

LEMMA ChecksStep ==
  ASSUME ReaderInv, Checks
  PROVE  ReaderInv'
  <1>0. /\ stream \in Streams /\ committed \in Stores /\ reader \in Readers
        /\ committed.rows \in Seq(Rows) /\ reader.pending \in Seq(Rows) /\ reader.cursor \in Tokens
        /\ link.phase = "check" /\ reader.attached /\ reader.epoch = 0 /\ link.seen \in 1..stream.epoch
        /\ StartsAt \in Tokens /\ StartsAt.epoch = link.seen
    BY StartsAtIs DEF ReaderInv, ReaderFields, Stores, Readers, LinkOK, Checks
  <1>1. CASE StreamIsAbsent
    BY <1>1, AbsentStep
  <1>2. CASE ~StreamIsAbsent /\ ~SameEpoch
    <2>1. /\ UNCHANGED <<stream, reader, committed, mishaps>>
          /\ consumer' = NoConsumer /\ link' = [link EXCEPT !.phase = "look"]
      BY <1>2 DEF Checks, LinkGoes
    <2>2. ReaderFields' /\ LinkOK'
      BY <1>0, <2>1 DEF ReaderInv, ReaderFields, Phases, LinkOK, Consumers, NoConsumer
    <2>3. ConsumerOK'
      BY <2>1 DEF ConsumerOK
    <2> QED BY <2>1, <2>2, <2>3, LogsStay DEF ReaderInv
  <1>3. CASE ~StreamIsAbsent /\ SameEpoch
    <2> DEFINE pending == IF reader.cursor.epoch \in {0, link.seen} THEN reader.pending
                          ELSE Append(reader.pending, Ended(reader.cursor))
    <2>1. /\ UNCHANGED <<stream, consumer, committed, mishaps>> /\ stream.there
          /\ reader' = [reader EXCEPT !.cursor = StartsAt, !.epoch = link.seen, !.delivered = 0,
                                     !.pending = pending]
          /\ link' = [phase |-> "pull", seen |-> 0] /\ link.seen = stream.epoch
      BY <1>3 DEF Checks, PullBegins, SameEpoch
    <2>2. /\ Sound(stream, committed.rows \o pending, StartsAt) /\ pending \in Seq(Rows)
      <3>0. Sound(stream, committed.rows \o reader.pending, reader.cursor)
        BY <1>0 DEF ReaderInv, LogsOK
      <3>a. committed.rows \o reader.pending \in Seq(Rows)
        BY <1>0
      <3>1. CASE reader.cursor.epoch = link.seen
        BY <1>0, <3>0, <3>1 DEF StartsAt
      <3>2. CASE reader.cursor.epoch = 0
        <4>1. reader.cursor = NoToken
          BY <1>0, <3>0, <3>2, TokenIs DEF Sound, EpochsOK, NoToken
        <4>2. StartsAt = Token(stream.epoch, 0) /\ pending = reader.pending
          BY <1>0, <2>1, <3>2 DEF StartsAt
        <4> HIDE DEF pending
        <4> QED BY <1>0, <2>1, <3>0, <3>a, <4>1, <4>2, BeginsEpoch
      <3>3. CASE reader.cursor.epoch \notin {0, link.seen}
        <4>1. StartsAt = Token(stream.epoch, 0) /\ StartsAt.seq = 0 /\ StartsAt.epoch = stream.epoch
          BY <2>1, <3>3 DEF StartsAt, Token
        <4>2. reader.cursor.epoch < stream.epoch
          BY <1>0, <2>1, <3>0, <3>3, TokenIs DEF Sound, EpochsOK, Streams
        <4>3. /\ Ended(reader.cursor) \in Rows
              /\ Sound(stream, Append(committed.rows \o reader.pending, Ended(reader.cursor)), StartsAt)
          BY <1>0, <3>0, <3>a, <3>3, <4>1, <4>2, EndsEpoch
        <4>4. pending = Append(reader.pending, Ended(reader.cursor))
          BY <3>3
        <4>5. /\ committed.rows \o pending = Append(committed.rows \o reader.pending, Ended(reader.cursor))
              /\ pending \in Seq(Rows)
          <5> DEFINE ended == Ended(reader.cursor)
          <5>0. committed.rows \in Seq(Rows) /\ reader.pending \in Seq(Rows) /\ ended \in Rows
            BY <1>0, <4>3
          <5> HIDE DEF pending, ended
          <5>1. /\ committed.rows \o Append(reader.pending, ended)
                     = Append(committed.rows \o reader.pending, ended)
                /\ Append(reader.pending, ended) \in Seq(Rows)
            BY <5>0, ConcatAppend
          <5> USE DEF ended
          <5> QED BY <4>4, <5>1
        <4> QED BY <4>3, <4>5
      <3> QED BY <3>1, <3>2, <3>3
    <2> HIDE DEF pending
    <2>3. ReaderFields'
      <3>1. link.seen \in 0..MaxStreams /\ 0 \in Nat
        BY <1>0, <2>1, ReaderBounds DEF Streams
      <3>2. /\ reader' \in Readers /\ reader'.epoch = link.seen /\ reader'.cursor = StartsAt
            /\ reader'.attached
        BY <1>0, <2>1, <2>2, <3>1 DEF Readers
      <3>3. link' \in [phase : Phases, seen : Nat]
        BY <2>1 DEF Phases
      <3> QED BY <1>0, <2>1, <3>2, <3>3 DEF ReaderInv, ReaderFields
    <2>4. LinkOK'
      BY <1>0, <2>1 DEF LinkOK, Readers
    <2>5. ConsumerOK'
      <3> SUFFICES ASSUME consumer # NoConsumer PROVE ConsumerOK'
        BY <2>1 DEF ConsumerOK
      <3>1. consumer.epoch = stream.epoch /\ consumer.next = StartsAt.seq + 1 /\ consumer.count = 0
        BY <1>0, <2>1 DEF ReaderInv, ConsumerOK
      <3>2. reader'.epoch = stream.epoch /\ reader'.delivered = 0 /\ reader'.cursor = StartsAt
        BY <1>0, <2>1 DEF Readers
      <3> QED BY <2>1, <3>1, <3>2 DEF ConsumerOK, InOrder
    <2>6. LogsOK'
      BY <1>0, <2>1, <2>2 DEF ReaderInv, LogsOK, Readers
    <2> QED BY <2>3, <2>4, <2>5, <2>6 DEF ReaderInv
  <1> QED BY <1>1, <1>2, <1>3

-----------------------------------------------------------------------------
(* A pull *)

\* What a pull sends: the oldest message the stream keeps from where the consumer goes on.
LEMMA SendsIs ==
  ASSUME ReaderInv, NEW m \in stream.kept, Sends(m)
  PROVE  /\ stream \in Streams /\ consumer \in Consumers /\ reader \in Readers
         /\ m \in 1..MaxMessages /\ m <= stream.last /\ m >= consumer.next
         /\ \A n \in stream.kept : n >= consumer.next => n >= m
         /\ UNCHANGED <<stream, committed>>
         /\ link' = [phase |-> "pull", seen |-> link'.seen] /\ link'.seen \in Nat
         /\ consumer' \in Consumers /\ consumer'.epoch = stream.epoch
         /\ consumer'.next = m + 1 /\ consumer'.count = consumer.count + 1
         /\ stream.there /\ reader.attached /\ reader.cursor \in Tokens
         /\ reader.cursor.epoch = stream.epoch /\ reader.epoch = stream.epoch
         /\ reader.delivered <= consumer.count /\ consumer.epoch = stream.epoch
         /\ InOrder => consumer.next = reader.cursor.seq + 1
         /\ link.phase = "pull" /\ consumer # NoConsumer
  <1>1. /\ stream \in Streams /\ consumer \in Consumers /\ reader \in Readers
        /\ stream.kept \subseteq 1..stream.last /\ link \in [phase : Phases, seen : Nat]
        /\ link.phase = "pull" /\ consumer # NoConsumer
        /\ reader.epoch \in {0, reader.cursor.epoch} /\ reader.attached
    BY DEF ReaderInv, ReaderFields, LinkOK, Sends
  <1>2. /\ m >= consumer.next /\ \A n \in stream.kept : n >= consumer.next => n >= m
    BY <1>1 DEF Sends, Due, Streams, Consumers
  <1>3. m \in 1..MaxMessages /\ m <= stream.last
    BY <1>1 DEF Streams
  <1>4. /\ consumer' = [consumer EXCEPT !.next = m + 1, !.count = consumer.count + 1]
        /\ link' = [link EXCEPT !.seen = link.seen + 1] /\ UNCHANGED <<stream, committed>>
    BY DEF Sends
  <1>5. /\ consumer.epoch = stream.epoch /\ stream.there /\ reader.epoch = stream.epoch
        /\ reader.delivered <= consumer.count
        /\ InOrder => consumer.next = reader.cursor.seq + 1
    BY <1>1 DEF ReaderInv, ConsumerOK
  <1>6. /\ consumer' \in Consumers /\ consumer'.epoch = consumer.epoch
        /\ consumer'.next = m + 1 /\ consumer'.count = consumer.count + 1
    <2>1. /\ consumer \in [epoch : Nat, next : Nat, count : Nat]
          /\ m + 1 \in Nat /\ consumer.count + 1 \in Nat
      BY <1>1, <1>3 DEF Consumers
    <2> QED BY <1>4, <2>1 DEF Consumers
  <1>7. link' = [phase |-> "pull", seen |-> link'.seen] /\ link'.seen \in Nat
    BY <1>1, <1>4
  <1>8. reader.cursor.epoch = stream.epoch /\ reader.cursor \in Tokens
    BY <1>1, <1>5 DEF Streams, Readers
  <1> QED BY <1>1, <1>2, <1>3, <1>4, <1>5, <1>6, <1>7, <1>8

LEMMA LostStep ==
  ASSUME ReaderInv, DeliveryIsLost
  PROVE  ReaderInv'
  <1>0. PICK m \in stream.kept : Sends(m) /\ mishaps' = mishaps + 1 /\ UNCHANGED reader
    BY DEF DeliveryIsLost
  <1> USE SendsIs
  <1>1. ReaderFields'
    BY <1>0 DEF ReaderInv, ReaderFields, Phases
  <1>2. LinkOK'
    BY <1>0 DEF ReaderInv, LinkOK, Streams
  <1>3. ConsumerOK'
    BY <1>0 DEF ConsumerOK, InOrder, Readers, Consumers
  <1>4. LogsOK'
    BY <1>0, LogsStay DEF ReaderInv
  <1> QED BY <1>1, <1>2, <1>3, <1>4 DEF ReaderInv

\* A delivery in order goes on in the reader's log, with what the stream dropped before it.
LEMMA TakenIs ==
  ASSUME ReaderInv, NEW m \in stream.kept, Sends(m), InOrder
  PROVE  LET taken == Taken(m) IN
         /\ taken \in Readers /\ taken.cursor = Token(stream.epoch, m)
         /\ taken = [reader EXCEPT !.cursor = taken.cursor, !.pending = taken.pending]
         /\ Sound(stream, committed.rows \o taken.pending, taken.cursor)
  <1> DEFINE e == stream.epoch  seq == reader.cursor.seq  rows == committed.rows \o reader.pending
             gap == Gap(e, seq, m - 1)  read == Read(e, m, e)
             pending == reader.pending \o (IF m = seq + 1 THEN <<>> ELSE <<gap>>) \o <<read>>
  <1>1. /\ stream \in Streams /\ reader \in Readers /\ committed.rows \in Seq(Rows)
        /\ reader.pending \in Seq(Rows) /\ reader.cursor \in Tokens /\ rows \in Seq(Rows)
        /\ e \in 1..MaxStreams /\ m \in 1..MaxMessages /\ m <= stream.last /\ stream.there
        /\ seq \in 0..MaxMessages /\ MaxMessages \in Nat /\ MaxStreams \in Nat
        /\ reader.cursor.epoch = e /\ consumer.epoch = e /\ m >= seq + 1
        /\ \A n \in stream.kept : n >= seq + 1 => n >= m
    <2>1. committed.rows \in Seq(Rows) /\ reader.pending \in Seq(Rows)
      BY DEF ReaderInv, ReaderFields, Stores, Readers
    <2>2. rows \in Seq(Rows)
      BY <2>1
    <2>3. /\ stream \in Streams /\ reader \in Readers /\ stream.there
          /\ reader.cursor \in Tokens /\ m \in 1..MaxMessages /\ m <= stream.last
          /\ reader.cursor.epoch = e /\ consumer.epoch = e /\ consumer.next = seq + 1
          /\ m >= consumer.next /\ \A n \in stream.kept : n >= consumer.next => n >= m
      BY SendsIs
    <2>4. e \in 1..MaxStreams /\ seq \in 0..MaxMessages
      BY <2>3 DEF Streams, Tokens
    <2>5. MaxMessages \in Nat /\ MaxStreams \in Nat
      BY ReaderBounds
    <2> HIDE DEF e, seq, rows
    <2> QED BY <2>1, <2>2, <2>3, <2>4, <2>5
  <1>2. Sound(stream, rows, reader.cursor)
    BY SendsIs DEF ReaderInv, LogsOK
  <1>3. Token(e, m) \in Tokens /\ read \in Rows
    BY <1>1 DEF Tokens, Token, Rows, Read, Row
  <1>4. Taken(m) = [reader EXCEPT !.cursor.seq = m, !.pending = pending]
    BY <1>1 DEF Taken
  <1>5. [reader.cursor EXCEPT !.seq = m] = Token(e, m)
    BY <1>1 DEF Tokens, Token
  <1>6. Taken(m) = [reader EXCEPT !.cursor = Token(e, m), !.pending = pending]
    BY <1>1, <1>4, <1>5 DEF Readers
  <1>7. pending \in Seq(Rows) /\ Sound(stream, committed.rows \o pending, Token(e, m))
    <2>a. /\ read.kind = "read" /\ read.epoch = e /\ read.of = e /\ read.from = m /\ read.to = m
          /\ gap.kind = "gap" /\ gap.epoch = e /\ gap.of = e /\ gap.from = seq + 1 /\ gap.to = m - 1
      BY DEF Read, Gap, Row
    <2>b. gap \in Rows /\ (m # seq + 1 => Token(e, m - 1) \in Tokens)
      BY <1>1 DEF Rows, Gap, Row, Tokens, Token
    <2>c. \A row \in Rows : /\ committed.rows \o Append(reader.pending, row) = Append(rows, row)
                           /\ Append(reader.pending, row) \in Seq(Rows) /\ Append(rows, row) \in Seq(Rows)
      <3>1. committed.rows \in Seq(Rows) /\ reader.pending \in Seq(Rows) /\ rows \in Seq(Rows)
        BY <1>1
      <3>2. rows = committed.rows \o reader.pending
        OBVIOUS
      <3> HIDE DEF rows
      <3> TAKE row \in Rows
      <3>3. Append(rows, row) \in Seq(Rows)
        BY <3>1
      <3> QED BY <3>1, <3>2, <3>3, ConcatAppend
    <2>d. \A row \in Rows : reader.pending \o <<row>> = Append(reader.pending, row)
      BY <1>1, AppendIsConcat
    <2>e. /\ stream \in Streams /\ rows \in Seq(Rows) /\ reader.cursor \in Tokens
          /\ reader.cursor.epoch = e /\ e # 0 /\ m > 0
      BY <1>1
    <2> HIDE DEF read, gap, rows
    <2>1. CASE m = seq + 1
      <3>1. pending = Append(reader.pending, read)
        <4>1. reader.pending \o <<>> = reader.pending
          BY <1>1
        <4> QED BY <1>3, <2>d, <2>1, <4>1
      <3>2. Sound(stream, Append(rows, read), Token(e, m))
        <4>1. read.to > 0 /\ read.kind # "end" /\ read.kind # "gap" /\ read.from = reader.cursor.seq + 1
          BY <1>1, <2>a, <2>1
        <4> HIDE DEF e, seq
        <4> QED BY <1>2, <1>3, <2>a, <2>e, <4>1, GoesOn
      <3> HIDE DEF pending
      <3> QED BY <1>3, <2>c, <3>1, <3>2
    <2>2. CASE m # seq + 1
      <3>1. m - 1 >= seq + 1 /\ m - 1 \in 1..MaxMessages
        BY <1>1, <2>2
      <3>2. Token(e, m - 1).epoch = e /\ Token(e, m - 1).seq = m - 1 /\ Token(e, m - 1) \in Tokens
        BY <2>b, <2>2 DEF Token
      <3>3. Sound(stream, Append(rows, gap), Token(e, m - 1))
        <4>1. (gap.from..gap.to) \cap stream.kept = {} /\ gap.to <= stream.last
          BY <1>1, <2>a, <3>1 DEF Streams
        <4>2. gap.to > 0 /\ gap.kind # "end" /\ gap.from = reader.cursor.seq + 1
          BY <2>a, <3>1
        <4> QED BY <1>2, <2>a, <2>b, <2>e, <3>2, <4>1, <4>2, GoesOn
      <3>4. Sound(stream, Append(Append(rows, gap), read), Token(e, m))
        <4>1. Append(rows, gap) \in Seq(Rows) /\ e # 0
          BY <1>1, <2>b, <2>c
        <4>2. read.to > 0 /\ read.kind # "end" /\ read.kind # "gap" /\ read.from = Token(e, m - 1).seq + 1
          BY <1>1, <2>a, <3>2
        <4> QED BY <1>1, <1>3, <2>a, <3>2, <3>3, <4>1, <4>2, GoesOn
      <3>5. /\ pending = Append(Append(reader.pending, gap), read)
            /\ Append(reader.pending, gap) \in Seq(Rows)
        <4>1. pending = Append(reader.pending, gap) \o <<read>>
          BY <2>b, <2>d, <2>2
        <4>2. Append(reader.pending, gap) \in Seq(Rows)
          BY <2>b, <2>c
        <4> HIDE DEF pending
        <4> QED BY <1>3, <4>1, <4>2, AppendIsConcat
      <3> HIDE DEF pending
      <3>6. /\ committed.rows \o Append(Append(reader.pending, gap), read)
                 = Append(committed.rows \o Append(reader.pending, gap), read)
            /\ Append(Append(reader.pending, gap), read) \in Seq(Rows)
        BY <1>1, <1>3, <3>5, ConcatAppend
      <3> QED BY <2>b, <2>c, <3>4, <3>5, <3>6
    <2> QED BY <2>1, <2>2
  <1> HIDE DEF pending
  <1>8. /\ Taken(m) \in Readers /\ Taken(m).cursor = Token(e, m) /\ Taken(m).pending = pending
    BY <1>1, <1>3, <1>6, <1>7 DEF Readers
  <1> QED BY <1>6, <1>7, <1>8

LEMMA DeliversStep ==
  ASSUME ReaderInv, Delivers
  PROVE  ReaderInv'
  <1>0. PICK m \in stream.kept :
          Sends(m) /\ InOrder /\ reader' = [Taken(m) EXCEPT !.delivered = Taken(m).delivered + 1] /\ UNCHANGED mishaps
    BY DEF Delivers
  <1> DEFINE taken == Taken(m)
  <1>1. /\ taken \in Readers /\ taken.cursor = Token(stream.epoch, m)
        /\ taken = [reader EXCEPT !.cursor = taken.cursor, !.pending = taken.pending]
        /\ Sound(stream, committed.rows \o taken.pending, taken.cursor)
    BY <1>0, TakenIs
  <1> HIDE DEF taken
  <1>2. /\ taken.delivered = reader.delivered /\ taken.epoch = reader.epoch /\ taken.attached = reader.attached
    BY <1>0, <1>1, SendsIs DEF Readers
  <1>3. /\ reader' \in Readers /\ reader'.cursor = taken.cursor /\ reader'.pending = taken.pending
        /\ reader'.epoch = reader.epoch /\ reader'.attached = reader.attached
        /\ reader'.delivered = reader.delivered + 1
    BY <1>0, <1>1, <1>2 DEF Readers, taken
  <1>4. reader'.cursor.epoch = stream.epoch /\ reader'.cursor.seq = m
    BY <1>1, <1>3 DEF Token
  <1>5. ReaderFields'
    BY <1>0, <1>3, <1>4, SendsIs DEF ReaderInv, ReaderFields, Phases
  <1>6. LinkOK'
    BY <1>0, <1>3, SendsIs DEF ReaderInv, LinkOK, Streams
  <1>7. ConsumerOK'
    BY <1>0, <1>3, <1>4, SendsIs DEF ConsumerOK, InOrder, Readers, Consumers
  <1>8. LogsOK'
    BY <1>0, <1>1, <1>3, SendsIs DEF ReaderInv, LogsOK
  <1> QED BY <1>5, <1>6, <1>7, <1>8 DEF ReaderInv

LEMMA EndsStep ==
  ASSUME ReaderInv, PullEnds
  PROVE  ReaderInv'
  <1>0. PICK complete \in BOOLEAN :
          /\ complete => Closes
          /\ mishaps' \in {mishaps, mishaps + 1}
          /\ reader' = [reader EXCEPT !.epoch = IF complete THEN reader.epoch ELSE 0]
          /\ consumer' = IF complete THEN consumer ELSE NoConsumer
          /\ link' = [phase |-> "commit", seen |-> IF complete THEN 1 ELSE 0]
    BY DEF PullEnds, Intact
  <1>1. /\ UNCHANGED <<stream, committed>> /\ link.phase = "pull" /\ reader \in Readers /\ reader.attached
        /\ mishaps \in Nat
    BY DEF PullEnds, ReaderInv, ReaderFields, LinkOK
  <1>2. /\ reader' \in Readers /\ reader'.cursor = reader.cursor /\ reader'.pending = reader.pending
        /\ reader'.attached = reader.attached /\ reader'.delivered = reader.delivered
        /\ reader'.epoch = IF complete THEN reader.epoch ELSE 0
    <2>1. (IF complete THEN reader.epoch ELSE 0) \in 0..MaxStreams
      BY <1>1, ReaderBounds DEF Readers
    <2> HIDE DEF Readers
    <2>2. /\ reader' = [reader EXCEPT !.epoch = reader'.epoch]
          /\ reader'.epoch = IF complete THEN reader.epoch ELSE 0
      BY <1>0, <1>1 DEF Readers
    <2> QED BY <1>1, <2>1, <2>2 DEF Readers
  <1>3. ReaderFields'
    BY <1>0, <1>1, <1>2 DEF ReaderInv, ReaderFields, Phases, Consumers, NoConsumer
  <1>4. LinkOK'
    BY <1>0, <1>1, <1>2 DEF LinkOK
  <1>5. ConsumerOK'
    BY <1>0, <1>1, <1>2 DEF ReaderInv, ConsumerOK, InOrder
  <1>6. LogsOK'
    BY <1>1, <1>2, LogsStay DEF ReaderInv
  <1> QED BY <1>3, <1>4, <1>5, <1>6 DEF ReaderInv

LEMMA RaisesStep ==
  ASSUME ReaderInv, CallRaises
  PROVE  ReaderInv'
  <1>1. /\ UNCHANGED <<stream, reader, committed>> /\ mishaps' = mishaps + 1
        /\ link.phase \in {"create", "check", "pull"} /\ link'.phase \in {"look", "reconcile"}
        /\ link' \in [phase : Phases, seen : Nat]
        /\ consumer' = (IF link.phase = "pull" THEN consumer ELSE NoConsumer)
    BY DEF CallRaises, LinkGoes, ReaderInv, ReaderFields, Phases
  <1>2. ReaderFields'
    BY <1>1 DEF ReaderInv, ReaderFields, Consumers, NoConsumer
  <1>3. LinkOK'
    BY <1>1 DEF ReaderInv, LinkOK
  <1>4. ConsumerOK'
    BY <1>1 DEF ReaderInv, ConsumerOK, InOrder
  <1> QED BY <1>1, <1>2, <1>3, <1>4, LogsStay DEF ReaderInv

LEMMA CommitsStep ==
  ASSUME ReaderInv, Commits
  PROVE  ReaderInv'
  <1> DEFINE rows == committed.rows \o reader.pending
  <1>1. /\ UNCHANGED <<stream, consumer, mishaps>> /\ link.phase = "commit" /\ reader.attached
        /\ committed' = [cursor |-> reader.cursor, rows |-> rows]
        /\ reader' = [reader EXCEPT !.pending = <<>>]
        /\ link'.phase \in {"look", "reconcile"} /\ link' \in [phase : Phases, seen : Nat]
        /\ reader \in Readers
    BY DEF Commits, LinkGoes, ReaderInv, ReaderFields, Phases, LinkOK
  <1>2. rows \in Seq(Rows) /\ reader.cursor \in Tokens
    BY <1>1 DEF ReaderInv, ReaderFields, Stores, Readers
  <1>3. /\ reader' \in Readers /\ reader'.cursor = reader.cursor /\ reader'.pending = <<>>
        /\ reader'.attached /\ reader'.delivered = reader.delivered /\ reader'.epoch = reader.epoch
    <2>1. <<>> \in Seq(Rows)
      OBVIOUS
    <2> QED BY <1>1, <2>1 DEF Readers
  <1>4. Sound(stream, rows, reader.cursor)
    BY <1>1 DEF ReaderInv, LogsOK
  <1> HIDE DEF rows
  <1>5. ReaderFields'
    BY <1>1, <1>2, <1>3 DEF ReaderInv, ReaderFields, Stores
  <1>6. LinkOK'
    BY <1>1, <1>3 DEF LinkOK
  <1>7. ConsumerOK'
    BY <1>1, <1>3 DEF ReaderInv, ConsumerOK, InOrder
  <1>8. LogsOK'
    <2>1. rows \o <<>> = rows
      BY <1>2
    <2> QED BY <1>1, <1>3, <1>4, <2>1 DEF LogsOK
  <1> QED BY <1>5, <1>6, <1>7, <1>8 DEF ReaderInv

LEMMA MishapSteps ==
  ASSUME ReaderInv, ConsumerIsLost \/ LinkEnds
  PROVE  ReaderInv'
  <1>1. CASE ConsumerIsLost
    <2>1. ReaderFields' /\ LinkOK' /\ ConsumerOK'
      BY <1>1 DEF ConsumerIsLost, ReaderInv, ReaderFields, LinkOK, ConsumerOK, Consumers, NoConsumer
    <2> QED BY <1>1, <2>1, LogsStay DEF ConsumerIsLost, ReaderInv
  <1>2. CASE LinkEnds
    <2>1. /\ reader' = NoReader /\ consumer' = NoConsumer /\ UNCHANGED <<stream, committed>>
          /\ link' = [phase |-> "reconcile", seen |-> 0] /\ mishaps' = mishaps + 1
      BY <1>2 DEF LinkEnds
    <2>2. /\ NoReader \in Readers /\ NoReader.epoch = 0 /\ NoConsumer \in Consumers /\ ~NoReader.attached
      BY TokenIs, ReaderBounds DEF NoReader, Readers, Consumers, NoConsumer, Tokens, NoToken, Token
    <2>3. ReaderFields'
      BY <2>1, <2>2 DEF ReaderInv, ReaderFields, Phases
    <2>4. LinkOK' /\ ConsumerOK'
      BY <2>1 DEF LinkOK, ConsumerOK
    <2>5. LogsOK'
      BY <2>1, <2>2 DEF ReaderInv, LogsOK
    <2> QED BY <2>3, <2>4, <2>5 DEF ReaderInv
  <1> QED BY <1>1, <1>2

-----------------------------------------------------------------------------

LEMMA ReaderInvStep == ReaderInv /\ [ReaderNext]_readerVars => ReaderInv'
  <1> SUFFICES ASSUME ReaderInv, [ReaderNext]_readerVars PROVE ReaderInv'
    OBVIOUS
  <1>1. CASE UNCHANGED readerVars
    BY <1>1 DEF readerVars, ReaderInv, ReaderFields, LinkOK, ConsumerOK, LogsOK, StartsAt, InOrder
  <1>2. CASE ReaderNext
    BY <1>2, StreamSteps, ListsStep, AppliesStep, LooksStep, CreatesStep, ChecksStep, DeliversStep,
       LostStep, EndsStep, RaisesStep, CommitsStep, MishapSteps
    DEF ReaderNext, NodeLinkStep
  <1> QED BY <1>1, <1>2

LEMMA ReaderInvariance == ReaderSpec => []ReaderInv
  BY InitReaderInv, ReaderInvStep, PTL DEF ReaderSpec

LEMMA ReaderInvTypes == ReaderInv => ReaderTypeOK
  <1> SUFFICES ASSUME ReaderInv PROVE ReaderTypeOK
    OBVIOUS
  <1>1. consumer.epoch \in {0, stream.epoch}
    BY DEF ReaderInv, ConsumerOK, NoConsumer
  <1> QED BY <1>1 DEF ReaderInv, ReaderFields, Streams, Readers, Stores, ReaderTypeOK

\* The reader's variables stay in their types, the consumer and the reader in an epoch they may be in
\* (`CursorReader`).
THEOREM ReaderTypes == ReaderSpec => []ReaderTypeOK
  BY ReaderInvTypes, ReaderInvariance, PTL

\* The rows of every epoch follow one another to the cursor, without a hole, an overlap or a repeat,
\* and no message is counted as lost while the stream still has it (`PgLinkStore.commit`,
\* `CursorReader._take`, `_create`, and the consumer a reader gives up).
THEOREM CommittedIsTrue == ReaderSpec => []RowsAreTrue
  <1>1. ReaderInv => RowsAreTrue
    BY DEF ReaderInv, LogsOK, Sound, GapsOK, RowsAreContiguous, GapsAreDropped, RowsAreTrue
  <1> QED BY <1>1, ReaderInvariance, PTL

=============================================================================
