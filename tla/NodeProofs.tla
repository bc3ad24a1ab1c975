------------------------------ MODULE NodeProofs ------------------------------
(***************************************************************************)
(* The display host's controllers, for any values and bounds: their types, *)
(* and that a person's value stays; and with what CursorReaderProofs and   *)
(* HubProofs show, the types of all that is kept for a Node (MC_Node).     *)
(***************************************************************************)
EXTENDS MC_Node, CursorReaderProofs, HubProofs

-----------------------------------------------------------------------------
(* ScreenTurns *)

AnyTurn == Turns \cup {NoTurn}

TurnTables == [wanted : AnyTurn, confirmed : AnyTurn, waiting : AnyTurn, retry : BOOLEAN, seen : Nat,
               connected : BOOLEAN]
TurnAsks   == [turn : AnyTurn, seen : Nat, answer : {"none", "done", "refused"}]
Outputs    == [there : BOOLEAN, turn : AnyTurn, reports : Seq(BOOLEAN)]
TurnUses   == [documents : Nat, plugs : 0..MaxPlugs, silences : Nat]

\* What waits is the turn wanted, an ask saw no more than there was to see, and every plug is
\* handed on or still to be.
TurnInv ==
  /\ turns \in TurnTables /\ ask \in TurnAsks /\ output \in Outputs /\ uses \in TurnUses
  /\ turns.waiting \in {NoTurn, turns.wanted}
  /\ ask.seen <= turns.seen
  /\ turns.seen + Len(output.reports) = uses.plugs

LEMMA AskedIs ==
  ASSUME NEW want \in AnyTurn, NEW confirmed, NEW appeared
  PROVE  Asked(want, confirmed, appeared) \in {NoTurn, want} /\ Asked(want, confirmed, appeared) \in AnyTurn
  BY DEF Asked, AnyTurn

LEMMA NoAskIs == NoAsk \in TurnAsks /\ NoAsk.seen = 0 /\ NoAsk.answer = "none"
  BY DEF NoAsk, TurnAsks, AnyTurn

LEMMA TurnInvStep == TurnInv /\ [TurnNext]_turnVars => TurnInv'
  <1> SUFFICES ASSUME TurnInv, [TurnNext]_turnVars PROVE TurnInv'
    OBVIOUS
  <1>0. /\ turns \in TurnTables /\ ask \in TurnAsks /\ output \in Outputs /\ uses \in TurnUses
        /\ turns.waiting \in {NoTurn, turns.wanted} /\ ask.seen <= turns.seen
        /\ turns.seen + Len(output.reports) = uses.plugs
        /\ turns.seen \in Nat /\ Len(output.reports) \in Nat /\ MaxPlugs \in Nat
    BY TurnBounds DEF TurnInv, TurnTables, Outputs
  <1>1. CASE TurnDocument
    <2>1. PICK t \in Turns :
            turns' = [turns EXCEPT !.wanted = t, !.waiting = Asked(t, turns.confirmed, FALSE)]
      BY <1>1 DEF TurnDocument
    <2>2. UNCHANGED <<ask, output>> /\ uses' = [uses EXCEPT !.documents = uses.documents + 1]
      BY <1>1 DEF TurnDocument, UsesTurn
    <2>3. t \in AnyTurn /\ Asked(t, turns.confirmed, FALSE) \in {NoTurn, t} \cap AnyTurn
      <3>1. t \in AnyTurn
        BY DEF AnyTurn
      <3> QED BY <3>1, AskedIs
    <2>4. /\ turns' \in TurnTables /\ turns'.waiting \in {NoTurn, turns'.wanted} /\ turns'.seen = turns.seen
      BY <1>0, <2>1, <2>3 DEF TurnTables
    <2>5. uses' \in TurnUses /\ uses'.plugs = uses.plugs
      BY <1>0, <2>2 DEF TurnUses
    <2> QED BY <1>0, <2>2, <2>4, <2>5 DEF TurnInv
  <1>2. CASE Plugged
    <2>1. /\ uses.plugs < MaxPlugs /\ uses' = [uses EXCEPT !.plugs = uses.plugs + 1] /\ UNCHANGED <<turns, ask>>
          /\ output' = [output EXCEPT !.there = ~output.there, !.reports = Append(output.reports, ~output.there)]
      BY <1>2 DEF Plugged, UsesTurn
    <2>2. uses' \in TurnUses /\ uses'.plugs = uses.plugs + 1 /\ uses.plugs \in Nat
      BY <1>0, <2>1 DEF TurnUses
    <2>3. /\ output.reports \in Seq(BOOLEAN) /\ output.there \in BOOLEAN /\ (~output.there) \in BOOLEAN
      BY <1>0 DEF Outputs
    <2>4. /\ Append(output.reports, ~output.there) \in Seq(BOOLEAN)
          /\ Len(Append(output.reports, ~output.there)) = Len(output.reports) + 1
      BY <2>3, AppendProperties
    <2>5. /\ output' \in Outputs /\ Len(output'.reports) = Len(output.reports) + 1
      BY <1>0, <2>1, <2>3, <2>4 DEF Outputs
    <2> QED BY <1>0, <2>1, <2>2, <2>5 DEF TurnInv
  <1>3. CASE TurnReport
    <2> DEFINE there == Head(output.reports)
    <2>1. /\ output.reports # <<>> /\ UNCHANGED <<ask, uses>>
          /\ turns' = [turns EXCEPT !.connected = there, !.confirmed = NoTurn, !.retry = FALSE,
                         !.seen = turns.seen + 1,
                         !.waiting = IF there THEN Asked(turns.wanted, turns.confirmed, TRUE) ELSE NoTurn]
          /\ output' = [output EXCEPT !.reports = Tail(output.reports)]
      BY <1>3 DEF TurnReport
    <2>2. output.reports \in Seq(BOOLEAN) /\ turns.wanted \in AnyTurn
      BY <1>0 DEF Outputs, TurnTables
    <2>3. /\ there \in BOOLEAN /\ Tail(output.reports) \in Seq(BOOLEAN)
          /\ Len(Tail(output.reports)) = Len(output.reports) - 1
      BY <2>1, <2>2, HeadTailProperties
    <2>4. (IF there THEN Asked(turns.wanted, turns.confirmed, TRUE) ELSE NoTurn)
            \in {NoTurn, turns.wanted} \cap AnyTurn
      BY <2>2, AskedIs DEF AnyTurn
    <2> HIDE DEF there
    <2>5. turns' \in TurnTables /\ turns'.waiting \in {NoTurn, turns'.wanted} /\ turns'.seen = turns.seen + 1
      <3>1. NoTurn \in AnyTurn /\ turns.seen + 1 \in Nat
        BY <1>0 DEF AnyTurn
      <3> QED BY <1>0, <2>1, <2>3, <2>4, <3>1 DEF TurnTables
    <2>6. output' \in Outputs /\ Len(output'.reports) = Len(output.reports) - 1
      BY <1>0, <2>1, <2>3 DEF Outputs
    <2>7. ask'.seen <= turns'.seen /\ turns'.seen + Len(output'.reports) = uses'.plugs
      <3>1. ask.seen \in Nat
        BY <1>0 DEF TurnAsks
      <3> QED BY <1>0, <2>1, <2>5, <2>6, <3>1
    <2> QED BY <1>0, <2>1, <2>5, <2>6, <2>7 DEF TurnInv
  <1>4. CASE TurnTaken
    <2>1. /\ ask' = [turn |-> turns.waiting, seen |-> turns.seen, answer |-> "none"]
          /\ turns' = [turns EXCEPT !.waiting = NoTurn] /\ UNCHANGED <<output, uses>>
      BY <1>4 DEF TurnTaken
    <2>2. turns' \in TurnTables /\ turns'.waiting = NoTurn /\ turns'.seen = turns.seen
      <3>1. NoTurn \in AnyTurn
        BY DEF AnyTurn
      <3> QED BY <1>0, <2>1, <3>1 DEF TurnTables
    <2>3. ask' \in TurnAsks /\ ask'.seen = turns.seen
      BY <1>0, <2>1 DEF TurnAsks, TurnTables
    <2> QED BY <1>0, <2>1, <2>2, <2>3 DEF TurnInv
  <1>5. CASE TurnRetried
    <2> DEFINE waits == IF turns.connected THEN Asked(turns.wanted, turns.confirmed, FALSE) ELSE NoTurn
    <2>1. turns' = [turns EXCEPT !.retry = FALSE, !.waiting = waits] /\ UNCHANGED <<ask, output, uses>>
      BY <1>5 DEF TurnRetried
    <2>2. waits \in {NoTurn, turns.wanted} \cap AnyTurn
      <3>1. turns.wanted \in AnyTurn
        BY <1>0 DEF TurnTables
      <3> QED BY <3>1, AskedIs DEF AnyTurn
    <2> HIDE DEF waits
    <2>3. turns' \in TurnTables /\ turns'.waiting \in {NoTurn, turns'.wanted} /\ turns'.seen = turns.seen
      BY <1>0, <2>1, <2>2 DEF TurnTables
    <2> QED BY <1>0, <2>1, <2>3 DEF TurnInv
  <1>6. CASE ShellTurns
    <2>1. /\ UNCHANGED turns
          /\ \E answer \in {"done", "refused"} : ask' = [ask EXCEPT !.answer = answer]
          /\ output' \in {output, [output EXCEPT !.turn = ask.turn]}
          /\ uses' \in {uses, [uses EXCEPT !.silences = uses.silences + 1]}
      BY <1>6 DEF ShellTurns, UsesTurn
    <2>2. ask' \in TurnAsks /\ ask'.seen = ask.seen
      BY <1>0, <2>1 DEF TurnAsks
    <2>3. output' \in Outputs /\ output'.reports = output.reports
      BY <1>0, <2>1 DEF Outputs, TurnAsks
    <2>4. uses' \in TurnUses /\ uses'.plugs = uses.plugs
      BY <1>0, <2>1 DEF TurnUses
    <2> QED BY <1>0, <2>1, <2>2, <2>3, <2>4 DEF TurnInv
  <1>7. CASE TurnAnswered
    <2>1. /\ turns' \in {turns, [turns EXCEPT !.retry = TRUE],
                         [turns EXCEPT !.confirmed = ask.turn, !.retry = FALSE]}
          /\ ask' = NoAsk /\ UNCHANGED <<output, uses>>
      BY <1>7 DEF TurnAnswered, Refused
    <2>2. /\ turns' \in TurnTables /\ turns'.waiting = turns.waiting /\ turns'.wanted = turns.wanted
          /\ turns'.seen = turns.seen
      BY <1>0, <2>1 DEF TurnTables, TurnAsks
    <2> QED BY <1>0, <2>1, <2>2, NoAskIs DEF TurnInv
  <1>8. CASE UNCHANGED turnVars
    BY <1>8 DEF TurnInv, turnVars
  <1> QED BY <1>1, <1>2, <1>3, <1>4, <1>5, <1>6, <1>7, <1>8 DEF TurnNext, TurnWorker

LEMMA InitTurnInv == TurnInit => TurnInv
  <1> SUFFICES ASSUME TurnInit PROVE TurnInv
    OBVIOUS
  <1>1. NoTurn \in AnyTurn /\ MaxPlugs \in Nat
    BY TurnBounds DEF AnyTurn
  <1> QED BY <1>1, NoAskIs DEF TurnInit, TurnInv, TurnTables, Outputs, TurnUses

LEMMA TurnInvTypes == TurnInv => TurnTypeOK
  BY TurnBounds DEF TurnInv, TurnTypeOK, TurnTables, TurnAsks, Outputs, TurnUses, AnyTurn

-----------------------------------------------------------------------------
(* PictureControl *)

AnyDisplay == Displays \cup {NoDisplay}
Hardware   == [Codes -> Settings \cup {Unset}]

Ports == [connected : BOOLEAN, identity : AnyDisplay, document : Nat, pending : BOOLEAN,
          carriedOn : AnyDisplay \cup {"never"}, lists : SUBSET Displays, forChange : Nat, wantApply : BOOLEAN]
HardwareJobs == [at : {"idle", "ask", "begin", "decide", "write"}, apply : BOOLEAN, asking : AnyDisplay,
                 document : Nat, on : AnyDisplay, connected : BOOLEAN, listed : BOOLEAN, writes : SUBSET Codes]

\* A list held is kept, and what is to be carried out is a document that came.
PortOK ==
  /\ port \in Ports /\ (port.connected <=> port.identity # NoDisplay) /\ port.lists \subseteq kept
  /\ port.document <= Len(pictures) /\ port.forChange <= Len(pictures)
  /\ port.pending => port.document # 0

\* What a worker captured, and what it has yet to write differs from what was carried out.
JobOK ==
  /\ job \in HardwareJobs /\ job.document <= Len(pictures)
  /\ job.at = "ask" => job.asking # NoDisplay
  /\ job.at \in {"decide", "write"} => job.document # 0
  /\ job.listed => job.on # NoDisplay
  /\ job.at = "write" =>
       \A c \in job.writes :
         /\ job.on # NoDisplay /\ pictures[job.document][c] # Unset
         /\ SameDisplay => pictures[applied.change][c] # pictures[job.document][c]

StoreOK ==
  /\ pictures \in Seq(Hardware) /\ kept \subseteq Displays
  /\ applied \in [change : Nat, display : AnyDisplay] /\ applied.change <= Len(pictures)
  /\ applied.change = 0 => applied.display = NoDisplay

DisplayOK == display \in [settings : [Displays -> [Codes -> Settings]], plugged : AnyDisplay, reports : Seq(AnyDisplay)]

PictureInv == PortOK /\ JobOK /\ StoreOK /\ DisplayOK

LEMMA FreshIs ==
  /\ FreshPort \in Ports /\ ~FreshPort.connected /\ FreshPort.identity = NoDisplay /\ FreshPort.lists = {}
  /\ FreshPort.document = 0 /\ FreshPort.forChange = 0 /\ ~FreshPort.pending
  /\ Idle \in HardwareJobs /\ Idle.at = "idle" /\ Idle.document = 0 /\ ~Idle.listed /\ Idle.writes = {}
  BY DEF FreshPort, Ports, Idle, HardwareJobs, AnyDisplay

\* An idle worker holds nothing.
LEMMA IdleOK == pictures \in Seq(Hardware) /\ job = Idle => JobOK
  BY FreshIs DEF JobOK

\* What the worker's steps make of the controller's table.
LEMMA AnsweredOK ==
  ASSUME PortOK, StoreOK, JobOK, port' \in {Answered, Finished}, UNCHANGED <<pictures, kept>>
  PROVE  PortOK'
  <1>0. /\ port \in Ports /\ job.document \in Nat /\ job.document <= Len(pictures) /\ job.on \in AnyDisplay
    BY DEF PortOK, JobOK, HardwareJobs
  <1>1. /\ port' \in Ports /\ port'.connected = port.connected /\ port'.identity = port.identity
        /\ port'.lists = port.lists /\ port'.document = port.document
        /\ port'.forChange \in {port.forChange, job.document} /\ (port'.pending => port.pending)
    <2>1. CASE port' = Answered
      BY <1>0, <2>1 DEF Answered, Ports
    <2>2. CASE port' = Finished
      <3>1. (port.pending /\ port.document # job.document) \in BOOLEAN
        OBVIOUS
      <3> QED BY <1>0, <2>2, <3>1 DEF Finished, Ports
    <2> QED BY <2>1, <2>2
  <1> QED BY <1>0, <1>1 DEF PortOK

LEMMA PictureInvStep == PictureInv /\ [PictureNext]_pictureVars => PictureInv'
  <1> SUFFICES ASSUME PictureInv, [PictureNext]_pictureVars PROVE PictureInv'
    OBVIOUS
  <1>0. /\ port \in Ports /\ job \in HardwareJobs /\ pictures \in Seq(Hardware) /\ Len(pictures) \in Nat
        /\ applied \in [change : Nat, display : AnyDisplay] /\ PortOK /\ JobOK /\ StoreOK /\ DisplayOK
    BY DEF PictureInv, PortOK, JobOK, StoreOK
  <1>1. CASE PictureChosen
    <2>1. PICK hardware \in Hardware : pictures' = Append(pictures, hardware)
      BY <1>1 DEF PictureChosen, Hardware
    <2>2. UNCHANGED <<port, job, applied, kept, display>>
      BY <1>1 DEF PictureChosen
    <2>3. /\ pictures' \in Seq(Hardware) /\ Len(pictures') = Len(pictures) + 1
          /\ \A i \in 1..Len(pictures) : pictures'[i] = pictures[i]
      BY <1>0, <2>1, AppendProperties
    <2>4. PortOK'
      BY <1>0, <2>2, <2>3 DEF PortOK, Ports
    <2>5. StoreOK' /\ DisplayOK'
      BY <1>0, <2>2, <2>3 DEF StoreOK, DisplayOK
    <2>6. JobOK'
      <3>1. job.document \in Nat /\ applied.change \in Nat
        BY <1>0 DEF HardwareJobs
      <3>2. job.at = "write" => pictures'[job.document] = pictures[job.document]
        BY <1>0, <2>3, <3>1 DEF JobOK
      <3>3. applied.change # 0 => pictures'[applied.change] = pictures[applied.change]
        BY <1>0, <2>3, <3>1 DEF StoreOK
      <3> QED BY <1>0, <2>2, <2>3, <3>1, <3>2, <3>3 DEF JobOK, SameDisplay
    <2> QED BY <2>4, <2>5, <2>6 DEF PictureInv
  <1>2. CASE PictureArrives
    <2>1. /\ port' = [port EXCEPT !.document = Len(pictures), !.pending = TRUE, !.wantApply = TRUE]
          /\ port.document < Len(pictures) /\ UNCHANGED <<pictures, job, applied, kept, display>>
      BY <1>2 DEF PictureArrives
    <2>2. port.document \in Nat
      BY <1>0 DEF Ports
    <2>3. /\ port' \in Ports /\ port'.connected = port.connected /\ port'.identity = port.identity
          /\ port'.lists = port.lists /\ port'.document = Len(pictures) /\ port'.forChange = port.forChange
      BY <1>0, <2>1 DEF Ports
    <2>4. PortOK'
      BY <1>0, <2>1, <2>2, <2>3 DEF PortOK
    <2> QED BY <1>0, <2>1, <2>4 DEF PictureInv, JobOK, StoreOK, DisplayOK, SameDisplay
  <1>3. CASE PictureOutput
    <2> DEFINE identity == Head(display.reports)
               again == /\ identity # NoDisplay /\ port.document # 0
                        /\ (port.pending \/ identity # port.carriedOn)
    <2>1. /\ display.reports # <<>> /\ UNCHANGED <<pictures, job, applied, kept>>
          /\ port' = [port EXCEPT !.connected = (identity # NoDisplay), !.identity = identity,
                                  !.pending = (port.pending \/ again), !.wantApply = (port.wantApply \/ again)]
          /\ display' = [display EXCEPT !.reports = Tail(display.reports)]
      BY <1>3 DEF PictureOutput
    <2>2. identity \in AnyDisplay /\ Tail(display.reports) \in Seq(AnyDisplay)
      <3>1. display.reports \in Seq(AnyDisplay)
        BY <1>0 DEF DisplayOK
      <3> QED BY <2>1, <3>1, HeadTailProperties
    <2>3. again => port.document # 0
      OBVIOUS
    <2> HIDE DEF identity, again
    <2>4. (port.pending \/ again) \in BOOLEAN /\ (port.wantApply \/ again) \in BOOLEAN
      OBVIOUS
    <2>5. PortOK'
      BY <1>0, <2>1, <2>2, <2>3, <2>4 DEF PortOK, Ports
    <2>6. DisplayOK'
      BY <1>0, <2>1, <2>2 DEF DisplayOK
    <2> QED BY <1>0, <2>1, <2>5, <2>6 DEF PictureInv, JobOK, StoreOK, SameDisplay
  <1>4. CASE WorkTaken
    <2>1. /\ job' = [job EXCEPT !.at = IF AskDue # NoDisplay THEN "ask" ELSE "begin",
                                !.apply = port.wantApply, !.asking = AskDue]
          /\ port' = [port EXCEPT !.wantApply = FALSE] /\ UNCHANGED <<pictures, applied, kept, display>>
      BY <1>4 DEF WorkTaken
    <2>2. AskDue \in AnyDisplay
      BY <1>0 DEF AskDue, Ports, AnyDisplay
    <2>3. JobOK'
      <3>1. port.wantApply \in BOOLEAN
        BY <1>0 DEF Ports
      <3> QED BY <1>0, <2>1, <2>2, <3>1 DEF JobOK, HardwareJobs
    <2>4. PortOK'
      BY <1>0, <2>1 DEF PortOK, Ports
    <2> QED BY <1>0, <2>1, <2>3, <2>4 DEF PictureInv, StoreOK, DisplayOK
  <1>5. CASE ListAsked
    <2>1. /\ job.at = "ask" /\ UNCHANGED <<pictures, applied, display>>
          /\ job' \in {[job EXCEPT !.at = "begin"], Idle}
          /\ \/ /\ port' = [port EXCEPT !.lists = port.lists \cup {job.asking}]
                /\ kept' = kept \cup {job.asking}
             \/ UNCHANGED <<port, kept>>
      BY <1>5 DEF ListAsked
    <2>2. job.asking \in Displays
      BY <1>0, <2>1 DEF JobOK, HardwareJobs, AnyDisplay
    <2>3. PortOK'
      BY <1>0, <2>1, <2>2 DEF PortOK, Ports
    <2>4. StoreOK' /\ DisplayOK'
      BY <1>0, <2>1, <2>2 DEF StoreOK, DisplayOK
    <2>5. JobOK'
      BY <1>0, <2>1, FreshIs DEF JobOK, HardwareJobs
    <2> QED BY <2>3, <2>4, <2>5 DEF PictureInv
  <1>6. CASE CarryOutBegins
    <2> DEFINE listed == port.connected /\ Listed(port.identity)
    <2>1. /\ UNCHANGED <<pictures, port, applied, kept, display>>
          /\ \/ job' = Idle
             \/ /\ port.pending
                /\ job' = [Idle EXCEPT !.at = "decide", !.document = port.document, !.on = port.identity,
                                       !.connected = port.connected, !.listed = listed]
      BY <1>6 DEF CarryOutBegins
    <2>2. listed \in BOOLEAN /\ (listed => port.identity # NoDisplay)
      BY <1>0 DEF PortOK, Listed
    <2> HIDE DEF listed
    <2>3. JobOK'
      <3>1. CASE job' = Idle
        BY <1>0, <2>1, <3>1, FreshIs DEF JobOK
      <3>2. CASE /\ port.pending
                 /\ job' = [Idle EXCEPT !.at = "decide", !.document = port.document, !.on = port.identity,
                                        !.connected = port.connected, !.listed = listed]
        <4>1. /\ port.document \in Nat /\ port.identity \in AnyDisplay /\ port.connected \in BOOLEAN
              /\ port.document # 0 /\ port.document <= Len(pictures)
          BY <1>0, <3>2 DEF PortOK, Ports
        <4>2. /\ job' \in HardwareJobs /\ job'.at = "decide" /\ job'.document = port.document
              /\ job'.on = port.identity /\ job'.listed = listed
          BY <2>2, <3>2, <4>1, FreshIs DEF HardwareJobs
        <4> QED BY <2>1, <2>2, <4>1, <4>2 DEF JobOK
      <3> QED BY <2>1, <3>1, <3>2
    <2> QED BY <1>0, <2>1, <2>3 DEF PictureInv, PortOK, StoreOK, DisplayOK
  <1>7. CASE CarryOutDecides
    <2>1. /\ job.at = "decide" /\ UNCHANGED <<pictures, applied, kept, display>>
          /\ \/ port' = Finished /\ job' = Idle
             \/ port' = Answered /\ job' = Idle
             \/ /\ job' = [job EXCEPT !.at = "write", !.writes = IF job.listed THEN ToWrite ELSE {}]
                /\ UNCHANGED port
      BY <1>7 DEF CarryOutDecides
    <2>2. PortOK'
      <3>1. CASE port' \in {Answered, Finished}
        BY <1>0, <2>1, <3>1, AnsweredOK
      <3>2. CASE UNCHANGED port
        BY <1>0, <2>1, <3>2 DEF PortOK
      <3> QED BY <2>1, <3>1, <3>2
    <2>3. JobOK'
      <3> DEFINE writes == IF job.listed THEN ToWrite ELSE {}
      <3>1. /\ writes \subseteq Codes
            /\ \A c \in writes :
                 /\ job.on # NoDisplay /\ pictures[job.document][c] # Unset
                 /\ SameDisplay => pictures[applied.change][c] # pictures[job.document][c]
        BY <1>0 DEF JobOK, ToWrite, Wanted
      <3>2. SameDisplay' = SameDisplay \/ job' = Idle
        BY <1>0, <2>1 DEF SameDisplay, HardwareJobs
      <3>3. CASE job' = Idle
        BY <1>0, <2>1, <3>3, FreshIs DEF JobOK
      <3>4. CASE job' = [job EXCEPT !.at = "write", !.writes = writes]
        <4> HIDE DEF writes
        <4>1. /\ job' \in HardwareJobs /\ job'.at = "write" /\ job'.writes = writes /\ job'.on = job.on
              /\ job'.document = job.document /\ job'.listed = job.listed
          BY <1>0, <3>1, <3>4 DEF HardwareJobs
        <4>2. SameDisplay' <=> SameDisplay
          BY <2>1, <4>1 DEF SameDisplay
        <4> QED BY <1>0, <2>1, <3>1, <4>1, <4>2 DEF JobOK
      <3> QED BY <2>1, <3>3, <3>4
    <2> QED BY <1>0, <2>1, <2>2, <2>3 DEF PictureInv, StoreOK, DisplayOK
  <1>8. CASE CodeWritten
    <2>1. PICK c \in job.writes :
            /\ job' = [job EXCEPT !.writes = job.writes \ {c}]
            /\ \/ UNCHANGED display
               \/ /\ display.plugged # NoDisplay
                  /\ display' = [display EXCEPT !.settings[display.plugged][c] = pictures[job.document][c]]
      BY <1>8 DEF CodeWritten
    <2>2. job.at = "write" /\ UNCHANGED <<pictures, port, applied, kept>>
      BY <1>8 DEF CodeWritten
    <2>3. JobOK'
      <3>1. /\ job' \in HardwareJobs /\ job'.at = job.at /\ job'.writes \subseteq job.writes /\ job'.on = job.on
            /\ job'.document = job.document /\ job'.listed = job.listed
        BY <1>0, <2>1 DEF HardwareJobs
      <3> QED BY <1>0, <2>2, <3>1 DEF JobOK, SameDisplay
    <2>4. DisplayOK'
      <3>1. c \in Codes /\ job.document \in 1..Len(pictures) /\ pictures[job.document][c] # Unset
        BY <1>0, <2>2 DEF JobOK, HardwareJobs
      <3>2. pictures[job.document] \in Hardware
        BY <1>0, <3>1
      <3>3. pictures[job.document][c] \in Settings
        BY <3>1, <3>2 DEF Hardware
      <3> DEFINE value == pictures[job.document][c]
      <3>4. CASE UNCHANGED display
        BY <1>0, <3>4 DEF DisplayOK
      <3>5. CASE display.plugged # NoDisplay /\ display' = [display EXCEPT !.settings[display.plugged][c] = value]
        <4>1. display.plugged \in Displays /\ display.settings \in [Displays -> [Codes -> Settings]]
          BY <1>0, <3>5 DEF DisplayOK, AnyDisplay
        <4>2. value \in Settings
          BY <3>3
        <4> HIDE DEF value
        <4>3. [display.settings EXCEPT ![display.plugged][c] = value] \in [Displays -> [Codes -> Settings]]
          BY <3>1, <4>1, <4>2
        <4> QED BY <1>0, <3>5, <4>3 DEF DisplayOK
      <3> QED BY <2>1, <3>4, <3>5
    <2> QED BY <1>0, <2>2, <2>3, <2>4 DEF PictureInv, PortOK, StoreOK
  <1>9. CASE CarryOutFinishes
    <2>1. /\ job.at = "write" /\ applied' = [change |-> job.document, display |-> job.on]
          /\ port' = Finished /\ job' = Idle /\ UNCHANGED <<pictures, kept, display>>
      BY <1>9 DEF CarryOutFinishes
    <2>2. PortOK'
      BY <1>0, <2>1, AnsweredOK
    <2>3. StoreOK'
      BY <1>0, <2>1 DEF StoreOK, JobOK, HardwareJobs
    <2> QED BY <1>0, <2>1, <2>2, <2>3, FreshIs DEF PictureInv, JobOK, DisplayOK
  <1>10. CASE Swapped
    <2>1. PICK d \in AnyDisplay : display' = [display EXCEPT !.plugged = d, !.reports = Append(display.reports, d)]
      BY <1>10 DEF Swapped, AnyDisplay
    <2>2. UNCHANGED <<pictures, port, job, applied, kept>>
      BY <1>10 DEF Swapped
    <2>3. Append(display.reports, d) \in Seq(AnyDisplay)
      <3>1. display.reports \in Seq(AnyDisplay)
        BY <1>0 DEF DisplayOK
      <3> QED BY <3>1, AppendProperties
    <2>4. DisplayOK'
      BY <1>0, <2>1, <2>3 DEF DisplayOK
    <2> QED BY <1>0, <2>2, <2>4 DEF PictureInv, PortOK, JobOK, StoreOK, SameDisplay
  <1>11. CASE ByHand
    <2>1. PICK c \in Codes, v \in Settings : display' = [display EXCEPT !.settings[display.plugged][c] = v]
      BY <1>11 DEF ByHand
    <2>2. display.plugged # NoDisplay /\ UNCHANGED <<pictures, port, job, applied, kept>>
      BY <1>11 DEF ByHand
    <2>3. DisplayOK'
      BY <1>0, <2>1, <2>2 DEF DisplayOK, AnyDisplay
    <2> QED BY <1>0, <2>2, <2>3 DEF PictureInv, PortOK, JobOK, StoreOK, SameDisplay
  <1>12. CASE PictureCrash
    <2>1. /\ port' = FreshPort /\ job' = Idle /\ UNCHANGED <<pictures, applied, kept>>
          /\ display' = [display EXCEPT !.reports = <<display.plugged>>]
      BY <1>12 DEF PictureCrash
    <2>2. PortOK' /\ JobOK'
      BY <1>0, <2>1, FreshIs DEF PortOK, JobOK
    <2>3. DisplayOK'
      <3>1. display.plugged \in AnyDisplay
        BY <1>0 DEF DisplayOK
      <3>2. <<display.plugged>> \in Seq(AnyDisplay)
        BY <3>1
      <3> QED BY <1>0, <2>1, <3>2 DEF DisplayOK
    <2> QED BY <1>0, <2>1, <2>2, <2>3 DEF PictureInv, StoreOK
  <1>13. CASE UNCHANGED pictureVars
    BY <1>0, <1>13 DEF PictureInv, PortOK, JobOK, StoreOK, DisplayOK, SameDisplay, pictureVars
  <1> QED BY <1>1, <1>2, <1>3, <1>4, <1>5, <1>6, <1>7, <1>8, <1>9, <1>10, <1>11, <1>12, <1>13
          DEF PictureNext, HardwareWorker

LEMMA InitPictureInv == PictureInit => PictureInv
  <1> SUFFICES ASSUME PictureInit PROVE PictureInv
    OBVIOUS
  <1>1. PICK v : v = CHOOSE w \in Settings : TRUE
    OBVIOUS
  <1>2. v \in Settings
    BY <1>1, PictureNames
  <1>3. DisplayOK
    BY <1>1, <1>2 DEF PictureInit, DisplayOK, AnyDisplay
  <1> QED BY <1>3, FreshIs DEF PictureInit, PictureInv, PortOK, JobOK, StoreOK, AnyDisplay

LEMMA PictureInvTypes == PictureInv => PictureTypeOK
  BY DEF PictureInv, PortOK, JobOK, StoreOK, DisplayOK, PictureTypeOK, Ports, HardwareJobs, AnyDisplay

\* A write to the display the change was captured for moves only what that change moves.
OwnWrites ==
  \A d \in Displays, c \in Codes :
    CodeWritten /\ display'.settings[d][c] # display.settings[d][c] /\ applied.display = d /\ job.on = d
      => pictures[applied.change][c] # pictures[job.document][c]

LEMMA WritesAreOwn == PictureInv => OwnWrites
  <1> SUFFICES ASSUME PictureInv, NEW d \in Displays, NEW c \in Codes, CodeWritten,
                      display'.settings[d][c] # display.settings[d][c],
                      applied.display = d, job.on = d
               PROVE  pictures[applied.change][c] # pictures[job.document][c]
    BY DEF OwnWrites
  <1>1. SameDisplay
    BY PictureNames DEF PictureInv, StoreOK, SameDisplay
  <1>2. PICK k \in job.writes :
          \/ UNCHANGED display
          \/ /\ display.plugged # NoDisplay
             /\ display' = [display EXCEPT !.settings[display.plugged][k] = pictures[job.document][k]]
    BY DEF CodeWritten
  <1>3. display' = [display EXCEPT !.settings[display.plugged][k] = pictures[job.document][k]]
    BY <1>2
  <1>4. display.plugged \in Displays /\ display.settings \in [Displays -> [Codes -> Settings]]
    BY <1>2 DEF PictureInv, DisplayOK, AnyDisplay
  <1>5. k = c
    BY <1>3, <1>4 DEF PictureInv, DisplayOK
  <1>6. job.at = "write"
    BY DEF CodeWritten
  <1> QED BY <1>1, <1>5, <1>6 DEF PictureInv, JobOK

LEMMA PictureInvariance == PictureSpec => []PictureInv
  BY InitPictureInv, PictureInvStep, PTL DEF PictureSpec

\* Of the display a change was captured for, a write moves only the settings that change moves
\* from what was carried out there before, whatever was plugged, restarted or moved by hand in
\* between (`to_write`, `_carry_out`, `_write`).
THEOREM OwnDisplayKept == PictureSpec => [][OwnWrites]_pictureVars
  <1>1. PictureInv /\ [PictureNext]_pictureVars => [OwnWrites]_pictureVars
    BY WritesAreOwn
  <1> QED BY <1>1, PictureInvariance, PTL DEF PictureSpec

\* With one display, which comes and goes, that is every write there is: a person's value stays until
\* a change moves that very setting.  (With two, a change captured for one may be written on the other.)
THEOREM PersonsValueKept ==
  ASSUME \A d, e \in Displays : d = e
  PROVE  PictureSpec => PersonsValueStays
  <1> DEFINE Kept ==
        \A d \in Displays, c \in Codes :
          CodeWritten /\ display'.settings[d][c] # display.settings[d][c] /\ applied.display = d
            => pictures[applied.change][c] # pictures[job.document][c]
  <1>1. ASSUME PictureInv PROVE Kept
    <2>1. ASSUME NEW d \in Displays, NEW c \in Codes, CodeWritten, applied.display = d
          PROVE  job.on = d
      <3>1. job.writes # {} /\ job.at = "write"
        BY <2>1 DEF CodeWritten
      <3>2. job.on \in Displays
        BY <1>1, <3>1 DEF PictureInv, JobOK, HardwareJobs, AnyDisplay
      <3> QED BY <3>2
    <2> QED BY <1>1, <2>1, WritesAreOwn DEF OwnWrites
  <1>2. PictureInv /\ [PictureNext]_pictureVars => [Kept]_pictureVars
    BY <1>1
  <1> HIDE DEF Kept
  <1>3. PictureSpec => [][Kept]_pictureVars
    BY <1>2, PictureInvariance, PTL DEF PictureSpec
  <1> QED BY <1>3 DEF PersonsValueStays, Kept

-----------------------------------------------------------------------------
(* OutputPower *)

Powers  == {"none", "on", "off"}
Darks   == {"none", "display", "black"}
Tests   == [id : Nat, power : Powers]
Orders  == [change : Nat, plan : [0..MaxHour -> {"on", "off", "ran-out"}], dark : Darks, test : Tests]
Carried == [kind : {"nothing", "ran-out", "timetable", "test"}, power : Powers, id : Nat]
Dues    == {"none", "start", "change", "appeared", "ended", "set-time"}

PowerTables == [count : {"none", "running", "over"}, acted : Carried, forChange : Nat, due : Dues,
                after : Nat, dark : Darks, answered : BOOLEAN]
Looks  == [at : {"idle", "probed", "acts"}, found : BOOLEAN, change : Nat, dark : Darks,
           carried : Carried, after : Nat]
Panels == [there : BOOLEAN, on : BOOLEAN, curtain : BOOLEAN, appeared : Nat]

\* What was carried out is a test's exactly if it has a test's id.
ByTest(carried) == carried \in Carried /\ ((carried.kind = "test") <=> (carried.id # 0))

\* No report or look is of a document yet to come, and no look saw an appearance yet to come.
PowerInv ==
  /\ order \in Orders /\ power \in PowerTables /\ look \in Looks /\ panel \in Panels
  /\ hour \in 0..MaxHour
  /\ order.test # NoTest => order.test.id # 0
  /\ ByTest(power.acted) /\ ByTest(look.carried)
  /\ power.forChange <= order.change /\ look.change <= order.change /\ look.after <= panel.appeared

LEMMA NothingIs ==
  /\ Nothing \in Carried /\ ByTest(Nothing) /\ NoTest \in Tests /\ NoOrder \in Orders /\ NoLook \in Looks
  /\ NoLook.carried = Nothing /\ NoLook.change = 0 /\ NoLook.after = 0
  /\ NoOrder.change = 0 /\ NoOrder.test = NoTest
  BY DEF Nothing, NoTest, NoOrder, NoLook, Carried, Tests, Orders, Looks, Powers, Darks, ByTest

\* A timetable past its end wants nothing, and a test in force is the document's.
LEMMA InForceIs ==
  ASSUME PowerInv
  PROVE  ByTest(InForce)
  <1>1. /\ order \in Orders /\ hour \in 0..MaxHour
        /\ order.test # NoTest => order.test.id # 0
    BY DEF PowerInv
  <1>2. order.plan[hour] \in {"on", "off", "ran-out"}
    BY <1>1 DEF Orders
  <1>3. ByTest(TimetableWants(order))
    BY <1>2 DEF TimetableWants, ByTest, Carried, Powers
  <1>4. CASE order.test # NoTest /\ power.count # "over"
    <2>1. order.test \in Tests /\ order.test.id # 0
      BY <1>1, <1>4 DEF Orders
    <2> QED BY <1>4, <2>1 DEF InForce, ByTest, Carried, Tests
  <1> QED BY <1>3, <1>4 DEF InForce

LEMMA QueuedIs ==
  ASSUME NEW due \in Dues, NEW trigger \in Dues
  PROVE  Queued(due, trigger) \in Dues
  BY DEF Queued

LEMMA PowerInvStep == PowerInv /\ [PowerNext]_powerVars => PowerInv'
  <1> SUFFICES ASSUME PowerInv, [PowerNext]_powerVars PROVE PowerInv'
    OBVIOUS
  <1>0. /\ order \in Orders /\ power \in PowerTables /\ look \in Looks /\ panel \in Panels
        /\ hour \in 0..MaxHour /\ MaxHour \in Nat
        /\ order.test # NoTest => order.test.id # 0
        /\ ByTest(power.acted) /\ ByTest(look.carried)
        /\ power.forChange <= order.change /\ look.change <= order.change /\ look.after <= panel.appeared
        /\ order.change \in Nat /\ power.forChange \in Nat /\ look.change \in Nat /\ look.after \in Nat
        /\ panel.appeared \in Nat /\ power.due \in Dues
    BY PowerBounds DEF PowerInv, Orders, PowerTables, Looks, Panels
  <1>1. CASE OrderArrives
    <2>1. PICK plan \in Timetables, dark \in {"display", "black"},
               test \in {NoTest, order.test} \cup [id : {order.change + 1}, power : {"on", "off"}],
               count \in {power.count, "none"}, due \in {power.due, Queued(power.due, "change")},
               forChange \in {power.forChange, order.change + 1} :
            /\ order' = [change |-> order.change + 1, plan |-> plan, dark |-> dark, test |-> test]
            /\ power' = [power EXCEPT !.count = count, !.due = due, !.forChange = forChange]
      BY <1>1 DEF OrderArrives
    <2>2. UNCHANGED <<look, panel, hour>>
      BY <1>1 DEF OrderArrives
    <2>3. test \in Tests /\ (test # NoTest => test.id # 0) /\ plan \in [0..MaxHour -> {"on", "off", "ran-out"}]
      <3>1. test = NoTest \/ test = order.test \/ test \in [id : {order.change + 1}, power : {"on", "off"}]
        BY <2>1
      <3>2. order.test \in Tests
        BY <1>0 DEF Orders
      <3>3. order.change + 1 \in Nat /\ order.change + 1 # 0
        BY <1>0
      <3>4. ASSUME test \in [id : {order.change + 1}, power : {"on", "off"}] PROVE test \in Tests /\ test.id # 0
        BY <3>3, <3>4 DEF Tests, Powers
      <3> QED BY <1>0, <3>1, <3>2, <3>4, NothingIs, TimetablesAssumption
    <2>4. /\ order' \in Orders /\ order'.test = test /\ order'.change = order.change + 1
      BY <1>0, <2>1, <2>3 DEF Orders, Darks
    <2>5. due \in Dues /\ count \in {"none", "running", "over"} /\ forChange \in Nat
      BY <1>0, <2>1, QueuedIs DEF Dues, PowerTables
    <2>6. /\ power' \in PowerTables /\ power'.acted = power.acted /\ power'.forChange = forChange
      BY <1>0, <2>1, <2>5 DEF PowerTables
    <2>7. forChange <= order.change + 1 /\ look.change <= order.change + 1
      BY <1>0, <2>1
    <2> QED BY <1>0, <2>2, <2>3, <2>4, <2>6, <2>7 DEF PowerInv
  <1>2. CASE Replugged
    <2>1. PICK due \in {power.due, Queued(power.due, "appeared")},
               there \in BOOLEAN, appeared \in {panel.appeared, panel.appeared + 1} :
            /\ power' = [power EXCEPT !.due = due]
            /\ panel' = [panel EXCEPT !.there = there, !.appeared = appeared]
      BY <1>2 DEF Replugged
    <2>2. UNCHANGED <<order, look, hour>>
      BY <1>2 DEF Replugged
    <2>3. due \in Dues
      BY <1>0, <2>1, QueuedIs DEF Dues
    <2>4. power' \in PowerTables /\ power'.acted = power.acted /\ power'.forChange = power.forChange
      BY <1>0, <2>1, <2>3 DEF PowerTables
    <2>5. panel' \in Panels /\ panel'.appeared >= panel.appeared
      <3>1. appeared \in Nat /\ appeared >= panel.appeared
        BY <1>0, <2>1
      <3> QED BY <1>0, <2>1, <3>1 DEF Panels
    <2> QED BY <1>0, <2>2, <2>4, <2>5 DEF PowerInv, Panels
  <1>3. CASE HourPasses
    BY <1>0, <1>3 DEF HourPasses, PowerInv
  <1>4. CASE TestEnds
    <2>1. power' = [power EXCEPT !.count = "over"] /\ UNCHANGED <<order, look, panel, hour>>
      BY <1>4 DEF TestEnds
    <2>2. power' \in PowerTables /\ power'.acted = power.acted /\ power'.forChange = power.forChange
      BY <1>0, <2>1 DEF PowerTables
    <2> QED BY <1>0, <2>1, <2>2 DEF PowerInv
  <1>5. CASE Ticked
    <2>1. PICK due \in {"ended", "set-time"} : power' = [power EXCEPT !.due = due]
      BY <1>5 DEF Ticked
    <2>2. UNCHANGED <<order, look, panel, hour>>
      BY <1>5 DEF Ticked
    <2>3. power' \in PowerTables /\ power'.acted = power.acted /\ power'.forChange = power.forChange
      BY <1>0, <2>1 DEF PowerTables, Dues
    <2> QED BY <1>0, <2>2, <2>3 DEF PowerInv
  <1>6. CASE LookTaken
    <2>1. PICK found \in BOOLEAN : look' = [NoLook EXCEPT !.at = "probed", !.found = found, !.after = panel.appeared]
      BY <1>6 DEF LookTaken
    <2>2. power' = [power EXCEPT !.due = "none"] /\ UNCHANGED <<order, panel, hour>>
      BY <1>6 DEF LookTaken
    <2>3. power' \in PowerTables /\ power'.acted = power.acted /\ power'.forChange = power.forChange
      BY <1>0, <2>2 DEF PowerTables, Dues
    <2>4. /\ look' \in Looks /\ look'.carried = Nothing /\ look'.change = 0 /\ look'.after = panel.appeared
      BY <1>0, <2>1, NothingIs DEF Looks
    <2> QED BY <1>0, <2>2, <2>3, <2>4, NothingIs DEF PowerInv
  <1>7. CASE LookReads
    <2> DEFINE carried == IF order.change = 0 THEN Nothing ELSE InForce
               due == IF power.due = "change" THEN "none" ELSE power.due
               count == IF carried.kind = "test" /\ power.count = "none" THEN "running" ELSE power.count
    <2>1. /\ UNCHANGED <<order, panel, hour>>
          /\ \/ /\ power' = [power EXCEPT !.due = due, !.acted = carried, !.forChange = order.change,
                                           !.after = look.after]
                /\ look' = NoLook
             \/ /\ power' = [power EXCEPT !.due = due, !.count = count]
                /\ look' = [look EXCEPT !.at = "acts", !.change = order.change, !.dark = order.dark,
                                        !.carried = carried]
      BY <1>7 DEF LookReads
    <2>2. ByTest(carried) /\ due \in Dues /\ count \in {"none", "running", "over"} /\ order.dark \in Darks
      <3>1. ByTest(carried)
        BY InForceIs, NothingIs
      <3>2. due \in Dues
        BY <1>0 DEF Dues
      <3>3. power.count \in {"none", "running", "over"} /\ order.dark \in Darks
        BY <1>0 DEF PowerTables, Orders
      <3> HIDE DEF carried
      <3> QED BY <3>1, <3>2, <3>3
    <2> HIDE DEF carried, due, count
    <2>3. carried \in Carried
      BY <2>2 DEF ByTest
    <2>4. CASE /\ power' = [power EXCEPT !.due = due, !.acted = carried, !.forChange = order.change,
                                         !.after = look.after]
               /\ look' = NoLook
      <3>1. power' \in PowerTables /\ power'.acted = carried /\ power'.forChange = order.change
        BY <1>0, <2>2, <2>3, <2>4 DEF PowerTables
      <3> QED BY <1>0, <2>1, <2>2, <2>4, <3>1, NothingIs DEF PowerInv
    <2>5. CASE /\ power' = [power EXCEPT !.due = due, !.count = count]
               /\ look' = [look EXCEPT !.at = "acts", !.change = order.change, !.dark = order.dark,
                                       !.carried = carried]
      <3>1. power' \in PowerTables /\ power'.acted = power.acted /\ power'.forChange = power.forChange
        BY <1>0, <2>2, <2>5 DEF PowerTables
      <3>2. /\ look' \in Looks /\ look'.carried = carried /\ look'.change = order.change /\ look'.after = look.after
        BY <1>0, <2>2, <2>3, <2>5 DEF Looks
      <3> QED BY <1>0, <2>1, <2>2, <3>1, <3>2 DEF PowerInv
    <2> QED BY <2>1, <2>4, <2>5
  <1>8. CASE LookActs
    <2>1. PICK silent \in BOOLEAN, curtain \in {panel.curtain, Curtain},
               on \in {panel.on, IF WorksDisplay THEN look.carried.power = "on" ELSE panel.on} :
            /\ panel' = [panel EXCEPT !.curtain = curtain, !.on = on]
            /\ power' = [power EXCEPT !.forChange = look.change, !.acted = look.carried, !.after = look.after,
                           !.dark = look.dark, !.answered = ~silent]
      BY <1>8 DEF LookActs
    <2>2. look' = NoLook /\ UNCHANGED <<order, hour>>
      BY <1>8 DEF LookActs
    <2>3. curtain \in BOOLEAN /\ on \in BOOLEAN /\ (~silent) \in BOOLEAN
      <3>1. panel.curtain \in BOOLEAN /\ panel.on \in BOOLEAN
        BY <1>0 DEF Panels
      <3>2. Curtain \in BOOLEAN
        BY <1>0 DEF Curtain, BlackOff, Looks
      <3> QED BY <2>1, <3>1, <3>2
    <2>4. panel' \in Panels /\ panel'.appeared = panel.appeared
      BY <1>0, <2>1, <2>3 DEF Panels
    <2>5. look.dark \in Darks /\ look.carried \in Carried
      BY <1>0 DEF Looks
    <2>6. power' \in PowerTables /\ power'.acted = look.carried /\ power'.forChange = look.change
      BY <1>0, <2>1, <2>3, <2>5 DEF PowerTables
    <2> QED BY <1>0, <2>2, <2>4, <2>6, NothingIs DEF PowerInv
  <1>9. CASE UNCHANGED powerVars
    BY <1>0, <1>9 DEF PowerInv, powerVars
  <1> QED BY <1>1, <1>2, <1>3, <1>4, <1>5, <1>6, <1>7, <1>8, <1>9 DEF PowerNext, PowerWorker

LEMMA InitPowerInv == PowerInit => PowerInv
  <1> SUFFICES ASSUME PowerInit PROVE PowerInv
    OBVIOUS
  <1>1. 0 \in 0..MaxHour
    BY PowerBounds
  <1>2. /\ power \in PowerTables /\ panel \in Panels
    BY NothingIs DEF PowerInit, PowerTables, Panels, Dues, Darks
  <1> QED BY <1>1, <1>2, NothingIs DEF PowerInit, PowerInv

LEMMA PowerInvTypes == PowerInv => PowerTypeOK
  BY DEF PowerInv, PowerTypeOK, ByTest, Orders, PowerTables, Looks, Dues

-----------------------------------------------------------------------------
(* All that is kept for a Node *)

NodeInv == ReaderInv /\ DocumentInv /\ WallInv /\ TurnInv /\ PictureInv /\ PowerInv

\* A step of one part leaves the others where they are.
LEMMA NodeInvStep == NodeInv /\ [NodeNext]_nodeVars => NodeInv'
  <1> SUFFICES ASSUME NodeInv, [NodeNext]_nodeVars PROVE NodeInv'
    OBVIOUS
  <1>1. /\ [ReaderNext]_readerVars /\ [DocumentNext]_documentVars /\ [WallNext]_wallVars
        /\ [TurnNext]_turnVars /\ [PictureNext]_pictureVars /\ [PowerNext]_powerVars
    BY DEF NodeNext, nodeVars, busVars, hostVars
  <1> QED BY <1>1, ReaderInvStep, DocumentInvStep, WallInvStep, TurnInvStep, PictureInvStep, PowerInvStep
          DEF NodeInv

LEMMA InitNodeInv == NodeInit => NodeInv
  BY InitReaderInv, InitDocumentInv, InitWallInv, InitTurnInv, InitPictureInv, InitPowerInv
  DEF NodeInit, NodeInv

LEMMA NodeInvariance == NodeSpec => []NodeInv
  BY InitNodeInv, NodeInvStep, PTL DEF NodeSpec

\* Every part's variables stay in their types, the display host's controllers among them.
THEOREM NodeTypes == NodeSpec => []NodeTypeOK
  <1>1. NodeInv => NodeTypeOK
    BY ReaderInvTypes, TurnInvTypes, PictureInvTypes, PowerInvTypes
    DEF NodeInv, NodeTypeOK, DocumentInv, WallInv
  <1> QED BY <1>1, NodeInvariance, PTL

===============================================================================
