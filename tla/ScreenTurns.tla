----------------------------- MODULE ScreenTurns -----------------------------
(***************************************************************************)
(* The display host's screen turns (appliance/display_host/screen_turn.py) *)
(* for one Output: documents, Output reports and one worker that asks the  *)
(* shell, which may refuse or not answer.                                  *)
(***************************************************************************)
EXTENDS Naturals, Sequences

CONSTANTS
  Turns,         \* the turns a document may want
  NoTurn,        \* None
  MayReturn,     \* whether a document may return to the confirmed turn once another was asked
  MaxDocuments,  \* bound: Output documents
  MaxPlugs,      \* bound: times the Output goes or comes
  MaxSilences    \* bound: asks the shell refuses, or carries out without an answer in time

ASSUME TurnsAssumption == NoTurn \notin Turns
ASSUME ReturnAssumption == MayReturn \in BOOLEAN
ASSUME TurnBounds == {MaxDocuments, MaxPlugs, MaxSilences} \subseteq Nat

VARIABLES
  turns,  \* ScreenTurns: wanted, confirmed and waiting turns, the retry, the appearance count
  ask,    \* the worker's ask of the shell, or NoAsk
  output, \* the shell's Output: whether it is there, its turn, kept across a hot-plug, and the
          \* reports of its coming and going that the dispatch loop has not handed on
  uses    \* what is used of each bound

turnVars == <<turns, ask, output, uses>>

NoAsk == [turn |-> NoTurn, seen |-> 0, answer |-> "none"]

UsesTurn(what) == uses' = [uses EXCEPT ![what] = @ + 1]

-----------------------------------------------------------------------------

\* turn_due.
TurnDue(want, confirmed, appeared) == want # NoTurn /\ (appeared \/ want # confirmed)

\* _ask: the newest replaces what waits, or leaves nothing waiting.
Asked(want, confirmed, appeared) == IF TurnDue(want, confirmed, appeared) THEN want ELSE NoTurn

\* document.
TurnDocument ==
  /\ uses.documents < MaxDocuments /\ UsesTurn("documents")
  /\ \E t \in Turns :
       /\ t = turns.confirmed => MayReturn \/ (ask = NoAsk /\ output.turn = t)
       /\ turns' = [turns EXCEPT !.wanted = t, !.waiting = Asked(t, turns.confirmed, FALSE)]
  /\ UNCHANGED <<ask, output>>

\* output: an Output that comes is asked again, one that goes forgets what it was asked.
TurnReport ==
  /\ output.reports # <<>>
  /\ LET there == Head(output.reports) IN
       turns' = [turns EXCEPT !.connected = there, !.confirmed = NoTurn, !.retry = FALSE, !.seen = @ + 1,
                   !.waiting = IF there THEN Asked(turns.wanted, turns.confirmed, TRUE) ELSE NoTurn]
  /\ output' = [output EXCEPT !.reports = Tail(@)]
  /\ UNCHANGED <<ask, uses>>

-----------------------------------------------------------------------------
(* _run, and the shell *)

TurnTaken ==
  /\ ask = NoAsk /\ turns.waiting # NoTurn
  /\ ask' = [turn |-> turns.waiting, seen |-> turns.seen, answer |-> "none"]
  /\ turns' = [turns EXCEPT !.waiting = NoTurn]
  /\ UNCHANGED <<output, uses>>

\* _retry_due, once its time has come.
TurnRetried ==
  /\ ask = NoAsk /\ turns.waiting = NoTurn /\ turns.retry
  /\ turns' = [turns EXCEPT !.retry = FALSE,
                 !.waiting = IF turns.connected THEN Asked(turns.wanted, turns.confirmed, FALSE) ELSE NoTurn]
  /\ UNCHANGED <<ask, output, uses>>

\* A shell without the Output refuses; one that has it may, or may answer too late.
ShellTurns ==
  /\ ask # NoAsk /\ ask.answer = "none"
  /\ \/ /\ output.there
        /\ output' = [output EXCEPT !.turn = ask.turn]
        /\ ask' = [ask EXCEPT !.answer = "done"]
        /\ UNCHANGED uses
     \/ /\ IF output.there THEN uses.silences < MaxSilences /\ UsesTurn("silences") ELSE UNCHANGED uses
        /\ output' \in {output, IF output.there THEN [output EXCEPT !.turn = ask.turn] ELSE output}
        /\ ask' = [ask EXCEPT !.answer = "refused"]
  /\ UNCHANGED turns

\* A bug to catch: a refused turn waits for the next trigger.
Refused_Forgotten == turns

\* _refused: asked again while the Output is connected and the turn still wanted.
Refused == IF turns.connected /\ turns.wanted = ask.turn THEN [turns EXCEPT !.retry = TRUE] ELSE turns

\* An answer that lands after the Output went or came confirms nothing.
TurnAnswered ==
  /\ ask.answer # "none"
  /\ turns' = IF ask.answer = "refused" THEN Refused
              ELSE IF turns.seen = ask.seen THEN [turns EXCEPT !.confirmed = ask.turn, !.retry = FALSE] ELSE turns
  /\ ask' = NoAsk
  /\ UNCHANGED <<output, uses>>

Plugged ==
  /\ uses.plugs < MaxPlugs /\ UsesTurn("plugs")
  /\ output' = [output EXCEPT !.there = ~@, !.reports = Append(@, ~output.there)]
  /\ UNCHANGED <<turns, ask>>

-----------------------------------------------------------------------------

TurnInit ==
  /\ turns = [wanted |-> NoTurn, confirmed |-> NoTurn, waiting |-> NoTurn, retry |-> FALSE, seen |-> 0,
              connected |-> FALSE]
  /\ ask = NoAsk
  /\ output = [there |-> FALSE, turn |-> NoTurn, reports |-> <<>>]
  /\ uses = [documents |-> 0, plugs |-> 0, silences |-> 0]

TurnWorker == TurnTaken \/ TurnRetried \/ ShellTurns \/ TurnAnswered

TurnNext == TurnDocument \/ Plugged \/ TurnReport \/ TurnWorker

\* The worker and the dispatch loop run on, and an ask of the shell ends within its time.
TurnFairness == WF_turnVars(TurnReport) /\ WF_turnVars(TurnWorker)

TurnSpec == TurnInit /\ [][TurnNext]_turnVars /\ TurnFairness

-----------------------------------------------------------------------------
(* Properties *)

TurnTypeOK ==
  /\ {turns.wanted, turns.confirmed, turns.waiting, ask.turn, output.turn} \subseteq Turns \cup {NoTurn}
  /\ turns.seen \in 0..MaxPlugs /\ ask.seen \in 0..turns.seen
  /\ turns.waiting \in {NoTurn, turns.wanted}
  /\ turns.seen + Len(output.reports) = uses.plugs

\* "asked again after RETRY_FIRST seconds, doubling to RETRY_MOST, until the shell confirms
\* it" (screen_turn.py): a connected screen ends turned as its newest document wants.
TurnSettles ==
  <>[](turns.connected /\ turns.wanted # NoTurn => turns.confirmed = turns.wanted /\ output.turn = turns.wanted)
=============================================================================
