---------------------------- MODULE PictureControl ----------------------------
(***************************************************************************)
(* The hardware half of the display host's picture controller              *)
(* (appliance/display_host/picture.py) for one Output: picture documents,  *)
(* Output reports and the worker that asks the connected display's list    *)
(* and writes its settings over DDC/CI.  A picture change is a position in *)
(* `pictures`.                                                             *)
(***************************************************************************)
EXTENDS Naturals, Sequences

CONSTANTS
  Displays, NoDisplay,  \* identities; None
  Codes, Settings,      \* the DDC/CI settings, and the values of each
  Unset,                \* a code the document leaves to the display
  MaxPictures,          \* bound: picture documents
  MaxSwaps,             \* bound: displays plugged and unplugged
  MaxHands,             \* bound: settings a person moves on the display
  MaxCrashes,           \* bound: Weston and, with it, the controller restarting
  MaxSilentDisplays     \* bound: asks and writes a display does not answer

ASSUME PictureNames == NoDisplay \notin Displays /\ Unset \notin Settings /\ Settings # {}
ASSUME PictureBounds ==
  {MaxPictures, MaxSwaps, MaxHands, MaxCrashes, MaxSilentDisplays} \subseteq Nat

VARIABLES
  pictures,  \* Central's picture documents: the hardware of each change
  port,      \* the controller's _Port
  job,       \* the hardware worker
  applied,   \* AppliedPictures: the change last carried out, on which display (survives a crash)
  kept,      \* OfferedCache: the displays whose list is kept (survives a crash)
  display,   \* the displays' settings, the plugged one and the Output reports not handed on
  tries      \* what is used of each bound

pictureVars == <<pictures, port, job, applied, kept, display, tries>>

Spend(what, most) == tries[what] < most /\ tries' = [tries EXCEPT ![what] = @ + 1]

FreshPort == [connected |-> FALSE, identity |-> NoDisplay, document |-> 0, pending |-> FALSE,
              carriedOn |-> "never", lists |-> {}, forChange |-> 0, wantApply |-> FALSE]

Idle == [at |-> "idle", apply |-> FALSE, asking |-> NoDisplay, document |-> 0, on |-> NoDisplay,
         connected |-> FALSE, listed |-> FALSE, writes |-> {}]

-----------------------------------------------------------------------------
(* What the controller hears *)

PictureChosen ==
  /\ Len(pictures) < MaxPictures
  /\ \E hardware \in [Codes -> Settings \cup {Unset}] : pictures' = Append(pictures, hardware)
  /\ UNCHANGED <<port, job, applied, kept, display, tries>>

\* document: the feed delivers the newest, again after a restart.
PictureArrives ==
  /\ port.document < Len(pictures)
  /\ port' = [port EXCEPT !.document = Len(pictures), !.pending = TRUE, !.wantApply = TRUE]
  /\ UNCHANGED <<pictures, job, applied, kept, display, tries>>

\* output: another identity carries the document out again.
PictureOutput ==
  /\ display.reports # <<>>
  /\ LET identity  == Head(display.reports)
         connected == identity # NoDisplay
         again     == connected /\ port.document # 0 /\ (port.pending \/ identity # port.carriedOn)
     IN port' = [port EXCEPT !.connected = connected, !.identity = identity,
                             !.pending = @ \/ again, !.wantApply = @ \/ again]
  /\ display' = [display EXCEPT !.reports = Tail(@)]
  /\ UNCHANGED <<pictures, job, applied, kept, tries>>

-----------------------------------------------------------------------------
(* The hardware worker: _run *)

Listed(identity) == identity \in port.lists

\* _ask_due; the wait between two asks is left out.
AskDue == IF port.connected /\ ~Listed(port.identity) THEN port.identity ELSE NoDisplay

WorkTaken ==
  /\ job = Idle /\ (port.wantApply \/ AskDue # NoDisplay)
  /\ job' = [job EXCEPT !.at = IF AskDue # NoDisplay THEN "ask" ELSE "begin",
                        !.apply = port.wantApply, !.asking = AskDue]
  /\ port' = [port EXCEPT !.wantApply = FALSE]
  /\ UNCHANGED <<pictures, applied, kept, display, tries>>

\* _asked: the list kept for the display, or what whichever display is plugged answers.
ListAsked ==
  /\ job.at = "ask"
  /\ LET known == job.asking \in kept IN
     \/ /\ known \/ display.plugged # NoDisplay
        /\ port' = [port EXCEPT !.lists = @ \cup {job.asking}]
        /\ kept' = kept \cup {job.asking}
        /\ job' = IF job.apply \/ port.pending THEN [job EXCEPT !.at = "begin"] ELSE Idle
        /\ UNCHANGED tries
     \/ /\ ~known
        /\ IF display.plugged = NoDisplay THEN UNCHANGED tries ELSE Spend("silences", MaxSilentDisplays)
        /\ job' = IF job.apply THEN [job EXCEPT !.at = "begin"] ELSE Idle
        /\ UNCHANGED <<port, kept>>
  /\ UNCHANGED <<pictures, applied, display>>

\* _carry_out, first part: what it captures.
CarryOutBegins ==
  /\ job.at = "begin"
  /\ job' = IF ~port.pending THEN Idle
            ELSE [Idle EXCEPT !.at = "decide", !.document = port.document, !.on = port.identity,
                              !.connected = port.connected, !.listed = port.connected /\ Listed(port.identity)]
  /\ UNCHANGED <<pictures, port, applied, kept, display, tries>>

\* Whether the change last carried out was carried out on this display.
SameDisplay == applied.change # 0 /\ applied.display = job.on

Wanted(change) == {c \in Codes : pictures[change][c] # Unset}

\* A bug to catch: every code of the document is written.
ToWrite_All == Wanted(job.document)

\* to_write: what differs from the change last carried out on this display.
ToWrite == {c \in Wanted(job.document) : SameDisplay => pictures[applied.change][c] # pictures[job.document][c]}

\* A bug to catch: a change that was answered while its hardware waits is done with.
Answered_NoLonger == [port EXCEPT !.forChange = job.document, !.pending = FALSE]

\* _answer.
Answered == IF port.document = job.document THEN [port EXCEPT !.forChange = job.document] ELSE port

\* _finish.
Finished == [port EXCEPT !.forChange = job.document, !.carriedOn = job.on,
                         !.pending = @ /\ port.document # job.document]

\* _carry_out, once the signal step is over: carried out before, waiting, or to be written.
CarryOutDecides ==
  /\ job.at = "decide"
  /\ LET before == SameDisplay /\ applied.change = job.document
         waits  == Wanted(job.document) # {} /\ (~job.connected \/ (ToWrite # {} /\ ~job.listed))
     IN \/ before /\ port' = Finished /\ job' = Idle
        \/ ~before /\ waits /\ port' = Answered /\ job' = Idle
        \/ /\ ~before /\ ~waits
           /\ job' = [job EXCEPT !.at = "write", !.writes = IF job.listed THEN ToWrite ELSE {}]
           /\ UNCHANGED port
  /\ UNCHANGED <<pictures, applied, kept, display, tries>>

\* _write: the plugged display is read, written unless it has the value, and may not take it.
CodeWritten ==
  /\ job.at = "write"
  /\ \E c \in job.writes :
       /\ job' = [job EXCEPT !.writes = @ \ {c}]
       /\ \/ display.plugged = NoDisplay /\ UNCHANGED <<display, tries>>
          \/ /\ display.plugged # NoDisplay
             /\ display' = [display EXCEPT !.settings[display.plugged][c] = pictures[job.document][c]]
             /\ UNCHANGED tries
          \/ display.plugged # NoDisplay /\ Spend("silences", MaxSilentDisplays) /\ UNCHANGED display
  /\ UNCHANGED <<pictures, port, applied, kept>>

\* Recorded as applied, and finished.
CarryOutFinishes ==
  /\ job.at = "write" /\ job.writes = {}
  /\ applied' = [change |-> job.document, display |-> job.on]
  /\ port' = Finished
  /\ job' = Idle
  /\ UNCHANGED <<pictures, kept, display, tries>>

-----------------------------------------------------------------------------
(* Displays, people and restarts *)

Swapped ==
  /\ Spend("swaps", MaxSwaps)
  /\ \E d \in (Displays \cup {NoDisplay}) \ {display.plugged} :
       display' = [display EXCEPT !.plugged = d, !.reports = Append(@, d)]
  /\ UNCHANGED <<pictures, port, job, applied, kept>>

ByHand ==
  /\ display.plugged # NoDisplay /\ Spend("hands", MaxHands)
  /\ \E c \in Codes, v \in Settings : display' = [display EXCEPT !.settings[display.plugged][c] = v]
  /\ UNCHANGED <<pictures, port, job, applied, kept>>

\* Weston and, with it, the controller: a new one hears of the Output it finds.
PictureCrash ==
  /\ Spend("crashes", MaxCrashes)
  /\ port' = FreshPort /\ job' = Idle
  /\ display' = [display EXCEPT !.reports = <<display.plugged>>]
  /\ UNCHANGED <<pictures, applied, kept>>

-----------------------------------------------------------------------------

PictureInit ==
  /\ pictures = <<>>
  /\ port = FreshPort /\ job = Idle
  /\ applied = [change |-> 0, display |-> NoDisplay] /\ kept = {}
  /\ display = [settings |-> [d \in Displays |-> [c \in Codes |-> CHOOSE v \in Settings : TRUE]],
                plugged |-> NoDisplay, reports |-> <<>>]
  /\ tries = [swaps |-> 0, hands |-> 0, crashes |-> 0, silences |-> 0]

HardwareWorker ==
  \/ WorkTaken \/ ListAsked \/ CarryOutBegins \/ CarryOutDecides
  \/ CodeWritten \/ CarryOutFinishes

PictureNext ==
  \/ PictureChosen \/ PictureArrives \/ PictureOutput \/ HardwareWorker
  \/ Swapped \/ ByHand \/ PictureCrash

\* The worker and the threads of the two callbacks run on; a display answers or is given up in time.
PictureFairness ==
  /\ WF_pictureVars(PictureArrives) /\ WF_pictureVars(PictureOutput) /\ WF_pictureVars(HardwareWorker)

PictureSpec == PictureInit /\ [][PictureNext]_pictureVars /\ PictureFairness

-----------------------------------------------------------------------------
(* Properties *)

PictureTypeOK ==
  /\ port.identity \in Displays \cup {NoDisplay} /\ (port.connected <=> port.identity # NoDisplay)
  /\ port.carriedOn \in Displays \cup {NoDisplay, "never"} /\ port.lists \subseteq kept /\ kept \subseteq Displays
  /\ {port.document, port.forChange, applied.change, job.document} \subseteq 0..Len(pictures)
  /\ job.at \in {"idle", "ask", "begin", "decide", "write"} /\ job.writes \subseteq Codes
  /\ applied.display \in Displays \cup {NoDisplay}
  /\ display.settings \in [Displays -> [Codes -> Settings]]

\* "when the document's picture_change rose, only the hardware codes whose value differs from the
\* change last carried out on the same display are written" (picture.py): a person's value stays
\* until a change moves that very setting, restarts and blips in between or not.
PersonsValueStays ==
  [][\A d \in Displays, c \in Codes :
       CodeWritten /\ display'.settings[d][c] # display.settings[d][c] /\ applied.display = d
         => pictures[applied.change][c] # pictures[job.document][c]]_pictureVars

\* "Newest wins", "a change is answered while its hardware waits", "another identity carries out
\* the document again" (picture.py): in the end the newest change is answered, and
\* carried out on the display that is plugged.
PictureSettles ==
  <>[](pictures # <<>> =>
         /\ port.forChange = Len(pictures)
         /\ display.plugged # NoDisplay /\ Wanted(Len(pictures)) # {}
              => applied = [change |-> Len(pictures), display |-> display.plugged])
===============================================================================
