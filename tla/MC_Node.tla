------------------------------- MODULE MC_Node -------------------------------
(***************************************************************************)
(* What Central keeps for a Node over the Node bus, and the parts of the   *)
(* display host that work its Output documents, one per behaviour: they    *)
(* share a connection and nothing a property speaks of.                    *)
(***************************************************************************)
EXTENDS CursorReader, NodeDocuments, WallStream, ScreenTurns, PictureControl, MC_OutputPower

VARIABLE part  \* the part that moves, chosen at the start

busVars == <<readerVars, documentVars, wallVars>>
hostVars == <<turnVars, pictureVars, powerVars>>
nodeVars == <<part, busVars, hostVars>>

NodeInit ==
  /\ part \in {"reader", "documents", "wall", "turns", "picture", "power"}
  /\ ReaderInit /\ DocumentInit /\ WallInit /\ TurnInit /\ PictureInit /\ PowerInit
  /\ part # "documents" => projection = "v1" /\ bucket.listed

NodeNext ==
  /\ \/ part = "reader"    /\ ReaderNext   /\ UNCHANGED <<documentVars, wallVars, hostVars>>
     \/ part = "documents" /\ DocumentNext /\ UNCHANGED <<readerVars, wallVars, hostVars>>
     \/ part = "wall"      /\ WallNext     /\ UNCHANGED <<readerVars, documentVars, hostVars>>
     \/ part = "turns"     /\ TurnNext     /\ UNCHANGED <<busVars, pictureVars, powerVars>>
     \/ part = "picture"   /\ PictureNext  /\ UNCHANGED <<busVars, turnVars, powerVars>>
     \/ part = "power"     /\ PowerNext    /\ UNCHANGED <<busVars, turnVars, pictureVars>>
  /\ UNCHANGED part

\* Each part's own fairness, where that part moves.
NodeFairness ==
  /\ WF_readerVars(part = "reader" /\ NodeLinkStep)
  /\ WF_documentVars(part = "documents" /\ AssertStep)
  /\ WF_documentVars(part = "documents" /\ LateLands)
  /\ \A c \in Centrals : WF_wallVars(part = "wall" /\ WriterStep(c))
  /\ WF_turnVars(part = "turns" /\ TurnReport)
  /\ WF_turnVars(part = "turns" /\ TurnWorker)
  /\ WF_pictureVars(part = "picture" /\ PictureArrives)
  /\ WF_pictureVars(part = "picture" /\ PictureOutput)
  /\ WF_pictureVars(part = "picture" /\ HardwareWorker)
  /\ WF_powerVars(part = "power" /\ TestEnds)
  /\ WF_powerVars(part = "power" /\ PowerWorker)

NodeSpec == NodeInit /\ [][NodeNext]_nodeVars /\ NodeFairness

-----------------------------------------------------------------------------
(* Properties *)

\* Every part's variables stay in their types.
NodeTypeOK == ReaderTypeOK /\ DocumentTypeOK /\ WallTypeOK /\ TurnTypeOK /\ PictureTypeOK /\ PowerTypeOK

\* The reader adopts every row the bus still holds for its epoch (CursorReader); like those below,
\* asked of its own behaviours only: a part that does not move settles nothing.
ReaderCatchesUp == part = "reader" => CatchesUp

\* What Central publishes ends held: every document the tables name in the bucket as Central
\* projects it, and the wall's newest document in the WALL stream (NodeDocuments, WallStream).
DocumentsAreHeld ==
  /\ part = "documents" => DocumentsSettle
  /\ part = "wall" => WallHoldsTheDocument

\* What was wanted last of a display ends carried out: a connected screen turned as its newest
\* document wants, the newest picture change answered and carried out on the plugged display, and
\* the last look one at what is in force (ScreenTurns, PictureControl, OutputPower).
DisplaysSettle ==
  /\ part = "turns" => TurnSettles
  /\ part = "picture" => PictureSettles
  /\ part = "power" => PowerSettles
==============================================================================
