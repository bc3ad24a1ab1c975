-------------------------- MODULE MC_Coordination --------------------------
(***************************************************************************)
(* Small instances of Coordination.                                        *)
(***************************************************************************)
EXTENDS Coordination, TLC

CONSTANTS f1, f2

OneCue    == Frames \X {1}
TwoCues   == Frames \X {1, 2}
OnlyOne   == {OneCue}
StartOne  == [c \in Cues |-> c]
EndOne    == [a \in Assignments |-> a[2] + 2]

\* One cue on both Frames, and a second one on either of them or on none.
OneOrTwo == {OneCue} \cup {OneCue \cup {<<f, 2>>} : f \in Frames}

\* Frames and Players are alike.
WallSymmetry == Permutations(Players) \cup Permutations(Frames)

\* A wall of one cue is edited and not upset, and one of its Players reports once; a wall of
\* two is upset and not edited, and its Players report once.
WallInit ==
  /\ Empty
  /\ IF timeline = OneCue THEN edits = 0 /\ upsets = MaxUpsets
                          ELSE edits = MaxEdits /\ upsets = 0

EditedNext ==
  /\ timeline \subseteq OneCue /\ Next /\ timeline' \subseteq OneCue
  /\ \E p \in Players : feedback'[p].seq <= 1

UpsetNext ==
  /\ ~(timeline \subseteq OneCue)
  /\ \/ Plan \/ Settle \/ Tick
     \/ \E p \in Players : feedback[p] = NoFeedback /\ ReportReadiness(p)

WallSpec == WallInit /\ [][EditedNext \/ UpsetNext]_vars
=============================================================================
