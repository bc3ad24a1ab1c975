-------------------------- MODULE MC_GrantProtocol --------------------------
(* Small instances of GrantProtocol. *)
EXTENDS GrantProtocol, TLC

CONSTANTS f1, f2

OneFrame == {<<f1, 1>>}
OneCue   == {<<f1, 1>>, <<f2, 1>>}
StartOne == [c \in Cues |-> c]
EndOne   == [a \in Assignments |-> a[2] + 2]
AllPlaced == {Assignments}

\* Hitches and upsets, or edits and as many reports as the bound allows.
Either ==
  \/ edits = 0 /\ player.seq < MaxReports
  \/ upsets = 0 /\ hitches = 0
=============================================================================
