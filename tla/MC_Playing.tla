----------------------------- MODULE MC_Playing -----------------------------
(***************************************************************************)
(* What plays, and on whose authority: Central's Runtime, which decides    *)
(* what runs and what lies over what, and the grants of one Player, which  *)
(* plays it; one of them per behaviour.  Coordination, between the two,    *)
(* takes any timeline.                                                     *)
(***************************************************************************)
EXTENDS MC_GrantProtocol, SceneRuntime

VARIABLE part  \* the part that moves, chosen at the start

\* A background that dissolves, and a protecting show that launches a Scene inside it and has an ending.
Leaf(id, frames) ==
  [id |-> id, revision |-> 1, frames |-> frames, protects |-> FALSE, cycle |-> 2, loop |-> TRUE,
   duration |-> Never, outro |-> 0, lead |-> 0, children |-> <<>>]
Slow == [Leaf("slow", {f1}) EXCEPT !.cycle = 3, !.lead = 1]
Show == [Leaf("show", {f2}) EXCEPT !.protects = TRUE, !.loop = FALSE, !.outro = 1,
                                   !.children = <<[scene |-> Leaf("inner", {f1}), delay |-> 1]>>]

TwoScenes == [slow |-> Slow, show |-> Show]
TwoEdits  == {[Slow EXCEPT !.cycle = 2, !.duration = 3], [Show EXCEPT !.protects = FALSE]}
TwoWhens  == [early |-> {<<1, 6>>}, late |-> {<<2, 3>>, <<4, 8>>}]
TwoDrafts == {[when |-> "early", scene |-> "slow", rank |-> 1], [when |-> "late", scene |-> "show", rank |-> 2]}
ThreeRequests ==
  {[scene |-> "show", priority |-> 1, repeat |-> "queue",   force |-> FALSE, expires |-> 3],
   [scene |-> "slow", priority |-> 2, repeat |-> "restart", force |-> FALSE, expires |-> 0],
   [scene |-> "slow", priority |-> 1, repeat |-> "ignore",  force |-> TRUE,  expires |-> 0]}

PlayingInit ==
  /\ part \in {"grants", "runtime"}
  /\ ProtocolInit /\ RuntimeInit
  /\ IF part = "grants" THEN rt = AtFirst ELSE rt.default.scene # "show"

PlayingNext ==
  /\ \/ part = "grants"  /\ ProtocolNext /\ Either' /\ UNCHANGED runtimeVars
     \/ part = "runtime" /\ RuntimeNext /\ UNCHANGED allVars
  /\ UNCHANGED part

PlayingSpec == PlayingInit /\ [][PlayingNext]_<<part, allVars, runtimeVars>>

-----------------------------------------------------------------------------
(* Properties *)

\* Both parts' variables stay in their types.
PlayingTypeOK == ProtocolTypeOK /\ RuntimeTypeOK
=============================================================================
