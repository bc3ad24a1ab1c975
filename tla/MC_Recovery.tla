----------------------------- MODULE MC_Recovery -----------------------------
(***************************************************************************)
(* What comes right once faults stop: the delivery of States, and the      *)
(* grants of one Player, one of them per behaviour (they do not share a    *)
(* variable).                                                              *)
(***************************************************************************)
EXTENDS MC_GrantProtocol

CONSTANTS Contents, NoContent, Polls, Socket, MaxQueue, MaxChanges, MaxFaults

VARIABLES
  part,  \* the part that moves, chosen at the start
  controlEpoch, row, content, minted, session, located, hello, highest, installed,
  receipt, grants, task, inbox, acks, changes, faults  \* those of ControlDelivery

Delivery == INSTANCE ControlDelivery WITH
  epoch <- controlEpoch, upsets <- faults, MaxUpsets <- MaxFaults

deliveryVars == <<controlEpoch, row, content, minted, session, located, hello, highest, installed,
                  receipt, grants, task, inbox, acks, changes, faults>>
recoveryVars == <<part, allVars, deliveryVars>>

RecoveryInit == part \in {"delivery", "grants"} /\ ProtocolInit /\ Delivery!Init

RecoveryNext ==
  /\ \/ part = "delivery" /\ Delivery!Next /\ UNCHANGED allVars
     \/ part = "grants"   /\ ProtocolNext  /\ UNCHANGED deliveryVars
  /\ UNCHANGED part

\* The fairness of ControlDelivery and of GrantProtocol, each where its part moves.
Delivers(A) == part = "delivery" /\ A
Grants(A)   == part = "grants" /\ A

RecoveryFairness ==
  /\ WF_deliveryVars(Delivers(\E l \in Polls : Delivery!ServeState(l)))
  /\ WF_deliveryVars(Delivers(\E l \in Delivery!Loops : Delivery!PlayerStep(l)))
  /\ WF_deliveryVars(Delivers(\E m \in acks : m.live /\ Delivery!ServeAck(m)))
  /\ WF_deliveryVars(Delivers(Delivery!Session))
  /\ WF_allVars(Grants(Send)) /\ WF_wire(Grants(Taken)) /\ WF_allVars(Grants(TickMain))
  /\ WF_allVars(Grants(MakeReport)) /\ WF_allVars(Grants(Arrive))

RecoverySpec == RecoveryInit /\ [][RecoveryNext]_recoveryVars /\ RecoveryFairness

-----------------------------------------------------------------------------
(* Properties: each asked of its own behaviours *)

\* ControlDelivery's: the Player comes to hold a receipt Central calls current.
DeliveryRecovers == part = "delivery" => Delivery!ReceiptBecomesCurrent

\* GrantProtocol's: a grant Central delivers is one the Player holds.
GrantsRecover == part = "grants" => GrantsAreHeld
=============================================================================
