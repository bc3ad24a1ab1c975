----------------------------- MODULE AppBroker -----------------------------
(***************************************************************************)
(* The app broker (src/appliance/apps): what starts the Player.  It starts *)
(* it once a boot, again when Display restarted Weston under it, and once  *)
(* for a release a person applied: the old one is stopped under an         *)
(* obligation the host keeps with deadlines (src/appliance/node/recovery), *)
(* and only then the new one started.  The broker is one loop; it dies     *)
(* between any two writes, while PID1, Weston and the host go on.          *)
(*                                                                         *)
(* One stage is applied.  Adopting a run nobody launched, stopping a       *)
(* foreign unit, capacity, the identity of processes and roots, and the    *)
(* reports to Central are left out.                                        *)
(***************************************************************************)
EXTENDS Integers

CONSTANTS
  MaxWestons,   \* bound: incarnations of Weston
  MaxMarks,     \* bound: Weston restarts of Display's own
  MaxTroubles,  \* bound: broker deaths, starts that fail and answers of the host lost
  MayArmLate    \* whether the host may be out of reach till past the stop's deadline

ASSUME BrokerBounds ==
  /\ MaxWestons \in Nat \ {0} /\ MaxMarks \in Nat /\ MaxTroubles \in Nat
  /\ MayArmLate \in BOOLEAN

VARIABLES
  weston,    \* the display unit: its incarnation, whether it is up, and its pending job
  mark,      \* the incarnation Display's mark names, 0 none
  signal,    \* whether a signal range change has marked Weston and not yet restarted it
  unit,      \* the app's unit: "none", "up", "stopping", or "dead" and not yet unloaded
  launch,    \* the broker's launch record: whose app, and the Weston up then
  effects,   \* the boot owner's journal
  online,    \* the switch's journal
  stop,      \* the stop's journal
  control,   \* the start whose proof of control is kept for the switch, 0 none
  host,      \* the phase of HostCore's obligation
  clock,     \* 0 before the stop's deadline, 1 before the restore's, 2 after
  broker,    \* where the broker is, what it read there, and whether it may still capture
  starts,    \* the apps spawned
  taken,     \* whether Display's restart took the run, and no start is begun since
  marks, troubles

world     == <<weston, mark, signal, marks>>
journals  == <<launch, effects, online, stop, control>>
counts    == <<starts, taken, troubles>>
brokerVars == <<world, unit, journals, host, clock, broker, counts>>

-----------------------------------------------------------------------------

Absent == unit \in {"none", "dead"}
Westons == 0..MaxWestons
Unseen == -1

AppTypeOK ==
  /\ weston \in [inc : 1..MaxWestons, up : BOOLEAN, job : BOOLEAN]
  /\ mark \in Westons /\ signal \in BOOLEAN
  /\ unit \in {"none", "up", "stopping", "dead"}
  /\ launch \in [stage : {"none", "cold", "target"}, display : Westons]
  /\ effects \in [phase : {"none", "intent_start", "running", "exited", "down", "effect_unknown"},
                  under : Westons]
  /\ online \in [phase : {"none", "preparing", "intent_stop", "stopped", "target_intent",
                          "running", "effect_unknown"},
                 consumed : BOOLEAN, under : {Unseen} \cup Westons]
  /\ stop \in {"none", "admitted", "sent", "completed", "fault"}
  /\ control \in 0..starts
  /\ host \in {"none", "armed", "stopped", "controlled", "missed"} /\ clock \in 0..2
  /\ broker \in [at : {"off", "turn", "judges", "waits", "spawns", "started", "arms",
                       "dispatches"}, seen : Westons, captures : BOOLEAN]
  /\ taken \in BOOLEAN
  /\ marks \in 0..MaxMarks /\ starts \in Nat /\ troubles \in 0..MaxTroubles

-----------------------------------------------------------------------------
(* Display, Weston and PID1 *)

\* A stop of Weston reaches a running app (StopPropagatedFrom=).
Propagated == IF unit = "up" THEN "stopping" ELSE unit

\* A run under the Weston the mark names, which the switch's journal does not still hold for gone.
Victim == unit = "up" /\ mark = launch.display /\ online.under = Unseen

\* photo-wall-display-signal.service: the mark, then the restart, which is not waited for.
SignalMarks ==
  /\ ~signal /\ marks < MaxMarks /\ weston.inc < MaxWestons /\ ~weston.job
  /\ mark' = weston.inc /\ signal' = TRUE /\ marks' = marks + 1
  /\ UNCHANGED <<weston, unit, journals, host, clock, broker, counts>>

SignalRestarts ==
  /\ signal /\ signal' = FALSE
  /\ IF weston.up /\ weston.inc < MaxWestons
     THEN /\ weston' = [weston EXCEPT !.job = TRUE]
          /\ unit' = Propagated
          /\ taken' = (taken \/ Victim)
     ELSE UNCHANGED <<weston, unit, taken>>
  /\ UNCHANGED <<mark, marks, journals, host, clock, broker, starts, troubles>>

\* After=: the app's stop comes before Weston's.
WestonStops ==
  /\ weston.up /\ weston.job /\ Absent
  /\ weston' = [weston EXCEPT !.up = FALSE]
  /\ UNCHANGED <<mark, signal, marks, unit, journals, host, clock, broker, counts>>

WestonCrashes ==
  /\ weston.up /\ ~weston.job /\ weston.inc < MaxWestons
  /\ weston' = [weston EXCEPT !.up = FALSE]
  /\ unit' = Propagated
  /\ UNCHANGED <<mark, signal, marks, journals, host, clock, broker, counts>>

WestonStarts ==
  /\ ~weston.up
  /\ weston' = [inc |-> weston.inc + 1, up |-> TRUE, job |-> FALSE]
  /\ UNCHANGED <<mark, signal, marks, unit, journals, host, clock, broker, counts>>

UnitMoves(from, to) ==
  /\ unit = from /\ unit' = to
  /\ UNCHANGED <<world, journals, host, clock, broker, counts>>

AppExits      == UnitMoves("up", "dead")
UnitStops     == UnitMoves("stopping", "dead")
UnitCollected == UnitMoves("dead", "none")

\* The stop's and the restore's deadlines pass, while anything is owed by them.
Deadline ==
  /\ online.phase \notin {"none", "preparing"} /\ clock < 2
  /\ host \in {"armed", "stopped"} \/ (host = "none" /\ MayArmLate)
  /\ clock' = clock + 1
  /\ UNCHANGED <<world, unit, journals, host, broker, counts>>

-----------------------------------------------------------------------------
(* HostCore's obligation *)

HostSeesStop ==
  /\ host = "armed" /\ Absent
  /\ host' = "stopped"
  /\ UNCHANGED <<world, unit, journals, clock, broker, counts>>

\* A bug to catch: no deadline is kept for the stop itself.
Overdue_Restore == host = "stopped" /\ clock = 2

Overdue ==
  \/ host = "armed" /\ ~Absent /\ clock >= 1
  \/ host = "stopped" /\ clock = 2

HostMisses ==
  /\ Overdue
  /\ host' = "missed"
  /\ UNCHANGED <<world, unit, journals, clock, broker, counts>>

\* arm: admitted before the stop's deadline, and repeated until a deadline is missed.
Armed ==
  CASE host = "none" /\ clock = 0 -> "armed"
    [] host \in {"armed", "stopped", "controlled"} -> host
    [] OTHER -> "refused"

-----------------------------------------------------------------------------
(* Starting the app *)

\* A bug to catch: a Weston on its way out still counts as the one up.
Incarnation_JobOrNot == IF weston.up THEN weston.inc ELSE 0

\* display_incarnation.
Incarnation == IF weston.up /\ ~weston.job THEN weston.inc ELSE 0

\* A bug to catch: any mark will do.
RestartedOnPurpose_AnyMark(under) ==
  /\ mark > 0
  /\ Incarnation \notin {0, launch.display} /\ under # launch.display

\* restarted_on_purpose.
RestartedOnPurpose(under) ==
  /\ mark > 0 /\ mark = launch.display
  /\ Incarnation \notin {0, launch.display} /\ under # launch.display

To(place) == broker' = [broker EXCEPT !.at = place]
AtTurn == broker.at = "turn"

\* start: the launch is written when the unit is unloaded, with the Weston up then.
StartWrites ==
  /\ broker.at = "waits" /\ unit = "none"
  /\ launch' = [stage |-> IF online.phase = "none" THEN "cold" ELSE "target",
                display |-> Incarnation]
  /\ taken' = FALSE
  /\ To("spawns")
  /\ UNCHANGED <<world, unit, effects, online, stop, control, host, clock, starts, troubles>>

\* After=: the start waits for a pending start of Weston.
Spawns ==
  /\ broker.at = "spawns" /\ ~weston.job
  /\ unit' = "up" /\ starts' = starts + 1
  /\ To("started")
  /\ UNCHANGED <<world, journals, host, clock, taken, troubles>>

\* The record of whoever asked for the start.
Recorded(phase) ==
  IF online.phase = "none"
  THEN effects' = [phase |-> phase, under |-> 0] /\ UNCHANGED online
  ELSE online' = [online EXCEPT !.phase = phase, !.under = Unseen] /\ UNCHANGED effects

\* The app is seen running and recorded, or it is not seen; a switch whose unit is between
\* states then raises out of the turn and leaves its intent.
StartEnds ==
  /\ broker.at = "started"
  /\ CASE unit = "up" -> Recorded("running")
       [] unit = "stopping" /\ online.phase = "target_intent" -> UNCHANGED <<effects, online>>
       [] OTHER -> Recorded("effect_unknown")
  /\ To("turn")
  /\ UNCHANGED <<world, unit, launch, stop, control, host, clock, counts>>

\* The unit is not unloaded in time, or the spawn is not accepted, or is and is not seen.
StartRaises ==
  /\ broker.at \in {"waits", "spawns"} /\ troubles < MaxTroubles
  /\ \/ UNCHANGED <<unit, starts>>
     \/ broker.at = "spawns" /\ unit' = "up" /\ starts' = starts + 1
  /\ Recorded("effect_unknown")
  /\ To("turn")
  /\ troubles' = troubles + 1
  /\ UNCHANGED <<world, launch, stop, control, host, clock, taken>>

-----------------------------------------------------------------------------
(* The boot owner: AppEffectBroker *)

ColdStart ==
  /\ AtTurn /\ effects.phase = "none"
  /\ effects' = [effects EXCEPT !.phase = "intent_start"]
  /\ To("waits")
  /\ UNCHANGED <<world, unit, launch, online, stop, control, host, clock, counts>>

\* A turn reconciles the boot's record until a release is applied.
Reconciles == AtTurn /\ online.phase = "none"

\* What the turn finds is the record's: its app running, or nothing where one was meant to start.
Finds(phase) ==
  /\ Reconciles
  /\ effects' = [phase |-> phase, under |-> 0]
  /\ UNCHANGED <<world, unit, launch, online, stop, control, host, clock, broker, counts>>

FindsRunning == unit = "up" /\ effects.phase # "none" /\ Finds("running")
FindsNothing == Absent /\ effects.phase = "intent_start" /\ Finds("effect_unknown")

\* A run found absent: the Weston up is read, then the rule is asked.
FindsExit ==
  /\ Reconciles /\ Absent /\ effects.phase = "running"
  /\ broker' = [broker EXCEPT !.at = "judges", !.seen = Incarnation]
  /\ UNCHANGED <<world, unit, journals, host, clock, counts>>

MayStart(under) == RestartedOnPurpose(under) /\ unit = "none"

Judges ==
  /\ broker.at = "judges"
  /\ IF MayStart(broker.seen)
     THEN /\ effects' = [phase |-> "intent_start", under |-> 0]
          /\ broker' = [broker EXCEPT !.at = "waits", !.seen = 0]
     ELSE /\ effects' = [under |-> broker.seen,
                         phase |-> IF broker.seen # 0 /\ broker.seen = launch.display
                                   THEN "down" ELSE "exited"]
          /\ broker' = [broker EXCEPT !.at = "turn", !.seen = 0]
  /\ UNCHANGED <<world, unit, launch, online, stop, control, host, clock, counts>>

\* A run that waits on its Weston is asked about every turn.
StartsAgain ==
  /\ Reconciles /\ effects.phase = "exited" /\ MayStart(effects.under)
  /\ effects' = [phase |-> "intent_start", under |-> 0]
  /\ To("waits")
  /\ UNCHANGED <<world, unit, launch, online, stop, control, host, clock, counts>>

-----------------------------------------------------------------------------
(* The switch: OnlineEffectBroker *)

Accept ==
  /\ AtTurn /\ online.phase = "none" /\ unit = "up"
  /\ online' = [online EXCEPT !.phase = "preparing"]
  /\ UNCHANGED <<world, unit, launch, effects, stop, control, host, clock, broker, counts>>

\* The root is prepared and the old app still runs: the intent to stop it, deadlines included.
Execute ==
  /\ AtTurn /\ online.phase = "preparing" /\ unit = "up"
  /\ online' = [online EXCEPT !.phase = "intent_stop"]
  /\ To("arms")
  /\ UNCHANGED <<world, unit, launch, effects, stop, control, host, clock, counts>>

\* The host acknowledges; only then is the stop admitted, for this process alone to capture.
Admits ==
  /\ broker.at = "arms" /\ Armed # "refused"
  /\ host' = Armed /\ stop' = "admitted"
  /\ broker' = [broker EXCEPT !.at = "turn", !.captures = TRUE]
  /\ UNCHANGED <<world, unit, launch, effects, online, control, clock, counts>>

\* It refuses, or its answer is lost.
ArmFails ==
  /\ broker.at = "arms"
  /\ IF Armed = "refused"
     THEN UNCHANGED <<host, troubles>>
     ELSE troubles < MaxTroubles /\ host' \in {host, Armed} /\ troubles' = troubles + 1
  /\ To("turn")
  /\ UNCHANGED <<world, unit, journals, clock, starts, taken>>

\* The next turns: armed again, and the stop's journal is taken up, never begun again.  Nothing
\* there, a capture another process left half done, and a fault end the switch.
Reattaches ==
  /\ AtTurn /\ online.phase = "intent_stop" /\ Armed # "refused"
  /\ host' = Armed
  /\ \/ /\ stop = "completed"
        /\ online' = [online EXCEPT !.phase = "stopped", !.consumed = TRUE]
        /\ UNCHANGED stop
     \/ /\ stop \in {"none", "fault"} \/ (stop = "admitted" /\ ~broker.captures)
        /\ online' = [online EXCEPT !.phase = "effect_unknown"]
        /\ stop' = IF stop = "admitted" THEN "fault" ELSE stop
  /\ UNCHANGED <<world, unit, launch, effects, control, clock, broker, counts>>

\* The old app's identity and the dispatch are journaled, then the stop is sent.
Captures ==
  /\ AtTurn /\ stop = "admitted" /\ broker.captures
  /\ stop' = IF unit = "up" THEN "sent" ELSE "fault"
  /\ broker' = [broker EXCEPT !.at = IF unit = "up" THEN "dispatches" ELSE "turn",
                              !.captures = FALSE]
  /\ UNCHANGED <<world, unit, launch, effects, online, control, host, clock, counts>>

\* Past the deadline it is not sent.  A submission that fails leaves what a death here leaves.
Dispatches ==
  /\ broker.at = "dispatches"
  /\ IF clock >= 1 THEN stop' = "fault" /\ UNCHANGED unit
                   ELSE unit' = Propagated /\ UNCHANGED stop
  /\ To("turn")
  /\ UNCHANGED <<world, launch, effects, online, control, host, clock, counts>>

SeesStop ==
  /\ AtTurn /\ stop = "sent" /\ Absent
  /\ stop' = "completed"
  /\ UNCHANGED <<world, unit, launch, effects, online, control, host, clock, broker, counts>>

\* _start, once the stop is consumed.
BeginsSwitch ==
  /\ AtTurn /\ online.phase = "stopped" /\ Absent /\ Armed # "refused"
  /\ host' = Armed
  /\ online' = [online EXCEPT !.phase = "target_intent"]
  /\ To("waits")
  /\ UNCHANGED <<world, unit, launch, effects, stop, control, clock, counts>>

\* A start another process began: its app runs, or it is not begun again.
SeesTarget ==
  /\ AtTurn /\ online.consumed /\ online.phase \in {"target_intent", "effect_unknown"}
  /\ unit = "up" /\ launch.stage = "target"
  /\ online' = [online EXCEPT !.phase = "running"]
  /\ UNCHANGED <<world, unit, launch, effects, stop, control, host, clock, broker, counts>>

\* The target is absent after its intent, or before it has proved control.
TargetFails ==
  /\ AtTurn /\ Absent
  /\ online.phase = "target_intent" \/ (online.phase = "running" /\ control = 0)
  /\ online' = [online EXCEPT !.phase = "effect_unknown"]
  /\ UNCHANGED <<world, unit, launch, effects, stop, control, host, clock, broker, counts>>

\* The running target's proof of control, and the host told of it.
Proves ==
  /\ AtTurn /\ unit = "up" /\ launch.stage = "target"
  /\ control' = starts
  /\ UNCHANGED <<world, unit, launch, effects, online, stop, host, clock, broker, counts>>

AdvancesControl ==
  /\ AtTurn /\ online.phase = "running" /\ unit = "up" /\ control = starts
  /\ host \in {"armed", "stopped"} /\ host' = "controlled"
  /\ UNCHANGED <<world, unit, journals, clock, broker, counts>>

\* _follow_display: where the exit was first seen is kept until the app runs again.
Follow(under) ==
  /\ AtTurn /\ online.phase = "running" /\ control # 0
  /\ online' = [online EXCEPT !.under = under]
  /\ UNCHANGED <<world, unit, launch, effects, stop, control, host, clock, broker, counts>>

FollowsExit == Absent /\ online.under = Unseen /\ Follow(Incarnation)
SeesAgain   == unit = "up" /\ online.under # Unseen /\ Follow(Unseen)

FollowStarts ==
  /\ AtTurn /\ online.phase = "running" /\ control # 0
  /\ online.under # Unseen /\ MayStart(online.under)
  /\ To("waits")
  /\ UNCHANGED <<world, unit, journals, host, clock, counts>>

-----------------------------------------------------------------------------
(* The broker's own death *)

BrokerStops ==
  /\ broker.at # "off" /\ troubles < MaxTroubles
  /\ broker' = [at |-> "off", seen |-> 0, captures |-> FALSE]
  /\ troubles' = troubles + 1
  /\ UNCHANGED <<world, unit, journals, host, clock, starts, taken>>

BrokerStarts ==
  /\ broker.at = "off"
  /\ To("turn")
  /\ UNCHANGED <<world, unit, journals, host, clock, counts>>

-----------------------------------------------------------------------------

BrokerInit ==
  /\ weston = [inc |-> 1, up |-> TRUE, job |-> FALSE]
  /\ mark = 0 /\ signal = FALSE /\ unit = "none"
  /\ launch = [stage |-> "none", display |-> 0]
  /\ effects = [phase |-> "none", under |-> 0]
  /\ online = [phase |-> "none", consumed |-> FALSE, under |-> Unseen]
  /\ stop = "none" /\ control = 0 /\ host = "none" /\ clock = 0
  /\ broker = [at |-> "turn", seen |-> 0, captures |-> FALSE]
  /\ marks = 0 /\ starts = 0 /\ taken = FALSE /\ troubles = 0

\* Display, PID1 and the host's loop go on, and the deadlines pass.
WorldStep ==
  \/ SignalRestarts \/ WestonStops \/ WestonStarts \/ UnitStops \/ UnitCollected
  \/ Deadline \/ HostSeesStop \/ HostMisses

\* The broker is started again and takes its turns; a prepared release is not put off.
BrokerStep ==
  \/ BrokerStarts \/ StartWrites \/ Spawns \/ StartEnds
  \/ ColdStart \/ FindsRunning \/ FindsNothing \/ FindsExit \/ Judges \/ StartsAgain
  \/ Execute \/ Admits \/ ArmFails \/ Reattaches \/ Captures \/ Dispatches \/ SeesStop
  \/ BeginsSwitch \/ SeesTarget \/ TargetFails
  \/ FollowsExit \/ SeesAgain \/ FollowStarts

BrokerNext ==
  \/ WorldStep \/ BrokerStep
  \/ SignalMarks \/ WestonCrashes \/ AppExits
  \/ Accept \/ Proves \/ AdvancesControl \/ StartRaises \/ BrokerStops

BrokerSpec == BrokerInit /\ [][BrokerNext]_brokerVars

\* No more is needed than that one of each goes on.
BrokerFairness == WF_brokerVars(WorldStep) /\ WF_brokerVars(BrokerStep)

BrokerFairSpec == BrokerSpec /\ BrokerFairness

-----------------------------------------------------------------------------
(* Properties *)

\* "Three causes start a run, and nothing else does" (broker.py): what is spawned never exceeds
\* the boot's start, one for each Weston Display restarted, and one for a switch whose stop was
\* proved, wherever the broker dies and whatever its starts come to.
StartsHaveACause == starts <= 1 + marks + IF online.consumed THEN 1 ELSE 0

\* "A stop or start in flight always finishes first" (online_broker.py): a switch begun ends with
\* the target running or its outcome told unknown, or else the host tells of a missed deadline.
SwitchEnds ==
  []<>(online.phase \notin {"intent_stop", "stopped", "target_intent"} \/ host = "missed")

\* Nothing is hidden: the record tells that an outcome is unknown, the host that a deadline is
\* missed, or a newer mark has replaced the one that names the launch's Weston.
Excused ==
  \/ "effect_unknown" \in {effects.phase, online.phase}
  \/ host = "missed" \/ mark # launch.display

\* For a run Display's own Weston restart took (Victim) a start is begun, its launch written, or
\* it is told why not; runs taken while a release is being prepared are left out.
VictimIsStarted == []<>(taken => Excused \/ online.phase = "preparing")

\* "calls this every turn the app is absent" (broker.py, start_for_display): the same of every run.
VictimIsStartedAlways == []<>(taken => Excused)
==============================================================================
