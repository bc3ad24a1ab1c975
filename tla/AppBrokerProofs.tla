-------------------------- MODULE AppBrokerProofs --------------------------
(***************************************************************************)
(* Proof that every start of the Player has a cause (StartsHaveACause in   *)
(* AppBroker), for any number of Westons, marks and troubles.              *)
(*                                                                         *)
(* What is spawned says nothing of what may still be, so the bound alone   *)
(* is not kept by a step.  The invariant counts the rights to a start that *)
(* are still open beside the starts that were made: the boot's, while its  *)
(* record is empty; the switch's, from the stop proved to its intent; the  *)
(* mark's, while the Weston it names is up or is the launch's; and a start *)
(* begun and not yet spawned.  A restart for a mark opens no right: until  *)
(* the launch is written the mark is what pays for it, and writing the     *)
(* launch is what uses the mark up, since the Weston up then is newer.     *)
(*                                                                         *)
(* Beside it the types of the composition with Central's jobs.             *)
(***************************************************************************)
EXTENDS MC_Effects, JobExecutionProofs

One(b) == IF b THEN 1 ELSE 0

\* The launch's Weston was marked and a newer one is up: what RestartedOnPurpose asks for.
Replaced == mark > 0 /\ mark = launch.display /\ mark < weston.inc

BootOwed   == One(effects.phase = "none")
SwitchOwed == One(online.phase = "stopped")
MarkOwed   == One(mark > 0 /\ mark \in {launch.display, weston.inc})
StartOwed  == One(broker.at = "spawns" \/ (broker.at = "waits" /\ ~Replaced))

Causes == 1 + marks + One(online.consumed)

\* Starts made and rights to one still open never exceed the causes.
Accounted == starts + BootOwed + SwitchOwed + MarkOwed + StartOwed <= Causes

\* A Weston that goes down, or is to, leaves an incarnation for the next.
NextWeston == weston.job \/ ~weston.up => weston.inc < MaxWestons

MarkIsPast == mark <= weston.inc

\* The stop is consumed once, after its intent.
ConsumedOnce == online.phase \in {"none", "preparing", "intent_stop"} => ~online.consumed

BrokerInv == AppTypeOK /\ NextWeston /\ MarkIsPast /\ ConsumedOnce /\ Accounted

-----------------------------------------------------------------------------
(* Types *)

Places ==
  [at : {"off", "turn", "judges", "waits", "spawns", "started", "arms", "dispatches"},
   seen : Westons, captures : BOOLEAN]
BootRecords ==
  [phase : {"none", "intent_start", "running", "exited", "down", "effect_unknown"},
   under : Westons]
SwitchRecords ==
  [phase : {"none", "preparing", "intent_stop", "stopped", "target_intent", "running",
            "effect_unknown"},
   consumed : BOOLEAN, under : {Unseen} \cup Westons]
HostPhases == {"none", "armed", "stopped", "controlled", "missed"}

LEMMA IncarnationTypes ==
  ASSUME AppTypeOK
  PROVE  Incarnation \in Westons
BY BrokerBounds DEF AppTypeOK, Incarnation, Westons

LEMMA ArmedTypes ==
  ASSUME AppTypeOK, Armed # "refused"
  PROVE  Armed \in HostPhases
BY DEF AppTypeOK, Armed, HostPhases

LEMMA RecordedTypes ==
  ASSUME AppTypeOK, NEW p \in {"running", "effect_unknown"}, Recorded(p)
  PROVE  effects' \in BootRecords /\ online' \in SwitchRecords
<1>1. CASE online.phase = "none"
  <2>1. [phase |-> p, under |-> 0] \in BootRecords
    BY BrokerBounds DEF BootRecords, Westons
  <2>2. QED
    BY <1>1, <2>1 DEF AppTypeOK, Recorded, SwitchRecords
<1>2. CASE online.phase # "none"
  BY <1>2 DEF AppTypeOK, Recorded, BootRecords, SwitchRecords
<1>3. QED
  BY <1>1, <1>2

\* The types hold at first and every step keeps them.
LEMMA FirstTypes ==
  BrokerInit => AppTypeOK /\ NextWeston
<1> SUFFICES ASSUME BrokerInit
             PROVE  AppTypeOK /\ NextWeston
  OBVIOUS
<1>1. taken \in BOOLEAN /\ signal \in BOOLEAN
  BY Zenon DEF BrokerInit
<1>2. control \in 0..starts /\ weston \in [inc : 1..MaxWestons, up : BOOLEAN, job : BOOLEAN]
  BY BrokerBounds DEF BrokerInit
<1>3. effects \in BootRecords /\ online \in SwitchRecords /\ broker \in Places
  BY BrokerBounds DEF BrokerInit, BootRecords, SwitchRecords, Places, Westons
<1>4. QED
  BY <1>1, <1>2, <1>3, BrokerBounds
  DEF BrokerInit, AppTypeOK, NextWeston, BootRecords, SwitchRecords, Places, Westons

\* A Weston's incarnation is bounded because none is marked or crashes at the bound.
LEMMA StepTypes ==
  ASSUME AppTypeOK, NextWeston, BrokerNext
  PROVE  AppTypeOK' /\ NextWeston'
<1>1. CASE SignalRestarts
  <2>1. weston' \in [inc : 1..MaxWestons, up : BOOLEAN, job : BOOLEAN]
    BY <1>1, BrokerBounds DEF AppTypeOK, SignalRestarts
  <2>2. NextWeston'
    BY <1>1, BrokerBounds DEF AppTypeOK, NextWeston, SignalRestarts
  <2>3. taken' \in BOOLEAN
    BY <1>1, Zenon DEF AppTypeOK, SignalRestarts
  <2>4. unit' \in {"none", "up", "stopping", "dead"}
    BY <1>1 DEF AppTypeOK, SignalRestarts, Propagated
  <2>5. signal' \in BOOLEAN
    BY <1>1, Zenon DEF SignalRestarts
  <2>6. QED
    BY <1>1, <2>1, <2>2, <2>3, <2>4, <2>5, BrokerBounds
    DEF SignalRestarts, AppTypeOK, NextWeston, Westons, Unseen, Places, BootRecords,
        SwitchRecords, HostPhases, world, journals, counts
<1>2. CASE WestonStops
  <2>1. weston' \in [inc : 1..MaxWestons, up : BOOLEAN, job : BOOLEAN]
    BY <1>2 DEF AppTypeOK, WestonStops
  <2>2. NextWeston'
    BY <1>2, BrokerBounds DEF AppTypeOK, NextWeston, WestonStops
  <2>3. QED
    BY <1>2, <2>1, <2>2, BrokerBounds
    DEF WestonStops, AppTypeOK, NextWeston, Westons, Unseen, Places, BootRecords,
        SwitchRecords, HostPhases, world, journals, counts
<1>3. CASE WestonStarts
  BY <1>3, BrokerBounds
  DEF WestonStarts, AppTypeOK, NextWeston, Westons, Unseen, world, journals, counts
<1>4. CASE UnitStops
  BY <1>4, BrokerBounds
  DEF UnitStops, UnitMoves, AppTypeOK, NextWeston, Westons, Unseen, world, journals, counts
<1>5. CASE UnitCollected
  BY <1>5, BrokerBounds
  DEF UnitCollected, UnitMoves, AppTypeOK, NextWeston, Westons, Unseen, world, journals, counts
<1>6. CASE Deadline
  BY <1>6, BrokerBounds
  DEF Deadline, AppTypeOK, NextWeston, Westons, Unseen, world, journals, counts
<1>7. CASE HostSeesStop
  BY <1>7, BrokerBounds
  DEF HostSeesStop, AppTypeOK, NextWeston, Westons, Unseen, world, journals, counts
<1>8. CASE HostMisses
  BY <1>8, BrokerBounds
  DEF HostMisses, AppTypeOK, NextWeston, Westons, Unseen, world, journals, counts
<1>9. CASE BrokerStarts
  BY <1>9, BrokerBounds
  DEF BrokerStarts, To, AppTypeOK, NextWeston, Westons, Unseen, world, journals, counts
<1>10. CASE StartWrites
  <2>1. launch' \in [stage : {"none", "cold", "target"}, display : Westons]
    BY <1>10, IncarnationTypes DEF StartWrites
  <2>2. taken' \in BOOLEAN
    BY <1>10, Zenon DEF StartWrites
  <2>3. broker' \in Places
    BY <1>10 DEF AppTypeOK, Places, StartWrites, To
  <2>4. QED
    BY <1>10, <2>1, <2>2, <2>3, BrokerBounds
    DEF StartWrites, AppTypeOK, NextWeston, Westons, Unseen, Places, BootRecords,
        SwitchRecords, HostPhases, world, journals, counts
<1>11. CASE Spawns
  BY <1>11, BrokerBounds
  DEF Spawns, To, AppTypeOK, NextWeston, Westons, Unseen, world, journals, counts
<1>12. CASE StartEnds
  <2>1. effects' \in BootRecords /\ online' \in SwitchRecords
    BY <1>12, RecordedTypes DEF AppTypeOK, BootRecords, SwitchRecords, StartEnds
  <2>2. broker' \in Places
    BY <1>12 DEF AppTypeOK, Places, StartEnds, To
  <2>3. QED
    BY <1>12, <2>1, <2>2, BrokerBounds
    DEF StartEnds, AppTypeOK, NextWeston, Westons, Unseen, Places, BootRecords, SwitchRecords,
        HostPhases, world, journals, counts
<1>13. CASE ColdStart
  BY <1>13, BrokerBounds
  DEF ColdStart, To, AppTypeOK, NextWeston, Westons, Unseen, world, journals, counts
<1>14. CASE FindsRunning
  BY <1>14, BrokerBounds
  DEF FindsRunning, Finds, AppTypeOK, NextWeston, Westons, Unseen, world, journals, counts
<1>15. CASE FindsNothing
  BY <1>15, BrokerBounds
  DEF FindsNothing, Finds, AppTypeOK, NextWeston, Westons, Unseen, world, journals, counts
<1>16. CASE FindsExit
  <2>1. broker' \in Places
    BY <1>16, IncarnationTypes DEF AppTypeOK, Places, FindsExit
  <2>2. QED
    BY <1>16, <2>1, BrokerBounds
    DEF FindsExit, AppTypeOK, NextWeston, Westons, Unseen, Places, BootRecords, SwitchRecords,
        HostPhases, world, journals, counts
<1>17. CASE Judges
  <2>1. effects' \in BootRecords
    <3>1. broker.seen \in Westons /\ 0 \in Westons
      BY BrokerBounds DEF AppTypeOK, Westons
    <3>2. \A p \in {"intent_start", "down", "exited"}, w \in Westons :
            [phase |-> p, under |-> w] \in BootRecords
      BY DEF BootRecords
    <3>3. CASE MayStart(broker.seen)
      BY <1>17, <3>1, <3>2, <3>3 DEF Judges
    <3>4. CASE ~MayStart(broker.seen)
      <4> DEFINE p == IF broker.seen # 0 /\ broker.seen = launch.display
                      THEN "down" ELSE "exited"
      <4>1. effects' = [phase |-> p, under |-> broker.seen]
        BY <1>17, <3>4 DEF Judges
      <4>2. QED
        BY <3>1, <3>2, <4>1
    <3>5. QED
      BY <3>3, <3>4
  <2>2. broker' \in Places
    <3>1. 0 \in Westons
      BY BrokerBounds DEF Westons
    <3>2. \A at \in {"waits", "turn"} :
            [broker EXCEPT !.at = at, !.seen = 0] \in Places
      BY <3>1 DEF AppTypeOK, Places
    <3>3. QED
      BY <1>17, <3>2 DEF Judges
  <2>3. QED
    BY <1>17, <2>1, <2>2, BrokerBounds
    DEF Judges, AppTypeOK, NextWeston, Westons, Unseen, Places, BootRecords, SwitchRecords,
        HostPhases, world, journals, counts
<1>18. CASE StartsAgain
  BY <1>18, BrokerBounds
  DEF StartsAgain, To, AppTypeOK, NextWeston, Westons, Unseen, world, journals, counts
<1>19. CASE Execute
  BY <1>19, BrokerBounds
  DEF Execute, To, AppTypeOK, NextWeston, Westons, Unseen, world, journals, counts
<1>20. CASE Admits
  <2>1. host' \in HostPhases
    BY <1>20, ArmedTypes DEF Admits
  <2>2. broker' \in Places
    BY <1>20 DEF AppTypeOK, Places, Admits
  <2>3. QED
    BY <1>20, <2>1, <2>2, BrokerBounds
    DEF Admits, AppTypeOK, NextWeston, Westons, Unseen, Places, BootRecords, SwitchRecords,
        HostPhases, world, journals, counts
<1>21. CASE ArmFails
  BY <1>21, BrokerBounds
  DEF ArmFails, Armed, To, AppTypeOK, NextWeston, Westons, Unseen, world, journals, counts
<1>22. CASE Reattaches
  <2>1. host' \in HostPhases
    BY <1>22, ArmedTypes DEF Reattaches
  <2>2. online' \in SwitchRecords
    BY <1>22 DEF AppTypeOK, SwitchRecords, Reattaches
  <2>3. stop' \in {"none", "admitted", "sent", "completed", "fault"}
    BY <1>22 DEF AppTypeOK, Reattaches
  <2>4. QED
    BY <1>22, <2>1, <2>2, <2>3, BrokerBounds
    DEF Reattaches, AppTypeOK, NextWeston, Westons, Unseen, Places, BootRecords, SwitchRecords,
        HostPhases, world, journals, counts
<1>23. CASE Captures
  <2>1. broker' \in Places
    BY <1>23 DEF AppTypeOK, Places, Captures
  <2>2. stop' \in {"none", "admitted", "sent", "completed", "fault"}
    BY <1>23 DEF Captures
  <2>3. QED
    BY <1>23, <2>1, <2>2, BrokerBounds
    DEF Captures, AppTypeOK, NextWeston, Westons, Unseen, Places, BootRecords, SwitchRecords,
        HostPhases, world, journals, counts
<1>24. CASE Dispatches
  BY <1>24, BrokerBounds
  DEF Dispatches, To, Propagated, AppTypeOK, NextWeston, Westons, Unseen, world, journals,
      counts
<1>25. CASE SeesStop
  BY <1>25, BrokerBounds
  DEF SeesStop, AppTypeOK, NextWeston, Westons, Unseen, world, journals, counts
<1>26. CASE BeginsSwitch
  BY <1>26, BrokerBounds
  DEF BeginsSwitch, Armed, To, AppTypeOK, NextWeston, Westons, Unseen, world, journals, counts
<1>27. CASE SeesTarget
  BY <1>27, BrokerBounds
  DEF SeesTarget, AppTypeOK, NextWeston, Westons, Unseen, world, journals, counts
<1>28. CASE TargetFails
  BY <1>28, BrokerBounds
  DEF TargetFails, AppTypeOK, NextWeston, Westons, Unseen, world, journals, counts
<1>29. CASE FollowsExit
  BY <1>29, BrokerBounds
  DEF FollowsExit, Follow, Incarnation, AppTypeOK, NextWeston, Westons, Unseen, world,
      journals, counts
<1>30. CASE SeesAgain
  BY <1>30, BrokerBounds
  DEF SeesAgain, Follow, AppTypeOK, NextWeston, Westons, Unseen, world, journals, counts
<1>31. CASE FollowStarts
  BY <1>31, BrokerBounds
  DEF FollowStarts, To, AppTypeOK, NextWeston, Westons, Unseen, world, journals, counts
<1>32. CASE SignalMarks
  BY <1>32, BrokerBounds
  DEF SignalMarks, AppTypeOK, NextWeston, Westons, Unseen, world, journals, counts
<1>33. CASE WestonCrashes
  <2>1. weston' \in [inc : 1..MaxWestons, up : BOOLEAN, job : BOOLEAN]
    BY <1>33 DEF AppTypeOK, WestonCrashes
  <2>2. NextWeston'
    BY <1>33, BrokerBounds DEF AppTypeOK, NextWeston, WestonCrashes
  <2>3. QED
    BY <1>33, <2>1, <2>2, BrokerBounds
    DEF WestonCrashes, Propagated, AppTypeOK, NextWeston, Westons, Unseen, Places, BootRecords,
        SwitchRecords, HostPhases, world, journals, counts
<1>34. CASE AppExits
  BY <1>34, BrokerBounds
  DEF AppExits, UnitMoves, AppTypeOK, NextWeston, Westons, Unseen, world, journals, counts
<1>35. CASE Accept
  BY <1>35, BrokerBounds
  DEF Accept, AppTypeOK, NextWeston, Westons, Unseen, world, journals, counts
<1>36. CASE Proves
  BY <1>36, BrokerBounds
  DEF Proves, AppTypeOK, NextWeston, Westons, Unseen, world, journals, counts
<1>37. CASE AdvancesControl
  BY <1>37, BrokerBounds
  DEF AdvancesControl, AppTypeOK, NextWeston, Westons, Unseen, world, journals, counts
<1>38. CASE StartRaises
  <2>1. effects' \in BootRecords /\ online' \in SwitchRecords
    BY <1>38, RecordedTypes DEF StartRaises
  <2>2. broker' \in Places
    BY <1>38 DEF AppTypeOK, Places, StartRaises, To
  <2>3. QED
    BY <1>38, <2>1, <2>2, BrokerBounds
    DEF StartRaises, AppTypeOK, NextWeston, Westons, Unseen, Places, BootRecords,
        SwitchRecords, HostPhases, world, journals, counts
<1>39. CASE BrokerStops
  BY <1>39, BrokerBounds
  DEF BrokerStops, AppTypeOK, NextWeston, Westons, Unseen, world, journals, counts
<1>40. QED
  BY <1>1, <1>2, <1>3, <1>4, <1>5, <1>6, <1>7, <1>8, <1>9, <1>10, <1>11, <1>12, <1>13, <1>14,
     <1>15, <1>16, <1>17, <1>18, <1>19, <1>20, <1>21, <1>22, <1>23, <1>24, <1>25, <1>26, <1>27,
     <1>28, <1>29, <1>30, <1>31, <1>32, <1>33, <1>34, <1>35, <1>36, <1>37, <1>38, <1>39
  DEF BrokerNext, WorldStep, BrokerStep

-----------------------------------------------------------------------------
(* The causes *)

\* A record written keeps no right: neither the boot's nor the switch's is opened by it.
LEMMA RecordedCounts ==
  ASSUME AppTypeOK, ConsumedOnce, NEW p \in {"running", "effect_unknown"}, Recorded(p)
  PROVE  /\ ConsumedOnce' /\ online'.consumed = online.consumed
         /\ BootOwed' <= BootOwed /\ SwitchOwed' <= SwitchOwed
<1> USE DEF AppTypeOK, Recorded, ConsumedOnce, BootOwed, SwitchOwed, One
<1>1. CASE online.phase = "none"
  BY <1>1
<1>2. CASE online.phase # "none"
  <2>1. online'.phase = p /\ online'.consumed = online.consumed
    BY <1>2
  <2>2. UNCHANGED effects
    BY <1>2
  <2>3. QED
    BY <2>1, <2>2
<1>3. QED
  BY <1>1, <1>2

\* The mark that restarts an app names the launch's Weston, and the Weston up is newer.
LEMMA PurposeIsReplaced ==
  ASSUME BrokerInv, NEW under, RestartedOnPurpose(under)
  PROVE  Replaced
BY DEF BrokerInv, AppTypeOK, MarkIsPast, RestartedOnPurpose, Incarnation, Replaced, Westons

\* A start made or begun uses up the right it rests on, and only a cause opens one.
LEMMA StepAccounted ==
  ASSUME BrokerInv, AppTypeOK', BrokerNext
  PROVE  MarkIsPast' /\ ConsumedOnce' /\ Accounted'
<1> USE BrokerBounds
DEF BrokerInv, AppTypeOK, Westons, MarkIsPast, ConsumedOnce, Accounted, Causes, One, BootOwed,
    SwitchOwed, MarkOwed, StartOwed, Replaced
<1>1. CASE SignalRestarts
  BY <1>1 DEF SignalRestarts, world, journals, counts
<1>2. CASE WestonStops
  BY <1>2 DEF WestonStops, Absent, world, journals, counts
<1>3. CASE WestonStarts
  BY <1>3 DEF WestonStarts, world, journals, counts
<1>4. CASE UnitStops
  BY <1>4 DEF UnitStops, UnitMoves, world, journals, counts
<1>5. CASE UnitCollected
  BY <1>5 DEF UnitCollected, UnitMoves, world, journals, counts
<1>6. CASE Deadline
  BY <1>6 DEF Deadline, world, journals, counts
<1>7. CASE HostSeesStop
  BY <1>7 DEF HostSeesStop, Absent, world, journals, counts
<1>8. CASE HostMisses
  BY <1>8 DEF HostMisses, Absent, world, journals, counts
<1>9. CASE BrokerStarts
  BY <1>9 DEF BrokerStarts, To, world, journals, counts
<1>10. CASE StartWrites
  BY <1>10 DEF StartWrites, To, Incarnation, world, journals, counts
<1>11. CASE Spawns
  BY <1>11 DEF Spawns, To, world, journals, counts
<1>12. CASE StartEnds
  <2>1. /\ ConsumedOnce' /\ online'.consumed = online.consumed
        /\ BootOwed' <= BootOwed /\ SwitchOwed' <= SwitchOwed
    BY <1>12, RecordedCounts DEF StartEnds
  <2>2. Accounted' /\ MarkIsPast'
    BY <1>12, <2>1 DEF StartEnds, To, world, counts
  <2>3. QED
    BY <2>1, <2>2
<1>13. CASE ColdStart
  BY <1>13 DEF ColdStart, To, AtTurn, world, journals, counts
<1>14. CASE FindsRunning
  BY <1>14 DEF FindsRunning, Finds, Reconciles, AtTurn, world, journals, counts
<1>15. CASE FindsNothing
  BY <1>15 DEF FindsNothing, Finds, Reconciles, AtTurn, world, journals, counts
<1>16. CASE FindsExit
  BY <1>16 DEF FindsExit, Reconciles, AtTurn, Incarnation, world, journals, counts
<1>17. CASE Judges
  <2>1. CASE MayStart(broker.seen)
    <3>1. Replaced /\ UNCHANGED <<world, launch, online, starts>>
      BY <1>17, <2>1, PurposeIsReplaced DEF Judges, MayStart, counts
    <3>2. effects' = [phase |-> "intent_start", under |-> 0]
      BY <1>17, <2>1 DEF Judges
    <3>3. broker' = [broker EXCEPT !.at = "waits", !.seen = 0]
      BY <1>17, <2>1 DEF Judges
    <3>4. effects'.phase = "intent_start"
      BY <3>2
    <3>5. broker'.at = "waits"
      BY <3>3
    <3>6. QED
      BY <3>1, <3>4, <3>5 DEF world
  <2>2. CASE ~MayStart(broker.seen)
    <3>1. effects'.phase # "none" /\ broker'.at = "turn"
      <4>1. broker'.at = "turn"
        BY <1>17, <2>2 DEF Judges
      <4>2. effects'.phase \in {"down", "exited"}
        <5> DEFINE q == IF broker.seen # 0 /\ broker.seen = launch.display
                        THEN "down" ELSE "exited"
        <5>1. effects' = [under |-> broker.seen, phase |-> q]
          BY <1>17, <2>2 DEF Judges
        <5>2. QED
          BY <5>1
      <4>3. QED
        BY <4>1, <4>2
    <3>2. UNCHANGED <<world, launch, online, starts>>
      BY <1>17 DEF Judges, counts
    <3>3. QED
      BY <3>1, <3>2 DEF world
  <2>3. QED
    BY <2>1, <2>2
<1>18. CASE StartsAgain
  BY <1>18
  DEF StartsAgain, Reconciles, AtTurn, MayStart, RestartedOnPurpose, Incarnation, To, world,
      journals, counts
<1>19. CASE Execute
  BY <1>19 DEF Execute, AtTurn, To, world, journals, counts
<1>20. CASE Admits
  BY <1>20 DEF Admits, world, journals, counts
<1>21. CASE ArmFails
  BY <1>21 DEF ArmFails, To, world, journals, counts
<1>22. CASE Reattaches
  <2>1. CASE online' = [online EXCEPT !.phase = "stopped", !.consumed = TRUE]
    <3>1. ~online.consumed /\ online.phase # "stopped"
      BY <1>22 DEF Reattaches
    <3>2. online'.consumed /\ online'.phase = "stopped"
      BY <2>1
    <3>3. UNCHANGED <<world, launch, effects, broker, starts>>
      BY <1>22 DEF Reattaches, counts
    <3>4. QED
      BY <3>1, <3>2, <3>3 DEF world
  <2>2. CASE online' = [online EXCEPT !.phase = "effect_unknown"]
    <3>1. online'.consumed = online.consumed /\ online'.phase = "effect_unknown"
      BY <2>2
    <3>2. UNCHANGED <<world, launch, effects, broker, starts>>
      BY <1>22 DEF Reattaches, counts
    <3>3. QED
      BY <3>1, <3>2 DEF world
  <2>3. QED
    BY <1>22, <2>1, <2>2 DEF Reattaches
<1>23. CASE Captures
  BY <1>23 DEF Captures, AtTurn, world, journals, counts
<1>24. CASE Dispatches
  BY <1>24 DEF Dispatches, To, world, journals, counts
<1>25. CASE SeesStop
  BY <1>25 DEF SeesStop, AtTurn, world, journals, counts
<1>26. CASE BeginsSwitch
  BY <1>26 DEF BeginsSwitch, AtTurn, To, world, journals, counts
<1>27. CASE SeesTarget
  BY <1>27 DEF SeesTarget, AtTurn, world, journals, counts
<1>28. CASE TargetFails
  BY <1>28 DEF TargetFails, AtTurn, world, journals, counts
<1>29. CASE FollowsExit
  BY <1>29 DEF FollowsExit, Follow, AtTurn, Incarnation, world, journals, counts
<1>30. CASE SeesAgain
  BY <1>30 DEF SeesAgain, Follow, AtTurn, world, journals, counts
<1>31. CASE FollowStarts
  BY <1>31
  DEF FollowStarts, AtTurn, MayStart, RestartedOnPurpose, Incarnation, To, world, journals,
      counts
<1>32. CASE SignalMarks
  BY <1>32 DEF SignalMarks, world, journals, counts
<1>33. CASE WestonCrashes
  BY <1>33 DEF WestonCrashes, world, journals, counts
<1>34. CASE AppExits
  BY <1>34 DEF AppExits, UnitMoves, world, journals, counts
<1>35. CASE Accept
  BY <1>35 DEF Accept, AtTurn, world, journals, counts
<1>36. CASE Proves
  BY <1>36 DEF Proves, AtTurn, world, journals, counts
<1>37. CASE AdvancesControl
  BY <1>37 DEF AdvancesControl, AtTurn, world, journals, counts
<1>38. CASE StartRaises
  <2>1. /\ ConsumedOnce' /\ online'.consumed = online.consumed
        /\ BootOwed' <= BootOwed /\ SwitchOwed' <= SwitchOwed
    BY <1>38, RecordedCounts DEF StartRaises
  <2>2. CASE UNCHANGED <<unit, starts>>
    BY <1>38, <2>1, <2>2 DEF StartRaises, To, world
  <2>3. CASE broker.at = "spawns" /\ unit' = "up" /\ starts' = starts + 1
    BY <1>38, <2>1, <2>3 DEF StartRaises, To, world
  <2>4. QED
    BY <1>38, <2>2, <2>3 DEF StartRaises
<1>39. CASE BrokerStops
  BY <1>39 DEF BrokerStops, world, journals, counts
<1>40. QED
  BY <1>1, <1>2, <1>3, <1>4, <1>5, <1>6, <1>7, <1>8, <1>9, <1>10, <1>11, <1>12, <1>13, <1>14,
     <1>15, <1>16, <1>17, <1>18, <1>19, <1>20, <1>21, <1>22, <1>23, <1>24, <1>25, <1>26, <1>27,
     <1>28, <1>29, <1>30, <1>31, <1>32, <1>33, <1>34, <1>35, <1>36, <1>37, <1>38, <1>39
  DEF BrokerNext, WorldStep, BrokerStep

-----------------------------------------------------------------------------
(* The theorems *)

LEMMA FirstInv ==
  BrokerInit => BrokerInv
BY FirstTypes
DEF BrokerInit, BrokerInv, MarkIsPast, ConsumedOnce, Accounted, Causes, One, BootOwed, SwitchOwed,
    MarkOwed, StartOwed

LEMMA StepInv ==
  BrokerInv /\ [BrokerNext]_brokerVars => BrokerInv'
<1> SUFFICES ASSUME BrokerInv, [BrokerNext]_brokerVars
             PROVE  BrokerInv'
  OBVIOUS
<1>1. CASE BrokerNext
  BY <1>1, StepTypes, StepAccounted DEF BrokerInv
<1>2. CASE UNCHANGED brokerVars
  BY <1>2 DEF brokerVars, world, journals, counts, BrokerInv, AppTypeOK, NextWeston, MarkIsPast,
     ConsumedOnce, Accounted, Causes, BootOwed, SwitchOwed, MarkOwed, StartOwed, Replaced
<1>3. QED
  BY <1>1, <1>2

\* What BrokerInv says of the starts made: the rights still open only leave room for fewer.
LEMMA InvCauses ==
  BrokerInv => StartsHaveACause
BY BrokerBounds
DEF BrokerInv, AppTypeOK, Accounted, Causes, One, BootOwed, SwitchOwed, MarkOwed, StartOwed,
    StartsHaveACause

\* The broker's records hold only what its code writes into them.
THEOREM BrokerTypes == BrokerSpec => []AppTypeOK
<1>1. BrokerInv => AppTypeOK
  BY DEF BrokerInv
<1>2. QED
  BY <1>1, FirstInv, StepInv, PTL DEF BrokerSpec

\* "Three causes start a run, and nothing else does" (broker.py): the boot, a Weston that Display
\* restarted, and a switch whose stop was proved.  Whatever dies in between, no start repeats one.
THEOREM StartsAreCaused == BrokerSpec => []StartsHaveACause
BY FirstInv, StepInv, InvCauses, PTL DEF BrokerSpec

-----------------------------------------------------------------------------
(* The job and the app beside one another *)

\* A step moves one part and leaves the other as it is.
LEMMA EffectsStepMovesOne ==
  [EffectsNext]_effectVars => [JobNext]_jobVars /\ [BrokerNext]_brokerVars
BY DEF EffectsNext, effectVars

\* A job's tables and the app's records stay in their types where either may move
\* (EffectsTypeOK).
THEOREM EffectsTypes == EffectsSpec => []EffectsTypeOK
<1> DEFINE EffectsInv == JobTypeOK /\ BrokerInv
<1>1. EffectsInit => EffectsInv
  BY InitType, FirstInv DEF EffectsInit
<1>2. EffectsInv /\ [EffectsNext]_effectVars => EffectsInv'
  BY TypeStep, StepInv, EffectsStepMovesOne
<1>3. EffectsInv => EffectsTypeOK
  BY DEF EffectsTypeOK, BrokerInv
<1> HIDE DEF EffectsInv
<1>4. QED
  BY <1>1, <1>2, <1>3, PTL DEF EffectsSpec

=============================================================================
