---------------------------- MODULE GrantProtocol ----------------------------
(***************************************************************************)
(* Central's Coordinator and one Player's executor, composed: Central's    *)
(* plan, grants and revocations reach the Player as whole States, and what *)
(* the Player has prepared and lost reaches Central as reports.            *)
(*                                                                         *)
(* ControlDelivery shows that a Player takes the States of one epoch in    *)
(* the order they were issued, so the transports are one slot holding the  *)
(* latest State on its way: a newer one overwrites it.                     *)
(* Content locks, left out of Coordination, are kept for this Player here. *)
(***************************************************************************)
EXTENDS Coordination

CONSTANTS
  Self,         \* the Player
  KeepReports,  \* the reports it retains
  MaxPosts,     \* bound: reports on their way at once
  MaxHitches    \* bound: lost reports, repeated ones, lost preparations, damaged
                \* bytes, unhealthy clocks

ASSUME SelfAssumption == Self \in Players
ASSUME KeepAssumption == KeepReports \in Nat \ {0}
ASSUME ProtocolBounds == MaxPosts \in Nat /\ MaxHitches \in Nat

VARIABLES
  healthy,  \* the Player's clock mapping
  player,   \* its executor
  locks,    \* its assignment_locks rows
  wire,     \* the State on its way to it
  posts,    \* its reports on their way to Central
  hitches   \* hitches so far

Exec == INSTANCE PlayerExecution

playerVars == <<healthy, player>>
wireVars   == <<wire, posts>>
allVars    == <<vars, playerVars, wireVars, locks, hitches>>

NoState == [epoch |-> 0]

Hitch == hitches < MaxHitches /\ hitches' = hitches + 1

-----------------------------------------------------------------------------
(* What travels *)

\* Coordinator.delivery: the plan while it stands, one Commit per cohort and
\* readiness sequence, and the revocations of its skipped cohorts.
StateNow ==
  LET rows == DeliveredGrants(Self)
      mine == IF Standing(Self) THEN plan[Self].groups ELSE <<>>
      gone == {mine[a] : a \in {a \in DOMAIN mine : Cohort(mine[a]).status = "skipped"}}
      CommitOf(k) ==
        LET rs == {r \in rows : r.group = k[1] /\ r.seq = k[2]}
        IN  [seq |-> k[2], ids |-> {r.a : r \in rs},
             at |-> CHOOSE t \in {r.at : r \in rs} : \A r \in rs : r.at <= t]
  IN  [epoch |-> epoch[Self], frames |-> Bindings(Self),
       rev |-> IF Standing(Self) THEN plan[Self].rev ELSE 0,
       layers |-> DOMAIN mine,
       commits |-> {CommitOf(k) : k \in {<<r.group, r.seq>> : r \in rows}},
       revocations |-> {[seq |-> Cohort(g).skip,
                         ids |-> {a \in DOMAIN mine : mine[a] = g}] : g \in gone}]

\* Whether the State says anything the Player has not taken already.
News(s) ==
  \/ s.epoch # player.epoch \/ s.frames # player.frames
  \/ s.rev \notin {0, player.rev}
  \/ ~(s.commits \subseteq player.seen)
  \/ \E r \in s.revocations : r.seq > player.revoked

\* Central serves a State; one that was on its way is superseded.
Send ==
  /\ News(StateNow) /\ wire # StateNow
  /\ wire' = StateNow
  /\ UNCHANGED <<vars, playerVars, posts, locks, hitches>>

\* A pass that loses what was prepared, or has no room, is a hitch.
Smooth(ready, fits) ==
  LET had == {a \in Exec!Held(player) : player.asg[a].prepared /\ now < End[a]} IN
  IF fits /\ had \cap Exec!Held(player') \subseteq ready
    THEN UNCHANGED hitches ELSE Hitch

\* The Player takes the State (_apply_state).
Take ==
  /\ wire # NoState
  /\ \E ready \in SUBSET (wire.layers \cup Exec!Held(player)), fits \in BOOLEAN :
       /\ Exec!Apply(wire, ready, fits)
       /\ Smooth(ready, fits)
  /\ wire' = NoState
  /\ UNCHANGED <<wallVars, coordVars, edits, upsets, posts, locks>>

\* A planning tick of its main loop.
TickMain ==
  /\ \E ready \in SUBSET Exec!Preparable(player), fits \in BOOLEAN :
       /\ Exec!TickMain(ready, fits)
       /\ Smooth(ready, fits)
  /\ UNCHANGED <<wallVars, coordVars, edits, upsets, wireVars, locks>>

Acquire ==
  /\ \E a \in Assignments : Exec!Acquire(a)
  /\ UNCHANGED <<wallVars, coordVars, edits, upsets, wireVars, hitches, locks>>

Damage ==
  /\ Hitch
  /\ \E a \in Assignments : Exec!Damage(a)
  /\ UNCHANGED <<wallVars, coordVars, edits, upsets, wireVars, locks>>

ClockTurns ==
  /\ IF healthy THEN Hitch ELSE UNCHANGED hitches
  /\ Exec!ClockTurns
  /\ UNCHANGED <<wallVars, coordVars, edits, upsets, wireVars, locks>>

-----------------------------------------------------------------------------
(* Reports *)

NextReport == Exec!ReportOf(Exec!Gated(player))

\* What a report calls secured, and what else it names: whatever is imminent when
\* the clock or the capacity fails for all of it.
SecuredNow(x) == {a \in Exec!Held(x) : now < End[a] /\ x.asg[a].secured}
FailingNow(x) == IF healthy /\ x.capacity THEN {} ELSE Exec!Imminent(x)

\* A report says something Central has not heard, or is repeated all the same.
Repeats(r) ==
  LET Says(q) == [q EXCEPT !.seq = 0] IN
  \/ Says(feedback[Self]) = Says(r)
  \/ \E m \in posts : Says(m.report) = Says(r)

MakeReport ==
  /\ player.seq < MaxReports
  /\ Cardinality(posts) < MaxPosts
  /\ Exec!Report
  /\ posts' = posts \cup {[report |-> NextReport, frames |-> player.frames,
                             secured |-> SecuredNow(player), failing |-> FailingNow(player)]}
  /\ IF Repeats(NextReport) THEN Hitch ELSE UNCHANGED hitches
  /\ UNCHANGED <<wallVars, coordVars, edits, upsets, wire, locks>>

\* A report Central knows the offer of, and newer than the last it heard.
Expected(m) ==
  /\ Offered(Self) /\ m.report.epoch = epoch[Self] /\ m.report.rev \in 1..plan[Self].rev
  /\ m.report.seq > IF feedback[Self].epoch = epoch[Self] THEN feedback[Self].seq ELSE 0

\* It speaks of the bindings of now.
OfThisWall(m) ==
  \A a \in m.secured \cup m.failing :
    binding[FrameOf(a)] = [player |-> Self, gen |-> m.frames[FrameOf(a)]]

\* The content locks of what it secured.
LocksOf(m) ==
  {[epoch |-> m.report.epoch, a |-> a, gen |-> m.frames[FrameOf(a)]] :
     a \in {a \in m.secured : now < End[a]}}

\* No lock of this epoch holds the same showing to other content.
Unlocked(m) ==
  \A l \in LocksOf(m) : \A k \in locks : k.epoch = l.epoch /\ k.a = l.a => k = l

\* A report arrives, in any order; an inadmissible one is refused.
Arrive ==
  \E m \in posts :
    /\ posts' = posts \ {m}
    /\ IF Expected(m) /\ OfThisWall(m) /\ Unlocked(m)
         THEN Readiness(Self, m.report) /\ locks' = locks \cup LocksOf(m)
         ELSE UNCHANGED <<vars, locks>>
    /\ UNCHANGED <<playerVars, wire, hitches>>

LosePost ==
  /\ Hitch
  /\ \E m \in posts : posts' = posts \ {m}
  /\ UNCHANGED <<vars, playerVars, wire, locks>>

-----------------------------------------------------------------------------
(* Everything else *)

\* Central's own passes and the wall's edits, none of which the Player sees.
Central ==
  /\ \/ Plan \/ Settle \/ EditTimeline
     \/ \E f \in Frames : Rebind(f) \/ OutputLost(f) \/ OutputRecovers(f)
  /\ UNCHANGED <<playerVars, wireVars, locks, hitches>>

\* The Player registers anew, restarted or not: no request of before counts.
Enrolls ==
  /\ Enroll(Self)
  /\ wire' = NoState /\ posts' = {}
  /\ UNCHANGED <<healthy, locks, hitches>>
  /\ player' \in {player, Exec!Cold}

Passes ==
  /\ Tick
  /\ UNCHANGED <<playerVars, wireVars, locks, hitches>>

ProtocolInit ==
  /\ Init
  /\ healthy = TRUE /\ player = Exec!Cold
  /\ wire = NoState /\ posts = {} /\ locks = {} /\ hitches = 0

ProtocolNext ==
  \/ Central \/ Enrolls \/ Passes
  \/ Send \/ Take \/ TickMain \/ Acquire \/ Damage \/ ClockTurns
  \/ MakeReport \/ Arrive \/ LosePost

Protocol == ProtocolInit /\ [][ProtocolNext]_allVars

-----------------------------------------------------------------------------
(* Properties *)

\* The executor's fields and the reports on their way hold what they can hold.
ProtocolTypeOK ==
  /\ Exec!TypeOK
  /\ wire # NoState => wire.epoch = epoch[Self]
  /\ \A m \in posts : m.report \in Reports /\ m.report.epoch <= epoch[Self]

Showing(a) == player.asg[a].playing # 0 /\ now < End[a]

\* A grant the Player holds, carried over from an earlier revision or not, is for
\* content it has secured and prepared: whatever loses one ends the other
\* (docs/module-player-execution.md:30).
HeldIsPrepared ==
  \A a \in Exec!Held(player) :
    player.asg[a].granted # 0 => player.asg[a].secured /\ player.asg[a].prepared

\* The Player holds and plays only what Central granted in this very epoch, to
\* that revision and assignment, however late or often States arrive.
OnlyGranted ==
  \A a \in Exec!Held(player) :
    \A rev \in {player.asg[a].granted, player.asg[a].playing} \ {0} :
      \E r \in commits : r.player = Self /\ r.epoch = player.epoch /\ r.rev = rev /\ r.a = a

\* A showing whose revocation the Player took stays off: Central never grants its
\* cohort again and no State the Player takes later brings its grant back.
RevokedStaysOff ==
  player.epoch = epoch[Self] /\ plan[Self].epoch = epoch[Self] /\ player.rev = plan[Self].rev =>
    \A a \in Exec!Held(player) :
      LET k == Cohort(plan[Self].groups[a]) IN
      k.status = "skipped" /\ k.skip <= player.revoked =>
        player.asg[a].granted = 0 /\ player.asg[a].playing = 0

\* A Player joins late only with a grant made after the start it missed: one that
\* was on its way since before never starts a showing out of time with the others
\* ("missed start requires fresh late-join authorization", accept_commit).
LateJoinIsFresh ==
  [][\A a \in Exec!Held(player) \cap Exec!Held(player') :
       LET before == player.asg[a]
           after  == player'.asg[a]
       IN  before.playing = 0 /\ before.granted = 0 /\ after.playing # 0
             /\ now > Start[CueOf(a)]
           => \E r \in commits : /\ r.player = Self /\ r.epoch = player'.epoch
                                 /\ r.rev = after.playing /\ r.a = a
                                 /\ r.at >= Start[CueOf(a)]]_allVars

\* "stale bindings and expired content do not regain authority"
\* (docs/module-coordination.md:103): Central hears every report a Player makes of
\* the plan and the bindings that stand, whatever was bound before.
ReportIsHeard ==
  [][\A m \in posts :
       /\ Expected(m) /\ OfThisWall(m)
       /\ m \notin posts' /\ <<epoch, hitches>>' = <<epoch, hitches>>
       => feedback'[Self] = m.report]_allVars

-----------------------------------------------------------------------------
(* Liveness *)

\* The State on its way is taken.
Taken == wire # NoState /\ wire' = NoState

\* Deliveries, planning ticks and reports are repeated for as long as the Player
\* and Central live, and a report that is not lost arrives.
GrantFairness ==
  /\ WF_allVars(Send) /\ WF_wire(Taken) /\ WF_allVars(TickMain)
  /\ WF_allVars(MakeReport) /\ WF_allVars(Arrive)

FairProtocol == Protocol /\ GrantFairness

\* Once changes and hitches stop, a grant Central delivers is one the Player holds:
\* one it refused or lost was reported so, and granted again or withdrawn.
GrantsAreHeld ==
  <>[](\A r \in DeliveredGrants(Self) :
         now < End[r.a] => /\ player.rev = r.rev /\ r.a \in Exec!Held(player)
                           /\ player.asg[r.a].committed)
==============================================================================
