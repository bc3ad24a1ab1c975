---------------------------- MODULE Coordination ----------------------------
(***************************************************************************)
(* Central's Coordinator (central/coordination.py): cues become cohorts of *)
(* Player assignments, each Player is offered a plan, and a cohort commits *)
(* only together, on fresh readiness of every member.  Each action is one  *)
(* transaction under COORDINATION_LOCK.                                    *)
(*                                                                         *)
(* An assignment is the showing of one cue on one Frame.  What a layer     *)
(* shows, its variant, its pins and its content lock are left out, and so  *)
(* is an offer's expiry, minutes away.  The rows _cleanup deletes have     *)
(* ended and are never read again, so they stay.                           *)
(***************************************************************************)
EXTENDS Naturals, Sequences, FiniteSets

CONSTANTS
  Players,
  Frames,
  NoPlayer,    \* bound to an unbound Frame
  Cues,        \* each cue's rank in the order of their starts
  Assignments, \* the showings <<frame, cue>> a timeline may hold
  Timelines,   \* the timelines it may begin with
  Start,       \* Start[c]: when a cue's layers start to show
  End,         \* End[a]: when a showing ends
  Prepare,     \* PREPARE_SECONDS
  Fresh,       \* readiness_seconds
  MaxTime,     \* bound: the clock
  MaxEdits,    \* bound: timeline and binding edits, enrollments, output losses
  MaxReports,  \* bound: a Player's readiness reports in one epoch
  MaxUpsets    \* bound: renewals, Players left out of a pass, offers withheld

ASSUME WallAssumption ==
  /\ NoPlayer \notin Players
  /\ Cues \subseteq Nat
  /\ Assignments \subseteq Frames \X Cues /\ Timelines \subseteq SUBSET Assignments
  /\ IsFiniteSet(Players) /\ IsFiniteSet(Assignments) /\ IsFiniteSet(Cues)
ASSUME TimeAssumption ==
  /\ Start \in [Cues -> Nat] /\ End \in [Assignments -> Nat]
  /\ \A a \in Assignments : Start[a[2]] < End[a]
  /\ Prepare \in Nat /\ Fresh \in Nat
ASSUME BoundsAssumption ==
  MaxTime \in Nat /\ MaxEdits \in Nat /\ MaxReports \in Nat /\ MaxUpsets \in Nat

VARIABLES
  now,
  epoch,     \* players.authority_epoch
  binding,   \* per Frame: its Player and binding generation
  timeline,  \* the showings the Planner would place (Projection.cues)
  losses,    \* unresolved node_output_losses
  groups,    \* coordination_groups: per cue, its cohorts in cohort_sequence
  plan,      \* per Player: its latest plan_offers row
  commits,   \* execution_commits
  feedback,  \* per Player: its player_feedback row
  events,    \* group_skipped events so far: the skip sequence
  edits,     \* edits so far
  upsets     \* upsets so far

wallVars == <<epoch, binding, timeline, losses>>
coordVars == <<groups, plan, commits, feedback, events>>
vars == <<now, wallVars, coordVars, edits, upsets>>

-----------------------------------------------------------------------------

FrameOf(a) == a[1]
CueOf(a)   == a[2]

NoOwner    == [player |-> NoPlayer, epoch |-> 0, gen |-> 0]
NoPlan     == [epoch |-> 0, rev |-> 0, frames |-> <<>>, groups |-> <<>>]
NoFeedback == [epoch |-> 0, rev |-> 0, seq |-> 0, prepared |-> {}, lost |-> {},
               observed |-> 0]

Owners  == [player : Players \cup {NoPlayer}, epoch : Nat, gen : Nat]
GroupId == Cues \X Nat
Statuses == {"pending", "committed", "skipped"}
Rows    == [player : Players, epoch : Nat, rev : Nat, a : Assignments,
            group : GroupId, seq : Nat, at : Nat, valid : BOOLEAN]
Reports == [epoch : Nat, rev : Nat, seq : Nat, prepared : SUBSET Assignments,
            lost : SUBSET (Assignments \X Nat), observed : Nat]

CohortOK(k) ==
  /\ k = [members |-> k.members, deadline |-> k.deadline, status |-> k.status,
           skip |-> k.skip]
  /\ DOMAIN k.members \subseteq Assignments
  /\ k.members \in [DOMAIN k.members -> Owners]
  /\ k.deadline \in Nat /\ k.status \in Statuses /\ k.skip \in Nat

PlanOK(x) ==
  /\ x = [epoch |-> x.epoch, rev |-> x.rev, frames |-> x.frames, groups |-> x.groups]
  /\ x.epoch \in Nat /\ x.rev \in Nat
  /\ DOMAIN x.frames \subseteq Frames /\ x.frames \in [DOMAIN x.frames -> Nat]
  /\ DOMAIN x.groups \subseteq Assignments /\ x.groups \in [DOMAIN x.groups -> GroupId]

\* Every table holds what its rows can hold.
TypeOK ==
  /\ now \in Nat /\ events \in Nat /\ edits \in Nat /\ upsets \in Nat
  /\ epoch \in [Players -> Nat]
  /\ binding \in [Frames -> [player : Players \cup {NoPlayer}, gen : Nat]]
  /\ timeline \subseteq Assignments
  /\ losses \subseteq Players \X Nat \X Frames \X Nat
  /\ groups = [c \in Cues |-> groups[c]]
  /\ \A c \in Cues :
       groups[c] \in Seq({k \in {groups[c][n] : n \in DOMAIN groups[c]} : CohortOK(k)})
  /\ plan = [p \in Players |-> plan[p]] /\ \A p \in Players : PlanOK(plan[p])
  /\ commits \subseteq Rows
  /\ feedback \in [Players -> Reports]

Upset == upsets < MaxUpsets /\ upsets' = upsets + 1
Edit  == edits < MaxEdits /\ edits' = edits + 1

\* The Players a pass reads a configuration of: one that fails is left out alone.
Reaches(active) ==
  IF active = Players THEN UNCHANGED upsets ELSE Upset

-----------------------------------------------------------------------------
(* Cohorts *)

Cohort(g) == groups[g[1]][g[2]]
GroupIds  == UNION {{c} \X DOMAIN groups[c] : c \in Cues}

\* _configuration's bindings: the Player's Frames with their generations.
Bindings(p) ==
  [f \in {f \in Frames : binding[f].player = p} |-> binding[f].gen]

\* The offer latest for this epoch, if any (_current_plan).
Offered(p) == plan[p].rev # 0 /\ plan[p].epoch = epoch[p]

\* ... and still what the Player's configuration authorizes.
Standing(p) == Offered(p) /\ plan[p].frames = Bindings(p)

Layers(p) == DOMAIN plan[p].groups

\* PlayerConfiguration.authorizes: its layers whose binding is still that one.
Authorized(p) ==
  {a \in Layers(p) : binding[FrameOf(a)] = [player |-> p, gen |-> plan[p].frames[FrameOf(a)]]}

\* A bug to catch: a skip that leaves its grants standing.
Withdrawn_Nothing(rows, S) == rows

\* _skip_group's second half: every grant of the cohort is withdrawn.
Withdrawn(rows, S) ==
  {IF r.group \in S THEN [r EXCEPT !.valid = FALSE] ELSE r : r \in rows}

\* Skips of one transaction are numbered in the order of their cohorts, those of
\* `first` before the others.
Place(S, g) ==
  Cardinality({h \in S : h[1] < g[1] \/ (h[1] = g[1] /\ h[2] <= g[2])})

Rank(first, S, g) ==
  IF g \in first THEN Place(first, g) ELSE Cardinality(first) + Place(S \ first, g)

\* _skip_group's first half, for a set of cohorts.
Skipped(gs, first, S) ==
  [c \in Cues |-> [n \in DOMAIN gs[c] |->
     IF <<c, n>> \in S
       THEN [gs[c][n] EXCEPT !.status = "skipped",
                             !.skip = events + Rank(first, S, <<c, n>>)]
       ELSE gs[c][n]]]

-----------------------------------------------------------------------------
(* Planning: _plan, _groups, _propose_one *)

Placed == {a \in timeline : End[a] > now}

Owner(a, active) ==
  LET b == binding[FrameOf(a)] IN
  IF b.player \in active
    THEN [player |-> b.player, epoch |-> epoch[b.player], gen |-> b.gen]
    ELSE NoOwner

Members(c, active) ==
  [a \in {a \in Placed : CueOf(a) = c} |-> Owner(a, active)]

Known(c)    == groups[c] # <<>>
Previous(c) == groups[c][Len(groups[c])]
Future(c)   == Start[c] > now

Grows(c, active) ==
  Known(c) /\ ~(DOMAIN Members(c, active) \subseteq DOMAIN Previous(c).members)
Moved(c, active) ==
  /\ Known(c) /\ ~Grows(c, active)
  /\ \E a \in DOMAIN Members(c, active) :
       Previous(c).members[a] # Members(c, active)[a]

Placing(c) == \E a \in Placed : CueOf(a) = c

\* An edit rewrote a cue that has not started.
Rewritten(c, active) ==
  /\ Placing(c) /\ Known(c) /\ Future(c) /\ Previous(c).status # "skipped"
  /\ \/ Moved(c, active)
     \/ DOMAIN Members(c, active) # DOMAIN Previous(c).members

\* Whether the cue's showings get a cohort of their own in this pass.
Renewed(c, active) ==
  /\ Placing(c)
  /\ ~Known(c) \/ Rewritten(c, active) \/ Moved(c, active)

\* The cohorts of the coming cues the timeline dropped.
Orphans ==
  {g \in GroupIds : /\ Cohort(g).status # "skipped"
                    /\ Future(g[1]) /\ ~Placing(g[1])}

\* A bug to catch: the cohort an edit replaces is left to play.
Superseded_OrphansOnly(active) == Orphans

\* The cohorts a pass skips: the orphans, the cohort an edit replaces, and a
\* started cue that would grow.
Superseded(active) ==
  Orphans \cup
  {g \in GroupIds :
     /\ Cohort(g).status # "skipped"
     /\ g[2] = Len(groups[g[1]])
     /\ Rewritten(g[1], active) \/ (Placing(g[1]) /\ Grows(g[1], active))}

Later(s, t) == IF s < t THEN t ELSE s

\* A late join and a superseding cohort keep the preparation grace.
NewCohort(c, active) ==
  [members  |-> Members(c, active),
   deadline |-> IF Future(c) /\ ~Rewritten(c, active)
                  THEN Start[c] ELSE Later(Start[c], now) + Prepare,
   status   |-> "pending",
   skip     |-> 0]

Regrouped(active) ==
  LET kept == Skipped(groups, Orphans, Superseded(active)) IN
  [c \in Cues |-> IF Renewed(c, active) THEN Append(kept[c], NewCohort(c, active))
                                        ELSE kept[c]]

\* The cohort of each showing of this pass.
Grouped(a, active) ==
  LET c == CueOf(a) IN
  <<c, IF Renewed(c, active) THEN Len(groups[c]) + 1 ELSE Len(groups[c])>>

Proposal(p, active) ==
  [a \in {a \in Placed : binding[FrameOf(a)].player = p} |-> Grouped(a, active)]

\* A bug to catch: an offer rewritten under the revision it had.
NextRev_Reused(p) == IF Offered(p) THEN plan[p].rev ELSE 1

\* Revisions of an epoch count up; a fresh epoch starts again.
NextRev(p) == IF Offered(p) THEN plan[p].rev + 1 ELSE 1

\* A Player's offer: a new revision when anything of it changed, or its validity
\* was renewed; `offered` are the Players neither backpressure, a shortened plan
\* nor a failed savepoint holds back.
Plan ==
  \E active, offered \in SUBSET Players, renewal \in BOOLEAN :
    /\ offered \subseteq active
    /\ IF active = Players /\ offered = active /\ ~renewal
         THEN UNCHANGED upsets ELSE Upset
    /\ groups' = Regrouped(active)
    /\ commits' = Withdrawn(commits, Superseded(active))
    /\ events' = events + Cardinality(Superseded(active))
    /\ plan' = [p \in Players |->
         IF /\ p \in offered
            /\ \/ renewal \/ ~Standing(p)
               \/ plan[p].groups # Proposal(p, active)
           THEN [epoch |-> epoch[p],
                 rev |-> NextRev(p),
                 frames |-> Bindings(p), groups |-> Proposal(p, active)]
           ELSE plan[p]]
    /\ UNCHANGED <<now, wallVars, feedback, edits>>

-----------------------------------------------------------------------------
(* Committing: _commit_due *)

Recent(t) == now <= t + Fresh

\* What _commit_due asks of one member of cohort g, given the feedback fb.
MemberReady(g, a, fb, active) ==
  LET o == Cohort(g).members[a]
      p == o.player
  IN  /\ p \in active
      /\ Standing(p) /\ plan[p].epoch = o.epoch
      /\ fb[p].epoch = epoch[p] /\ fb[p].rev = plan[p].rev
      /\ a \in Layers(p) /\ plan[p].groups[a] = g
      /\ plan[p].frames[FrameOf(a)] = o.gen
      /\ <<p, o.epoch, FrameOf(a), o.gen>> \notin losses
      /\ a \in fb[p].prepared /\ Recent(fb[p].observed)

\* A committed cohort no longer waits for the members that ended.
Awaited(g) ==
  {a \in DOMAIN Cohort(g).members : Cohort(g).status = "committed" => End[a] > now}

\* The cohorts one pass looks at; `dropped` were skipped in the same transaction.
Due(dropped) ==
  {g \in GroupIds \ dropped :
     /\ Cohort(g).status # "skipped"
     /\ \E a \in DOMAIN Cohort(g).members : End[a] > now
     /\ Start[g[1]] <= now + Prepare}

Overdue(g) == Cohort(g).status = "pending" /\ now > Cohort(g).deadline

\* A bug to catch: one ready member is enough.
Ready_Any(g, fb, active) ==
  /\ ~Overdue(g)
  /\ \A a \in Awaited(g) : Cohort(g).members[a] # NoOwner
  /\ \E a \in Awaited(g) : MemberReady(g, a, fb, active)

Ready(g, fb, active) ==
  /\ ~Overdue(g)
  /\ Awaited(g) # {}
  /\ \A a \in Awaited(g) : MemberReady(g, a, fb, active)

\* A pending cohort not ready by its deadline.
NotReady(g, fb, active) ==
  /\ Cohort(g).status = "pending" /\ now >= Cohort(g).deadline
  /\ ~Ready(g, fb, active)

\* A bug to catch: every pass writes the grants again.
Held_Never(rows, r) == FALSE

Held(rows, r) ==
  \E h \in rows : /\ h.valid /\ h.group = r.group
                  /\ <<h.player, h.epoch, h.rev, h.a>> = <<r.player, r.epoch, r.rev, r.a>>

\* The grant of member a of cohort g under its Player's latest report.
Grant(g, a, fb) ==
  LET p == Cohort(g).members[a].player IN
  [player |-> p, epoch |-> epoch[p], rev |-> plan[p].rev, a |-> a,
   group |-> g, seq |-> fb[p].seq, at |-> now, valid |-> TRUE]

\* A grant the Player holds is never rewritten; any other row of its key is.
Granted(rows, ready, fb) ==
  LET new == {r \in UNION {{Grant(g, a, fb) : a \in Awaited(g)} : g \in ready} :
                 ~Held(rows, r)}
  IN  {r \in rows : \A h \in new :
         <<h.player, h.epoch, h.rev, h.a>> # <<r.player, r.epoch, r.rev, r.a>>} \cup new

\* A bug to catch: a status no other code knows.
Committed_Unknown(gs, ready) ==
  [c \in Cues |-> [n \in DOMAIN gs[c] |->
     IF <<c, n>> \in ready THEN [gs[c][n] EXCEPT !.status = "granted"] ELSE gs[c][n]]]

Committed(gs, ready) ==
  [c \in Cues |-> [n \in DOMAIN gs[c] |->
     IF <<c, n>> \in ready THEN [gs[c][n] EXCEPT !.status = "committed"] ELSE gs[c][n]]]

\* _commit_due after the transaction skipped `dropped` and left `rows`.
CommitDue(dropped, rows, fb, active) ==
  LET due   == Due(dropped)
      ready == {g \in due : Ready(g, fb, active)}
      skips == dropped \cup {g \in due : NotReady(g, fb, active)}
  IN  /\ groups' = Committed(Skipped(groups, dropped, skips), ready)
      /\ commits' = Granted(Withdrawn(rows, skips), ready, fb)
      /\ events' = events + Cardinality(skips)

Settle ==
  \E active \in SUBSET Players :
    /\ Reaches(active)
    /\ CommitDue({}, commits, feedback, active)
    /\ UNCHANGED <<now, wallVars, plan, feedback, edits>>

-----------------------------------------------------------------------------
(* Readiness *)

\* The rows of Player p's session that its report, under the current plan, says
\* it cannot play: of any revision.
Unprepared(p, prepared) ==
  {r \in commits : /\ r.player = p /\ r.epoch = epoch[p] /\ r.valid
                   /\ r.a \in Layers(p) \ prepared}

\* A bug to catch: a lost member of a cue that started skips its cohort too.
Forecast_Any(rows) == {r.group : r \in rows}

\* The cohorts of those rows that have not started.
Forecast(rows) == {r.group : r \in {r \in rows : Future(r.group[1])}}

\* The rows of its grants the Player says it saw and no longer holds.
LostRows(p, report) ==
  {r \in commits : /\ r.player = p /\ r.epoch = epoch[p] /\ r.rev = report.rev
                   /\ r.valid /\ <<r.a, r.seq>> \in report.lost}

\* One readiness report of Player p: what it has prepared, when it looked, and the
\* grants <<assignment, readiness sequence>> it lost.  A report on an earlier
\* revision only replaces the feedback.
Readiness(p, report) ==
  \E active \in SUBSET Players :
    /\ p \in active /\ Reaches(active)
    /\ Offered(p) /\ report.epoch = epoch[p] /\ report.rev \in 1..plan[p].rev
    /\ report.seq > IF feedback[p].epoch = epoch[p] THEN feedback[p].seq ELSE 0
    /\ report.observed <= now
    /\ report.rev = plan[p].rev => report.prepared \subseteq Authorized(p)
    /\ feedback' = [feedback EXCEPT ![p] = report]
    /\ LET speaks == report.rev = plan[p].rev /\ Standing(p)
           gone   == IF speaks THEN Unprepared(p, report.prepared) ELSE {}
           lost   == IF speaks THEN LostRows(p, report) ELSE {}
           rows   == {IF r \in gone \cup lost THEN [r EXCEPT !.valid = FALSE] ELSE r :
                        r \in commits}
       IN  CommitDue({g \in Forecast(gone) : Cohort(g).status # "skipped"},
                     rows, feedback', active)
    /\ UNCHANGED <<now, wallVars, plan, edits>>

\* The sequence of the Player's next report in this epoch.
NextSeq(p) == IF feedback[p].epoch = epoch[p] THEN feedback[p].seq + 1 ELSE 1

\* Any report a Player may make of its current revision or the one before.
ReportReadiness(p) ==
  /\ NextSeq(p) <= MaxReports
  /\ \E rev \in {plan[p].rev - 1, plan[p].rev} \cap Nat,
        prepared \in SUBSET Authorized(p),
        lost \in SUBSET {<<r.a, r.seq>> : r \in {r \in commits : r.player = p /\ r.valid}} :
       /\ rev # plan[p].rev => prepared = {} /\ lost = {}
       /\ Readiness(p, [epoch |-> epoch[p], rev |-> rev, seq |-> NextSeq(p),
                        prepared |-> prepared, lost |-> lost, observed |-> now])

-----------------------------------------------------------------------------
(* The wall around it *)

\* Scenes start, stop and are edited, and the Planner refuses or cuts showings.
EditTimeline ==
  /\ Edit
  /\ timeline' \in SUBSET Assignments \ {timeline}
  /\ UNCHANGED <<now, epoch, binding, losses, coordVars, upsets>>

\* A Frame is bound to another Output: a new binding generation.
Rebind(f) ==
  /\ Edit
  /\ \E p \in Players \cup {NoPlayer} :
       binding' = [binding EXCEPT ![f] = [player |-> p, gen |-> @.gen + 1]]
  /\ UNCHANGED <<now, epoch, timeline, losses, coordVars, upsets>>

\* The Player restarted or re-enrolled: a fresh authority epoch.
Enroll(p) ==
  /\ Edit
  /\ epoch' = [epoch EXCEPT ![p] = @ + 1]
  /\ UNCHANGED <<now, binding, timeline, losses, coordVars, upsets>>

LossOf(f) == <<binding[f].player, epoch[binding[f].player], f, binding[f].gen>>

\* reconcile_node_output_in: the Output behind a bound Frame is interrupted.
OutputLost(f) ==
  /\ binding[f].player \in Players
  /\ LossOf(f) \notin losses
  /\ Edit
  /\ losses' = losses \cup {LossOf(f)}
  /\ commits' = {IF /\ r.player = binding[f].player /\ r.epoch = epoch[r.player]
                    /\ FrameOf(r.a) = f
                    /\ Cohort(r.group).members[r.a].gen = binding[f].gen
                   THEN [r EXCEPT !.valid = FALSE] ELSE r : r \in commits}
  /\ UNCHANGED <<now, epoch, binding, timeline, groups, plan, feedback, events, upsets>>

OutputRecovers(f) ==
  /\ binding[f].player \in Players
  /\ LossOf(f) \in losses
  /\ losses' = losses \ {LossOf(f)}
  /\ UNCHANGED <<now, epoch, binding, timeline, coordVars, edits, upsets>>

Tick ==
  /\ now < MaxTime
  /\ now' = now + 1
  /\ UNCHANGED <<wallVars, coordVars, edits, upsets>>

-----------------------------------------------------------------------------

Empty ==
  /\ now = 0 /\ events = 0
  /\ epoch = [p \in Players |-> 1]
  /\ binding \in [Frames -> [player : Players, gen : {1}]]
  /\ timeline \in Timelines
  /\ losses = {}
  /\ groups = [c \in Cues |-> <<>>]
  /\ plan = [p \in Players |-> NoPlan]
  /\ commits = {}
  /\ feedback = [p \in Players |-> NoFeedback]

Init == Empty /\ edits = 0 /\ upsets = 0

Next ==
  \/ Plan \/ Settle
  \/ EditTimeline
  \/ \E f \in Frames : Rebind(f) \/ OutputLost(f) \/ OutputRecovers(f)
  \/ \E p \in Players : ReportReadiness(p) \/ Enroll(p)
  \/ Tick

Spec == Init /\ [][Next]_vars

-----------------------------------------------------------------------------
(* Properties *)

\* What Central delivers Player p of its grants (delivery): nothing unless its
\* plan stands, else the valid grants of that revision.
DeliveredGrants(p) ==
  IF Standing(p)
    THEN {r \in commits : /\ r.valid /\ r.player = p
                          /\ r.epoch = epoch[p] /\ r.rev = plan[p].rev}
    ELSE {}

\* No State both grants and revokes a showing: _skip_group withdraws every grant
\* of its cohort, of any revision, and _commit_due never grants a skipped one.
SkippedHoldsNoGrant ==
  \A r \in commits : r.valid => Cohort(r.group).status # "skipped"

\* A grant names the cohort its Player's plan names for that showing, so that the
\* revocation of that cohort reaches it (_plan_groups in delivery).
GrantMatchesOffer ==
  \A p \in Players : \A r \in DeliveredGrants(p) :
    r.a \in Layers(p) /\ plan[p].groups[r.a] = r.group

\* A cue that has not started has one cohort at most that may still play: however
\* it is edited, skipped and planned again (_groups).
OneForecast ==
  \A g, h \in GroupIds :
    g[1] = h[1] /\ Future(g[1])
    /\ Cohort(g).status # "skipped" /\ Cohort(h).status # "skipped" => g = h

\* A cohort commits all or nothing: the step that commits it leaves every member
\* with a valid grant of its own Player's current plan (_commit_due).
CommitsTogether ==
  [][\A g \in GroupIds :
       Cohort(g).status # "committed" /\ Cohort(g)'.status = "committed" =>
         \A a \in DOMAIN Cohort(g).members :
           \E r \in DeliveredGrants(Cohort(g).members[a].player)' :
             r.a = a /\ r.group = g]_vars

\* A cohort that started committed plays on: no late report, edit, loss or tick
\* skips it, except a cue that would grow (docs/execution-contract.md:28, "A
\* started cue is immutable").
StartedStays ==
  [][\A g \in GroupIds :
       Cohort(g).status = "committed" /\ ~Future(g[1]) /\ Cohort(g)'.status = "skipped"
         => \E a \in timeline : CueOf(a) = g[1] /\ a \notin DOMAIN Cohort(g).members]_vars

\* A grant the Player holds is never rewritten under it, so that its Commit and
\* the control delivery stay unchanged: the sequence or cohort of a valid row
\* changes only in the transaction of a report that says it was lost.
HeldGrantStands ==
  [][\A r \in commits : r.valid =>
       \/ r \in commits'
       \/ [r EXCEPT !.valid = FALSE] \in commits'
       \/ <<r.a, r.seq>> \in feedback[r.player].lost']_vars

\* coordination.py:473-474, "a forecast that returns to an earlier membership never
\* collides with that earlier, skipped cohort": until a Player reports, only edits
\* skip a forecast, and then no standing plan shows a coming cue the timeline holds
\* under a skipped cohort, which would never play.
ForecastReturns ==
  (\A q \in Players : feedback[q] = NoFeedback) =>
    \A p \in Players : Standing(p) =>
      \A a \in Layers(p) \cap Placed :
        Future(CueOf(a)) => Cohort(plan[p].groups[a]).status # "skipped"
=============================================================================
