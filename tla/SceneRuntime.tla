---------------------------- MODULE SceneRuntime ----------------------------
(***************************************************************************)
(* Central's Runtime (src/central/runtime.py): which Scenes run, in which  *)
(* order they lie over one another, and when each begins and ends.  It has *)
(* no clock and no I/O: each command first moves the state to its instant, *)
(* event by event, and so does the scheduler now and then.  The Planner    *)
(* reads a copy moved to instants yet to come.                             *)
(*                                                                         *)
(* Times are whole.  What a Scene shows, its photos' fades and after-end   *)
(* rules are left out; so are the transition budget, a House that changes, *)
(* deleting a Scene, and the answer an activation id gets when repeated.   *)
(***************************************************************************)
EXTENDS Integers, SequencesExt

CONSTANTS
  Scenes,       \* the Scenes stored at first, by id
  SceneDrafts,  \* the Scenes a person may save
  Windows,      \* for each When, its windows <<start, end>>
  Programs,     \* the ids of Programs, numbers
  Drafts,       \* what the Schedule flow saves: [when, scene, rank]
  Requests,     \* what Show now asks: [scene, priority, repeat, force, expires]
  Jumps,        \* how far the scheduler may be from its last pass
  Lag,          \* how far it may be when a person finishes a Run or removes a Program
  History,      \* OPERATOR_HISTORY_SECONDS
  QueueLimit,   \* how many activations wait
  MaxInstant,   \* bound: instants
  MaxCommands   \* bound: commands

Never == 1000   \* later than every instant: None, where the code takes the minimum of times
NoScene == "none"
NoProgram == 0
DefaultRank == -1

ASSUME RuntimeBounds ==
  /\ MaxInstant \in Nat /\ MaxInstant + History < Never /\ MaxCommands \in Nat
  /\ Jumps \subseteq Nat \ {0} /\ Lag \subseteq Nat /\ History \in Nat /\ QueueLimit \in Nat
  /\ Programs \subseteq Nat \ {NoProgram}
  /\ \A w \in UNION Range(Windows) : w[1] < w[2]

VARIABLES
  rt,        \* the Runtime's state
  noted,     \* the state as the last command left it, whence a projection starts
  forced,    \* the activations that asked to be forced
  answers,   \* the answers Program windows got so far: the Run admitted, 0 refused
  commands

runtimeVars == <<rt, noted, forced, answers, commands>>

-----------------------------------------------------------------------------
(* Scenes and Runs *)

RECURSIVE Participants(_), Protected(_), Unprotected(_)

Participants(scene) == scene.frames \cup UNION {Participants(c.scene) : c \in Range(scene.children)}

Protected(scene) ==
  IF scene.protects THEN Participants(scene)
  ELSE UNION {Protected(c.scene) : c \in Range(scene.children)}

Unprotected(scene) ==
  [scene EXCEPT !.protects = FALSE,
                !.children = [i \in DOMAIN @ |-> [@[i] EXCEPT !.scene = Unprotected(@)]]]

\* An identity: a Program's window, a choice of the Default Scene, or a person's activation; its
\* `mark` is the Scene revision of a Run that replaced another.
Window(p, revision, start) == [kind |-> "program", of |-> p, revision |-> revision, at |-> start, mark |-> 0]
ShowNow(n) == [kind |-> "show", of |-> "person", revision |-> n, at |-> 0, mark |-> 0]
Child == [kind |-> "child", of |-> "parent", revision |-> 0, at |-> 0, mark |-> 0]
Chosen(s, at) == [kind |-> "default", of |-> s.default.scene, revision |-> s.default.revision, at |-> at,
                  mark |-> s.scenes[s.default.scene].revision]

Active(r) == r.phase \in {"body", "outro"}
Playing(s) == {i \in DOMAIN s.runs : s.runs[i].parent = 0 /\ Active(s.runs[i])}

CycleStart(r) == r.started + r.cycle * r.scene.cycle
CycleEnd(r)   == CycleStart(r) + r.scene.cycle
StopAt(r)     == Min({r.ends, r.scheduled, r.asked, r.from + r.scene.duration})

\* A stop inside the next photo's dissolve lets that photo have its turn.
LastTurn(r, stop) == ~r.scene.loop \/ stop <= CycleEnd(r) - r.scene.lead \/ stop = CycleEnd(r)

-----------------------------------------------------------------------------
(* Admission *)

NewRun(s, scene, identity, start, priority) ==
  [parent |-> 0, root |-> s.sequence + 1, scene |-> scene, started |-> start, from |-> start,
   priority |-> priority, place |-> <<s.sequence + 1, 0>>, descendants |-> 0,
   program |-> NoProgram, ends |-> Never, identity |-> identity, scheduled |-> Never,
   phase |-> "body", cycle |-> 0, launched |-> {}, children |-> {}, childrenDone |-> 0,
   asked |-> Never, bodyDone |-> Never, outroAt |-> Never, ended |-> Never]

Admitted(s, run) == [s EXCEPT !.sequence = @ + 1, !.runs = (s.sequence + 1 :> run) @@ @]

AdmittedChild(s, parent, i) ==
  LET r == s.runs[parent]  c == r.scene.children[i]  n == s.runs[r.root].descendants + 1
      child == NewRun(s, c.scene, Child, CycleStart(r) + c.delay, r.priority)
      t == Admitted(s, [child EXCEPT !.parent = parent, !.root = r.root, !.place = <<r.place[1], n>>])
  IN [t EXCEPT !.runs[r.root].descendants = n,
               !.runs[parent].launched = @ \cup {i},
               !.runs[parent].children = @ \cup {t.sequence}]

\* A bug to catch: a protecting Scene is admitted beneath what outranks it.
Refused_ByReservation(s, scene, priority, force, excluded) ==
  \E i \in Playing(s) \ excluded :
    ~force /\ Participants(scene) \cap Protected(s.runs[i].scene) # {}

\* Whether a protected Run, or its own protection, refuses the Scene a place.
Refused(s, scene, priority, force, excluded) ==
  \E i \in Playing(s) \ excluded :
    LET r == s.runs[i] IN
      \/ ~force /\ Participants(scene) \cap Protected(r.scene) # {}
      \/ Protected(scene) \cap Participants(r.scene) # {} /\ r.priority > priority

Matching(s, id) == {i \in Playing(s) : s.runs[i].scene.id = id}

Releasable(s, item) ==
  Matching(s, item.scene.id) = {} /\ ~Refused(s, item.scene, item.priority, item.force, {})

-----------------------------------------------------------------------------
(* Endings *)

\* The Runs a request to finish reaches: it goes down as far as it is news.
RECURSIVE Reached(_, _)
Reached(s, i) ==
  IF s.runs[i].phase # "body" \/ s.runs[i].asked # Never THEN {}
  ELSE {i} \cup UNION {Reached(s, c) : c \in s.runs[i].children}

RequestFinish(s, i, at) ==
  LET reached == Reached(s, i)
  IN [s EXCEPT !.runs = [j \in DOMAIN @ |-> IF j \in reached THEN [@[j] EXCEPT !.asked = at] ELSE @[j]]]

\* A root's Run is kept, a child's is forgotten.
Ended(s, i, at, phase) ==
  IF s.runs[i].parent = 0
  THEN [s EXCEPT !.runs[i].phase = phase, !.runs[i].ended = at]
  ELSE LET t == [s EXCEPT !.runs[s.runs[i].parent].children = @ \ {i},
                          !.runs[s.runs[i].parent].childrenDone = Max({@, at})]
       IN [t EXCEPT !.runs = Restrict(@, DOMAIN @ \ {i})]

Ascending(I)  == SelectSeq([i \in 1..Max(I \cup {0}) |-> i], LAMBDA i : i \in I)
Descending(I) == Reverse(Ascending(I))

RECURSIVE Cancelled(_, _, _)
Cancelled(s, i, at) ==
  IF ~Active(s.runs[i]) THEN s
  ELSE Ended(FoldLeft(LAMBDA t, c : Cancelled(t, c, at), s, Ascending(s.runs[i].children)),
             i, at, "cancelled")

Scheduled(s, I, at) ==
  [s EXCEPT !.runs = [j \in DOMAIN @ |-> IF j \in I THEN [@[j] EXCEPT !.scheduled = Min({@, at})] ELSE @[j]]]

-----------------------------------------------------------------------------
(* What waits for its time.  `until` is the instant an advance moves to. *)

\* Windows still to be admitted: not over at `until`, not backdated, not answered before.
Pending(s, until) ==
  {w \in UNION {{<<v[1], p, v[2]>> : v \in Windows[s.programs[p].when]} : p \in DOMAIN s.programs} :
     /\ w[3] > until
     /\ w[1] >= Max({s.programs[w[2]].from, s.now})
     /\ Window(w[2], s.programs[w[2]].revision, w[1]) \notin DOMAIN s.admissions}

DefaultRuns(s) == {i \in Playing(s) : s.runs[i].identity.kind = "default"}

\* A Run of the Default Scene as chosen and stored now.
IsCurrent(s, r) ==
  s.default.scene # NoScene /\ r.identity = Chosen(s, r.identity.at)

StaleDefaults(s) ==
  {i \in DefaultRuns(s) : LET r == s.runs[i] IN
     ~IsCurrent(s, r) /\ r.scheduled = Never /\ r.asked = Never}

DefaultForm(s) == [Unprotected(s.scenes[s.default.scene]) EXCEPT !.loop = TRUE, !.duration = Never]

DefaultDue(s) ==
  /\ s.default.scene # NoScene
  /\ \A i \in DefaultRuns(s) : ~IsCurrent(s, s.runs[i])
  /\ ~Refused(s, DefaultForm(s), DefaultRank, FALSE, {})

\* A bug to catch: a Run that stops as its turn ends is taken into the next one.
TurnsBy_Floor(r, limit) == (Min({limit, StopAt(r)}) - r.started) \div r.scene.cycle

\* The turn a leaf is in at `limit`, or the one it stops in if it stops by then.
TurnsBy(r, limit) ==
  IF StopAt(r) <= limit THEN -((r.started - StopAt(r)) \div r.scene.cycle) - 1
  ELSE (limit - r.started) \div r.scene.cycle

\* A leaf that loops needs no event per turn.
SkipLeafCycles(s, until) ==
  LET starts == {w[1] : w \in Pending(s, until)}
      Skipped(r) ==
        [r EXCEPT !.cycle = Max({@, TurnsBy(r, Min({until} \cup {t \in starts : t >= CycleStart(r)})), 0})]
  IN [s EXCEPT !.runs = [i \in DOMAIN @ |->
        IF /\ @[i].parent = 0 /\ @[i].phase = "body" /\ @[i].scene.loop
           /\ @[i].scene.children = <<>> /\ @[i].bodyDone = Never
        THEN Skipped(@[i]) ELSE @[i]]]

\* The instants at which something is to happen to a Run.
Turns(r) ==
  CASE r.phase = "outro" -> {r.outroAt + r.scene.outro}
    [] r.phase = "body" /\ r.bodyDone = Never ->
         {CycleEnd(r)} \cup
         (IF r.asked # Never THEN {}
          ELSE {StopAt(r)} \cup {CycleStart(r) + r.scene.children[i].delay :
                                   i \in DOMAIN r.scene.children \ r.launched})
    [] r.phase = "body" /\ r.bodyDone # Never ->
         IF r.children = {} THEN {Max({r.bodyDone, r.childrenDone})} ELSE {}
    [] OTHER -> {}

NextEvent(s, until) ==
  Min({Never}
      \cup {w[1] : w \in Pending(s, until)}
      \cup (IF DefaultDue(s) \/ StaleDefaults(s) # {} THEN {until} ELSE {})
      \cup {item.expires : item \in Range(s.queue)}
      \cup UNION {Turns(s.runs[i]) : i \in DOMAIN s.runs}
      \cup (IF \E item \in Range(s.queue) : Releasable(s, item)
            THEN {Max({s.now} \cup {s.runs[i].ended : i \in {j \in DOMAIN s.runs : s.runs[j].ended # Never}})}
            ELSE {}))

-----------------------------------------------------------------------------
(* One event *)

Stopped(s, at) ==
  LET Stop(t, i) ==
        LET r == t.runs[i]
            u == IF r.phase = "body" /\ StopAt(r) <= at THEN RequestFinish(t, i, StopAt(r)) ELSE t
        IN IF r.phase = "body" /\ ~r.scene.loop /\ CycleEnd(r) <= at
           THEN RequestFinish(u, i, CycleEnd(r)) ELSE u
  IN FoldLeft(Stop, s, Ascending(DOMAIN s.runs))

\* A Run whose turn is over takes the next one, or is done with its body; then, its children gone, it ends.
Turned(s, i, at) ==
  LET r == s.runs[i] IN
  IF r.bodyDone # Never \/ CycleEnd(r) > at THEN s
  ELSE IF r.asked # Never /\ LastTurn(r, r.asked) THEN [s EXCEPT !.runs[i].bodyDone = CycleEnd(r)]
  ELSE [s EXCEPT !.runs[i].cycle = @ + 1, !.runs[i].launched = {}]

Closed(s, i) ==
  LET r == s.runs[i]  start == Max({r.bodyDone, r.childrenDone}) IN
  IF r.bodyDone = Never \/ r.children # {} THEN s
  ELSE IF r.scene.outro > 0 THEN [s EXCEPT !.runs[i].phase = "outro", !.runs[i].outroAt = start]
  ELSE Ended(s, i, start, "completed")

\* Descendants settle before what launched them, over and over until nothing changes.
RECURSIVE Settled(_, _)
Settled(s, at) ==
  LET Settle(t, i) ==
        IF i \notin DOMAIN t.runs THEN t
        ELSE LET r == t.runs[i] IN
          CASE r.phase = "outro" -> IF r.outroAt + r.scene.outro <= at
                                    THEN Ended(t, i, r.outroAt + r.scene.outro, "completed") ELSE t
            [] r.phase = "body"  -> Closed(Turned(t, i, at), i)
            [] OTHER -> t
      u == FoldLeft(Settle, s, Descending(DOMAIN s.runs))
  IN IF u = s THEN s ELSE Settled(u, at)

WindowsOpened(s, at, until) ==
  LET Open(t, w) ==
        LET p == t.programs[w[2]]  scene == t.scenes[p.scene]  id == Window(w[2], p.revision, w[1])
            run == [NewRun(t, scene, id, w[1], p.rank) EXCEPT !.program = w[2], !.ends = w[3]]
        IN IF Refused(t, scene, p.rank, FALSE, {}) THEN [t EXCEPT !.admissions = (id :> 0) @@ @]
           ELSE [Admitted(t, run) EXCEPT !.admissions = (id :> t.sequence + 1) @@ @]
  IN FoldLeft(Open, s, SetToSortSeq({w \in Pending(s, until) : w[1] <= at},
                                    LAMBDA v, w : v[1] < w[1] \/ (v[1] = w[1] /\ v[2] < w[2])))

DefaultTaken(s, at) ==
  LET t == Scheduled(s, StaleDefaults(s), at)
  IN IF DefaultDue(t) THEN Admitted(t, NewRun(t, DefaultForm(t), Chosen(t, at), at, DefaultRank)) ELSE t

ChildrenLaunched(s, at) ==
  LET Launch(t, i) ==
        LET r == t.runs[i]
            due == {j \in DOMAIN r.scene.children \ r.launched : CycleStart(r) + r.scene.children[j].delay <= at}
        IN IF r.phase # "body" \/ r.asked # Never THEN t
           ELSE FoldLeft(LAMBDA u, j : AdmittedChild(u, i, j), t, Ascending(due))
  IN FoldLeft(Launch, s, Ascending(DOMAIN s.runs))

QueueReleased(s, at) ==
  LET Release(t, item) ==
        CASE item.expires <= at -> [t EXCEPT !.queue = Remove(@, item)]
          [] item.expires > at /\ Releasable(t, item) ->
               [Admitted(t, NewRun(t, item.scene, item.identity, at, item.priority))
                  EXCEPT !.queue = Remove(@, item)]
          [] OTHER -> t
  IN FoldLeft(Release, s, s.queue)

Processed(s, at, until) ==
  QueueReleased(ChildrenLaunched(DefaultTaken(WindowsOpened(Settled(Stopped(s, at), at), at, until), at), at), at)

\* What ended, and whose window ended, long enough ago is forgotten, a refused window's answer too.
Forgotten(s) ==
  LET cutoff == s.now - History
      old == {i \in DOMAIN s.runs : LET r == s.runs[i] IN
                /\ r.parent = 0 /\ ~Active(r) /\ r.ended < cutoff
                /\ (r.ends = Never \/ r.ends < cutoff)}
      recent == UNION {{Window(p, s.programs[p].revision, v[1]) :
                          v \in {w \in Windows[s.programs[p].when] : w[2] > cutoff}} :
                       p \in DOMAIN s.programs}
      kept == {id \in DOMAIN s.admissions :
                 IF s.admissions[id] = 0 THEN id \in recent
                 ELSE \A i \in old : s.runs[i].identity # id}
  IN [s EXCEPT !.runs = Restrict(@, DOMAIN @ \ old), !.admissions = Restrict(@, kept)]

RECURSIVE EventsUntil(_, _)
EventsUntil(s, until) ==
  LET t == SkipLeafCycles(s, until)  event == NextEvent(t, until)
  IN IF event > until THEN [t EXCEPT !.now = until] ELSE EventsUntil(Processed(t, event, until), until)

\* `advance`
Advanced(s, until) == Forgotten(EventsUntil(s, until))

-----------------------------------------------------------------------------
(* Commands, each at the processed instant, and what they change before Runtime moves on *)

\* The topmost of the root Runs in `I`, with all it launched.
Top(s, I) ==
  CHOOSE i \in I : \A j \in I :
    LET a == s.runs[i]  b == s.runs[j] IN
      \/ b.place[1] < a.place[1]
      \/ b.place[1] = a.place[1] /\ b.descendants <= a.descendants

\* A bug to catch: over the Run replaced, not over what it launched.
PlaceOver_RootOnly(s, I) == <<s.runs[Top(s, I)].place[1], s.runs[Top(s, I)].place[2] + 1>>

\* The place of a Run that replaces others: over the topmost of them and all it launched.
PlaceOver(s, I) == <<s.runs[Top(s, I)].place[1], s.runs[Top(s, I)].descendants + 1>>

\* `run` is admitted over the Runs in `I`, which then finish beneath it; a refused one leaves them.
Replaced(s, I, run, excluded) ==
  LET placed == IF I = {} THEN run
                ELSE [run EXCEPT !.place = PlaceOver(s, I), !.descendants = PlaceOver(s, I)[2]]
  IN IF Refused(s, run.scene, run.priority, FALSE, excluded) THEN s
     ELSE Scheduled(Admitted(s, placed), I, s.now)

\* The Runs that play an earlier revision of a stored Scene, in the order they were admitted.
EarlierRuns(s, id) ==
  {i \in Playing(s) : LET r == s.runs[i] IN
     /\ r.phase = "body" /\ r.asked = Never /\ r.identity.kind # "default"
     /\ r.scene.id = id /\ r.scene.revision < s.scenes[id].revision}

Stored(s, scene) ==
  [s EXCEPT !.scenes[scene.id] = [scene EXCEPT !.revision = s.scenes[scene.id].revision + 1]]

AppliedNow(s, id) ==
  LET scene == s.scenes[id]
      earlier == EarlierRuns(s, id)
      Apply(t, i) ==
        LET r == t.runs[i]
            run == [NewRun(t, scene, [r.identity EXCEPT !.mark = scene.revision], t.now, r.priority)
                      EXCEPT !.program = r.program, !.ends = r.ends, !.from = r.from]
        IN Replaced(t, {i}, run, earlier \cup {j \in DOMAIN t.runs : j > s.sequence})
      u == FoldLeft(Apply, s, Ascending(earlier))
      Renewed(item) == IF item.scene.id = id THEN [item EXCEPT !.scene = scene] ELSE item
  IN [u EXCEPT !.queue = [n \in DOMAIN @ |-> Renewed(@[n])]]

\* The window of the stored Program that covers now, if any, is admitted over its playing Runs.
CoveringAdmitted(s, p, playing) ==
  LET program == s.programs[p]
      covering == {w \in Windows[program.when] : w[1] <= s.now /\ s.now < w[2]}
      w == CHOOSE w \in covering : TRUE
      id == Window(p, program.revision, w[1])
      run == [NewRun(s, s.scenes[program.scene], id, s.now, program.rank) EXCEPT !.program = p, !.ends = w[2]]
      t == Replaced(s, playing, run, playing)
  IN IF covering = {} THEN Scheduled(s, playing, s.now)
     ELSE [t EXCEPT !.admissions = (id :> IF t = s THEN 0 ELSE t.sequence) @@ @]

PlayingOf(s, p) == {i \in Playing(s) : s.runs[i].program = p}

\* A bug to catch: the window that plays is forgotten.
RuleFrom_Now(s, p) == s.now

\* From when a saved rule counts: the window that plays keeps its end.
RuleFrom(s, p) == Max({s.now} \cup ({s.runs[i].ends : i \in PlayingOf(s, p)} \ {Never}))

Revised(s, p, draft, from) ==
  LET revision == IF p \in DOMAIN s.programs THEN s.programs[p].revision + 1 ELSE 1
  IN [s EXCEPT !.programs = (p :> [when |-> draft.when, scene |-> draft.scene, rank |-> draft.rank,
                                   revision |-> revision, from |-> from]) @@ @]

SetDefault(s, id) ==
  IF s.default.scene = id THEN s
  ELSE [s EXCEPT !.default = [scene |-> id,
          revision |-> IF id = NoScene THEN 0 ELSE IF @.scene = NoScene THEN 1 ELSE @.revision + 1]]

Activated(s, request, identity) ==
  LET scene == s.scenes[request.scene]
      matches == Matching(s, request.scene)
      restart == request.repeat = "restart"
      stopped == IF restart THEN FoldLeft(LAMBDA t, i : Cancelled(t, i, s.now), s, Ascending(matches)) ELSE s
      item == [identity |-> identity, scene |-> scene, priority |-> request.priority,
               force |-> request.force, expires |-> s.now + request.expires]
  IN CASE matches # {} /\ request.repeat = "ignore" -> s
       [] matches # {} /\ request.repeat = "queue" ->
            IF request.expires > 0 /\ Len(s.queue) < QueueLimit THEN [s EXCEPT !.queue = Append(@, item)] ELSE s
       [] OTHER ->
            IF Refused(s, scene, request.priority, request.force, IF restart THEN matches ELSE {}) THEN s
            ELSE Admitted(stopped, NewRun(stopped, scene, identity, s.now, request.priority))

-----------------------------------------------------------------------------

AtFirst ==
  [now |-> 0, sequence |-> 0, scenes |-> Scenes, programs |-> <<>>,
   default |-> [scene |-> NoScene, revision |-> 0], runs |-> <<>>, admissions |-> <<>>, queue |-> <<>>]

Answers(s) == {<<id, s.admissions[id]>> : id \in DOMAIN s.admissions}

\* A Default Scene may have been chosen, and a Program created, at the start.
RuntimeInit ==
  /\ \E id \in {NoScene} \cup DOMAIN Scenes, d \in Drafts \cup {<<>>} :
       LET s == SetDefault(AtFirst, id)
           t == IF d = <<>> THEN s
                ELSE LET p == Min(Programs) IN CoveringAdmitted(Revised(s, p, d, 0), p, {})
       IN rt = Advanced(t, 0)
  /\ noted = rt /\ forced = {} /\ answers = Answers(rt) /\ commands = 0

Pass ==
  \E jump \in Jumps :
    /\ rt.now + jump <= MaxInstant
    /\ rt' = Advanced(rt, rt.now + jump)
    /\ answers' = answers \cup Answers(rt')
    /\ UNCHANGED <<noted, forced, commands>>

\* A command leaves `s`, which moves to `at` in the same transaction.
Command(s, at) ==
  /\ commands < MaxCommands /\ at <= MaxInstant
  /\ rt' = Advanced(s, at)
  /\ noted' = rt'
  /\ answers' = answers \cup Answers(rt')
  /\ commands' = commands + 1

SaveScene ==
  \E scene \in SceneDrafts : Command(Stored(rt, scene), rt.now) /\ UNCHANGED forced

SaveSceneAndApplyNow ==
  \E scene \in SceneDrafts :
    Command(AppliedNow(Stored(rt, scene), scene.id), rt.now) /\ UNCHANGED forced

CreateProgram ==
  \E p \in Programs \ DOMAIN rt.programs, d \in Drafts :
    /\ \A a \in answers : a[1].of # p  \* an id is drawn anew
    /\ Command(CoveringAdmitted(Revised(rt, p, d, rt.now), p, {}), rt.now)
    /\ UNCHANGED forced

SaveProgram ==
  \E p \in DOMAIN rt.programs, d \in Drafts :
    Command(Revised(rt, p, d, RuleFrom(rt, p)), rt.now) /\ UNCHANGED forced

SaveProgramAndApplyNow ==
  \E p \in DOMAIN rt.programs, d \in Drafts :
    /\ Command(CoveringAdmitted(Revised(rt, p, d, rt.now), p, PlayingOf(rt, p)), rt.now)
    /\ UNCHANGED forced

\* A Program is forgotten before Runtime moves, so that no window of it opens on the way.
RemoveProgram ==
  \E p \in DOMAIN rt.programs, lag \in Lag :
    LET at == rt.now + lag
        mine == {i \in DOMAIN rt.runs : rt.runs[i].program = p /\ Active(rt.runs[i])}
        s == Scheduled(rt, mine, at)
    IN Command([s EXCEPT !.programs = Restrict(@, DOMAIN @ \ {p})], at) /\ UNCHANGED forced

SetDefaultScene ==
  \E id \in {NoScene} \cup DOMAIN rt.scenes :
    id # rt.default.scene /\ Command(SetDefault(rt, id), rt.now) /\ UNCHANGED forced

Activate ==
  \E request \in Requests :
    LET identity == ShowNow(commands) IN
      /\ Command(Activated(rt, request, identity), rt.now)
      /\ forced' = IF request.force THEN forced \cup {identity} ELSE forced

Finish ==
  \E i \in DOMAIN rt.runs, lag \in Lag :
    /\ Active(rt.runs[i])
    /\ Command(Scheduled(rt, {i}, rt.now + lag), rt.now + lag)
    /\ UNCHANGED forced

Cancel ==
  \E i \in DOMAIN rt.runs :
    Active(rt.runs[i]) /\ Command(Cancelled(rt, i, rt.now), rt.now) /\ UNCHANGED forced

RuntimeNext ==
  \/ Pass \/ SaveScene \/ SaveSceneAndApplyNow
  \/ CreateProgram \/ SaveProgram \/ SaveProgramAndApplyNow \/ RemoveProgram
  \/ SetDefaultScene \/ Activate \/ Finish \/ Cancel

RuntimeSpec == RuntimeInit /\ [][RuntimeNext]_runtimeVars

-----------------------------------------------------------------------------
(* Properties *)

\* The types, and the trees of Runs: a child's parent is there, has launched it and has not ended.
RuntimeTypeOK ==
  /\ rt.now \in 0..MaxInstant /\ rt.sequence \in Nat /\ DOMAIN rt.runs \subseteq 1..rt.sequence
  /\ DOMAIN rt.programs \subseteq Programs /\ rt.default.scene \in {NoScene} \cup DOMAIN Scenes
  /\ Len(rt.queue) <= QueueLimit /\ commands \in 0..MaxCommands
  /\ \A i \in DOMAIN rt.runs :
       LET r == rt.runs[i] IN
         /\ r.phase \in {"body", "outro", "completed", "cancelled"}
         /\ r.children \subseteq DOMAIN rt.runs /\ (\A c \in r.children : rt.runs[c].parent = i)
         /\ IF r.parent = 0 THEN r.root = i
            ELSE /\ Active(r) /\ r.root = rt.runs[r.parent].root
                 /\ i \in rt.runs[r.parent].children /\ rt.runs[r.parent].phase = "body"

\* No window opened and closed unseen between the two states (the code skips those it wholly missed).
MissedNone(s, t) ==
  \A w \in {v \in UNION Range(Windows) : s.now < v[1]} : w[2] > t.now

\* What an advance would come to if every turn of every Run were an event.
RECURSIVE TurnByTurn(_, _)
TurnByTurn(s, until) ==
  LET event == NextEvent(s, until)
  IN IF event > until THEN [s EXCEPT !.now = until] ELSE TurnByTurn(Processed(s, event, until), until)

\* The Runtime that passes often, the one that jumps from the last command and the one that takes
\* every turn are one, to the last field: what the Planner projects is what comes to be
\* (`_advance`, `_skip_leaf_cycles`).
JumpsAgree ==
  MissedNone(noted, rt) =>
    Advanced(noted, rt.now) = rt /\ Forgotten(TurnByTurn(noted, rt.now)) = rt

\* A protecting Run lies over every other on its Frames until it ends, but for one that was forced and
\* its own successor; a Run that itself took a predecessor's place is not asked this
\* (`_protected_conflict`, `_place_over`).
ProtectedStaysVisible ==
  \A i, j \in Playing(rt) :
    LET p == rt.runs[i]  q == rt.runs[j] IN
      /\ p.place[2] = 0 /\ q.place[1] # p.place[1]
      /\ Protected(p.scene) \cap Participants(q.scene) # {}
      /\ q.identity \notin forced
      => q.priority < p.priority \/ (q.priority = p.priority /\ q.place[1] < p.place[1])

\* A Run that took others' place lies over them and all they launched while they finish beneath it,
\* whatever either launches after (`_place_over`, `_request_finish`).
SuccessorLiesOver ==
  \A i, j \in {k \in DOMAIN rt.runs : Active(rt.runs[k])} :
    LET p == rt.runs[i]  q == rt.runs[j] IN
      p.place[1] = q.place[1] /\ p.root < q.root => p.place[2] < q.place[2]

\* A window gets one answer, whatever is forgotten of it; and one Run at most of a Program is not
\* finishing, unless a later rule was applied at once and refused, which leaves the earlier Run to
\* its window's end (`_forget`, `save_program`, `save_program_and_apply_now`).
WindowsPlayOnce ==
  /\ \A v, w \in answers : v[1] = w[1] => v[2] = w[2]
  /\ \A i, j \in Playing(rt) :
       LET p == rt.runs[i]  q == rt.runs[j] IN
         i < j /\ p.program = q.program /\ p.program # NoProgram /\ p.asked = Never /\ q.asked = Never
           => \E a \in answers : a[2] = 0 /\ a[1].of = p.program /\ a[1].revision > p.identity.revision
=============================================================================
