--------------------------- MODULE PlayerExecution ---------------------------
(***************************************************************************)
(* A Player's execution state (player/executor.py) and the handler that    *)
(* feeds it (player/service.py, _apply_state): what it has secured and     *)
(* prepared, which grants it holds, and what it plays.                     *)
(*                                                                         *)
(* Every layer is taken to be seen, so a layer deferred under another is   *)
(* a prepared one, and a present `failure` is just "not prepared".  What   *)
(* a Frame keeps after its layers, cache pins, an offer's expiry and the   *)
(* `cancel` mode, which Central never sends, are left out.  A readiness    *)
(* generation is only compared with the one a report was made at, so a     *)
(* report keeps the assignments whose generation still stands.             *)
(***************************************************************************)
EXTENDS Naturals, FiniteSets

CONSTANTS
  Assignments,   \* the showings <<frame, cue>> a plan may hold
  Frames,
  Start,         \* Start[c]: when a cue's layers start to show
  End,           \* End[a]: when a showing ends
  Prepare,       \* PREPARE_SECONDS, the executor's prepare_lead
  KeepReports    \* the readiness reports an executor retains: 128

VARIABLES
  now,      \* the wall's clock, which a healthy mapping follows
  healthy,  \* TimeMapping.healthy()
  player    \* the executor's fields

-----------------------------------------------------------------------------

\* An assignment new to this process.  `seen`: granted_sequence; `granted`: the
\* revision whose Commit granted granted_layer; `playing`: that of execution_layer.
New == [secured |-> FALSE, prepared |-> FALSE, committed |-> FALSE,
        seen |-> 0, granted |-> 0, playing |-> 0]

Records == [secured : BOOLEAN, prepared : BOOLEAN, committed : BOOLEAN,
            seen : Nat, granted : Nat, playing : Nat]

\* What ends a Commit ends the one it carried over too (_end_grant).
Ended(r) == [r EXCEPT !.committed = FALSE, !.granted = 0]

\* A bug to catch: only the grant under this revision is lost, not a carried one.
LosePreparation_KeepsCarried(r) ==
  [r EXCEPT !.prepared = FALSE, !.committed = FALSE, !.playing = 0]

\* _lose_preparation.
LosePreparation(r) == [Ended(r) EXCEPT !.prepared = FALSE, !.playing = 0]

\* An executor in its first epoch, with no configuration yet.
Cold == [epoch |-> 0, frames |-> <<>>, rev |-> 0, asg |-> <<>>, inactive |-> <<>>,
         capacity |-> FALSE, seq |-> 0, reported |-> <<>>, revoked |-> 0,
         seen |-> {}]

Held(x) == DOMAIN x.asg

\* The executor's fields hold what they can hold.
TypeOK ==
  /\ healthy \in BOOLEAN
  /\ player = [epoch |-> player.epoch, frames |-> player.frames, rev |-> player.rev,
               asg |-> player.asg, inactive |-> player.inactive,
               capacity |-> player.capacity, seq |-> player.seq,
               reported |-> player.reported, revoked |-> player.revoked,
               seen |-> player.seen]
  /\ {player.epoch, player.rev, player.seq, player.revoked} \subseteq Nat
  /\ player.capacity \in BOOLEAN
  /\ DOMAIN player.frames \subseteq Frames
  /\ player.frames \in [DOMAIN player.frames -> Nat]
  /\ Held(player) \cup DOMAIN player.inactive \subseteq Assignments
  /\ player.inactive \in [DOMAIN player.inactive -> Nat]
  /\ player.asg \in [Held(player) -> Records]
  /\ DOMAIN player.reported \subseteq 1..player.seq
  /\ Cardinality(DOMAIN player.reported) <= KeepReports
  /\ \A n \in DOMAIN player.reported : player.reported[n] \subseteq Assignments

Changed(x, S, F(_)) ==
  [x EXCEPT !.asg = [a \in Held(x) |-> IF a \in S THEN F(x.asg[a]) ELSE x.asg[a]]]

\* Their generation moved on: no report before now speaks of them.
Outdated(x, S) ==
  [x EXCEPT !.reported = [n \in DOMAIN x.reported |-> x.reported[n] \ S]]

\* _clock_gate.
Gated(x) ==
  IF healthy THEN x ELSE Outdated(Changed(x, Held(x), Ended), Held(x))

\* _imminent.
Imminent(x) ==
  {a \in Held(x) : now < End[a] /\ Start[a[2]] <= now + Prepare}

Preparable(x) == {a \in Imminent(x) : x.asg[a].secured}

-----------------------------------------------------------------------------
(* A State from Central *)

\* A bug to catch: a fresh epoch that clears nothing.
FreshStart_KeepsAll(x, s) == [x EXCEPT !.epoch = s.epoch]

\* A fresh authority epoch starts over.
FreshStart(x, s) == IF s.epoch > x.epoch THEN [Cold EXCEPT !.epoch = s.epoch] ELSE x

\* accept_configuration: what is shown on a Frame that was rebound is gone.
Configured(x, s) ==
  LET y == FreshStart(x, s)
      stay == {a \in Held(y) :
                 /\ a[1] \in DOMAIN s.frames
                 /\ s.frames[a[1]] = y.frames[a[1]]}
  IN  [y EXCEPT !.frames = s.frames,
                !.asg = [a \in stay |-> y.asg[a]],
                !.capacity = @ /\ s.frames = y.frames]

\* accept_plan refuses to show secured content otherwise than it was offered.
Immutable(x, s) ==
  \E a \in s.layers \cap DOMAIN x.inactive :
    now < End[a] /\ x.inactive[a] # s.frames[a[1]]

\* accept_plan: a new revision keeps what it still shows, though each grant has
\* to be renewed, and drops the rest.  Secured bytes outlive the drop.
Planned(x, s) ==
  LET dropped == {a \in Held(x) : x.asg[a].secured} IN
  [x EXCEPT
    !.rev = s.rev,
    !.asg = [a \in s.layers |->
               IF a \in Held(x)
                 THEN [x.asg[a] EXCEPT !.committed = FALSE, !.seen = 0]
                 ELSE [New EXCEPT !.secured = a \in DOMAIN x.inactive]],
    !.inactive = [a \in (DOMAIN @ \cup dropped) \ s.layers |->
                    IF a \in dropped THEN x.frames[a[1]] ELSE @[a]],
    !.revoked = 0, !.capacity = FALSE, !.reported = <<>>, !.seen = {}]

\* A bug to catch: a revocation that ends only the grant under this revision.
Revoked_KeepsGrant(x, s) ==
  LET newer == {r \in s.revocations : r.seq > x.revoked}
      F(r)  == [r EXCEPT !.committed = FALSE, !.seen = 0]
  IN  IF newer = {} THEN x
      ELSE [Changed(x, UNION {r.ids : r \in newer}, F) EXCEPT
              !.revoked = CHOOSE n \in {r.seq : r \in newer} :
                            \A r \in newer : r.seq <= n]

\* accept_revocation, for each of them in turn.
Revoked(x, s) ==
  LET newer == {r \in s.revocations : r.seq > x.revoked}
      gone  == UNION {r.ids : r \in newer}
      F(r)  == [LosePreparation(r) EXCEPT !.seen = 0]
  IN  IF newer = {} THEN x
      ELSE [Outdated(Changed(x, gone, F), gone) EXCEPT
              !.revoked = CHOOSE n \in {r.seq : r \in newer} :
                            \A r \in newer : r.seq <= n]

\* prepare_imminent, when the renderer has `ready` of the secured imminent ones
\* decoded and `fits` says its capacity suffices; what a pass gives up to make room
\* is not in `ready`.  Where there is none to be made, only what plays is kept.
PreparePass(x, ready, fits) ==
  LET kept == IF fits THEN ready ELSE {a \in ready : x.asg[a].playing # 0}
      lost == Preparable(x) \ kept
      Prepared(r) == [r EXCEPT !.prepared = TRUE]
      y == Outdated(Changed(x, lost, LosePreparation), {a \in lost : x.asg[a].prepared})
  IN  Gated([Changed(y, kept, Prepared) EXCEPT !.capacity = fits])

\* A bug to catch: a Commit given before the start this Player missed still counts.
InTime_Whenever(x, a, c) == TRUE

\* A start that was missed needs a grant made after it.
InTime(x, a, c) ==
  ~(x.asg[a].playing = 0 /\ now > Start[a[2]] /\ c.at < Start[a[2]])

\* accept_commit's gates.
Acceptable(x, c) ==
  /\ healthy /\ x.capacity
  /\ \A a \in c.ids :
       /\ a \in Preparable(x) /\ x.asg[a].prepared
       /\ c.seq \in DOMAIN x.reported /\ a \in x.reported[c.seq]
       /\ InTime(x, a, c)

\* accept_commit for the Commits not seen before: each is seen, and those that
\* pass the gates are held.  No two Commits name one assignment.
Accepted(x, s) ==
  LET fresh == s.commits \ x.seen
      taken == {c \in fresh : Acceptable(x, c)}
      Sees(r, c) == [r EXCEPT !.seen = IF @ < c.seq THEN c.seq ELSE @]
      Update(a) ==
        LET r  == x.asg[a]
            cs == {c \in fresh : a \in c.ids}
        IN  IF cs = {} THEN r
            ELSE LET c == CHOOSE c \in cs : TRUE
                 IN  IF c \in taken
                       THEN [Sees(r, c) EXCEPT !.committed = TRUE, !.granted = x.rev]
                       ELSE Sees(r, c)
  IN  [x EXCEPT !.asg = [a \in Held(x) |-> Update(a)], !.seen = @ \cup s.commits]

\* tick: what is prepared and granted plays from its start.
Ticked(x) ==
  LET due == {a \in Held(x) :
                /\ healthy /\ x.asg[a].secured /\ x.asg[a].prepared
                /\ x.asg[a].granted # 0
                /\ Start[a[2]] <= now /\ now < End[a]}
      Plays(r) == [r EXCEPT !.playing = r.granted]
  IN  Changed(x, due, Plays)

\* _apply_state in its order.  A refused plan ends it, its configuration taken.
Applied(x, s, ready, fits) ==
  LET configured == Configured(x, s)
      offers == s.rev \notin {0, configured.rev}
      planned == IF offers THEN Planned(configured, s) ELSE configured
      y == Revoked(planned, s)
  IN  IF offers /\ Immutable(configured, s)
        THEN configured
        ELSE Ticked(Accepted(PreparePass(y, ready \cap Preparable(y), fits), s))

-----------------------------------------------------------------------------
(* The executor's steps *)

\* The renderer has decoded these, and has room for them or not.
Apply(s, ready, fits) ==
  /\ s.epoch >= player.epoch
  /\ player' = Applied(player, s, ready, fits)
  /\ UNCHANGED <<now, healthy>>

\* tick_main, at every planning tick.
TickMain(ready, fits) ==
  /\ player.epoch # 0
  /\ ready \subseteq Preparable(player)
  /\ player' = Ticked(PreparePass(player, ready, fits))
  /\ UNCHANGED <<now, healthy>>

\* acquire or resolve_cached has the bytes of an offered assignment.
Acquire(a) ==
  /\ a \in Held(player) /\ ~player.asg[a].secured /\ now < End[a]
  /\ player' = [player EXCEPT !.asg[a].secured = TRUE]
  /\ UNCHANGED <<now, healthy>>

\* verify_secured finds the bytes damaged or gone.
Damage(a) ==
  /\ a \in Held(player) /\ player.asg[a].secured
  /\ LET F(r) == [LosePreparation(r) EXCEPT !.secured = FALSE]
     IN  player' = [Outdated(Changed(player, {a}, F), {a}) EXCEPT !.capacity = FALSE]
  /\ UNCHANGED <<now, healthy>>

\* What readiness() reports: what is prepared, and the grants <<assignment,
\* readiness sequence>> it saw and no longer holds.
PreparedNow(x) ==
  IF healthy /\ x.capacity THEN {a \in Preparable(x) : x.asg[a].prepared} ELSE {}

\* A bug to catch: a lost grant nobody hears of.
LostNow_Silent(x) == {}

LostNow(x) ==
  {<<a, x.asg[a].seen>> :
     a \in {a \in PreparedNow(x) : ~x.asg[a].committed /\ x.asg[a].seen # 0}}

ReportOf(x) ==
  [epoch |-> x.epoch, rev |-> x.rev, seq |-> x.seq + 1,
   prepared |-> PreparedNow(x), lost |-> LostNow(x), observed |-> now]

\* A bug to catch: one report too many is retained.
Retains_OneMore(x, n) == n + KeepReports >= x.seq + 1

Retains(x, n) == n + KeepReports > x.seq + 1

\* readiness(): the report is numbered and retained.
Report ==
  /\ player.rev # 0
  /\ LET x == Gated(player)
         all == [n \in DOMAIN x.reported \cup {x.seq + 1} |->
                   IF n = x.seq + 1 THEN PreparedNow(x) ELSE x.reported[n]]
     IN  player' = [x EXCEPT !.seq = @ + 1,
                             !.reported = [n \in {n \in DOMAIN all : Retains(x, n)}
                                             |-> all[n]]]
  /\ UNCHANGED <<now, healthy>>

\* The mapping becomes stale or steps, or is refreshed.
ClockTurns ==
  /\ healthy' = ~healthy
  /\ UNCHANGED <<now, player>>
==============================================================================
