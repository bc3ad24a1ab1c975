------------------------- MODULE CoordinationProofs -------------------------
(***************************************************************************)
(* What Coordination promises, for any wall, any timelines and bounds.     *)
(*                                                                         *)
(* The argument: epochs and revisions only count up, so a grant under the  *)
(* offer a Player has now was given under that very offer and names its    *)
(* cohort (GrantsOK); a cohort is skipped for good, and the transaction    *)
(* that skips it withdraws every grant of it (SkippedHoldsNoGrant); and a  *)
(* cue that has not started gets a new cohort only in the transaction that *)
(* skips the last one, or after it was skipped (LastAlone).                *)
(***************************************************************************)
EXTENDS Coordination, FiniteSetTheorems, SequenceTheorems, TLAPS

\* The tables as sets of rows: TypeOK, in the form the provers use.
Cohorts == [members : UNION {[D -> Owners] : D \in SUBSET Assignments},
            deadline : Nat, status : Statuses, skip : Nat]
Offers  == [epoch : Nat, rev : Nat, frames : UNION {[D -> Nat] : D \in SUBSET Frames},
            groups : UNION {[D -> GroupId] : D \in SUBSET Assignments}]

Typed ==
  /\ now \in Nat /\ events \in Nat /\ edits \in Nat /\ upsets \in Nat
  /\ epoch \in [Players -> Nat]
  /\ binding \in [Frames -> [player : Players \cup {NoPlayer}, gen : Nat]]
  /\ timeline \subseteq Assignments
  /\ losses \subseteq Players \X Nat \X Frames \X Nat
  /\ groups \in [Cues -> Seq(Cohorts)]
  /\ plan \in [Players -> Offers]
  /\ commits \subseteq Rows
  /\ feedback \in [Players -> Reports]

\* An offer is of an epoch its Player had; before the first there is none.
OffersOK ==
  \A p \in Players : /\ epoch[p] >= 1 /\ plan[p].epoch <= epoch[p]
                     /\ plan[p].rev = 0 => plan[p].epoch = 0

\* A grant is of a cohort that is known, and of an offer its Player was given; one of
\* the offer it has now names the cohort that offer names.
GrantsOK ==
  \A r \in commits :
    /\ r.group \in GroupIds /\ r.epoch >= 1
    /\ r.epoch <= plan[r.player].epoch
    /\ r.epoch = plan[r.player].epoch =>
         /\ r.rev <= plan[r.player].rev
         /\ r.rev = plan[r.player].rev =>
              r.a \in Layers(r.player) /\ plan[r.player].groups[r.a] = r.group

\* Of a coming cue's cohorts only the last may still play.
LastAlone ==
  \A g \in GroupIds :
    Future(g[1]) /\ g[2] # Len(groups[g[1]]) => Cohort(g).status = "skipped"

Safe == GrantsOK /\ SkippedHoldsNoGrant /\ LastAlone

Inv == Typed /\ OffersOK /\ Safe

-----------------------------------------------------------------------------
(* The tables *)

LEMMA CohortSet == \A k : CohortOK(k) <=> k \in Cohorts
  BY DEF CohortOK, Cohorts

LEMMA OfferSet == \A x : PlanOK(x) <=> x \in Offers
  BY DEF PlanOK, Offers

LEMMA SeqWithin ==
  ASSUME NEW s, NEW S
  PROVE  s \in Seq({k \in {s[n] : n \in DOMAIN s} : k \in S}) <=> s \in Seq(S)
  <1>1. ASSUME s \in Seq({k \in {s[n] : n \in DOMAIN s} : k \in S}) PROVE s \in Seq(S)
    BY <1>1
  <1>2. ASSUME s \in Seq(S) PROVE s \in Seq({k \in {s[n] : n \in DOMAIN s} : k \in S})
    BY <1>2
  <1> QED BY <1>1, <1>2

LEMMA TypedIsTypeOK == TypeOK <=> Typed
  <1>1. (groups = [c \in Cues |-> groups[c]]
          /\ \A c \in Cues : groups[c] \in Seq(Cohorts)) <=> groups \in [Cues -> Seq(Cohorts)]
    OBVIOUS
  <1>2. \A c \in Cues :
          groups[c] \in Seq({k \in {groups[c][n] : n \in DOMAIN groups[c]} : CohortOK(k)})
            <=> groups[c] \in Seq(Cohorts)
    BY CohortSet, SeqWithin
  <1>3. (plan = [p \in Players |-> plan[p]] /\ \A p \in Players : PlanOK(plan[p]))
          <=> plan \in [Players -> Offers]
    BY OfferSet
  <1> QED BY <1>1, <1>2, <1>3 DEF TypeOK, Typed

-----------------------------------------------------------------------------
(* Cohorts *)

LEMMA AssignmentParts == \A a \in Assignments : FrameOf(a) \in Frames /\ CueOf(a) \in Cues
  BY WallAssumption DEF FrameOf, CueOf

LEMMA GroupIdForm ==
  ASSUME Typed
  PROVE  /\ \A c \in Cues : groups[c] \in Seq(Cohorts) /\ Len(groups[c]) \in Nat
                            /\ DOMAIN groups[c] = 1..Len(groups[c])
         /\ \A g \in GroupIds : /\ g \in GroupId /\ g = <<g[1], g[2]>>
                                /\ g[1] \in Cues /\ g[2] \in 1..Len(groups[g[1]])
                                /\ Cohort(g) \in Cohorts
         /\ \A c \in Cues : \A n \in 1..Len(groups[c]) : <<c, n>> \in GroupIds
  <1>1. \A c \in Cues : groups[c] \in Seq(Cohorts) /\ Len(groups[c]) \in Nat
                        /\ DOMAIN groups[c] = 1..Len(groups[c])
    BY DEF Typed
  <1>2. ASSUME NEW g \in GroupIds
        PROVE  /\ g \in GroupId /\ g = <<g[1], g[2]>>
               /\ g[1] \in Cues /\ g[2] \in 1..Len(groups[g[1]])
               /\ Cohort(g) \in Cohorts
    <2>1. PICK c \in Cues : \E n \in DOMAIN groups[c] : g = <<c, n>>
      BY DEF GroupIds
    <2>2. g[1] = c /\ g[2] \in 1..Len(groups[c]) /\ g = <<g[1], g[2]>>
      BY <1>1, <2>1
    <2>3. groups[c][g[2]] \in Cohorts
      BY <1>1, <2>2
    <2> QED BY <1>1, <2>2, <2>3 DEF GroupId, Cohort
  <1>3. \A c \in Cues : \A n \in 1..Len(groups[c]) : <<c, n>> \in GroupIds
    BY <1>1 DEF GroupIds
  <1> QED BY <1>1, <1>2, <1>3

LEMMA FiniteIds == ASSUME Typed PROVE IsFiniteSet(GroupIds)
  <1> DEFINE Ids(c) == {c} \X DOMAIN groups[c]
             f == [c \in Cues |-> Ids(c)]
  <1>1. ASSUME NEW c \in Cues PROVE IsFiniteSet(Ids(c))
    <2>3. Len(groups[c]) \in Int /\ 1 \in Int /\ DOMAIN groups[c] = 1..Len(groups[c])
      BY GroupIdForm
    <2>1. IsFiniteSet(DOMAIN groups[c])
      BY <2>3, FS_Interval
    <2>2. IsFiniteSet({c})
      BY FS_Singleton
    <2> QED BY <2>1, <2>2, FS_Product
  <1>2. IsFiniteSet({Ids(c) : c \in Cues})
    <2>1. f \in Surjection(Cues, {Ids(c) : c \in Cues})
      BY DEF Surjection, Range
    <2>2. IsFiniteSet(Cues)
      BY WallAssumption
    <2> QED BY <2>1, <2>2, FS_Surjection
  <1> QED BY <1>1, <1>2, FS_UNION DEF GroupIds

\* Skips are numbered with natural numbers.
LEMMA RankIsNat ==
  ASSUME NEW first, NEW S, IsFiniteSet(first), IsFiniteSet(S), NEW g
  PROVE  Rank(first, S, g) \in Nat
  <1>1. \A T : IsFiniteSet(T) => Place(T, g) \in Nat
    BY FS_Subset, FS_CardinalityType DEF Place
  <1>2. IsFiniteSet(S \ first)
    BY FS_Difference
  <1> QED BY <1>1, <1>2, FS_CardinalityType DEF Rank

LEMMA SeqFromDef ==
  ASSUME NEW S, NEW n \in Nat, NEW s \in [1..n -> S]
  PROVE  s \in Seq(S) /\ Len(s) = n
  OBVIOUS

\* A table of cohorts, and the same one with other statuses and skips.
Table == [Cues -> Seq(Cohorts)]

SameCohorts(gs, hs) ==
  /\ hs \in Table
  /\ \A c \in Cues : /\ Len(hs[c]) = Len(gs[c])
                     /\ \A n \in 1..Len(gs[c]) : hs[c][n].members = gs[c][n].members

LEMMA SkippedIs ==
  ASSUME NEW gs \in Table, events \in Nat, NEW first, NEW S,
         IsFiniteSet(first), IsFiniteSet(S)
  PROVE  /\ SameCohorts(gs, Skipped(gs, first, S))
         /\ \A c \in Cues : \A n \in 1..Len(gs[c]) :
              Skipped(gs, first, S)[c][n].status =
                IF <<c, n>> \in S THEN "skipped" ELSE gs[c][n].status
  <1> DEFINE hs == Skipped(gs, first, S)
  <1>1. \A c \in Cues : hs[c] = [n \in 1..Len(gs[c]) |->
          IF <<c, n>> \in S
            THEN [gs[c][n] EXCEPT !.status = "skipped",
                                  !.skip = events + Rank(first, S, <<c, n>>)]
            ELSE gs[c][n]]
    BY DEF Skipped, Table
  <1>2. ASSUME NEW c \in Cues, NEW n \in 1..Len(gs[c])
        PROVE  /\ hs[c][n] \in Cohorts /\ hs[c][n].members = gs[c][n].members
               /\ hs[c][n].status = IF <<c, n>> \in S THEN "skipped" ELSE gs[c][n].status
    <2>1. gs[c][n] \in Cohorts
      BY DEF Table
    <2>2. events + Rank(first, S, <<c, n>>) \in Nat
      BY RankIsNat
    <2>3. CASE <<c, n>> \in S
      <3>1. hs[c][n] = [gs[c][n] EXCEPT !.status = "skipped",
                                        !.skip = events + Rank(first, S, <<c, n>>)]
        BY <1>1, <2>3
      <3> QED BY <2>1, <2>2, <2>3, <3>1 DEF Cohorts, Statuses
    <2>4. CASE <<c, n>> \notin S
      BY <1>1, <2>1, <2>4
    <2> QED BY <2>3, <2>4
  <1>3. ASSUME NEW c \in Cues
        PROVE  hs[c] \in Seq(Cohorts) /\ Len(hs[c]) = Len(gs[c])
    <2>1. Len(gs[c]) \in Nat
      BY DEF Table
    <2>2. hs[c] \in [1..Len(gs[c]) -> Cohorts]
      BY <1>1, <1>2
    <2> QED BY <2>1, <2>2, SeqFromDef
  <1>4. hs \in Table
    BY <1>3 DEF Skipped, Table
  <1> QED BY <1>2, <1>3, <1>4 DEF SameCohorts

LEMMA CommittedIs ==
  ASSUME NEW gs \in Table, NEW ready
  PROVE  /\ SameCohorts(gs, Committed(gs, ready))
         /\ \A c \in Cues : \A n \in 1..Len(gs[c]) :
              Committed(gs, ready)[c][n].status =
                IF <<c, n>> \in ready THEN "committed" ELSE gs[c][n].status
  <1> DEFINE hs == Committed(gs, ready)
  <1>1. \A c \in Cues : hs[c] = [n \in 1..Len(gs[c]) |->
          IF <<c, n>> \in ready THEN [gs[c][n] EXCEPT !.status = "committed"] ELSE gs[c][n]]
    BY DEF Committed, Table
  <1>2. ASSUME NEW c \in Cues, NEW n \in 1..Len(gs[c])
        PROVE  /\ hs[c][n] \in Cohorts /\ hs[c][n].members = gs[c][n].members
               /\ hs[c][n].status = IF <<c, n>> \in ready THEN "committed" ELSE gs[c][n].status
    <2>1. gs[c][n] \in Cohorts
      BY DEF Table
    <2>3. CASE <<c, n>> \in ready
      <3>1. hs[c][n] = [gs[c][n] EXCEPT !.status = "committed"]
        BY <1>1, <2>3
      <3> QED BY <2>1, <2>3, <3>1 DEF Cohorts, Statuses
    <2>4. CASE <<c, n>> \notin ready
      BY <1>1, <2>1, <2>4
    <2> QED BY <2>3, <2>4
  <1>3. ASSUME NEW c \in Cues
        PROVE  hs[c] \in Seq(Cohorts) /\ Len(hs[c]) = Len(gs[c])
    <2>1. Len(gs[c]) \in Nat
      BY DEF Table
    <2>2. hs[c] \in [1..Len(gs[c]) -> Cohorts]
      BY <1>1, <1>2
    <2> QED BY <2>1, <2>2, SeqFromDef
  <1>4. hs \in Table
    BY <1>3 DEF Committed, Table
  <1> QED BY <1>2, <1>3, <1>4 DEF SameCohorts

-----------------------------------------------------------------------------
(* A commit pass *)

ReadyOf(dropped, fb, active) == {g \in Due(dropped) : Ready(g, fb, active)}
SkipsOf(dropped, fb, active) == dropped \cup {g \in Due(dropped) : NotReady(g, fb, active)}

\* The rows as the pass finds them, and the grants it adds.
OldOf(dropped, rows, fb, active) == Withdrawn(rows, SkipsOf(dropped, fb, active))
NewOf(dropped, rows, fb, active) ==
  {r \in UNION {{Grant(g, a, fb) : a \in Awaited(g)} : g \in ReadyOf(dropped, fb, active)} :
     ~Held(OldOf(dropped, rows, fb, active), r)}

\* The Player of a member that is awaited, and its grant.
HolderOf(g, a) == Cohort(g).members[a].player

LEMMA GrantIs ==
  ASSUME Typed, NEW fb \in [Players -> Reports], NEW active \in SUBSET Players,
         NEW g \in GroupIds, Ready(g, fb, active), NEW a \in Awaited(g)
  PROVE  /\ a \in Assignments /\ HolderOf(g, a) \in Players
         /\ Standing(HolderOf(g, a)) /\ a \in Layers(HolderOf(g, a))
         /\ plan[HolderOf(g, a)].groups[a] = g /\ a \in fb[HolderOf(g, a)].prepared
         /\ Grant(g, a, fb) \in Rows
         /\ Grant(g, a, fb).player = HolderOf(g, a)
         /\ Grant(g, a, fb).epoch = epoch[HolderOf(g, a)]
         /\ Grant(g, a, fb).rev = plan[HolderOf(g, a)].rev
         /\ Grant(g, a, fb).a = a /\ Grant(g, a, fb).group = g /\ Grant(g, a, fb).valid
  <1> DEFINE p == HolderOf(g, a)
  <1>1. MemberReady(g, a, fb, active)
    BY DEF Ready
  <1>2. /\ p \in Players /\ Standing(p) /\ a \in Layers(p) /\ plan[p].groups[a] = g
        /\ a \in fb[p].prepared
    BY <1>1 DEF MemberReady, HolderOf
  <1>3. a \in Assignments
    <2>1. Cohort(g) \in Cohorts
      BY GroupIdForm
    <2>2. Cohort(g).members \in UNION {[D -> Owners] : D \in SUBSET Assignments}
      BY <2>1 DEF Cohorts
    <2>3. DOMAIN Cohort(g).members \subseteq Assignments
      BY <2>2
    <2> QED BY <2>3 DEF Awaited
  <1>4. g \in GroupId
    BY GroupIdForm
  <1>5. epoch[p] \in Nat /\ plan[p].rev \in Nat /\ fb[p].seq \in Nat /\ now \in Nat
    BY <1>2 DEF Typed, Offers, Reports
  <1>6. Grant(g, a, fb) = [player |-> p, epoch |-> epoch[p], rev |-> plan[p].rev, a |-> a,
                          group |-> g, seq |-> fb[p].seq, at |-> now, valid |-> TRUE]
    BY DEF Grant, HolderOf
  <1>7. Grant(g, a, fb) \in Rows
    BY <1>2, <1>3, <1>4, <1>5, <1>6 DEF Rows
  <1> QED BY <1>2, <1>3, <1>6, <1>7

\* Whose rows, keys and cohorts are the same.
Key(r) == <<r.player, r.epoch, r.rev, r.a>>

LEMMA RowOff ==
  ASSUME NEW r \in Rows
  PROVE  /\ [r EXCEPT !.valid = FALSE] \in Rows /\ ~[r EXCEPT !.valid = FALSE].valid
         /\ [r EXCEPT !.valid = FALSE].group = r.group
         /\ [r EXCEPT !.valid = FALSE].player = r.player
         /\ [r EXCEPT !.valid = FALSE].epoch = r.epoch
         /\ [r EXCEPT !.valid = FALSE].rev = r.rev
         /\ [r EXCEPT !.valid = FALSE].a = r.a
         /\ [r EXCEPT !.valid = FALSE].seq = r.seq
         /\ ~r.valid => [r EXCEPT !.valid = FALSE] = r
  BY DEF Rows

\* One grant of one showing of a cohort that is ready, or what was left of a row.
LEMMA CommitRows ==
  ASSUME Typed, NEW dropped \in SUBSET GroupIds, NEW rows \in SUBSET Rows,
         NEW fb \in [Players -> Reports], NEW active \in SUBSET Players,
         CommitDue(dropped, rows, fb, active)
  PROVE  /\ commits' = {r \in OldOf(dropped, rows, fb, active) :
                          \A h \in NewOf(dropped, rows, fb, active) : Key(h) # Key(r)}
                         \cup NewOf(dropped, rows, fb, active)
         /\ OldOf(dropped, rows, fb, active) \subseteq Rows
         /\ NewOf(dropped, rows, fb, active) \subseteq Rows
  <1> DEFINE ready == ReadyOf(dropped, fb, active)
             skips == SkipsOf(dropped, fb, active)
             old   == OldOf(dropped, rows, fb, active)
             new   == NewOf(dropped, rows, fb, active)
  <1>1. commits' = {r \in old : \A h \in new : Key(h) # Key(r)} \cup new
    BY DEF CommitDue, Granted, ReadyOf, SkipsOf, Key, OldOf, NewOf
  <1>2. \A r \in new : \E g \in ready : \E a \in Awaited(g) : r = Grant(g, a, fb)
    BY DEF NewOf
  <1>3. \A r \in old : \/ r \in rows /\ r.group \notin skips
                       \/ \E x \in rows : r = [x EXCEPT !.valid = FALSE]
    BY DEF Withdrawn, OldOf
  <1>4. old \subseteq Rows
    BY <1>3, RowOff
  <1>5. new \subseteq Rows
    <2> SUFFICES ASSUME NEW r \in new PROVE r \in Rows
      OBVIOUS
    <2>1. PICK g \in ready : \E a \in Awaited(g) : r = Grant(g, a, fb)
      BY <1>2
    <2>2. g \in GroupIds /\ Ready(g, fb, active)
      BY DEF ReadyOf, Due
    <2> QED BY <2>1, <2>2, GrantIs
  <1> QED BY <1>1, <1>4, <1>5

\* What the pass does to the cohorts.
PassGroups(dropped, ready, skips) ==
  /\ SameCohorts(groups, groups') /\ events' \in Nat
  /\ ready \subseteq GroupIds /\ skips \subseteq GroupIds /\ ready \cap skips = {}
  /\ \A g \in ready : Cohort(g).status # "skipped"
  /\ \A g \in skips \ dropped : Cohort(g).status = "pending"
  /\ \A c \in Cues : \A n \in 1..Len(groups[c]) :
       groups'[c][n].status = IF <<c, n>> \in ready THEN "committed"
                              ELSE IF <<c, n>> \in skips THEN "skipped"
                              ELSE groups[c][n].status

LEMMA CommitGroups ==
  ASSUME Typed, NEW dropped \in SUBSET GroupIds, NEW rows \in SUBSET Rows,
         NEW fb \in [Players -> Reports], NEW active \in SUBSET Players,
         CommitDue(dropped, rows, fb, active)
  PROVE  PassGroups(dropped, ReadyOf(dropped, fb, active), SkipsOf(dropped, fb, active))
  <1> DEFINE ready == ReadyOf(dropped, fb, active)
             skips == SkipsOf(dropped, fb, active)
             mid   == Skipped(groups, dropped, skips)
  <1>1. groups' = Committed(mid, ready) /\ events' = events + Cardinality(skips)
    BY DEF CommitDue, ReadyOf, SkipsOf
  <1>2. /\ ready \subseteq GroupIds /\ skips \subseteq GroupIds /\ ready \cap skips = {}
        /\ \A g \in ready : Cohort(g).status # "skipped"
        /\ \A g \in skips \ dropped : Cohort(g).status = "pending"
    BY DEF ReadyOf, SkipsOf, Due, NotReady
  <1>3. IsFiniteSet(skips) /\ IsFiniteSet(dropped)
    BY <1>2, FiniteIds, FS_Subset
  <1>4. groups \in Table /\ events \in Nat
    BY DEF Typed, Table
  <1> HIDE DEF ready, skips
  <1>5. /\ SameCohorts(groups, mid)
        /\ \A c \in Cues : \A n \in 1..Len(groups[c]) :
             mid[c][n].status = IF <<c, n>> \in skips THEN "skipped" ELSE groups[c][n].status
    BY <1>3, <1>4, SkippedIs
  <1> HIDE DEF mid
  <1>6. /\ SameCohorts(mid, groups')
        /\ \A c \in Cues : \A n \in 1..Len(mid[c]) :
             groups'[c][n].status = IF <<c, n>> \in ready THEN "committed" ELSE mid[c][n].status
    BY <1>1, <1>5, CommittedIs DEF SameCohorts
  <1>7. SameCohorts(groups, groups')
    BY <1>5, <1>6 DEF SameCohorts
  <1>8. \A c \in Cues : \A n \in 1..Len(groups[c]) :
          groups'[c][n].status = IF <<c, n>> \in ready THEN "committed"
                                 ELSE IF <<c, n>> \in skips THEN "skipped"
                                 ELSE groups[c][n].status
    BY <1>5, <1>6 DEF SameCohorts
  <1>9. events' \in Nat
    BY <1>1, <1>3, <1>4, FS_CardinalityType
  <1> QED BY <1>2, <1>7, <1>8, <1>9 DEF ready, skips, PassGroups

-----------------------------------------------------------------------------
(* A planning pass *)

LEMMA MembersAre ==
  ASSUME Typed, NEW active \in SUBSET Players, NEW c
  PROVE  /\ DOMAIN Members(c, active) = {a \in Placed : CueOf(a) = c}
         /\ Members(c, active) \in UNION {[D -> Owners] : D \in SUBSET Assignments}
  <1> DEFINE D == {a \in Placed : CueOf(a) = c}
  <1>1. D \subseteq Assignments
    BY DEF Placed, Typed
  <1>2. ASSUME NEW a \in D PROVE Owner(a, active) \in Owners
    <2>1. binding[FrameOf(a)] \in [player : Players \cup {NoPlayer}, gen : Nat]
      BY <1>1, AssignmentParts DEF Typed
    <2> QED BY <2>1 DEF Owner, Owners, NoOwner, Typed
  <1>3. Members(c, active) = [a \in D |-> Owner(a, active)]
    BY DEF Members
  <1>4. Members(c, active) \in [D -> Owners]
    BY <1>2, <1>3
  <1> QED BY <1>1, <1>3, <1>4

LEMMA NewCohortIs ==
  ASSUME Typed, NEW active \in SUBSET Players, NEW c \in Cues
  PROVE  /\ NewCohort(c, active) \in Cohorts /\ NewCohort(c, active).status = "pending"
  <1>1. Start[c] \in Nat /\ Prepare \in Nat /\ now \in Nat
    BY TimeAssumption DEF Typed
  <1>2. (IF Future(c) /\ ~Rewritten(c, active) THEN Start[c]
         ELSE Later(Start[c], now) + Prepare) \in Nat
    BY <1>1 DEF Later
  <1> QED BY <1>2, MembersAre DEF NewCohort, Cohorts, Statuses

LEMMA SupersededIs ==
  ASSUME Typed, NEW active \in SUBSET Players
  PROVE  /\ Superseded(active) \subseteq GroupIds /\ Orphans \subseteq GroupIds
         /\ IsFiniteSet(Superseded(active)) /\ IsFiniteSet(Orphans)
         /\ Cardinality(Superseded(active)) \in Nat
  <1>1. Superseded(active) \subseteq GroupIds /\ Orphans \subseteq GroupIds
    BY DEF Superseded, Orphans
  <1> QED BY <1>1, FiniteIds, FS_Subset, FS_CardinalityType

\* The pass appends one cohort at most to a cue, and only skips the others.
LEMMA RegroupedIs ==
  ASSUME Typed, NEW active \in SUBSET Players
  PROVE  /\ Regrouped(active) \in Table
         /\ \A c \in Cues :
              /\ Len(Regrouped(active)[c]) =
                   IF Renewed(c, active) THEN Len(groups[c]) + 1 ELSE Len(groups[c])
              /\ \A n \in 1..Len(groups[c]) :
                   /\ Regrouped(active)[c][n].members = groups[c][n].members
                   /\ Regrouped(active)[c][n].status =
                        IF <<c, n>> \in Superseded(active) THEN "skipped"
                                                           ELSE groups[c][n].status
  <1> DEFINE kept == Skipped(groups, Orphans, Superseded(active))
  <1>1. groups \in Table /\ events \in Nat
    BY DEF Typed, Table
  <1>2. /\ SameCohorts(groups, kept)
        /\ \A c \in Cues : \A n \in 1..Len(groups[c]) :
             kept[c][n].status =
               IF <<c, n>> \in Superseded(active) THEN "skipped" ELSE groups[c][n].status
    BY <1>1, SupersededIs, SkippedIs
  <1> HIDE DEF kept
  <1>3. Regrouped(active) =
          [c \in Cues |-> IF Renewed(c, active) THEN Append(kept[c], NewCohort(c, active))
                                                ELSE kept[c]]
    BY DEF Regrouped, kept
  <1>4. ASSUME NEW c \in Cues
        PROVE  /\ Regrouped(active)[c] \in Seq(Cohorts)
               /\ Len(Regrouped(active)[c]) =
                    IF Renewed(c, active) THEN Len(groups[c]) + 1 ELSE Len(groups[c])
               /\ \A n \in 1..Len(groups[c]) : Regrouped(active)[c][n] = kept[c][n]
    <2>1. kept[c] \in Seq(Cohorts) /\ Len(kept[c]) = Len(groups[c])
      BY <1>2 DEF SameCohorts, Table
    <2>2. NewCohort(c, active) \in Cohorts
      BY NewCohortIs
    <2>3. CASE Renewed(c, active)
      <3>1. Regrouped(active)[c] = Append(kept[c], NewCohort(c, active))
        BY <1>3, <2>3
      <3> QED BY <2>1, <2>2, <2>3, <3>1
    <2>4. CASE ~Renewed(c, active)
      BY <1>3, <2>1, <2>4
    <2> QED BY <2>3, <2>4
  <1>5. Regrouped(active) \in Table
    BY <1>3, <1>4 DEF Table
  <1> QED BY <1>2, <1>4, <1>5 DEF SameCohorts

\* The offer a pass makes is one of the offers, and names cohorts of that pass.
LEMMA ProposalIs ==
  ASSUME Typed, NEW active \in SUBSET Players, NEW p \in Players
  PROVE  [epoch |-> epoch[p], rev |-> NextRev(p), frames |-> Bindings(p),
          groups |-> Proposal(p, active)] \in Offers
  <1>1. epoch[p] \in Nat /\ NextRev(p) \in Nat
    BY DEF Typed, NextRev, Offers
  <1>2. Bindings(p) \in UNION {[D -> Nat] : D \in SUBSET Frames}
    <2> DEFINE D == {f \in Frames : binding[f].player = p}
    <2>1. Bindings(p) \in [D -> Nat]
      BY DEF Bindings, Typed
    <2>2. D \in SUBSET Frames
      OBVIOUS
    <2> HIDE DEF D
    <2> QED BY <2>1, <2>2
  <1>3. Proposal(p, active) \in UNION {[D -> GroupId] : D \in SUBSET Assignments}
    <2> DEFINE D == {a \in Placed : binding[FrameOf(a)].player = p}
    <2>1. D \in SUBSET Assignments
      BY DEF Placed, Typed
    <2>2. ASSUME NEW a \in D PROVE Grouped(a, active) \in GroupId
      <3>1. CueOf(a) \in Cues /\ Len(groups[CueOf(a)]) \in Nat
        BY <2>1, AssignmentParts, GroupIdForm
      <3> QED BY <3>1 DEF Grouped, GroupId
    <2>3. Proposal(p, active) \in [D -> GroupId]
      BY <2>2 DEF Proposal
    <2> HIDE DEF D
    <2> QED BY <2>1, <2>3
  <1> QED BY <1>1, <1>2, <1>3 DEF Offers

-----------------------------------------------------------------------------
(* A readiness report *)

Speaks(p, report) == report.rev = plan[p].rev /\ Standing(p)
Gone(p, report)   == IF Speaks(p, report) THEN Unprepared(p, report.prepared) ELSE {}
LostNow(p, report) == IF Speaks(p, report) THEN LostRows(p, report) ELSE {}
Left(p, report) ==
  {IF r \in Gone(p, report) \cup LostNow(p, report) THEN [r EXCEPT !.valid = FALSE] ELSE r :
     r \in commits}
Dropped(p, report) ==
  {g \in Forecast(Gone(p, report)) : Cohort(g).status # "skipped"}

Reported(p, report, active) ==
  /\ feedback' = [feedback EXCEPT ![p] = report]
  /\ CommitDue(Dropped(p, report), Left(p, report), feedback', active)
  /\ upsets' \in Nat
  /\ UNCHANGED <<now, wallVars, plan, edits>>

LEMMA ReachesIs ==
  ASSUME Typed, NEW active, Reaches(active)
  PROVE  upsets' \in Nat
  BY DEF Typed, Reaches, Upset

\* A report of Player p is heard, whatever it says.
Heard(p) == \E report \in Reports : Readiness(p, report)

LEMMA ReportIs ==
  ASSUME Typed, NEW p \in Players, Heard(p)
  PROVE  \E report \in Reports, active \in SUBSET Players : Reported(p, report, active)
  <1>1. PICK report \in Reports : Readiness(p, report)
    BY DEF Heard
  <1>2. PICK active \in SUBSET Players :
          /\ Reaches(active)
          /\ feedback' = [feedback EXCEPT ![p] = report]
          /\ CommitDue(Dropped(p, report), Left(p, report), feedback', active)
          /\ UNCHANGED <<now, wallVars, plan, edits>>
    BY <1>1 DEF Readiness, Dropped, Left, Gone, LostNow, Speaks
  <1>3. Reported(p, report, active)
    BY <1>2, ReachesIs DEF Reported
  <1> QED BY <1>3

LEMMA ReadinessIsHeard ==
  ASSUME Typed, NEW p \in Players, ReportReadiness(p)
  PROVE  Heard(p)
  <1>1. PICK rev \in {plan[p].rev - 1, plan[p].rev} \cap Nat,
             prepared \in SUBSET Authorized(p),
             lost \in SUBSET {<<r.a, r.seq>> : r \in {r \in commits : r.player = p /\ r.valid}} :
          Readiness(p, [epoch |-> epoch[p], rev |-> rev, seq |-> NextSeq(p),
                        prepared |-> prepared, lost |-> lost, observed |-> now])
    BY DEF ReportReadiness
  <1> DEFINE report == [epoch |-> epoch[p], rev |-> rev, seq |-> NextSeq(p),
                        prepared |-> prepared, lost |-> lost, observed |-> now]
  <1>2. report \in Reports
    <2>1. Authorized(p) \subseteq Assignments
      BY DEF Authorized, Layers, Typed, Offers
    <2>2. lost \subseteq Assignments \X Nat
      BY DEF Typed, Rows
    <2>3. NextSeq(p) \in Nat /\ epoch[p] \in Nat /\ now \in Nat
      BY DEF Typed, NextSeq, Reports
    <2> QED BY <2>1, <2>2, <2>3 DEF Reports
  <1> HIDE DEF report
  <1>3. Readiness(p, report)
    BY <1>1 DEF report
  <1> QED BY <1>2, <1>3 DEF Heard

\* The steps of Coordination, its Players reporting anything at all: what holds for these
\* holds wherever the reports come from.
AnyNext ==
  \/ Plan \/ Settle
  \/ EditTimeline
  \/ \E f \in Frames : Rebind(f) \/ OutputLost(f) \/ OutputRecovers(f)
  \/ \E p \in Players : Heard(p) \/ Enroll(p)
  \/ Tick

LEMMA NextIsAny == Typed /\ [Next]_vars => [AnyNext]_vars
  BY ReadinessIsHeard DEF Next, AnyNext

LEMMA LeftIs ==
  ASSUME Typed, GrantsOK, NEW p \in Players, NEW report \in Reports
  PROVE  /\ Left(p, report) \subseteq Rows /\ Dropped(p, report) \subseteq GroupIds
         /\ [feedback EXCEPT ![p] = report] \in [Players -> Reports]
         /\ \A r \in Left(p, report) :
              r \in commits \/ \E x \in commits : r = [x EXCEPT !.valid = FALSE]
  <1>1. \A r \in Left(p, report) :
          r \in commits \/ \E x \in commits : r = [x EXCEPT !.valid = FALSE]
    BY DEF Left
  <1>2. Left(p, report) \subseteq Rows
    BY <1>1, RowOff DEF Typed
  <1>3. Gone(p, report) \subseteq commits
    BY DEF Gone, Unprepared
  <1>4. Dropped(p, report) \subseteq GroupIds
    BY <1>3 DEF Dropped, Forecast, GrantsOK
  <1> QED BY <1>1, <1>2, <1>4 DEF Typed

-----------------------------------------------------------------------------
(* Types *)

LEMMA InitTyped == Init => Typed
  <1> SUFFICES ASSUME Init PROVE Typed
    OBVIOUS
  <1>1. NoPlan \in Offers
    <2>1. <<>> \in [{} -> Nat] /\ <<>> \in [{} -> GroupId]
      OBVIOUS
    <2>2. {} \in SUBSET Frames /\ {} \in SUBSET Assignments
      OBVIOUS
    <2> QED BY <2>1, <2>2 DEF NoPlan, Offers
  <1>2. NoFeedback \in Reports
    BY DEF NoFeedback, Reports
  <1>3. timeline \subseteq Assignments
    BY WallAssumption DEF Init, Empty
  <1>4. groups \in [Cues -> Seq(Cohorts)]
    BY DEF Init, Empty
  <1> QED BY <1>1, <1>2, <1>3, <1>4 DEF Init, Empty, Typed

LEMMA TypedStep == Typed /\ GrantsOK /\ [AnyNext]_vars => Typed'
  <1> SUFFICES ASSUME Typed, GrantsOK, [AnyNext]_vars PROVE Typed'
    OBVIOUS
  <1> USE DEF wallVars, coordVars
  <1>1. CASE Plan
    <2>1. PICK active \in SUBSET Players, offered \in SUBSET Players, renewal \in BOOLEAN :
            /\ UNCHANGED upsets \/ Upset
            /\ groups' = Regrouped(active)
            /\ commits' = Withdrawn(commits, Superseded(active))
            /\ events' = events + Cardinality(Superseded(active))
            /\ \A p \in Players :
                 plan'[p] \in {plan[p],
                   [epoch |-> epoch[p], rev |-> NextRev(p), frames |-> Bindings(p),
                    groups |-> Proposal(p, active)]}
            /\ plan' = [p \in Players |-> plan'[p]]
            /\ UNCHANGED <<now, wallVars, feedback, edits>>
      BY <1>1 DEF Plan
    <2>2. groups' \in [Cues -> Seq(Cohorts)]
      BY <2>1, RegroupedIs DEF Table
    <2>3. plan' \in [Players -> Offers]
      BY <2>1, ProposalIs DEF Typed
    <2>4. commits' \subseteq Rows
      BY <2>1, RowOff DEF Withdrawn, Typed
    <2>5. events' \in Nat /\ upsets' \in Nat
      <3>1. events \in Nat /\ upsets \in Nat
        BY DEF Typed
      <3>2. Cardinality(Superseded(active)) \in Nat
        BY SupersededIs
      <3> QED BY <2>1, <3>1, <3>2 DEF Upset
    <2> QED BY <2>1, <2>2, <2>3, <2>4, <2>5 DEF Typed
  <1>2. CASE Settle
    <2>1. PICK active \in SUBSET Players :
            /\ CommitDue({}, commits, feedback, active) /\ Reaches(active)
            /\ UNCHANGED <<now, wallVars, plan, feedback, edits>>
      BY <1>2 DEF Settle
    <2>2. commits \in SUBSET Rows /\ feedback \in [Players -> Reports]
      BY DEF Typed
    <2>3. groups' \in [Cues -> Seq(Cohorts)] /\ events' \in Nat
      BY <2>1, <2>2, CommitGroups DEF SameCohorts, Table, PassGroups
    <2>4. commits' \subseteq Rows
      BY <2>1, <2>2, CommitRows
    <2> QED BY <2>1, <2>3, <2>4, ReachesIs DEF Typed
  <1>3. ASSUME NEW p \in Players, Heard(p) PROVE Typed'
    <2>1. PICK report \in Reports, active \in SUBSET Players : Reported(p, report, active)
      BY <1>3, ReportIs
    <2>2. /\ Left(p, report) \in SUBSET Rows /\ Dropped(p, report) \in SUBSET GroupIds
          /\ feedback' \in [Players -> Reports]
          /\ CommitDue(Dropped(p, report), Left(p, report), feedback', active)
      BY <2>1, LeftIs DEF Reported
    <2>3. groups' \in [Cues -> Seq(Cohorts)] /\ events' \in Nat
      BY <2>2, CommitGroups DEF SameCohorts, Table, PassGroups
    <2>4. commits' \subseteq Rows
      BY <2>2, CommitRows
    <2> QED BY <2>1, <2>2, <2>3, <2>4 DEF Typed, Reported
  <1>4. CASE EditTimeline
    BY <1>4 DEF EditTimeline, Edit, Typed
  <1>5. ASSUME NEW f \in Frames, Rebind(f) PROVE Typed'
    BY <1>5 DEF Rebind, Edit, Typed
  <1>6. ASSUME NEW p \in Players, Enroll(p) PROVE Typed'
    BY <1>6 DEF Enroll, Edit, Typed
  <1>7. ASSUME NEW f \in Frames, OutputLost(f) PROVE Typed'
    <2>1. LossOf(f) \in Players \X Nat \X Frames \X Nat
      BY <1>7 DEF OutputLost, LossOf, Typed
    <2>2. commits' \subseteq Rows
      BY <1>7, RowOff DEF OutputLost, Typed
    <2>3. losses' \subseteq Players \X Nat \X Frames \X Nat
      BY <1>7, <2>1 DEF OutputLost, Typed
    <2>4. /\ edits' \in Nat
          /\ UNCHANGED <<now, epoch, binding, timeline, groups, plan, feedback, events, upsets>>
      BY <1>7 DEF OutputLost, Edit, Typed
    <2> QED BY <2>2, <2>3, <2>4 DEF Typed
  <1>8. ASSUME NEW f \in Frames, OutputRecovers(f) PROVE Typed'
    BY <1>8 DEF OutputRecovers, Typed
  <1>9. CASE Tick
    BY <1>9 DEF Tick, Typed
  <1>10. CASE UNCHANGED vars
    BY <1>10 DEF vars, Typed
  <1> QED BY <1>1, <1>2, <1>3, <1>4, <1>5, <1>6, <1>7, <1>8, <1>9, <1>10 DEF AnyNext

-----------------------------------------------------------------------------
(* Offers and grants *)

LEMMA OffersStep == Typed /\ OffersOK /\ [AnyNext]_vars => OffersOK'
  <1> SUFFICES ASSUME Typed, OffersOK, [AnyNext]_vars, NEW p \in Players
               PROVE  /\ epoch'[p] >= 1 /\ plan'[p].epoch <= epoch'[p]
                      /\ plan'[p].rev = 0 => plan'[p].epoch = 0
    BY DEF OffersOK
  <1> USE DEF wallVars, coordVars
  <1>0. /\ epoch[p] \in Nat /\ plan[p].epoch \in Nat /\ plan[p].rev \in Nat
        /\ epoch[p] >= 1 /\ plan[p].epoch <= epoch[p]
        /\ plan[p].rev = 0 => plan[p].epoch = 0
    BY DEF Typed, Offers, OffersOK
  <1>1. CASE Plan
    <2>1. /\ epoch' = epoch
          /\ \/ plan'[p] = plan[p]
             \/ plan'[p].epoch = epoch[p] /\ plan'[p].rev = NextRev(p)
      BY <1>1 DEF Plan
    <2>2. NextRev(p) >= 1
      BY <1>0 DEF NextRev
    <2> QED BY <1>0, <2>1, <2>2
  <1>2. ASSUME NEW q \in Players, Enroll(q) PROVE plan' = plan /\ epoch'[p] >= epoch[p]
                                                  /\ epoch'[p] \in Nat
    BY <1>2 DEF Enroll, Typed
  <1>3. CASE UNCHANGED <<epoch, plan>>
    BY <1>0, <1>3
  <1>4. ASSUME NEW q \in Players, Heard(q) PROVE UNCHANGED <<epoch, plan>>
    BY <1>4 DEF Heard, Readiness
  <1> QED BY <1>0, <1>1, <1>2, <1>3, <1>4
          DEF AnyNext, vars, Settle, EditTimeline, Rebind, OutputLost, OutputRecovers, Tick

\* What a row was before the step: the same grant, and valid only if it was.
SameGrant(r, x) ==
  /\ r.player = x.player /\ r.epoch = x.epoch /\ r.rev = x.rev /\ r.a = x.a
  /\ r.group = x.group /\ r.seq = x.seq
  /\ r.valid => r = x

LEMMA OffIsSame ==
  ASSUME NEW x \in Rows
  PROVE  SameGrant([x EXCEPT !.valid = FALSE], x)
  BY RowOff DEF SameGrant

LEMMA IdsStay ==
  ASSUME Typed, groups' \in Table, \A c \in Cues : Len(groups'[c]) >= Len(groups[c])
  PROVE  \A g \in GroupIds : g \in GroupIds'
  <1> SUFFICES ASSUME NEW g \in GroupIds PROVE g \in GroupIds'
    OBVIOUS
  <1>1. g = <<g[1], g[2]>> /\ g[1] \in Cues /\ g[2] \in 1..Len(groups[g[1]])
        /\ Len(groups[g[1]]) \in Nat
    BY GroupIdForm
  <1>2. DOMAIN groups'[g[1]] = 1..Len(groups'[g[1]]) /\ Len(groups'[g[1]]) \in Nat
    BY <1>1 DEF Table
  <1>3. g[2] \in DOMAIN groups'[g[1]]
    BY <1>1, <1>2
  <1>4. g \in {g[1]} \X DOMAIN groups'[g[1]]
    BY <1>1, <1>3
  <1> QED BY <1>1, <1>4 DEF GroupIds

LEMMA IdsSame ==
  ASSUME Typed, groups' \in Table, \A c \in Cues : Len(groups'[c]) = Len(groups[c])
  PROVE  GroupIds' = GroupIds
  <1>1. \A c \in Cues : DOMAIN groups'[c] = DOMAIN groups[c]
    BY DEF Table, Typed
  <1> QED BY <1>1 DEF GroupIds

\* Grants of the offers a Player was given stay so when it is given another.
LEMMA OldGrants ==
  ASSUME Typed, OffersOK, GrantsOK, NEW r \in commits,
         \/ plan'[r.player] = plan[r.player]
         \/ /\ plan'[r.player].epoch = epoch[r.player]
            /\ plan'[r.player].rev = NextRev(r.player)
  PROVE  /\ r.epoch <= plan'[r.player].epoch
         /\ r.epoch = plan'[r.player].epoch =>
              /\ r.rev <= plan'[r.player].rev
              /\ r.rev = plan'[r.player].rev =>
                   /\ r.a \in DOMAIN plan'[r.player].groups
                   /\ plan'[r.player].groups[r.a] = r.group
  <1> DEFINE p == r.player
  <1>1. /\ p \in Players /\ r.epoch \in Nat /\ r.rev \in Nat /\ r.epoch >= 1
        /\ r.epoch <= plan[p].epoch
        /\ r.epoch = plan[p].epoch => r.rev <= plan[p].rev
    BY DEF Typed, Rows, GrantsOK
  <1>2. /\ plan[p].epoch \in Nat /\ plan[p].rev \in Nat /\ epoch[p] \in Nat
        /\ plan[p].epoch <= epoch[p]
        /\ plan[p].rev = 0 => plan[p].epoch = 0
    BY <1>1 DEF Typed, Offers, OffersOK
  <1>3. CASE plan'[p] = plan[p]
    BY <1>3 DEF GrantsOK, Layers
  <1>4. CASE plan'[p].epoch = epoch[p] /\ plan'[p].rev = NextRev(p)
    <2>1. CASE Offered(p)
      BY <1>1, <1>2, <1>4, <2>1 DEF Offered, NextRev
    <2>2. CASE ~Offered(p)
      BY <1>1, <1>2, <1>4, <2>2 DEF Offered, NextRev
    <2> QED BY <2>1, <2>2
  <1> QED BY <1>3, <1>4

-----------------------------------------------------------------------------
(* What the two passes keep *)

\* What a planning pass does.
Planned(active) ==
  /\ groups' = Regrouped(active)
  /\ commits' = Withdrawn(commits, Superseded(active))
  /\ events' = events + Cardinality(Superseded(active))
  /\ \A p \in Players :
       \/ plan'[p] = plan[p]
       \/ plan'[p].epoch = epoch[p] /\ plan'[p].rev = NextRev(p)
  /\ UNCHANGED <<now, wallVars, feedback>>

LEMMA PlanIs == Plan => \E active \in SUBSET Players : Planned(active)
  BY DEF Plan, Planned

\* A row after a pass that skips S.
LEMMA WithdrawnIs ==
  ASSUME NEW rows \in SUBSET Rows, NEW S, NEW r \in Withdrawn(rows, S)
  PROVE  \E x \in rows : SameGrant(r, x) /\ (r.valid => r.group \notin S)
  <1>1. PICK x \in rows : r = IF x.group \in S THEN [x EXCEPT !.valid = FALSE] ELSE x
    BY DEF Withdrawn
  <1>2. CASE x.group \in S
    BY <1>1, <1>2, OffIsSame, RowOff
  <1>3. CASE x.group \notin S
    BY <1>1, <1>3 DEF SameGrant
  <1> QED BY <1>2, <1>3

LEMMA PlanKeeps ==
  ASSUME Typed, OffersOK, Safe, NEW active \in SUBSET Players, Planned(active)
  PROVE  Safe'
  <1> DEFINE S == Superseded(active)
  <1>1. /\ groups' \in Table
        /\ \A c \in Cues :
             /\ Len(groups'[c]) =
                  IF Renewed(c, active) THEN Len(groups[c]) + 1 ELSE Len(groups[c])
             /\ \A n \in 1..Len(groups[c]) :
                  groups'[c][n].status =
                    IF <<c, n>> \in S THEN "skipped" ELSE groups[c][n].status
    BY RegroupedIs DEF Planned
  <1>2. \A c \in Cues : Len(groups[c]) \in Nat /\ Len(groups'[c]) >= Len(groups[c])
    BY <1>1, GroupIdForm
  <1>3. \A g \in GroupIds : g \in GroupIds'
    BY <1>1, <1>2, IdsStay
  <1>4. \A g \in GroupIds :
          Cohort(g)'.status = IF g \in S THEN "skipped" ELSE Cohort(g).status
    BY <1>1, GroupIdForm DEF Cohort
  <1>5. \A r \in commits' : \E x \in commits :
          SameGrant(r, x) /\ (r.valid => r.group \notin S)
    BY WithdrawnIs DEF Planned, Typed
  <1>6. GrantsOK'
    <2> SUFFICES ASSUME NEW r \in commits'
                 PROVE  /\ r.group \in GroupIds' /\ r.epoch >= 1
                        /\ r.epoch <= plan'[r.player].epoch
                        /\ r.epoch = plan'[r.player].epoch =>
                             /\ r.rev <= plan'[r.player].rev
                             /\ r.rev = plan'[r.player].rev =>
                                  /\ r.a \in DOMAIN plan'[r.player].groups
                                  /\ plan'[r.player].groups[r.a] = r.group
      BY DEF GrantsOK, Layers
    <2>1. PICK x \in commits : SameGrant(r, x)
      BY <1>5
    <2>2. x.group \in GroupIds /\ x.epoch >= 1 /\ x.player \in Players
      BY DEF Safe, GrantsOK, Typed, Rows
    <2>3. /\ x.epoch <= plan'[x.player].epoch
          /\ x.epoch = plan'[x.player].epoch =>
               /\ x.rev <= plan'[x.player].rev
               /\ x.rev = plan'[x.player].rev =>
                    /\ x.a \in DOMAIN plan'[x.player].groups
                    /\ plan'[x.player].groups[x.a] = x.group
      BY <2>2, OldGrants DEF Planned, Safe
    <2> QED BY <1>3, <2>1, <2>2, <2>3 DEF SameGrant
  <1>7. SkippedHoldsNoGrant'
    <2> SUFFICES ASSUME NEW r \in commits', r.valid PROVE Cohort(r.group)'.status # "skipped"
      BY DEF SkippedHoldsNoGrant, Cohort
    <2>1. r \in commits /\ r.group \notin S
      BY <1>5 DEF SameGrant
    <2> QED BY <1>4, <2>1 DEF Safe, GrantsOK, SkippedHoldsNoGrant
  <1>8. LastAlone'
    <2> SUFFICES ASSUME NEW g \in GroupIds', Future(g[1]), g[2] # Len(groups'[g[1]])
                 PROVE  Cohort(g)'.status = "skipped"
      BY DEF LastAlone, Future, Planned
    <2> DEFINE c == g[1]
    <2>1. c \in Cues /\ g[2] \in 1..Len(groups'[c]) /\ g = <<c, g[2]>>
      <3>1. PICK d \in Cues : \E n \in DOMAIN groups'[d] : g = <<d, n>>
        BY DEF GroupIds
      <3> QED BY <1>1, <3>1 DEF Table
    <2>2. g[2] \in 1..Len(groups[c])
      BY <1>1, <1>2, <2>1
    <2>3. g \in GroupIds
      BY <2>1, <2>2, GroupIdForm
    <2>4. CASE g[2] # Len(groups[c])
      BY <1>4, <2>3, <2>4 DEF Safe, LastAlone
    <2>5. CASE g[2] = Len(groups[c])
      <3>1. Renewed(c, active) /\ Known(c) /\ Previous(c) = Cohort(g)
        BY <1>1, <2>1, <2>2, <2>5 DEF Known, Previous, Cohort
      <3>2. CASE Rewritten(c, active)
        BY <1>4, <2>3, <2>5, <3>1, <3>2 DEF Rewritten, Superseded
      <3>3. CASE Moved(c, active) /\ Cohort(g).status = "skipped"
        BY <1>4, <2>3, <3>3
      <3>4. CASE Moved(c, active) /\ Cohort(g).status # "skipped"
        BY <1>4, <2>3, <2>5, <3>1, <3>4 DEF Rewritten, Superseded, Renewed
      <3> QED BY <3>1, <3>2, <3>3, <3>4 DEF Renewed
    <2> QED BY <2>4, <2>5
  <1> QED BY <1>6, <1>7, <1>8 DEF Safe

\* A row after a commit pass: one there was, or the grant of a cohort that is ready.
LEMMA RowsFrom ==
  ASSUME Typed, NEW dropped \in SUBSET GroupIds, NEW rows \in SUBSET Rows,
         NEW fb \in [Players -> Reports], NEW active \in SUBSET Players,
         CommitDue(dropped, rows, fb, active), NEW r \in commits'
  PROVE  \/ \E x \in rows :
              SameGrant(r, x) /\ (r.valid => r.group \notin SkipsOf(dropped, fb, active))
         \/ \E g \in ReadyOf(dropped, fb, active) : \E a \in Awaited(g) : r = Grant(g, a, fb)
  <1> DEFINE ready == ReadyOf(dropped, fb, active)
             skips == SkipsOf(dropped, fb, active)
             old   == OldOf(dropped, rows, fb, active)
             new   == NewOf(dropped, rows, fb, active)
  <1>1. r \in old \/ r \in new
    BY CommitRows
  <1>2. ASSUME r \in old PROVE \E x \in rows : SameGrant(r, x) /\ (r.valid => r.group \notin skips)
    BY <1>2, WithdrawnIs DEF OldOf
  <1>3. ASSUME r \in new PROVE \E g \in ready : \E a \in Awaited(g) : r = Grant(g, a, fb)
    BY <1>3 DEF NewOf
  <1> QED BY <1>1, <1>2, <1>3

\* Rows as the commits are, some of them withdrawn.
FromCommits(rows) ==
  \A r \in rows : r \in commits \/ \E x \in commits : r = [x EXCEPT !.valid = FALSE]

LEMMA PassKeeps ==
  ASSUME Typed, OffersOK, Safe, NEW dropped \in SUBSET GroupIds, NEW rows \in SUBSET Rows,
         NEW fb \in [Players -> Reports], NEW active \in SUBSET Players,
         CommitDue(dropped, rows, fb, active),
         FromCommits(rows), UNCHANGED <<now, wallVars, plan>>
  PROVE  Safe'
  <1> DEFINE ready == ReadyOf(dropped, fb, active)
             skips == SkipsOf(dropped, fb, active)
  <1>0. PassGroups(dropped, ready, skips)
    BY CommitGroups
  <1>b. ASSUME NEW r \in commits'
        PROVE  \/ \E x \in rows : SameGrant(r, x) /\ (r.valid => r.group \notin skips)
               \/ \E g \in ready : \E a \in Awaited(g) : r = Grant(g, a, fb)
    BY RowsFrom
  <1> HIDE DEF ready, skips
  <1>1. /\ groups' \in Table /\ \A c \in Cues : Len(groups'[c]) = Len(groups[c])
        /\ ready \subseteq GroupIds /\ ready \cap skips = {}
        /\ \A g \in ready : Cohort(g).status # "skipped"
    BY <1>0 DEF SameCohorts, PassGroups
  <1>2. \A g \in GroupIds :
          Cohort(g)'.status = IF g \in ready THEN "committed"
                              ELSE IF g \in skips THEN "skipped" ELSE Cohort(g).status
    BY <1>0, GroupIdForm DEF Cohort, PassGroups
  <1>3. GroupIds' = GroupIds
    BY <1>1, IdsSame
  <1>4. \A r \in rows : \E x \in commits : SameGrant(r, x)
    <2> SUFFICES ASSUME NEW r \in rows PROVE \E x \in commits : SameGrant(r, x)
      OBVIOUS
    <2>1. CASE r \in commits
      BY <2>1 DEF SameGrant
    <2>2. CASE \E x \in commits : r = [x EXCEPT !.valid = FALSE]
      BY <2>2, OffIsSame DEF Typed
    <2> QED BY <2>1, <2>2 DEF FromCommits
  <1>5. ASSUME NEW r \in commits'
        PROVE  \/ \E x \in commits : SameGrant(r, x) /\ (r.valid => r.group \notin skips)
               \/ \E g \in ready : \E a \in Awaited(g) : r = Grant(g, a, fb)
    <2>1. CASE \E g \in ready : \E a \in Awaited(g) : r = Grant(g, a, fb)
      BY <2>1
    <2>2. CASE \E x \in rows : SameGrant(r, x) /\ (r.valid => r.group \notin skips)
      <3>1. PICK y \in rows : SameGrant(r, y) /\ (r.valid => r.group \notin skips)
        BY <2>2
      <3>2. PICK x \in commits : SameGrant(y, x)
        BY <1>4
      <3>3. SameGrant(r, x)
        BY <3>1, <3>2 DEF SameGrant
      <3> QED BY <3>1, <3>3
    <2> QED BY <1>b, <2>1, <2>2
  <1>6. ASSUME NEW g \in ready, NEW a \in Awaited(g)
        PROVE  LET p == HolderOf(g, a)
                   r == Grant(g, a, fb)
               IN  /\ p \in Players /\ plan[p].epoch = epoch[p]
                   /\ a \in Layers(p) /\ plan[p].groups[a] = g
                   /\ r.player = p /\ r.epoch = epoch[p] /\ r.rev = plan[p].rev
                   /\ r.a = a /\ r.group = g
    BY GrantIs, <1>1 DEF ReadyOf, ready, Standing, Offered
  <1>7. GrantsOK'
    <2> SUFFICES ASSUME NEW r \in commits'
                 PROVE  /\ r.group \in GroupIds /\ r.epoch >= 1
                        /\ r.epoch <= plan[r.player].epoch
                        /\ r.epoch = plan[r.player].epoch =>
                             /\ r.rev <= plan[r.player].rev
                             /\ r.rev = plan[r.player].rev =>
                                  /\ r.a \in Layers(r.player)
                                  /\ plan[r.player].groups[r.a] = r.group
      BY <1>3 DEF GrantsOK, Layers
    <2>1. ASSUME NEW x \in commits, SameGrant(r, x)
          PROVE  /\ r.group \in GroupIds /\ r.epoch >= 1
                 /\ r.epoch <= plan[r.player].epoch
                 /\ r.epoch = plan[r.player].epoch =>
                      /\ r.rev <= plan[r.player].rev
                      /\ r.rev = plan[r.player].rev =>
                           /\ r.a \in Layers(r.player)
                           /\ plan[r.player].groups[r.a] = r.group
      BY <2>1 DEF Safe, GrantsOK, SameGrant
    <2>2. ASSUME NEW g \in ready, NEW a \in Awaited(g), r = Grant(g, a, fb)
          PROVE  /\ r.group \in GroupIds /\ r.epoch >= 1
                 /\ r.epoch <= plan[r.player].epoch
                 /\ r.epoch = plan[r.player].epoch =>
                      /\ r.rev <= plan[r.player].rev
                      /\ r.rev = plan[r.player].rev =>
                           /\ r.a \in Layers(r.player)
                           /\ plan[r.player].groups[r.a] = r.group
      <3>1. epoch[r.player] >= 1 /\ epoch[r.player] \in Nat /\ plan[r.player].rev \in Nat
        BY <1>6, <2>2 DEF OffersOK, Typed, Offers
      <3> QED BY <1>1, <1>6, <2>2, <3>1
    <2> QED BY <1>5, <2>1, <2>2
  <1>8. SkippedHoldsNoGrant'
    <2> SUFFICES ASSUME NEW r \in commits', r.valid PROVE Cohort(r.group)'.status # "skipped"
      BY DEF SkippedHoldsNoGrant, Cohort
    <2>1. CASE \E x \in commits : SameGrant(r, x) /\ (r.valid => r.group \notin skips)
      BY <1>2, <2>1 DEF Safe, GrantsOK, SkippedHoldsNoGrant, SameGrant
    <2>2. CASE \E g \in ready : \E a \in Awaited(g) : r = Grant(g, a, fb)
      BY <1>1, <1>2, <1>6, <2>2
    <2> QED BY <1>5, <2>1, <2>2
  <1>9. LastAlone'
    <2> SUFFICES ASSUME NEW g \in GroupIds, Future(g[1]), g[2] # Len(groups[g[1]])
                 PROVE  Cohort(g)'.status = "skipped"
      BY <1>1, <1>3, GroupIdForm DEF LastAlone, Future
    <2>1. Cohort(g).status = "skipped"
      BY DEF Safe, LastAlone
    <2> QED BY <1>1, <1>2, <2>1
  <1> QED BY <1>7, <1>8, <1>9 DEF Safe

-----------------------------------------------------------------------------
(* The invariant *)

LEMMA SafeStep == Typed /\ OffersOK /\ Safe /\ [AnyNext]_vars => Safe'
  <1> SUFFICES ASSUME Typed, OffersOK, Safe, [AnyNext]_vars PROVE Safe'
    OBVIOUS
  <1> USE DEF wallVars, coordVars
  <1>1. CASE Plan
    <2>1. PICK active \in SUBSET Players : Planned(active)
      BY <1>1, PlanIs
    <2> QED BY <2>1, PlanKeeps
  <1>2. CASE Settle
    <2>1. PICK active \in SUBSET Players :
            /\ CommitDue({}, commits, feedback, active)
            /\ UNCHANGED <<now, wallVars, plan>>
      BY <1>2 DEF Settle
    <2>2. commits \in SUBSET Rows /\ feedback \in [Players -> Reports] /\ FromCommits(commits)
      BY DEF Typed, FromCommits
    <2> QED BY <2>1, <2>2, PassKeeps
  <1>3. ASSUME NEW p \in Players, Heard(p) PROVE Safe'
    <2>1. PICK report \in Reports, active \in SUBSET Players : Reported(p, report, active)
      BY <1>3, ReportIs
    <2>2. /\ Left(p, report) \in SUBSET Rows /\ Dropped(p, report) \in SUBSET GroupIds
          /\ feedback' \in [Players -> Reports] /\ FromCommits(Left(p, report))
          /\ CommitDue(Dropped(p, report), Left(p, report), feedback', active)
          /\ UNCHANGED <<now, wallVars, plan>>
      BY <2>1, LeftIs DEF Reported, Safe, FromCommits
    <2> QED BY <2>2, PassKeeps
  <1>4. ASSUME UNCHANGED <<groups, plan, commits>>, now' \in Nat, now' >= now PROVE Safe'
    <2>1. \A g \in GroupIds : Future(g[1])' => Future(g[1])
      <3>1. \A g \in GroupIds : Start[g[1]] \in Nat
        BY GroupIdForm, TimeAssumption
      <3>2. now \in Nat
        BY DEF Typed
      <3> QED BY <1>4, <3>1, <3>2 DEF Future
    <2>2. GrantsOK' /\ SkippedHoldsNoGrant'
      BY <1>4 DEF Safe, GrantsOK, SkippedHoldsNoGrant, GroupIds, Layers, Cohort
    <2>3. LastAlone'
      BY <1>4, <2>1 DEF Safe, LastAlone, GroupIds, Cohort
    <2> QED BY <2>2, <2>3 DEF Safe
  <1>5. ASSUME NEW f \in Frames, OutputLost(f) PROVE Safe'
    <2>1. UNCHANGED <<now, groups, plan>>
      BY <1>5 DEF OutputLost
    <2>2. ASSUME NEW r \in commits' PROVE \E x \in commits : SameGrant(r, x)
      <3>1. PICK x \in commits : r = x \/ r = [x EXCEPT !.valid = FALSE]
        BY <1>5 DEF OutputLost
      <3>2. x \in Rows
        BY DEF Typed
      <3> QED BY <3>1, <3>2, OffIsSame DEF SameGrant
    <2>3. GrantsOK'
      BY <2>1, <2>2 DEF Safe, GrantsOK, GroupIds, Layers, SameGrant
    <2>4. SkippedHoldsNoGrant'
      BY <2>1, <2>2 DEF Safe, SkippedHoldsNoGrant, Cohort, SameGrant
    <2>5. LastAlone'
      BY <2>1 DEF Safe, LastAlone, GroupIds, Cohort, Future
    <2> QED BY <2>3, <2>4, <2>5 DEF Safe
  <1>6. now \in Nat
    BY DEF Typed
  <1>7. CASE EditTimeline \/ UNCHANGED vars
    BY <1>4, <1>6, <1>7 DEF EditTimeline, vars
  <1>8. ASSUME NEW f \in Frames, Rebind(f) \/ OutputRecovers(f) PROVE Safe'
    BY <1>4, <1>6, <1>8 DEF Rebind, OutputRecovers
  <1>9. ASSUME NEW p \in Players, Enroll(p) PROVE Safe'
    BY <1>4, <1>6, <1>9 DEF Enroll
  <1>10. CASE Tick
    BY <1>4, <1>6, <1>10 DEF Tick
  <1> QED BY <1>1, <1>2, <1>3, <1>5, <1>7, <1>8, <1>9, <1>10 DEF AnyNext

LEMMA InitInv == Init => Inv
  <1> SUFFICES ASSUME Init PROVE Inv
    OBVIOUS
  <1>1. OffersOK
    BY DEF Init, Empty, OffersOK, NoPlan
  <1>2. GroupIds = {} /\ commits = {}
    BY DEF Init, Empty, GroupIds
  <1> QED BY <1>1, <1>2, InitTyped DEF Inv, Safe, GrantsOK, SkippedHoldsNoGrant, LastAlone

LEMMA InvStep == Inv /\ [AnyNext]_vars => Inv'
  BY TypedStep, OffersStep, SafeStep DEF Inv, Safe

LEMMA Invariance == Spec => []Inv
  <1>1. Inv /\ [Next]_vars => Inv'
    BY NextIsAny, InvStep DEF Inv
  <1> QED BY <1>1, InitInv, PTL DEF Spec

\* Every table of the Coordinator holds what its rows can hold (TypeOK), whatever is
\* planned, reported, edited, lost and skipped.
THEOREM TablesTyped == Spec => []TypeOK
  <1>1. Inv => TypeOK
    BY TypedIsTypeOK DEF Inv
  <1> QED BY <1>1, Invariance, PTL

\* A skipped cohort holds no grant that counts (SkippedHoldsNoGrant): no State of any
\* Player both grants and revokes a showing.
THEOREM SkipRevokes == Spec => []SkippedHoldsNoGrant
  BY Invariance, PTL DEF Inv, Safe

\* What a Player is delivered as a grant names the cohort its plan names for that showing
\* (GrantMatchesOffer), however its offers were renewed and its epochs replaced.
THEOREM GrantsMatch == Spec => []GrantMatchesOffer
  <1>1. Inv => GrantMatchesOffer
    BY DEF Inv, Safe, GrantsOK, GrantMatchesOffer, DeliveredGrants, Standing, Offered
  <1> QED BY <1>1, Invariance, PTL

\* A coming cue has one cohort at most that may still play (OneForecast), after any
\* number of edits, skips and plannings.
THEOREM OneCohortToPlay == Spec => []OneForecast
  <1>1. Inv => OneForecast
    <2> SUFFICES ASSUME Inv, NEW g \in GroupIds, NEW h \in GroupIds, g[1] = h[1],
                        Future(g[1]), Cohort(g).status # "skipped",
                        Cohort(h).status # "skipped"
                 PROVE  g = h
      BY DEF OneForecast
    <2>1. g[2] = Len(groups[g[1]]) /\ h[2] = Len(groups[g[1]])
      BY DEF Inv, Safe, LastAlone
    <2>2. g = <<g[1], g[2]>> /\ h = <<h[1], h[2]>>
      BY GroupIdForm DEF Inv
    <2> QED BY <2>1, <2>2
  <1> QED BY <1>1, Invariance, PTL

-----------------------------------------------------------------------------
(* Cohorts commit together *)

Together ==
  \A g \in GroupIds :
    Cohort(g).status # "committed" /\ Cohort(g)'.status = "committed" =>
      \A a \in DOMAIN Cohort(g).members :
        \E r \in DeliveredGrants(Cohort(g).members[a].player)' : r.a = a /\ r.group = g

\* Two grants of one showing by one pass are the same: both name the offer's cohort.
LEMMA OneGrant ==
  ASSUME Typed, NEW fb \in [Players -> Reports], NEW active \in SUBSET Players,
         NEW g \in GroupIds, Ready(g, fb, active), NEW a \in Awaited(g),
         NEW h \in GroupIds, Ready(h, fb, active), NEW b \in Awaited(h),
         Key(Grant(g, a, fb)) = Key(Grant(h, b, fb))
  PROVE  Grant(g, a, fb).group = Grant(h, b, fb).group
  <1>1. a = b /\ HolderOf(g, a) = HolderOf(h, b)
    BY GrantIs DEF Key
  <1> QED BY <1>1, GrantIs

\* The pass that commits a cohort leaves every member with a grant.
LEMMA PassGrants ==
  ASSUME Typed, NEW dropped \in SUBSET GroupIds, NEW rows \in SUBSET Rows,
         NEW fb \in [Players -> Reports], NEW active \in SUBSET Players,
         CommitDue(dropped, rows, fb, active),
         NEW g \in ReadyOf(dropped, fb, active), NEW a \in Awaited(g)
  PROVE  \E r \in commits' :
           /\ r.valid /\ Key(r) = Key(Grant(g, a, fb)) /\ r.group = g
  <1> DEFINE old == OldOf(dropped, rows, fb, active)
             new == NewOf(dropped, rows, fb, active)
             h   == Grant(g, a, fb)
  <1>1. commits' = {r \in old : \A n \in new : Key(n) # Key(r)} \cup new
    BY CommitRows
  <1>2. g \in GroupIds /\ Ready(g, fb, active)
    BY DEF ReadyOf, Due
  <1>3. h.valid /\ h.group = g
    BY DEF Grant
  <1>4. CASE ~Held(old, h)
    <2>1. h \in new
      BY <1>4 DEF NewOf
    <2> QED BY <1>1, <1>3, <2>1
  <1>5. CASE Held(old, h)
    <2>1. PICK x \in old : x.valid /\ x.group = g /\ Key(x) = Key(h)
      BY <1>3, <1>5 DEF Held, Key
    <2>2. ASSUME NEW n \in new, Key(n) = Key(x) PROVE FALSE
      <3>1. PICK k \in ReadyOf(dropped, fb, active) : \E b \in Awaited(k) : n = Grant(k, b, fb)
        BY DEF NewOf
      <3>2. PICK b \in Awaited(k) : n = Grant(k, b, fb)
        BY <3>1
      <3>3. k \in GroupIds /\ Ready(k, fb, active)
        BY DEF ReadyOf, Due
      <3>4. Grant(k, b, fb).group = h.group
        BY <1>2, <2>1, <2>2, <3>2, <3>3, OneGrant
      <3>5. Held(old, n)
        BY <1>3, <2>1, <2>2, <3>2, <3>4 DEF Held, Key
      <3> QED BY <3>5 DEF NewOf
    <2>3. x \in commits'
      BY <1>1, <2>2
    <2> QED BY <2>1, <2>3
  <1> QED BY <1>4, <1>5

LEMMA PassTogether ==
  ASSUME Typed, NEW dropped \in SUBSET GroupIds, NEW rows \in SUBSET Rows,
         NEW fb \in [Players -> Reports], NEW active \in SUBSET Players,
         CommitDue(dropped, rows, fb, active), UNCHANGED <<now, wallVars, plan>>
  PROVE  Together
  <1> DEFINE ready == ReadyOf(dropped, fb, active)
             skips == SkipsOf(dropped, fb, active)
  <1> SUFFICES ASSUME NEW g \in GroupIds, Cohort(g).status # "committed",
                      Cohort(g)'.status = "committed", NEW a \in DOMAIN Cohort(g).members
               PROVE  \E r \in DeliveredGrants(Cohort(g).members[a].player)' :
                        r.a = a /\ r.group = g
    BY DEF Together
  <1>1. PassGroups(dropped, ready, skips)
    BY CommitGroups
  <1> HIDE DEF skips
  <1>2. g \in ready /\ Cohort(g)'.members = Cohort(g).members
    BY <1>1, GroupIdForm DEF PassGroups, SameCohorts, Cohort
  <1>3. a \in Awaited(g) /\ Ready(g, fb, active)
    BY <1>2 DEF Awaited, ReadyOf
  <1>4. PICK p \in Players :
          /\ p = Cohort(g).members[a].player /\ Standing(p)
          /\ Key(Grant(g, a, fb)) = <<p, epoch[p], plan[p].rev, a>>
    BY <1>3, GrantIs DEF Key, HolderOf
  <1>5. PICK r \in commits' : r.valid /\ Key(r) = Key(Grant(g, a, fb)) /\ r.group = g
    BY <1>2, <1>3, PassGrants
  <1>6. /\ r.player = p /\ r.epoch = epoch[p] /\ r.rev = plan[p].rev /\ r.a = a
    BY <1>4, <1>5 DEF Key
  <1>7. UNCHANGED <<epoch, binding, plan>>
    BY DEF wallVars
  <1>8. Standing(p)' = Standing(p)
    BY <1>7 DEF Standing, Offered, Bindings
  <1>9. r \in DeliveredGrants(p)'
    BY <1>4, <1>5, <1>6, <1>7, <1>8 DEF DeliveredGrants
  <1>10. (Cohort(g).members[a].player)' = p
    BY <1>2, <1>4
  <1>11. DeliveredGrants(Cohort(g).members[a].player)' = DeliveredGrants(p)'
    BY <1>10 DEF DeliveredGrants, Standing, Offered, Bindings
  <1> QED BY <1>5, <1>6, <1>9, <1>11

\* A pass of either kind is the only step that changes a cohort or counts a skip.
LEMMA OnlyPasses ==
  ASSUME Inv, [AnyNext]_vars
  PROVE  \/ \E active \in SUBSET Players : Planned(active)
         \/ \E dropped \in SUBSET GroupIds, rows \in SUBSET Rows,
               fb \in [Players -> Reports], active \in SUBSET Players :
              /\ CommitDue(dropped, rows, fb, active) /\ UNCHANGED <<now, wallVars, plan>>
              /\ \A g \in dropped : Future(g[1]) /\ Cohort(g).status # "skipped"
         \/ UNCHANGED <<groups, events>>
  <1> USE DEF coordVars
  <1>1. CASE Plan
    BY <1>1, PlanIs
  <1>2. CASE Settle
    <2>1. PICK active \in SUBSET Players :
            CommitDue({}, commits, feedback, active) /\ UNCHANGED <<now, wallVars, plan>>
      BY <1>2 DEF Settle
    <2>2. /\ {} \in SUBSET GroupIds /\ commits \in SUBSET Rows
          /\ feedback \in [Players -> Reports]
      BY DEF Inv, Typed
    <2> QED BY <2>1, <2>2
  <1>3. ASSUME NEW p \in Players, Heard(p)
        PROVE  \E dropped \in SUBSET GroupIds, rows \in SUBSET Rows,
                  fb \in [Players -> Reports], active \in SUBSET Players :
                 /\ CommitDue(dropped, rows, fb, active) /\ UNCHANGED <<now, wallVars, plan>>
                 /\ \A g \in dropped : Future(g[1]) /\ Cohort(g).status # "skipped"
    <2>1. PICK report \in Reports, active \in SUBSET Players : Reported(p, report, active)
      BY <1>3, ReportIs DEF Inv
    <2> DEFINE fb == [feedback EXCEPT ![p] = report]
    <2>2. /\ Left(p, report) \in SUBSET Rows /\ Dropped(p, report) \in SUBSET GroupIds
          /\ fb \in [Players -> Reports]
      BY LeftIs DEF Inv, Safe
    <2>3. /\ CommitDue(Dropped(p, report), Left(p, report), fb, active)
          /\ UNCHANGED <<now, wallVars, plan>>
      BY <2>1 DEF Reported
    <2>4. \A g \in Dropped(p, report) : Future(g[1]) /\ Cohort(g).status # "skipped"
      BY DEF Dropped, Forecast
    <2> HIDE DEF fb
    <2> QED BY <2>2, <2>3, <2>4
  <1>4. CASE UNCHANGED <<groups, events>>
    BY <1>4
  <1> QED BY <1>1, <1>2, <1>3, <1>4 DEF AnyNext, vars, EditTimeline, Rebind, OutputLost,
             OutputRecovers, Enroll, Tick

\* A cohort commits all or nothing (CommitsTogether): the step that commits it leaves every
\* member with a grant of its own Player's current plan, renewals and reports in between.
THEOREM CommitTogether == Spec => CommitsTogether
  <1>1. Inv /\ [AnyNext]_vars => Together
    <2> SUFFICES ASSUME Inv, [AnyNext]_vars PROVE Together
      OBVIOUS
    <2>1. ASSUME NEW active \in SUBSET Players, Planned(active) PROVE Together
      <3>1. \A g \in GroupIds : Cohort(g)'.status \in {"skipped", Cohort(g).status}
        BY <2>1, RegroupedIs, GroupIdForm DEF Inv, Planned, Cohort
      <3> QED BY <3>1 DEF Together
    <2>2. CASE UNCHANGED groups
      BY <2>2 DEF Together, Cohort
    <2> QED BY <2>1, <2>2, OnlyPasses, PassTogether DEF Inv
  <1>2. Inv /\ [Next]_vars =>
          [\A g \in GroupIds :
             Cohort(g).status # "committed" /\ Cohort(g)'.status = "committed" =>
               \A a \in DOMAIN Cohort(g).members :
                 \E r \in DeliveredGrants(Cohort(g).members[a].player)' :
                   r.a = a /\ r.group = g]_vars
    BY <1>1, NextIsAny DEF Together, Inv
  <1> QED BY <1>2, Invariance, PTL DEF Spec, CommitsTogether

-----------------------------------------------------------------------------
(* What started plays on *)

Stays ==
  \A g \in GroupIds :
    Cohort(g).status = "committed" /\ ~Future(g[1]) /\ Cohort(g)'.status = "skipped"
      => \E a \in timeline : CueOf(a) = g[1] /\ a \notin DOMAIN Cohort(g).members

\* A cohort that started committed is skipped only when its cue would grow
\* (StartedStays; execution-contract.md, "A started cue is immutable").
THEOREM StartedPlaysOn == Spec => StartedStays
  <1>1. Inv /\ [AnyNext]_vars => Stays
    <2> SUFFICES ASSUME Inv, [AnyNext]_vars, NEW g \in GroupIds, Cohort(g).status = "committed",
                        ~Future(g[1]), Cohort(g)'.status = "skipped"
                 PROVE  \E a \in timeline : CueOf(a) = g[1] /\ a \notin DOMAIN Cohort(g).members
      BY DEF Stays
    <2>1. ASSUME NEW active \in SUBSET Players, Planned(active)
          PROVE  \E a \in timeline : CueOf(a) = g[1] /\ a \notin DOMAIN Cohort(g).members
      <3>1. g \in Superseded(active)
        BY <2>1, RegroupedIs, GroupIdForm DEF Inv, Planned, Cohort
      <3>2. g[2] = Len(groups[g[1]]) /\ Grows(g[1], active)
        BY <3>1 DEF Superseded, Orphans, Rewritten
      <3>3. Previous(g[1]) = Cohort(g)
        BY <3>2 DEF Previous, Cohort
      <3>4. DOMAIN Members(g[1], active) = {a \in Placed : CueOf(a) = g[1]}
        BY DEF Members
      <3>5. Placed \subseteq timeline
        BY DEF Placed
      <3> QED BY <3>2, <3>3, <3>4, <3>5 DEF Grows
    <2>2. ASSUME NEW dropped \in SUBSET GroupIds, NEW rows \in SUBSET Rows,
                 NEW fb \in [Players -> Reports], NEW active \in SUBSET Players,
                 CommitDue(dropped, rows, fb, active), \A h \in dropped : Future(h[1])
          PROVE  FALSE
      <3> DEFINE ready == ReadyOf(dropped, fb, active)
                 skips == SkipsOf(dropped, fb, active)
      <3>1. PassGroups(dropped, ready, skips)
        BY <2>2, CommitGroups DEF Inv
      <3> HIDE DEF ready, skips
      <3>2. g \in skips
        BY <3>1, GroupIdForm DEF PassGroups, Cohort, Inv
      <3> QED BY <2>2, <3>1, <3>2 DEF PassGroups
    <2>3. CASE UNCHANGED groups
      BY <2>3 DEF Cohort
    <2> QED BY <2>1, <2>2, <2>3, OnlyPasses
  <1>2. Inv /\ [Next]_vars =>
          [\A g \in GroupIds :
             Cohort(g).status = "committed" /\ ~Future(g[1]) /\ Cohort(g)'.status = "skipped"
               => \E a \in timeline : CueOf(a) = g[1] /\ a \notin DOMAIN Cohort(g).members]_vars
    BY <1>1, NextIsAny DEF Stays, Inv
  <1> QED BY <1>2, Invariance, PTL DEF Spec, StartedStays

-----------------------------------------------------------------------------
(* A grant the Player holds stands *)

Off(r) == [r EXCEPT !.valid = FALSE]
Stands(r) == r \in commits' \/ Off(r) \in commits'

\* A pass that grants a showing again grants it under the cohort its plan names, of
\* a report that has it prepared.
LEMMA NewIs ==
  ASSUME Typed, NEW dropped \in SUBSET GroupIds, NEW rows \in SUBSET Rows,
         NEW fb \in [Players -> Reports], NEW active \in SUBSET Players,
         NEW n \in NewOf(dropped, rows, fb, active)
  PROVE  /\ n.group \in ReadyOf(dropped, fb, active) /\ n.player \in Players
         /\ n.epoch = plan[n.player].epoch /\ n.rev = plan[n.player].rev
         /\ plan[n.player].groups[n.a] = n.group /\ n.a \in fb[n.player].prepared
         /\ ~Held(OldOf(dropped, rows, fb, active), n)
  <1>1. PICK g \in ReadyOf(dropped, fb, active) : \E a \in Awaited(g) : n = Grant(g, a, fb)
    BY DEF NewOf
  <1>2. PICK a \in Awaited(g) : n = Grant(g, a, fb)
    BY <1>1
  <1>3. g \in GroupIds /\ Ready(g, fb, active)
    BY DEF ReadyOf, Due
  <1>4. ~Held(OldOf(dropped, rows, fb, active), n)
    BY DEF NewOf
  <1>5. PICK p \in Players :
          /\ p = n.player /\ Standing(p) /\ plan[p].groups[a] = g /\ a \in fb[p].prepared
          /\ n.epoch = epoch[p] /\ n.rev = plan[p].rev /\ n.a = a /\ n.group = g
    BY <1>2, <1>3, GrantIs
  <1>6. plan[p].epoch = epoch[p]
    BY <1>5 DEF Standing, Offered
  <1> QED BY <1>4, <1>5, <1>6

\* A row the pass finds stays, valid or not, unless it grants that showing again.
LEMMA RowStays ==
  ASSUME Typed, NEW dropped \in SUBSET GroupIds, NEW rows \in SUBSET Rows,
         NEW fb \in [Players -> Reports], NEW active \in SUBSET Players,
         CommitDue(dropped, rows, fb, active), NEW r \in rows
  PROVE  \/ r.group \notin SkipsOf(dropped, fb, active) /\ r \in commits'
         \/ r.group \in SkipsOf(dropped, fb, active) /\ Off(r) \in commits'
         \/ \E n \in NewOf(dropped, rows, fb, active) :
              /\ Key(n) = Key(r)
              /\ r.group \notin SkipsOf(dropped, fb, active)
                   => r \in OldOf(dropped, rows, fb, active)
  <1>1. commits' = {x \in OldOf(dropped, rows, fb, active) :
                      \A n \in NewOf(dropped, rows, fb, active) : Key(n) # Key(x)}
                     \cup NewOf(dropped, rows, fb, active)
    BY CommitRows
  <1>2. Key(Off(r)) = Key(r)
    BY RowOff DEF Off, Key
  <1>3. CASE r.group \in SkipsOf(dropped, fb, active)
    <2>1. Off(r) \in OldOf(dropped, rows, fb, active)
      BY <1>3 DEF OldOf, Withdrawn, Off
    <2> QED BY <1>1, <1>2, <1>3, <2>1
  <1>4. CASE r.group \notin SkipsOf(dropped, fb, active)
    <2>1. r \in OldOf(dropped, rows, fb, active)
      BY <1>4 DEF OldOf, Withdrawn
    <2> QED BY <1>1, <1>4, <2>1
  <1> QED BY <1>3, <1>4

LEMMA PassStands ==
  ASSUME Typed, GrantsOK, NEW dropped \in SUBSET GroupIds, NEW rows \in SUBSET Rows,
         NEW fb \in [Players -> Reports], NEW active \in SUBSET Players,
         CommitDue(dropped, rows, fb, active),
         NEW r \in commits, r \in rows, r.valid
  PROVE  Stands(r)
  <1>1. ASSUME NEW n \in NewOf(dropped, rows, fb, active), Key(n) = Key(r),
               r.group \notin SkipsOf(dropped, fb, active)
                 => r \in OldOf(dropped, rows, fb, active)
        PROVE  FALSE
    <2>1. /\ n.group \in ReadyOf(dropped, fb, active)
          /\ n.epoch = plan[n.player].epoch /\ n.rev = plan[n.player].rev
          /\ plan[n.player].groups[n.a] = n.group
          /\ ~Held(OldOf(dropped, rows, fb, active), n)
      BY NewIs
    <2>2. n.player = r.player /\ n.epoch = r.epoch /\ n.rev = r.rev /\ n.a = r.a
      BY <1>1 DEF Key
    <2>3. r.group = n.group
      BY <2>1, <2>2 DEF GrantsOK
    <2>4. CASE r.group \in SkipsOf(dropped, fb, active)
      <3>1. ReadyOf(dropped, fb, active) \cap SkipsOf(dropped, fb, active) = {}
        BY CommitGroups DEF PassGroups
      <3> QED BY <2>1, <2>3, <2>4, <3>1
    <2>5. CASE r \in OldOf(dropped, rows, fb, active)
      BY <2>1, <2>2, <2>3, <2>5 DEF Held
    <2> QED BY <1>1, <2>4, <2>5
  <1>2. \/ r \in commits'
        \/ Off(r) \in commits'
        \/ \E n \in NewOf(dropped, rows, fb, active) :
             /\ Key(n) = Key(r)
             /\ r.group \notin SkipsOf(dropped, fb, active)
                  => r \in OldOf(dropped, rows, fb, active)
    BY RowStays
  <1> QED BY <1>1, <1>2 DEF Stands

\* What the report says it cannot play is withdrawn, and not granted again by its pass.
LEMMA GoneStands ==
  ASSUME Typed, NEW dropped \in SUBSET GroupIds, NEW rows \in SUBSET Rows,
         NEW fb \in [Players -> Reports], NEW active \in SUBSET Players,
         CommitDue(dropped, rows, fb, active),
         NEW r \in commits, Off(r) \in rows, r.a \notin fb[r.player].prepared
  PROVE  Stands(r)
  <1>1. r \in Rows
    BY DEF Typed
  <1>2. /\ Key(Off(r)) = Key(r) /\ Off(Off(r)) = Off(r)
    BY <1>1, RowOff DEF Off, Key
  <1>3. ASSUME NEW n \in NewOf(dropped, rows, fb, active), Key(n) = Key(Off(r))
        PROVE  FALSE
    <2>1. n.a \in fb[n.player].prepared
      BY NewIs
    <2> QED BY <1>2, <1>3, <2>1 DEF Key
  <1>4. PICK x \in rows : x = Off(r)
    OBVIOUS
  <1>5. \/ x \in commits'
        \/ Off(x) \in commits'
        \/ \E n \in NewOf(dropped, rows, fb, active) : Key(n) = Key(x)
    BY RowStays
  <1>6. x \in commits' \/ Off(x) \in commits'
    BY <1>3, <1>4, <1>5
  <1> QED BY <1>2, <1>4, <1>6 DEF Stands

\* A row the Player holds changes only when its report says it was lost (HeldGrantStands):
\* no pass, edit or late report rewrites the sequence or the cohort of a valid grant.
THEOREM GrantStands == Spec => HeldGrantStands
  <1> DEFINE Kept(r) == Stands(r) \/ <<r.a, r.seq>> \in feedback'[r.player].lost
  <1>1. Inv /\ [AnyNext]_vars => \A r \in commits : r.valid => Kept(r)
    <2> SUFFICES ASSUME Inv, [AnyNext]_vars, NEW r \in commits, r.valid PROVE Kept(r)
      OBVIOUS
    <2>0. Typed /\ GrantsOK /\ r \in Rows
      BY DEF Inv, Safe, Typed
    <2>1. CASE Plan
      <3>1. PICK active \in SUBSET Players : Planned(active)
        BY <2>1, PlanIs
      <3> QED BY <3>1 DEF Planned, Withdrawn, Stands, Off
    <2>2. CASE Settle
      <3>1. PICK active \in SUBSET Players : CommitDue({}, commits, feedback, active)
        BY <2>2 DEF Settle
      <3>2. commits \in SUBSET Rows /\ feedback \in [Players -> Reports]
        BY <2>0 DEF Typed
      <3> QED BY <2>0, <3>1, <3>2, PassStands
    <2>3. ASSUME NEW p \in Players, Heard(p) PROVE Kept(r)
      <3>1. PICK report \in Reports, active \in SUBSET Players : Reported(p, report, active)
        BY <2>0, <2>3, ReportIs
      <3>2. PICK fb \in [Players -> Reports] : fb = [feedback EXCEPT ![p] = report]
        BY <2>0 DEF Typed
      <3>3. /\ Left(p, report) \in SUBSET Rows /\ Dropped(p, report) \in SUBSET GroupIds
        BY <2>0, LeftIs
      <3>4. /\ CommitDue(Dropped(p, report), Left(p, report), fb, active)
            /\ fb[p] = report /\ feedback' = fb
        BY <2>0, <3>1, <3>2 DEF Reported, Typed
      <3>5. CASE r \in LostNow(p, report)
        BY <3>4, <3>5 DEF LostNow, LostRows
      <3>6. CASE r \in Gone(p, report)
        <4>1. r.player = p /\ r.a \notin report.prepared
          BY <3>6 DEF Gone, Unprepared
        <4>2. Off(r) \in Left(p, report)
          BY <3>6 DEF Left, Off
        <4> QED BY <2>0, <3>3, <3>4, <4>1, <4>2, GoneStands
      <3>7. CASE r \notin Gone(p, report) \cup LostNow(p, report)
        <4>1. r \in Left(p, report)
          BY <3>7 DEF Left
        <4> QED BY <2>0, <3>3, <3>4, <4>1, PassStands
      <3> QED BY <3>5, <3>6, <3>7
    <2>4. ASSUME NEW f \in Frames, OutputLost(f) PROVE Kept(r)
      BY <2>4 DEF OutputLost, Stands, Off
    <2>5. CASE UNCHANGED commits
      BY <2>5 DEF Stands
    <2> QED BY <2>1, <2>2, <2>3, <2>4, <2>5
            DEF AnyNext, vars, coordVars, EditTimeline, Rebind, OutputRecovers, Enroll, Tick
  <1>2. Inv /\ [Next]_vars =>
          [\A r \in commits : r.valid =>
             \/ r \in commits'
             \/ [r EXCEPT !.valid = FALSE] \in commits'
             \/ <<r.a, r.seq>> \in feedback[r.player].lost']_vars
    BY <1>1, NextIsAny DEF Stands, Off, Inv
  <1> QED BY <1>2, Invariance, PTL DEF Spec, HeldGrantStands

=============================================================================
