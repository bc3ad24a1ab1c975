------------------------ MODULE GrantProtocolProofs ------------------------
(***************************************************************************)
(* What a Player holds and plays, proved of Central and the Player         *)
(* composed, for any wall, timelines, clocks, reports and hitches.         *)
(*                                                                         *)
(* Coordination's own invariant (CoordinationProofs) holds of Central in   *)
(* the composition too, whose steps are Coordination's with reports that   *)
(* come from the Player.  ProtocolInv adds what ties the two together.     *)
(* The keys of the grants are never taken back (KeysStay), so what a State *)
(* grants, and what the Player took from one, stays backed by them         *)
(* (WireBacked, Backed).  The Player, the State and the plan are of epochs *)
(* and revisions in that order (Follows, WireFollows).  Skips are numbered *)
(* upwards (SkipsNumbered, SkipsGoOn), so that a State revokes a skipped   *)
(* cohort or is older than its skip (WireRevokes), and a showing the       *)
(* Player took the revocation of stays off (StaysOff).                     *)
(***************************************************************************)
EXTENDS GrantProtocol, CoordinationProofs

\* The grants there ever were to this Player.
Named(e, rev, a) ==
  \E r \in commits : r.player = Self /\ r.epoch = e /\ r.rev = rev /\ r.a = a

\* The plan there is, of this epoch.
Current(e, rev) == plan[Self].epoch = epoch[Self] /\ e = epoch[Self] /\ rev = plan[Self].rev

\* The cohort the plan names for a showing.
Shown(a) == Cohort(plan[Self].groups[a])

Revokes(s, k, a) == \E r \in s.revocations : r.seq = k.skip /\ a \in r.ids
Grants(s, a)     == \E c \in s.commits : a \in c.ids

\* A skip is numbered once, from 1, and no later than the events counted.
SkipsNumbered ==
  \A g \in GroupIds :
    Cohort(g).status = "skipped" => Cohort(g).skip >= 1 /\ Cohort(g).skip <= events

-----------------------------------------------------------------------------
(* One assignment *)

GrantOK(r) == r.granted # 0 => r.secured /\ r.prepared

\* What is left of r is no more than r: a grant and a playing that r had, or none.
Less(r, s) ==
  /\ s \in Exec!Records
  /\ s.granted \in {0, r.granted} /\ s.playing \in {0, r.playing}
  /\ GrantOK(r) => GrantOK(s)

LEMMA LessIs ==
  ASSUME NEW r \in Exec!Records
  PROVE  /\ Less(r, r)
         /\ Less(r, Exec!Ended(r))
         /\ Less(r, Exec!LosePreparation(r))
         /\ Less(r, [r EXCEPT !.prepared = TRUE])
         /\ Less(r, [r EXCEPT !.secured = TRUE])
         /\ Less(r, [r EXCEPT !.committed = FALSE, !.seen = 0])
         /\ Less(r, [Exec!LosePreparation(r) EXCEPT !.seen = 0])
         /\ Less(r, [Exec!LosePreparation(r) EXCEPT !.secured = FALSE])
  <1> USE DEF Exec!Records, Less, GrantOK
  <1>1. Less(r, r)
    OBVIOUS
  <1>2. Less(r, Exec!Ended(r))
    BY DEF Exec!Ended
  <1>3. Exec!LosePreparation(r) \in Exec!Records /\ Exec!LosePreparation(r).granted = 0
        /\ Exec!LosePreparation(r).playing = 0
    BY DEF Exec!LosePreparation, Exec!Ended
  <1>4. Less(r, [r EXCEPT !.prepared = TRUE]) /\ Less(r, [r EXCEPT !.secured = TRUE])
    OBVIOUS
  <1>5. Less(r, [r EXCEPT !.committed = FALSE, !.seen = 0])
    OBVIOUS
  <1>6. Less(r, [Exec!LosePreparation(r) EXCEPT !.seen = 0])
    BY <1>3
  <1>7. Less(r, [Exec!LosePreparation(r) EXCEPT !.secured = FALSE])
    BY <1>3
  <1> QED BY <1>1, <1>2, <1>3, <1>4, <1>5, <1>6, <1>7

-----------------------------------------------------------------------------
(* The executor *)

\* The executor's record has its fields and no others.
Shaped(x) == x = [epoch |-> x.epoch, frames |-> x.frames, rev |-> x.rev, asg |-> x.asg,
          inactive |-> x.inactive, capacity |-> x.capacity, seq |-> x.seq,
          reported |-> x.reported, revoked |-> x.revoked, seen |-> x.seen]
\* A field set anew leaves the record its fields.
LEMMA ShapeStays ==
  ASSUME NEW x, Shaped(x), NEW v
  PROVE  /\ Shaped([x EXCEPT !.epoch = v]) /\ Shaped([x EXCEPT !.frames = v])
         /\ Shaped([x EXCEPT !.rev = v]) /\ Shaped([x EXCEPT !.asg = v])
         /\ Shaped([x EXCEPT !.inactive = v]) /\ Shaped([x EXCEPT !.capacity = v])
         /\ Shaped([x EXCEPT !.seq = v]) /\ Shaped([x EXCEPT !.reported = v])
         /\ Shaped([x EXCEPT !.revoked = v]) /\ Shaped([x EXCEPT !.seen = v])
  <1>1. Shaped([x EXCEPT !.epoch = v])
    BY DEF Shaped
  <1>2. Shaped([x EXCEPT !.frames = v])
    BY DEF Shaped
  <1>3. Shaped([x EXCEPT !.rev = v])
    BY DEF Shaped
  <1>4. Shaped([x EXCEPT !.asg = v])
    BY DEF Shaped
  <1>5. Shaped([x EXCEPT !.inactive = v])
    BY DEF Shaped
  <1>6. Shaped([x EXCEPT !.capacity = v])
    BY DEF Shaped
  <1>7. Shaped([x EXCEPT !.seq = v])
    BY DEF Shaped
  <1>8. Shaped([x EXCEPT !.reported = v])
    BY DEF Shaped
  <1>9. Shaped([x EXCEPT !.revoked = v])
    BY DEF Shaped
  <1>10. Shaped([x EXCEPT !.seen = v])
    BY DEF Shaped
  <1> QED BY <1>1, <1>2, <1>3, <1>4, <1>5, <1>6, <1>7, <1>8, <1>9, <1>10

\* What accept_plan sets.
WithPlan(x, r, f, g, z, c, n, e) ==
  [x EXCEPT !.rev = r, !.asg = f, !.inactive = g, !.revoked = z,
            !.capacity = c, !.reported = n, !.seen = e]

LEMMA PlanFields ==
  ASSUME NEW x, Shaped(x), NEW r, NEW f, NEW g, NEW z, NEW c, NEW n, NEW e
  PROVE  LET y == WithPlan(x, r, f, g, z, c, n, e) IN
         /\ Shaped(y) /\ y.rev = r /\ y.asg = f /\ y.inactive = g /\ y.revoked = z
         /\ y.capacity = c /\ y.reported = n /\ y.seen = e
         /\ y.epoch = x.epoch /\ y.frames = x.frames /\ y.seq = x.seq
  <1> USE DEF WithPlan
  <1> DEFINE y == [x EXCEPT !.rev = r, !.asg = f, !.inactive = g, !.revoked = z,
                            !.capacity = c, !.reported = n, !.seen = e]
             y1 == [x EXCEPT !.rev = r]
             y2 == [y1 EXCEPT !.asg = f]
             y3 == [y2 EXCEPT !.inactive = g]
             y4 == [y3 EXCEPT !.revoked = z]
             y5 == [y4 EXCEPT !.capacity = c]
             y6 == [y5 EXCEPT !.reported = n]
             y7 == [y6 EXCEPT !.seen = e]
  <1>1. /\ y.rev = r /\ y.asg = f /\ y.inactive = g /\ y.revoked = z
        /\ y.capacity = c /\ y.reported = n /\ y.seen = e
        /\ y.epoch = x.epoch /\ y.frames = x.frames /\ y.seq = x.seq
    BY DEF Shaped
  <1>2. y = y7
    OBVIOUS
  <1>3. Shaped(y7)
    <2> HIDE DEF y7, y6, y5, y4, y3, y2, y1
    <2>1. Shaped(y1)
      BY ShapeStays DEF y1
    <2>2. Shaped(y2)
      BY <2>1, ShapeStays DEF y2
    <2>3. Shaped(y3)
      BY <2>2, ShapeStays DEF y3
    <2>4. Shaped(y4)
      BY <2>3, ShapeStays DEF y4
    <2>5. Shaped(y5)
      BY <2>4, ShapeStays DEF y5
    <2>6. Shaped(y6)
      BY <2>5, ShapeStays DEF y6
    <2> QED BY <2>6, ShapeStays DEF y7
  <1> QED BY <1>1, <1>2, <1>3

\* What accept_configuration sets.
WithFrames(x, g, f, c) == [x EXCEPT !.frames = g, !.asg = f, !.capacity = c]

LEMMA BindingFields ==
  ASSUME NEW x, Shaped(x), NEW g, NEW f, NEW c
  PROVE  LET y == WithFrames(x, g, f, c) IN
         /\ Shaped(y) /\ y.frames = g /\ y.asg = f /\ y.capacity = c
         /\ y.epoch = x.epoch /\ y.rev = x.rev /\ y.inactive = x.inactive /\ y.seq = x.seq
         /\ y.reported = x.reported /\ y.revoked = x.revoked /\ y.seen = x.seen
  <1> USE DEF WithFrames
  <1> DEFINE y == [x EXCEPT !.frames = g, !.asg = f, !.capacity = c]
             y1 == [x EXCEPT !.frames = g]
             y2 == [y1 EXCEPT !.asg = f]
             y3 == [y2 EXCEPT !.capacity = c]
  <1>1. /\ y.frames = g /\ y.asg = f /\ y.capacity = c
        /\ y.epoch = x.epoch /\ y.rev = x.rev /\ y.inactive = x.inactive /\ y.seq = x.seq
        /\ y.reported = x.reported /\ y.revoked = x.revoked /\ y.seen = x.seen
    BY DEF Shaped
  <1>2. y = y3
    OBVIOUS
  <1>3. Shaped(y3)
    <2> HIDE DEF y3, y2, y1
    <2>1. Shaped(y1)
      BY ShapeStays DEF y1
    <2>2. Shaped(y2)
      BY <2>1, ShapeStays DEF y2
    <2> QED BY <2>2, ShapeStays DEF y3
  <1> QED BY <1>1, <1>2, <1>3
\* Its fields: those of Exec!TypeOK, in the provers' form.  The reports it retains are the last
\* ones, and what it shows is on Frames it is bound to.
Showings  == UNION {[D -> Exec!Records] : D \in SUBSET Assignments}
FrameGens == UNION {[D -> Nat] : D \in SUBSET Frames}
Contents  == UNION {[D -> Nat] : D \in SUBSET Assignments}
Retained(n) ==
  UNION {[D -> SUBSET Assignments] : D \in SUBSET {m \in 1..n : m + KeepReports > n}}

ExecutorOK(x) ==
  /\ Shaped(x)
  /\ x.epoch \in Nat /\ x.rev \in Nat /\ x.seq \in Nat /\ x.revoked \in Nat
  /\ x.capacity \in BOOLEAN
  /\ x.frames \in FrameGens /\ x.asg \in Showings /\ x.inactive \in Contents
  /\ x.reported \in Retained(x.seq)
  /\ \A a \in DOMAIN x.asg : a[1] \in DOMAIN x.frames

GrantOf(x, a)   == IF a \in Exec!Held(x) THEN x.asg[a].granted ELSE 0
PlayingOf(x, a) == IF a \in Exec!Held(x) THEN x.asg[a].playing ELSE 0
Sound(x)        == \A a \in Exec!Held(x) : GrantOK(x.asg[a])

\* y holds and plays no more than x.
Fewer(x, y) ==
  /\ \A a \in Assignments : /\ GrantOf(y, a) \in {0, GrantOf(x, a)}
                            /\ PlayingOf(y, a) \in {0, PlayingOf(x, a)}
  /\ Sound(x) => Sound(y)

LEMMA FewerTransitive ==
  ASSUME NEW x, NEW y, NEW z, Fewer(x, y), Fewer(y, z)
  PROVE  Fewer(x, z)
  BY DEF Fewer

LEMMA HeldIs ==
  ASSUME NEW x, ExecutorOK(x)
  PROVE  /\ Exec!Held(x) \subseteq Assignments
         /\ x.asg \in [Exec!Held(x) -> Exec!Records]
  BY DEF ExecutorOK, Showings, Exec!Held

\* Fields but the assignments, capacity and the reports are those of x.
SameOffer(x, y) ==
  /\ y.epoch = x.epoch /\ y.frames = x.frames /\ y.rev = x.rev /\ y.inactive = x.inactive
  /\ y.seq = x.seq /\ y.revoked = x.revoked /\ y.seen = x.seen

LEMMA ShowingsIs ==
  ASSUME NEW D \in SUBSET Assignments, NEW f \in [D -> Exec!Records]
  PROVE  f \in Showings /\ DOMAIN f = D
  BY DEF Showings

\* Assignments that are each left with less leave an executor that holds less.
LEMMA LessAreFewer ==
  ASSUME NEW x, ExecutorOK(x), NEW D \in SUBSET Exec!Held(x), NEW f,
         DOMAIN f = D, f = [a \in D |-> f[a]], \A a \in D : Less(x.asg[a], f[a])
  PROVE  LET y == [x EXCEPT !.asg = f] IN
         /\ ExecutorOK(y) /\ Fewer(x, y) /\ SameOffer(x, y) /\ y.asg = f
         /\ y.reported = x.reported /\ y.capacity = x.capacity /\ Exec!Held(y) = D
  <1> DEFINE y == [x EXCEPT !.asg = f]
  <1>1. /\ y.asg = f /\ y.epoch = x.epoch /\ y.frames = x.frames /\ y.rev = x.rev
        /\ y.inactive = x.inactive /\ y.seq = x.seq /\ y.revoked = x.revoked /\ y.seen = x.seen
        /\ y.reported = x.reported /\ y.capacity = x.capacity
        /\ y = [epoch |-> y.epoch, frames |-> y.frames, rev |-> y.rev, asg |-> y.asg,
                inactive |-> y.inactive, capacity |-> y.capacity, seq |-> y.seq,
                reported |-> y.reported, revoked |-> y.revoked, seen |-> y.seen]
    BY DEF ExecutorOK, Shaped
  <1> HIDE DEF y
  <1>2. f \in [D -> Exec!Records] /\ D \in SUBSET Assignments
    BY HeldIs DEF Less
  <1>3. y.asg \in Showings /\ Exec!Held(y) = D
    BY <1>1, <1>2, ShowingsIs DEF Exec!Held
  <1>4. ExecutorOK(y)
    <2>1. \A a \in DOMAIN y.asg : a[1] \in DOMAIN y.frames
      BY <1>1 DEF ExecutorOK, Exec!Held
    <2> QED BY <1>1, <1>3, <2>1 DEF ExecutorOK, Shaped
  <1>5. Fewer(x, y)
    BY <1>1, <1>3 DEF Fewer, GrantOf, PlayingOf, Sound, Less
  <1> QED BY <1>1, <1>3, <1>4, <1>5 DEF SameOffer, y

LEMMA OutdatedIs ==
  ASSUME NEW x, ExecutorOK(x), NEW S
  PROVE  LET y == Exec!Outdated(x, S) IN
         /\ ExecutorOK(y) /\ Fewer(x, y) /\ SameOffer(x, y) /\ y.asg = x.asg
         /\ y.capacity = x.capacity
  <1> DEFINE f == [n \in DOMAIN x.reported |-> x.reported[n] \ S]
             y == [x EXCEPT !.reported = f]
  <1>1. f \in Retained(x.seq)
    BY DEF ExecutorOK, Retained
  <1> HIDE DEF f
  <1>2. /\ y.asg = x.asg /\ y.epoch = x.epoch /\ y.frames = x.frames /\ y.rev = x.rev
        /\ y.inactive = x.inactive /\ y.seq = x.seq /\ y.revoked = x.revoked /\ y.seen = x.seen
        /\ y.reported = f /\ y.capacity = x.capacity
        /\ y = [epoch |-> y.epoch, frames |-> y.frames, rev |-> y.rev, asg |-> y.asg,
                inactive |-> y.inactive, capacity |-> y.capacity, seq |-> y.seq,
                reported |-> y.reported, revoked |-> y.revoked, seen |-> y.seen]
    BY DEF ExecutorOK, Shaped
  <1>3. y = Exec!Outdated(x, S)
    BY DEF Exec!Outdated, f
  <1> HIDE DEF y
  <1>4. ExecutorOK(y)
    BY <1>1, <1>2 DEF ExecutorOK, Shaped
  <1>5. Fewer(x, y)
    BY <1>2 DEF Fewer, GrantOf, PlayingOf, Sound, Exec!Held
  <1> QED BY <1>2, <1>3, <1>4, <1>5 DEF SameOffer

LEMMA CapacityIs ==
  ASSUME NEW x, ExecutorOK(x), NEW b \in BOOLEAN
  PROVE  LET y == [x EXCEPT !.capacity = b] IN
         /\ ExecutorOK(y) /\ Fewer(x, y) /\ SameOffer(x, y) /\ y.asg = x.asg
         /\ y.reported = x.reported
  <1> DEFINE y == [x EXCEPT !.capacity = b]
  <1>1. /\ y.asg = x.asg /\ y.epoch = x.epoch /\ y.frames = x.frames /\ y.rev = x.rev
        /\ y.inactive = x.inactive /\ y.seq = x.seq /\ y.revoked = x.revoked /\ y.seen = x.seen
        /\ y.reported = x.reported
        /\ y = [epoch |-> y.epoch, frames |-> y.frames, rev |-> y.rev, asg |-> y.asg,
                inactive |-> y.inactive, capacity |-> y.capacity, seq |-> y.seq,
                reported |-> y.reported, revoked |-> y.revoked, seen |-> y.seen]
    BY DEF ExecutorOK, Shaped
  <1>2. y.capacity \in BOOLEAN
    BY DEF ExecutorOK, Shaped
  <1> HIDE DEF y
  <1>3. ExecutorOK(y)
    BY <1>1, <1>2 DEF ExecutorOK, Shaped
  <1>4. Fewer(x, y)
    BY <1>1 DEF Fewer, GrantOf, PlayingOf, Sound, Exec!Held
  <1> QED BY <1>1, <1>3, <1>4 DEF SameOffer, y

LEMMA GatedIs ==
  ASSUME NEW x, ExecutorOK(x)
  PROVE  LET y == Exec!Gated(x) IN
         ExecutorOK(y) /\ Fewer(x, y) /\ SameOffer(x, y) /\ Exec!Held(y) = Exec!Held(x)
  <1> DEFINE f == [a \in Exec!Held(x) |-> IF a \in Exec!Held(x) THEN Exec!Ended(x.asg[a])
                                                               ELSE x.asg[a]]
             y == [x EXCEPT !.asg = f]
  <1>1. CASE healthy
    <2>1. Exec!Gated(x) = x
      BY <1>1 DEF Exec!Gated
    <2> QED BY <2>1 DEF Fewer, SameOffer
  <1>2. CASE ~healthy
    <2>1. Exec!Gated(x) = Exec!Outdated(y, Exec!Held(x))
      BY <1>2 DEF Exec!Gated, Exec!Changed
    <2>2. \A a \in Exec!Held(x) : Less(x.asg[a], f[a])
      BY HeldIs, LessIs
    <2>3. DOMAIN f = Exec!Held(x) /\ f = [a \in Exec!Held(x) |-> f[a]]
      OBVIOUS
    <2> HIDE DEF f
    <2>4. /\ ExecutorOK(y) /\ Fewer(x, y) /\ SameOffer(x, y) /\ Exec!Held(y) = Exec!Held(x)
      BY <2>2, <2>3, LessAreFewer
    <2> HIDE DEF y
    <2>5. LET z == Exec!Outdated(y, Exec!Held(x)) IN
          /\ ExecutorOK(z) /\ Fewer(y, z) /\ SameOffer(y, z) /\ z.asg = y.asg
      BY <2>4, OutdatedIs
    <2>6. Exec!Held(Exec!Outdated(y, Exec!Held(x))) = Exec!Held(y)
      BY <2>5 DEF Exec!Held
    <2> QED BY <2>1, <2>4, <2>5, <2>6, FewerTransitive DEF SameOffer
  <1> QED BY <1>1, <1>2

LEMMA PreparePassIs ==
  ASSUME NEW x, ExecutorOK(x), NEW ready, NEW fits \in BOOLEAN
  PROVE  LET y == Exec!PreparePass(x, ready, fits) IN
         ExecutorOK(y) /\ Fewer(x, y) /\ SameOffer(x, y) /\ Exec!Held(y) = Exec!Held(x)
  <1> DEFINE kept == IF fits THEN ready ELSE {a \in ready : x.asg[a].playing # 0}
             lost == Exec!Preparable(x) \ kept
             f == [a \in Exec!Held(x) |-> IF a \in lost THEN Exec!LosePreparation(x.asg[a])
                                                        ELSE x.asg[a]]
             y == [x EXCEPT !.asg = f]
             z == Exec!Outdated(y, {a \in lost : x.asg[a].prepared})
             h == [a \in Exec!Held(z) |-> IF a \in kept THEN [z.asg[a] EXCEPT !.prepared = TRUE]
                                                        ELSE z.asg[a]]
             v == [z EXCEPT !.asg = h]
             w == [v EXCEPT !.capacity = fits]
  <1>1. Exec!PreparePass(x, ready, fits) = Exec!Gated(w)
    BY DEF Exec!PreparePass, Exec!Changed
  <1>2. ExecutorOK(y) /\ Fewer(x, y) /\ SameOffer(x, y) /\ Exec!Held(y) = Exec!Held(x)
    <2>1. \A a \in Exec!Held(x) : Less(x.asg[a], f[a])
      BY HeldIs, LessIs
    <2>2. DOMAIN f = Exec!Held(x) /\ f = [a \in Exec!Held(x) |-> f[a]]
      OBVIOUS
    <2> HIDE DEF f
    <2> QED BY <2>1, <2>2, LessAreFewer
  <1> HIDE DEF y
  <1>3. ExecutorOK(z) /\ Fewer(y, z) /\ SameOffer(y, z) /\ Exec!Held(z) = Exec!Held(y)
    BY <1>2, OutdatedIs DEF Exec!Held
  <1> HIDE DEF z
  <1>4. ExecutorOK(v) /\ Fewer(z, v) /\ SameOffer(z, v) /\ Exec!Held(v) = Exec!Held(z)
    <2>1. \A a \in Exec!Held(z) : Less(z.asg[a], h[a])
      BY <1>3, HeldIs, LessIs
    <2>2. DOMAIN h = Exec!Held(z) /\ h = [a \in Exec!Held(z) |-> h[a]]
      OBVIOUS
    <2> HIDE DEF h
    <2> QED BY <1>3, <2>1, <2>2, LessAreFewer
  <1> HIDE DEF v
  <1>5. ExecutorOK(w) /\ Fewer(v, w) /\ SameOffer(v, w) /\ Exec!Held(w) = Exec!Held(v)
    BY <1>4, CapacityIs DEF Exec!Held
  <1> HIDE DEF w
  <1>6. LET u == Exec!Gated(w) IN
        ExecutorOK(u) /\ Fewer(w, u) /\ SameOffer(w, u) /\ Exec!Held(u) = Exec!Held(w)
    BY <1>5, GatedIs
  <1>7. Fewer(x, Exec!Gated(w))
    BY <1>2, <1>3, <1>4, <1>5, <1>6, FewerTransitive
  <1> QED BY <1>1, <1>2, <1>3, <1>4, <1>5, <1>6, <1>7 DEF SameOffer

-----------------------------------------------------------------------------
(* A State and what it does *)

\* A non-empty set of numbers no greater than m has a greatest.
LEMMA Greatest ==
  ASSUME NEW S \in SUBSET Nat, S # {}, NEW m \in Nat, \A n \in S : n <= m
  PROVE  \E n \in S : \A k \in S : k <= n
  <1> DEFINE T == {m - n : n \in S}
             R == {ss \in Nat \X Nat : ss[1] < ss[2]}
  <1>1. IsWellFoundedOn(R, Nat)
    BY NatLessThanWellFounded DEF OpToRel
  <1>2. T \subseteq Nat /\ T # {}
    <2>1. \A n \in S : m - n \in Nat
      OBVIOUS
    <2>2. PICK n \in S : TRUE
      OBVIOUS
    <2>3. m - n \in T
      OBVIOUS
    <2> QED BY <2>1, <2>3
  <1>3. PICK t \in T : \A y \in T : ~(<<y, t>> \in R)
    BY <1>1, <1>2, WFMin
  <1>4. PICK n \in S : t = m - n
    BY <1>3
  <1>5. ASSUME NEW k \in S PROVE k <= n
    <2>1. ~(m - k < t)
      BY <1>2, <1>3
    <2> QED BY <1>4, <2>1
  <1> QED BY <1>5

\* What a State on its way says, in types.
StateOK(s) ==
  /\ s.epoch \in Nat /\ s.rev \in Nat /\ s.frames \in FrameGens
  /\ s.layers \subseteq Assignments /\ \A a \in s.layers : a[1] \in DOMAIN s.frames
  /\ \A c \in s.commits : c.seq \in Nat
  /\ \A r \in s.revocations : r.seq \in Nat /\ r.seq <= events

\* The showing is neither granted nor played.
Unplayed(x, a) == GrantOf(x, a) = 0 /\ PlayingOf(x, a) = 0

LEMMA RevokedIs ==
  ASSUME NEW x, ExecutorOK(x), NEW s, StateOK(s), events \in Nat
  PROVE  LET y == Exec!Revoked(x, s) IN
         /\ ExecutorOK(y) /\ Fewer(x, y) /\ Exec!Held(y) = Exec!Held(x)
         /\ y.epoch = x.epoch /\ y.frames = x.frames /\ y.rev = x.rev /\ y.seen = x.seen
         /\ y.revoked >= x.revoked /\ \A r \in s.revocations : r.seq <= y.revoked
         /\ y.revoked = x.revoked \/ \E r \in s.revocations : y.revoked = r.seq
         /\ \A r \in s.revocations : r.seq > x.revoked =>
              \A a \in r.ids \cap Assignments : Unplayed(y, a)
  <1> DEFINE newer == {r \in s.revocations : r.seq > x.revoked}
             seqs  == {r.seq : r \in newer}
             gone  == UNION {r.ids : r \in newer}
             F(r)  == [Exec!LosePreparation(r) EXCEPT !.seen = 0]
             f == [a \in Exec!Held(x) |-> IF a \in gone THEN F(x.asg[a]) ELSE x.asg[a]]
             y == [x EXCEPT !.asg = f]
             z == Exec!Outdated(y, gone)
             top == CHOOSE n \in seqs : \A r \in newer : r.seq <= n
             w == [z EXCEPT !.revoked = top]
  <1>1. CASE newer = {}
    <2>1. Exec!Revoked(x, s) = x
      BY <1>1 DEF Exec!Revoked
    <2>2. Fewer(x, x)
      BY DEF Fewer
    <2>3. x.revoked \in Nat
      BY DEF ExecutorOK, Shaped
    <2> QED BY <1>1, <2>1, <2>2, <2>3 DEF StateOK
  <1>2. CASE newer # {}
    <2>1. Exec!Revoked(x, s) = w
      BY <1>2 DEF Exec!Revoked, Exec!Changed
    <2>2. /\ ExecutorOK(y) /\ Fewer(x, y) /\ SameOffer(x, y) /\ Exec!Held(y) = Exec!Held(x)
          /\ y.asg = f
      <3>1. \A a \in Exec!Held(x) : Less(x.asg[a], f[a])
        BY HeldIs, LessIs
      <3>2. DOMAIN f = Exec!Held(x) /\ f = [a \in Exec!Held(x) |-> f[a]]
        OBVIOUS
      <3> HIDE DEF f
      <3> QED BY <3>1, <3>2, LessAreFewer
    <2>3. \A a \in gone : Unplayed(y, a)
      <3>1. \A r \in Exec!Records : F(r).granted = 0 /\ F(r).playing = 0
        BY DEF Exec!LosePreparation, Exec!Ended, Exec!Records
      <3>2. \A a \in gone \cap Exec!Held(x) : y.asg[a] = F(x.asg[a])
        BY <2>2
      <3> HIDE DEF gone, y, F
      <3> QED BY <2>2, <3>1, <3>2, HeldIs DEF Unplayed, GrantOf, PlayingOf
    <2> HIDE DEF y
    <2>4. ExecutorOK(z) /\ Fewer(y, z) /\ SameOffer(y, z) /\ z.asg = y.asg
      BY <2>2, OutdatedIs
    <2> HIDE DEF z
    <2>5. top \in seqs /\ \A r \in newer : r.seq <= top
      <3>1. seqs \in SUBSET Nat /\ seqs # {} /\ \A n \in seqs : n <= events
        BY <1>2 DEF StateOK
      <3>2. \E n \in seqs : \A k \in seqs : k <= n
        BY <3>1, Greatest
      <3> QED BY <3>2
    <2>6. top \in Nat /\ top > x.revoked
      BY <2>5 DEF StateOK
    <2> HIDE DEF top
    <2>7. /\ w.asg = z.asg /\ w.epoch = z.epoch /\ w.frames = z.frames /\ w.rev = z.rev
          /\ w.inactive = z.inactive /\ w.seq = z.seq /\ w.revoked = top /\ w.seen = z.seen
          /\ w.reported = z.reported /\ w.capacity = z.capacity
          /\ w = [epoch |-> w.epoch, frames |-> w.frames, rev |-> w.rev, asg |-> w.asg,
                  inactive |-> w.inactive, capacity |-> w.capacity, seq |-> w.seq,
                  reported |-> w.reported, revoked |-> w.revoked, seen |-> w.seen]
      BY <2>4 DEF ExecutorOK, Shaped
    <2> HIDE DEF w
    <2>8. ExecutorOK(w)
      BY <2>4, <2>6, <2>7 DEF ExecutorOK, Shaped
    <2>9. Fewer(z, w) /\ Exec!Held(w) = Exec!Held(z)
      BY <2>7 DEF Fewer, GrantOf, PlayingOf, Sound, Exec!Held
    <2>10. Exec!Held(z) = Exec!Held(y)
      BY <2>4 DEF Exec!Held
    <2>11. Fewer(x, w) /\ Fewer(y, w)
      BY <2>2, <2>4, <2>9, FewerTransitive
    <2>12. \A a \in gone \cap Assignments : Unplayed(w, a)
      BY <2>3, <2>11 DEF Fewer, Unplayed
    <2>13. x.revoked \in Nat
      BY DEF ExecutorOK, Shaped
    <2>14. \A r \in s.revocations : r.seq <= top
      BY <2>5, <2>6, <2>13 DEF StateOK
    <2> QED BY <2>1, <2>2, <2>4, <2>5, <2>6, <2>7, <2>8, <2>9, <2>10, <2>11, <2>12, <2>13,
               <2>14 DEF SameOffer
  <1> QED BY <1>1, <1>2

LEMMA ColdIs ==
  ASSUME NEW e \in Nat
  PROVE  LET x == [Exec!Cold EXCEPT !.epoch = e] IN
         /\ ExecutorOK(x) /\ Exec!Held(x) = {} /\ x.epoch = e /\ x.rev = 0 /\ x.revoked = 0
         /\ x.seen = {} /\ x.frames = <<>>
  <1> DEFINE x == [Exec!Cold EXCEPT !.epoch = e]
  <1>1. /\ Shaped(x) /\ x.epoch = e /\ x.frames = <<>> /\ x.rev = 0 /\ x.asg = <<>>
        /\ x.inactive = <<>> /\ x.seq = 0 /\ x.reported = <<>> /\ x.revoked = 0
        /\ x.seen = {} /\ x.capacity \in BOOLEAN
    <2>1. Shaped(Exec!Cold) /\ Exec!Cold.capacity \in BOOLEAN
      BY DEF Shaped, Exec!Cold
    <2>2. Shaped(x)
      BY <2>1, ShapeStays
    <2>4. x.epoch = e /\ x.capacity = Exec!Cold.capacity
      <3>1. ASSUME NEW y, Shaped(y)
            PROVE  [y EXCEPT !.epoch = e].epoch = e /\ [y EXCEPT !.epoch = e].capacity = y.capacity
        BY <3>1 DEF Shaped
      <3> QED BY <2>1, <3>1
    <2>3. /\ x.frames = <<>> /\ x.rev = 0 /\ x.asg = <<>> /\ x.inactive = <<>>
          /\ x.seq = 0 /\ x.reported = <<>> /\ x.revoked = 0 /\ x.seen = {}
      BY DEF Exec!Cold
    <2> QED BY <2>1, <2>2, <2>3, <2>4
  <1>2. DOMAIN <<>> = {} /\ \A S : <<>> \in [{} -> S]
    OBVIOUS
  <1>3. <<>> \in FrameGens
    BY <1>2 DEF FrameGens
  <1>4. <<>> \in Showings
    BY <1>2 DEF Showings
  <1>5. <<>> \in Contents
    BY <1>2 DEF Contents
  <1>6. <<>> \in Retained(0)
    BY <1>2 DEF Retained
  <1>7. DOMAIN x.asg = {} /\ DOMAIN x.frames = {}
    BY <1>1, <1>2
  <1> HIDE DEF x
  <1>8. ExecutorOK(x)
    BY <1>1, <1>3, <1>4, <1>5, <1>6, <1>7 DEF ExecutorOK
  <1> QED BY <1>1, <1>7, <1>8 DEF Exec!Held, x

\* What a configuration starts from: nothing, in a fresh epoch.
NewEpoch(x, s) == s.epoch > x.epoch
RevOf(x, s)     == IF NewEpoch(x, s) THEN 0 ELSE x.rev
RevokedOf(x, s) == IF NewEpoch(x, s) THEN 0 ELSE x.revoked

LEMMA ConfiguredIs ==
  ASSUME NEW x, ExecutorOK(x), NEW s, StateOK(s)
  PROVE  LET y == Exec!Configured(x, s) IN
         /\ ExecutorOK(y) /\ Fewer(x, y) /\ Exec!Held(y) \subseteq Exec!Held(x)
         /\ y.epoch = IF NewEpoch(x, s) THEN s.epoch ELSE x.epoch
         /\ NewEpoch(x, s) => Exec!Held(y) = {}
         /\ y.frames = s.frames /\ y.rev = RevOf(x, s) /\ y.revoked = RevokedOf(x, s)
  <1> DEFINE y == Exec!FreshStart(x, s)
             stay == {a \in Exec!Held(y) : a[1] \in DOMAIN s.frames
                                           /\ s.frames[a[1]] = y.frames[a[1]]}
             f == [a \in stay |-> y.asg[a]]
             v == [y EXCEPT !.asg = f]
             b == y.capacity /\ s.frames = y.frames
             z == [y EXCEPT !.frames = s.frames, !.asg = f, !.capacity = b]
  <1>1. Exec!Configured(x, s) = z
    BY DEF Exec!Configured
  <1>2. /\ ExecutorOK(y) /\ Fewer(x, y) /\ Exec!Held(y) \subseteq Exec!Held(x)
        /\ y.epoch = IF NewEpoch(x, s) THEN s.epoch ELSE x.epoch
        /\ NewEpoch(x, s) => Exec!Held(y) = {}
        /\ y.rev = RevOf(x, s) /\ y.revoked = RevokedOf(x, s)
    <2>1. CASE NewEpoch(x, s)
      <3>1. y = [Exec!Cold EXCEPT !.epoch = s.epoch]
        BY <2>1 DEF Exec!FreshStart, NewEpoch
      <3>2. /\ ExecutorOK(y) /\ Exec!Held(y) = {} /\ y.epoch = s.epoch /\ y.rev = 0
            /\ y.revoked = 0
        BY <3>1, ColdIs DEF StateOK
      <3> HIDE DEF y
      <3>3. Fewer(x, y)
        BY <3>2 DEF Fewer, GrantOf, PlayingOf, Sound
      <3> QED BY <2>1, <3>2, <3>3 DEF RevOf, RevokedOf
    <2>2. CASE ~NewEpoch(x, s)
      <3>1. y = x
        BY <2>2 DEF Exec!FreshStart, NewEpoch
      <3> QED BY <2>2, <3>1 DEF RevOf, RevokedOf, Fewer
    <2> QED BY <2>1, <2>2
  <1> HIDE DEF y
  <1>3. /\ ExecutorOK(v) /\ Fewer(y, v) /\ SameOffer(y, v) /\ v.asg = f /\ Exec!Held(v) = stay
    <2>1. \A a \in stay : Less(y.asg[a], f[a])
      BY <1>2, HeldIs, LessIs
    <2>2. DOMAIN f = stay /\ f = [a \in stay |-> f[a]] /\ stay \subseteq Exec!Held(y)
      OBVIOUS
    <2> HIDE DEF f, stay
    <2> QED BY <1>2, <2>1, <2>2, LessAreFewer
  <1>4. /\ z.asg = f /\ z.epoch = y.epoch /\ z.frames = s.frames /\ z.rev = y.rev
        /\ z.inactive = y.inactive /\ z.seq = y.seq /\ z.revoked = y.revoked /\ z.seen = y.seen
        /\ z.reported = y.reported /\ z.capacity = b /\ Shaped(z)
    <2> HIDE DEF f, b
    <2>1. Shaped(y)
      BY <1>2 DEF ExecutorOK
    <2>2. z = WithFrames(y, s.frames, f, b)
      BY DEF WithFrames
    <2> HIDE DEF z
    <2> QED BY <2>1, <2>2, BindingFields
  <1>5. b \in BOOLEAN
    OBVIOUS
  <1>6. \A a \in stay : a[1] \in DOMAIN s.frames
    OBVIOUS
  <1>7. DOMAIN f = stay
    OBVIOUS
  <1> HIDE DEF z, f, stay, b
  <1>8. ExecutorOK(z)
    BY <1>2, <1>3, <1>4, <1>5, <1>6, <1>7 DEF ExecutorOK, StateOK
  <1>9. Exec!Held(z) = stay /\ Fewer(v, z)
    BY <1>3, <1>4 DEF Fewer, GrantOf, PlayingOf, Sound, Exec!Held
  <1>10. Fewer(x, z)
    BY <1>2, <1>3, <1>9, FewerTransitive
  <1>11. stay \subseteq Exec!Held(y)
    BY DEF stay
  <1> QED BY <1>1, <1>2, <1>4, <1>8, <1>9, <1>10, <1>11

\* An assignment new to the executor, its bytes there or not.
Secured(r, b) == [r EXCEPT !.secured = b]

LEMMA NewShowing ==
  ASSUME NEW r, NEW a, NEW D, r = Secured(Exec!New, a \in D)
  PROVE  r \in Exec!Records /\ r.granted = 0 /\ r.playing = 0
  <1>1. Exec!New \in Exec!Records
    BY DEF Exec!Records, Exec!New
  <1>2. \A n \in Exec!Records : [n EXCEPT !.secured = TRUE] \in Exec!Records
    BY DEF Exec!Records
  <1>3. \A n \in Exec!Records : [n EXCEPT !.secured = FALSE] \in Exec!Records
    BY DEF Exec!Records
  <1>4. r.granted = 0 /\ r.playing = 0
    BY DEF Exec!New, Secured
  <1>5. CASE a \in D
    <2>1. (a \in D) = TRUE
      BY <1>5
    <2>2. r = Secured(Exec!New, TRUE)
      BY <2>1
    <2>3. r = [Exec!New EXCEPT !.secured = TRUE]
      BY <2>2, Zenon DEF Secured
    <2> QED BY <1>1, <1>2, <1>4, <2>3
  <1>6. CASE a \notin D
    <2>1. (a \in D) = FALSE
      BY <1>6
    <2>2. r = Secured(Exec!New, FALSE)
      BY <2>1
    <2>3. r = [Exec!New EXCEPT !.secured = FALSE]
      BY <2>2, Zenon DEF Secured
    <2> QED BY <1>1, <1>3, <1>4, <2>3
  <1> QED BY <1>5, <1>6

LEMMA PlannedIs ==
  ASSUME NEW x, ExecutorOK(x), NEW s, StateOK(s), x.frames = s.frames
  PROVE  LET y == Exec!Planned(x, s) IN
         /\ ExecutorOK(y) /\ Fewer(x, y) /\ Exec!Held(y) = s.layers
         /\ y.epoch = x.epoch /\ y.frames = x.frames /\ y.rev = s.rev /\ y.revoked = 0
  <1> DEFINE dropped == {a \in Exec!Held(x) : x.asg[a].secured}
             f == [a \in s.layers |->
                     IF a \in Exec!Held(x)
                       THEN [x.asg[a] EXCEPT !.committed = FALSE, !.seen = 0]
                       ELSE [Exec!New EXCEPT !.secured = a \in DOMAIN x.inactive]]
             g == [a \in (DOMAIN x.inactive \cup dropped) \ s.layers |->
                     IF a \in dropped THEN x.frames[a[1]] ELSE x.inactive[a]]
             y == [x EXCEPT !.rev = s.rev, !.asg = f, !.inactive = g, !.revoked = 0,
                            !.capacity = FALSE, !.reported = <<>>, !.seen = {}]
  <1>1. Exec!Planned(x, s) = y
    BY DEF Exec!Planned
  <1>2. /\ y.asg = f /\ y.epoch = x.epoch /\ y.frames = x.frames /\ y.rev = s.rev
        /\ y.inactive = g /\ y.seq = x.seq /\ y.revoked = 0 /\ y.seen = {}
        /\ y.reported = <<>> /\ y.capacity \in BOOLEAN /\ Shaped(y)
    <2> HIDE DEF f, g
    <2>1. PICK c \in BOOLEAN : c = FALSE
      OBVIOUS
    <2>2. y = WithPlan(x, s.rev, f, g, 0, c, <<>>, {})
      BY <2>1 DEF WithPlan
    <2>3. Shaped(x)
      BY DEF ExecutorOK
    <2> HIDE DEF y
    <2> QED BY <2>1, <2>2, <2>3, PlanFields
  <1>3. \A a \in s.layers \cap Exec!Held(x) : Less(x.asg[a], f[a])
    BY HeldIs, LessIs
  <1>4. \A a \in s.layers \ Exec!Held(x) :
          f[a] \in Exec!Records /\ f[a].granted = 0 /\ f[a].playing = 0
    <2>1. ASSUME NEW a \in s.layers \ Exec!Held(x)
          PROVE  f[a] \in Exec!Records /\ f[a].granted = 0 /\ f[a].playing = 0
      <3>1. f[a] = [Exec!New EXCEPT !.secured = a \in DOMAIN x.inactive]
        OBVIOUS
      <3> HIDE DEF f
      <3>2. \E r : r = f[a] /\ r = Secured(Exec!New, a \in DOMAIN x.inactive)
        BY <3>1, Zenon DEF Secured
      <3> QED BY <3>2, NewShowing, Zenon
    <2> HIDE DEF f
    <2> QED BY <2>1
  <1>5. f \in Showings /\ DOMAIN f = s.layers
    <2>1. f \in [s.layers -> Exec!Records]
      BY <1>3, <1>4 DEF Less
    <2> HIDE DEF f
    <2> QED BY <2>1, ShowingsIs DEF StateOK
  <1>6. g \in Contents
    <2> DEFINE D == (DOMAIN x.inactive \cup dropped) \ s.layers
    <2>1. dropped \subseteq Assignments /\ \A a \in dropped : x.frames[a[1]] \in Nat
      BY HeldIs DEF ExecutorOK, FrameGens, Exec!Held
    <2>2. DOMAIN x.inactive \subseteq Assignments /\ \A a \in DOMAIN x.inactive : x.inactive[a] \in Nat
      BY DEF ExecutorOK, Contents
    <2>3. g \in [D -> Nat] /\ D \in SUBSET Assignments
      BY <2>1, <2>2
    <2> QED BY <2>3 DEF Contents
  <1>7. <<>> \in Retained(x.seq)
    <2>1. <<>> \in [{} -> SUBSET Assignments]
      OBVIOUS
    <2> QED BY <2>1 DEF Retained
  <1> HIDE DEF y, f, g
  <1>8. ExecutorOK(y)
    <2>1. \A a \in DOMAIN y.asg : a[1] \in DOMAIN y.frames
      BY <1>2, <1>5 DEF StateOK
    <2> QED BY <1>2, <1>5, <1>6, <1>7, <2>1 DEF ExecutorOK, StateOK
  <1>9. Exec!Held(y) = s.layers
    BY <1>2, <1>5 DEF Exec!Held
  <1>10. Fewer(x, y)
    BY <1>2, <1>3, <1>4, <1>9 DEF Fewer, GrantOf, PlayingOf, Sound, Less, GrantOK
  <1> QED BY <1>1, <1>2, <1>8, <1>9, <1>10

\* Assignments given other records of theirs leave the rest of the executor.
LEMMA ChangedIs ==
  ASSUME NEW x, ExecutorOK(x), NEW f, f \in [Exec!Held(x) -> Exec!Records]
  PROVE  LET y == [x EXCEPT !.asg = f] IN
         /\ ExecutorOK(y) /\ SameOffer(x, y) /\ y.asg = f /\ Exec!Held(y) = Exec!Held(x)
  <1> DEFINE y == [x EXCEPT !.asg = f]
  <1>1. Shaped(x)
    BY DEF ExecutorOK
  <1>2. Shaped(y)
    BY <1>1, ShapeStays
  <1>3. /\ y.asg = f /\ y.epoch = x.epoch /\ y.frames = x.frames /\ y.rev = x.rev
        /\ y.inactive = x.inactive /\ y.seq = x.seq /\ y.revoked = x.revoked /\ y.seen = x.seen
        /\ y.reported = x.reported /\ y.capacity = x.capacity
    BY <1>1 DEF Shaped
  <1> HIDE DEF y
  <1>4. DOMAIN f = Exec!Held(x) /\ f \in Showings
    BY HeldIs, ShowingsIs
  <1>5. Exec!Held(y) = Exec!Held(x)
    BY <1>3, <1>4 DEF Exec!Held
  <1>6. ExecutorOK(y)
    <2>1. \A a \in DOMAIN y.asg : a[1] \in DOMAIN y.frames
      BY <1>3, <1>5 DEF ExecutorOK, Exec!Held
    <2> QED BY <1>2, <1>3, <1>4, <2>1 DEF ExecutorOK
  <1> QED BY <1>3, <1>5, <1>6 DEF SameOffer, y

LEMMA TickedIs ==
  ASSUME NEW x, ExecutorOK(x)
  PROVE  LET y == Exec!Ticked(x) IN
         /\ ExecutorOK(y) /\ SameOffer(x, y) /\ Exec!Held(y) = Exec!Held(x)
         /\ Sound(x) => Sound(y)
         /\ \A a \in Assignments : /\ GrantOf(y, a) = GrantOf(x, a)
                                   /\ PlayingOf(y, a) \in {PlayingOf(x, a), GrantOf(x, a)}
  <1> DEFINE due == {a \in Exec!Held(x) :
                       /\ healthy /\ x.asg[a].secured /\ x.asg[a].prepared
                       /\ x.asg[a].granted # 0
                       /\ Start[a[2]] <= now /\ now < End[a]}
             f == [a \in Exec!Held(x) |->
                     IF a \in due THEN [x.asg[a] EXCEPT !.playing = x.asg[a].granted]
                                  ELSE x.asg[a]]
             y == [x EXCEPT !.asg = f]
  <1>1. Exec!Ticked(x) = y
    BY DEF Exec!Ticked, Exec!Changed
  <1>2. ASSUME NEW a \in Exec!Held(x)
        PROVE  /\ f[a] \in Exec!Records /\ f[a].granted = x.asg[a].granted
               /\ f[a].playing \in {x.asg[a].playing, x.asg[a].granted}
               /\ f[a].secured = x.asg[a].secured /\ f[a].prepared = x.asg[a].prepared
    <2>1. \A r \in Exec!Records :
            LET p == [r EXCEPT !.playing = r.granted] IN
            /\ p \in Exec!Records /\ p.granted = r.granted /\ p.playing = r.granted
            /\ p.secured = r.secured /\ p.prepared = r.prepared
      BY DEF Exec!Records
    <2>2. x.asg[a] \in Exec!Records
      BY HeldIs
    <2> HIDE DEF due
    <2> QED BY <2>1, <2>2
  <1>3. f \in [Exec!Held(x) -> Exec!Records]
    BY <1>2
  <1> HIDE DEF f
  <1>4. ExecutorOK(y) /\ SameOffer(x, y) /\ y.asg = f /\ Exec!Held(y) = Exec!Held(x)
    BY <1>3, ChangedIs
  <1> HIDE DEF y
  <1> QED BY <1>1, <1>2, <1>4 DEF Sound, GrantOK, GrantOf, PlayingOf

\* What accept_commit sets in one assignment.
Sees(r, n)     == [r EXCEPT !.seen = n]
Takes(r, n, g) == [Sees(r, n) EXCEPT !.committed = TRUE, !.granted = g]

LEMMA SeesIs ==
  ASSUME NEW r \in Exec!Records, NEW n \in Nat, NEW g \in Nat
  PROVE  /\ Sees(r, n) \in Exec!Records /\ Sees(r, n).granted = r.granted
         /\ Sees(r, n).playing = r.playing /\ Sees(r, n).secured = r.secured
         /\ Sees(r, n).prepared = r.prepared
         /\ Takes(r, n, g) \in Exec!Records /\ Takes(r, n, g).granted = g
         /\ Takes(r, n, g).playing = r.playing /\ Takes(r, n, g).secured = r.secured
         /\ Takes(r, n, g).prepared = r.prepared
  <1>1. /\ Sees(r, n) \in Exec!Records /\ Sees(r, n).granted = r.granted
        /\ Sees(r, n).playing = r.playing /\ Sees(r, n).secured = r.secured
        /\ Sees(r, n).prepared = r.prepared
    BY DEF Sees, Exec!Records
  <1>2. \A q \in Exec!Records :
          LET t == [q EXCEPT !.committed = TRUE, !.granted = g] IN
          /\ t \in Exec!Records /\ t.granted = g /\ t.playing = q.playing
          /\ t.secured = q.secured /\ t.prepared = q.prepared
    BY DEF Exec!Records
  <1> QED BY <1>1, <1>2 DEF Takes

\* A grant is taken over from a Commit, for what is secured and prepared, or stays.
LEMMA AcceptedIs ==
  ASSUME NEW x, ExecutorOK(x), NEW s, StateOK(s)
  PROVE  LET y == Exec!Accepted(x, s) IN
         /\ ExecutorOK(y) /\ Exec!Held(y) = Exec!Held(x)
         /\ y.epoch = x.epoch /\ y.frames = x.frames /\ y.rev = x.rev /\ y.revoked = x.revoked
         /\ Sound(x) => Sound(y)
         /\ \A a \in Assignments :
              /\ \/ GrantOf(y, a) = GrantOf(x, a)
                 \/ GrantOf(y, a) = x.rev /\ Grants(s, a)
              /\ PlayingOf(y, a) = PlayingOf(x, a)
  <1> DEFINE fresh == s.commits \ x.seen
             taken == {c \in fresh : Exec!Acceptable(x, c)}
             Se(r, c) == [r EXCEPT !.seen = IF @ < c.seq THEN c.seq ELSE @]
             Up(a) == LET r  == x.asg[a]
                          cs == {c \in fresh : a \in c.ids}
                      IN  IF cs = {} THEN r
                          ELSE LET c == CHOOSE c \in cs : TRUE
                               IN  IF c \in taken
                                     THEN [Se(r, c) EXCEPT !.committed = TRUE, !.granted = x.rev]
                                     ELSE Se(r, c)
             f == [a \in Exec!Held(x) |-> Up(a)]
             v == [x EXCEPT !.asg = f]
             y == [x EXCEPT !.asg = f, !.seen = @ \cup s.commits]
  <1>1. Exec!Accepted(x, s) = y
    BY DEF Exec!Accepted
  <1>2. x.rev \in Nat
    BY DEF ExecutorOK
  <1>3. ASSUME NEW a \in Exec!Held(x)
        PROVE  /\ f[a] \in Exec!Records /\ f[a].playing = x.asg[a].playing
               /\ f[a].granted = x.asg[a].granted \/ (f[a].granted = x.rev /\ Grants(s, a))
               /\ GrantOK(x.asg[a]) => GrantOK(f[a])
    <2> DEFINE r  == x.asg[a]
               cs == {c \in fresh : a \in c.ids}
               c0 == CHOOSE c \in cs : TRUE
               n  == IF r.seen < c0.seq THEN c0.seq ELSE r.seen
    <2>1. r \in Exec!Records
      BY HeldIs
    <2>2. CASE cs = {}
      <3>1. f[a] = r
        BY <2>2
      <3> HIDE DEF f, r
      <3> QED BY <2>1, <3>1 DEF r
    <2>3. CASE cs # {}
      <3>1. c0 \in cs
        BY <2>3
      <3>2. c0 \in fresh /\ a \in c0.ids /\ c0 \in s.commits
        BY <3>1
      <3>3. n \in Nat
        BY <2>1, <3>2 DEF StateOK, Exec!Records
      <3>4. f[a] = IF c0 \in taken THEN Takes(r, n, x.rev) ELSE Sees(r, n)
        BY <2>3 DEF Takes, Sees
      <3>5. c0 \in taken => r.secured /\ r.prepared
        BY <3>2 DEF Exec!Acceptable, Exec!Preparable
      <3>6. Grants(s, a)
        BY <3>2 DEF Grants
      <3> HIDE DEF f, n, c0, taken, cs, r
      <3>7. /\ Sees(r, n) \in Exec!Records /\ Sees(r, n).granted = r.granted
            /\ Sees(r, n).playing = r.playing /\ Sees(r, n).secured = r.secured
            /\ Sees(r, n).prepared = r.prepared
            /\ Takes(r, n, x.rev) \in Exec!Records /\ Takes(r, n, x.rev).granted = x.rev
            /\ Takes(r, n, x.rev).playing = r.playing
            /\ Takes(r, n, x.rev).secured = r.secured
            /\ Takes(r, n, x.rev).prepared = r.prepared
        BY <1>2, <2>1, <3>3, SeesIs
      <3>8. CASE c0 \in taken
        BY <3>4, <3>5, <3>6, <3>7, <3>8 DEF GrantOK, r
      <3>9. CASE c0 \notin taken
        BY <3>4, <3>7, <3>9 DEF GrantOK, r
      <3> QED BY <3>8, <3>9
    <2> QED BY <2>2, <2>3
  <1>4. f \in [Exec!Held(x) -> Exec!Records]
    BY <1>3
  <1> HIDE DEF f
  <1>5. ExecutorOK(v) /\ SameOffer(x, v) /\ v.asg = f /\ Exec!Held(v) = Exec!Held(x)
    BY <1>4, ChangedIs
  <1>6. y = [v EXCEPT !.seen = x.seen \cup s.commits]
    BY DEF ExecutorOK, Shaped
  <1> HIDE DEF v, y
  <1>7. Shaped(v)
    BY <1>5 DEF ExecutorOK
  <1>8. Shaped(y)
    BY <1>6, <1>7, ShapeStays
  <1>9. /\ y.asg = v.asg /\ y.epoch = v.epoch /\ y.frames = v.frames /\ y.rev = v.rev
        /\ y.inactive = v.inactive /\ y.seq = v.seq /\ y.revoked = v.revoked
        /\ y.reported = v.reported /\ y.capacity = v.capacity
    BY <1>6, <1>7 DEF Shaped
  <1>10. ExecutorOK(y) /\ Exec!Held(y) = Exec!Held(x)
    BY <1>5, <1>8, <1>9 DEF ExecutorOK, Exec!Held
  <1>11. Sound(x) => Sound(y)
    BY <1>3, <1>5, <1>9, <1>10 DEF Sound
  <1>12. \A a \in Assignments :
           /\ \/ GrantOf(y, a) = GrantOf(x, a)
              \/ GrantOf(y, a) = x.rev /\ Grants(s, a)
           /\ PlayingOf(y, a) = PlayingOf(x, a)
    BY <1>3, <1>5, <1>9, <1>10 DEF GrantOf, PlayingOf
  <1> QED BY <1>1, <1>5, <1>9, <1>10, <1>11, <1>12 DEF SameOffer

\* From x to y a showing is granted and played as before, under the same epoch, or as a
\* Commit of s grants it.
Moves(x, y, s, a) ==
  /\ \/ GrantOf(y, a) = 0
     \/ ~NewEpoch(x, s) /\ GrantOf(y, a) = GrantOf(x, a)
     \/ GrantOf(y, a) = s.rev /\ Grants(s, a)
  /\ \/ PlayingOf(y, a) \in {0, GrantOf(y, a)}
     \/ ~NewEpoch(x, s) /\ PlayingOf(y, a) = PlayingOf(x, a)

\* Every revocation of s after n was taken.
TakesAfter(y, s, n) ==
  /\ y.revoked = n \/ \E r \in s.revocations : y.revoked = r.seq
  /\ \A r \in s.revocations : r.seq > n =>
       \A a \in r.ids \cap Assignments : ~Grants(s, a) => Unplayed(y, a)

\* The plan taken before stays: s brings none, or the same, or one that is refused.
StaysWith(x, y, s) ==
  /\ y.rev = RevOf(x, s) /\ Exec!Held(y) \subseteq Exec!Held(x)
  /\ NewEpoch(x, s) => Exec!Held(y) = {}
  /\ \/ s.rev \in {0, RevOf(x, s)} /\ TakesAfter(y, s, RevokedOf(x, s))
     \/ y.revoked = RevokedOf(x, s) /\ \A a \in Assignments : Unplayed(x, a) => Unplayed(y, a)

\* The plan of s is taken.
TakesPlan(y, s) ==
  y.rev = s.rev /\ s.rev # 0 /\ Exec!Held(y) = s.layers /\ TakesAfter(y, s, 0)

\* _apply_state from the revocations on, for a State whose plan p has taken.
AfterPlan(p, s, ready, fits) ==
  LET y == Exec!Revoked(p, s)
  IN  Exec!Ticked(Exec!Accepted(
        Exec!PreparePass(y, ready \cap Exec!Preparable(y), fits), s))

LEMMA AfterPlanIs ==
  ASSUME NEW p, ExecutorOK(p), NEW s, StateOK(s), events \in Nat,
         NEW ready, NEW fits \in BOOLEAN, \A a : Grants(s, a) => p.rev = s.rev
  PROVE  LET z == AfterPlan(p, s, ready, fits) IN
         /\ ExecutorOK(z) /\ Exec!Held(z) = Exec!Held(p) /\ z.epoch = p.epoch
         /\ z.rev = p.rev /\ (Sound(p) => Sound(z))
         /\ TakesAfter(z, s, p.revoked)
         /\ \A a \in Assignments :
              /\ \/ GrantOf(z, a) \in {0, GrantOf(p, a)}
                 \/ GrantOf(z, a) = s.rev /\ Grants(s, a)
              /\ PlayingOf(z, a) \in {0, PlayingOf(p, a), GrantOf(z, a)}
  <1> DEFINE y == Exec!Revoked(p, s)
             rd == ready \cap Exec!Preparable(y)
             v == Exec!PreparePass(y, rd, fits)
             w == Exec!Accepted(v, s)
             z == Exec!Ticked(w)
  <1>1. /\ ExecutorOK(y) /\ Fewer(p, y) /\ Exec!Held(y) = Exec!Held(p)
        /\ y.epoch = p.epoch /\ y.rev = p.rev
        /\ y.revoked = p.revoked \/ \E r \in s.revocations : y.revoked = r.seq
        /\ \A r \in s.revocations : r.seq > p.revoked =>
             \A a \in r.ids \cap Assignments : Unplayed(y, a)
    BY RevokedIs
  <1> HIDE DEF y, rd
  <1>2. ExecutorOK(v) /\ Fewer(y, v) /\ SameOffer(y, v) /\ Exec!Held(v) = Exec!Held(y)
    BY <1>1, PreparePassIs
  <1> HIDE DEF v
  <1>3. /\ ExecutorOK(w) /\ Exec!Held(w) = Exec!Held(v)
        /\ w.epoch = v.epoch /\ w.rev = v.rev /\ w.revoked = v.revoked
        /\ Sound(v) => Sound(w)
        /\ \A a \in Assignments :
             /\ \/ GrantOf(w, a) = GrantOf(v, a)
                \/ GrantOf(w, a) = v.rev /\ Grants(s, a)
             /\ PlayingOf(w, a) = PlayingOf(v, a)
    BY <1>2, AcceptedIs
  <1> HIDE DEF w
  <1>4. /\ ExecutorOK(z) /\ SameOffer(w, z) /\ Exec!Held(z) = Exec!Held(w)
        /\ Sound(w) => Sound(z)
        /\ \A a \in Assignments : /\ GrantOf(z, a) = GrantOf(w, a)
                                  /\ PlayingOf(z, a) \in {PlayingOf(w, a), GrantOf(w, a)}
    BY <1>3, TickedIs
  <1> HIDE DEF z
  <1>5. Fewer(p, v)
    BY <1>1, <1>2, FewerTransitive
  <1>6. z.epoch = p.epoch /\ z.rev = p.rev /\ z.revoked = y.revoked /\ v.rev = p.rev
    BY <1>1, <1>2, <1>3, <1>4 DEF SameOffer
  <1>7. Sound(p) => Sound(z)
    BY <1>3, <1>4, <1>5 DEF Fewer
  <1>8. ASSUME NEW a \in Assignments
        PROVE  /\ \/ GrantOf(z, a) \in {0, GrantOf(p, a)}
                  \/ GrantOf(z, a) = s.rev /\ Grants(s, a)
               /\ PlayingOf(z, a) \in {0, PlayingOf(p, a), GrantOf(z, a)}
    BY <1>3, <1>4, <1>5, <1>6 DEF Fewer
  <1>9. ASSUME NEW a \in Assignments, Unplayed(y, a), ~Grants(s, a) PROVE Unplayed(z, a)
    <2>1. Unplayed(v, a)
      BY <1>2, <1>9 DEF Fewer, Unplayed
    <2> QED BY <1>3, <1>4, <1>9, <2>1 DEF Unplayed
  <1>10. TakesAfter(z, s, p.revoked)
    BY <1>1, <1>6, <1>9 DEF TakesAfter
  <1>11. z = AfterPlan(p, s, ready, fits)
    BY DEF z, w, v, rd, y, AfterPlan
  <1> QED BY <1>1, <1>2, <1>3, <1>4, <1>6, <1>7, <1>8, <1>10, <1>11

LEMMA AppliedIs ==
  ASSUME NEW x, ExecutorOK(x), NEW s, StateOK(s), events \in Nat,
         NEW ready, NEW fits \in BOOLEAN, \A a : Grants(s, a) => s.rev # 0
  PROVE  LET y == Exec!Applied(x, s, ready, fits) IN
         /\ ExecutorOK(y) /\ y.epoch = IF NewEpoch(x, s) THEN s.epoch ELSE x.epoch
         /\ Sound(x) => Sound(y)
         /\ \A a \in Assignments : Moves(x, y, s, a)
         /\ StaysWith(x, y, s) \/ TakesPlan(y, s)
  <1> DEFINE y == Exec!Applied(x, s, ready, fits)
             c == Exec!Configured(x, s)
             offers == s.rev \notin {0, c.rev}
             p == IF offers THEN Exec!Planned(c, s) ELSE c
             z == AfterPlan(p, s, ready, fits)
  <1>1. y = IF offers /\ Exec!Immutable(c, s) THEN c ELSE z
    BY DEF Exec!Applied, AfterPlan
  <1>2. /\ ExecutorOK(c) /\ Fewer(x, c) /\ Exec!Held(c) \subseteq Exec!Held(x)
        /\ c.epoch = IF NewEpoch(x, s) THEN s.epoch ELSE x.epoch
        /\ NewEpoch(x, s) => Exec!Held(c) = {}
        /\ c.frames = s.frames /\ c.rev = RevOf(x, s) /\ c.revoked = RevokedOf(x, s)
    BY ConfiguredIs
  <1> HIDE DEF c
  <1>3. ASSUME NEW a \in Assignments
        PROVE  /\ GrantOf(c, a) = 0 \/ (~NewEpoch(x, s) /\ GrantOf(c, a) = GrantOf(x, a))
               /\ PlayingOf(c, a) = 0 \/ (~NewEpoch(x, s) /\ PlayingOf(c, a) = PlayingOf(x, a))
    <2>1. NewEpoch(x, s) => GrantOf(c, a) = 0 /\ PlayingOf(c, a) = 0
      BY <1>2 DEF GrantOf, PlayingOf
    <2> QED BY <1>2, <2>1 DEF Fewer
  <1>4. CASE offers /\ Exec!Immutable(c, s)
    <2>1. y = c
      BY <1>1, <1>4
    <2> HIDE DEF y
    <2>2. \A a \in Assignments : Moves(x, y, s, a)
      BY <1>3, <2>1 DEF Moves
    <2>3. StaysWith(x, y, s)
      BY <1>2, <2>1 DEF StaysWith, Fewer, Unplayed
    <2>4. Sound(x) => Sound(y)
      BY <1>2, <2>1 DEF Fewer
    <2> QED BY <1>2, <2>1, <2>2, <2>3, <2>4 DEF y
  <1>5. CASE ~(offers /\ Exec!Immutable(c, s))
    <2>1. y = z
      BY <1>1, <1>5
    <2> HIDE DEF y
    <2>2. /\ ExecutorOK(p) /\ Fewer(c, p) /\ p.epoch = c.epoch
          /\ offers => Exec!Held(p) = s.layers /\ p.rev = s.rev /\ p.revoked = 0
          /\ ~offers => p = c
      <3>1. CASE offers
        <4>1. p = Exec!Planned(c, s)
          BY <3>1
        <4> HIDE DEF p
        <4> QED BY <1>2, <3>1, <4>1, PlannedIs
      <3>2. CASE ~offers
        BY <1>2, <3>2 DEF Fewer
      <3> QED BY <3>1, <3>2
    <2>3. \A a : Grants(s, a) => p.rev = s.rev
      BY <2>2
    <2> HIDE DEF p
    <2>4. /\ ExecutorOK(z) /\ Exec!Held(z) = Exec!Held(p) /\ z.epoch = p.epoch
          /\ z.rev = p.rev /\ (Sound(p) => Sound(z))
          /\ TakesAfter(z, s, p.revoked)
          /\ \A a \in Assignments :
               /\ \/ GrantOf(z, a) \in {0, GrantOf(p, a)}
                  \/ GrantOf(z, a) = s.rev /\ Grants(s, a)
               /\ PlayingOf(z, a) \in {0, PlayingOf(p, a), GrantOf(z, a)}
      BY <2>2, <2>3, AfterPlanIs
    <2> HIDE DEF z
    <2>5. ASSUME NEW a \in Assignments PROVE Moves(x, y, s, a)
      <3>1. GrantOf(p, a) \in {0, GrantOf(c, a)} /\ PlayingOf(p, a) \in {0, PlayingOf(c, a)}
        BY <2>2 DEF Fewer
      <3> QED BY <1>3, <2>1, <2>4, <3>1 DEF Moves
    <2>6. Sound(x) => Sound(y)
      BY <1>2, <2>1, <2>2, <2>4 DEF Fewer
    <2>7. CASE offers
      <3>1. TakesPlan(y, s)
        BY <2>1, <2>2, <2>4, <2>7 DEF TakesPlan
      <3> QED BY <1>2, <2>1, <2>2, <2>4, <2>5, <2>6, <3>1 DEF y
    <2>8. CASE ~offers
      <3>1. StaysWith(x, y, s)
        BY <1>2, <2>1, <2>2, <2>4, <2>8 DEF StaysWith
      <3> QED BY <1>2, <2>1, <2>2, <2>4, <2>5, <2>6, <3>1 DEF y
    <2> QED BY <2>7, <2>8
  <1> QED BY <1>4, <1>5

-----------------------------------------------------------------------------
(* What Central keeps *)

\* The key of a grant is never taken back: its row is withdrawn, or written again.
KeysKept == \A r \in commits : \E n \in commits' : Key(n) = Key(r)

LEMMA PassKeys ==
  ASSUME Typed, NEW dropped \in SUBSET GroupIds, NEW rows \in SUBSET Rows,
         NEW fb \in [Players -> Reports], NEW active \in SUBSET Players,
         CommitDue(dropped, rows, fb, active), NEW r \in rows
  PROVE  \E n \in commits' : Key(n) = Key(r)
  <1> DEFINE new == NewOf(dropped, rows, fb, active)
             old == OldOf(dropped, rows, fb, active)
  <1>1. commits' = {x \in old : \A n \in new : Key(n) # Key(x)} \cup new
    BY CommitRows
  <1>2. r \in old \/ Off(r) \in old
    BY DEF OldOf, Withdrawn, Off
  <1>3. Key(Off(r)) = Key(r)
    BY RowOff DEF Off, Key
  <1> HIDE DEF new, old
  <1>4. PICK x \in old : Key(x) = Key(r)
    BY <1>2, <1>3
  <1>5. CASE \E n \in new : Key(n) = Key(x)
    BY <1>1, <1>4, <1>5
  <1>6. CASE \A n \in new : Key(n) # Key(x)
    BY <1>1, <1>4, <1>6
  <1> QED BY <1>5, <1>6

LEMMA KeysStay ==
  ASSUME Inv, [AnyNext]_vars
  PROVE  KeysKept
  <1> SUFFICES ASSUME NEW r \in commits PROVE \E n \in commits' : Key(n) = Key(r)
    BY DEF KeysKept
  <1>0. Typed /\ GrantsOK /\ r \in Rows /\ Key(Off(r)) = Key(r)
    BY RowOff DEF Inv, Safe, Typed, Off, Key
  <1>1. CASE Plan
    <2>1. PICK active \in SUBSET Players : Planned(active)
      BY <1>1, PlanIs
    <2>2. r \in commits' \/ Off(r) \in commits'
      BY <2>1 DEF Planned, Withdrawn, Off
    <2> QED BY <1>0, <2>2
  <1>2. CASE Settle
    <2>1. PICK active \in SUBSET Players : CommitDue({}, commits, feedback, active)
      BY <1>2 DEF Settle
    <2>2. commits \in SUBSET Rows /\ feedback \in [Players -> Reports]
      BY <1>0 DEF Typed
    <2> QED BY <1>0, <2>1, <2>2, PassKeys
  <1>3. ASSUME NEW p \in Players, Heard(p) PROVE \E n \in commits' : Key(n) = Key(r)
    <2>1. PICK report \in Reports, active \in SUBSET Players : Reported(p, report, active)
      BY <1>0, <1>3, ReportIs
    <2>2. PICK fb \in [Players -> Reports] : fb = [feedback EXCEPT ![p] = report]
      BY <1>0 DEF Typed
    <2>3. /\ Left(p, report) \in SUBSET Rows /\ Dropped(p, report) \in SUBSET GroupIds
      BY <1>0, LeftIs
    <2>4. CommitDue(Dropped(p, report), Left(p, report), fb, active)
      BY <2>1, <2>2 DEF Reported
    <2>5. r \in Left(p, report) \/ Off(r) \in Left(p, report)
      BY DEF Left, Off
    <2>6. PICK x \in Left(p, report) : Key(x) = Key(r)
      BY <1>0, <2>5
    <2>7. \E n \in commits' : Key(n) = Key(x)
      BY <1>0, <2>3, <2>4, PassKeys
    <2> QED BY <2>6, <2>7
  <1>4. ASSUME NEW f \in Frames, OutputLost(f) PROVE \E n \in commits' : Key(n) = Key(r)
    <2>1. r \in commits' \/ Off(r) \in commits'
      BY <1>4 DEF OutputLost, Off
    <2> QED BY <1>0, <2>1
  <1>5. CASE UNCHANGED commits
    BY <1>5
  <1> QED BY <1>1, <1>2, <1>3, <1>4, <1>5
          DEF AnyNext, vars, coordVars, EditTimeline, Rebind, OutputRecovers, Enroll, Tick

\* A Player's offer stays, or is replaced by a later one of the epoch it has.
OfferKept(p) ==
  \/ plan'[p] = plan[p]
  \/ /\ plan'[p].epoch = epoch[p] /\ plan'[p].rev = NextRev(p) /\ epoch' = epoch
     /\ \A a \in DOMAIN plan'[p].groups : FrameOf(a) \in DOMAIN plan'[p].frames

LEMMA OfferStays ==
  ASSUME Inv, [AnyNext]_vars, NEW p \in Players
  PROVE  OfferKept(p)
  <1>1. CASE Plan
    <2>1. PICK active \in SUBSET Players, offered \in SUBSET Players, renewal \in BOOLEAN :
            /\ plan' = [q \in Players |->
                 IF /\ q \in offered
                    /\ \/ renewal \/ ~Standing(q)
                       \/ plan[q].groups # Proposal(q, active)
                   THEN [epoch |-> epoch[q], rev |-> NextRev(q),
                         frames |-> Bindings(q), groups |-> Proposal(q, active)]
                   ELSE plan[q]]
            /\ UNCHANGED wallVars
      BY <1>1 DEF Plan
    <2>2. \/ plan'[p] = plan[p]
          \/ plan'[p] = [epoch |-> epoch[p], rev |-> NextRev(p),
                         frames |-> Bindings(p), groups |-> Proposal(p, active)]
      BY <2>1
    <2>3. \A a \in DOMAIN Proposal(p, active) : FrameOf(a) \in DOMAIN Bindings(p)
      BY AssignmentParts DEF Proposal, Bindings, Placed, Inv, Typed
    <2> QED BY <2>1, <2>2, <2>3 DEF OfferKept, wallVars
  <1>2. CASE plan' = plan
    BY <1>2 DEF OfferKept
  <1> QED BY <1>1, <1>2 DEF AnyNext, vars, coordVars, Settle, EditTimeline, Rebind, OutputLost,
             OutputRecovers, Enroll, Tick, Heard, Readiness

-----------------------------------------------------------------------------
(* Skip numbers *)

LEMMA PlaceIs ==
  ASSUME NEW S, IsFiniteSet(S), NEW g \in S, g[2] \in Nat
  PROVE  Place(S, g) \in 1..Cardinality(S)
  <1> DEFINE T == {h \in S : h[1] < g[1] \/ (h[1] = g[1] /\ h[2] <= g[2])}
  <1>1. g \in T /\ T \subseteq S
    OBVIOUS
  <1> HIDE DEF T
  <1>2. IsFiniteSet(T) /\ Cardinality(T) <= Cardinality(S)
    BY <1>1, FS_Subset
  <1>3. Cardinality(T) \in Nat /\ Cardinality(S) \in Nat
    BY <1>2, FS_CardinalityType
  <1>4. Cardinality(T) # 0
    BY <1>1, <1>2, FS_EmptySet
  <1> QED BY <1>2, <1>3, <1>4 DEF Place, T

\* A skip of a transaction is numbered among the skips of that transaction.
LEMMA RankIs ==
  ASSUME NEW S, IsFiniteSet(S), NEW first \in SUBSET S, NEW g \in S, g[2] \in Nat
  PROVE  Rank(first, S, g) \in 1..Cardinality(S)
  <1>1. IsFiniteSet(first) /\ IsFiniteSet(S \ first)
    BY FS_Subset, FS_Difference
  <1>2. /\ Cardinality(S) \in Nat /\ Cardinality(first) \in Nat
        /\ Cardinality(S \ first) \in Nat
    BY <1>1, FS_CardinalityType
  <1>3. Cardinality(S \ first) = Cardinality(S) - Cardinality(first)
    <2>1. S \cap first = first
      OBVIOUS
    <2> QED BY <2>1, FS_Difference
  <1>4. CASE g \in first
    <2>1. Place(first, g) \in 1..Cardinality(first)
      BY <1>1, <1>4, PlaceIs
    <2>2. Cardinality(first) <= Cardinality(S)
      BY FS_Subset
    <2> QED BY <1>2, <1>4, <2>1, <2>2 DEF Rank
  <1>5. CASE g \notin first
    <2>1. Place(S \ first, g) \in 1..Cardinality(S \ first)
      BY <1>1, <1>5, PlaceIs
    <2> QED BY <1>2, <1>3, <1>5, <2>1 DEF Rank
  <1> QED BY <1>4, <1>5

\* Cohorts of gs skipped in hs, numbered after n and no later than m; the others keep theirs.
NumberedIn(gs, hs, S, n, m) ==
  \A c \in Cues : \A i \in 1..Len(gs[c]) :
    IF <<c, i>> \in S THEN hs[c][i].skip > n /\ hs[c][i].skip <= m
                      ELSE hs[c][i].skip = gs[c][i].skip

LEMMA SkippedNumbers ==
  ASSUME NEW gs \in Table, events \in Nat, NEW S, IsFiniteSet(S), NEW first \in SUBSET S
  PROVE  NumberedIn(gs, Skipped(gs, first, S), S, events, events + Cardinality(S))
  <1> SUFFICES ASSUME NEW c \in Cues, NEW i \in 1..Len(gs[c])
               PROVE  LET s == Skipped(gs, first, S)[c][i].skip IN
                      IF <<c, i>> \in S THEN s > events /\ s <= events + Cardinality(S)
                                        ELSE s = gs[c][i].skip
    BY DEF NumberedIn
  <1>1. Skipped(gs, first, S)[c][i] =
          IF <<c, i>> \in S
            THEN [gs[c][i] EXCEPT !.status = "skipped",
                                  !.skip = events + Rank(first, S, <<c, i>>)]
            ELSE gs[c][i]
    <2>1. Skipped(gs, first, S)[c] = [n \in 1..Len(gs[c]) |->
            IF <<c, n>> \in S
              THEN [gs[c][n] EXCEPT !.status = "skipped",
                                    !.skip = events + Rank(first, S, <<c, n>>)]
              ELSE gs[c][n]]
      BY DEF Skipped, Table
    <2> QED BY <2>1
  <1>2. gs[c][i] \in Cohorts
    BY DEF Table
  <1>3. CASE <<c, i>> \in S
    <2>1. Rank(first, S, <<c, i>>) \in 1..Cardinality(S)
      <3>1. <<c, i>>[2] \in Nat
        BY DEF Table
      <3> QED BY <1>3, <3>1, RankIs
    <2>2. Cardinality(S) \in Nat
      BY FS_CardinalityType
    <2>3. Skipped(gs, first, S)[c][i].skip = events + Rank(first, S, <<c, i>>)
      BY <1>1, <1>2, <1>3 DEF Cohorts
    <2> QED BY <1>3, <2>1, <2>2, <2>3
  <1>4. CASE <<c, i>> \notin S
    BY <1>1, <1>4
  <1> QED BY <1>3, <1>4

LEMMA CommittedNumbers ==
  ASSUME NEW gs \in Table, NEW ready, NEW c \in Cues, NEW i \in 1..Len(gs[c])
  PROVE  Committed(gs, ready)[c][i].skip = gs[c][i].skip
  <1>1. Committed(gs, ready)[c][i] =
          IF <<c, i>> \in ready THEN [gs[c][i] EXCEPT !.status = "committed"] ELSE gs[c][i]
    BY DEF Committed, Table
  <1>2. gs[c][i] \in Cohorts
    BY DEF Table
  <1> QED BY <1>1, <1>2 DEF Cohorts

\* What a step does to skips: those there were keep their number, new ones come after
\* every skip so far.
SkipsOnward ==
  /\ events' \in Nat /\ events <= events'
  /\ \A g \in GroupIds :
       /\ g \in GroupIds'
       /\ Cohort(g).status = "skipped" =>
            Cohort(g)'.status = "skipped" /\ Cohort(g)'.skip = Cohort(g).skip
       /\ Cohort(g).status # "skipped" /\ Cohort(g)'.status = "skipped" =>
            Cohort(g)'.skip > events /\ Cohort(g)'.skip <= events'
  /\ \A g \in GroupIds' : g \notin GroupIds => Cohort(g)'.status # "skipped"

LEMMA PassOnward ==
  ASSUME Typed, NEW dropped \in SUBSET GroupIds, NEW rows \in SUBSET Rows,
         NEW fb \in [Players -> Reports], NEW active \in SUBSET Players,
         CommitDue(dropped, rows, fb, active), \A g \in dropped : Cohort(g).status # "skipped"
  PROVE  SkipsOnward
  <1> DEFINE ready == ReadyOf(dropped, fb, active)
             skips == SkipsOf(dropped, fb, active)
             mid   == Skipped(groups, dropped, skips)
  <1>1. groups' = Committed(mid, ready) /\ events' = events + Cardinality(skips)
    BY DEF CommitDue, ReadyOf, SkipsOf
  <1>2. PassGroups(dropped, ready, skips)
    BY CommitGroups
  <1>3. skips \subseteq GroupIds /\ dropped \in SUBSET skips
    BY <1>2 DEF PassGroups, SkipsOf
  <1>4. IsFiniteSet(skips) /\ Cardinality(skips) \in Nat
    BY <1>3, FiniteIds, FS_Subset, FS_CardinalityType
  <1>5. groups \in Table /\ events \in Nat
    BY DEF Typed, Table
  <1> HIDE DEF ready, skips
  <1>6. NumberedIn(groups, mid, skips, events, events')
    BY <1>1, <1>3, <1>4, <1>5, SkippedNumbers
  <1>7. SameCohorts(groups, mid)
    BY <1>3, <1>4, <1>5, FS_Subset, SkippedIs
  <1> HIDE DEF mid
  <1>8. NumberedIn(groups, groups', skips, events, events')
    <2>1. mid \in Table /\ \A c \in Cues : Len(mid[c]) = Len(groups[c])
      BY <1>7 DEF SameCohorts
    <2>2. \A c \in Cues : \A i \in 1..Len(groups[c]) : groups'[c][i].skip = mid[c][i].skip
      BY <1>1, <2>1, CommittedNumbers
    <2> QED BY <1>6, <2>2 DEF NumberedIn
  <1>9. GroupIds' = GroupIds
    BY <1>2, IdsSame DEF PassGroups, SameCohorts
  <1>10. ASSUME NEW g \in GroupIds
         PROVE  /\ Cohort(g).status = "skipped" =>
                     Cohort(g)'.status = "skipped" /\ Cohort(g)'.skip = Cohort(g).skip
                /\ Cohort(g).status # "skipped" /\ Cohort(g)'.status = "skipped" =>
                     Cohort(g)'.skip > events /\ Cohort(g)'.skip <= events'
    <2>1. g = <<g[1], g[2]>> /\ g[1] \in Cues /\ g[2] \in 1..Len(groups[g[1]])
      BY GroupIdForm
    <2>2. g \in skips => Cohort(g).status # "skipped"
      BY <1>2 DEF PassGroups
    <2>3. Cohort(g)'.status = IF g \in ready THEN "committed"
                              ELSE IF g \in skips THEN "skipped" ELSE Cohort(g).status
      BY <1>2, <2>1 DEF PassGroups, Cohort
    <2>4. IF g \in skips THEN Cohort(g)'.skip > events /\ Cohort(g)'.skip <= events'
                         ELSE Cohort(g)'.skip = Cohort(g).skip
      BY <1>8, <2>1 DEF NumberedIn, Cohort
    <2>5. g \in ready => Cohort(g).status # "skipped"
      BY <1>2 DEF PassGroups
    <2> QED BY <2>2, <2>3, <2>4, <2>5
  <1> QED BY <1>1, <1>4, <1>5, <1>9, <1>10 DEF SkipsOnward

LEMMA PlanOnward ==
  ASSUME Typed, NEW active \in SUBSET Players, Planned(active)
  PROVE  SkipsOnward
  <1> DEFINE S == Superseded(active)
             kept == Skipped(groups, Orphans, S)
  <1>1. S \subseteq GroupIds /\ IsFiniteSet(S) /\ Cardinality(S) \in Nat /\ Orphans \in SUBSET S
    BY SupersededIs DEF Superseded
  <1>2. groups \in Table /\ events \in Nat
    BY DEF Typed, Table
  <1>3. groups' = Regrouped(active) /\ events' = events + Cardinality(S)
    BY DEF Planned
  <1>4. \A g \in S : Cohort(g).status # "skipped"
    BY DEF Superseded, Orphans
  <1> HIDE DEF S
  <1>5. NumberedIn(groups, kept, S, events, events')
    BY <1>1, <1>2, <1>3, SkippedNumbers
  <1>6. SameCohorts(groups, kept)
    BY <1>1, <1>2, FS_Subset, SkippedIs
  <1>7. groups' = [c \in Cues |-> IF Renewed(c, active)
                                    THEN Append(kept[c], NewCohort(c, active)) ELSE kept[c]]
    BY <1>3 DEF Regrouped, kept, S
  <1>8. /\ groups' \in Table
        /\ \A c \in Cues :
             /\ Len(groups'[c]) = IF Renewed(c, active) THEN Len(groups[c]) + 1
                                                        ELSE Len(groups[c])
             /\ \A n \in 1..Len(groups[c]) :
                  groups'[c][n].status = IF <<c, n>> \in S THEN "skipped"
                                                           ELSE groups[c][n].status
    BY <1>3, RegroupedIs DEF S
  <1> HIDE DEF kept
  <1>9. ASSUME NEW c \in Cues
        PROVE  /\ \A n \in 1..Len(groups[c]) : groups'[c][n] = kept[c][n]
               /\ Renewed(c, active) =>
                    groups'[c][Len(groups[c]) + 1] = NewCohort(c, active)
    <2>1. kept[c] \in Seq(Cohorts) /\ Len(kept[c]) = Len(groups[c])
      BY <1>6 DEF SameCohorts, Table
    <2>2. groups'[c] = IF Renewed(c, active) THEN Append(kept[c], NewCohort(c, active))
                                             ELSE kept[c]
      BY <1>7
    <2>3. Len(groups[c]) \in Nat
      BY <1>2 DEF Table
    <2>4. CASE Renewed(c, active)
      BY <2>1, <2>2, <2>3, <2>4
    <2>5. CASE ~Renewed(c, active)
      BY <2>2, <2>5
    <2> QED BY <2>4, <2>5
  <1>10. \A c \in Cues : Len(groups'[c]) >= Len(groups[c])
    BY <1>2, <1>8 DEF Table
  <1>11. \A g \in GroupIds : g \in GroupIds'
    BY <1>8, <1>10, IdsStay
  <1>12. ASSUME NEW g \in GroupIds
         PROVE  /\ Cohort(g).status = "skipped" =>
                     Cohort(g)'.status = "skipped" /\ Cohort(g)'.skip = Cohort(g).skip
                /\ Cohort(g).status # "skipped" /\ Cohort(g)'.status = "skipped" =>
                     Cohort(g)'.skip > events /\ Cohort(g)'.skip <= events'
    <2>1. g = <<g[1], g[2]>> /\ g[1] \in Cues /\ g[2] \in 1..Len(groups[g[1]])
      BY GroupIdForm
    <2>2. Cohort(g)'.status = IF g \in S THEN "skipped" ELSE Cohort(g).status
      BY <1>8, <2>1 DEF Cohort
    <2>3. IF g \in S THEN Cohort(g)'.skip > events /\ Cohort(g)'.skip <= events'
                     ELSE Cohort(g)'.skip = Cohort(g).skip
      BY <1>5, <1>9, <2>1 DEF NumberedIn, Cohort
    <2> QED BY <1>4, <2>2, <2>3
  <1>13. ASSUME NEW g \in GroupIds', g \notin GroupIds PROVE Cohort(g)'.status # "skipped"
    <2>1. PICK c \in Cues : \E n \in DOMAIN groups'[c] : g = <<c, n>>
      BY <1>13 DEF GroupIds
    <2>2. PICK n \in DOMAIN groups'[c] : g = <<c, n>>
      BY <2>1
    <2>3. n \in 1..Len(groups'[c]) /\ Len(groups[c]) \in Nat
      BY <1>2, <1>8, <2>2 DEF Table
    <2>4. n \notin 1..Len(groups[c])
      BY <1>13, <2>2, GroupIdForm
    <2>5. Renewed(c, active) /\ n = Len(groups[c]) + 1
      BY <1>8, <2>3, <2>4
    <2>6. groups'[c][n].status = "pending"
      BY <1>9, <2>5, NewCohortIs
    <2> QED BY <2>2, <2>6 DEF Cohort
  <1> QED BY <1>1, <1>2, <1>3, <1>11, <1>12, <1>13 DEF SkipsOnward

LEMMA SkipsGoOn ==
  ASSUME Inv, [AnyNext]_vars
  PROVE  SkipsOnward
  <1>1. ASSUME UNCHANGED <<groups, events>> PROVE SkipsOnward
    BY <1>1 DEF SkipsOnward, GroupIds, Cohort, Inv, Typed
  <1> QED BY <1>1, OnlyPasses, PassOnward, PlanOnward DEF Inv

-----------------------------------------------------------------------------
(* The State Central serves *)

\* An offer names cohorts there are, of showings on the Frames it was made for.
OfferKnown ==
  \A a \in Layers(Self) :
    plan[Self].groups[a] \in GroupIds /\ FrameOf(a) \in DOMAIN plan[Self].frames

LEMMA ProposalKnown ==
  ASSUME Typed, NEW active \in SUBSET Players, groups' = Regrouped(active), NEW p,
         NEW a \in DOMAIN Proposal(p, active)
  PROVE  Proposal(p, active)[a] \in GroupIds'
  <1> DEFINE c == CueOf(a)
  <1>1. a \in Placed /\ Proposal(p, active)[a] = Grouped(a, active)
    BY DEF Proposal
  <1>2. c \in Cues /\ Placing(c)
    BY <1>1, AssignmentParts DEF Placed, Placing, Typed
  <1>3. /\ groups' \in Table
        /\ Len(groups'[c]) = IF Renewed(c, active) THEN Len(groups[c]) + 1 ELSE Len(groups[c])
    BY <1>2, RegroupedIs
  <1>4. groups[c] \in Seq(Cohorts) /\ Len(groups[c]) \in Nat
    BY <1>2, GroupIdForm
  <1>5. ~Renewed(c, active) => Len(groups[c]) # 0
    BY <1>2, <1>4 DEF Renewed, Known
  <1>6. DOMAIN groups'[c] = 1..Len(groups'[c])
    BY <1>2, <1>3 DEF Table
  <1>7. Grouped(a, active) = <<c, Len(groups'[c])>>
    BY <1>3 DEF Grouped
  <1>8. Len(groups'[c]) \in DOMAIN groups'[c]
    BY <1>3, <1>4, <1>5, <1>6
  <1>9. <<c, Len(groups'[c])>> \in {c} \X DOMAIN groups'[c]
    BY <1>8
  <1> QED BY <1>1, <1>2, <1>7, <1>9 DEF GroupIds

LEMMA KnownStep ==
  ASSUME Inv, OfferKnown, [AnyNext]_vars
  PROVE  OfferKnown'
  <1>1. CASE plan'[Self] = plan[Self]
    BY <1>1, SkipsGoOn DEF SkipsOnward, OfferKnown, Layers
  <1>2. CASE Plan /\ plan'[Self] # plan[Self]
    <2>1. PICK active \in SUBSET Players, offered \in SUBSET Players, renewal \in BOOLEAN :
            /\ groups' = Regrouped(active)
            /\ plan' = [q \in Players |->
                 IF /\ q \in offered
                    /\ \/ renewal \/ ~Standing(q)
                       \/ plan[q].groups # Proposal(q, active)
                   THEN [epoch |-> epoch[q], rev |-> NextRev(q),
                         frames |-> Bindings(q), groups |-> Proposal(q, active)]
                   ELSE plan[q]]
      BY <1>2 DEF Plan
    <2>2. plan'[Self] = [epoch |-> epoch[Self], rev |-> NextRev(Self),
                         frames |-> Bindings(Self), groups |-> Proposal(Self, active)]
      BY <1>2, <2>1, SelfAssumption
    <2>3. \A a \in DOMAIN Proposal(Self, active) :
            /\ Proposal(Self, active)[a] \in GroupIds'
            /\ FrameOf(a) \in DOMAIN Bindings(Self)
      <3>1. \A a \in DOMAIN Proposal(Self, active) : FrameOf(a) \in DOMAIN Bindings(Self)
        BY AssignmentParts DEF Proposal, Bindings, Placed, Inv, Typed
      <3> QED BY <2>1, <3>1, ProposalKnown DEF Inv
    <2> QED BY <2>2, <2>3 DEF OfferKnown, Layers
  <1>3. ~Plan => plan' = plan
    BY DEF AnyNext, vars, coordVars, Settle, EditTimeline, Rebind, OutputLost,
           OutputRecovers, Enroll, Tick, Heard, Readiness
  <1> QED BY <1>1, <1>2, <1>3

LEMMA BindingsAre == Typed => Bindings(Self) \in FrameGens
  <1> SUFFICES ASSUME Typed PROVE Bindings(Self) \in FrameGens
    OBVIOUS
  <1> DEFINE D == {f \in Frames : binding[f].player = Self}
  <1>1. Bindings(Self) \in [D -> Nat]
    BY DEF Bindings, Typed
  <1>2. D \in SUBSET Frames
    OBVIOUS
  <1> HIDE DEF D
  <1> QED BY <1>1, <1>2 DEF FrameGens

\* What delivery says: the plan and its grants while it stands, and every showing of a
\* skipped cohort revoked.
LEMMA StateNowIs ==
  ASSUME Inv, OfferKnown, SkipsNumbered
  PROVE  /\ StateOK(StateNow) /\ StateNow.epoch = epoch[Self]
         /\ StateNow.rev = IF Standing(Self) THEN plan[Self].rev ELSE 0
         /\ Standing(Self) => StateNow.layers = Layers(Self)
         /\ ~Standing(Self) => StateNow.revocations = {}
         /\ \A a : Grants(StateNow, a) =>
              Standing(Self) /\ \E r \in DeliveredGrants(Self) : r.a = a
         /\ Standing(Self) =>
              \A a \in Layers(Self) :
                Cohort(plan[Self].groups[a]).status = "skipped" =>
                  Revokes(StateNow, Cohort(plan[Self].groups[a]), a)
  <1> DEFINE rows == DeliveredGrants(Self)
             mine == IF Standing(Self) THEN plan[Self].groups ELSE <<>>
             gone == {mine[a] : a \in {a \in DOMAIN mine : Cohort(mine[a]).status = "skipped"}}
             Of(k) == {r \in rows : r.group = k[1] /\ r.seq = k[2]}
             CommitOf(k) == [seq |-> k[2], ids |-> {r.a : r \in Of(k)},
                             at |-> CHOOSE t \in {r.at : r \in Of(k)} :
                                      \A r \in Of(k) : r.at <= t]
             grants == {CommitOf(k) : k \in {<<r.group, r.seq>> : r \in rows}}
             RevOf2(g) == [seq |-> Cohort(g).skip, ids |-> {a \in DOMAIN mine : mine[a] = g}]
             revs == {RevOf2(g) : g \in gone}
  <1>0. Typed /\ SkippedHoldsNoGrant /\ GrantsOK /\ Self \in Players
    BY SelfAssumption DEF Inv, Safe
  <1>1. StateNow = [epoch |-> epoch[Self], frames |-> Bindings(Self),
                    rev |-> IF Standing(Self) THEN plan[Self].rev ELSE 0,
                    layers |-> DOMAIN mine, commits |-> grants, revocations |-> revs]
    BY DEF StateNow
  <1> HIDE DEF grants, revs
  <1>2. /\ StateNow.epoch = epoch[Self] /\ StateNow.frames = Bindings(Self)
        /\ StateNow.rev = IF Standing(Self) THEN plan[Self].rev ELSE 0
        /\ StateNow.layers = DOMAIN mine /\ StateNow.commits = grants
        /\ StateNow.revocations = revs
    BY <1>1
  <1>3. DOMAIN mine = IF Standing(Self) THEN Layers(Self) ELSE {}
    BY DEF Layers
  <1>4. \A a \in DOMAIN mine : Standing(Self) /\ mine[a] = plan[Self].groups[a]
    BY <1>3
  <1>5. Layers(Self) \subseteq Assignments
    BY <1>0 DEF Typed, Offers, Layers
  <1>6. \A g \in gone : Cohort(g).skip \in Nat /\ Cohort(g).skip <= events
    <2> SUFFICES ASSUME NEW g \in gone PROVE Cohort(g).skip \in Nat /\ Cohort(g).skip <= events
      OBVIOUS
    <2>1. PICK a \in DOMAIN mine : g = mine[a] /\ Cohort(g).status = "skipped"
      OBVIOUS
    <2>2. g \in GroupIds
      BY <1>3, <1>4, <2>1 DEF OfferKnown
    <2>3. Cohort(g) \in Cohorts
      BY <1>0, <2>2, GroupIdForm
    <2> QED BY <2>1, <2>2, <2>3 DEF SkipsNumbered, Cohorts
  <1> HIDE DEF mine
  <1>7. \A r \in revs : r.seq \in Nat /\ r.seq <= events
    BY <1>6 DEF revs
  <1>8. rows \subseteq commits /\ (rows # {} => Standing(Self))
    BY DEF DeliveredGrants
  <1>9. \A c \in grants : c.seq \in Nat
    BY <1>0, <1>8 DEF grants, Typed, Rows
  <1>10. ASSUME NEW a, Grants(StateNow, a) PROVE Standing(Self) /\ \E r \in rows : r.a = a
    <2>1. PICK c \in grants : a \in c.ids
      BY <1>2, <1>10 DEF Grants
    <2>2. PICK k \in {<<r.group, r.seq>> : r \in rows} : c = CommitOf(k)
      BY <2>1 DEF grants
    <2>3. c.ids = {r.a : r \in Of(k)}
      BY <2>2
    <2>4. PICK r \in Of(k) : r.a = a
      BY <2>1, <2>3
    <2> QED BY <1>8, <2>4
  <1>11. StateOK(StateNow)
    <2>1. \A a \in StateNow.layers : a[1] \in DOMAIN StateNow.frames
      BY <1>2, <1>3, <1>4 DEF OfferKnown, FrameOf, Standing
    <2>2. StateNow.epoch \in Nat /\ StateNow.rev \in Nat
      BY <1>0, <1>2 DEF Typed, Offers
    <2> QED BY <1>0, <1>2, <1>3, <1>5, <1>7, <1>9, <2>1, <2>2, BindingsAre DEF StateOK
  <1>12. ASSUME ~Standing(Self) PROVE StateNow.revocations = {}
    <2>1. gone = {}
      BY <1>3, <1>12
    <2> QED BY <1>2, <2>1 DEF revs
  <1>13. ASSUME Standing(Self), NEW a \in Layers(Self),
                Cohort(plan[Self].groups[a]).status = "skipped"
         PROVE  Revokes(StateNow, Cohort(plan[Self].groups[a]), a)
    <2>1. a \in DOMAIN mine /\ mine[a] = plan[Self].groups[a]
      BY <1>3, <1>4, <1>13
    <2>2. mine[a] \in gone
      BY <1>13, <2>1
    <2>3. RevOf2(mine[a]) \in revs
      BY <2>2 DEF revs
    <2>4. RevOf2(mine[a]).seq = Cohort(mine[a]).skip /\ a \in RevOf2(mine[a]).ids
      BY <2>1
    <2> HIDE DEF gone
    <2> QED BY <1>2, <2>1, <2>3, <2>4 DEF Revokes
  <1> QED BY <1>2, <1>3, <1>10, <1>11, <1>12, <1>13

-----------------------------------------------------------------------------
(* The Player's other steps *)

\* y took nothing from Central: what it holds and plays, x held.
Calm(x, y) ==
  /\ ExecutorOK(y) /\ (Sound(x) => Sound(y)) /\ Exec!Held(y) \subseteq Exec!Held(x)
  /\ y.epoch = x.epoch /\ y.rev = x.rev /\ y.revoked = x.revoked
  /\ \A a \in Assignments : /\ GrantOf(y, a) \in {0, GrantOf(x, a)}
                            /\ PlayingOf(y, a) \in {0, PlayingOf(x, a), GrantOf(x, a)}

LEMMA FewerIsCalm ==
  ASSUME NEW x, NEW y, ExecutorOK(y), Fewer(x, y), SameOffer(x, y),
         Exec!Held(y) \subseteq Exec!Held(x)
  PROVE  Calm(x, y)
  BY DEF Calm, Fewer, SameOffer

LEMMA TickIs ==
  ASSUME NEW x, ExecutorOK(x), NEW ready, NEW fits \in BOOLEAN
  PROVE  Calm(x, Exec!Ticked(Exec!PreparePass(x, ready, fits)))
  <1> DEFINE y == Exec!PreparePass(x, ready, fits)
             z == Exec!Ticked(y)
  <1>1. ExecutorOK(y) /\ Fewer(x, y) /\ SameOffer(x, y) /\ Exec!Held(y) = Exec!Held(x)
    BY PreparePassIs
  <1> HIDE DEF y
  <1>2. /\ ExecutorOK(z) /\ SameOffer(y, z) /\ Exec!Held(z) = Exec!Held(y)
        /\ Sound(y) => Sound(z)
        /\ \A a \in Assignments : /\ GrantOf(z, a) = GrantOf(y, a)
                                  /\ PlayingOf(z, a) \in {PlayingOf(y, a), GrantOf(y, a)}
    BY <1>1, TickedIs
  <1> HIDE DEF z
  <1>3. Calm(x, z)
    BY <1>1, <1>2 DEF Calm, Fewer, SameOffer
  <1> QED BY <1>3 DEF z, y

LEMMA AcquireIs ==
  ASSUME NEW x, ExecutorOK(x), NEW a \in Exec!Held(x)
  PROVE  Calm(x, [x EXCEPT !.asg[a].secured = TRUE])
  <1> DEFINE f == [x.asg EXCEPT ![a].secured = TRUE]
             y == [x EXCEPT !.asg = f]
  <1>1. [x EXCEPT !.asg[a].secured = TRUE] = y
    OBVIOUS
  <1>2. x.asg \in [Exec!Held(x) -> Exec!Records]
    BY HeldIs
  <1>3. /\ DOMAIN f = Exec!Held(x) /\ f = [b \in Exec!Held(x) |-> f[b]]
        /\ \A b \in Exec!Held(x) :
             f[b] = IF b = a THEN [x.asg[b] EXCEPT !.secured = TRUE] ELSE x.asg[b]
    BY <1>2
  <1>4. \A b \in Exec!Held(x) : Less(x.asg[b], f[b])
    BY <1>2, <1>3, LessIs
  <1> HIDE DEF f
  <1>5. ExecutorOK(y) /\ Fewer(x, y) /\ SameOffer(x, y) /\ Exec!Held(y) = Exec!Held(x)
    BY <1>3, <1>4, LessAreFewer
  <1> HIDE DEF y
  <1> QED BY <1>1, <1>5, FewerIsCalm

\* What is found damaged is lost, prepared and granted as it was.
Damaged(r) == [Exec!LosePreparation(r) EXCEPT !.secured = FALSE]

LEMMA DamageIs ==
  ASSUME NEW x, ExecutorOK(x), NEW a, NEW y,
         y = [x EXCEPT !.asg = [b \in Exec!Held(x) |-> IF b \in {a} THEN Damaged(x.asg[b])
                                                                    ELSE x.asg[b]]]
  PROVE  Calm(x, [Exec!Outdated(y, {a}) EXCEPT !.capacity = FALSE])
  <1> DEFINE f == [b \in Exec!Held(x) |-> IF b \in {a} THEN Damaged(x.asg[b]) ELSE x.asg[b]]
             z == Exec!Outdated(y, {a})
             w == [z EXCEPT !.capacity = FALSE]
  <1>1. \A b \in Exec!Held(x) : Less(x.asg[b], f[b])
    BY HeldIs, LessIs DEF Damaged
  <1>2. DOMAIN f = Exec!Held(x) /\ f = [b \in Exec!Held(x) |-> f[b]] /\ y = [x EXCEPT !.asg = f]
    OBVIOUS
  <1> HIDE DEF f
  <1>3. ExecutorOK(y) /\ Fewer(x, y) /\ SameOffer(x, y) /\ Exec!Held(y) = Exec!Held(x)
    BY <1>1, <1>2, LessAreFewer
  <1>4. ExecutorOK(z) /\ Fewer(y, z) /\ SameOffer(y, z) /\ Exec!Held(z) = Exec!Held(y)
    BY <1>3, OutdatedIs DEF Exec!Held
  <1> HIDE DEF z
  <1>5. ExecutorOK(w) /\ Fewer(z, w) /\ SameOffer(z, w) /\ Exec!Held(w) = Exec!Held(z)
    <2>1. PICK b \in BOOLEAN : b = FALSE
      OBVIOUS
    <2>2. w = [z EXCEPT !.capacity = b]
      BY <2>1
    <2> HIDE DEF w
    <2> QED BY <1>4, <2>2, CapacityIs DEF Exec!Held
  <1>6. Fewer(x, w)
    BY <1>3, <1>4, <1>5, FewerTransitive
  <1>7. SameOffer(x, w) /\ Exec!Held(w) = Exec!Held(x)
    BY <1>3, <1>4, <1>5 DEF SameOffer
  <1> HIDE DEF w
  <1>8. Calm(x, w)
    BY <1>5, <1>6, <1>7, FewerIsCalm
  <1> QED BY <1>8 DEF w, z

\* A report and what is retained of them.
LEMMA PreparedAre ==
  ASSUME NEW x, ExecutorOK(x)
  PROVE  Exec!PreparedNow(x) \subseteq Exec!Held(x) /\ Exec!Held(x) \subseteq Assignments
  BY HeldIs DEF Exec!PreparedNow, Exec!Preparable, Exec!Imminent

LEMMA ReportTyped ==
  ASSUME NEW x, ExecutorOK(x), now \in Nat
  PROVE  Exec!ReportOf(x) \in Reports /\ Exec!ReportOf(x).epoch = x.epoch
  <1>1. \A a \in Exec!PreparedNow(x) : a \in Assignments /\ x.asg[a].seen \in Nat
    BY PreparedAre, HeldIs DEF Exec!Records
  <1>2. Exec!LostNow(x) \in SUBSET (Assignments \X Nat)
    BY <1>1 DEF Exec!LostNow
  <1>3. Exec!PreparedNow(x) \in SUBSET Assignments
    BY PreparedAre
  <1>4. x.epoch \in Nat /\ x.rev \in Nat /\ x.seq + 1 \in Nat
    BY DEF ExecutorOK
  <1> QED BY <1>2, <1>3, <1>4 DEF Exec!ReportOf, Reports

LEMMA ReportedIs ==
  ASSUME NEW x, ExecutorOK(x), Exec!Report, x = player
  PROVE  Calm(x, player')
  <1> DEFINE y == Exec!Gated(x)
             all == [n \in DOMAIN y.reported \cup {y.seq + 1} |->
                       IF n = y.seq + 1 THEN Exec!PreparedNow(y) ELSE y.reported[n]]
             f == [n \in {n \in DOMAIN all : Exec!Retains(y, n)} |-> all[n]]
             v == [y EXCEPT !.seq = y.seq + 1]
             w == [v EXCEPT !.reported = f]
  <1>1. ExecutorOK(y) /\ Fewer(x, y) /\ SameOffer(x, y) /\ Exec!Held(y) = Exec!Held(x)
    BY GatedIs
  <1>2. player' = [y EXCEPT !.seq = @ + 1, !.reported = f]
    BY DEF Exec!Report
  <1> HIDE DEF y
  <1>3. y.seq \in Nat /\ Shaped(y)
    BY <1>1 DEF ExecutorOK
  <1>4. f \in Retained(y.seq + 1)
    <2>1. DOMAIN y.reported \subseteq 1..y.seq
          /\ \A n \in DOMAIN y.reported : y.reported[n] \in SUBSET Assignments
      BY <1>1 DEF ExecutorOK, Retained
    <2>2. Exec!PreparedNow(y) \in SUBSET Assignments
      BY <1>1, PreparedAre
    <2>3. KeepReports \in Nat
      BY KeepAssumption
    <2> DEFINE D == {n \in DOMAIN all : Exec!Retains(y, n)}
    <2>4. D \in SUBSET {m \in 1..(y.seq + 1) : m + KeepReports > y.seq + 1}
      BY <1>3, <2>1, <2>3 DEF Exec!Retains
    <2>5. \A n \in DOMAIN all : all[n] \in SUBSET Assignments
      BY <2>1, <2>2
    <2> HIDE DEF all
    <2>6. f \in [D -> SUBSET Assignments]
      BY <2>5
    <2> HIDE DEF D, f
    <2> QED BY <2>4, <2>6 DEF Retained
  <1> HIDE DEF f
  <1>5. player' = w
    BY <1>2, <1>3 DEF Shaped
  <1>6. Shaped(w)
    BY <1>3, ShapeStays
  <1>7. /\ w.asg = y.asg /\ w.epoch = y.epoch /\ w.frames = y.frames /\ w.rev = y.rev
        /\ w.inactive = y.inactive /\ w.seq = y.seq + 1 /\ w.revoked = y.revoked
        /\ w.seen = y.seen /\ w.reported = f /\ w.capacity = y.capacity
    BY <1>3 DEF Shaped
  <1> HIDE DEF w
  <1>8. ExecutorOK(w)
    BY <1>1, <1>3, <1>4, <1>6, <1>7 DEF ExecutorOK
  <1>9. Exec!Held(w) = Exec!Held(y) /\ Fewer(y, w)
    BY <1>7 DEF Fewer, GrantOf, PlayingOf, Sound, Exec!Held
  <1>10. Fewer(x, w)
    BY <1>1, <1>9, FewerTransitive
  <1>11. Sound(x) => Sound(w)
    BY <1>10 DEF Fewer
  <1> QED BY <1>1, <1>5, <1>7, <1>8, <1>9, <1>10, <1>11 DEF Calm, Fewer, SameOffer

LEMMA ColdOK == ExecutorOK(Exec!Cold) /\ Exec!Held(Exec!Cold) = {} /\ Exec!Cold.epoch = 0
                /\ Exec!Cold.rev = 0 /\ Exec!Cold.revoked = 0
  <1>1. [Exec!Cold EXCEPT !.epoch = 0] = Exec!Cold
    BY DEF Exec!Cold
  <1>2. 0 \in Nat
    OBVIOUS
  <1>3. \A e \in Nat : LET x == [Exec!Cold EXCEPT !.epoch = e] IN
          ExecutorOK(x) /\ Exec!Held(x) = {} /\ x.epoch = e /\ x.rev = 0 /\ x.revoked = 0
    BY ColdIs
  <1> QED BY <1>1, <1>2, <1>3

-----------------------------------------------------------------------------
(* The invariant *)

\* What the Player holds and plays was granted in its epoch.
Backed(x) ==
  \A a \in Assignments : \A v \in {GrantOf(x, a), PlayingOf(x, a)} \ {0} : Named(x.epoch, v, a)

\* The Player is no further than Central, and shows of the plan there is what it names.
Follows(x) ==
  /\ x.epoch <= epoch[Self]
  /\ x.rev # 0 =>
       /\ x.epoch <= plan[Self].epoch
       /\ x.epoch = plan[Self].epoch => x.rev <= plan[Self].rev
  /\ Current(x.epoch, x.rev) => Exec!Held(x) \subseteq Layers(Self)

\* A showing whose revocation was taken is off.
StaysOff(x) ==
  /\ x.revoked <= events
  /\ Current(x.epoch, x.rev) =>
       \A a \in Exec!Held(x) :
         Shown(a).status = "skipped" /\ Shown(a).skip <= x.revoked => Unplayed(x, a)

PlayerInv(x) == ExecutorOK(x) /\ Sound(x) /\ Backed(x) /\ Follows(x) /\ StaysOff(x)

\* A State grants under a revision of its own, and only what Central granted.
WireBacked(s) ==
  /\ \A a : Grants(s, a) => s.rev # 0 /\ (a \in Assignments => Named(s.epoch, s.rev, a))
  /\ s.rev = 0 => s.revocations = {}

WireFollows(s) ==
  /\ s.epoch = epoch[Self]
  /\ s.rev # 0 => plan[Self].epoch = epoch[Self] /\ s.rev <= plan[Self].rev
  /\ Current(s.epoch, s.rev) => s.layers = Layers(Self)

\* The skip of k is news to the Player, and to the State on its way.
Older(x, s, k) == k.skip > x.revoked /\ \A r \in s.revocations : k.skip > r.seq

\* A State of the plan there is either revokes a showing of a skipped cohort and grants it
\* no more, or was issued before that cohort was skipped.
WireRevokes(x, s) ==
  Current(s.epoch, s.rev) =>
    \A a \in Layers(Self) :
      Shown(a).status = "skipped" =>
        (Revokes(s, Shown(a), a) /\ ~Grants(s, a)) \/ Older(x, s, Shown(a))

WireInv(x, s) == StateOK(s) /\ WireBacked(s) /\ WireFollows(s) /\ WireRevokes(x, s)

CentralInv == Inv /\ OfferKnown /\ SkipsNumbered

PostsInv == \A m \in posts : m.report \in Reports /\ m.report.epoch <= epoch[Self]

ProtocolInv ==
  /\ CentralInv /\ healthy \in BOOLEAN /\ PostsInv
  /\ PlayerInv(player)
  /\ wire # NoState => WireInv(player, wire)

\* Numbers and tables, as the steps use them.
LEMMA SelfIs ==
  ASSUME Inv
  PROVE  /\ Self \in Players /\ epoch[Self] \in Nat /\ epoch[Self] >= 1
         /\ plan[Self].epoch \in Nat /\ plan[Self].rev \in Nat /\ plan[Self].epoch <= epoch[Self]
         /\ plan[Self].rev = 0 => plan[Self].epoch = 0
         /\ events \in Nat /\ now \in Nat /\ Layers(Self) \subseteq Assignments
  BY SelfAssumption DEF Inv, Typed, OffersOK, Offers, Layers

\* The Player's own steps keep all of it.
LEMMA CalmKeeps ==
  ASSUME NEW x, NEW y, PlayerInv(x), Calm(x, y)
  PROVE  PlayerInv(y) /\ \A s : WireInv(x, s) => WireInv(y, s)
  <1>1. /\ ExecutorOK(y) /\ Sound(y) /\ Exec!Held(y) \subseteq Exec!Held(x)
        /\ y.epoch = x.epoch /\ y.rev = x.rev /\ y.revoked = x.revoked
    BY DEF PlayerInv, Calm
  <1>2. \A a \in Assignments : /\ GrantOf(y, a) \in {0, GrantOf(x, a)}
                               /\ PlayingOf(y, a) \in {0, PlayingOf(x, a), GrantOf(x, a)}
    BY DEF Calm
  <1>3. Backed(y)
    BY <1>1, <1>2 DEF Backed, PlayerInv
  <1>4. Follows(y)
    BY <1>1 DEF Follows, PlayerInv
  <1>5. \A a \in Assignments : Unplayed(x, a) => Unplayed(y, a)
    BY <1>2 DEF Unplayed
  <1>6. Exec!Held(y) \subseteq Assignments
    BY <1>1, HeldIs
  <1>7. StaysOff(y)
    BY <1>1, <1>5, <1>6 DEF StaysOff, PlayerInv
  <1>8. \A s : WireInv(x, s) => WireInv(y, s)
    BY <1>1 DEF WireInv, WireRevokes, Older
  <1> QED BY <1>1, <1>3, <1>4, <1>7, <1>8 DEF PlayerInv

LEMMA ColdKeeps ==
  ASSUME CentralInv
  PROVE  PlayerInv(Exec!Cold)
  <1> DEFINE x == Exec!Cold
  <1>1. ExecutorOK(x) /\ Exec!Held(x) = {} /\ x.epoch = 0 /\ x.rev = 0 /\ x.revoked = 0
    BY ColdOK
  <1> HIDE DEF x
  <1>2. Sound(x) /\ Backed(x)
    BY <1>1 DEF Sound, Backed, GrantOf, PlayingOf
  <1>3. epoch[Self] \in Nat /\ events \in Nat
    BY SelfIs DEF CentralInv
  <1>4. Follows(x) /\ StaysOff(x)
    BY <1>1, <1>3 DEF Follows, StaysOff
  <1>5. PlayerInv(x)
    BY <1>1, <1>2, <1>4 DEF PlayerInv
  <1> QED BY <1>5 DEF x

\* What Central serves now.
LEMMA SendKeeps ==
  ASSUME CentralInv, NEW x
  PROVE  WireInv(x, StateNow)
  <1>0. Inv /\ OfferKnown /\ SkipsNumbered /\ SkippedHoldsNoGrant /\ GrantsOK
    BY DEF CentralInv, Inv, Safe
  <1>1. /\ StateOK(StateNow) /\ StateNow.epoch = epoch[Self]
        /\ StateNow.rev = IF Standing(Self) THEN plan[Self].rev ELSE 0
        /\ Standing(Self) => StateNow.layers = Layers(Self)
        /\ ~Standing(Self) => StateNow.revocations = {}
        /\ \A a : Grants(StateNow, a) =>
             Standing(Self) /\ \E r \in DeliveredGrants(Self) : r.a = a
        /\ Standing(Self) =>
             \A a \in Layers(Self) :
               Shown(a).status = "skipped" => Revokes(StateNow, Shown(a), a)
    BY <1>0, StateNowIs DEF Shown
  <1>2. Standing(Self) => plan[Self].rev # 0 /\ plan[Self].epoch = epoch[Self]
    BY DEF Standing, Offered
  <1>3. /\ plan[Self].rev \in Nat /\ plan[Self].epoch \in Nat
        /\ plan[Self].rev = 0 => plan[Self].epoch = 0
        /\ epoch[Self] >= 1 /\ epoch[Self] \in Nat
    BY <1>0, SelfIs
  <1>4. \A r \in DeliveredGrants(Self) :
          /\ r \in commits /\ r.valid /\ r.player = Self /\ r.epoch = epoch[Self]
          /\ r.rev = plan[Self].rev
    BY DEF DeliveredGrants
  <1>5. WireBacked(StateNow)
    BY <1>1, <1>2, <1>4 DEF WireBacked, Named
  <1>6. Current(StateNow.epoch, StateNow.rev) => Standing(Self)
    BY <1>1, <1>3 DEF Current
  <1>7. WireFollows(StateNow)
    BY <1>1, <1>2, <1>3, <1>6 DEF WireFollows
  <1>8. ASSUME NEW a, Standing(Self), Shown(a).status = "skipped", Grants(StateNow, a)
        PROVE  FALSE
    <2>1. PICK r \in DeliveredGrants(Self) : r.a = a
      BY <1>1, <1>8
    <2>2. r.group = plan[Self].groups[a]
      BY <1>0, <1>2, <1>4, <1>8, <2>1 DEF GrantsOK
    <2> QED BY <1>0, <1>4, <1>8, <2>2 DEF SkippedHoldsNoGrant, Shown
  <1>9. WireRevokes(x, StateNow)
    BY <1>1, <1>6, <1>8 DEF WireRevokes
  <1> QED BY <1>1, <1>5, <1>7, <1>9 DEF WireInv

\* A State is taken.
LEMMA TakeKeeps ==
  ASSUME CentralInv, NEW x, PlayerInv(x), NEW s, WireInv(x, s), s.epoch >= x.epoch,
         NEW ready, NEW fits \in BOOLEAN
  PROVE  PlayerInv(Exec!Applied(x, s, ready, fits))
  <1> DEFINE y == Exec!Applied(x, s, ready, fits)
  <1>0. /\ ExecutorOK(x) /\ Sound(x) /\ Backed(x) /\ Follows(x) /\ StaysOff(x)
        /\ StateOK(s) /\ WireBacked(s) /\ WireFollows(s) /\ WireRevokes(x, s)
    BY DEF PlayerInv, WireInv
  <1>1. /\ epoch[Self] \in Nat /\ epoch[Self] >= 1 /\ plan[Self].epoch \in Nat
        /\ plan[Self].rev \in Nat /\ plan[Self].rev = 0 => plan[Self].epoch = 0
        /\ plan[Self].epoch <= epoch[Self]
        /\ events \in Nat /\ Layers(Self) \subseteq Assignments
    BY SelfIs DEF CentralInv
  <1>2. \A a : Grants(s, a) => s.rev # 0
    BY <1>0 DEF WireBacked
  <1>3. /\ ExecutorOK(y) /\ y.epoch = IF NewEpoch(x, s) THEN s.epoch ELSE x.epoch
        /\ Sound(x) => Sound(y)
        /\ \A a \in Assignments : Moves(x, y, s, a)
        /\ StaysWith(x, y, s) \/ TakesPlan(y, s)
    BY <1>0, <1>1, <1>2, AppliedIs
  <1> HIDE DEF y
  <1>4. x.epoch \in Nat /\ x.rev \in Nat /\ x.revoked \in Nat /\ s.epoch \in Nat /\ s.rev \in Nat
        /\ y.rev \in Nat /\ y.revoked \in Nat
    BY <1>0, <1>3 DEF ExecutorOK, StateOK
  <1>5. y.epoch = s.epoch /\ (~NewEpoch(x, s) => y.epoch = x.epoch) /\ s.epoch = epoch[Self]
    BY <1>0, <1>3, <1>4 DEF NewEpoch, WireFollows
  <1>6. Exec!Held(y) \subseteq Assignments
    BY <1>3, HeldIs
  <1>7. Backed(y)
    <2> SUFFICES ASSUME NEW a \in Assignments, NEW v \in {GrantOf(y, a), PlayingOf(y, a)} \ {0}
                 PROVE  Named(y.epoch, v, a)
      BY DEF Backed
    <2>1. Moves(x, y, s, a)
      BY <1>3
    <2>2. GrantOf(y, a) # 0 => Named(y.epoch, GrantOf(y, a), a)
      BY <1>0, <1>5, <2>1 DEF Moves, Backed, WireBacked
    <2>3. PlayingOf(y, a) # 0 => Named(y.epoch, PlayingOf(y, a), a)
      BY <1>0, <1>5, <2>1, <2>2 DEF Moves, Backed
    <2> QED BY <2>2, <2>3
  <1>8. \A r \in s.revocations : r.seq \in Nat /\ r.seq <= events
    BY <1>0 DEF StateOK
  <1>9. CASE TakesPlan(y, s)
    <2>1. y.rev = s.rev /\ s.rev # 0 /\ Exec!Held(y) = s.layers /\ TakesAfter(y, s, 0)
      BY <1>9 DEF TakesPlan
    <2>2. Follows(y)
      BY <1>0, <1>1, <1>4, <1>5, <2>1 DEF Follows, WireFollows
    <2>3. y.revoked <= events
      BY <1>1, <1>8, <2>1 DEF TakesAfter
    <2>4. ASSUME NEW a \in Exec!Held(y), Current(y.epoch, y.rev), Shown(a).status = "skipped",
                 Shown(a).skip <= y.revoked
          PROVE  Unplayed(y, a)
      <3>1. Current(s.epoch, s.rev) /\ a \in Layers(Self)
        BY <1>0, <1>5, <2>1, <2>4 DEF WireFollows
      <3>2. Shown(a).skip \in Nat /\ Shown(a).skip >= 1
        <4>1. plan[Self].groups[a] \in GroupIds
          BY <3>1 DEF CentralInv, OfferKnown
        <4>2. Shown(a) \in Cohorts
          BY <4>1, GroupIdForm DEF CentralInv, Inv, Shown
        <4>3. Shown(a).skip >= 1
          BY <2>4, <4>1 DEF CentralInv, SkipsNumbered, Shown
        <4> QED BY <4>2, <4>3 DEF Cohorts
      <3>3. CASE Older(x, s, Shown(a))
        BY <1>8, <2>1, <2>4, <3>2, <3>3 DEF Older, TakesAfter
      <3>4. CASE Revokes(s, Shown(a), a) /\ ~Grants(s, a)
        <4>1. PICK r \in s.revocations : r.seq = Shown(a).skip /\ a \in r.ids
          BY <3>4 DEF Revokes
        <4> QED BY <1>6, <2>1, <3>2, <3>4, <4>1 DEF TakesAfter
      <3> QED BY <1>0, <2>4, <3>1, <3>3, <3>4 DEF WireRevokes
    <2>5. StaysOff(y)
      BY <2>3, <2>4 DEF StaysOff
    <2> QED BY <1>0, <1>3, <1>7, <2>2, <2>5 DEF PlayerInv, y
  <1>10. CASE StaysWith(x, y, s)
    <2>1. /\ y.rev = RevOf(x, s) /\ Exec!Held(y) \subseteq Exec!Held(x)
          /\ NewEpoch(x, s) => Exec!Held(y) = {}
          /\ \/ s.rev \in {0, RevOf(x, s)} /\ TakesAfter(y, s, RevokedOf(x, s))
             \/ y.revoked = RevokedOf(x, s) /\ \A a \in Assignments : Unplayed(x, a) => Unplayed(y, a)
      BY <1>10 DEF StaysWith
    <2>2. y.rev # 0 => y.rev = x.rev /\ y.epoch = x.epoch /\ ~NewEpoch(x, s)
      BY <1>5, <2>1 DEF RevOf
    <2>3. Current(y.epoch, y.rev) => y.rev # 0
      BY <1>1 DEF Current
    <2>4. Follows(y)
      BY <1>0, <1>1, <1>4, <1>5, <2>1, <2>2, <2>3 DEF Follows
    <2>5. RevokedOf(x, s) <= events /\ RevokedOf(x, s) \in Nat
      BY <1>0, <1>1, <1>4 DEF RevokedOf, StaysOff
    <2>6. y.revoked <= events
      BY <1>8, <2>1, <2>5 DEF TakesAfter
    <2>7. ASSUME NEW a \in Exec!Held(y), Current(y.epoch, y.rev), Shown(a).status = "skipped",
                 Shown(a).skip <= y.revoked
          PROVE  Unplayed(y, a)
      <3>1. /\ Current(x.epoch, x.rev) /\ ~NewEpoch(x, s) /\ a \in Exec!Held(x)
            /\ a \in Layers(Self) /\ a \in Assignments /\ x.rev # 0
            /\ RevOf(x, s) = x.rev /\ RevokedOf(x, s) = x.revoked
        BY <1>0, <1>6, <2>1, <2>2, <2>3, <2>7 DEF Follows, RevOf, RevokedOf
      <3>2. Shown(a).skip \in Nat
        <4>1. plan[Self].groups[a] \in GroupIds
          BY <3>1 DEF CentralInv, OfferKnown
        <4>2. Shown(a) \in Cohorts
          BY <4>1, GroupIdForm DEF CentralInv, Inv, Shown
        <4> QED BY <4>2 DEF Cohorts
      <3>3. Shown(a).skip <= x.revoked => Unplayed(x, a)
        BY <1>0, <2>7, <3>1 DEF StaysOff
      <3>4. Unplayed(x, a) /\ ~Grants(s, a) => Unplayed(y, a)
        <4>1. Moves(x, y, s, a)
          BY <1>3, <3>1
        <4> QED BY <4>1 DEF Moves, Unplayed
      <3>5. CASE y.revoked = x.revoked /\ \A b \in Assignments : Unplayed(x, b) => Unplayed(y, b)
        BY <2>7, <3>1, <3>3, <3>5
      <3>6. CASE s.rev = 0 /\ TakesAfter(y, s, x.revoked)
        <4>1. s.revocations = {} /\ ~Grants(s, a)
          BY <1>0, <3>6 DEF WireBacked
        <4>2. y.revoked = x.revoked
          BY <3>6, <4>1 DEF TakesAfter
        <4> QED BY <2>7, <3>3, <3>4, <4>1, <4>2
      <3>7. CASE s.rev = x.rev /\ TakesAfter(y, s, x.revoked)
        <4>1. Current(s.epoch, s.rev)
          BY <1>5, <3>1, <3>7 DEF Current
        <4>2. CASE Older(x, s, Shown(a))
          BY <1>4, <1>8, <2>7, <3>2, <3>7, <4>2 DEF Older, TakesAfter
        <4>3. CASE Revokes(s, Shown(a), a) /\ ~Grants(s, a)
          <5>1. PICK r \in s.revocations : r.seq = Shown(a).skip /\ a \in r.ids
            BY <4>3 DEF Revokes
          <5>2. Shown(a).skip > x.revoked => Unplayed(y, a)
            BY <3>1, <3>7, <4>3, <5>1 DEF TakesAfter
          <5> QED BY <1>4, <3>2, <3>3, <3>4, <4>3, <5>2
        <4> QED BY <1>0, <2>7, <3>1, <4>1, <4>2, <4>3 DEF WireRevokes
      <3> QED BY <2>1, <3>1, <3>5, <3>6, <3>7
    <2>8. StaysOff(y)
      BY <2>6, <2>7 DEF StaysOff
    <2> QED BY <1>0, <1>3, <1>7, <2>4, <2>8 DEF PlayerInv, y
  <1> QED BY <1>3, <1>9, <1>10

-----------------------------------------------------------------------------
(* Central's steps *)

\* No later than the plan there is.
Behind(e, rev) ==
  rev # 0 => e <= plan[Self].epoch /\ (e = plan[Self].epoch => rev <= plan[Self].rev)

LEMMA NamedStays ==
  ASSUME KeysKept
  PROVE  \A e, v, a : Named(e, v, a) => Named(e, v, a)'
  <1> SUFFICES ASSUME NEW e, NEW v, NEW a, Named(e, v, a)
               PROVE  \E n \in commits' : n.player = Self /\ n.epoch = e /\ n.rev = v /\ n.a = a
    BY DEF Named
  <1>1. PICK r \in commits : r.player = Self /\ r.epoch = e /\ r.rev = v /\ r.a = a
    BY DEF Named
  <1> QED BY <1>1 DEF KeysKept, Key

\* The showings of an offer that stays are skipped but upwards.
LEMMA ShownStays ==
  ASSUME CentralInv, SkipsOnward, plan'[Self] = plan[Self], NEW a \in Layers(Self)
  PROVE  /\ Shown(a).status = "skipped" =>
              Shown(a)'.status = "skipped" /\ Shown(a)'.skip = Shown(a).skip
         /\ Shown(a).status # "skipped" /\ Shown(a)'.status = "skipped" =>
              Shown(a)'.skip > events /\ Shown(a)'.skip <= events'
  <1>1. PICK g \in GroupIds : g = plan[Self].groups[a]
    BY DEF CentralInv, OfferKnown
  <1>2. Shown(a) = Cohort(g) /\ Shown(a)' = Cohort(g)'
    BY <1>1 DEF Shown, Cohort
  <1> QED BY <1>2 DEF SkipsOnward

\* A new offer is of a revision nobody has seen.
LEMMA NewerOffer ==
  ASSUME Inv, OfferKept(Self), plan'[Self] # plan[Self], NEW e \in Nat, NEW v \in Nat,
         Behind(e, v)
  PROVE  Behind(e, v)' /\ ~Current(e, v)'
  <1>1. /\ plan'[Self].epoch = epoch[Self] /\ plan'[Self].rev = NextRev(Self)
        /\ epoch' = epoch
    BY DEF OfferKept
  <1>2. /\ epoch[Self] \in Nat /\ epoch[Self] >= 1
        /\ plan[Self].epoch \in Nat /\ plan[Self].rev \in Nat
        /\ plan[Self].epoch <= epoch[Self]
        /\ plan[Self].rev = 0 => plan[Self].epoch = 0
    BY SelfIs
  <1>3. CASE Offered(Self)
    <2>1. plan[Self].epoch = epoch[Self] /\ plan'[Self].rev = plan[Self].rev + 1
      BY <1>1, <1>3 DEF Offered, NextRev
    <2> QED BY <1>1, <1>2, <2>1 DEF Behind, Current
  <1>4. CASE ~Offered(Self)
    <2>1. plan'[Self].rev = 1 /\ plan[Self].epoch < epoch[Self]
      BY <1>1, <1>2, <1>4 DEF Offered, NextRev
    <2> QED BY <1>1, <1>2, <2>1 DEF Behind, Current
  <1> QED BY <1>3, <1>4

LEMMA SkipNext ==
  ASSUME Inv', NEW g \in GroupIds'
  PROVE  Cohort(g)'.skip \in Nat
  <1>1. PICK c \in Cues : g \in {c} \X DOMAIN groups'[c]
    BY DEF GroupIds
  <1>2. groups'[c] \in Seq(Cohorts) /\ g[1] = c /\ g[2] \in DOMAIN groups'[c]
    BY <1>1 DEF Inv, Typed
  <1>3. groups'[c][g[2]] \in Cohorts
    BY <1>2
  <1> QED BY <1>2, <1>3 DEF Cohort, Cohorts

LEMMA NumberedStep ==
  ASSUME Inv, Inv', SkipsNumbered, SkipsOnward
  PROVE  SkipsNumbered'
  <1>1. events \in Nat /\ events' \in Nat /\ events <= events'
    BY SelfIs DEF SkipsOnward
  <1> SUFFICES ASSUME NEW g \in GroupIds', Cohort(g)'.status = "skipped"
               PROVE  Cohort(g)'.skip >= 1 /\ Cohort(g)'.skip <= events'
    BY DEF SkipsNumbered
  <1>2. g \in GroupIds
    BY DEF SkipsOnward
  <1>3. Cohort(g)'.skip \in Nat
    BY SkipNext
  <1>4. CASE Cohort(g).status = "skipped"
    <2>1. Cohort(g)'.skip = Cohort(g).skip
      BY <1>2, <1>4 DEF SkipsOnward
    <2>2. Cohort(g).skip >= 1 /\ Cohort(g).skip <= events
      BY <1>2, <1>4 DEF SkipsNumbered
    <2> QED BY <1>1, <1>3, <2>1, <2>2
  <1>5. CASE Cohort(g).status # "skipped"
    BY <1>1, <1>2, <1>3, <1>5 DEF SkipsOnward
  <1> QED BY <1>4, <1>5

\* What Central's steps leave as it was.
LEMMA Rigid ==
  ASSUME NEW x
  PROVE  /\ ExecutorOK(x)' <=> ExecutorOK(x)
         /\ Sound(x)' <=> Sound(x)
         /\ Exec!Held(x)' = Exec!Held(x)
         /\ \A a : GrantOf(x, a)' = GrantOf(x, a) /\ PlayingOf(x, a)' = PlayingOf(x, a)
         /\ \A a : Unplayed(x, a)' <=> Unplayed(x, a)
         /\ \A a : Grants(x, a)' <=> Grants(x, a)
         /\ \A k, a : Revokes(x, k, a)' <=> Revokes(x, k, a)
  BY DEF ExecutorOK, Shaped, FrameGens, Showings, Contents, Retained, Sound, GrantOK, GrantOf,
         PlayingOf, Unplayed, Grants, Revokes, Exec!Held, Exec!Records

\* The plan there is stays, with as many skips or more.
SameOfferThere ==
  /\ plan'[Self] = plan[Self] /\ epoch'[Self] = epoch[Self]
  /\ SkipsOnward /\ KeysKept

LEMMA SameKeeps ==
  ASSUME CentralInv, CentralInv', SameOfferThere, NEW x, PlayerInv(x)
  PROVE  PlayerInv(x)' /\ \A s : WireInv(x, s) => WireInv(x, s)'
  <1>0. /\ ExecutorOK(x) /\ Sound(x) /\ Backed(x) /\ Follows(x) /\ StaysOff(x)
        /\ Exec!Held(x) \subseteq Assignments
    BY HeldIs DEF PlayerInv
  <1>1. /\ plan'[Self] = plan[Self] /\ epoch'[Self] = epoch[Self]
        /\ events \in Nat /\ events' \in Nat /\ events <= events'
        /\ Layers(Self)' = Layers(Self) /\ Layers(Self) \subseteq Assignments
    BY SelfIs DEF CentralInv, SameOfferThere, SkipsOnward, Layers
  <1>2. \A e, v : Current(e, v)' <=> Current(e, v)
    BY <1>1 DEF Current
  <1>3. ExecutorOK(x)' /\ Sound(x)'
    BY <1>0, Rigid
  <1>4. Backed(x)'
    BY <1>0, Rigid, NamedStays DEF SameOfferThere, Backed
  <1>5. Follows(x)'
    BY <1>0, <1>1, <1>2, Rigid DEF Follows
  <1>6. ASSUME NEW a \in Layers(Self)
        PROVE  /\ Shown(a).skip \in Nat
               /\ Shown(a).status = "skipped" => Shown(a)'.skip = Shown(a).skip
               /\ Shown(a).status # "skipped" /\ Shown(a)'.status = "skipped" =>
                    Shown(a)'.skip > events
    <2>1. plan[Self].groups[a] \in GroupIds
      BY DEF CentralInv, OfferKnown
    <2>2. Shown(a).skip \in Nat
      BY <2>1, GroupIdForm DEF CentralInv, Inv, Shown, Cohorts
    <2> QED BY <2>2, ShownStays DEF SameOfferThere
  <1>7. x.revoked \in Nat
    BY <1>0 DEF ExecutorOK
  <1>8. ASSUME NEW a \in Layers(Self) PROVE Shown(a)'.skip \in Nat
    <2>1. PICK g \in GroupIds' : g = plan'[Self].groups[a]
      BY <1>1 DEF CentralInv, OfferKnown
    <2>2. Shown(a)' = Cohort(g)'
      BY <2>1 DEF Shown, Cohort
    <2> QED BY <2>2, SkipNext DEF CentralInv
  <1>9. StaysOff(x)'
    <2>1. x.revoked <= events
      BY <1>0 DEF StaysOff
    <2>2. ASSUME NEW a \in Exec!Held(x), Current(x.epoch, x.rev), Shown(a)'.status = "skipped",
                 Shown(a)'.skip <= x.revoked, Shown(a)'.skip \in Nat
          PROVE  Unplayed(x, a)
      <3>1. a \in Layers(Self)
        BY <1>0, <2>2 DEF Follows
      <3>2. Shown(a).status = "skipped" /\ Shown(a).skip <= x.revoked
        BY <1>1, <1>6, <1>7, <2>1, <2>2, <3>1
      <3> QED BY <1>0, <2>2, <3>2 DEF StaysOff
    <2>3. Current(x.epoch, x.rev) => Exec!Held(x) \subseteq Layers(Self)
      BY <1>0 DEF Follows
    <2>4. ASSUME NEW a \in Exec!Held(x), Current(x.epoch, x.rev)', Shown(a)'.status = "skipped",
                 Shown(a)'.skip <= x.revoked
          PROVE  Unplayed(x, a)'
      BY <1>2, <1>8, <2>2, <2>3, <2>4, Rigid
    <2>5. x.revoked <= events'
      BY <1>1, <1>7, <2>1
    <2> QED BY <2>4, <2>5, Rigid DEF StaysOff
  <1>10. ASSUME NEW s, WireInv(x, s) PROVE WireInv(x, s)'
    <2>0. StateOK(s) /\ WireBacked(s) /\ WireFollows(s) /\ WireRevokes(x, s)
      BY <1>10 DEF WireInv
    <2>1. \A r \in s.revocations : r.seq \in Nat /\ r.seq <= events
      BY <2>0 DEF StateOK
    <2>2. StateOK(s)'
      BY <1>1, <2>0, <2>1 DEF StateOK, FrameGens
    <2>3. WireBacked(s)'
      BY <2>0, Rigid, NamedStays DEF SameOfferThere, WireBacked
    <2>4. WireFollows(s)'
      BY <1>1, <1>2, <2>0 DEF WireFollows
    <2>5. ASSUME NEW a \in Layers(Self), Current(s.epoch, s.rev), Shown(a)'.status = "skipped"
          PROVE  (Revokes(s, Shown(a), a)' /\ ~Grants(s, a)) \/ Older(x, s, Shown(a))'
      <3>1. CASE Shown(a).status = "skipped"
        <4>1. Shown(a)'.skip = Shown(a).skip
          BY <1>6, <3>1
        <4> QED BY <2>0, <2>5, <3>1, <4>1 DEF WireRevokes, Revokes, Older
      <3>2. CASE Shown(a).status # "skipped"
        <4>1. Shown(a)'.skip > events /\ Shown(a)'.skip \in Nat
          BY <1>6, <1>8, <2>5, <3>2
        <4>2. x.revoked <= events
          BY <1>0 DEF StaysOff
        <4> QED BY <1>1, <1>7, <2>1, <4>1, <4>2 DEF Older
      <3> QED BY <3>1, <3>2
    <2>6. WireRevokes(x, s)'
      BY <1>1, <1>2, <2>5, Rigid DEF WireRevokes
    <2> QED BY <2>2, <2>3, <2>4, <2>6 DEF WireInv
  <1> QED BY <1>3, <1>4, <1>5, <1>9, <1>10 DEF PlayerInv

\* A plan or an epoch is left behind.
LEMMA LateKeeps ==
  ASSUME CentralInv, KeysKept, SkipsOnward, NEW x, PlayerInv(x),
         x.epoch <= epoch'[Self], Behind(x.epoch, x.rev)', ~Current(x.epoch, x.rev)'
  PROVE  PlayerInv(x)'
  <1>1. /\ ExecutorOK(x) /\ Sound(x) /\ Backed(x) /\ x.revoked \in Nat /\ x.revoked <= events
        /\ events \in Nat /\ events' \in Nat /\ events <= events'
    BY SelfIs DEF PlayerInv, ExecutorOK, StaysOff, CentralInv, SkipsOnward
  <1>2. Backed(x)'
    BY <1>1, Rigid, NamedStays DEF Backed
  <1>3. Follows(x)'
    BY DEF Follows, Behind
  <1>4. StaysOff(x)'
    BY <1>1 DEF StaysOff
  <1> QED BY <1>1, <1>2, <1>3, <1>4, Rigid DEF PlayerInv

LEMMA NewKeeps ==
  ASSUME CentralInv, KeysKept, SkipsOnward, OfferKept(Self), plan'[Self] # plan[Self],
         NEW x, PlayerInv(x)
  PROVE  PlayerInv(x)' /\ \A s : WireInv(x, s) => WireInv(x, s)'
  <1>1. x.epoch \in Nat /\ x.rev \in Nat /\ Behind(x.epoch, x.rev) /\ x.epoch <= epoch[Self]
    BY DEF PlayerInv, ExecutorOK, Follows, Behind
  <1>2. epoch'[Self] = epoch[Self] /\ plan'[Self].epoch = epoch[Self]
    BY DEF OfferKept
  <1>3. Behind(x.epoch, x.rev)' /\ ~Current(x.epoch, x.rev)'
    BY <1>1, NewerOffer DEF CentralInv
  <1>4. PlayerInv(x)'
    BY <1>1, <1>2, <1>3, LateKeeps
  <1>5. ASSUME NEW s, WireInv(x, s) PROVE WireInv(x, s)'
    <2>1. StateOK(s) /\ WireBacked(s) /\ WireFollows(s)
      BY <1>5 DEF WireInv
    <2>2. s.epoch \in Nat /\ s.rev \in Nat /\ s.epoch = epoch[Self]
      BY <2>1 DEF StateOK, WireFollows
    <2>3. Behind(s.epoch, s.rev)
      BY <2>1, <2>2 DEF WireFollows, Behind
    <2>4. Behind(s.epoch, s.rev)' /\ ~Current(s.epoch, s.rev)'
      BY <2>2, <2>3, NewerOffer DEF CentralInv
    <2>5. events \in Nat /\ events' \in Nat /\ events <= events'
      BY SelfIs DEF CentralInv, SkipsOnward
    <2>6. \A r \in s.revocations : r.seq \in Nat /\ r.seq <= events'
      BY <2>1, <2>5 DEF StateOK
    <2>7. StateOK(s)'
      BY <2>1, <2>6 DEF StateOK, FrameGens
    <2>8. WireBacked(s)'
      BY <2>1, Rigid, NamedStays DEF WireBacked
    <2>9. WireFollows(s)'
      BY <1>2, <2>2, <2>4 DEF WireFollows, Behind
    <2>10. WireRevokes(x, s)'
      BY <2>4 DEF WireRevokes
    <2> QED BY <2>7, <2>8, <2>9, <2>10 DEF WireInv
  <1> QED BY <1>4, <1>5

LEMMA CentralInvStep ==
  ASSUME CentralInv, [AnyNext]_vars
  PROVE  CentralInv' /\ KeysKept /\ SkipsOnward /\ OfferKept(Self)
  <1>1. Inv /\ OfferKnown /\ SkipsNumbered /\ Inv'
    BY InvStep DEF CentralInv
  <1>2. KeysKept /\ SkipsOnward /\ OfferKept(Self)
    BY <1>1, KeysStay, SkipsGoOn, OfferStays, SelfAssumption
  <1>3. OfferKnown' /\ SkipsNumbered'
    BY <1>1, <1>2, KnownStep, NumberedStep
  <1> QED BY <1>1, <1>2, <1>3 DEF CentralInv

\* Whatever Central does in an epoch, what the Player has and is sent stays true of it.
LEMMA CentralKeeps ==
  ASSUME CentralInv, [AnyNext]_vars, epoch'[Self] = epoch[Self], NEW x, PlayerInv(x)
  PROVE  PlayerInv(x)' /\ \A s : WireInv(x, s) => WireInv(x, s)'
  <1>1. CentralInv' /\ KeysKept /\ SkipsOnward /\ OfferKept(Self)
    BY CentralInvStep
  <1>2. CASE plan'[Self] = plan[Self]
    BY <1>1, <1>2, SameKeeps DEF SameOfferThere
  <1>3. CASE plan'[Self] # plan[Self]
    BY <1>1, <1>3, NewKeeps
  <1> QED BY <1>2, <1>3

LEMMA EnrollKeeps ==
  ASSUME CentralInv, Enroll(Self), NEW x, PlayerInv(x)
  PROVE  PlayerInv(x)' /\ CentralInv'
  <1>1. CentralInv' /\ KeysKept /\ SkipsOnward
    BY CentralInvStep, SelfAssumption DEF AnyNext
  <1>2. /\ epoch[Self] \in Nat /\ epoch'[Self] = epoch[Self] + 1
        /\ plan[Self].epoch \in Nat /\ plan[Self].epoch <= epoch[Self] /\ plan' = plan
    BY SelfIs DEF CentralInv, Enroll, coordVars, Inv, Typed
  <1>3. x.epoch \in Nat /\ Behind(x.epoch, x.rev) /\ x.epoch <= epoch[Self]
    BY DEF PlayerInv, ExecutorOK, Follows, Behind
  <1>4. x.epoch <= epoch'[Self] /\ ~Current(x.epoch, x.rev)'
    BY <1>2, <1>3 DEF Current
  <1>5. Behind(x.epoch, x.rev)'
    BY <1>2, <1>3 DEF Behind
  <1> QED BY <1>1, <1>4, <1>5, LateKeeps

-----------------------------------------------------------------------------
(* The steps *)

\* What holds of the executor and of the State that are there next.
LEMMA PlayerNext ==
  ASSUME NEW y, y = player', PlayerInv(y)'
  PROVE  PlayerInv(player)'
  <1>1. ExecutorOK(player)'
    BY DEF PlayerInv, ExecutorOK, Shaped
  <1>2. Sound(player)'
    BY DEF PlayerInv, Sound, GrantOK, Exec!Held
  <1>3. Backed(player)'
    BY DEF PlayerInv, Backed, Named, GrantOf, PlayingOf, Exec!Held
  <1>4. Follows(player)'
    BY DEF PlayerInv, Follows, Current, Exec!Held
  <1>5. StaysOff(player)'
    BY DEF PlayerInv, StaysOff, Current, Unplayed, GrantOf, PlayingOf, Exec!Held
  <1> QED BY <1>1, <1>2, <1>3, <1>4, <1>5 DEF PlayerInv

LEMMA WireNext ==
  ASSUME NEW y, y = player', NEW s, s = wire', WireInv(y, s)'
  PROVE  WireInv(player, wire)'
  <1>1. StateOK(wire)'
    BY DEF WireInv, StateOK
  <1>2. WireBacked(wire)'
    BY DEF WireInv, WireBacked, Grants, Named
  <1>3. WireFollows(wire)'
    BY DEF WireInv, WireFollows, Current
  <1>4. WireRevokes(player, wire)'
    BY DEF WireInv, WireRevokes, Current, Revokes, Grants, Older
  <1> QED BY <1>1, <1>2, <1>3, <1>4 DEF WireInv

LEMMA PlayerNow ==
  ASSUME ProtocolInv
  PROVE  /\ CentralInv /\ PostsInv /\ healthy \in BOOLEAN
         /\ PlayerInv(player) /\ ExecutorOK(player)
         /\ wire # NoState => WireInv(player, wire)
         /\ epoch[Self] \in Nat /\ now \in Nat
  BY SelfIs DEF ProtocolInv, PlayerInv, CentralInv

\* A step of Central's in this epoch, which the Player does not see.
LEMMA UnseenKeeps ==
  ASSUME ProtocolInv, [AnyNext]_vars, epoch'[Self] = epoch[Self],
         player' = player, wire' = wire, healthy' = healthy, posts' \subseteq posts
  PROVE  ProtocolInv'
  <1>1. PICK x : x = player
    OBVIOUS
  <1>2. PICK s : s = wire
    OBVIOUS
  <1>3. CentralInv /\ PlayerInv(x) /\ (s # NoState => WireInv(x, s))
    BY <1>1, <1>2, PlayerNow
  <1>4. PlayerInv(x)' /\ (s # NoState => WireInv(x, s)')
    BY <1>3, CentralKeeps
  <1>5. PlayerInv(player)' /\ (wire' # NoState => WireInv(player, wire)')
    BY <1>1, <1>2, <1>4, PlayerNext, WireNext
  <1>6. CentralInv'
    BY <1>3, CentralInvStep
  <1>7. PostsInv' /\ healthy' \in BOOLEAN
    BY PlayerNow DEF PostsInv
  <1> QED BY <1>5, <1>6, <1>7 DEF ProtocolInv, NoState

\* A step of the Player's own.
LEMMA OwnKeeps ==
  ASSUME ProtocolInv, UNCHANGED vars, NEW y, y = player', Calm(player, y),
         wire' = wire, healthy' \in BOOLEAN,
         \A m \in posts' : m \in posts \/ (m.report \in Reports /\ m.report.epoch = player.epoch)
  PROVE  ProtocolInv'
  <1>1. PICK x : x = player
    OBVIOUS
  <1>2. PICK s : s = wire
    OBVIOUS
  <1>3. CentralInv /\ PlayerInv(x) /\ (s # NoState => WireInv(x, s)) /\ Calm(x, y)
    BY <1>1, <1>2, PlayerNow
  <1>4. PlayerInv(y) /\ (s # NoState => WireInv(y, s))
    BY <1>3, CalmKeeps
  <1>5. epoch' = epoch
    BY DEF vars, wallVars
  <1>6. PlayerInv(y)' /\ (s # NoState => WireInv(y, s)')
    BY <1>3, <1>4, <1>5, CentralKeeps
  <1>7. PlayerInv(player)' /\ (wire' # NoState => WireInv(player, wire)')
    BY <1>2, <1>6, PlayerNext, WireNext
  <1>8. CentralInv'
    BY <1>3, CentralInvStep
  <1>9. PostsInv'
    BY <1>5, PlayerNow DEF PostsInv, PlayerInv, Follows
  <1> QED BY <1>7, <1>8, <1>9 DEF ProtocolInv, NoState

LEMMA UnseenIs ==
  ASSUME ProtocolInv, Central \/ Passes \/ Arrive \/ LosePost \/ UNCHANGED allVars
  PROVE  ProtocolInv'
  <1>1. CASE Central
    <2>1. [AnyNext]_vars /\ UNCHANGED <<playerVars, wireVars>>
      BY <1>1 DEF Central, AnyNext
    <2>2. epoch' = epoch
      BY <1>1
      DEF Central, Plan, Settle, EditTimeline, Rebind, OutputLost, OutputRecovers, wallVars
    <2> QED BY <2>1, <2>2, UnseenKeeps DEF playerVars, wireVars
  <1>2. CASE Passes
    BY <1>2, UnseenKeeps DEF Passes, AnyNext, Tick, wallVars, playerVars, wireVars
  <1>3. CASE Arrive
    <2>1. PICK m \in posts :
            /\ posts' = posts \ {m} /\ UNCHANGED <<playerVars, wire>>
            /\ Readiness(Self, m.report) \/ UNCHANGED vars
      BY <1>3 DEF Arrive
    <2>2. m.report \in Reports
      BY PlayerNow DEF PostsInv
    <2>3. Readiness(Self, m.report) => AnyNext /\ epoch' = epoch
      BY <2>2, SelfAssumption DEF AnyNext, Heard, Readiness, wallVars
    <2>4. [AnyNext]_vars /\ epoch' = epoch
      BY <2>1, <2>3 DEF vars, wallVars
    <2> QED BY <2>1, <2>4, UnseenKeeps DEF playerVars
  <1>4. CASE LosePost
    BY <1>4, UnseenKeeps DEF LosePost, playerVars, vars, wallVars
  <1>5. CASE UNCHANGED allVars
    BY <1>5, UnseenKeeps DEF allVars, playerVars, wireVars, vars, wallVars
  <1> QED BY <1>1, <1>2, <1>3, <1>4, <1>5

LEMMA OwnIs ==
  ASSUME ProtocolInv, TickMain \/ Acquire \/ Damage \/ ClockTurns \/ MakeReport
  PROVE  ProtocolInv'
  <1>0. ExecutorOK(player) /\ now \in Nat /\ healthy \in BOOLEAN
    BY PlayerNow
  <1>1. CASE TickMain
    <2>1. PICK ready \in SUBSET Exec!Preparable(player), fits \in BOOLEAN :
            Exec!TickMain(ready, fits)
      BY <1>1 DEF TickMain
    <2>2. player' = Exec!Ticked(Exec!PreparePass(player, ready, fits)) /\ now' = now
          /\ healthy' = healthy
      BY <2>1 DEF Exec!TickMain
    <2>3. Calm(player, Exec!Ticked(Exec!PreparePass(player, ready, fits)))
      BY <1>0, TickIs
    <2>4. UNCHANGED vars /\ wire' = wire /\ posts' = posts
      BY <1>1, <2>2 DEF TickMain, vars, wallVars, wireVars
    <2> QED BY <1>0, <2>2, <2>3, <2>4, OwnKeeps
  <1>2. CASE Acquire
    <2>1. PICK a \in Assignments : Exec!Acquire(a)
      BY <1>2 DEF Acquire
    <2>2. /\ player' = [player EXCEPT !.asg[a].secured = TRUE] /\ now' = now
          /\ healthy' = healthy /\ a \in Exec!Held(player)
      BY <2>1 DEF Exec!Acquire
    <2>3. Calm(player, [player EXCEPT !.asg[a].secured = TRUE])
      BY <1>0, <2>2, AcquireIs
    <2>4. UNCHANGED vars /\ wire' = wire /\ posts' = posts
      BY <1>2, <2>2 DEF Acquire, vars, wallVars, wireVars
    <2> QED BY <1>0, <2>2, <2>3, <2>4, OwnKeeps
  <1>3. CASE Damage
    <2>1. PICK a \in Assignments : Exec!Damage(a)
      BY <1>3 DEF Damage
    <2> DEFINE y == [player EXCEPT !.asg = [b \in Exec!Held(player) |->
                       IF b \in {a} THEN Damaged(player.asg[b]) ELSE player.asg[b]]]
    <2>2. /\ player' = [Exec!Outdated(y, {a}) EXCEPT !.capacity = FALSE] /\ now' = now
          /\ healthy' = healthy
      BY <2>1 DEF Exec!Damage, Exec!Changed, Damaged
    <2>3. Calm(player, [Exec!Outdated(y, {a}) EXCEPT !.capacity = FALSE])
      BY <1>0, DamageIs
    <2>4. UNCHANGED vars /\ wire' = wire /\ posts' = posts
      BY <1>3, <2>2 DEF Damage, vars, wallVars, wireVars
    <2> QED BY <1>0, <2>2, <2>3, <2>4, OwnKeeps
  <1>4. CASE ClockTurns
    <2>1. player' = player /\ now' = now /\ healthy' \in BOOLEAN
      BY <1>0, <1>4 DEF ClockTurns, Exec!ClockTurns
    <2>2. Calm(player, player)
      BY <1>0 DEF Calm
    <2>3. UNCHANGED vars /\ wire' = wire /\ posts' = posts
      BY <1>4, <2>1 DEF ClockTurns, vars, wallVars, wireVars
    <2> QED BY <2>1, <2>2, <2>3, OwnKeeps
  <1>5. CASE MakeReport
    <2>1. Exec!Report /\ now' = now /\ healthy' = healthy
      BY <1>5 DEF MakeReport, Exec!Report
    <2>2. Calm(player, player')
      BY <1>0, <2>1, ReportedIs
    <2>3. UNCHANGED vars /\ wire' = wire
      BY <1>5, <2>1 DEF MakeReport, vars, wallVars
    <2>4. NextReport \in Reports /\ NextReport.epoch = player.epoch
      <3>1. ExecutorOK(Exec!Gated(player)) /\ SameOffer(player, Exec!Gated(player))
        BY <1>0, GatedIs
      <3> QED BY <1>0, <3>1, ReportTyped DEF NextReport, SameOffer
    <2>5. \A m \in posts' : m \in posts \/ m.report = NextReport
      BY <1>5 DEF MakeReport
    <2> QED BY <1>0, <2>1, <2>2, <2>3, <2>4, <2>5, OwnKeeps
  <1> QED BY <1>1, <1>2, <1>3, <1>4, <1>5

LEMMA SendIs ==
  ASSUME ProtocolInv, Send
  PROVE  ProtocolInv'
  <1>1. /\ UNCHANGED vars /\ player' = player /\ healthy' = healthy /\ posts' = posts
        /\ wire' = StateNow
    BY DEF Send, playerVars
  <1>2. PICK x : x = player
    OBVIOUS
  <1>3. PICK s : s = StateNow
    OBVIOUS
  <1>4. CentralInv /\ PlayerInv(x) /\ WireInv(x, s)
    BY <1>2, <1>3, PlayerNow, SendKeeps
  <1>5. epoch' = epoch
    BY <1>1 DEF vars, wallVars
  <1>6. PlayerInv(x)' /\ WireInv(x, s)' /\ CentralInv'
    BY <1>1, <1>4, <1>5, CentralKeeps, CentralInvStep
  <1>7. PlayerInv(player)' /\ WireInv(player, wire)'
    BY <1>1, <1>2, <1>3, <1>6, PlayerNext, WireNext
  <1>8. PostsInv' /\ healthy' \in BOOLEAN
    BY <1>1, <1>5, PlayerNow DEF PostsInv
  <1> QED BY <1>6, <1>7, <1>8 DEF ProtocolInv

LEMMA TakeIs ==
  ASSUME ProtocolInv, Take
  PROVE  ProtocolInv'
  <1>1. PICK ready \in SUBSET (wire.layers \cup Exec!Held(player)), fits \in BOOLEAN :
          Exec!Apply(wire, ready, fits)
    BY DEF Take
  <1>2. /\ wire.epoch >= player.epoch /\ player' = Exec!Applied(player, wire, ready, fits)
        /\ now' = now /\ healthy' = healthy
    BY <1>1 DEF Exec!Apply
  <1>3. wire # NoState /\ wire' = NoState /\ UNCHANGED vars /\ posts' = posts
    BY <1>2 DEF Take, vars, wallVars
  <1>4. PICK y : y = Exec!Applied(player, wire, ready, fits)
    OBVIOUS
  <1>5. CentralInv /\ PlayerInv(player) /\ WireInv(player, wire)
    BY <1>3, PlayerNow
  <1>6. PlayerInv(y)
    BY <1>2, <1>4, <1>5, TakeKeeps
  <1>7. epoch' = epoch
    BY <1>3 DEF vars, wallVars
  <1>8. PlayerInv(y)' /\ CentralInv'
    BY <1>3, <1>5, <1>6, <1>7, CentralKeeps, CentralInvStep
  <1>9. PlayerInv(player)'
    BY <1>2, <1>4, <1>8, PlayerNext
  <1>10. PostsInv' /\ healthy' \in BOOLEAN
    BY <1>2, <1>3, <1>7, PlayerNow DEF PostsInv
  <1> QED BY <1>3, <1>8, <1>9, <1>10 DEF ProtocolInv, NoState

LEMMA EnrollsIs ==
  ASSUME ProtocolInv, Enrolls
  PROVE  ProtocolInv'
  <1>1. /\ Enroll(Self) /\ wire' = NoState /\ posts' = {} /\ healthy' = healthy
        /\ player' \in {player, Exec!Cold}
    BY DEF Enrolls
  <1>2. PICK x : x = player
    OBVIOUS
  <1>3. PICK c : c = Exec!Cold
    OBVIOUS
  <1>4. CentralInv /\ PlayerInv(x) /\ PlayerInv(c)
    BY <1>2, <1>3, PlayerNow, ColdKeeps
  <1>5. PlayerInv(x)' /\ PlayerInv(c)' /\ CentralInv'
    BY <1>1, <1>4, EnrollKeeps
  <1>6. player' = x \/ player' = c
    BY <1>1, <1>2, <1>3
  <1>7. PlayerInv(player)'
    BY <1>5, <1>6, PlayerNext
  <1> QED BY <1>1, <1>5, <1>7, PlayerNow DEF ProtocolInv, PostsInv, NoState

LEMMA InitProtocol == ProtocolInit => ProtocolInv
  <1> SUFFICES ASSUME ProtocolInit PROVE ProtocolInv
    OBVIOUS
  <1>1. Init /\ healthy = TRUE /\ player = Exec!Cold /\ wire = NoState /\ posts = {}
    BY DEF ProtocolInit
  <1>2. Inv
    BY <1>1, InitInv
  <1>3. plan[Self] = NoPlan /\ groups = [c \in Cues |-> <<>>]
    BY <1>1, SelfAssumption DEF Init, Empty
  <1>4. Layers(Self) = {}
    BY <1>3 DEF Layers, NoPlan
  <1>5. GroupIds = {}
    BY <1>3 DEF GroupIds
  <1>6. CentralInv
    BY <1>2, <1>4, <1>5 DEF CentralInv, OfferKnown, SkipsNumbered
  <1>7. PlayerInv(player)
    BY <1>1, <1>6, ColdKeeps
  <1> QED BY <1>1, <1>6, <1>7 DEF ProtocolInv, PostsInv

LEMMA ProtocolStep == ProtocolInv /\ [ProtocolNext]_allVars => ProtocolInv'
  BY UnseenIs, OwnIs, SendIs, TakeIs, EnrollsIs DEF ProtocolNext

LEMMA ProtocolAlways == Protocol => []ProtocolInv
  BY InitProtocol, ProtocolStep, PTL DEF Protocol

\* A grant the Player holds is for content it has secured and prepared, through every
\* State, report, lost preparation, damaged byte, stale clock and restart: whatever loses
\* one of the two ends the grant (_outdate, lose_preparation).
THEOREM GrantsArePrepared == Protocol => []HeldIsPrepared
  <1>1. ProtocolInv => HeldIsPrepared
    BY DEF ProtocolInv, PlayerInv, Sound, GrantOK, HeldIsPrepared
  <1> QED BY <1>1, ProtocolAlways, PTL

\* The Player holds and plays nothing Central did not grant to that Player, in the epoch
\* the Player is in, for that revision and assignment, in whatever order States and
\* reports come (accept_commit, tick_main).
THEOREM PlaysOnlyGranted == Protocol => []OnlyGranted
  <1>1. ProtocolInv => OnlyGranted
    <2> SUFFICES ASSUME ProtocolInv, NEW a \in Exec!Held(player),
                        NEW v \in {player.asg[a].granted, player.asg[a].playing} \ {0}
                 PROVE  Named(player.epoch, v, a)
      BY DEF OnlyGranted, Named
    <2>1. a \in Assignments /\ Backed(player)
      BY PlayerNow, HeldIs DEF PlayerInv
    <2> QED BY <2>1 DEF Backed, GrantOf, PlayingOf
  <1> QED BY <1>1, ProtocolAlways, PTL

\* A showing whose revocation the Player took stays off while it shows that plan: no
\* State that comes later, and none that was late, brings its grant back (apply_plan,
\* revoke).
THEOREM RevokedIsOff == Protocol => []RevokedStaysOff
  <1>1. ProtocolInv => RevokedStaysOff
    <2> SUFFICES ASSUME ProtocolInv, Current(player.epoch, player.rev),
                        NEW a \in Exec!Held(player), Shown(a).status = "skipped",
                        Shown(a).skip <= player.revoked
                 PROVE  player.asg[a].granted = 0 /\ player.asg[a].playing = 0
      BY DEF RevokedStaysOff, Current, Shown
    <2> QED BY PlayerNow DEF PlayerInv, StaysOff, Unplayed, GrantOf, PlayingOf
  <1> QED BY <1>1, ProtocolAlways, PTL

\* What an executor retains is no more reports than it may.
LEMMA FewRetained ==
  ASSUME NEW n \in Nat, NEW f \in Retained(n)
  PROVE  Cardinality(DOMAIN f) <= KeepReports
  <1>1. KeepReports \in Nat /\ KeepReports >= 1
    BY KeepAssumption
  <1>2. DOMAIN f \subseteq 1..n /\ \A m \in DOMAIN f : m + KeepReports > n
    BY DEF Retained
  <1>3. CASE n <= KeepReports
    <2>1. IsFiniteSet(1..n) /\ Cardinality(1..n) = n
      BY FS_Interval
    <2>2. Cardinality(DOMAIN f) <= Cardinality(1..n)
      BY <1>2, <2>1, FS_Subset
    <2>3. Cardinality(DOMAIN f) \in Nat
      BY <1>2, <2>1, FS_Subset, FS_CardinalityType
    <2> QED BY <1>1, <1>3, <2>1, <2>2, <2>3
  <1>4. CASE n > KeepReports
    <2> DEFINE first == n - KeepReports + 1
    <2>1. first \in Int /\ n \in Int /\ first <= n
      BY <1>1, <1>4
    <2>2. IsFiniteSet(first..n) /\ Cardinality(first..n) = KeepReports
      BY <1>1, <2>1, FS_Interval
    <2>3. DOMAIN f \subseteq first..n
      BY <1>1, <1>2
    <2>4. Cardinality(DOMAIN f) <= Cardinality(first..n)
      BY <2>2, <2>3, FS_Subset
    <2> QED BY <2>2, <2>4
  <1> QED BY <1>1, <1>3, <1>4

\* The executor's fields, the State and the reports on their way hold what they can hold;
\* an executor retains no more reports than it may (readiness).
THEOREM ProtocolTypes == Protocol => []ProtocolTypeOK
  <1>1. ProtocolInv => ProtocolTypeOK
    <2> SUFFICES ASSUME ProtocolInv PROVE ProtocolTypeOK
      OBVIOUS
    <2>1. /\ ExecutorOK(player) /\ healthy \in BOOLEAN /\ PostsInv
          /\ wire # NoState => wire.epoch = epoch[Self]
      BY PlayerNow DEF WireInv, WireFollows
    <2>2. Cardinality(DOMAIN player.reported) <= KeepReports
      BY <2>1, FewRetained DEF ExecutorOK
    <2>3. Shaped(player) /\ player.asg \in [Exec!Held(player) -> Exec!Records]
      BY <2>1, HeldIs DEF ExecutorOK
    <2>4. Exec!Held(player) \subseteq Assignments
      BY <2>1, HeldIs
    <2>5. /\ DOMAIN player.frames \subseteq Frames
          /\ player.frames \in [DOMAIN player.frames -> Nat]
      BY <2>1 DEF ExecutorOK, FrameGens
    <2>6. /\ DOMAIN player.inactive \subseteq Assignments
          /\ player.inactive \in [DOMAIN player.inactive -> Nat]
      BY <2>1 DEF ExecutorOK, Contents
    <2>7. /\ DOMAIN player.reported \subseteq 1..player.seq
          /\ \A n \in DOMAIN player.reported : player.reported[n] \subseteq Assignments
      BY <2>1 DEF ExecutorOK, Retained
    <2>8. Exec!TypeOK
      <3>1. {player.epoch, player.rev, player.seq, player.revoked} \subseteq Nat
        BY <2>1 DEF ExecutorOK
      <3>2. Exec!Held(player) \cup DOMAIN player.inactive \subseteq Assignments
        BY <2>4, <2>6
      <3>3. player.capacity \in BOOLEAN
        BY <2>1 DEF ExecutorOK
      <3>4. player = [epoch |-> player.epoch, frames |-> player.frames, rev |-> player.rev,
                      asg |-> player.asg, inactive |-> player.inactive,
                      capacity |-> player.capacity, seq |-> player.seq,
                      reported |-> player.reported, revoked |-> player.revoked,
                      seen |-> player.seen]
        BY <2>3 DEF Shaped
      <3>5. Exec!Cardinality(DOMAIN player.reported) <= KeepReports
        BY <2>2 DEF Exec!Cardinality, Cardinality
      <3> QED BY <2>1, <2>3, <2>5, <2>6, <2>7, <3>1, <3>2, <3>3, <3>4, <3>5 DEF Exec!TypeOK
    <2> QED BY <2>1, <2>8 DEF ProtocolTypeOK, PostsInv
  <1> QED BY <1>1, ProtocolAlways, PTL

=============================================================================
