---------------------------- MODULE NodeDocuments ----------------------------
(***************************************************************************)
(* Central's assertion of one document into one desired bucket of a Node   *)
(* (nodeapi/hub.py NodeLink, nodeapi/documents.py DocumentWriter): a       *)
(* conditional write against Central's own last write, beside another      *)
(* writer, a bucket that is made again and a key table that changes.       *)
(***************************************************************************)
EXTENDS Naturals

CONSTANTS
  Values,      \* what Central may project for the key
  MaxBuckets,   \* bound: creations of the bucket
  MaxOthers,   \* bound: writes by another writer
  MaxChanges,  \* bound: changes of Central's projection
  MaxTables,   \* bound: changes of the bucket's key table
  MaxTroubles  \* bound: calls that are lost, tasks that are cancelled, Centrals that stop

ASSUME DocumentAssumption ==
  /\ "none" \notin Values
  /\ MaxBuckets \in Nat \ {0} /\ {MaxOthers, MaxChanges, MaxTables, MaxTroubles} \subseteq Nat

VARIABLES
  bucket,     \* the bucket on the Node: its creation, whether its table lists the key, the key's value
  projection, \* what Central wants the key to hold
  own,        \* LinkStore.own_tokens: digest and token of Central's last write, or NoWrite
  asserting,  \* assert_documents under way, and the table the link last asserted against
  late,       \* puts that are still on the way after their caller gave up
  wake,       \* a change or a reconcile has yet to be asserted
  adopted,    \* every adoption so far: whose value, for which projection
  spent       \* what is used of each bound

documentVars == <<bucket, projection, own, asserting, late, wake, adopted, spent>>

-----------------------------------------------------------------------------

ABSENT    == [epoch |-> 0, seq |-> 0]
NoWrite   == [digest |-> "none", token |-> ABSENT]
NoTable   == [epoch |-> 0, listed |-> FALSE]
Resting(last) == [phase |-> "rest", epoch |-> 0, listed |-> FALSE, bound |-> NoTable,
                  changed |-> FALSE, value |-> "none", expect |-> ABSENT, last |-> last]

Held   == bucket.seq # 0
KeyToken  == [epoch |-> bucket.epoch, seq |-> bucket.seq]
Used(what) == spent' = [spent EXCEPT ![what] = @ + 1]

\* A value put on the key: the next sequence of the stream.
Holding(value, writer) ==
  [bucket EXCEPT !.value = value, !.writer = writer, !.seq = bucket.top + 1, !.top = @ + 1]

-----------------------------------------------------------------------------
(* What happens around the link *)

ProjectionChanges ==
  /\ spent.changes < MaxChanges /\ Used("changes")
  /\ \E v \in Values \ {projection} : projection' = v
  /\ wake' = TRUE
  /\ UNCHANGED <<bucket, own, asserting, late, adopted>>

\* Another writer holds to the same discipline: it writes over what it has read.
OtherWrites ==
  /\ spent.others < MaxOthers /\ Used("others")
  /\ bucket' = Holding("other", "other")
  /\ UNCHANGED <<projection, own, asserting, late, wake, adopted>>

\* The Node restarts with an empty bus; the bucket is declared again and a birth follows.
BucketIsMadeAgain ==
  /\ bucket.epoch < MaxBuckets
  /\ bucket' = [bucket EXCEPT !.epoch = @ + 1, !.value = "none", !.writer = "none", !.seq = 0, !.top = 0]
  /\ wake' = TRUE
  /\ UNCHANGED <<projection, own, asserting, late, adopted, spent>>

\* apply: a key the new table drops is purged; the component's birth follows.
TableChanges ==
  /\ spent.tables < MaxTables /\ Used("tables")
  /\ bucket' = IF bucket.listed
               THEN [bucket EXCEPT !.listed = FALSE, !.value = "none", !.writer = "none", !.seq = 0]
               ELSE [bucket EXCEPT !.listed = TRUE]
  /\ wake' = TRUE
  /\ UNCHANGED <<projection, own, asserting, late, adopted>>

-----------------------------------------------------------------------------
(* NodeLink.assert_documents *)

\* What the link remembers is the table at the bind, whatever the writer has read since.
Described == asserting.bound

Binds ==
  /\ asserting.phase = "rest" /\ wake
  /\ asserting' = [asserting EXCEPT !.phase = "plan", !.epoch = bucket.epoch, !.listed = bucket.listed,
                     !.bound = [epoch |-> bucket.epoch, listed |-> bucket.listed],
                     !.changed = /\ asserting.last.epoch = bucket.epoch
                                 /\ asserting.last.listed # bucket.listed]
  /\ wake' = FALSE
  /\ UNCHANGED <<bucket, projection, own, late, adopted, spent>>

\* A bug to catch: a token of another creation still counts as Central's last write.
InThisEpoch_Any == own # NoWrite

InThisEpoch == own.token.epoch = asserting.epoch

\* Central's projection against its last write.
Plans ==
  /\ asserting.phase = "plan"
  /\ LET mine == InThisEpoch
         same == mine /\ own.digest = projection
     IN asserting' =
          IF same /\ ~asserting.changed THEN Resting(Described)
          ELSE [asserting EXCEPT !.phase = IF same THEN "reread" ELSE "put",
                  !.value = projection, !.expect = IF mine THEN own.token ELSE ABSENT]
  /\ UNCHANGED <<bucket, projection, own, late, wake, adopted, spent>>

\* After a change of the table: another writer's value is left as it is.
Rereads ==
  /\ asserting.phase = "reread"
  /\ asserting' = IF Held /\ bucket.writer = "other" THEN Resting(Described)
                  ELSE [asserting EXCEPT !.phase = "put", !.epoch = bucket.epoch, !.listed = bucket.listed]
  /\ UNCHANGED <<bucket, projection, own, late, wake, adopted, spent>>

\* A bug to catch: the put does not say which value it writes over.
Matches_Always(expect) == TRUE

\* The server's expected last subject sequence; a Node's creations share no sequence.
Matches(expect) == IF expect = ABSENT THEN ~Held ELSE expect = KeyToken

\* DocumentWriter.put: refused unsent when the table does not list the key, else
\* acknowledged or in conflict.
PutsDocument ==
  /\ asserting.phase = "put"
  /\ IF ~asserting.listed
     THEN asserting' = Resting(Described) /\ UNCHANGED bucket
     ELSE IF asserting.expect.epoch \in {0, asserting.epoch} /\ Matches(asserting.expect)
     THEN /\ bucket' = Holding(asserting.value, "central")
          /\ asserting' = [asserting EXCEPT !.phase = "wrote",
                             !.expect = [epoch |-> asserting.epoch, seq |-> bucket.top + 1]]
     ELSE asserting' = [asserting EXCEPT !.phase = "conflict"] /\ UNCHANGED bucket
  /\ UNCHANGED <<projection, own, late, wake, adopted, spent>>

\* A bug to catch: Central's own value gives its token whatever value it is.
SameDigest_NotCompared(value) == TRUE

SameDigest(value) == value = asserting.value

\* A conflict is settled by whose value is there, read with the epoch and table of now.
Resolves ==
  /\ asserting.phase = "conflict"
  /\ LET now == [asserting EXCEPT !.epoch = bucket.epoch, !.listed = bucket.listed]
     IN asserting' = IF ~Held THEN [now EXCEPT !.phase = "put", !.expect = ABSENT]
                     ELSE [now EXCEPT !.expect = KeyToken,
                             !.phase = IF bucket.writer = "other" THEN "adopt"
                                       ELSE IF SameDigest(bucket.value) THEN "wrote" ELSE "put"]
  /\ UNCHANGED <<bucket, projection, own, late, wake, adopted, spent>>

\* LinkStore.wrote: what Central wrote, or another writer's value it takes for its own.
RecordsWrite ==
  /\ asserting.phase \in {"wrote", "adopt"}
  /\ own' = [digest |-> asserting.value, token |-> asserting.expect]
  /\ adopted' = IF asserting.phase = "wrote" THEN adopted
                ELSE adopted \cup {[token |-> asserting.expect, digest |-> asserting.value]}
  /\ asserting' = Resting(Described)
  /\ UNCHANGED <<bucket, projection, late, wake, spent>>

-----------------------------------------------------------------------------
(* Calls lost, tasks cancelled, Centrals that stop *)

\* The assertion ends before it is through, its put perhaps on the way; what loses a call
\* loses the drains' pulls too, and the link reconciles.  A new link remembers no table.
Trouble ==
  /\ asserting.phase # "rest" /\ spent.troubles < MaxTroubles /\ Used("troubles")
  /\ \E memory \in {asserting.last, NoTable} : asserting' = Resting(memory)
  /\ late' \in {late, IF asserting.phase = "put" /\ asserting.listed
                      THEN late \cup {[value |-> asserting.value, expect |-> asserting.expect]} ELSE late}
  /\ wake' = TRUE
  /\ UNCHANGED <<bucket, projection, own, adopted>>

LateLands ==
  /\ \E put \in late :
       /\ bucket' = IF Matches(put.expect) THEN Holding(put.value, "central") ELSE bucket
       /\ late' = late \ {put}
  /\ UNCHANGED <<projection, own, asserting, wake, adopted, spent>>

-----------------------------------------------------------------------------

DocumentInit ==
  /\ \E listed \in BOOLEAN :
       bucket = [epoch |-> 1, listed |-> listed, value |-> "none", writer |-> "none", seq |-> 0, top |-> 0]
  /\ projection \in Values
  /\ own = NoWrite /\ asserting = Resting(NoTable) /\ late = {} /\ wake = TRUE /\ adopted = {}
  /\ spent = [others |-> 0, changes |-> 0, tables |-> 0, troubles |-> 0]

AssertStep == Binds \/ Plans \/ Rereads \/ PutsDocument \/ Resolves \/ RecordsWrite

DocumentNext ==
  \/ ProjectionChanges \/ OtherWrites \/ BucketIsMadeAgain \/ TableChanges
  \/ AssertStep \/ Trouble \/ LateLands

\* A running link asserts what it has to; a call is delivered in the end.
DocumentFairness == WF_documentVars(AssertStep) /\ WF_documentVars(LateLands)

DocumentSpec == DocumentInit /\ [][DocumentNext]_documentVars /\ DocumentFairness

-----------------------------------------------------------------------------
(* Properties *)

KeyTokens == [epoch : Nat, seq : Nat]
KeyTables == [epoch : Nat, listed : BOOLEAN]
Projected == Values \cup {"none"}
AssertPhases == {"rest", "plan", "reread", "put", "conflict", "wrote", "adopt"}

DocumentTypeOK ==
  /\ bucket \in [epoch : 1..MaxBuckets, listed : BOOLEAN, value : Projected \cup {"other"},
                 writer : {"none", "central", "other"}, seq : Nat, top : Nat]
  /\ bucket.seq <= bucket.top /\ (Held <=> bucket.value # "none") /\ (Held <=> bucket.writer # "none")
  /\ projection \in Values /\ wake \in BOOLEAN
  /\ own \in [digest : Projected, token : KeyTokens]
  /\ asserting \in [phase : AssertPhases, epoch : Nat, listed : BOOLEAN, bound : KeyTables,
                    changed : BOOLEAN, value : Projected, expect : KeyTokens, last : KeyTables]
  /\ asserting.phase \in {"rest", "plan"} \/ asserting.value \in Values
  /\ late \subseteq [value : Values, expect : KeyTokens]
  /\ adopted \subseteq [token : KeyTokens, digest : Values]
  /\ spent \in [others : Nat, changes : Nat, tables : Nat, troubles : Nat]

\* "any other writer's value is adopted ..., so Central never overwrites it until its
\* projection changes again" (hub.py): a put of Central's replaces another writer's value
\* only if Central had adopted that very value, for another projection.
AdoptedStays ==
  [][bucket.writer = "other" /\ bucket'.writer = "central" /\ bucket'.epoch = bucket.epoch
       => \E a \in adopted : a.token = KeyToken /\ a.digest # bucket'.value]_documentVars

\* "by diff against Central's own last write per key" (hub.py): when the stored token
\* names what the key holds, and Central wrote it, the stored digest is of that value,
\* whatever acknowledgements were lost and puts came late.
OwnTokenIsTrue ==
  own.token = KeyToken /\ bucket.writer = "central" => own.digest = bucket.value

\* Once nothing changes any more, a listed key holds Central's projection or a value of
\* another writer's.
DocumentsSettle ==
  <>[](bucket.listed => bucket.writer = "other" \/ (bucket.writer = "central" /\ bucket.value = projection))
==============================================================================
