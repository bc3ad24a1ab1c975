------------------------------- MODULE HubProofs -------------------------------
(***************************************************************************)
(* What Central keeps true of what it publishes over the Node bus, for any *)
(* values and bounds: its conditional write of a document, and the margin  *)
(* a new WALL keeps above the mark.                                        *)
(*                                                                         *)
(* The argument for documents: a token is never given twice, since         *)
(* creations and sequences only count up.  So a token Central took names   *)
(* one value of one writer for ever, whatever puts land late: Central's    *)
(* own, or another writer's that it adopted.  A put replaces only what its *)
(* token names, and carries the token of a value of another writer's only  *)
(* if Central has adopted that value and its projection has changed since. *)
(*                                                                         *)
(* The argument for WALL: above the mark, every sequence of the running    *)
(* WALL is still to be marked by the Central that wrote it, or was         *)
(* forgotten by one that stopped, and a stop forgets one at most.          *)
(***************************************************************************)
EXTENDS NodeDocuments, WallStream, FiniteSetTheorems, TLAPS

\* A token the bucket has given, or one of an earlier creation.
Given(token) ==
  token.epoch <= bucket.epoch /\ (token.epoch = bucket.epoch => token.seq <= bucket.top)

AdoptedAs(token, digest) == \E a \in adopted : a.token = token /\ a.digest = digest

\* What Central takes for its own last write: its value, or one it adopted.
Truly(token, digest) ==
  /\ Given(token)
  /\ token = KeyToken /\ bucket.writer = "central" => digest = bucket.value

OwnOK ==
  /\ Truly(own.token, own.digest)
  /\ own.token = KeyToken /\ bucket.writer = "other" => AdoptedAs(own.token, own.digest)

\* A put that replaces another writer's value has a token of an adoption.
PutOK(expect, value) ==
  /\ Given(expect)
  /\ expect = KeyToken /\ bucket.writer = "other" =>
       \E a \in adopted : a.token = expect /\ a.digest # value

AssertOK ==
  /\ asserting.epoch <= bucket.epoch
  /\ asserting.phase = "reread" => Given(asserting.expect)
  /\ asserting.phase = "put" => PutOK(asserting.expect, asserting.value)
  /\ asserting.phase \in {"wrote", "adopt"} => Truly(asserting.expect, asserting.value)
  /\ asserting.phase = "wrote" =>
       asserting.expect.seq # 0 /\ (asserting.expect = KeyToken => bucket.writer = "central")

LateOK == \A put \in late : PutOK(put.expect, put.value)

DocumentInv == DocumentTypeOK /\ OwnOK /\ AssertOK /\ LateOK

-----------------------------------------------------------------------------
(* Types *)

Buckets == [epoch : 1..MaxBuckets, listed : BOOLEAN, value : Projected \cup {"other"},
            writer : {"none", "central", "other"}, seq : Nat, top : Nat]

BucketOK ==
  /\ bucket \in Buckets /\ bucket.seq <= bucket.top
  /\ (Held <=> bucket.value # "none") /\ (Held <=> bucket.writer # "none")

Assertions == [phase : AssertPhases, epoch : Nat, listed : BOOLEAN, bound : KeyTables,
               changed : BOOLEAN, value : Projected, expect : KeyTokens, last : KeyTables]

AssertingOK ==
  asserting \in Assertions /\ (asserting.phase \in {"rest", "plan"} \/ asserting.value \in Values)

RestOK ==
  /\ projection \in Values /\ wake \in BOOLEAN
  /\ own \in [digest : Projected, token : KeyTokens]
  /\ late \subseteq [value : Values, expect : KeyTokens]
  /\ adopted \subseteq [token : KeyTokens, digest : Values]
  /\ spent \in [others : Nat, changes : Nat, tables : Nat, troubles : Nat]

LEMMA DocumentTypeParts == DocumentTypeOK <=> BucketOK /\ AssertingOK /\ RestOK
  BY DEF DocumentTypeOK, BucketOK, AssertingOK, RestOK, Buckets, Assertions

LEMMA DocumentTypePartsNext ==
  ASSUME BucketOK', AssertingOK', RestOK'
  PROVE  DocumentTypeOK'
  BY DEF DocumentTypeOK, BucketOK, AssertingOK, RestOK, Buckets, Assertions

\* A value written on the key: its creation and table stay, and its token is new.
Newer(value, by) ==
  /\ bucket' \in Buckets
  /\ bucket'.epoch = bucket.epoch /\ bucket'.listed = bucket.listed
  /\ bucket'.value = value /\ bucket'.writer = by
  /\ bucket'.seq = bucket.top + 1 /\ bucket'.top = bucket.top + 1

LEMMA HoldingIs ==
  ASSUME BucketOK, NEW value \in Values \cup {"other"}, NEW by \in {"central", "other"},
         bucket' = Holding(value, by)
  PROVE  BucketOK' /\ Newer(value, by)
  <1>1. bucket.top + 1 \in Nat /\ bucket.top + 1 # 0
    BY DEF BucketOK, Buckets
  <1>2. bucket' = [epoch |-> bucket.epoch, listed |-> bucket.listed, value |-> value,
                   writer |-> by, seq |-> bucket.top + 1, top |-> bucket.top + 1]
    BY DEF Holding, BucketOK, Buckets
  <1>3. bucket' \in Buckets
    BY <1>1, <1>2 DEF BucketOK, Buckets, Projected
  <1>4. value # "none"
    BY DocumentAssumption
  <1> QED BY <1>1, <1>2, <1>3, <1>4 DEF BucketOK, Held, Newer

LEMMA RestingIs ==
  ASSUME NEW last \in KeyTables
  PROVE  /\ Resting(last) \in Assertions /\ Resting(last).phase = "rest"
         /\ Resting(last).epoch = 0 /\ Resting(last).expect = ABSENT
  BY DEF Resting, Assertions, AssertPhases, KeyTables, KeyTokens, NoTable, ABSENT, Projected

-----------------------------------------------------------------------------
(* What becomes of the key *)

SameKey ==
  /\ bucket'.epoch = bucket.epoch /\ bucket'.seq = bucket.seq /\ bucket'.top = bucket.top
  /\ bucket'.writer = bucket.writer /\ bucket'.value = bucket.value

FreshKey ==
  \/ bucket'.epoch > bucket.epoch
  \/ /\ bucket'.epoch = bucket.epoch /\ bucket'.top >= bucket.top
     /\ bucket'.seq > bucket.top \/ bucket'.writer = "none"

KeyMoves == BucketOK /\ BucketOK' /\ (SameKey \/ FreshKey)

LEMMA AssertSteps ==
  ASSUME DocumentNext
  PROVE  \/ ProjectionChanges \/ OtherWrites \/ BucketIsMadeAgain \/ TableChanges \/ Binds \/ Plans
         \/ Rereads \/ PutsDocument \/ Resolves \/ RecordsWrite \/ Trouble \/ LateLands
  BY DEF DocumentNext, AssertStep

\* A put that finds what it expects.
Puts == /\ asserting.phase = "put" /\ asserting.listed
        /\ asserting.expect.epoch \in {0, asserting.epoch} /\ Matches(asserting.expect)

LEMMA BucketStep ==
  ASSUME DocumentTypeOK, [DocumentNext]_documentVars
  PROVE  KeyMoves
  <1>0. BucketOK /\ AssertingOK /\ RestOK
    BY DocumentTypeParts
  <1>1. CASE UNCHANGED bucket
    BY <1>0, <1>1 DEF KeyMoves, SameKey, BucketOK, Held
  <1>2. ASSUME NEW value \in Values \cup {"other"}, NEW by \in {"central", "other"},
               bucket' = Holding(value, by)
        PROVE  KeyMoves
    <2>1. BucketOK' /\ Newer(value, by)
      BY <1>0, <1>2, HoldingIs
    <2>2. bucket.top \in Nat /\ bucket.epoch \in Nat
      BY <1>0 DEF BucketOK, Buckets
    <2> QED BY <1>0, <2>1, <2>2 DEF KeyMoves, FreshKey, Newer
  <1>3. CASE OtherWrites
    BY <1>2, <1>3 DEF OtherWrites
  <1>4. CASE BucketIsMadeAgain
    <2>1. bucket' = [epoch |-> bucket.epoch + 1, listed |-> bucket.listed, value |-> "none",
                     writer |-> "none", seq |-> 0, top |-> 0]
      BY <1>0, <1>4 DEF BucketIsMadeAgain, BucketOK, Buckets
    <2>2. bucket.epoch \in Nat /\ bucket.epoch + 1 \in 1..MaxBuckets
      BY <1>0, <1>4, DocumentAssumption DEF BucketIsMadeAgain, BucketOK, Buckets
    <2>3. bucket' \in Buckets
      BY <1>0, <2>1, <2>2 DEF BucketOK, Buckets, Projected
    <2> QED BY <1>0, <2>1, <2>2, <2>3 DEF KeyMoves, FreshKey, BucketOK, Held
  <1>5. CASE TableChanges
    <2>1. CASE bucket.listed
      <3>1. bucket' = [epoch |-> bucket.epoch, listed |-> FALSE, value |-> "none",
                       writer |-> "none", seq |-> 0, top |-> bucket.top]
        BY <1>0, <1>5, <2>1 DEF TableChanges, BucketOK, Buckets
      <3>2. bucket' \in Buckets /\ bucket.top \in Nat
        BY <1>0, <3>1 DEF BucketOK, Buckets, Projected
      <3> QED BY <1>0, <3>1, <3>2 DEF KeyMoves, FreshKey, BucketOK, Held
    <2>2. CASE ~bucket.listed
      <3>1. bucket' = [bucket EXCEPT !.listed = TRUE]
        BY <1>5, <2>2 DEF TableChanges
      <3> QED BY <1>0, <3>1 DEF KeyMoves, SameKey, BucketOK, Buckets, Held
    <2> QED BY <2>1, <2>2
  <1>6. CASE PutsDocument
    <2>1. CASE UNCHANGED bucket
      BY <1>1, <2>1
    <2>2. CASE bucket' = Holding(asserting.value, "central")
      <3>1. asserting.value \in Values
        BY <1>0, <1>6 DEF PutsDocument, AssertingOK
      <3> QED BY <1>2, <2>2, <3>1
    <2> QED BY <1>6, <2>1, <2>2 DEF PutsDocument
  <1>7. CASE LateLands
    <2>1. PICK put \in late :
            bucket' = IF Matches(put.expect) THEN Holding(put.value, "central") ELSE bucket
      BY <1>7 DEF LateLands
    <2>2. put.value \in Values
      BY <1>0 DEF RestOK
    <2> QED BY <1>1, <1>2, <2>1, <2>2
  <1> QED BY <1>1, <1>3, <1>4, <1>5, <1>6, <1>7, AssertSteps
          DEF documentVars, ProjectionChanges, Binds, Plans, Rereads, Resolves, RecordsWrite, Trouble

\* A token the bucket gave stays given, and what it names stays as it was, or is gone.
LEMMA TokenStays ==
  ASSUME KeyMoves, NEW token \in KeyTokens, Given(token)
  PROVE  /\ Given(token)'
         /\ token = KeyToken' => \/ SameKey /\ token = KeyToken
                                 \/ bucket'.writer = "none" /\ token.seq = 0
  <1>1. /\ bucket.epoch \in Nat /\ bucket.seq \in Nat /\ bucket.top \in Nat
        /\ bucket'.epoch \in Nat /\ bucket'.seq \in Nat /\ bucket'.top \in Nat
        /\ bucket.seq <= bucket.top /\ bucket'.seq <= bucket'.top
        /\ (bucket'.seq # 0 <=> bucket'.writer # "none")
    BY DocumentAssumption DEF KeyMoves, BucketOK, Buckets, Held
  <1>2. token.epoch \in Nat /\ token.seq \in Nat
    BY DEF KeyTokens
  <1>3. CASE SameKey
    BY <1>3 DEF Given, SameKey, KeyToken
  <1>4. CASE FreshKey
    BY <1>1, <1>2, <1>4 DEF Given, FreshKey, KeyToken
  <1> QED BY <1>3, <1>4 DEF KeyMoves

LEMMA TrulyStays ==
  ASSUME KeyMoves, NEW token \in KeyTokens, NEW digest, Truly(token, digest)
  PROVE  Truly(token, digest)'
  BY TokenStays DEF Truly, SameKey

LEMMA PutStays ==
  ASSUME KeyMoves, NEW token \in KeyTokens, NEW value, PutOK(token, value), adopted \subseteq adopted'
  PROVE  PutOK(token, value)'
  BY TokenStays DEF PutOK, SameKey

LEMMA AbsentOK == ASSUME BucketOK, NEW value PROVE PutOK(ABSENT, value) /\ ABSENT \in KeyTokens
  BY DocumentAssumption DEF BucketOK, Buckets, PutOK, Given, ABSENT, KeyToken, KeyTokens, Held

-----------------------------------------------------------------------------
(* Types *)

LEMMA RestStep ==
  ASSUME DocumentTypeOK, [DocumentNext]_documentVars
  PROVE  RestOK' /\ adopted \subseteq adopted'
  <1>0. BucketOK /\ AssertingOK /\ RestOK
    BY DocumentTypeParts
  <1>1. ASSUME NEW what \in {"others", "changes", "tables", "troubles"}, Used(what)
        PROVE  spent' \in [others : Nat, changes : Nat, tables : Nat, troubles : Nat]
    BY <1>0, <1>1 DEF Used, RestOK
  <1>2. CASE ProjectionChanges
    BY <1>0, <1>1, <1>2 DEF ProjectionChanges, RestOK
  <1>3. CASE OtherWrites
    BY <1>0, <1>1, <1>3 DEF OtherWrites, RestOK
  <1>4. CASE BucketIsMadeAgain
    BY <1>0, <1>4 DEF BucketIsMadeAgain, RestOK
  <1>5. CASE TableChanges
    BY <1>0, <1>1, <1>5 DEF TableChanges, RestOK
  <1>6. CASE Binds
    BY <1>0, <1>6 DEF Binds, RestOK
  <1>7. CASE RecordsWrite
    <2>1. asserting.value \in Values /\ asserting.expect \in KeyTokens
      BY <1>0, <1>7 DEF RecordsWrite, AssertingOK, Assertions
    <2> QED BY <1>0, <1>7, <2>1 DEF RecordsWrite, RestOK, Projected
  <1>8. CASE Trouble
    <2>1. \/ late' = late
          \/ /\ asserting.phase = "put"
             /\ late' = late \cup {[value |-> asserting.value, expect |-> asserting.expect]}
      BY <1>8 DEF Trouble
    <2>2. asserting.phase = "put" =>
            [value |-> asserting.value, expect |-> asserting.expect]
              \in [value : Values, expect : KeyTokens]
      BY <1>0 DEF AssertingOK, Assertions
    <2>3. late' \subseteq [value : Values, expect : KeyTokens]
      BY <1>0, <2>1, <2>2 DEF RestOK
    <2>4. /\ spent' \in [others : Nat, changes : Nat, tables : Nat, troubles : Nat]
          /\ wake' = TRUE /\ UNCHANGED <<projection, own, adopted>>
      BY <1>1, <1>8 DEF Trouble
    <2> QED BY <1>0, <2>3, <2>4 DEF RestOK
  <1>9. CASE LateLands
    BY <1>0, <1>9 DEF LateLands, RestOK
  <1>10. CASE UNCHANGED <<projection, own, late, wake, adopted, spent>>
    BY <1>0, <1>10 DEF RestOK
  <1> QED BY <1>2, <1>3, <1>4, <1>5, <1>6, <1>7, <1>8, <1>9, <1>10, AssertSteps
          DEF documentVars, Plans, Rereads, PutsDocument, Resolves

\* An assertion that ends.
Rests == asserting'.phase = "rest" /\ asserting'.epoch <= bucket.epoch

LEMMA EndsIs ==
  ASSUME BucketOK, NEW last \in KeyTables, asserting' = Resting(last)
  PROVE  AssertingOK' /\ Rests
  BY RestingIs DEF AssertingOK, Rests, BucketOK, Buckets

LEMMA AssertingStep ==
  ASSUME DocumentTypeOK, AssertOK, [DocumentNext]_documentVars
  PROVE  AssertingOK'
  <1>0. BucketOK /\ AssertingOK /\ RestOK
    BY DocumentTypeParts
  <1>a. /\ asserting \in Assertions /\ bucket.epoch \in Nat /\ bucket.listed \in BOOLEAN
        /\ bucket.top + 1 \in Nat /\ KeyToken \in KeyTokens /\ ABSENT \in KeyTokens
        /\ own.token \in KeyTokens /\ projection \in Values /\ asserting.bound \in KeyTables
        /\ asserting.last \in KeyTables /\ NoTable \in KeyTables
    BY <1>0, AbsentOK DEF AssertingOK, BucketOK, Buckets, KeyToken, KeyTokens, RestOK,
       Assertions, KeyTables, NoTable
  <1>1. CASE UNCHANGED asserting
    BY <1>0, <1>1 DEF AssertingOK
  <1>2. CASE Binds
    <2>1. asserting' = [asserting EXCEPT !.phase = "plan", !.epoch = bucket.epoch,
                          !.listed = bucket.listed,
                          !.bound = [epoch |-> bucket.epoch, listed |-> bucket.listed],
                          !.changed = /\ asserting.last.epoch = bucket.epoch
                                      /\ asserting.last.listed # bucket.listed]
      BY <1>2 DEF Binds
    <2> QED BY <1>a, <2>1 DEF AssertingOK, Assertions, AssertPhases, KeyTables
  <1>3. ASSUME NEW phase \in AssertPhases, NEW value \in Values, NEW expect \in KeyTokens,
               NEW epoch \in Nat, NEW listed \in BOOLEAN,
               asserting' = [asserting EXCEPT !.phase = phase, !.value = value,
                               !.expect = expect, !.epoch = epoch, !.listed = listed]
        PROVE  AssertingOK'
    BY <1>a, <1>3 DEF AssertingOK, Assertions, Projected
  <1>4. CASE Plans
    <2>1. CASE asserting' = Resting(Described)
      BY <1>0, <1>a, <2>1, EndsIs DEF Described
    <2>2. CASE asserting' # Resting(Described)
      <3>1. PICK phase \in {"reread", "put"}, expect \in {own.token, ABSENT} :
              asserting' = [asserting EXCEPT !.phase = phase, !.value = projection,
                                             !.expect = expect]
        BY <1>4, <2>2 DEF Plans
      <3>2. asserting' = [asserting EXCEPT !.phase = phase, !.value = projection,
              !.expect = expect, !.epoch = asserting.epoch, !.listed = asserting.listed]
        BY <1>a, <3>1 DEF Assertions
      <3>3. phase \in AssertPhases /\ expect \in KeyTokens
        BY <1>a DEF AssertPhases
      <3>4. asserting.epoch \in Nat /\ asserting.listed \in BOOLEAN
        BY <1>a DEF Assertions
      <3> QED BY <1>3, <1>a, <3>2, <3>3, <3>4
    <2> QED BY <2>1, <2>2
  <1>5. CASE Rereads
    <2>1. CASE asserting' = Resting(Described)
      BY <1>0, <1>a, <2>1, EndsIs DEF Described
    <2>2. CASE asserting' = [asserting EXCEPT !.phase = "put", !.epoch = bucket.epoch,
                               !.listed = bucket.listed]
      <3>1. asserting.phase = "reread"
        BY <1>5 DEF Rereads
      <3> QED BY <1>0, <1>a, <2>2, <3>1 DEF AssertingOK, Assertions, AssertPhases
    <2> QED BY <1>5, <2>1, <2>2 DEF Rereads
  <1>6. CASE PutsDocument
    <2>0. asserting.value \in Values
      BY <1>0, <1>6 DEF PutsDocument, AssertingOK
    <2>1. CASE asserting' = Resting(Described)
      BY <1>0, <1>a, <2>1, EndsIs DEF Described
    <2>2. CASE asserting' = [asserting EXCEPT !.phase = "wrote",
                               !.expect = [epoch |-> asserting.epoch, seq |-> bucket.top + 1]]
      BY <1>a, <2>0, <2>2 DEF AssertingOK, Assertions, AssertPhases, KeyTokens
    <2>3. CASE asserting' = [asserting EXCEPT !.phase = "conflict"]
      BY <1>a, <2>0, <2>3 DEF AssertingOK, Assertions, AssertPhases
    <2> QED BY <1>6, <2>1, <2>2, <2>3 DEF PutsDocument
  <1>7. CASE Resolves
    <2>0. asserting.value \in Values
      BY <1>0, <1>7 DEF Resolves, AssertingOK
    <2>1. PICK phase \in {"put", "adopt", "wrote"}, expect \in {ABSENT, KeyToken} :
            asserting' = [asserting EXCEPT !.epoch = bucket.epoch, !.listed = bucket.listed,
                                           !.phase = phase, !.expect = expect]
      BY <1>a, <1>7 DEF Resolves, Assertions
    <2> QED BY <1>a, <2>0, <2>1 DEF AssertingOK, Assertions, AssertPhases
  <1>8. CASE RecordsWrite
    BY <1>0, <1>a, <1>8, EndsIs DEF RecordsWrite, Described
  <1>9. CASE Trouble
    BY <1>0, <1>a, <1>9, EndsIs DEF Trouble
  <1> QED BY <1>1, <1>2, <1>4, <1>5, <1>6, <1>7, <1>8, <1>9, AssertSteps
          DEF documentVars, ProjectionChanges, OtherWrites, BucketIsMadeAgain, TableChanges, LateLands

-----------------------------------------------------------------------------
(* The tokens *)

LEMMA OwnStep ==
  ASSUME DocumentInv, [DocumentNext]_documentVars
  PROVE  OwnOK'
  <1>0. KeyMoves /\ RestOK /\ AssertingOK /\ adopted \subseteq adopted'
    BY BucketStep, RestStep, DocumentTypeParts DEF DocumentInv
  <1>1. CASE own' = own
    <2>1. own.token \in KeyTokens
      BY <1>0 DEF RestOK
    <2>2. Truly(own.token, own.digest)'
      <3>1. PICK token \in KeyTokens, digest \in {own.digest} :
            token = own.token /\ digest = own.digest
        BY <2>1
      <3>2. Truly(token, digest)'
        BY <1>0, <3>1, TrulyStays DEF DocumentInv, OwnOK
      <3> QED BY <1>1, <3>1, <3>2 DEF Truly, Given, KeyToken
    <2>3. own.token = KeyToken' /\ bucket'.writer = "other" => SameKey /\ own.token = KeyToken
      BY <1>0, <2>1, TokenStays DEF DocumentInv, OwnOK, Truly
    <2>4. own'.token = KeyToken' /\ bucket'.writer = "other" => AdoptedAs(own.token, own.digest)'
      BY <1>0, <1>1, <2>3 DEF DocumentInv, OwnOK, SameKey, AdoptedAs
    <2> QED BY <1>1, <2>2, <2>4 DEF OwnOK, AdoptedAs
  <1>2. CASE RecordsWrite
    <2>1. /\ own'.token = asserting.expect /\ own'.digest = asserting.value
          /\ UNCHANGED bucket /\ Truly(asserting.expect, asserting.value)
      BY <1>2 DEF RecordsWrite, DocumentInv, AssertOK
    <2>2. Truly(own.token, own.digest)'
      BY <2>1 DEF Truly, Given, KeyToken
    <2>3. CASE asserting.phase = "wrote"
      BY <2>1, <2>2, <2>3 DEF OwnOK, DocumentInv, AssertOK, KeyToken
    <2>4. CASE asserting.phase = "adopt"
      <3>1. AdoptedAs(own.token, own.digest)'
        BY <1>2, <2>1, <2>4 DEF RecordsWrite, AdoptedAs
      <3> QED BY <2>2, <3>1 DEF OwnOK
    <2> QED BY <1>2, <2>3, <2>4 DEF RecordsWrite
  <1> QED BY <1>1, <1>2, AssertSteps
          DEF documentVars, ProjectionChanges, OtherWrites, BucketIsMadeAgain, TableChanges,
              Binds, Plans, Rereads, PutsDocument, Resolves, Trouble, LateLands

LEMMA LateStep ==
  ASSUME DocumentInv, [DocumentNext]_documentVars
  PROVE  LateOK'
  <1>0. KeyMoves /\ RestOK /\ AssertingOK /\ adopted \subseteq adopted'
    BY BucketStep, RestStep, DocumentTypeParts DEF DocumentInv
  <1>1. SUFFICES ASSUME NEW put \in late' PROVE PutOK(put.expect, put.value)'
    BY DEF LateOK
  <1>2. CASE put \in late
    <2>1. put.expect \in KeyTokens /\ PutOK(put.expect, put.value)
      BY <1>0, <1>2 DEF RestOK, DocumentInv, LateOK
    <2> QED BY <1>0, <2>1, PutStays
  <1>3. CASE put = [value |-> asserting.value, expect |-> asserting.expect]
             /\ asserting.phase = "put"
    <2>1. put.expect \in KeyTokens /\ PutOK(put.expect, put.value)
      BY <1>0, <1>3 DEF AssertingOK, Assertions, DocumentInv, AssertOK
    <2> QED BY <1>0, <2>1, PutStays
  <1>4. CASE Trouble
    <2>1. \/ late' = late
          \/ /\ asserting.phase = "put"
             /\ late' = late \cup {[value |-> asserting.value, expect |-> asserting.expect]}
      BY <1>4 DEF Trouble
    <2> QED BY <1>2, <1>3, <2>1
  <1>5. CASE late' \subseteq late
    BY <1>2, <1>5
  <1> QED BY <1>4, <1>5, AssertSteps
          DEF documentVars, ProjectionChanges, OtherWrites, BucketIsMadeAgain, TableChanges,
              Binds, Plans, Rereads, PutsDocument, Resolves, RecordsWrite, LateLands

LEMMA AssertOKStep ==
  ASSUME DocumentInv, [DocumentNext]_documentVars
  PROVE  AssertOK'
  <1>0. /\ KeyMoves /\ RestOK /\ AssertingOK /\ AssertingOK' /\ adopted \subseteq adopted'
        /\ BucketOK /\ AssertOK /\ OwnOK
    BY BucketStep, RestStep, AssertingStep, DocumentTypeParts DEF DocumentInv
  <1>a. /\ bucket.epoch \in Nat /\ bucket'.epoch \in Nat /\ bucket.epoch <= bucket'.epoch
        /\ bucket.epoch >= 1 /\ bucket.top \in Nat /\ bucket.seq <= bucket.top
        /\ asserting.epoch \in Nat /\ asserting.epoch <= bucket.epoch
        /\ asserting.expect \in KeyTokens /\ own.token \in KeyTokens
    BY <1>0, DocumentAssumption DEF KeyMoves, BucketOK, Buckets, SameKey, FreshKey, AssertingOK,
       Assertions, AssertOK, RestOK
  <1>b. asserting' \in Assertions
    BY <1>0 DEF AssertingOK
  <1>1. CASE UNCHANGED asserting
    <2>1. PICK token \in KeyTokens, value \in {asserting.value} :
          token = asserting.expect /\ value = asserting.value
      BY <1>a
    <2>2. asserting.phase = "reread" => Given(token)'
      BY <1>0, <2>1, TokenStays DEF AssertOK
    <2>3. asserting.phase = "put" => PutOK(token, value)'
      BY <1>0, <2>1, PutStays DEF AssertOK
    <2>4. asserting.phase \in {"wrote", "adopt"} => Truly(token, value)'
      BY <1>0, <2>1, TrulyStays DEF AssertOK
    <2>5. asserting.phase = "wrote" =>
            token.seq # 0 /\ (token = KeyToken' => bucket'.writer = "central")
      <3> SUFFICES ASSUME asserting.phase = "wrote"
                   PROVE  token.seq # 0 /\ (token = KeyToken' => bucket'.writer = "central")
        OBVIOUS
      <3>1. token.seq # 0 /\ Given(token) /\ (token = KeyToken => bucket.writer = "central")
        BY <1>0, <2>1 DEF AssertOK, Truly
      <3> QED BY <1>0, <3>1, TokenStays DEF SameKey
    <2> QED BY <1>1, <1>a, <2>1, <2>2, <2>3, <2>4, <2>5 DEF AssertOK, Truly, PutOK, Given, KeyToken
  <1>2. CASE \E last : asserting' = Resting(last)
    <2>1. asserting'.phase = "rest" /\ asserting'.epoch = 0
      BY <1>2 DEF Resting
    <2> QED BY <1>a, <2>1 DEF AssertOK
  <1>3. CASE Binds
    <2>1. asserting'.phase = "plan" /\ asserting'.epoch = bucket.epoch
      BY <1>0, <1>3 DEF Binds, AssertingOK, Assertions
    <2> QED BY <1>a, <2>1 DEF AssertOK
  <1>4. CASE Plans /\ asserting' # Resting(Described)
    <2>0. UNCHANGED <<bucket, adopted>>
      BY <1>4 DEF Plans
    <2>1. /\ asserting'.epoch = asserting.epoch /\ asserting'.value = projection
          /\ \/ asserting'.phase = "reread" /\ asserting'.expect = own.token
             \/ /\ asserting'.phase = "put" /\ asserting'.expect = own.token
                /\ own.digest # projection
             \/ asserting'.phase = "put" /\ asserting'.expect = ABSENT
      BY <1>0, <1>4 DEF Plans, AssertingOK, Assertions, InThisEpoch
    <2>2. Given(own.token) /\ PutOK(ABSENT, projection)
      BY <1>0, AbsentOK DEF OwnOK, Truly
    <2>3. own.digest # projection => PutOK(own.token, projection)
      BY <1>0, <2>2 DEF PutOK, OwnOK, AdoptedAs
    <2> QED BY <1>a, <2>0, <2>1, <2>2, <2>3 DEF AssertOK, PutOK, Given, KeyToken
  <1>5. CASE Rereads /\ asserting' # Resting(Described)
    <2>1. /\ asserting' = [asserting EXCEPT !.phase = "put", !.epoch = bucket.epoch,
                             !.listed = bucket.listed]
          /\ asserting.phase = "reread" /\ ~(Held /\ bucket.writer = "other")
          /\ UNCHANGED <<bucket, adopted>>
      BY <1>5 DEF Rereads
    <2>2. /\ asserting'.phase = "put" /\ asserting'.epoch = bucket.epoch
          /\ asserting'.expect = asserting.expect /\ Given(asserting.expect)
      BY <1>0, <2>1 DEF AssertingOK, Assertions, AssertOK
    <2>3. bucket.writer # "other"
      BY <1>0, <2>1 DEF BucketOK
    <2> QED BY <1>a, <2>1, <2>2, <2>3 DEF AssertOK, PutOK, Given
  <1>6. CASE PutsDocument /\ asserting'.phase = "wrote"
    <2>1. /\ asserting.phase = "put" /\ bucket' = Holding(asserting.value, "central")
          /\ asserting' = [asserting EXCEPT !.phase = "wrote",
                             !.expect = [epoch |-> asserting.epoch, seq |-> bucket.top + 1]]
      BY <1>0, <1>6 DEF PutsDocument, Resting, AssertingOK, Assertions
    <2>2. asserting.value \in Values
      BY <1>0, <2>1 DEF AssertingOK
    <2>3. Newer(asserting.value, "central")
      BY <1>0, <2>1, <2>2, HoldingIs
    <2>4. /\ asserting'.phase = "wrote" /\ asserting'.epoch = asserting.epoch
          /\ asserting'.value = asserting.value
          /\ asserting'.expect = [epoch |-> asserting.epoch, seq |-> bucket.top + 1]
      BY <1>0, <2>1 DEF AssertingOK, Assertions
    <2>5. bucket.top + 1 # 0
      BY <1>a
    <2> QED BY <1>a, <2>3, <2>4, <2>5 DEF AssertOK, Truly, Given, Newer
  <1>7. CASE PutsDocument /\ asserting' = [asserting EXCEPT !.phase = "conflict"]
    <2>1. asserting'.phase = "conflict" /\ asserting'.epoch = asserting.epoch
      BY <1>0, <1>7 DEF AssertingOK, Assertions
    <2> QED BY <1>a, <2>1 DEF AssertOK
  <1>8. CASE Resolves
    <2>1. /\ asserting'.epoch = bucket.epoch /\ asserting'.value = asserting.value
          /\ \/ asserting'.phase = "put" /\ asserting'.expect = ABSENT
             \/ /\ Held /\ asserting'.expect = KeyToken
                /\ \/ asserting'.phase = "adopt" /\ bucket.writer = "other"
                   \/ /\ bucket.writer # "other"
                      /\ asserting'.phase = "wrote" => bucket.value = asserting.value
                      /\ asserting'.phase \in {"put", "wrote"}
          /\ UNCHANGED <<bucket, adopted>>
      BY <1>0, <1>8 DEF Resolves, SameDigest, AssertingOK, Assertions
    <2>2. Given(KeyToken) /\ PutOK(ABSENT, asserting.value)
      BY <1>0, <1>a, AbsentOK DEF Given, KeyToken
    <2>3. Held => bucket.writer \in {"central", "other"} /\ KeyToken.seq # 0
      BY <1>0 DEF BucketOK, Buckets, Held, KeyToken
    <2> QED BY <1>a, <2>1, <2>2, <2>3 DEF AssertOK, PutOK, Truly, Given, KeyToken
  <1>9. \/ UNCHANGED asserting \/ Binds \/ Resolves \/ \E last : asserting' = Resting(last)
        \/ Plans /\ asserting' # Resting(Described)
        \/ Rereads /\ asserting' # Resting(Described)
        \/ PutsDocument /\ asserting'.phase = "wrote"
        \/ PutsDocument /\ asserting' = [asserting EXCEPT !.phase = "conflict"]
    <2>1. PutsDocument => \/ asserting' = Resting(Described)
                          \/ asserting'.phase = "wrote"
                          \/ asserting' = [asserting EXCEPT !.phase = "conflict"]
      BY <1>0 DEF PutsDocument, AssertingOK, Assertions
    <2>2. RecordsWrite \/ Trouble => \E last : asserting' = Resting(last)
      BY DEF RecordsWrite, Trouble
    <2>3. Plans \/ Rereads => \/ asserting' = Resting(Described)
                              \/ (Plans \/ Rereads) /\ asserting' # Resting(Described)
      OBVIOUS
    <2> QED BY <2>1, <2>2, <2>3, AssertSteps
            DEF documentVars, ProjectionChanges, OtherWrites, BucketIsMadeAgain, TableChanges,
                LateLands
  <1> QED BY <1>1, <1>2, <1>3, <1>4, <1>5, <1>6, <1>7, <1>8, <1>9

LEMMA DocumentInvStep == DocumentInv /\ [DocumentNext]_documentVars => DocumentInv'
  <1> SUFFICES ASSUME DocumentInv, [DocumentNext]_documentVars PROVE DocumentInv'
    OBVIOUS
  <1>1. DocumentTypeOK'
    BY BucketStep, RestStep, AssertingStep, DocumentTypePartsNext DEF DocumentInv, KeyMoves
  <1> QED BY <1>1, OwnStep, AssertOKStep, LateStep DEF DocumentInv

LEMMA InitDocumentInv == DocumentInit => DocumentInv
  <1> SUFFICES ASSUME DocumentInit PROVE DocumentInv
    OBVIOUS
  <1>1. BucketOK
    BY DocumentAssumption DEF DocumentInit, BucketOK, Buckets, Projected, Held
  <1>2. AssertingOK /\ asserting.phase = "rest" /\ asserting.epoch = 0
    <2>1. NoTable \in KeyTables
      BY DEF NoTable, KeyTables
    <2> QED BY <2>1, RestingIs DEF DocumentInit, AssertingOK
  <1>3. RestOK
    BY DEF DocumentInit, RestOK, NoWrite, ABSENT, KeyTokens, Projected
  <1>4. OwnOK
    BY <1>1, AbsentOK DEF DocumentInit, OwnOK, NoWrite, Truly, PutOK, Given, ABSENT, KeyToken
  <1>5. AssertOK /\ LateOK
    BY <1>2 DEF DocumentInit, AssertOK, LateOK
  <1> QED BY <1>1, <1>2, <1>3, <1>4, <1>5, DocumentTypeParts DEF DocumentInv

LEMMA DocumentInvariance == DocumentSpec => []DocumentInv
  BY InitDocumentInv, DocumentInvStep, PTL DEF DocumentSpec

\* The bucket, the link and its store stay in their types (DocumentTypeOK).
THEOREM DocumentTypes == DocumentSpec => []DocumentTypeOK
  BY DocumentInvariance, PTL DEF DocumentInv

\* The stored digest is of the value the stored token names (OwnTokenIsTrue), whatever
\* acknowledgements were lost, puts came late and buckets were made again.
THEOREM OwnTokenTrue == DocumentSpec => []OwnTokenIsTrue
  <1>1. DocumentInv => OwnTokenIsTrue
    BY DEF DocumentInv, OwnOK, Truly, OwnTokenIsTrue
  <1> QED BY <1>1, DocumentInvariance, PTL

\* Central replaces another writer's value only if it had adopted that very value for another
\* projection (AdoptedStays): a put that was on its way, or answered late, never does.
THEOREM AdoptedKept == DocumentSpec => AdoptedStays
  <1> DEFINE Adopts ==
        bucket.writer = "other" /\ bucket'.writer = "central" /\ bucket'.epoch = bucket.epoch
          => \E a \in adopted : a.token = KeyToken /\ a.digest # bucket'.value
  <1>1. DocumentInv /\ [DocumentNext]_documentVars => Adopts
    <2> SUFFICES ASSUME DocumentInv, [DocumentNext]_documentVars, bucket.writer = "other",
                        bucket'.writer = "central", bucket'.epoch = bucket.epoch
                 PROVE  \E a \in adopted : a.token = KeyToken /\ a.digest # bucket'.value
      OBVIOUS
    <2>0. BucketOK /\ AssertingOK /\ RestOK
      BY DocumentTypeParts DEF DocumentInv
    <2>1. Held
      BY <2>0 DEF BucketOK
    <2>2. ASSUME NEW expect, NEW value, PutOK(expect, value), Matches(expect),
                 value \in Values, bucket' = Holding(value, "central")
          PROVE  \E a \in adopted : a.token = KeyToken /\ a.digest # bucket'.value
      <3>1. expect = KeyToken
        BY <2>1, <2>2 DEF Matches
      <3>2. bucket'.value = value
        BY <2>0, <2>2, HoldingIs DEF Newer
      <3> QED BY <2>2, <3>1, <3>2 DEF PutOK
    <2>3. CASE PutsDocument
      BY <2>0, <2>2, <2>3 DEF PutsDocument, DocumentInv, AssertOK, AssertingOK
    <2>4. CASE LateLands
      <3>1. PICK put \in late :
              bucket' = IF Matches(put.expect) THEN Holding(put.value, "central") ELSE bucket
        BY <2>4 DEF LateLands
      <3>2. PutOK(put.expect, put.value) /\ put.value \in Values
        BY <2>0 DEF DocumentInv, LateOK, RestOK
      <3> QED BY <2>2, <3>1, <3>2
    <2>5. CASE OtherWrites
      <3>1. bucket'.writer = "other"
        BY <2>0, <2>5, HoldingIs DEF OtherWrites, Newer
      <3> QED BY <3>1
    <2>6. CASE TableChanges \/ BucketIsMadeAgain
      BY <2>0, <2>6 DEF TableChanges, BucketIsMadeAgain, BucketOK, Buckets
    <2> QED BY <2>3, <2>4, <2>5, <2>6, AssertSteps
            DEF documentVars, ProjectionChanges, Binds, Plans, Rereads, Resolves, RecordsWrite,
                Trouble
  <1>2. DocumentInv /\ [DocumentNext]_documentVars => [Adopts]_documentVars
    BY <1>1
  <1> HIDE DEF Adopts
  <1>3. DocumentSpec => [][Adopts]_documentVars
    BY <1>2, DocumentInvariance, PTL DEF DocumentSpec
  <1> QED BY <1>3 DEF AdoptedStays, Adopts

-----------------------------------------------------------------------------
(* WALL *)

\* The sequences of the running WALL past the mark.
Unmarked == {s \in wall.first..wall.last : s > mark}

\* ... those a Central has yet to mark, and those no Central remembers.
ToMark   == {writer[c].expect : c \in {c \in Centrals : writer[c].phase = "record"}}
Forgotten == Unmarked \ ToMark

\* A stop forgets one sequence at most, and no other step forgets any.
StopsForget == Cardinality(Forgotten) <= stops

WallInv == WallTypeOK /\ StopsForget

-----------------------------------------------------------------------------

LEMMA UnmarkedIsFinite ==
  ASSUME WallTypeOK
  PROVE  /\ IsFiniteSet(Unmarked) /\ IsFiniteSet(Forgotten)
         /\ Cardinality(Unmarked) \in Nat /\ Cardinality(Forgotten) \in Nat
  <1>1. wall.first \in Int /\ wall.last \in Int
    BY DEF WallTypeOK
  <1>2. IsFiniteSet(wall.first..wall.last)
    BY <1>1, FS_Interval
  <1>3. IsFiniteSet(Unmarked) /\ IsFiniteSet(Forgotten)
    <2>1. Unmarked \in SUBSET (wall.first..wall.last)
      BY DEF Unmarked
    <2>2. Forgotten \in SUBSET (wall.first..wall.last)
      BY <2>1 DEF Forgotten
    <2> QED BY <1>2, <2>1, <2>2, FS_Subset
  <1> QED BY <1>3, FS_CardinalityType

\* What no longer counts one sequence more than what does, and one stop at most, still holds.
LEMMA ForgetsNoMore ==
  ASSUME WallInv, WallTypeOK', Forgotten' \subseteq Forgotten, stops' = stops
  PROVE  StopsForget'
  <1>1. Cardinality(Forgotten') <= Cardinality(Forgotten)
    BY UnmarkedIsFinite, FS_Subset DEF WallInv
  <1>2. Cardinality(Forgotten') \in Nat
    <2>1. IsFiniteSet(Forgotten')
      BY UnmarkedIsFinite, FS_Subset DEF WallInv
    <2> QED BY <2>1, FS_CardinalityType
  <1>3. stops \in Nat /\ Cardinality(Forgotten) \in Nat
    BY UnmarkedIsFinite DEF WallInv, WallTypeOK
  <1> QED BY <1>1, <1>2, <1>3 DEF WallInv, StopsForget

LEMMA ForgetsOne ==
  ASSUME WallInv, NEW s, Forgotten' \subseteq Forgotten \cup {s}, stops' = stops + 1
  PROVE  StopsForget'
  <1>1. IsFiniteSet(Forgotten) /\ Cardinality(Forgotten) \in Nat /\ stops \in Nat
    BY UnmarkedIsFinite DEF WallInv, WallTypeOK, WallMarginAssumption
  <1>2. /\ IsFiniteSet(Forgotten \cup {s})
        /\ Cardinality(Forgotten \cup {s}) <= Cardinality(Forgotten) + 1
    BY <1>1, FS_AddElement
  <1>3. /\ Cardinality(Forgotten') <= Cardinality(Forgotten \cup {s})
        /\ IsFiniteSet(Forgotten')
    BY <1>2, FS_Subset
  <1>4. Cardinality(Forgotten') \in Nat /\ Cardinality(Forgotten \cup {s}) \in Nat
    BY <1>2, <1>3, FS_CardinalityType
  <1> QED BY <1>1, <1>2, <1>3, <1>4 DEF WallInv, StopsForget

-----------------------------------------------------------------------------
(* Types *)

Writers == [phase : {"delete", "mark", "declare", "rest", "read", "write", "record"},
            table : {1, 2}, loaded : Nat \cup {-1}, hub : Nat \cup {-1},
            first : Nat, value : Nat, expect : Nat]

WritersOK ==
  /\ writer \in [Centrals -> Writers]
  /\ \A c \in Centrals : writer[c].phase = "declare" => writer[c].first > 0

OthersOK ==
  /\ wall \in [there : BOOLEAN, table : {0, 1, 2}, first : Nat, last : Nat, value : Nat, seq : Nat]
  /\ wall.seq <= wall.last
  /\ {mark, wanted, mirror, restarts} \subseteq Nat /\ stops \in 0..MaxStops

LEMMA WallTypeParts == WallTypeOK <=> OthersOK /\ WritersOK
  BY DEF WallTypeOK, OthersOK, WritersOK, Writers

\* A step moves one Central's writer at most.
Moves(c, w) ==
  /\ w \in Writers /\ (w.phase = "declare" => w.first > 0)
  /\ writer' = [writer EXCEPT ![c] = w]

LEMMA WriterMoves ==
  ASSUME WritersOK, NEW c \in Centrals, NEW w, Moves(c, w)
  PROVE  WritersOK'
  BY DEF WritersOK, Moves

\* A Central rests: in the hub it knew, or in the running one.
LEMMA RestMoves ==
  ASSUME WritersOK, NEW c \in Centrals, NEW hub \in Nat \cup {-1}, WriterRests(c, hub)
  PROVE  \E w : Moves(c, w) /\ w.phase = "rest"
  <1> DEFINE w == [Begun(writer[c].table) EXCEPT !.loaded = hub]
  <1>1. writer[c].table \in {1, 2}
    BY DEF WritersOK, Writers
  <1>2. w \in Writers /\ w.phase = "rest"
    BY <1>1 DEF Begun, Writers
  <1>3. writer' = [writer EXCEPT ![c] = w]
    BY DEF WriterRests
  <1> QED BY <1>2, <1>3 DEF Moves

\* A Central goes from one phase to another, its other fields given.
LEMMA GoMoves ==
  ASSUME WritersOK, NEW c \in Centrals, NEW w \in Writers, w.phase # "declare" \/ w.first > 0,
         writer' = [writer EXCEPT ![c] = w]
  PROVE  Moves(c, w)
  BY DEF Moves

\* What one step of Central c makes of its writer.
WriterAt(c) ==
  \E w : /\ Moves(c, w)
         /\ w.phase = "record" => WritesKey(c)
         /\ writer[c].phase = "record" => RecordsMark(c) \/ CentralStops(c)

LEMMA WriterStepIs ==
  ASSUME WallTypeOK, NEW c \in Centrals, WriterStep(c) \/ CentralStops(c)
  PROVE  WriterAt(c)
  <1>0. WritersOK /\ writer[c] \in Writers /\ OthersOK
    BY WallTypeParts DEF WritersOK
  <1>a. /\ restarts \in Nat \cup {-1} /\ writer[c].hub \in Nat \cup {-1}
        /\ writer[c].loaded \in Nat \cup {-1}
    BY <1>0 DEF OthersOK, Writers
  <1>1. CASE EnsuresWall(c)
    <2>1. CASE wall.there /\ wall.table = writer[c].table
      BY <1>0, <1>a, <1>1, <2>1, RestMoves DEF EnsuresWall, WriterAt
    <2>2. CASE ~(wall.there /\ wall.table = writer[c].table)
      <3> DEFINE w == [writer[c] EXCEPT !.hub = restarts,
                                        !.phase = IF wall.there THEN "delete" ELSE "mark"]
      <3>1. w \in Writers /\ w.phase \in {"delete", "mark"}
        BY <1>0, <1>a DEF Writers
      <3>2. writer' = [writer EXCEPT ![c] = w]
        BY <1>1, <2>2 DEF EnsuresWall
      <3>3. writer[c].phase = "rest"
        BY <1>1 DEF EnsuresWall
      <3> HIDE DEF w
      <3> QED BY <1>0, <3>1, <3>2, <3>3, GoMoves DEF WriterAt
    <2> QED BY <2>1, <2>2
  <1>2. CASE DeletesWall(c)
    <2> DEFINE w == [writer[c] EXCEPT !.phase = "mark"]
    <2>1. w \in Writers /\ w.phase = "mark"
      BY <1>0 DEF Writers
    <2>2. writer' = [writer EXCEPT ![c] = w] /\ writer[c].phase = "delete"
      BY <1>2 DEF DeletesWall, WriterGoes
    <2> HIDE DEF w
    <2> QED BY <1>0, <2>1, <2>2, GoMoves DEF WriterAt
  <1>3. CASE ReadsMark(c)
    <2> DEFINE w == [writer[c] EXCEPT !.phase = "declare", !.first = PastTheMark]
    <2>1. PastTheMark \in Nat /\ PastTheMark > 0
      BY <1>0, WallMarginAssumption DEF OthersOK, PastTheMark
    <2>2. w \in Writers /\ w.phase = "declare" /\ w.first > 0
      BY <1>0, <2>1 DEF Writers
    <2>3. writer' = [writer EXCEPT ![c] = w] /\ writer[c].phase = "mark"
      BY <1>3 DEF ReadsMark
    <2> HIDE DEF w
    <2> QED BY <1>0, <2>2, <2>3, GoMoves DEF WriterAt
  <1>4. CASE DeclaresWall(c)
    BY <1>0, <1>a, <1>4, RestMoves DEF DeclaresWall, WriterAt
  <1>5. CASE PutsCurrent(c)
    <2> DEFINE w == [writer[c] EXCEPT !.phase = "read", !.value = wanted]
    <2>1. w \in Writers /\ w.phase = "read"
      BY <1>0 DEF Writers, OthersOK
    <2>2. writer' = [writer EXCEPT ![c] = w] /\ writer[c].phase = "rest"
      BY <1>5 DEF PutsCurrent
    <2> HIDE DEF w
    <2> QED BY <1>0, <2>1, <2>2, GoMoves DEF WriterAt
  <1>6. CASE ReadsKey(c)
    <2>1. CASE ~wall.there \/ wall.value = writer[c].value
      BY <1>0, <1>a, <1>6, <2>1, RestMoves DEF ReadsKey, WriterAt
    <2>2. CASE ~(~wall.there \/ wall.value = writer[c].value)
      <3> DEFINE w == [writer[c] EXCEPT !.phase = "write", !.expect = wall.seq]
      <3>1. w \in Writers /\ w.phase = "write"
        BY <1>0 DEF Writers, OthersOK
      <3>2. writer' = [writer EXCEPT ![c] = w] /\ writer[c].phase = "read"
        BY <1>6, <2>2 DEF ReadsKey
      <3> HIDE DEF w
      <3> QED BY <1>0, <3>1, <3>2, GoMoves DEF WriterAt
    <2> QED BY <2>1, <2>2
  <1>7. CASE WritesKey(c)
    <2>1. CASE wall.there /\ Expected(c)
      <3> DEFINE w == [writer[c] EXCEPT !.phase = "record", !.expect = wall.last + 1, !.value = 0]
      <3>0. wall.last + 1 \in Nat
        BY <1>0 DEF OthersOK
      <3>1. w \in Writers /\ w.phase = "record"
        BY <1>0, <3>0 DEF Writers
      <3>2. writer' = [writer EXCEPT ![c] = w] /\ writer[c].phase = "write"
        BY <1>7, <2>1 DEF WritesKey
      <3> HIDE DEF w
      <3> QED BY <1>0, <1>7, <3>1, <3>2, GoMoves DEF WriterAt
    <2>2. CASE wall.there /\ ~Expected(c)
      <3> DEFINE w == [writer[c] EXCEPT !.phase = "read"]
      <3>1. w \in Writers /\ w.phase = "read"
        BY <1>0 DEF Writers
      <3>2. writer' = [writer EXCEPT ![c] = w] /\ writer[c].phase = "write"
        BY <1>7, <2>2 DEF WritesKey, WriterGoes
      <3> HIDE DEF w
      <3> QED BY <1>0, <3>1, <3>2, GoMoves DEF WriterAt
    <2>3. CASE ~wall.there
      BY <1>0, <1>a, <1>7, <2>3, RestMoves DEF WritesKey, WriterAt
    <2> QED BY <2>1, <2>2, <2>3
  <1>8. CASE RecordsMark(c)
    BY <1>0, <1>a, <1>8, RestMoves DEF RecordsMark, WriterAt
  <1>9. CASE CentralStops(c)
    <2>1. PICK table \in {writer[c].table, 2} : writer' = [writer EXCEPT ![c] = Begun(table)]
      BY <1>9 DEF CentralStops
    <2> DEFINE w == Begun(table)
    <2>2. w \in Writers /\ w.phase = "rest"
      BY <1>0, <2>1 DEF Writers, Begun
    <2> HIDE DEF w
    <2>3. writer' = [writer EXCEPT ![c] = w]
      BY <2>1 DEF w
    <2> QED BY <1>0, <1>9, <2>2, <2>3, GoMoves DEF WriterAt
  <1> QED BY <1>1, <1>2, <1>3, <1>4, <1>5, <1>6, <1>7, <1>8, <1>9 DEF WriterStep

LEMMA OthersStep ==
  ASSUME WallTypeOK, [WallNext]_wallVars
  PROVE  OthersOK'
  <1>0. /\ OthersOK /\ MaxStops \in Nat /\ WallMargin \in Nat
        /\ writer \in [Centrals -> Writers]
        /\ \A c \in Centrals : writer[c].phase = "declare" => writer[c].first > 0
    BY WallTypeParts, WallMarginAssumption DEF WritersOK
  <1>1. CASE HubRestarts
    BY <1>0, <1>1 DEF HubRestarts, NoWall, OthersOK
  <1>2. CASE Edits
    BY <1>0, <1>2 DEF Edits, OthersOK
  <1>3. ASSUME NEW c \in Centrals, WriterStep(c) \/ CentralStops(c) PROVE OthersOK'
    <2>1. CASE DeletesWall(c)
      BY <1>0, <2>1 DEF DeletesWall, NoWall, OthersOK
    <2>2. CASE DeclaresWall(c)
      <3>1. CASE wall.there
        BY <1>0, <2>2, <3>1 DEF DeclaresWall, OthersOK
      <3>2. CASE ~wall.there
        <4>1. /\ writer[c].table \in {1, 2} /\ writer[c].first \in Nat
              /\ writer[c].first - 1 \in Nat
          BY <1>0, <2>2 DEF DeclaresWall, Writers
        <4>2. wall' = [there |-> TRUE, table |-> writer[c].table, first |-> writer[c].first,
                       last |-> writer[c].first - 1, value |-> 0, seq |-> 0]
          BY <2>2, <3>2 DEF DeclaresWall, NoWall
        <4>3. UNCHANGED <<mark, wanted, mirror, restarts, stops>>
          BY <2>2 DEF DeclaresWall
        <4> QED BY <1>0, <4>1, <4>2, <4>3 DEF OthersOK
      <3> QED BY <3>1, <3>2
    <2>3. CASE WritesKey(c)
      <3>1. writer[c].value \in Nat /\ wall.last + 1 \in Nat
        BY <1>0 DEF OthersOK, Writers
      <3>2. \/ wall' = wall
            \/ wall' = [there |-> wall.there, table |-> wall.table, first |-> wall.first,
                        last |-> wall.last + 1, value |-> writer[c].value,
                        seq |-> wall.last + 1]
        BY <1>0, <2>3 DEF WritesKey, OthersOK
      <3>3. wall' \in [there : BOOLEAN, table : {0, 1, 2}, first : Nat, last : Nat,
                       value : Nat, seq : Nat] /\ wall'.seq <= wall'.last
        BY <1>0, <3>1, <3>2 DEF OthersOK
      <3>4. mirror' \in Nat /\ UNCHANGED <<mark, wanted, restarts, stops>>
        BY <1>0, <2>3, <3>1 DEF WritesKey, OthersOK
      <3> QED BY <1>0, <3>3, <3>4 DEF OthersOK
    <2>4. CASE RecordsMark(c)
      BY <1>0, <2>4 DEF RecordsMark, Marked, OthersOK, Writers
    <2>5. CASE CentralStops(c)
      BY <1>0, <2>5 DEF CentralStops, OthersOK
    <2>6. CASE UNCHANGED <<wall, mark, wanted, mirror, restarts, stops>>
      BY <1>0, <2>6 DEF OthersOK
    <2> QED BY <1>3, <2>1, <2>2, <2>3, <2>4, <2>5, <2>6
            DEF WriterStep, EnsuresWall, ReadsMark, PutsCurrent, ReadsKey
  <1>4. CASE UNCHANGED wallVars
    BY <1>0, <1>4 DEF wallVars, OthersOK
  <1> QED BY <1>1, <1>2, <1>3, <1>4 DEF WallNext

LEMMA WallTypeStep == WallTypeOK /\ [WallNext]_wallVars => WallTypeOK'
  <1> SUFFICES ASSUME WallTypeOK, [WallNext]_wallVars PROVE WallTypeOK'
    OBVIOUS
  <1>1. WritersOK'
    <2>1. ASSUME NEW c \in Centrals, WriterStep(c) \/ CentralStops(c) PROVE WritersOK'
      BY <2>1, WriterStepIs, WriterMoves, WallTypeParts DEF WriterAt
    <2>2. CASE writer' = writer
      BY <2>2, WallTypeParts DEF WritersOK
    <2> QED BY <2>1, <2>2 DEF WallNext, HubRestarts, Edits, wallVars
  <1>2. OthersOK'
    BY OthersStep
  <1>3. (WallTypeOK <=> OthersOK /\ WritersOK)'
    BY <1>1, <1>2 DEF WallTypeOK, OthersOK, WritersOK, Writers
  <1> QED BY <1>1, <1>2, <1>3

LEMMA InitWallTypes == WallInit => WallTypeOK
  BY WallMarginAssumption DEF WallInit, WallTypeOK, NoWall, Begun

-----------------------------------------------------------------------------
(* The margin *)

\* A sequence a running Central is to mark.
Owed(s) == \E c \in Centrals : writer[c].phase = "record" /\ s = writer[c].expect

LEMMA ForgottenIs ==
  \A s : s \in Forgotten <=> /\ s \in wall.first..wall.last /\ s > mark
                             /\ ~Owed(s)
  BY DEF Forgotten, Unmarked, ToMark, Owed

LEMMA ForgetStep == WallInv /\ [WallNext]_wallVars => StopsForget'
  <1> SUFFICES ASSUME WallInv, [WallNext]_wallVars PROVE StopsForget'
    OBVIOUS
  <1>0. WallTypeOK /\ WallTypeOK' /\ OthersOK /\ OthersOK' /\ WritersOK
    BY WallTypeStep, WallTypeParts, OthersStep DEF WallInv
  <1>a. \A s : s \in Forgotten' <=> /\ s \in wall'.first..wall'.last /\ s > mark'
                                    /\ ~Owed(s)'
    BY DEF Forgotten, Unmarked, ToMark, Owed
  <1>b. /\ wall.first \in Nat /\ wall.last \in Nat /\ mark \in Nat
        /\ wall'.first \in Nat /\ wall'.last \in Nat /\ mark' \in Nat
    BY <1>0 DEF OthersOK
  <1>1. ASSUME Forgotten' \subseteq Forgotten, stops' = stops PROVE StopsForget'
    BY <1>0, <1>1, ForgetsNoMore
  <1>2. ASSUME wall'.first > wall'.last \/ (wall' = NoWall) PROVE Forgotten' = {}
    <2>1. (wall'.first = 0 /\ wall'.last = 0) \/ wall'.first > wall'.last
      BY <1>2 DEF NoWall
    <2>2. \A s : ~(s \in wall'.first..wall'.last /\ s > mark')
      BY <1>b, <2>1
    <2> QED BY <1>a, <2>2
  <1>3. CASE HubRestarts
    BY <1>1, <1>2, <1>3 DEF HubRestarts
  <1>4. CASE UNCHANGED <<wall, mark, writer, stops>>
    BY <1>1, <1>4 DEF Forgotten, Unmarked, ToMark
  <1>5. ASSUME NEW c \in Centrals, WriterStep(c) \/ CentralStops(c) PROVE StopsForget'
    <2>1. PICK w : /\ Moves(c, w)
                   /\ w.phase = "record" => WritesKey(c)
                   /\ writer[c].phase = "record" => RecordsMark(c) \/ CentralStops(c)
      BY <1>0, <1>5, WriterStepIs DEF WriterAt
    <2>2. \A d \in Centrals : writer'[d] = IF d = c THEN w ELSE writer[d]
      BY <1>0, <2>1 DEF Moves, WritersOK
    <2>3. \A s : Owed(s) => Owed(s)' \/ (s = writer[c].expect /\ writer[c].phase = "record")
      BY <2>2 DEF Owed
    <2>4. CASE DeletesWall(c)
      BY <1>1, <1>2, <2>4 DEF DeletesWall
    <2>5. CASE DeclaresWall(c) /\ ~wall.there
      <3>1. wall'.first > wall'.last
        <4>1. wall'.first = writer[c].first /\ wall'.last = writer[c].first - 1
          BY <2>5 DEF DeclaresWall, NoWall
        <4> QED BY <1>b, <4>1
      <3> QED BY <1>1, <1>2, <2>5, <3>1 DEF DeclaresWall
    <2>6. CASE WritesKey(c) /\ wall.there /\ Expected(c)
      <3>0. PICK n \in Nat : n = wall.last + 1
        BY <1>b
      <3>1. /\ wall'.first = wall.first /\ wall'.last = n
            /\ writer[c].phase = "write" /\ UNCHANGED <<mark, stops>>
        BY <1>0, <2>6, <3>0 DEF WritesKey, OthersOK
      <3>2. writer'[c].phase = "record" /\ writer'[c].expect = n
        BY <1>0, <2>6, <3>0 DEF WritesKey, WritersOK, Writers
      <3>3. Owed(n)'
        BY <3>2 DEF Owed
      <3>4. ASSUME NEW s \in Forgotten' PROVE s \in Forgotten
        <4>1. s # n
          BY <1>a, <3>3, <3>4
        <4>2. s \in wall.first..wall.last
          BY <1>a, <1>b, <3>0, <3>1, <3>4, <4>1
        <4> QED BY <1>a, <2>3, <3>1, <3>4, <4>2, ForgottenIs
      <3> QED BY <1>1, <3>1, <3>4
    <2>7. CASE RecordsMark(c)
      <3>1. /\ wall' = wall /\ stops' = stops /\ mark' = Marked(writer[c].expect)
        BY <2>7 DEF RecordsMark
      <3>2. writer[c].expect \in Nat
        BY <1>0 DEF WritersOK, Writers
      <3>3. mark' >= mark /\ mark' >= writer[c].expect
        BY <1>b, <3>1, <3>2 DEF Marked
      <3>4. ASSUME NEW s \in Forgotten' PROVE s \in Forgotten
        <4>1. s \in wall.first..wall.last /\ s > mark' /\ ~Owed(s)'
          BY <1>a, <3>1, <3>4
        <4>2. s > mark /\ s # writer[c].expect
          BY <1>b, <3>2, <3>3, <4>1
        <4> QED BY <2>3, <4>1, <4>2, ForgottenIs
      <3> QED BY <1>1, <3>1, <3>4
    <2>8. CASE CentralStops(c)
      <3>1. UNCHANGED <<wall, mark>> /\ stops' = stops + 1
        BY <2>8 DEF CentralStops
      <3>2. ASSUME NEW s \in Forgotten' PROVE s \in Forgotten \cup {writer[c].expect}
        BY <1>a, <2>3, <3>1, <3>2, ForgottenIs
      <3>3. Forgotten' \subseteq Forgotten \cup {writer[c].expect}
        BY <3>2
      <3> QED BY <3>1, <3>3, ForgetsOne
    <2>9. CASE UNCHANGED <<wall, mark, stops>> /\ writer[c].phase # "record"
      <3>1. ASSUME NEW s \in Forgotten' PROVE s \in Forgotten
        BY <1>a, <2>3, <2>9, <3>1, ForgottenIs
      <3> QED BY <1>1, <2>9, <3>1
    <2> QED BY <1>5, <2>4, <2>5, <2>6, <2>7, <2>8, <2>9
            DEF WriterStep, EnsuresWall, ReadsMark, DeclaresWall, PutsCurrent, ReadsKey, WritesKey
  <1> QED BY <1>3, <1>4, <1>5 DEF WallNext, Edits, wallVars

LEMMA InitForgotten == WallInit => StopsForget
  <1> SUFFICES ASSUME WallInit PROVE StopsForget
    OBVIOUS
  <1>1. Forgotten = {}
    BY DEF WallInit, NoWall, Forgotten, Unmarked
  <1> QED BY <1>1, FS_EmptySet DEF WallInit, StopsForget

LEMMA InitWallInv == WallInit => WallInv
  BY InitWallTypes, InitForgotten DEF WallInv

LEMMA WallInvStep == WallInv /\ [WallNext]_wallVars => WallInv'
  BY WallTypeStep, ForgetStep DEF WallInv

LEMMA WallInvariance == WallSpec => []WallInv
  BY InitWallInv, WallInvStep, PTL DEF WallSpec

\* WALL, its mark, its writers and its mirrors stay in their types (WallTypeOK).
THEOREM WallTypes == WallSpec => []WallTypeOK
  BY WallInvariance, PTL DEF WallInv

LEMMA ToMarkIsFew ==
  IsFiniteSet(ToMark) /\ Cardinality(ToMark) <= Cardinality(Centrals)
  <1> DEFINE R == {c \in Centrals : writer[c].phase = "record"}
             f == [c \in R |-> writer[c].expect]
  <1>1. IsFiniteSet(R) /\ Cardinality(R) <= Cardinality(Centrals)
    BY WallMarginAssumption, FS_Subset
  <1>2. f \in Surjection(R, ToMark)
    BY DEF Surjection, Range, ToMark
  <1>3. IsFiniteSet(ToMark) /\ Cardinality(ToMark) <= Cardinality(R)
    BY <1>1, <1>2, FS_Surjection
  <1> QED BY <1>1, <1>3, FS_CardinalityType, WallMarginAssumption

\* Once a write of the running WALL was marked, a WALL made again from the mark starts past
\* every write there has been (MarginCovers), with any number of Centrals stopping between an
\* acknowledgement and its mark, as long as the margin counts them (WALL_MARGIN).
THEOREM MarginIsEnough == WallSpec => []MarginCovers
  <1>1. WallInv => MarginCovers
    <2> SUFFICES ASSUME WallInv, wall.there, mark >= wall.first PROVE wall.last < PastTheMark
      BY DEF MarginCovers
    <2>0. /\ wall.first \in Nat /\ wall.last \in Nat /\ mark \in Nat
          /\ stops \in Nat /\ stops <= MaxStops /\ MaxStops \in Nat /\ WallMargin \in Nat
          /\ Cardinality(Centrals) \in Nat /\ WallMargin >= MaxStops + Cardinality(Centrals)
      BY WallMarginAssumption, FS_CardinalityType DEF WallInv, WallTypeOK
    <2>1. CASE wall.last <= mark
      BY <2>0, <2>1 DEF PastTheMark
    <2>2. CASE wall.last > mark
      <3>1. Unmarked = (mark + 1)..wall.last
        BY <2>0 DEF Unmarked
      <3>2. Cardinality(Unmarked) = wall.last - mark
        <4>1. mark + 1 \in Int /\ wall.last \in Int /\ ~(mark + 1 > wall.last)
          BY <2>0, <2>2
        <4>2. Cardinality((mark + 1)..wall.last) = wall.last - (mark + 1) + 1
          BY <4>1, FS_Interval
        <4> QED BY <2>0, <3>1, <4>2
      <3>3. /\ IsFiniteSet(Forgotten) /\ Cardinality(Forgotten) \in Nat
            /\ Cardinality(Forgotten) <= stops
        BY UnmarkedIsFinite DEF WallInv, StopsForget
      <3>4. /\ IsFiniteSet(ToMark) /\ Cardinality(ToMark) <= Cardinality(Centrals)
            /\ Cardinality(ToMark) \in Nat
        BY ToMarkIsFew, FS_CardinalityType
      <3>5. /\ IsFiniteSet(Forgotten \cup ToMark)
            /\ Cardinality(Forgotten \cup ToMark)
                 = Cardinality(Forgotten) + Cardinality(ToMark)
                     - Cardinality(Forgotten \cap ToMark)
        BY <3>3, <3>4, FS_Union
      <3>6. Forgotten \cap ToMark = {} /\ Unmarked \in SUBSET (Forgotten \cup ToMark)
        BY DEF Forgotten
      <3>7. Cardinality(Forgotten \cap ToMark) = 0
        BY <3>6, FS_EmptySet
      <3>8. Cardinality(Unmarked) <= Cardinality(Forgotten \cup ToMark)
        BY <3>5, <3>6, FS_Subset
      <3> QED BY <2>0, <3>2, <3>3, <3>4, <3>5, <3>7, <3>8 DEF PastTheMark
    <2> QED BY <2>0, <2>1, <2>2
  <1> QED BY <1>1, WallInvariance, PTL

================================================================================
