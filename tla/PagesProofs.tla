----------------------------- MODULE PagesProofs -----------------------------
(***************************************************************************)
(* Proofs about Pages for every number of tasks and every size of a page.  *)
(***************************************************************************)
EXTENDS Pages, FiniteSetTheorems, TLAPS

-----------------------------------------------------------------------------
(* One page.                                                               *)

\* Sets of committed tasks are finite, and Newer among them.
LEMMA Finite ==
    ASSUME IInv, NEW S \in SUBSET Committed
    PROVE  IsFiniteSet(S) /\ Cardinality(S) \in Nat
BY FS_Subset, FS_CardinalityType DEF IInv

\* A task with as many newer ones as the offset is not among the rows that
\* the offset passes over.
LEMMA NotBefore ==
    ASSUME IInv, NEW before \in SUBSET Committed, Newest(before, Committed, offset),
           NEW t \in Committed, Cardinality(Newer(t)) >= offset
    PROVE  t \notin before
<1> SUFFICES ASSUME t \in before PROVE FALSE
  OBVIOUS
<1>1. Newer(t) \cup {t} \subseteq before
  <2> SUFFICES ASSUME NEW u \in Newer(t), u \notin before PROVE FALSE
    OBVIOUS
  <2>1. createdAt[u] <= createdAt[t] /\ createdAt[t] < createdAt[u]
    BY DEF Newest, Newer
  <2>2. createdAt[u] \in Nat /\ createdAt[t] \in Nat
    BY DEF IInv, TypeOK, Committed, Newer
  <2>3. QED
    BY <2>1, <2>2
<1>2. t \notin Newer(t)
  BY DEF Newer, IInv, TypeOK, Committed
<1>3. Newer(t) \subseteq Committed
  BY DEF Newer
<1>4. /\ Cardinality(Newer(t) \cup {t}) = Cardinality(Newer(t)) + 1
      /\ Cardinality(Newer(t)) \in Nat
  BY <1>2, <1>3, Finite, FS_AddElement
<1>5. Cardinality(Newer(t) \cup {t}) <= Cardinality(before)
  BY <1>1, Finite, FS_Subset
<1>6. Cardinality(before) <= offset /\ Cardinality(before) \in Nat /\ offset \in Nat
  BY Finite DEF Newest, IInv, TypeOK
<1>7. QED
  BY <1>4, <1>5, <1>6

\* A page that is not empty follows exactly offset rows.
LEMMA OffsetRowsBefore ==
    ASSUME IInv, NEW before \in SUBSET Committed, Newest(before, Committed, offset),
           NEW page \in SUBSET (Committed \ before), page # {}
    PROVE  Cardinality(before) = offset
<1>1. Cardinality(Committed) = Cardinality(before) => Committed = before
  BY FS_Subset DEF IInv
<1>2. Committed # before
  OBVIOUS
<1>3. QED
  BY <1>1, <1>2 DEF Newest

\* No page has more than Limit rows.
LEMMA PageSize ==
    ASSUME IInv, NEW page \in SUBSET Committed, IsPage(page)
    PROVE  Cardinality(page) \in Nat /\ Cardinality(page) <= Limit
<1>1. PICK before \in SUBSET Committed : Newest(page, Committed \ before, Limit)
  BY DEF IsPage
<1>2. Cardinality(Committed \ before) \in Nat /\ Cardinality(page) \in Nat
  BY Finite
<1>3. QED
  BY <1>1, <1>2, PagesAssumption DEF Newest

\* After a page nothing is skipped: who is neither in it nor in one before has
\* all of both before it.
LEMMA PageSkipsNothing ==
    ASSUME IInv, Distinct, NEW page \in SUBSET Committed, page # {}, IsPage(page),
           NEW t \in base \ (got \cup page)
    PROVE  Cardinality(Newer(t)) >= offset + Limit
<1>1. PICK before \in SUBSET Committed : /\ Newest(before, Committed, offset)
                                         /\ Newest(page, Committed \ before, Limit)
  BY DEF IsPage
<1>2. t \in Committed /\ t \notin page
  BY DEF IInv
<1>3. t \notin before
  <2>1. Cardinality(Newer(t)) >= offset
    BY DEF IInv, NothingSkipped
  <2>2. QED
    BY <1>1, <1>2, <2>1, NotBefore
<1>4. ASSUME NEW s \in before \cup page PROVE s \in Newer(t)
  <2>1. s \in Committed /\ createdAt[t] <= createdAt[s]
    BY <1>1, <1>2, <1>3, <1>4 DEF Newest
  <2>2. createdAt[t] # createdAt[s]
    BY <1>2, <1>3, <1>4, <2>1 DEF Distinct
  <2>3. createdAt[t] \in Nat /\ createdAt[s] \in Nat
    BY <1>2, <2>1 DEF IInv, TypeOK, Committed
  <2>4. QED
    BY <2>1, <2>2, <2>3 DEF Newer
<1>5. page \subseteq Committed \ before
  BY <1>1 DEF Newest
<1>6. Cardinality(before) = offset
  BY <1>1, <1>5, OffsetRowsBefore
<1>7. Cardinality(page) = Limit
  <2>1. IsFiniteSet(Committed \ before)
    BY Finite
  <2>2. Cardinality(Committed \ before) # Cardinality(page)
    BY <1>2, <1>3, <1>5, <2>1, FS_Subset
  <2>3. QED
    BY <1>1, <2>2 DEF Newest
<1>8. Cardinality(before \cup page) = offset + Limit
  <2>1. before \cap page = {}
    BY <1>5
  <2>2. Cardinality(before \cup page) = Cardinality(before) + Cardinality(page) - 0
    BY <2>1, Finite, FS_Union, FS_EmptySet
  <2>3. QED
    BY <1>6, <1>7, <2>2, PagesAssumption DEF IInv, TypeOK
<1>9. Cardinality(before \cup page) <= Cardinality(Newer(t))
  <2>1. IsFiniteSet(Newer(t))
    BY Finite DEF Newer
  <2>2. QED
    BY <1>4, <2>1, FS_Subset
<1>10. Cardinality(Newer(t)) \in Nat
  BY Finite DEF Newer
<1>11. QED
  BY <1>8, <1>9, <1>10, PagesAssumption DEF IInv, TypeOK

\* The rows up to the end of a page are delivered or new.
LEMMA PageRepeatsBounded ==
    ASSUME IInv, Distinct, NEW page \in SUBSET Committed, page # {}, IsPage(page)
    PROVE  rows + Cardinality(page) <= Cardinality(got \cup page)
                                           + Cardinality(Committed \ base)
<1>1. PICK before \in SUBSET Committed : /\ Newest(before, Committed, offset)
                                         /\ Newest(page, Committed \ before, Limit)
  BY DEF IsPage
<1> DEFINE new == Committed \ base
<1>2. before \subseteq got \cup new
  <2> SUFFICES ASSUME NEW t \in before, t \in base, t \notin got PROVE FALSE
    OBVIOUS
  <2>1. Cardinality(Newer(t)) >= offset
    BY DEF IInv, NothingSkipped
  <2>2. QED
    BY <1>1, <2>1, NotBefore
<1>3. page \subseteq Committed \ before
  BY <1>1 DEF Newest
<1>4. Cardinality(before \cup page) = offset + Cardinality(page)
  <2>1. before \cap page = {}
    BY <1>3
  <2>2. Cardinality(before \cup page) = Cardinality(before) + Cardinality(page) - 0
    BY <2>1, Finite, FS_Union, FS_EmptySet
  <2>3. Cardinality(before) = offset
    BY <1>1, <1>3, OffsetRowsBefore
  <2>4. QED
    BY <2>2, <2>3, Finite DEF IInv, TypeOK
<1>5. Cardinality(before \cup page) <= Cardinality((got \cup page) \cup new)
  <2>1. before \cup page \subseteq (got \cup page) \cup new
    BY <1>2
  <2>2. (got \cup page) \cup new \subseteq Committed
    BY DEF IInv
  <2>3. QED
    BY <2>1, <2>2, Finite, FS_Subset
<1>6. Cardinality((got \cup page) \cup new) <= Cardinality(got \cup page) + Cardinality(new)
  <2>1. got \cup page \subseteq Committed /\ new \subseteq Committed
    BY DEF IInv
  <2>2. /\ IsFiniteSet(got \cup page) /\ IsFiniteSet(new)
        /\ Cardinality((got \cup page) \cap new) \in Nat
        /\ Cardinality(got \cup page) \in Nat /\ Cardinality(new) \in Nat
    BY <2>1, Finite
  <2>3. Cardinality((got \cup page) \cup new)
            = Cardinality(got \cup page) + Cardinality(new) - Cardinality((got \cup page) \cap new)
    BY <2>2, FS_Union
  <2>4. QED
    BY <2>2, <2>3
<1>7. /\ Cardinality(page) \in Nat /\ Cardinality(new) \in Nat
      /\ Cardinality(got \cup page) \in Nat
      /\ rows \in Nat /\ offset \in Nat /\ rows <= offset
  BY Finite DEF IInv, TypeOK
<1>8. Cardinality((got \cup page) \cup new) \in Nat
  BY Finite DEF IInv
<1>9. QED
  BY <1>4, <1>5, <1>6, <1>7, <1>8

-----------------------------------------------------------------------------
(* The inductive invariant.                                                *)

\* The clock and the transactions that are not committed do not matter.
LEMMA CommittedSame ==
    ASSUME IInv, TypeOK', Committed' = Committed, UNCHANGED listing,
           \A t \in Committed : createdAt'[t] = createdAt[t]
    PROVE  IInv'
<1>1. Distinct' => Distinct
  BY DEF Distinct
<1>2. \A t \in base : Newer(t)' = Newer(t)
  BY DEF Newer, IInv
<1>3. NothingSkipped' /\ RepeatsBounded'
  BY <1>1, <1>2 DEF IInv, NothingSkipped, RepeatsBounded, listing
<1>4. QED
  BY <1>3 DEF IInv, listing

LEMMA CommitStep ==
    ASSUME IInv, NEW t \in Tasks, CommitTask(t)
    PROVE  IInv'
<1>1. TypeOK'
  BY DEF IInv, TypeOK, CommitTask, listing
<1>2. Committed' = Committed \cup {t} /\ t \notin Committed
  BY DEF IInv, TypeOK, CommitTask, Committed
<1>3. IsFiniteSet(Committed')
  BY <1>2, FS_AddElement DEF IInv
<1>4. Distinct' => Distinct
  BY <1>2 DEF Distinct, CommitTask
<1>5. ASSUME NEW u \in base PROVE Cardinality(Newer(u)) <= Cardinality(Newer(u)')
  <2>1. Newer(u) \subseteq Newer(u)'
    BY <1>2 DEF Newer, CommitTask
  <2>2. Newer(u)' \subseteq Committed'
    BY DEF Newer
  <2>3. IsFiniteSet(Newer(u)')
    BY <1>3, <2>2, FS_Subset
  <2>4. QED
    BY <2>1, <2>3, FS_Subset
<1>6. ASSUME NEW u \in base
      PROVE  Cardinality(Newer(u)) \in Nat /\ Cardinality(Newer(u)') \in Nat
  <2>1. Newer(u) \subseteq Committed /\ Newer(u)' \subseteq Committed'
    BY DEF Newer
  <2>2. QED
    BY <1>3, <2>1, Finite, FS_Subset, FS_CardinalityType
<1>7. NothingSkipped'
  BY <1>4, <1>5, <1>6 DEF IInv, TypeOK, NothingSkipped, CommitTask, listing
<1>8. Cardinality(Committed \ base) <= Cardinality(Committed' \ base)
  <2>1. IsFiniteSet(Committed' \ base)
    BY <1>3, FS_Subset
  <2>2. QED
    BY <1>2, <2>1, FS_Subset
<1>9. /\ Cardinality(Committed \ base) \in Nat /\ Cardinality(Committed' \ base) \in Nat
      /\ Cardinality(got) \in Nat
  BY <1>3, Finite, FS_Subset, FS_CardinalityType DEF IInv
<1>10. RepeatsBounded'
  BY <1>4, <1>8, <1>9 DEF IInv, TypeOK, RepeatsBounded, CommitTask, listing
<1>11. QED
  BY <1>1, <1>2, <1>3, <1>7, <1>10 DEF IInv, CommitTask, listing

LEMMA BeginStep ==
    ASSUME IInv, BeginListing
    PROVE  IInv'
<1>1. TypeOK'
  BY DEF IInv, TypeOK, BeginListing, Committed
<1>2. Committed' = Committed
  BY DEF BeginListing, Committed
<1>3. \A t \in Committed : Cardinality(Newer(t)') \in Nat
  BY <1>2, Finite DEF Newer
<1>4. NothingSkipped'
  BY <1>3 DEF NothingSkipped, BeginListing
<1>5. Cardinality(got') = 0 /\ Cardinality((Committed \ base)') \in Nat
  BY <1>2, Finite, FS_EmptySet DEF BeginListing
<1>6. RepeatsBounded'
  BY <1>5 DEF RepeatsBounded, BeginListing
<1>7. QED
  BY <1>1, <1>2, <1>4, <1>6 DEF IInv, BeginListing

LEMMA PageStep ==
    ASSUME IInv, NEW page \in SUBSET Committed, NextPage(page)
    PROVE  IInv'
<1>1. Cardinality(page) \in Nat /\ Cardinality(page) <= Limit
  BY PageSize DEF NextPage
<1>2. TypeOK'
  BY <1>1, PagesAssumption DEF IInv, TypeOK, NextPage, Committed
<1>3. /\ Committed' = Committed /\ Distinct' = Distinct
      /\ \A t : Newer(t)' = Newer(t)
  BY DEF NextPage, Committed, Distinct, Newer
<1>4. NothingSkipped'
  BY <1>3, PageSkipsNothing DEF NothingSkipped, NextPage
<1>5. RepeatsBounded'
  BY <1>3, PageRepeatsBounded DEF RepeatsBounded, NextPage
<1>6. rows' <= offset'
  BY <1>1, PagesAssumption DEF IInv, TypeOK, NextPage
<1>7. QED
  BY <1>2, <1>3, <1>4, <1>5, <1>6 DEF IInv, NextPage

\* The invariant holds at the start and every step keeps it.
THEOREM PagesInductive == Spec => []IInv
<1>1. Init => IInv
  <2> SUFFICES ASSUME Init PROVE IInv
    OBVIOUS
  <2>1. Committed = {}
    BY DEF Init, Committed
  <2>2. QED
    BY <2>1, FS_EmptySet DEF Init, IInv, TypeOK, NothingSkipped, RepeatsBounded
<1>2. IInv /\ [Next]_vars => IInv'
  <2> SUFFICES ASSUME IInv, [Next]_vars PROVE IInv'
    OBVIOUS
  <2>1. CASE Tick \/ UNCHANGED vars
    <3>1. TypeOK'
      BY <2>1 DEF IInv, TypeOK, Tick, vars, listing
    <3>2. UNCHANGED <<state, createdAt, listing>>
      BY <2>1 DEF Tick, vars, listing
    <3>3. QED
      BY <3>1, <3>2, CommittedSame DEF Committed
  <2>2. CASE BeginListing
    BY <2>2, BeginStep
  <2>3. ASSUME NEW t \in Tasks, OpenTask(t) \/ RollBackTask(t) PROVE IInv'
    <3>1. TypeOK'
      BY <2>3 DEF IInv, TypeOK, OpenTask, RollBackTask, listing
    <3>2. Committed' = Committed /\ \A u \in Committed : createdAt'[u] = createdAt[u]
      BY <2>3 DEF IInv, TypeOK, OpenTask, RollBackTask, Committed
    <3>3. UNCHANGED listing
      BY <2>3 DEF OpenTask, RollBackTask
    <3>4. QED
      BY <3>1, <3>2, <3>3, CommittedSame
  <2>4. ASSUME NEW t \in Tasks, CommitTask(t) PROVE IInv'
    BY <2>4, CommitStep
  <2>5. ASSUME NEW page \in SUBSET Committed, NextPage(page) PROVE IInv'
    BY <2>5, PageStep
  <2>6. QED
    BY <2>1, <2>2, <2>3, <2>4, <2>5 DEF Next
<1>3. QED
  BY <1>1, <1>2, PTL DEF Spec

-----------------------------------------------------------------------------
(* What follows from it.                                                   *)

\* The list and the tasks keep their types.
THEOREM PagesTypeCorrect == Spec => []TypeOK
<1>1. IInv => TypeOK
  BY DEF IInv
<1>2. QED
  BY <1>1, PagesInductive, PTL

\* Whatever is committed between two pages, nothing that was there when the
\* listing began is skipped.
THEOREM PagesSkipNothing == Spec => []NothingSkipped
<1>1. IInv => NothingSkipped
  BY DEF IInv
<1>2. QED
  BY <1>1, PagesInductive, PTL

\* Rows are delivered twice at most as often as a task is committed meanwhile.
THEOREM PagesRepeatLittle == Spec => []RepeatsBounded
<1>1. IInv => RepeatsBounded
  BY DEF IInv
<1>2. QED
  BY <1>1, PagesInductive, PTL
=============================================================================
