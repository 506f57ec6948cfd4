------------------------------- MODULE Pages --------------------------------
(***************************************************************************)
(* A client lists the tasks of a project page by page while tasks are      *)
(* created: list_tasks (and list_projects, the same query) orders by       *)
(* created_at, newest first, and cuts by LIMIT and OFFSET.                 *)
(*                                                                         *)
(* created_at is now(), the start of the transaction that inserts the row, *)
(* so that rows need not be committed in its order, and two rows may have  *)
(* the same.  Each page is one SELECT of the committed rows.               *)
(***************************************************************************)
EXTENDS Naturals, FiniteSets

CONSTANTS Tasks,    \* the tasks that are created
          Limit,    \* rows on a page
          MaxTime   \* bound of the model: the clock stops there

ASSUME PagesAssumption == Limit \in Nat \ {0} /\ MaxTime \in Nat

VARIABLES clock,      \* the time of the database
          state,      \* of each task: absent, open (its transaction), committed
          createdAt,  \* created_at of each task that is not absent
          base,       \* the tasks that were committed when the listing began
          offset,     \* the offset of the next page
          got,        \* the tasks delivered so far
          rows        \* the number of rows delivered so far

vars == <<clock, state, createdAt, base, offset, got, rows>>
listing == <<base, offset, got, rows>>

Committed == {t \in Tasks : state[t] = "committed"}

Init == /\ clock = 0
        /\ state = [t \in Tasks |-> "absent"]
        /\ createdAt = [t \in Tasks |-> 0]
        /\ base = {}
        /\ offset = 0
        /\ got = {}
        /\ rows = 0

Tick == /\ clock < MaxTime
        /\ clock' = clock + 1
        /\ UNCHANGED <<state, createdAt, listing>>

\* The transaction of a create_task begins; now() is its time from here on.
OpenTask(t) == /\ state[t] = "absent"
               /\ state' = [state EXCEPT ![t] = "open"]
               /\ createdAt' = [createdAt EXCEPT ![t] = clock]
               /\ UNCHANGED <<clock, listing>>

CommitTask(t) == /\ state[t] = "open"
                 /\ state' = [state EXCEPT ![t] = "committed"]
                 /\ UNCHANGED <<clock, createdAt, listing>>

\* The request fails or is refused: nothing is inserted.
RollBackTask(t) == /\ state[t] = "open"
                   /\ state' = [state EXCEPT ![t] = "absent"]
                   /\ UNCHANGED <<clock, createdAt, listing>>

Newest_AnyOrder(S, T, n) ==
    /\ S \subseteq T
    /\ Cardinality(S) = IF n < Cardinality(T) THEN n ELSE Cardinality(T)

\* ORDER BY created_at DESC: S may be the first n rows of T.  Rows with the
\* same time are in any order, in each query anew.
Newest(S, T, n) ==
    /\ S \subseteq T
    /\ Cardinality(S) = IF n < Cardinality(T) THEN n ELSE Cardinality(T)
    /\ \A s \in S, t \in T \ S : createdAt[t] <= createdAt[s]

\* LIMIT and OFFSET: the rows that follow the first offset ones.
IsPage(page) == \E before \in SUBSET Committed :
                    /\ Newest(before, Committed, offset)
                    /\ Newest(page, Committed \ before, Limit)

\* The client asks for the first page again.
BeginListing == /\ base' = Committed
                /\ offset' = 0
                /\ got' = {}
                /\ rows' = 0
                /\ UNCHANGED <<clock, state, createdAt>>

NextPage_Appended(page) ==
    /\ page # {} /\ IsPage(page)
    /\ got' = got \cup {page}
    /\ rows' = rows + Cardinality(page)
    /\ offset' = offset + Limit
    /\ UNCHANGED <<clock, state, createdAt, base>>

NextPage_OffByOne(page) ==
    /\ page # {} /\ IsPage(page)
    /\ got' = got \cup page
    /\ rows' = rows + Cardinality(page)
    /\ offset' = offset + Limit - 1
    /\ UNCHANGED <<clock, state, createdAt, base>>

\* The client asks for the next page, and is given it.
NextPage(page) == /\ page # {}
                  /\ IsPage(page)
                  /\ got' = got \cup page
                  /\ rows' = rows + Cardinality(page)
                  /\ offset' = offset + Limit
                  /\ UNCHANGED <<clock, state, createdAt, base>>

Next == \/ Tick \/ BeginListing
        \/ \E t \in Tasks : OpenTask(t) \/ CommitTask(t) \/ RollBackTask(t)
        \/ \E page \in SUBSET Committed : NextPage(page)

Spec == Init /\ [][Next]_vars

-----------------------------------------------------------------------------
(* Properties *)

TypeOK == /\ clock \in Nat
          /\ state \in [Tasks -> {"absent", "open", "committed"}]
          /\ createdAt \in [Tasks -> Nat]
          /\ base \subseteq Tasks /\ got \subseteq Tasks
          /\ offset \in Nat /\ rows \in Nat

\* No two committed tasks have the same created_at.
Distinct == \A t, u \in Committed : createdAt[t] = createdAt[u] => t = u

\* The rows that come before a task in the list.
Newer(t) == {u \in Committed : createdAt[t] < createdAt[u]}

\* Nothing is skipped: a task that was there when the listing began has been
\* delivered or is still to come, whatever is created or committed meanwhile,
\* as long as created_at orders the rows.  list_tasks orders by it alone.
NothingSkipped ==
    Distinct => \A t \in base \ got : Cardinality(Newer(t)) >= offset

\* Only tasks committed during the listing cause rows to be delivered twice,
\* at most one each: without any the pages are disjoint.
RepeatsBounded ==
    Distinct => rows <= Cardinality(got) + Cardinality(Committed \ base)

\* The inductive invariant: what is listed is committed, and no page has more
\* rows than the offset moves by.
IInv == /\ TypeOK
        /\ IsFiniteSet(Committed)
        /\ base \subseteq Committed /\ got \subseteq Committed
        /\ rows <= offset
        /\ NothingSkipped
        /\ RepeatsBounded
=============================================================================
