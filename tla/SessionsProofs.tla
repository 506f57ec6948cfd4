--------------------------- MODULE SessionsProofs ---------------------------
(***************************************************************************)
(* Proofs about Sessions for every number of requests, size of the pool    *)
(* and lifetime of the tokens.                                             *)
(***************************************************************************)
EXTENDS Sessions, FiniteSetTheorems, TLAPS

-----------------------------------------------------------------------------
(* Whole seconds.                                                          *)

\* Cutting to whole seconds keeps the order of two times.
LEMMA DivMonotone ==
    ASSUME NEW s \in Nat \ {0}, NEW a \in Nat, NEW b \in Nat, a <= b
    PROVE  a \div s <= b \div s
OBVIOUS

\* Times in the same or a later second are less than a second early.
LEMMA DivApart ==
    ASSUME NEW s \in Nat \ {0}, NEW a \in Nat, NEW b \in Nat, a \div s <= b \div s
    PROVE  a < b + s
OBVIOUS

\* What Unexpired says of a token, whatever the clock shows.
LEMMA TokenLifetime ==
    ASSUME TypeOK, NEW t \in tokens
    PROVE  /\ t.iat \in Nat /\ Life(t.type) \in Nat
           /\ clock <= t.iat + Life(t.type) => Unexpired(t)
           /\ Unexpired(t) => clock < t.iat + Life(t.type) + Second
<1>1. /\ clock \in Nat /\ t.iat \in Nat
      /\ Life(t.type) \in Nat
      /\ Second \in Nat \ {0}
  BY SessionsAssumption DEF TypeOK, Tokens, Life
<1>2. t.iat + Life(t.type) \in Nat
  BY <1>1
<1>3. ASSUME clock <= t.iat + Life(t.type) PROVE Unexpired(t)
  BY <1>1, <1>2, <1>3, DivMonotone DEF Unexpired, Expiry
<1>4. ASSUME Unexpired(t) PROVE clock < t.iat + Life(t.type) + Second
  BY <1>1, <1>2, <1>4, DivApart DEF Unexpired, Expiry
<1>5. QED
  BY <1>1, <1>3, <1>4

-----------------------------------------------------------------------------
(* The inductive invariant, one lemma per kind of step.                    *)

requestVars == <<pc, user, late, connected, rowLock>>

\* No request moves: the clock runs, tokens are issued, a user is deactivated.
LEMMA IdentitySteps ==
    ASSUME IInv, UNCHANGED requestVars,
           clock' \in Nat, tokens' \subseteq Tokens, active' \subseteq active
    PROVE  IInv'
BY DEF IInv, TypeOK, requestVars, NoHoldAndWait, InFlight, Waiting, Statement, ShutOut

LEMMA ArriveStep ==
    ASSUME IInv, NEW r \in Requests, NEW u \in Users,
           NEW first \in {"connect_login", "connect_row", "connect"}, Arrive(r, u, first)
    PROVE  IInv'
<1>1. TypeOK'
  BY DEF IInv, TypeOK, Arrive, GoTo, identity, Steps
<1>2. NoHoldAndWait'
  <2>1. /\ Cardinality(connected') <= PoolLimit
        /\ rowLock' # None => pc'[rowLock'] = "commit"
    BY SessionsAssumption DEF IInv, TypeOK, NoHoldAndWait, Arrive, GoTo, InFlight, Steps
  <2>2. \A q \in Requests : (InFlight(q) /\ ~Waiting(q))' <=> InFlight(q) /\ ~Waiting(q)
    BY DEF IInv, TypeOK, Arrive, GoTo, InFlight, Waiting, Statement, Steps
  <2>3. QED
    BY <2>1, <2>2 DEF IInv, NoHoldAndWait, Arrive
<1>3. ShutOut' /\ \A q \in late' : user'[q] \notin active'
  BY DEF IInv, TypeOK, ShutOut, Arrive, GoTo, identity
<1>4. QED
  BY <1>1, <1>2, <1>3 DEF IInv, Arrive

LEMMA ConnectStep ==
    ASSUME IInv, NEW r \in Requests, Connect(r)
    PROVE  IInv'
<1>1. TypeOK'
  BY DEF IInv, TypeOK, Connect, Waiting, Statement, GoTo, identity, Steps
<1>2. pc'[r] \in {"login", "decode", "load", "refresh"}
  BY DEF IInv, TypeOK, Connect, Waiting, Statement, GoTo
<1>3. r \notin connected
  BY DEF IInv, NoHoldAndWait, Connect
<1>4. IsFiniteSet(connected') /\ Cardinality(connected') <= PoolLimit
  <2>1. /\ IsFiniteSet(connected')
        /\ Cardinality(connected') = Cardinality(connected) + 1
        /\ Cardinality(connected) \in Nat
    BY <1>3, FS_AddElement, FS_CardinalityType DEF IInv, Connect
  <2>2. QED
    BY <2>1, SessionsAssumption DEF Connect, PoolFull
<1>5. connected' = {q \in Requests : InFlight(q) /\ ~Waiting(q)}'
  <2>1. \A q \in Requests \ {r} : (InFlight(q) /\ ~Waiting(q))' <=> InFlight(q) /\ ~Waiting(q)
    BY DEF IInv, TypeOK, Connect, GoTo, InFlight, Waiting, Statement
  <2>2. (InFlight(r) /\ ~Waiting(r))'
    BY <1>2 DEF InFlight, Waiting, Statement, Steps
  <2>3. QED
    BY <2>1, <2>2 DEF IInv, NoHoldAndWait, Connect
<1>6. rowLock' # None => pc'[rowLock'] = "commit"
  BY DEF IInv, TypeOK, NoHoldAndWait, Connect, Waiting, Statement, GoTo
<1>7. ShutOut'
  BY DEF IInv, TypeOK, ShutOut, Connect, Waiting, Statement, GoTo
<1>8. \A q \in late' : user'[q] \notin active'
  BY DEF IInv, Connect, identity
<1>9. QED
  BY <1>1, <1>4, <1>5, <1>6, <1>7, <1>8 DEF IInv, NoHoldAndWait

\* The session of r closes.
LEMMA EndStep ==
    ASSUME IInv, NEW r \in Requests, NEW answer \in Answers, End(r, answer),
           answer = "served" => r \notin late,
           UNCHANGED <<clock, active>>, tokens' \subseteq Tokens
    PROVE  IInv'
<1>1. TypeOK'
  BY DEF IInv, TypeOK, End, GoTo, Answers
<1>2. IsFiniteSet(connected') /\ Cardinality(connected') <= PoolLimit
  <2>1. /\ IsFiniteSet(connected')
        /\ Cardinality(connected') = IF r \in connected THEN Cardinality(connected) - 1
                                                        ELSE Cardinality(connected)
        /\ Cardinality(connected) \in Nat
    BY FS_RemoveElement, FS_CardinalityType DEF IInv, End
  <2>2. QED
    BY <2>1, SessionsAssumption DEF IInv, NoHoldAndWait
<1>3. connected' = {q \in Requests : InFlight(q) /\ ~Waiting(q)}'
  <2>1. \A q \in Requests \ {r} : (InFlight(q) /\ ~Waiting(q))' <=> InFlight(q) /\ ~Waiting(q)
    BY DEF IInv, TypeOK, End, GoTo, InFlight, Waiting, Statement
  <2>2. ~InFlight(r)'
    BY DEF IInv, TypeOK, End, GoTo, InFlight, Steps, Answers
  <2>3. QED
    BY <2>1, <2>2 DEF IInv, NoHoldAndWait, End
<1>4. rowLock' # None => pc'[rowLock'] = "commit"
  BY SessionsAssumption DEF IInv, TypeOK, NoHoldAndWait, End, GoTo
<1>5. ShutOut' /\ \A q \in late' : user'[q] \notin active'
  BY DEF IInv, TypeOK, ShutOut, End, GoTo, Answers
<1>6. QED
  BY <1>1, <1>2, <1>3, <1>4, <1>5 DEF IInv, NoHoldAndWait

\* r, with its connection, goes on to a step in which it keeps it.
LEMMA GoOnStep ==
    ASSUME IInv, NEW r \in Requests, NEW next \in {"load", "write"},
           pc[r] \in {"decode", "load"}, next = "write" => user[r] \in active,
           GoTo(r, next), UNCHANGED <<identity, user, late, connected, rowLock>>
    PROVE  IInv'
<1>1. TypeOK'
  BY DEF IInv, TypeOK, GoTo, identity, Steps
<1>2. \A q \in Requests : (InFlight(q) /\ ~Waiting(q))' <=> InFlight(q) /\ ~Waiting(q)
  BY DEF IInv, TypeOK, GoTo, InFlight, Waiting, Statement, Steps
<1>3. NoHoldAndWait'
  BY <1>2 DEF IInv, TypeOK, NoHoldAndWait, GoTo
<1>4. ShutOut' /\ \A q \in late' : user'[q] \notin active'
  BY DEF IInv, TypeOK, ShutOut, GoTo, identity
<1>5. QED
  BY <1>1, <1>3, <1>4 DEF IInv

LEMMA WriteStep ==
    ASSUME IInv, NEW r \in Requests, Write(r)
    PROVE  IInv'
<1>1. TypeOK'
  BY DEF IInv, TypeOK, Write, GoTo, identity, Steps
<1>2. \A q \in Requests : (InFlight(q) /\ ~Waiting(q))' <=> InFlight(q) /\ ~Waiting(q)
  BY DEF IInv, TypeOK, Write, GoTo, InFlight, Waiting, Statement, Steps
<1>3. NoHoldAndWait'
  BY <1>2 DEF IInv, TypeOK, NoHoldAndWait, Write, GoTo
<1>4. ShutOut' /\ \A q \in late' : user'[q] \notin active'
  BY DEF IInv, TypeOK, ShutOut, Write, GoTo, identity
<1>5. QED
  BY <1>1, <1>3, <1>4 DEF IInv, Write

LEMMA CommitStep ==
    ASSUME IInv, NEW r \in Requests, Commit(r)
    PROVE  IInv'
<1>1. TypeOK'
  BY DEF IInv, TypeOK, Commit, GoTo, identity, Steps
<1>2. r \in connected
  BY DEF IInv, NoHoldAndWait, Commit, InFlight, Waiting, Statement, Steps
<1>3. IsFiniteSet(connected') /\ Cardinality(connected') <= PoolLimit
  <2>1. /\ IsFiniteSet(connected')
        /\ Cardinality(connected') = Cardinality(connected) - 1
        /\ Cardinality(connected) \in Nat
    BY <1>2, FS_RemoveElement, FS_CardinalityType DEF IInv, Commit
  <2>2. QED
    BY <2>1, SessionsAssumption DEF IInv, NoHoldAndWait
<1>4. connected' = {q \in Requests : InFlight(q) /\ ~Waiting(q)}'
  <2>1. \A q \in Requests \ {r} : (InFlight(q) /\ ~Waiting(q))' <=> InFlight(q) /\ ~Waiting(q)
    BY DEF IInv, TypeOK, Commit, GoTo, InFlight, Waiting, Statement
  <2>2. Waiting(r)'
    BY DEF IInv, TypeOK, Commit, GoTo, Waiting, Statement
  <2>3. QED
    BY <2>1, <2>2 DEF IInv, NoHoldAndWait, Commit
<1>5. ShutOut' /\ \A q \in late' : user'[q] \notin active'
  BY DEF IInv, TypeOK, ShutOut, Commit, GoTo, identity
<1>6. QED
  BY <1>1, <1>3, <1>4, <1>5 DEF IInv, NoHoldAndWait, Commit

\* The invariant holds at the start and every step keeps it.
THEOREM SessionsInductive == Spec => []IInv
<1>1. Init => IInv
  <2> SUFFICES ASSUME Init PROVE IInv
    OBVIOUS
  <2>1. IsFiniteSet(connected) /\ Cardinality(connected) <= PoolLimit
    BY FS_EmptySet, SessionsAssumption DEF Init
  <2>2. QED
    BY <2>1 DEF Init, IInv, TypeOK, NoHoldAndWait, ShutOut, InFlight, Steps, Answers
<1>2. IInv /\ [Next]_vars => IInv'
  <2> SUFFICES ASSUME IInv, [Next]_vars PROVE IInv'
    OBVIOUS
  <2>1. CASE Tick
    <3>1. clock' \in Nat
      BY <2>1 DEF IInv, TypeOK, Tick
    <3>2. QED
      BY <2>1, <3>1, IdentitySteps DEF IInv, TypeOK, Tick, requestVars
  <2>2. ASSUME NEW u \in Users, Deactivate(u) \/ RefreshPair(u) PROVE IInv'
    <3>1. /\ clock' \in Nat /\ tokens' \subseteq Tokens /\ active' \subseteq active
          /\ UNCHANGED requestVars
      BY <2>2 DEF IInv, TypeOK, Deactivate, RefreshPair, TokenPair, Tokens, requestVars
    <3>2. QED
      BY <3>1, IdentitySteps
  <2>3. ASSUME NEW r \in Requests, BeginLogin(r) \/ Begin(r) \/ BeginOnRow(r) PROVE IInv'
    <3>1. \E u \in Users, first \in {"connect_login", "connect_row", "connect"} :
              Arrive(r, u, first)
      BY <2>3 DEF BeginLogin, Begin, BeginOnRow, IInv, TypeOK, Tokens
    <3>2. QED
      BY <3>1, ArriveStep
  <2>4. ASSUME NEW r \in Requests, Connect(r) PROVE IInv'
    BY <2>4, ConnectStep
  <2>5. ASSUME NEW r \in Requests, Timeout(r) \/ Refuse(r) \/ Fail(r) PROVE IInv'
    <3>1. End(r, "idle") /\ UNCHANGED identity
      BY <2>5 DEF Timeout, Refuse, Fail
    <3>2. QED
      BY <3>1, EndStep DEF Answers, identity, IInv, TypeOK
  <2>6. ASSUME NEW r \in Requests, Login(r) PROVE IInv'
    <3>1. End(r, "served") /\ r \notin late /\ UNCHANGED <<clock, active>>
      BY <2>6 DEF Login, IInv
    <3>2. tokens' \subseteq Tokens
      BY <2>6 DEF Login, TokenPair, Tokens, IInv, TypeOK
    <3>3. QED
      BY <3>1, <3>2, EndStep DEF Answers
  <2>7. ASSUME NEW r \in Requests, Decode(r) PROVE IInv'
    <3>1. pc[r] = "decode" /\ GoTo(r, "load")
      BY <2>7 DEF Decode
    <3>2. UNCHANGED <<identity, user, late, connected, rowLock>>
      BY <2>7 DEF Decode
    <3>3. QED
      BY <3>1, <3>2, GoOnStep
  <2>8. ASSUME NEW r \in Requests, LoadUser(r) PROVE IInv'
    <3>1. CASE End(r, "served")
      <4>1. r \notin late /\ UNCHANGED identity
        BY <2>8 DEF LoadUser, IInv
      <4>2. QED
        BY <3>1, <4>1, EndStep DEF Answers, identity, IInv, TypeOK
    <3>2. CASE GoTo(r, "write") /\ UNCHANGED <<user, late, connected, rowLock>>
      <4>1. pc[r] = "load" /\ user[r] \in active /\ UNCHANGED identity
        BY <2>8 DEF LoadUser
      <4>2. UNCHANGED <<identity, user, late, connected, rowLock>>
        BY <3>2, <4>1
      <4>3. QED
        BY <3>2, <4>1, <4>2, GoOnStep
    <3>3. QED
      BY <2>8, <3>1, <3>2 DEF LoadUser
  <2>9. ASSUME NEW r \in Requests, Write(r) PROVE IInv'
    BY <2>9, WriteStep
  <2>10. ASSUME NEW r \in Requests, Commit(r) PROVE IInv'
    BY <2>10, CommitStep
  <2>11. ASSUME NEW r \in Requests, Refresh(r) PROVE IInv'
    <3>1. End(r, "served") /\ r \notin late /\ UNCHANGED identity
      BY <2>11 DEF Refresh, IInv, ShutOut
    <3>2. QED
      BY <3>1, EndStep DEF Answers, identity, IInv, TypeOK
  <2>12. CASE UNCHANGED vars
    BY <2>12, IdentitySteps DEF vars, requestVars, IInv, TypeOK
  <2>13. QED
    BY <2>1, <2>2, <2>3, <2>4, <2>5, <2>6, <2>7, <2>8, <2>9, <2>10, <2>11, <2>12
    DEF Next, Handle
<1>3. QED
  BY <1>1, <1>2, PTL DEF Spec

-----------------------------------------------------------------------------
(* What follows from it.                                                   *)

\* The tokens and the requests in flight keep their types.
THEOREM SessionsTypeCorrect == Spec => []TypeOK
<1>1. IInv => TypeOK
  BY DEF IInv
<1>2. QED
  BY <1>1, SessionsInductive, PTL

\* Sessions hold at most PoolLimit connections, one for each request between
\* its first statement and its end, and none while it waits for one.
THEOREM NoHoldAndWaitHolds == Spec => []NoHoldAndWait
<1>1. IInv => NoHoldAndWait
  BY DEF IInv
<1>2. QED
  BY <1>1, SessionsInductive, PTL

\* Tokens are accepted all through their lifetime and less than a second more,
\* for every lifetime and every fraction of a second.
THEOREM LifetimeIsKept == Spec => []LifetimeKept
<1>1. IInv => LifetimeKept
  BY TokenLifetime DEF IInv, LifetimeKept
<1>2. QED
  BY <1>1, SessionsInductive, PTL

\* A request that begins after its user is deactivated is never served.
THEOREM DeactivatedAreShutOut == Spec => []ShutOut
<1>1. IInv => ShutOut
  BY DEF IInv
<1>2. QED
  BY <1>1, SessionsInductive, PTL

\* A token is accepted at the begin of a request or once its row is loaded.
LEMMA Identifying ==
    ASSUME IInv, [Next]_vars, NEW r \in Requests, Identified(r)
    PROVE  Begin(r) \/ Decode(r)
<1>1. pc'[r] # pc[r]
  BY DEF Identified, InFlight, Steps
<1>2. ASSUME NEW q \in Requests, NEW next, GoTo(q, next) PROVE q = r /\ pc'[r] = next
  BY <1>1, <1>2 DEF GoTo, IInv, TypeOK
<1>3. PICK q \in Requests : BeginLogin(q) \/ Begin(q) \/ BeginOnRow(q) \/ Handle(q)
                               \/ Write(q) \/ Fail(q)
  BY <1>1 DEF Next, vars, Tick, Deactivate, RefreshPair
<1>4. ASSUME NEW answer \in Answers, End(q, answer) PROVE FALSE
  BY <1>2, <1>4 DEF End, Identified, Answers
<1>5. CASE BeginLogin(q) \/ BeginOnRow(q)
  BY <1>2, <1>5 DEF BeginLogin, BeginOnRow, Arrive, Identified, InFlight, Steps
<1>6. CASE Begin(q)
  BY <1>2, <1>6 DEF Begin, Arrive
<1>7. CASE Connect(q)
  BY <1>2, <1>7 DEF Connect, Waiting, Statement, Identified, InFlight, Steps
<1>8. CASE Timeout(q) \/ Login(q) \/ Refuse(q) \/ Refresh(q) \/ Fail(q)
  BY <1>4, <1>8 DEF Timeout, Login, Refuse, Refresh, Fail, Answers
<1>9. CASE Decode(q)
  BY <1>2, <1>9 DEF Decode
<1>10. CASE LoadUser(q) \/ Write(q) \/ Commit(q)
  BY <1>2, <1>4, <1>10 DEF LoadUser, Write, Commit, Answers, Identified
<1>11. QED
  BY <1>3, <1>5, <1>6, <1>7, <1>8, <1>9, <1>10 DEF Handle

\* No access token older than its lifetime and a second identifies anybody.
THEOREM FreshPairs == Spec => ServedOnFreshPair
<1> DEFINE Fresh ==
        \A r \in Requests : Identified(r) =>
            \E t \in tokens : t.user = user'[r] /\ clock < t.iat + AccessLife + Second
<1>1. IInv /\ [Next]_vars => [Fresh]_vars
  <2> SUFFICES ASSUME IInv, [Next]_vars, NEW r \in Requests, Identified(r)
               PROVE  \E t \in tokens : /\ t.user = user'[r]
                                        /\ clock < t.iat + AccessLife + Second
    BY DEF vars, Identified
  <2>1. \E t \in tokens : t.user = user'[r] /\ Accepted(t, "access")
    BY Identifying DEF Begin, Decode, Arrive, IInv, TypeOK, Tokens, identity
  <2>2. QED
    BY <2>1, TokenLifetime DEF Accepted, Life, IInv
<1>2. QED
  BY <1>1, SessionsInductive, PTL DEF Spec, ServedOnFreshPair
=============================================================================
