------------------------------ MODULE Sessions ------------------------------
(***************************************************************************)
(* What every request goes through: its token, a connection of the pool,   *)
(* the look-up of the user, a row lock if it writes, and again a           *)
(* connection for the refresh() after its commit; and the tokens that      *)
(* logins and refreshes hand out.                                          *)
(*                                                                         *)
(* A session takes a connection at its first statement and gives it back   *)
(* when its transaction ends: at the COMMIT, which also frees the row      *)
(* locks, or when the session closes.  The token is decoded before the     *)
(* first statement, except on the routes of a project or task: their       *)
(* first dependency loads the row.  Who finds no connection free waits,    *)
(* for pool_timeout at most; who finds a row locked waits without a limit. *)
(* Which of two rows a handler locks first is the subject of               *)
(* ApprovalWorkflow: here each write locks one.                            *)
(*                                                                         *)
(* Time runs in ticks, a fraction of a second.  A token carries its expiry *)
(* in whole seconds, rounded down.                                         *)
(***************************************************************************)
EXTENDS Naturals, FiniteSets

CONSTANTS Requests,     \* requests that can be in flight at the same time
          Users,        \* registered users
          None,         \* no request
          PoolLimit,    \* pool_size + max_overflow
          Second,       \* ticks in a second
          AccessLife,   \* lifetimes of the tokens, in ticks
          RefreshLife,
          MaxTime       \* bound of the model: the clock stops there

ASSUME SessionsAssumption ==
    /\ PoolLimit \in Nat \ {0} /\ Second \in Nat \ {0} /\ MaxTime \in Nat
    /\ AccessLife \in Nat /\ RefreshLife \in Nat /\ AccessLife <= RefreshLife
    /\ None \notin Requests

VARIABLES clock,      \* the time
          tokens,     \* the tokens handed out, with the time of their issue
          active,     \* the users whose is_active is set
          pc,         \* the step each request takes next, or its answer
          user,       \* the user of the request
          late,       \* history: the requests begun when their user was inactive
          connected,  \* the requests whose session holds a pooled connection
          rowLock     \* the request that holds the row lock

vars == <<clock, tokens, active, pc, user, late, connected, rowLock>>
identity == <<clock, tokens, active>>

Tokens == [type : {"access", "refresh"}, user : Users, iat : Nat]

Steps == {"connect_login", "login", "connect_row", "decode", "connect", "load",
          "write", "commit", "reconnect", "refresh"}

\* served: the request was answered with success; idle: nothing was asked yet,
\* or the last request was refused (401), timed out (500) or failed.
Answers == {"served", "idle"}

InFlight(r) == pc[r] \in Steps

Init == /\ clock = 0
        /\ tokens = {}
        /\ active = Users
        /\ pc = [r \in Requests |-> "idle"]
        /\ user \in [Requests -> Users]
        /\ late = {}
        /\ connected = {}
        /\ rowLock = None

-----------------------------------------------------------------------------
(* Tokens *)

Life(type) == IF type = "access" THEN AccessLife ELSE RefreshLife

\* exp, in whole seconds.
Expiry(t) == (t.iat + Life(t.type)) \div Second

Unexpired_Strictly(t) == clock \div Second < Expiry(t)

\* jwt.decode compares with the current second.
Unexpired(t) == clock \div Second <= Expiry(t)

Accepted_AnyType(t, expected) == t \in tokens /\ Unexpired(t)

\* decode_token
Accepted(t, expected) == t \in tokens /\ Unexpired(t) /\ t.type = expected

TokenPair_Swapped(u) == {[type |-> u, user |-> y, iat |-> clock] : y \in {"access", "refresh"}}

\* _issue_token_pair
TokenPair(u) == {[type |-> y, user |-> u, iat |-> clock] : y \in {"access", "refresh"}}

\* /auth/refresh works from the token alone, without a session.
RefreshPair(u) ==
    /\ \E t \in tokens : t.user = u /\ Accepted(t, "refresh")
    /\ tokens' = tokens \cup TokenPair(u)
    /\ UNCHANGED <<clock, active, pc, user, late, connected, rowLock>>

Tick == /\ clock < MaxTime
        /\ clock' = clock + 1
        /\ UNCHANGED <<tokens, active, pc, user, late, connected, rowLock>>

\* No route does it: an operator resets is_active in the database.
Deactivate(u) == /\ u \in active
                 /\ active' = active \ {u}
                 /\ UNCHANGED <<clock, tokens, pc, user, late, connected, rowLock>>

-----------------------------------------------------------------------------
(* Requests *)

GoTo(r, next) == pc' = [pc EXCEPT ![r] = next]

Arrive(r, u, first) ==
    /\ ~InFlight(r)
    /\ user' = [user EXCEPT ![r] = u]
    /\ late' = IF u \in active THEN late \ {r} ELSE late \cup {r}
    /\ GoTo(r, first)
    /\ UNCHANGED <<identity, connected, rowLock>>

\* POST /auth/login
BeginLogin(r) == \E u \in Users : Arrive(r, u, "connect_login")

\* Any other route, with an access token that is accepted.
Begin(r) == \E t \in tokens : Accepted(t, "access") /\ Arrive(r, t.user, "connect")

\* A route of a project or task; its row is loaded before the token is decoded.
BeginOnRow(r) == \E u \in Users : Arrive(r, u, "connect_row")

\* The steps that wait for a connection, each with the statement it is for.
Statement == [connect_login |-> "login",  connect_row |-> "decode",
              connect       |-> "load",   reconnect   |-> "refresh"]

Waiting(r) == pc[r] \in DOMAIN Statement

PoolFull == Cardinality(connected) >= PoolLimit

\* The first statement of a transaction takes a connection from the pool.
Connect(r) == /\ Waiting(r)
              /\ ~PoolFull
              /\ connected' = connected \cup {r}
              /\ GoTo(r, Statement[pc[r]])
              /\ UNCHANGED <<identity, user, late, rowLock>>

End_KeepsLock(r, answer) ==
    /\ GoTo(r, answer)
    /\ connected' = connected \ {r}
    /\ late' = IF answer = "served" THEN late ELSE late \ {r}
    /\ UNCHANGED <<user, rowLock>>

\* The session closes: its transaction is rolled back, its connection returned.
End(r, answer) ==
    /\ GoTo(r, answer)
    /\ connected' = connected \ {r}
    /\ rowLock' = IF rowLock = r THEN None ELSE rowLock
    /\ late' = IF answer = "served" THEN late ELSE late \ {r}
    /\ UNCHANGED user

\* pool_timeout has passed: an error, also when the commit is done already.
Timeout(r) == /\ Waiting(r)
              /\ PoolFull
              /\ End(r, "idle")
              /\ UNCHANGED identity

\* authenticate_user, with the right password.
Login(r) == /\ pc[r] = "login"
            /\ user[r] \in active
            /\ tokens' = tokens \cup TokenPair(user[r])
            /\ End(r, "served")
            /\ UNCHANGED <<clock, active>>

\* The row exists; which token the client has sent is left open till here.
Decode(r) == /\ pc[r] = "decode"
             /\ \E t \in tokens : t.user = user[r] /\ Accepted(t, "access")
             /\ GoTo(r, "load")
             /\ UNCHANGED <<identity, user, late, connected, rowLock>>

\* The wrong password; no such row, or a token that is not accepted; a
\* deactivated user.
Refuse(r) == /\ \/ pc[r] \in {"login", "decode"}
                \/ pc[r] = "load" /\ user[r] \notin active
             /\ End(r, "idle")
             /\ UNCHANGED identity

LoadUser_TokenOnly(r) ==
    /\ pc[r] = "load"
    /\ \/ End(r, "served")
       \/ GoTo(r, "write") /\ UNCHANGED <<user, late, connected, rowLock>>
    /\ UNCHANGED identity

\* get_current_user; what a route reads after it comes with this step: it is
\* answered, or has something to write.
LoadUser(r) == /\ pc[r] = "load"
               /\ user[r] \in active
               /\ \/ End(r, "served")
                  \/ GoTo(r, "write") /\ UNCHANGED <<user, late, connected, rowLock>>
               /\ UNCHANGED identity

\* The flush waits for the row lock, with the connection in hand.
Write(r) == /\ pc[r] = "write"
            /\ rowLock = None
            /\ rowLock' = r
            /\ GoTo(r, "commit")
            /\ UNCHANGED <<identity, user, late, connected>>

Commit_KeepsConnection(r) ==
    /\ pc[r] = "commit"
    /\ GoTo(r, "reconnect")
    /\ rowLock' = None
    /\ UNCHANGED <<identity, user, late, connected>>

\* COMMIT ends the transaction: its lock and its connection are free.
Commit(r) == /\ pc[r] = "commit"
             /\ GoTo(r, "reconnect")
             /\ connected' = connected \ {r}
             /\ rowLock' = None
             /\ UNCHANGED <<identity, user, late>>

\* refresh() begins a transaction of its own.
Refresh(r) == /\ pc[r] = "refresh"
              /\ End(r, "served")
              /\ UNCHANGED identity

Fail(r) == InFlight(r) /\ End(r, "idle") /\ UNCHANGED identity

\* What the event loop and the database run by themselves.
Handle(r) == \/ Connect(r) \/ Timeout(r) \/ Login(r) \/ Decode(r) \/ Refuse(r)
             \/ LoadUser(r) \/ Commit(r) \/ Refresh(r)

Next == \/ Tick
        \/ \E u \in Users : Deactivate(u) \/ RefreshPair(u)
        \/ \E r \in Requests : \/ BeginLogin(r) \/ Begin(r) \/ BeginOnRow(r)
                               \/ Handle(r) \/ Write(r) \/ Fail(r)

\* Every statement that can run is run, every wait for a connection ends, and
\* PostgreSQL grants a row lock to its waiters in turn.
Fairness == \A r \in Requests : WF_vars(Handle(r)) /\ SF_vars(Write(r))

Spec == Init /\ [][Next]_vars /\ Fairness

-----------------------------------------------------------------------------
(* Properties *)

\* Types of the tokens and of the requests in flight.
TypeOK == /\ clock \in Nat
          /\ tokens \subseteq Tokens
          /\ active \subseteq Users
          /\ pc \in [Requests -> Steps \cup Answers]
          /\ user \in [Requests -> Users]
          /\ late \subseteq Requests /\ connected \subseteq Requests
          /\ rowLock \in Requests \cup {None}

\* The sessions never hold more connections than the pool has, none outlives
\* its request, and who waits for a connection (in a new transaction after the
\* commit too) holds neither a connection nor a lock that others wait for.
NoHoldAndWait ==
    /\ Cardinality(connected) <= PoolLimit
    /\ connected = {r \in Requests : InFlight(r) /\ ~Waiting(r)}
    /\ rowLock # None => pc[rowLock] = "commit"

\* Every request is answered or fails, also when the pool is exhausted by
\* requests that wait for the lock of another.
EveryRequestEnds == \A r \in Requests : InFlight(r) ~> ~InFlight(r)

\* A token is accepted during the whole of its lifetime and never a second
\* longer, though its expiry is cut to whole seconds.
LifetimeKept ==
    \A t \in tokens : /\ clock <= t.iat + Life(t.type) => Unexpired(t)
                      /\ Unexpired(t) => clock < t.iat + Life(t.type) + Second

\* The token of r is accepted in this step.
Identified(r) == \/ ~InFlight(r) /\ pc'[r] = "connect"
                 \/ pc[r] = "decode" /\ pc'[r] = "load"

\* Nobody is served on an old login: whose token is accepted had a pair issued
\* to him by a login or a refresh no longer ago than an access token lives, and
\* less than a second more, as expiry is compared in whole seconds.
ServedOnFreshPair == [][
    \A r \in Requests : Identified(r) =>
        \E t \in tokens : t.user = user'[r] /\ clock < t.iat + AccessLife + Second]_vars

\* A deactivated user is shut out: a request that begins after is_active is
\* reset is never served and never writes, whatever tokens he still holds and
\* though /auth/refresh goes on issuing pairs to him.
ShutOut == \A r \in late : pc[r] \notin {"write", "commit", "reconnect", "refresh", "served"}

\* The inductive invariant: who is late stays inactive.
IInv == /\ TypeOK
        /\ IsFiniteSet(connected)
        /\ NoHoldAndWait
        /\ ShutOut
        /\ \A r \in late : user[r] \notin active
=============================================================================
