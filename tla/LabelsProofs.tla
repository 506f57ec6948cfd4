---------------------------- MODULE LabelsProofs ----------------------------
(***************************************************************************)
(* The invariants of Labels, and that its endpoints are atomic, for every  *)
(* number of requests, users, organizations, names, tasks and labels.      *)
(***************************************************************************)
EXTENDS Labels, TLAPS

-----------------------------------------------------------------------------
(* What a step leaves to the other requests.                               *)

\* Labels are created and never change or go.
LabelsGrow == \A l \in LabelIds : labels[l] # None => labels'[l] = labels[l]

(***************************************************************************)
(* What an operation is about, by its kind.                                *)
(***************************************************************************)
LEMMA OperationKeys ==
    ASSUME NEW op \in Operations
    PROVE  /\ op.kind \in {"create", "attach", "detach"} /\ op.user \in Users
           /\ op.key \in Keys
           /\ op.kind = "create" => op.key \in NameKeys
           /\ op.kind # "create" => /\ op.key \in PairKeys
                                    /\ op.key[1] \in Tasks /\ op.key[2] \in LabelIds
  BY DEF Operations, Keys, NameKeys, PairKeys

(***************************************************************************)
(* What was permitted stays permitted while labels are only created.       *)
(***************************************************************************)
LEMMA PermissionLasts ==
    ASSUME NEW op \in Operations, Permitted(labels, op), LabelsGrow
    PROVE  Permitted(labels', op)
  BY OperationKeys DEF Permitted, LabelsGrow, OrgAsked

(***************************************************************************)
(* A request that a step leaves alone keeps what it is bound to, if the    *)
(* step frees no key of it and creates no label with its name.             *)
(***************************************************************************)
LEMMA StillBound ==
    ASSUME NEW q, Bound(q), pc'[q] = pc[q], req'[q] = req[q], LabelsGrow,
           pc[q] = "commit" =>
               /\ keyLock'[req[q].key] = q
               /\ req[q].kind = "create" => ~HasLabel(labels', req[q].key)
    PROVE  Bound(q)'
  <1>1. pc[q] # "idle" => req[q] \in Operations
    BY DEF Bound
  <1>2. pc[q] \in Statements \ {"check", "answer"} => Permitted(labels', req[q])
    BY <1>1, PermissionLasts DEF Bound, Statements
  <1> QED
    BY <1>1, <1>2 DEF Bound, HasLabel

(***************************************************************************)
(* The same for all requests but r, of a step of r that leaves the labels  *)
(* alone and frees or takes keys of its own.                               *)
(***************************************************************************)
LEMMA OthersStillBound ==
    ASSUME IInv, NEW r \in Requests, labels' = labels,
           NEW next, GoTo(r, next), \A q \in Requests \ {r} : req'[q] = req[q],
           \A k \in Keys : keyLock[k] \in Requests \ {r} => keyLock'[k] = keyLock[k]
    PROVE  \A q \in Requests \ {r} : Bound(q)'
  <1> SUFFICES ASSUME NEW q \in Requests \ {r}
               PROVE  Bound(q)'
    OBVIOUS
  <1>1. Bound(q) /\ pc'[q] = pc[q] /\ LabelsGrow
    BY DEF IInv, TypeOK, GoTo, LabelsGrow
  <1>2. pc[q] = "commit" => req[q].key \in Keys /\ keyLock'[req[q].key] = q
    BY <1>1, OperationKeys DEF Bound, Statements
  <1> QED
    BY <1>1, <1>2, StillBound DEF Bound

(***************************************************************************)
(* A step of r that leaves the tables alone and its new state bound        *)
(* preserves the invariant.                                                *)
(***************************************************************************)
LEMMA TablesAlone ==
    ASSUME IInv, NEW r \in Requests, UNCHANGED tables,
           NEW next \in Statements \cup Answers, GoTo(r, next),
           req' \in [Requests -> Operations \cup {None}],
           \A q \in Requests \ {r} : req'[q] = req[q],
           keyLock' \in [Keys -> Requests \cup {None}],
           \A k \in Keys : keyLock[k] \in Requests \ {r} => keyLock'[k] = keyLock[k],
           Bound(r)',
           next = "conflict" => HasLabel(labels, req'[r].key)
    PROVE  IInv'
  <1>1. labels' = labels /\ taskLabels' = taskLabels
    BY DEF tables
  <1>2. TypeOK'
    BY <1>1 DEF IInv, TypeOK, GoTo
  <1>3. NamesUnique' /\ SameOrg'
    BY <1>1 DEF IInv, NamesUnique, SameOrg
  <1>4. ConflictIsReal'
    BY <1>1 DEF IInv, TypeOK, ConflictIsReal, GoTo, HasLabel
  <1>5. \A q \in Requests : Bound(q)'
    BY <1>1, OthersStillBound
  <1> QED
    BY <1>2, <1>3, <1>4, <1>5 DEF IInv

(***************************************************************************)
(* The end of a request without a commit preserves the invariant.          *)
(***************************************************************************)
LEMMA EndKeeps ==
    ASSUME IInv, NEW r \in Requests, NEW answer \in Answers, End(r, answer),
           pc[r] # "idle",
           answer = "conflict" => req[r].kind = "create" /\ HasLabel(labels, req[r].key)
    PROVE  IInv'
  <1>1. UNCHANGED tables /\ GoTo(r, answer) /\ req' = req
    BY DEF End
  <1>2. /\ keyLock' \in [Keys -> Requests \cup {None}]
        /\ \A k \in Keys : keyLock[k] \in Requests \ {r} => keyLock'[k] = keyLock[k]
    BY DEF End, FreeKeys, IInv, TypeOK
  <1>3. Bound(r)'
    BY <1>1 DEF Bound, GoTo, IInv, TypeOK, Answers, Statements
  <1> QED
    BY <1>1, <1>2, <1>3, TablesAlone DEF IInv, TypeOK

(***************************************************************************)
(* An INSERT or DELETE that takes a free key preserves the invariant.      *)
(***************************************************************************)
LEMMA TakeKeyKeeps ==
    ASSUME IInv, NEW r \in Requests, pc[r] \in {"insert", "delete"},
           keyLock[req[r].key] = None, TakeKey(r),
           req[r].kind = "create" => ~HasLabel(labels, req[r].key)
    PROVE  IInv'
  <1>1. req[r] \in Operations /\ req[r].key \in Keys /\ Permitted(labels, req[r])
    BY OperationKeys DEF IInv, Bound, Statements
  <1>2. UNCHANGED tables /\ GoTo(r, "commit") /\ req' = req /\ labels' = labels
    BY DEF TakeKey, tables
  <1>3. /\ keyLock' \in [Keys -> Requests \cup {None}]
        /\ keyLock'[req[r].key] = r
        /\ \A k \in Keys : keyLock[k] \in Requests \ {r} => keyLock'[k] = keyLock[k]
    BY <1>1, RequestsAssumption DEF TakeKey, IInv, TypeOK
  <1>4. Bound(r)'
    BY <1>1, <1>2, <1>3 DEF Bound, GoTo, IInv, TypeOK, Statements, HasLabel
  <1>5. "commit" \in Statements /\ "commit" # "conflict"
    BY DEF Statements
  <1> QED
    BY <1>2, <1>3, <1>4, <1>5, TablesAlone DEF IInv, TypeOK

-----------------------------------------------------------------------------
(* The steps, one by one.                                                  *)

(***************************************************************************)
(* The commit of a new label: its name was free and its key taken, so that *)
(* no other request is about to commit the same name.                      *)
(***************************************************************************)
LEMMA CommitLabelKeeps ==
    ASSUME IInv, NEW r \in Requests, CommitLabel(r)
    PROVE  IInv'
  <1>1. /\ pc[r] = "commit" /\ req[r].kind = "create" /\ req[r] \in Operations
        /\ ~HasLabel(labels, req[r].key) /\ keyLock[req[r].key] = r
        /\ req[r].key \in NameKeys /\ req[r].key \in Keys
    BY OperationKeys DEF CommitLabel, IInv, Bound, Statements
  <1>2. PICK l \in LabelIds : labels[l] = None /\ labels' = [labels EXCEPT ![l] = req[r].key]
    BY DEF CommitLabel
  <1>3. /\ labels' \in LabelTable /\ LabelsGrow
        /\ \A m \in LabelIds \ {l} : labels'[m] = labels[m] /\ labels[m] # req[r].key
        /\ labels'[l] = req[r].key
    BY <1>1, <1>2 DEF IInv, TypeOK, LabelTable, LabelsGrow, HasLabel
  <1>4. req' = req /\ taskLabels' = taskLabels /\ GoTo(r, "answer")
    BY DEF CommitLabel
  <1>5. /\ keyLock' \in [Keys -> Requests \cup {None}]
        /\ \A k \in Keys : keyLock[k] \in Requests \ {r} => keyLock'[k] = keyLock[k]
    BY DEF CommitLabel, FreeKeys, IInv, TypeOK
  <1>6. TypeOK'
    BY <1>3, <1>4, <1>5 DEF IInv, TypeOK, GoTo, Statements
  <1>7. NamesUnique'
    BY <1>3 DEF IInv, NamesUnique
  <1>8. SameOrg'
    <2> SUFFICES ASSUME NEW p \in taskLabels
                 PROVE  labels'[p[2]] # None /\ labels'[p[2]][1] = OrgOf[p[1]]
      BY <1>4 DEF SameOrg
    <2>1. p[2] \in LabelIds
      BY DEF IInv, TypeOK, PairKeys
    <2> QED
      BY <1>3, <2>1 DEF IInv, SameOrg, LabelsGrow
  <1>9. ConflictIsReal'
    <2> SUFFICES ASSUME NEW q \in Requests, pc'[q] = "conflict"
                 PROVE  HasLabel(labels', req[q].key)
      BY <1>4 DEF ConflictIsReal, HasLabel
    <2>1. pc[q] = "conflict" /\ req[q].key \in NameKeys
      BY <1>4, OperationKeys DEF GoTo, IInv, TypeOK, Bound
    <2>2. PICK m \in LabelIds : labels[m] = req[q].key
      BY <2>1 DEF IInv, ConflictIsReal, HasLabel
    <2>3. labels[m] # None
      BY <2>1, <2>2, LabelsAssumption DEF NameKeys
    <2> QED
      BY <1>3, <2>2, <2>3 DEF HasLabel, LabelsGrow
  <1>10. Bound(r)'
    BY <1>1, <1>4 DEF GoTo, IInv, TypeOK, Bound, Statements
  <1>11. ASSUME NEW q \in Requests \ {r}
         PROVE  Bound(q)'
    <2>1. Bound(q) /\ pc'[q] = pc[q] /\ req'[q] = req[q]
      BY <1>4 DEF IInv, TypeOK, GoTo
    <2>2. ASSUME pc[q] = "commit"
          PROVE  /\ keyLock'[req[q].key] = q
                 /\ req[q].kind = "create" => ~HasLabel(labels', req[q].key)
      <3>1. keyLock[req[q].key] = q /\ req[q].key \in Keys
        BY <2>1, <2>2, OperationKeys DEF Bound, Statements
      <3>2. req[q].key # req[r].key
        BY <1>1, <3>1
      <3> QED
        BY <1>3, <1>5, <2>1, <2>2, <3>1, <3>2 DEF Bound, HasLabel
    <2> QED
      BY <1>3, <2>1, <2>2, StillBound
  <1> QED
    BY <1>6, <1>7, <1>8, <1>9, <1>10, <1>11 DEF IInv

(***************************************************************************)
(* The commit of a pair: the label checked before is still there.          *)
(***************************************************************************)
LEMMA CommitPairKeeps ==
    ASSUME IInv, NEW r \in Requests, CommitPair(r)
    PROVE  IInv'
  <1>1. /\ pc[r] = "commit" /\ req[r].kind # "create" /\ req[r] \in Operations
        /\ Permitted(labels, req[r])
    BY DEF CommitPair, IInv, Bound, Statements
  <1>2. req[r].key \in PairKeys /\ req[r].key[1] \in Tasks /\ req[r].key[2] \in LabelIds
    BY <1>1, OperationKeys
  <1>3. \/ req[r].kind = "attach" /\ taskLabels' = taskLabels \cup {req[r].key}
        \/ taskLabels' = taskLabels \ {req[r].key}
    BY DEF CommitPair
  <1>4. req' = req /\ labels' = labels /\ GoTo(r, "answer")
    BY DEF CommitPair
  <1>5. /\ keyLock' \in [Keys -> Requests \cup {None}]
        /\ \A k \in Keys : keyLock[k] \in Requests \ {r} => keyLock'[k] = keyLock[k]
    BY DEF CommitPair, FreeKeys, IInv, TypeOK
  <1>6. TypeOK'
    BY <1>2, <1>3, <1>4, <1>5 DEF IInv, TypeOK, GoTo, Statements
  <1>7. NamesUnique'
    BY <1>4 DEF IInv, NamesUnique
  <1>8. SameOrg'
    BY <1>1, <1>3, <1>4 DEF IInv, SameOrg, Permitted
  <1>9. ConflictIsReal'
    BY <1>4 DEF IInv, TypeOK, ConflictIsReal, GoTo, HasLabel
  <1>10. Bound(r)'
    BY <1>1, <1>4 DEF GoTo, IInv, TypeOK, Bound, Statements
  <1>11. \A q \in Requests \ {r} : Bound(q)'
    BY <1>4, <1>5, OthersStillBound
  <1> QED
    BY <1>6, <1>7, <1>8, <1>9, <1>10, <1>11 DEF IInv

(***************************************************************************)
(* A new request, and the statements that only read.                       *)
(***************************************************************************)
LEMMA ReadsKeep ==
    ASSUME IInv, NEW r \in Requests, Begin(r) \/ Check(r) \/ Query(r)
    PROVE  IInv'
  <1>1. /\ UNCHANGED tables /\ labels' = labels /\ keyLock' = keyLock
        /\ keyLock' \in [Keys -> Requests \cup {None}]
    BY DEF Begin, Check, Query, tables, IInv, TypeOK
  <1>2. CASE Begin(r)
    <2>1. PICK op \in Operations : req' = [req EXCEPT ![r] = op]
      BY <1>2 DEF Begin
    <2>2. /\ req' \in [Requests -> Operations \cup {None}] /\ req'[r] = op
          /\ \A q \in Requests \ {r} : req'[q] = req[q]
      BY <2>1 DEF IInv, TypeOK
    <2>3. GoTo(r, "check") /\ "check" \in Statements /\ "check" # "conflict"
      BY <1>2 DEF Begin, Statements
    <2>4. Bound(r)'
      BY <2>2, <2>3 DEF Bound, GoTo, IInv, TypeOK
    <2> QED
      BY <1>1, <2>2, <2>3, <2>4, TablesAlone
  <1>3. CASE Check(r)
    <2> DEFINE next == IF req[r].kind = "create" THEN "insert" ELSE "query"
    <2>1. GoTo(r, next) /\ req' = req /\ Permitted(labels, req[r]) /\ pc[r] = "check"
      BY <1>3 DEF Check
    <2>2. next \in Statements /\ next # "conflict"
      BY DEF Statements
    <2>3. req[r] \in Operations
      BY <2>1 DEF IInv, Bound, Statements
    <2>4. Bound(r)'
      BY <1>1, <2>1, <2>3, OperationKeys DEF Bound, GoTo, IInv, TypeOK, Statements, Permitted
    <2> HIDE DEF next
    <2> QED
      BY <1>1, <2>1, <2>2, <2>4, TablesAlone DEF IInv, TypeOK
  <1>4. CASE Query(r)
    <2> DEFINE next == IF req[r].kind = "attach" THEN "insert" ELSE "delete"
    <2>1. GoTo(r, next) /\ req' = req /\ pc[r] = "query"
      BY <1>4 DEF Query
    <2>2. next \in Statements /\ next # "conflict"
      BY DEF Statements
    <2>3. /\ req[r] \in Operations /\ req[r].kind \in {"attach", "detach"}
          /\ Permitted(labels, req[r])
      BY <2>1 DEF IInv, Bound, Statements
    <2>4. Bound(r)'
      BY <1>1, <2>1, <2>3 DEF Bound, GoTo, IInv, TypeOK, Statements, Permitted
    <2> HIDE DEF next
    <2> QED
      BY <1>1, <2>1, <2>2, <2>4, TablesAlone DEF IInv, TypeOK
  <1> QED
    BY <1>2, <1>3, <1>4

(***************************************************************************)
(* However the endpoints overlap or fail, a request is bound to what it    *)
(* has checked, and the unique keys decide who writes.                     *)
(***************************************************************************)
THEOREM LabelsInductive == Spec => []IInv
  <1>1. Init => IInv
    BY LabelsAssumption DEF Init, IInv, TypeOK, LabelTable, Answers, NamesUnique, SameOrg,
                            ConflictIsReal, Bound, Statements
  <1>2. IInv /\ [Next]_vars => IInv'
    <2> SUFFICES ASSUME IInv, [Next]_vars
                 PROVE  IInv'
      OBVIOUS
    <2>1. CASE UNCHANGED vars
      BY <2>1 DEF vars, IInv, TypeOK, NamesUnique, SameOrg, ConflictIsReal, Bound, HasLabel, Permitted
    <2>2. ASSUME NEW r \in Requests, Begin(r) \/ Check(r) \/ Query(r)
          PROVE  IInv'
      BY <2>2, ReadsKeep
    <2>3. ASSUME NEW r \in Requests, Insert(r) \/ Delete(r)
          PROVE  IInv'
      <3>1. req[r].kind = "create" => ~HasLabel(labels, req[r].key)
        BY <2>3 DEF Insert, Delete, Taken, IInv, Bound
      <3> QED
        BY <2>3, <3>1, TakeKeyKeeps DEF Insert, Delete
    <2>4. ASSUME NEW r \in Requests, CommitLabel(r) \/ CommitPair(r)
          PROVE  IInv'
      BY <2>4, CommitLabelKeeps, CommitPairKeeps
    <2>5. ASSUME NEW r \in Requests,
                 \/ Refuse(r) \/ QueryNothingToDo(r) \/ DuplicateKey(r) \/ DeleteNothing(r)
                 \/ Answer(r) \/ Fail(r)
          PROVE  IInv'
      <3>1. PICK answer \in Answers \ {"conflict"} :
                 \/ End(r, answer) /\ pc[r] # "idle"
                 \/ DuplicateKey(r) /\ req[r].kind = "create"
        BY <2>5 DEF Refuse, QueryNothingToDo, DuplicateKey, DeleteNothing, Answer, Fail,
                    InFlight, Statements, Answers
      <3>2. CASE DuplicateKey(r) /\ req[r].kind = "create"
        BY <3>2, EndKeeps DEF DuplicateKey, Taken, Answers
      <3> QED
        BY <3>1, <3>2, EndKeeps
    <2> QED
      BY <2>1, <2>2, <2>3, <2>4, <2>5 DEF Next, Handle
  <1> QED
    BY <1>1, <1>2, PTL DEF Spec

(***************************************************************************)
(* The tables and the requests in flight keep their types.                 *)
(***************************************************************************)
THEOREM LabelsTypeCorrect == Spec => []TypeOK
  <1>1. IInv => TypeOK
    BY DEF IInv
  <1> QED
    BY <1>1, LabelsInductive, PTL

(***************************************************************************)
(* No organization ever has two labels of one name.                        *)
(***************************************************************************)
THEOREM NoDuplicateNames == Spec => []NamesUnique
  <1>1. IInv => NamesUnique
    BY DEF IInv
  <1> QED
    BY <1>1, LabelsInductive, PTL

(***************************************************************************)
(* No task ever carries a label of another organization.                   *)
(***************************************************************************)
THEOREM NoForeignLabels == Spec => []SameOrg
  <1>1. IInv => SameOrg
    BY DEF IInv
  <1> QED
    BY <1>1, LabelsInductive, PTL

(***************************************************************************)
(* A creation refused with a 409 has lost to a label that is there.        *)
(***************************************************************************)
THEOREM ConflictsAreReal == Spec => []ConflictIsReal
  <1>1. IInv => ConflictIsReal
    BY DEF IInv
  <1> QED
    BY <1>1, LabelsInductive, PTL

-----------------------------------------------------------------------------
(* The endpoints are atomic to their callers.                              *)

(***************************************************************************)
(* The abstract specification speaks of the same rows and operations.      *)
(***************************************************************************)
LEMMA SameRows ==
    /\ Board!Operations = Operations
    /\ \A key : Board!HasLabel(labels, key) <=> HasLabel(labels, key)
    /\ \A op : Board!Permitted(labels, op) <=> Permitted(labels, op)
  BY DEF Board!Operations, Operations, Board!NameKeys, NameKeys, Board!PairKeys, PairKeys,
         Board!HasLabel, HasLabel, Board!Permitted, Permitted, Board!OrgAsked, OrgAsked

\* The phases of the requests, as their callers see them.
Phase == [q \in Requests |-> PhaseOf(pc[q], req[q])]

(***************************************************************************)
(* The phases that the steps of the model go through.                      *)
(***************************************************************************)
LEMMA PhasesOfSteps ==
    ASSUME NEW op
    PROVE  /\ \A p \in Answers : PhaseOf(p, op) = p
           /\ PhaseOf("answer", op) = "applied"
           /\ \A p \in Statements \ {"answer"} :
                PhaseOf(p, op) = IF p \in {"insert", "commit"} /\ op.kind = "attach"
                                 THEN "missing" ELSE "called"
  BY DEF PhaseOf, Statements, Answers

(***************************************************************************)
(* A step of a request changes its own phase only.                         *)
(***************************************************************************)
LEMMA PhaseStep ==
    ASSUME IInv, NEW r \in Requests, NEW next, GoTo(r, next),
           \A q \in Requests \ {r} : req'[q] = req[q],
           NEW from, PhaseOf(pc[r], req[r]) \in from
    PROVE  Board!Moves(r, from, PhaseOf(next, req'[r]))
  <1>1. Phase' = [Phase EXCEPT ![r] = PhaseOf(next, req'[r])]
    BY DEF IInv, TypeOK, GoTo, Phase
  <1>2. Phase[r] \in from
    BY DEF Phase
  <1> QED
    BY <1>1, <1>2 DEF Board!Moves, Phase

(***************************************************************************)
(* A statement before the commit shows nothing to the caller, unless it    *)
(* tells an attachment that the pair is missing.                           *)
(***************************************************************************)
LEMMA SilentStep ==
    ASSUME IInv, NEW r \in Requests, NEW next, GoTo(r, next), UNCHANGED <<tables, req>>,
           PhaseOf(next, req[r]) = PhaseOf(pc[r], req[r])
    PROVE  UNCHANGED <<labels, taskLabels, Phase, req>>
  <1>1. Phase' = [Phase EXCEPT ![r] = PhaseOf(next, req[r])]
    BY DEF IInv, TypeOK, GoTo, Phase
  <1> QED
    BY <1>1 DEF Phase, tables

(***************************************************************************)
(* The end of a request is an answer that leaves the tables alone.         *)
(***************************************************************************)
LEMMA EndAnswers ==
    ASSUME IInv, NEW r \in Requests, NEW answer \in Answers, End(r, answer),
           NEW from, PhaseOf(pc[r], req[r]) \in from
    PROVE  Board!Becomes(r, from, answer)
  <1>1. GoTo(r, answer) /\ labels' = labels /\ taskLabels' = taskLabels /\ req' = req
    BY DEF End, tables
  <1>2. Board!Moves(r, from, PhaseOf(answer, req'[r]))
    BY <1>1, PhaseStep
  <1>3. PhaseOf(answer, req'[r]) = answer
    BY PhasesOfSteps
  <1> QED
    BY <1>1, <1>2, <1>3 DEF Board!Becomes

(***************************************************************************)
(* A commit, and a success with nothing to do, is where an operation takes *)
(* effect.                                                                 *)
(***************************************************************************)
LEMMA TakesEffect ==
    ASSUME IInv, NEW r \in Requests, pc[r] \in {"query", "delete", "commit"},
           NEW next \in {"answer", "ok"}, GoTo(r, next), req' = req,
           Board!Create(req[r]) \/ Board!Attach(req[r]) \/ Board!Detach(req[r])
    PROVE  Board!Apply(r)
  <1>1. PhaseOf(next, req'[r]) \in {"applied", "ok"}
    BY PhasesOfSteps DEF Answers
  <1>2. PhaseOf(pc[r], req[r]) \in {"called", "missing"}
    BY PhasesOfSteps DEF Statements
  <1>3. Board!Moves(r, {"called", "missing"}, PhaseOf(next, req'[r]))
    BY <1>2, PhaseStep
  <1>4. Permitted(labels, req[r])
    BY DEF IInv, Bound, Statements
  <1> QED
    BY <1>1, <1>3, <1>4, SameRows DEF Board!Apply

(***************************************************************************)
(* An answer with success means that the operation took effect, once and   *)
(* entirely, during the request; a refusal, a conflict or an error means   *)
(* that it had none, and that there was the reason it stands for.          *)
(***************************************************************************)
THEOREM EndpointsAreAtomic == Spec => ImplementsLabelBoard
  <1>1. Init => Board!Init
    BY PhasesOfSteps DEF Init, Board!Init, Answers
  <1>2. IInv /\ [Next]_vars => [Board!Next]_(Board!boardVars)
    <2> SUFFICES ASSUME IInv, [Next]_vars
                 PROVE  Board!Next \/ UNCHANGED <<labels, taskLabels, Phase, req>>
      BY DEF Board!boardVars, Phase
    <2>1. CASE UNCHANGED vars
      BY <2>1 DEF vars, Phase
    <2>2. ASSUME NEW r \in Requests, Begin(r)
          PROVE  Board!Call(r)
      <3>1. /\ GoTo(r, "check") /\ labels' = labels /\ taskLabels' = taskLabels
            /\ \A q \in Requests \ {r} : req'[q] = req[q]
        BY <2>2 DEF Begin, tables, IInv, TypeOK
      <3>2. PhaseOf(pc[r], req[r]) \in Answers
        BY <2>2, PhasesOfSteps DEF Begin, InFlight, IInv, TypeOK
      <3>3. PhaseOf("check", req'[r]) = "called"
        BY PhasesOfSteps DEF Statements
      <3>4. Board!Moves(r, Answers, "called")
        BY <3>1, <3>2, <3>3, PhaseStep
      <3>5. \E op \in Board!Operations : req' = [req EXCEPT ![r] = op]
        BY <2>2, SameRows DEF Begin
      <3> QED
        BY <3>1, <3>4, <3>5 DEF Board!Call, Board!Answers, Answers
    <2>3. ASSUME NEW r \in Requests,
                 Check(r) \/ Insert(r) \/ Delete(r) \/ (Query(r) /\ req[r].kind # "attach")
          PROVE  UNCHANGED <<labels, taskLabels, Phase, req>>
      <3>1. CASE Check(r)
        <4>1. /\ GoTo(r, IF req[r].kind = "create" THEN "insert" ELSE "query")
              /\ pc[r] = "check" /\ UNCHANGED <<tables, req>>
          BY <3>1 DEF Check
        <4>2. /\ PhaseOf(pc[r], req[r]) = "called"
              /\ PhaseOf(IF req[r].kind = "create" THEN "insert" ELSE "query", req[r]) = "called"
          BY <4>1, PhasesOfSteps DEF Statements
        <4> QED
          BY <4>1, <4>2, SilentStep
      <3>2. CASE Insert(r) \/ Delete(r)
        <4>1. /\ GoTo(r, "commit") /\ UNCHANGED <<tables, req>>
              /\ pc[r] = "insert" \/ (pc[r] = "delete" /\ req[r].kind = "detach")
          BY <3>2 DEF Insert, Delete, TakeKey, IInv, Bound
        <4>2. PhaseOf("commit", req[r]) = PhaseOf(pc[r], req[r])
          BY <4>1, PhasesOfSteps DEF Statements
        <4> QED
          BY <4>1, <4>2, SilentStep
      <3>3. CASE Query(r) /\ req[r].kind # "attach"
        <4>1. GoTo(r, "delete") /\ pc[r] = "query" /\ UNCHANGED <<tables, req>>
          BY <3>3 DEF Query
        <4>2. PhaseOf("delete", req[r]) = PhaseOf(pc[r], req[r])
          BY <4>1, PhasesOfSteps DEF Statements
        <4> QED
          BY <4>1, <4>2, SilentStep
      <3> QED
        BY <2>3, <3>1, <3>2, <3>3
    <2>4. ASSUME NEW r \in Requests, Query(r), req[r].kind = "attach"
          PROVE  Board!Miss(r)
      <3>1. /\ GoTo(r, "insert") /\ pc[r] = "query" /\ req[r].key \notin taskLabels
            /\ labels' = labels /\ taskLabels' = taskLabels /\ req' = req
        BY <2>4 DEF Query, tables
      <3>2. PhaseOf(pc[r], req[r]) \in {"called"} /\ PhaseOf("insert", req'[r]) = "missing"
        BY <2>4, <3>1, PhasesOfSteps DEF Statements
      <3>3. Board!Moves(r, {"called"}, "missing")
        BY <3>1, <3>2, PhaseStep
      <3> QED
        BY <2>4, <3>1, <3>3 DEF Board!Miss, Board!Becomes
    <2>5. ASSUME NEW r \in Requests, QueryNothingToDo(r) \/ DeleteNothing(r)
          PROVE  Board!Apply(r)
      <3>1. /\ GoTo(r, "ok") /\ req' = req /\ labels' = labels /\ taskLabels' = taskLabels
            /\ pc[r] \in {"query", "delete"}
            /\ \/ req[r].kind = "attach" /\ req[r].key \in taskLabels
               \/ req[r].kind = "detach" /\ req[r].key \notin taskLabels
        BY <2>5 DEF QueryNothingToDo, DeleteNothing, End, tables, IInv, Bound
      <3>2. Board!Attach(req[r]) \/ Board!Detach(req[r])
        BY <3>1 DEF Board!Attach, Board!Detach
      <3> QED
        BY <3>1, <3>2, TakesEffect
    <2>6. ASSUME NEW r \in Requests, CommitLabel(r)
          PROVE  Board!Apply(r)
      <3>1. ~HasLabel(labels, req[r].key)
        BY <2>6 DEF CommitLabel, IInv, Bound
      <3>2. Board!Create(req[r])
        BY <2>6, <3>1, SameRows DEF CommitLabel, Board!Create
      <3> QED
        BY <2>6, <3>2, TakesEffect DEF CommitLabel
    <2>7. ASSUME NEW r \in Requests, CommitPair(r)
          PROVE  Board!Apply(r)
      <3>1. Board!Attach(req[r]) \/ Board!Detach(req[r])
        BY <2>7 DEF CommitPair, Board!Attach, Board!Detach
      <3> QED
        BY <2>7, <3>1, TakesEffect DEF CommitPair
    <2>8. ASSUME NEW r \in Requests, Refuse(r)
          PROVE  Board!Refuse(r)
      <3>1. /\ End(r, "refused") /\ PhaseOf(pc[r], req[r]) \in {"called"}
            /\ ~Permitted(labels, req[r])
        BY <2>8, PhasesOfSteps DEF Refuse, Statements
      <3>2. Board!Becomes(r, {"called"}, "refused")
        BY <3>1, EndAnswers DEF Answers
      <3> QED
        BY <3>1, <3>2, SameRows DEF Board!Refuse
    <2>9. ASSUME NEW r \in Requests, DuplicateKey(r), req[r].kind = "create"
          PROVE  Board!Conflict(r)
      <3>1. /\ End(r, "conflict") /\ PhaseOf(pc[r], req[r]) \in {"called"}
            /\ HasLabel(labels, req[r].key)
        BY <2>9, PhasesOfSteps DEF DuplicateKey, Taken, Statements
      <3>2. Board!Becomes(r, {"called"}, "conflict")
        BY <3>1, EndAnswers DEF Answers
      <3> QED
        BY <2>9, <3>1, <3>2, SameRows DEF Board!Conflict
    <2>10. ASSUME NEW r \in Requests, DuplicateKey(r), req[r].kind # "create"
           PROVE  Board!AttachedSince(r)
      <3>1. req[r].kind = "attach"
        BY <2>10 DEF DuplicateKey, IInv, Bound
      <3>2. /\ End(r, "error") /\ PhaseOf(pc[r], req[r]) \in {"missing"}
            /\ req[r].key \in taskLabels
        BY <2>10, <3>1, PhasesOfSteps DEF DuplicateKey, Taken, Statements
      <3>3. Board!Becomes(r, {"missing"}, "error")
        BY <3>2, EndAnswers DEF Answers
      <3> QED
        BY <3>2, <3>3 DEF Board!AttachedSince
    <2>11. ASSUME NEW r \in Requests, Answer(r)
           PROVE  Board!Answer(r)
      <3>1. End(r, "ok") /\ PhaseOf(pc[r], req[r]) \in {"applied"}
        BY <2>11, PhasesOfSteps DEF Answer
      <3> QED
        BY <3>1, EndAnswers DEF Board!Answer, Answers
    <2>12. ASSUME NEW r \in Requests, Fail(r)
           PROVE  Board!Fail(r)
      <3>1. End(r, "failed") /\ PhaseOf(pc[r], req[r]) \in {"called", "missing", "applied"}
        BY <2>12, PhasesOfSteps DEF Fail, InFlight
      <3> QED
        BY <3>1, EndAnswers DEF Board!Fail, Answers
    <2> QED
      BY <2>1, <2>2, <2>3, <2>4, <2>5, <2>6, <2>7, <2>8, <2>9, <2>10, <2>11, <2>12
      DEF Next, Handle, Board!Next
  <1> QED
    BY <1>1, <1>2, LabelsInductive, PTL DEF Spec, ImplementsLabelBoard, Board!Spec
=============================================================================
