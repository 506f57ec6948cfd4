# Verification of TeamOps API

TLA+ models of the TeamOps API (FastAPI, SQLAlchemy async, PostgreSQL), the TLC
configurations that check them on small instances, and TLAPS proofs of the
properties that matter most for every instance. Paths are relative to the
repository's `app/` unless they start with `tests/` or name the repository's
`README.md`.

## 1. The system

Every HTTP request runs one handler in one asyncio task with one database
session (`db/session.py`). A handler is a chain of dependencies (who calls, does
the row in the path exist, has the caller the role), then one service function
that reads, assigns attributes of loaded objects and calls `commit()`. Handlers
share nothing but the database: everything that can go wrong between them goes
through rows that one handler read and another has changed since. Postgres runs
at its default isolation level, READ COMMITTED; no statement of the code takes a
lock on purpose, and the only arbiters are unique constraints.

| Component | State | Operations | Correct when |
| --- | --- | --- | --- |
| Roles (`core/rbac.py`) | none | `role_satisfies` | the order owner > admin > manager > member is total |
| Dependency chain (`api/deps.py`) | none | `get_current_user`, `require_org_role`, `require_project_role`, `require_task_role` | no handler acts for a caller without the role in the organization that owns the row |
| Approval workflow (`services/approval_service.py`) | `approvals`, `tasks.status` | `request_approval`, `approve_task`, `reject_task` | Done only with an approver on record; one pending approval a task; a decision stands |
| Tasks (`services/task_service.py`) | `tasks` | `create_task`, `update_task`, `list_tasks` | nobody patches a task to Done; a patch writes the fields it carries |
| Organizations (`services/org_service.py`) | `organizations`, `org_members` | `create_organization`, `invite_member`, `list_members` | an organization has an owner from its first commit on; one membership for a user and an organization |
| Projects (`services/project_service.py`) | `projects` | `create_project`, `list_projects` | created by managers and above; belongs to one organization for ever |
| Labels (`services/label_service.py`) | `labels`, `task_labels` | `create_label`, `list_labels`, `attach_label`, `detach_label` | names unique in an organization; a task carries labels of its own organization only; attach and detach are idempotent |
| Authentication (`services/auth_service.py`, `core/security.py`) | `users`, tokens held by clients | register, login, refresh | one user an email; an access token never serves as a refresh token; a deactivated user is refused |
| Session and pool (`db/session.py`) | pooled connections | one session a request | a session never outlives its request; nobody holds a connection or a lock while waiting for a connection |
| Lists | none | `list_tasks` and the other lists | pages skip nothing and repeat no more than what was created meanwhile |
| Migrations (`db/migrations/`) | the schema | five upgrades and downgrades | the schema is that of its version wherever a command stops; the head is what the models declare |

What is hard here: handlers that interleave between any two statements; stale
objects in a session (the unit of work compares an assigned value with the one
*loaded*, and leaves an attribute that did not change out of the UPDATE); waits
on row locks; a request that fails after its commit, so that the client does not
know; a JSON null that passes validation and fails in the database. The hazards,
each at its line, are in `PROJECT.json`.

## 2. The modules

| Module | What it is |
| --- | --- |
| `Rbac` | The role hierarchy. |
| `ApprovalRecords` | The rows of `tasks` and `approvals` and the column updates of the services; shared by the specifications below. |
| `ApprovalGate` | Abstract: what the README and the docstrings promise. Every handler is one step; Done is reachable by approve only. |
| `AuditLog` | Abstract: what is left of the promise when handlers overlap. `ApprovalGate` implements it. |
| `ApprovalWorkflow` | The code, one action per SQL statement of a request. Implements `AuditLog` always. |
| `ApprovalOverlap` | `ApprovalWorkflow` watched by two history variables, and the contract it keeps under every interleaving: each COMMIT is a step of `ApprovalGate`, except those that expose a task. |
| `LabelRows` | The rows of `labels` and `task_labels`, their unique keys, and what the routes check. |
| `LabelBoard` | Abstract: what each answer of a label operation promises. A success took effect at one moment between call and answer, any other answer had a reason at such a moment and no effect; only a lost answer leaves it open. |
| `Labels` | The label endpoints, one action per SQL statement. Implements `LabelBoard`. |
| `TenantRows` | The rows of users, organizations, memberships, projects and tasks, what each operation asks for and what it writes. |
| `Tenants` | Abstract: the same promise for registration, organizations, invitations, projects and tasks; an operation takes effect at one moment, at which the caller has the role. |
| `Tenancy` | Registration, organizations, invitations, projects and the creation of tasks, one action per SQL statement. Implements `Tenants`. |
| `Sessions` | Tokens, `is_active`, the connection pool and a row lock: what every request goes through. |
| `Pages` | A client listing tasks page by page while tasks are created. |
| `Migrations` | The chain of revisions, `alembic upgrade head` and `downgrade -1`, statement by statement. |
| `ApprovalRecordsProofs`, `ApprovalGateProofs`, `ApprovalWorkflowProofs`, `LabelsProofs`, `TenancyProofs`, `SessionsProofs`, `PagesProofs`, `MigrationsProofs` | Theorems and proofs. |
| `MCApprovalWorkflow`, `MCApprovalOverlap`, `MCLabels`, `MCTenancy`, `MCPages` | Instances for TLC. |

The modules cut the system by what interacts. A task row is written in two of
them: `Tenancy` says where a task belongs and who created it, `ApprovalWorkflow`
what becomes of its status. Each takes as given what another shows:
`ApprovalWorkflow` and `Labels` have constant roles because `Tenancy` proves that
memberships are only added (`Granted`) and that a check passed once passes ever
after; `Tenancy` lets registered users call because `Sessions` shows who is
served; `Sessions` has one row lock because `ApprovalWorkflow` proves that its
locks form no cycle.

### ApprovalWorkflow and the code

`taskStatus` and `approvals` are the committed tables. `pc`, `req`, `seen`, `row`
are the state of each request in flight: its next statement, what the client
sent, the status its session loaded, and the approval row it loaded or inserted.
`approvalLock` and `taskLock` are Postgres row locks.

| Code | Action |
| --- | --- |
| client sends `POST /projects/{id}/tasks`, `PATCH /tasks/{id}`, `.../request-approval`, `.../approve`, `.../reject` | `Begin` |
| `require_task_role` / `require_project_role`, and the guard `ensure_not_direct_done_transition` | `LoadTask`, or `Refuse` (404, 403, 400) |
| `_get_pending_approval` | `QueryForRequest`, `QueryForDecision`, or `Conflict` (409) |
| flush in `commit()`: approvals | `InsertApproval`, `UpdateApproval` |
| flush in `commit()`: tasks | `UpdateTask`, `InsertOrSkipTask`, `NotNullViolation` (500) |
| COMMIT | `CommitTask`, `CommitRequest`, `CommitDecision` |
| `refresh()` and the answer | `Refresh` |
| lost connection, cancelled or killed request | `Fail` |

Decisions of the abstraction:

- The flush writes `approvals` before `tasks`: the unit of work sorts its mappers,
  and no dependency between the two objects of these handlers reverses that.
- `WritesStatus` is the unit of work's comparison: an assignment equal to the
  value loaded writes nothing. It is what several findings below turn on.
- An uncommitted write is seen by its own transaction only, and no handler reads
  one back before `commit()`; so writes are applied to the tables at the COMMIT,
  and what is observable before is the row lock.
- A SELECT never waits and sees the last committed rows. An UPDATE waits for the
  lock of its row. Foreign keys take a share lock on the referenced row that does
  not conflict with an update of other columns, so an INSERT waits for nobody.
- With several pending approvals of a task `_get_pending_approval` has no order:
  any of them may come first.
- Roles are a constant `RoleOf`, and all tasks belong to one organization:
  memberships are only ever added, a caller without one is refused without
  effect, and a task's organization never changes. All three are shown in
  `Tenancy`.
- A note is represented by its author. `reviewed_at` is left out: it is assigned
  together with `reviewed_by`. Of a task the model keeps the status; a patch of
  other columns is the body status `"unset"`, which takes the row lock and
  writes no status.
- A crash of the process is `Fail` of every request in flight, one after the
  other: nothing but the tables survives either.

### ApprovalOverlap: what overlapping requests can rely on

`ApprovalOverlap` adds two history variables to `ApprovalWorkflow`. They guard nothing,
so every behaviour of the workflow, with any overlap on any task, is one of
`OverlapSpec`.

- `overtaken`: the requests on whose task another request has committed since they
  loaded it. Patches are left out: a patch writes the status it carries and relies
  on nothing it has read.
- `exposed`: the tasks on which an overtaken request has committed, or which were
  created as Done.

`ImplementsContract` says of every step that changes the tables that it is the COMMIT
of one request, that it changes rows of that request's task only, and that it is a
step of the documented protocol (`ApprovalGate`) or else exposes the task and is a step
of `AuditLog`. A task that was exposed once does not excuse later requests: only a
COMMIT that is itself out of date, or creates a task as Done, may leave the
protocol. `UnexposedDoneHasApprover`, `UnexposedOnePending` and
`UnexposedDecisionsStand` say what that means for the tasks: whatever happens on
other tasks, whichever patches overlap and wherever requests fail, a task that is
not exposed has an approver when Done, never two pending approvals, and keeps its
decisions. The three departures of section 5 are on exposed tasks, so this is where
the documentation can be relied on and where not.

### Labels and the code

`labels` and `taskLabels` are the committed tables; `keyLock` says whose
uncommitted insert or delete another writer of the same unique key waits for
(`(org_id, name)` of labels, `(task_id, label_id)` of task_labels).

| Code | Action |
| --- | --- |
| client sends `POST /orgs/{id}/labels`, `POST` or `DELETE /tasks/{id}/labels/{id}` | `Begin` |
| `require_org_role`, `require_task_role`, `_get_label_in_tasks_org` | `Check`, or `Refuse` (403, 404) |
| the SELECT of `attach_label` and `detach_label` | `Query`, or `QueryNothingToDo` (204) |
| flush in `commit()` | `Insert`, `Delete`, `DeleteNothing`, or `DuplicateKey` (409 of `create_label`, 500 of `attach_label`) |
| COMMIT | `CommitLabel`, `CommitPair` |
| `refresh()` and the answer | `Answer` |
| lost connection, cancelled or killed request | `Fail` |

- The several SELECTs of the checks are one action: what they read (the task's
  project, the label's organization, the caller's membership) is never changed
  by any route once it exists. Memberships only grow, and are the constant
  `MembersOf`: a caller whose membership comes too late is refused without effect.
- A DELETE that waited and finds its row gone deletes nothing, also when the pair
  was attached again meanwhile: it works on the row it waited for. The model lets
  it find the row gone as soon as it is.
- A DELETE that matches no row is a success: without a version column the unit
  of work only warns.
- Labels and tasks are never deleted by any route, so the foreign keys and their
  cascades never act.

`LabelBoard` tells its answers apart. `Apply` is the moment of the effect. A request
answered `refused` (403, 404) or `conflict` (409) had the reason for it at one moment
and no effect. The only `error` (500) is that of an attachment which found the pair
missing (`Miss`) and which another attachment has overtaken (`AttachedSince`); a
creation or a detachment never ends in one. Of a request whose answer is lost
(`failed`) the caller does not know whether it had its whole effect or none.

### Tenancy and the code

`db` holds the committed tables; `pc` and `req` the next statement and the
operation of each request.

| Code | Action |
| --- | --- |
| client sends `POST /auth/register`, `/orgs`, `/orgs/{id}/members`, `/orgs/{id}/projects`, `/projects/{id}/tasks` | `Begin` |
| `require_org_role`, `require_project_role` | `Check`, or `Refuse` (403, 404) |
| `invite_member` looks the user up by email | `Find` (404 without one) |
| the SELECT for an existing email or membership | `Query` (409 with one) |
| INSERT, in `flush()` or the flush of `commit()` | `Insert`, `InsertOwner`, or `DuplicateKey`, `UnknownAssignee` (500) |
| COMMIT | `Commit` |
| `refresh()` and the answer | `Answer` |
| lost connection, cancelled or killed request | `Fail` |

- What an operation writes (`Effects`) is applied to the tables at the COMMIT;
  before it only its unique key is seen by others, as a wait (`Waits`).
- The unique keys of new ids never collide; `Users`, `Orgs`, `Projects` and `Tasks`
  are the ids the database may still generate.
- An operation names the user to invite by the email throughout: no route changes
  the email of a user, so the row found is the row meant at the COMMIT.
- A project or organization id in a path that does not exist has no membership and
  is refused; whether with 403 or 404 is not told apart.

`Tenants` tells its answers apart like `LabelBoard`: an `error` is that of a registration
or invitation that found its key free and whose key was taken since (`TakenSince`), or
of a task whose assignee is no user, and had no effect; a `failed` request had its whole
effect or none. `Granted` names the request that adds a membership: at its COMMIT its
caller is an admin or owner of that very organization and has invited that very
user with that role, or founds the organization and becomes its owner.

### Sessions and the code

`tokens` are the tokens handed out (type, user, time of issue), `active` the users
whose `is_active` is set; `connected` says whose session holds a pooled connection,
`rowLock` who holds the row lock; `late` remembers the requests that began when
their user was inactive already.

| Code | Action |
| --- | --- |
| `/auth/login` | `BeginLogin`, `Connect`, `Login` or `Refuse` |
| `/auth/refresh` (no session) | `RefreshPair` |
| routes that decode the token first | `Begin`, `Connect`, `LoadUser` or `Refuse` |
| routes of a project or task (the row is loaded first) | `BeginOnRow`, `Connect`, `Decode`, `LoadUser` or `Refuse` |
| flush, COMMIT, `refresh()` | `Write`, `Commit`, `Connect`, `Refresh` |
| the pool's timeout | `Timeout` |
| the session closes (`get_db`) | `End` |

- A session takes a connection with the first statement of a transaction and gives
  it back at the COMMIT; `refresh()` begins another transaction and needs a
  connection again. A request can therefore time out after its COMMIT.
- On the routes of a project or task it is left open until `Decode` which of the
  user's tokens the request carries.
- `exp` is cut to whole seconds while the clock (`clock`, in ticks) is finer.
- `Deactivate` stands for an operator: no route resets `is_active`. `RefreshPair`
  does not read it, so that a deactivated user goes on getting pairs; `ShutOut`
  says that they do not serve him.

### Pages and the code

`state` and `createdAt` are the tasks, absent, inserted in an open transaction, or
committed; `created_at` is `now()`, the start of the transaction, so that tasks
need not appear in its order. `NextPage` is one call of `list_tasks`: any page that
`ORDER BY created_at DESC LIMIT OFFSET` may return, rows of equal times in any
order. `list_projects` is the same query. `NothingSkipped` and `RepeatsBounded` are
claimed as long as the times differ (`Distinct`): the code orders by `created_at`
alone, and with equal times two pages of an unchanging table may overlap and miss
a row.

### Migrations and the code

`schema` is the committed schema (tables with enum types, unique constraints and
foreign keys; indexes; types; version), `work` the schema as the running command
sees it. `Chain` lists the statements of each revision's `upgrade` and `downgrade`;
`UpgradeHead` and `Downgrade` start a command, `Step` runs a statement, `Error`,
`Crash` and `Commit` end it: `env.py` runs all of a command in one transaction.
`DropLeftover` stands for an operator who drops an enum type by hand. Columns and
rows are left out, and one command runs at a time. `Models` are the tables as
`models/` declares them.

## 3. What is checked

| Run | Instance | Shows |
| --- | --- | --- |
| `wf_overlap` | 2 requests in flight, an owner, 2 tasks, 2 approvals; create as in_progress or done; patch to in_progress, done, or of another column | `ImplementsContract`, `UnexposedDoneHasApprover`, `UnexposedOnePending`, `UnexposedDecisionsStand`, `RequestBinding` |
| `wf_concurrent` | 2 requests in flight, manager and member, 1 task, 2 approvals; create as in_progress or done; patch to in_progress, done, null, or of another column | `TypeOK`, `AuditTrail`, `RequestBinding`, `LockDiscipline`, `NoWaitCycle`, `MoveToDoneIsAnApproval`, `ImplementsAuditLog` |
| `wf_liveness` | 2 requests, 1 owner, 1 task, 1 approval | `EveryRequestAnswered` under fairness |
| `labels` | 2 requests, 2 organizations with a common member, 1 name, 1 task, 2 label ids | `TypeOK`, `NamesUnique`, `SameOrg`, `ConflictIsReal`, `ImplementsLabelBoard` |
| `tenancy` | 2 requests, 2 users, 2 emails, 2 organizations, 1 project, 1 task | `TypeOK`, `KeysUnique`, `OwnerFromTheStart`, `TenantsApart`, `ConflictIsReal`, `Granted`, `ImplementsTenants` |
| `sessions` | 3 requests, a pool of 2, 1 user | `TypeOK`, `NoHoldAndWait`, `LifetimeKept`, `ShutOut`, `ServedOnFreshPair`, and `EveryRequestEnds` under fairness |
| `pages` | 4 tasks, pages of 2, 4 times | `TypeOK`, `NothingSkipped`, `RepeatsBounded` |
| `migrations` | the five revisions; every reachable state | `SchemaMatchesVersion`, `DowngradeNeverFails`, `HeadMatchesModels`, `FailsOnlyOnLeftovers`, `AllOrNothing` |
| `doc_*` | the smallest instances that show it | four places where the code departs from its own documentation (section 5) |

Bounds. `Tasks` and `Approvals` are the ids that can still be generated; `IdLeft`
keeps a request for approval from starting when no id is left for it, and
`FreshTask` keeps creates to unused ids. Nothing else is bounded: a request that
ends may begin again as any other, so histories are unbounded in length. Two
requests in flight suffice for every race found, since each is between one
reader and one writer; two approvals let a decided row and a pending one of the
same task exist together. That a wait cycle of more than two is impossible, and
every other safety property for any number of requests, is proved. Symmetry
permutes requests, approvals and tasks; it is not used for liveness.

In `wf_overlap` nothing keeps two requests off one task: one task is exposed while
the other follows the protocol, or both are. One user is enough, since who may do
what is the matter of `wf_concurrent`; the statuses in_progress, in_review and done, which
requests and decisions assign and so may leave out of an UPDATE, all occur, and todo
would be to them one more status they always write over. Two approvals are a pending and a
decided row of one task, or a pending one of each. Every race is between one
request that loads and one that commits, and what more requests could add is
covered by the proofs, which are for any number.

In `labels` a second organization with a member of its own makes labels that
must not reach the task, and one name is enough to make creations collide. An
INSERT that waits for a DELETE of a pair attached since its query, the longest
history that matters, needs two requests and a third that has ended before.

In `tenancy` two users suffice for one to invite the other, two organizations for
one to be the wrong one, two requests for every race of a check with an insert; a
second email gives the second user a key of its own. In `sessions` two requests
fill the pool, one of them waiting for the row lock of the other, while the third
waits for a connection. A second has two ticks and an access token lives to the end
of its second, so that tokens expire in the middle of what the clock (`MaxTime`,
the bound of the model) allows; a refresh token outlives the run, and that the
cut to whole seconds is right for every lifetime is proved. In `pages` four tasks
make two full pages, or one and a task that arrives between; four times let any
order of creation and commit happen. `Migrations` has no parameters: TLC visits all
of its states. Its proof is there for the argument, which a sixth revision would
have to fit (section 4).

In every module clients (`migrations`: commands) can begin again, so nothing may
stop and every run checks deadlock.

Fairness (`FairSpec`, used by `wf_liveness`): weak fairness of each request's next
statement, since the event loop runs every ready task and Postgres every
statement; strong fairness of the two UPDATEs that wait for a lock, since
Postgres queues the waiters of a row and grants in turn. Nothing is assumed of
clients or failures. In `Sessions`, `Fairness` is weak for what the event loop and
the database do by themselves (a wait for a connection included: the pool hands out
a free connection, or times out) and strong for the row lock; requests never
time out on a lock, so that `EveryRequestEnds` rests on the holder of the lock
reaching its COMMIT without a further connection.

Every property of a passing run has a mutant in `PROJECT.json`: an operator that
changes one definition the way a bug in the code would (`X_...` before `X`),
under which TLC finds the property violated.

## 4. What is proved

For every number of requests, users, tasks and approvals, every assignment of
roles and every set of statuses clients send, from `RecordsAssumption` and
`WorkflowAssumption` (NULL is no user, id, role or request; the body statuses are
of the enum, or unset or null):

- `ApprovalGateProofs`: `GateTypeCorrect`, `GateDoneHasApprover`, `GateOnePending`,
  `GateDecisionsStand` for the protocol itself, and `GateKeepsAuditLog`: the protocol
  implements `AuditLog`, so that what holds of the code under every interleaving is a
  part of what is documented. Each invariant is inductive together with the types: an
  approved row is never touched again because a decision takes a pending row and
  a request an absent one. That is stated task by task (`StepKeepsApprover`,
  `StepKeepsOnePending`, `StepKeepsDecision`), for tables in which other tasks may be in
  any condition, so that the code can use it for the tasks that are not exposed.
- `ApprovalWorkflowProofs`: `Inductive` (`Spec => []IInv`), one lemma per kind of
  step, then `TypeCorrect`, `AuditTrailHolds`, `RequestBindingHolds`,
  `LockDisciplineHolds`, `NoDeadlock`, `OnlyApproveMovesToDone`, `RefinesAuditLog`; and
  of `OverlapSpec` `StaleReadsAreOvertaken`, `ContractHolds`, `ApproverOnRecord`,
  `OnePendingUnlessExposed`, `DecisionsStandUnlessExposed`.
- `LabelsProofs`: `LabelsInductive`, then `NoDuplicateNames`, `NoForeignLabels`,
  `ConflictsAreReal`, and `EndpointsAreAtomic` (`Spec => ImplementsLabelBoard`), from
  `LabelsAssumption` and `RequestsAssumption`, for every number of requests, users,
  organizations, names, tasks and labels.

`IInv` of `ApprovalWorkflow` is `TypeOK /\ AuditTrail /\ RequestBinding /\ LockDiscipline`. `AuditTrail`
alone is not inductive: that a decision stamps a reviewer of manager rank needs
`RequestBinding`, which carries the role check from `LoadTask` to the commit and
says that the row a decision loaded exists and belongs to its task. The clause
that two creates never share an id is needed so that a created task is still
absent at its commit. `NoDeadlock` rests on `LockDiscipline`: a holder of a task's
lock is at its commit and waits for nobody, a holder of an approval's lock is at
its task statement or its commit, so a wait leads to a later statement.
`OnlyApproveMovesToDone` follows from what a commit can store (`StoredStatus`):
Done comes from approve or create only, and a create finds its task absent.

Of `OverlapSpec` the invariant is `IInv /\ StaleOnlyIfOvertaken`, which says what a
request may rely on: unless another request has committed on its task since it
loaded it, the status it loaded is still that of the task, a request for approval
past its check still finds none pending, and a decision past its check still finds
its row pending. No statement but a COMMIT changes a table, and it changes only
rows of its own task (`CommitInOwnTask`, from `RequestBinding`), so requests on other
tasks cannot make a read stale (`OthersStillFresh`). When a request that was not
overtaken commits, the status column that the unit of work left out of its UPDATE
has the assigned value already (`FreshStore`), so its COMMIT is a step of
`ApprovalGate` (`FreshCommit`). A patch needs no fresh read: it stores the
status it carries, which the protocol allows whatever the status was, or it changes
no table. When a request that was overtaken commits, `CommitKeepsLog` says that it
keeps the audit log. `ContractHolds` has no hypothesis about what clients do or
how requests follow each other. The three theorems about unexposed tasks carry the
lemmas of `ApprovalGateProofs` through the refinement, task by task.

`IInv` of `Labels` adds `Bound` to the invariants checked: a request about to
commit holds its key, and if it creates, no label has the name; a permission
checked earlier still holds, since labels are only added. Two creators of one
name cannot both be at their commit because the key has one holder; that is what
keeps `NamesUnique` through a commit. The refinement maps a request to `called`
until its commit, an attachment that has found its pair missing to `missing`, to
`applied` from the commit to the answer; the commits and the successes with
nothing to do are the moments at which the operation takes effect. A 500 comes from
`DuplicateKey` only, which finds the pair that was missing.

- `TenancyProofs`: `TenancyInductive`, then `TenancyTypeCorrect`, `UniqueKeys`,
  `OwnersFromTheStart`, `TenantsKeptApart`, `ConflictsAreFinal`, `MembershipsAreGranted`,
  and `RequestsAreAtomic` (`Spec => ImplementsTenants`), from `TenantsAssumption` and
  `TenancyAssumption` (None is told from the values a field may have), for every
  number of requests and any sets of ids and emails.
- `SessionsProofs`: `SessionsInductive`, then `SessionsTypeCorrect`, `NoHoldAndWaitHolds`,
  `LifetimeIsKept`, `DeactivatedAreShutOut`, `FreshPairs`, from `SessionsAssumption`, for
  any number of requests and users, any pool, lifetimes and length of a second.
- `PagesProofs`: `PagesInductive`, then `PagesTypeCorrect`, `PagesSkipNothing`,
  `PagesRepeatLittle`, from `PagesAssumption`, for any set of tasks and size of a page.
- `LabelsProofs` also has `LabelsTypeCorrect`.

`IInv` of `Tenancy` adds `Bound` again: a request past its checks still has the role,
and two requests at their COMMIT have different unique keys. The proof separates
the tables from the requests. `EffectsGrow` shows that every operation only adds
rows (`Grows`), and `ChecksKept` that a role, a row in the way and a registration
survive growth: so a role checked statements ago is still there at the COMMIT, and
who was refused stays refused. `EffectsSound` shows that one permitted operation on
sound tables leaves sound tables, and `OtherKeysFree` that it does not take the key
of another request about to commit, unless they have the same one, which the waits
exclude. A commit is then a step of `Tenants` as it stands, and everything else
stutters or answers for the reason it has. That a commit adds only memberships of
its own to grant (`CommitGrants`) rests on the role still being there at the COMMIT.

`IInv` of `Sessions` needs the finiteness of `connected` to count it, and that the user
of a late request stays inactive (`is_active` is never set again). `LifetimeKept` is
a lemma about the two divisions by a second, for which no step of the system
matters; `FreshPairs` follows from it, since a token is accepted only if it was
handed out with a pair at its time of issue.

`IInv` of `Pages` adds that what was delivered is committed and that no page has more
rows than the offset moves by. A task that has as many newer ones as the offset is
not among the rows passed over, and after a page that does not deliver it has
`Limit` more; commits only add newer ones. For the repeats, the rows passed over
and the page are disjoint, and a row of the page delivered before must have been
pushed behind the offset by a task committed since the listing began.

- `MigrationsProofs`: `MigrationsInductive`, then `CommittedSchema`, `CommandsAreAtomic`,
  `DowngradesSucceed`, `OnlyLeftoversFail`, `HeadIsModels`, for any number of commands,
  failures and crashes. There are no constants and no assumptions.

`IInv` of `Migrations` rests on one order of creation of all the tables and indexes, in
which the up statements of the chain come (`Creation`). Whatever a transaction sees is
the first n objects of that order; the rest of an upgrade creates the objects from
n + 1 to the end of its version (`Creating`) and the rest of a downgrade drops them
from n down (`Undoing`). That a statement can run then needs three facts about the
chain only: names differ (`PositionFacts`), a foreign key or an index refers to an
earlier table (`RefFacts`), a type belongs to one table (`TypeFacts`). The last object
can be dropped because no earlier one refers to it. The next can be created unless a
type of it exists without its table, which an upgrade that started without such
types never brings about (`NoNewLeftovers`): hence `OnlyLeftoversFail`. A new revision
keeps the proof if it extends the order, and if its downgrade undoes its upgrade
backwards.

Only model-checked: liveness (`EveryRequestAnswered`, `EveryRequestEnds`), since fairness
and ENABLED are out of the prover's reach. Every other property of a passing run is
stated by a theorem.

## 5. Where the code departs from its documentation

| Run | Property | What happens |
| --- | --- | --- |
| `doc_created_done` | `DoneHasApprover` | `TaskCreate.status` may be done: one POST by a member (the only user of the instance) makes a Done task without approval. |
| `doc_done_rejected` | `DoneHasApprover` | A task with a pending approval is patched to in_progress; approve and reject both load it; approve commits; reject overwrites the approval with rejected and, its in_progress being no change, leaves the task Done. |
| `doc_two_pending` | `OnePending` | Two requests for approval both find none pending. |
| `doc_upgrade_again` | `UpgradeReachesHead` | `downgrade -1` drops the table `approvals` and leaves its enum type; `upgrade head` creates the type again and fails, until somebody drops it by hand. The revisions of projects and tasks do the same. |

More effects of overlapping requests show in the same models. Two decisions
that load the same pending row both answer 200, and the later overwrites the
earlier, a note of the earlier included (by `UnexposedDecisionsStand` its COMMIT then
exposes the task, and `AuditLog` states what is left). A task loaded as in_review and
patched away meanwhile is not moved back by a request for approval. In `Labels` two
overlapping attachments of one pair end in a 500 for the second (`DuplicateKey`),
against the docstring at `services/label_service.py:32` ("attaching an
already-attached label is a no-op, not an error"): that sentence holds of the pair
a request finds attached, not of one attached between its SELECT and its INSERT.
`LabelBoard` names this 500 (`AttachedSince`), and `ImplementsLabelBoard` says that no
other happens and that it has no effect, so that repeating the call is safe. Two
invitations and two registrations in `Tenancy` also end in a 500, where the later
call would have been a 409.

The common cause of the races is a check and a write without a row lock or a
condition on the UPDATE. A `SELECT ... FOR UPDATE` of the task row in the dependency
chain would let no request be overtaken, and a check of the status in `create_task`
would let no task be created as Done: then no task would ever be exposed, and by
`ContractHolds` the code would implement the documented protocol.

## 6. Plan

Every invariant, action property and refinement that a passing run checks is proved;
liveness is checked. What is left is to follow the code: when `create_task` checks its
status or the dependency chain locks the task row, `exposed` stays empty and the three
`doc_` runs of the workflow pass; when a revision is added, `Migrations` and its order
of creation grow by its statements.

## 7. Not modelled

- `core/config.py`: constants, of which `Sessions` takes the lifetimes as CONSTANTS (the
  size of the pool, another, is the default of SQLAlchemy's engine).
- `main.py`, `api/v1/router.py`, `api/v1/users.py` and the schemas of answers: wiring
  and reads that change nothing.
- Validation of lengths and formats by pydantic; password hashing and signatures,
  which are taken to work.
- The offline mode of `env.py`, which prints SQL, and two alembic commands at the
  same time: nothing in the repository guards against it.
- `updated_at`, and the columns that no rule reads: the last writer wins.
