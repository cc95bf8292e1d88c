# A TLA+ verification of the KiCad MCP Pro Gateway

The Gateway is a local daemon between a remote relay and `kicad-mcp-pro`, the
MCP server that drives KiCad. It decides, with the local user, which remote
requests run. This directory holds TLA+ models of its stateful parts, the TLC
configurations that check them on small instances, and TLAPS proofs of their
main safety properties for every value of the constants. `PROJECT.json` lists
components, runs, mutants, the map from definitions to source lines, findings,
hazards and theorems.

Parse with `tlasany M.tla`, check with `tlc -config run.cfg MCModule`, prove
with `tlapm XProofs.tla`.

## The system

| Part | State | Operations that change it | Module |
| --- | --- | --- | --- |
| Operation gate (`remote_processor.rs`, audit repository) | audit rows, pending queue | operation request, approve, deny, clean-up of a revocation | `OperationGate`, `OperationLife` |
| Access grants (`handlers.rs`, sessions crate) | `sessions` and grant tables | session request, decide, startup migration | `AccessGrants`, `GrantMachine`, `GrantLifecycle` |
| Lifetimes and leases (core, sessions, policy crates) | lifetime policy, grant and lease tables | load, request, decide, expire, issue, consume, save | `Leases`, `GrantMachine` |
| Actor proof replay store (storage, identity crates) | challenge and proof tables, clock mark | issue, verify and consume, reserve, schema seed | `ActorReplay`, `OneTimeStore` |
| Checkpoint store (checkpoints crate) | workspace, snapshots, rows | create, restore, delete, startup check | `CheckpointStore` |
| Runtime (daemon `lib.rs`, `state.rs`, `ipc_server.rs`) | socket, published transport, reported state, connections, shutdown signal | connect, serve, back off, accept, shut down | `TransportLifecycle` |
| Desktop supervisor, command line, instance lock | daemon processes, stop marker, desktop's view | ensure ready, watch, start, stop, restart, request | `DaemonSupervisor` |
| Device identity (identity crate) | key store, device table | pair, sign | `DeviceIdentity`, composed in `TrustPlane` |
| Owner policy authority (identity crate) | committed manifest, active policy | open, activate, verify an actor | `OwnerPolicy`, composed in `TrustPlane` |
| Policy engine, tool registry, upstream manifest, workspace boundary | none: build-time data | start-up check, evaluation, reconciliation | `PolicyEngine`, `ToolContracts` |
| Core bridge, workspaces, storage, local protocol, cloud pairing, configuration | session, tables | call, add, remove, migrate | partly, where used |
| Desktop screens (`usePolling`) | last answer | poll | not modelled |

The remote processor handles one envelope at a time; each IPC connection is a
task of its own; every repository call takes the one SQLite mutex for itself.
So a handler that loads, decides and saves interleaves with others between its
calls. The hard behaviours are those interleavings, failing storage calls,
process death between two writes, envelopes delivered twice, clocks that move
back, and a shutdown that arrives anywhere.

## The models

**OperationGate.** One step is one repository call and what follows it, or what
runs between two awaits. `resolve_grant` makes two calls in one step: the step
falls at the one that decides, the session read when the grant read fails. `Rp*` actions follow `handle_operation_request`, `Approve*`, `Deny*`
and `Revoke*` the three local decisions, one task per client. The policy's
answer is a function of the standing of the authority and of the risk; the call
to KiCad is one step that raises `calls`. `StorageFaults` lets any repository
call fail, `Crashes` lets the daemon stop or die and start again. What the
decisions of `AccessGrants` do to the gate is its `AuthorityChanges`: grant and
session row change at any step, each on its own, and with `Overwrites` a
decision that loaded either before a revocation saves over it. `OperationLife`
is the abstract specification: one stage per operation id, `After` for where it
may go without a call, and the call. `Stage` reads the stage off the audit row,
the call count and the user's denial.

**AccessGrants.** A subject has at most two grants: its own, and the copy whose
id is derived from its session row. `Decide*` splits `decide_session` at its
repository calls. An earlier build may have left a row for a subject (`Legacy`):
its status, whether `approved_at` is recorded, and whether it names a workspace
and a positive lifetime. `FromSession` derives, refuses or keeps terminal what
`grant_from_legacy_session` does, `approved` holds the subjects with an approval
recorded there or given here. `GrantMachine` holds the transition tables; `GrantLifecycle`
is the abstract specification: grants are created once and then change only by
one legal transition at a time.

**ActorReplay.** Every statement of the IMMEDIATE transaction is a step, may
fail and may be cut by a crash. `db` is what is committed, `tx` what the open
transaction sees. Signatures and JSON are abstracted: a claim is an assertion
that verifies. `Collide` compares the ids of two claims of an issuer; the code's
challenge and correlation hashes also fold in device and epoch, and the latter
the subject, so that a correlation id may recur there under another subject.
Nothing in the daemon issues challenges or verifies actor assertions yet.
`OneTimeStore` is the abstract specification: no callers, locks or statements,
every request one atomic change of the committed tables or none, and an identity
returned only for evidence consumed since the process started.

**CheckpointStore.** A directory walk is one step per file, in any order, with
edits, I/O errors and crashes between them. `place` says where the checkpoint
root lies relative to the workspace, `relative` which rows were written before
paths were made absolute. The startup check refuses such rows, so the daemon
does not run while there are any. Nothing in the daemon calls `create`, `restore`
or `delete` yet; the store is modelled as its trait offers it.

**TransportLifecycle.** The two loops of `run_runtime` and the watch channel of
`ShutdownSignal`, down to subscribe, look and wait. Back-off delays are computed
in milliseconds as the code computes them, with the jitter a parameter.

**DaemonSupervisor.** A slot is a process that may sit on the local endpoint: a
packaged daemon, a stale one of an older release, or another program. The
desktop (one actor, since `start_lock` serialises its calls) and the command
line step through `ensure_ready_locked`, `daemon_start`, `daemon_stop` and
`daemon_restart` at their awaits. They share the endpoint, the lock file and the
stop marker, nothing else. A stale daemon of another installation, or another
program, may arrive at any time. `wait_for_stopped` takes any error of a connect
for the end of the daemon, so a connect may also fail while the daemon listens.
`MaxFaults` bounds crashes, kills, failed spawns, marker I/O errors, failing
connects, deadlines that pass while the peer lives, and those arrivals.

**DeviceIdentity, OwnerPolicy, TrustPlane.** Pairing loads, creates, stores the
key and inserts the row in separate steps, any of which may fail or be the last.
Two concurrent pairings can each insert a row; the first row answers for good.
The owner's store is modelled from its trait: it compares and commits
atomically, and may report an error for a commit that took effect. `Publish` is
one step from the second read to the publication, which rests on that contract.
`TrustPlane` puts both in one process, where an actor is verified for the
device's identity: it passes the loaded device as the expected one, which no
code of the daemon does yet.

**ToolContracts, PolicyEngine.** Pure operators translated from the policy
crate, and a small state machine that picks an embedded registry, a snapshot,
a request or a manifest. Paths are sequences of components over a given set of
directories and links; a link may stay inside the workspace, leave it or lead to
a place that does not exist. The properties compare the engine with definitions
written independently of its order of evaluation: which calls may be allowed,
which paths a contract reaches, what risk applies. Where a path leads is
`Arrival`, the walk of the operating system, which follows a link before it
takes a `..`. `resolve_within` removes `..` from the text first. The two agree
on `Straight` paths, where `..` follows no link and no link leads nowhere. Of
the others `Confined` says only what the code makes of them, and
`EveryPathInside` (below) is the stronger claim.

**Leases.** A caller holds the two records that `issue_lease` or `consume_lease`
returned and saves them in either order; an error or the end of the process may
come before each save. Time is in minutes. Capability names are gathered in
three groups, and a subject stands for device and principal together.
No handler of the daemon issues or consumes leases yet, and its requests are always for
standing grants: the caller is modelled as one at a time, with an operation
going ahead once both records are saved. Two callers with stale copies are the
hazard `access_lost_update` shows for grants, and are not claimed safe here.

Operators marked *Variant* are deliberately wrong forms of the definition that
follows them. They are used only to confirm that a property can fail.

## Runs that pass

Counts are distinct states, up to the exchange of operations, sessions and
clients in `gate_safety` and of callers in `replay`; the properties of these two
runs do not tell them apart and none is a liveness property.

| Run | Instance | States | Shows |
| --- | --- | --- | --- |
| `gate_safety` | 2 operations, 1 session, 2 clients, faults, crashes | 804 667 | the gate implements `OperationLife`; nothing executes unaudited, twice, after a denial, or on authority revoked before its evaluation; rows only progress |
| `gate_settles` | 2 operations, 1 client, no faults, revocations overwritten | 403 056 | allowed and denied operations get an outcome |
| `access_grants` | 2 subjects, at most one with a legacy row of each kind the adapter tells apart, 1 decider, 2 starts, faults | 4 662 677 | no authority without approval; ended and inconsistent legacy rows give none; the tables implement `GrantLifecycle`; acknowledged withdrawals hold; requests do not stack |
| `replay` | 2 callers, 3 challenges, 4 claims, old rows, room for 2 rows | 1 363 900 | the transactions implement `OneTimeStore`; identities at most once; evidence kept; expiry final |
| `checkpoint_safety` | 2 files, 2 checkpoints, root at the top level or nested, rows with relative paths | 4 519 961 | the store's checkpoints stay intact; restores are exact |
| `transport` | 1 connection, extreme jitters, 7 attempts | 59 498 | no lost wake-up; slot, view and handlers are as they should be; waits grow; shutdown completes; the relay is served again |
| `supervisor` | 3 slots, 1 command at a time, 1 fault, any first process | 786 873 | requests reach only the packaged daemon; a stale one is retired before its successor opens the data directory; calls return; the watchdog recovers |
| `policy_decision` | every dependency graph over 3 path arguments, pairs of rules, links in, out and to nowhere, `..` | 454 558 | decisions are exact; what serves is reviewed; an exact match agrees |
| `trust_plane` | 2 requests, 2 identities, 6 manifests of 3 generations, 8 assertions | 42 672 | one whole, stable identity; actors accepted only under the committed manifest |
| `leases` | 2 grants, 2 leases, 2 operations, valid and invalid sections | 1 339 368 | lifetimes under the ceilings; leases within grants; one operation per lease and per one-shot grant |

**Bounds.** Two clients or callers are the least that race, and two operations,
challenges, checkpoints or leases the least that can be confused. `access_grants`
has one decider because two lose updates (`access_lost_update`); its safety for
any number of deciders is proved. Two subjects with legacy rows each would
exceed the time; a decision touches the rows of one subject, and the proofs take
any rows. `gate_safety` lets no late save overwrite a
revocation, which alone would grow it to over four million states; `gate_settles`
does, and the proofs cover both. `replay` has three challenges and room for two
rows: a limit that the callers cannot ask to pass would show nothing. A
checkpoint root outside the workspace behaves in the model as one at its top
level. Attempts are capped at 7 because the delay is constant from there. Three
slots hold a process that is closing, its successor and one that arrives. One
fault per history keeps `supervisor` small; its safety is proved for any number.
`MaxTime` and `Instants` let the clock pass a deadline; `MaxStarts` gives a
restart after a migration.

**Deadlock** is checked except in the access runs, where the bound on starts
ends behaviours, in `transport`, where the runtime returns, and in
`policy_decision` and `leases`, where questions, ids and time run out.

**Fairness.** `gate_settles` assumes that started handlers keep running: Tokio
polls ready tasks and `call_tool` has a timeout. `transport` assumes weak
fairness for steps whose await ends or times out, and strong fairness for the
branches of `select!`, which are polled in random order, and for the failure of
writes on a dead socket, which is the kernel's. It also assumes that closing a
socket returns; the code sets no timeout there. A peer that keeps the connection
open and never answers is not detected by the code, and `Reconnects` does not
claim it is. `supervisor` assumes weak fairness for a process that is starting
or ending and for the watchdog's next round, and strong fairness for the clients:
their polls repeat until a deadline, so what is there again and again is seen.
Users, crashes and other programs owe no step.

## Where code and documentation disagree

Each row sets one sentence of the repository's docs or comments, stated as the
named definition, against the code, and TLC finds it violated. Two are kept as
runs. The others are reproduced by naming the definition in a configuration of
the module's MC module with the instance given; deciders, clients, operations,
subjects and checkpoints not mentioned are one each.

| Definition | Run, or instance | What the code does |
| --- | --- | --- |
| `RecoveryReportsAll` | run `gate_recovery_report` | an approved, interrupted operation is missing from the startup report |
| `RevokedIsIrreversible` | run `access_lost_update` | a concurrent decision overwrites a revocation |
| `NeverWalksIntoRoot` | root nested, 1 file | a nested checkpoint root is removed by a restore |
| `RevokedIsNotServed` | `StorageFaults = TRUE`, `Crashes = FALSE` | an unreadable grant lets a session row that is not yet mirrored decide |
| `ApprovedIsExecuted` | no faults, no crashes | an approval with no transport returns Ok and runs nothing |
| `RefusalIsTruthful` | no faults, no crashes | a replayed id that ran is answered "operation was not executed" |
| `RevokedQueueIsEmpty` | no faults, no crashes | a request can be queued after the revocation's clean-up |
| `NoApprovalAfterExpiry` | `Ttl = 1`, `MaxTime = 1`, 1 start | approval does not look at the deadline |
| `ExpiredDoesNotBlock` | `Ttl = 1`, `MaxTime = 1`, 1 start | a grant past its deadline still answers a new request |
| `NoForkedGrant` | 2 starts | the migration copies grants of the current build |
| `RevocationSurvivesRestart` | 2 starts | a crash between grant and mirror lets the next start derive a live copy |
| `StartupVouches` | root outside the workspace | an interrupted deletion passes the startup check |
| `StopIsNotRaced` | `Spec`, 3 slots, `CliGoals = {"stop"}`, first build packaged, no faults | a stop does not see a daemon that is launched and has not bound the endpoint: it returns, and the daemon comes up (`.github/ISSUE_TEMPLATE/release-qa.md:115`) |
| `ActiveIsApproved` | the instance of `access_grants` | a row left suspended without `approved_at` is migrated as suspended, and a resumption makes it active (`core/authorization.rs:218`) |
| `StaleIsGoneFirst` | the instance of `supervisor` | any failing connect counts as the end of the stale daemon, so its successor may be launched while it still listens; the lock keeps them apart (`docs/protocol/README.md`) |
| `EveryPathInside` | the instance of `policy_decision` | `..` after a link is removed from the text, and a link that leads nowhere is taken for a name: such a path is judged where the text leads (`docs/security/tool-effect-contracts.md:61`) |

One more is plain from the code: the comment on `issued_lease_id`
(`core/authorization.rs`) says "`None` for standing grants and for one-shot
grants that have not issued anything yet", and `issue_lease` sets it for
standing grants too. `MayIssueAnotherLease` and `MayConsume` follow the code.

The passing properties are stated next to these: `RevocationCutsOff` counts a
revocation from its mirror when reads may fail, `RevocationSticks` speaks of
acknowledged withdrawals and one client, `RowsAreRestorable` excludes a nested
root, rows with relative paths and checkpoints whose deletion was asked for.
`ApprovalPrecedesAuthority` lets a row that was left suspended without an
approval be resumed, `StaleIsRetiredFirst` asks that the stale daemon has taken
its shutdown, `DecisionIsExact` uses `Confined`. `WaitsGrow` speaks of failures
to connect: a connection that is made and dropped resets the counter.

## Proofs

Each `*Proofs` module proves `Spec => []Inv` from an inductive invariant that
TLC checks too, one step per action.

- **OperationGateProofs.** `GateInvariant`: an operation is in one place (queue,
  processor or one client) and its row tells which. Neither "at most once" nor
  "audited" is inductive without it, since both UPDATEs are unconditional.
  `LivesHold` is the refinement of `OperationLife`: each action moves at most one
  operation, along an edge of `After` or by its one call, because its owner's
  step fixes its row. `AtMostOnce` states the call count on its own.
- **AccessGrantsProofs.** `AccessInvariant` covers what a decision carries from
  its load to its saves, and what a legacy row may stand for, for any number of
  clients and any rows: an approval is recorded where the row is active, and what
  is active without one was resumed from a row left suspended. The rest assumes `OneClient`,
  and `access_lost_update` shows it is needed: `LoadHolds` (a decision saves over
  the row it loaded), `ImplementsLifecycle`, `RevokedStays`, `RequestsNeverStack`
  and `RevocationHolds`. `RequestInv` says that a request whose grant is still to
  be saved is the only one of its contents. `WithdrawalInv` says that a withdrawn
  subject is judged by a grant that is not active, that no active session row is
  left for the next migration to copy, and that no decision past its checks is
  about to undo either.
- **ActorReplayProofs.** `ReplayInvariant`: what the open transaction may differ
  in, and what its holder has established at each statement. While it is open,
  its clock mark is the request's time, which gives `ExpiredStaysExpired`.
  `ImplementsOneTimeStore` is the refinement of `OneTimeStore`. It needs more:
  `ExactTransaction` says that the open transaction differs from the committed
  tables by exactly what its statements wrote, and that what they found (the
  clock, the room, the unspent challenge, no collision) is true of the committed
  tables. A commit is then one abstract step, a return another, a crash loses
  what was owed, and every other statement is a stutter.
- **TransportLifecycleProofs.** `TransportInvariant`: what each phase implies
  for slot, socket and view, which wait the attempt counter stands for, and that
  the signal is not missed. The back-off bounds hold for every jitter below 1000.
- **DaemonSupervisorProofs.** `SupervisorInductive`: an open connection leads to
  the process it was made to, one that passed the handshake to a packaged
  daemon; at most one process listens and at most one holds the data directory;
  a stale daemon that a client met is the one that takes its shutdown request,
  and what took one never serves again. For any slots, commands and faults.
- **DurableStateProofs** holds the proofs of two modules. `CheckpointInvariant`:
  what a walk of the checkpoint store has done to the files it has passed and
  nobody edits. `TrustInductive`: what a pairing or signing request holds at each
  step, no row without its key, and the active policy is the committed one.
- **LeasesProofs.** `LeasesInductive`: besides the two statements, what a call
  holds agrees with what is stored, whichever save came first, and what went
  ahead is stored as spent. "At most one" is not inductive without that: a
  one-shot grant may have two stored leases after a lost save, and only the one
  it remembers can be spent.

- **PolicyEngineProofs.** The state machine is simple: `PolicyInductive` says that
  what serves was loaded and that an outcome is the evaluation of what was asked.
  The work is in the operators, for every registry and request, and every file
  system whose links lead to canonical places.

  *Loops.* What a loop computes needs induction over data, which the library
  offers only with an operator parameter the provers cannot instantiate. So it is
  done by hand on sets: `LeastNatural` (from `WFMin`) gives `UpTo`, induction for
  a set of naturals, and from it `Recursion` (the recursive equation of `InOrder`
  has a solution) and `WalkSettles` (what solves it is the value `InOrder`
  returns). `ChainInduction` and `ChainRecursion` do the same along the base
  arguments of a contract. `DependenciesOk` has the set `Looping` empty (the
  arguments that lie in a set each member of which has its base in the set), which
  is the induction; the recursion is the union of its partial solutions
  (`PartsAgree`, `PartGrows`, `PartsExist`).

  *Paths.* `CandidateIsCanonical`: splitting a path at its longest existing
  prefix and canonicalizing that gives what following every link gives, unless a
  link leads nowhere. `StraightArrives`: on a straight path, removing `.` and `..`
  from the text first changes nothing. So `ResolvesIsConfined`: the boundary
  check accepts a straight path exactly when it arrives inside the workspace.

  *Contracts.* `Landing` and `ErrorsAreShapes`: resolving each argument from its
  base, with its early returns, names the places the unordered definition
  `Locations` names, and fails exactly when some argument is malformed.
  `DependenciesHold`: a loaded contract never fails on its dependencies.

  *Risk.* `AssessmentFacts`: the loop over the rules stops exactly at an error,
  and otherwise reaches the maximum of what the applicable rules raise to.

  `DecisionExact` puts them together. `ServingReviewed` and `ExactMatchHolds`
  need only part of them.

**Assumptions** on constants are the named `ASSUME`s of the modules, which TLC
evaluates. Those of the policy modules: the root is canonical and links lead to
places on whose path no link is left, existing or not (`FileSystemAssumption`);
registry files have the shape the parser gives them
(`RegistryAssumption`); a request has a value, possibly "absent", for every
argument name a registry uses (`QuestionAssumption`).

**Only model-checked:** the liveness properties (`Settles`, `ShutdownCompletes`,
`Reconnects`, `Recovers`, `CallsReturn`), which are beyond the prover. Every
safety property of a passing run is proved. Some theorems state a conjunct of an
inductive invariant that a run checks as a whole: `ExecutedAtMostOnce`
(`AtMostOnce`), `BothOrNeither` (`ConsumptionIsAtomic`), `TablesAreBounded`
(`TablesStayBounded`). `CommittedOnlyAdvances` (`CommittedAdvances`) is proved and
in no run. The inductive invariants
`PolicyInductive`, `RequestInv`, `RowInv`, `HeldInv`, `ReopenInv` and
`WithdrawalInv` were checked with TLC on the instances of `policy_decision` and
`access_grants` before they were proved and are in no configuration.

## Not modelled

- The desktop screens. `usePolling` keeps the last answer of overlapping polls,
  possibly an older one, until the next poll replaces it.
- The protocol lanes of the core bridge and the session id of its legacy lane; a
  call is one step that returns or times out.
- The rows of the workspace table, and the schema migration runner, which
  finishes before anything else opens the database.
- Framing, serialisation, signatures, canonical JSON and the HTTPS exchange of
  cloud pairing: encoding or cryptography, abstracted to who signed what.
- Configuration other than the lifetime section; it is read once.
- `delete_device_key` and `ReconnectingTransport`, which production code does not
  call, `MockTransport` and the live comparison in `tool_reconciliation.rs`,
  which only reports.
- `evaluate` on legacy session rows, an adapter that derives a grant (as
  `AccessGrants` models it) and calls the evaluation modelled here.
- Gate, grants and transport are not composed into one module: the gate takes
  authority and transport as inputs. The authority may change at any step to any
  standing a decision can save, a revocation lost to a concurrent decision
  (`access_lost_update`) included. `RevocationCutsOff` speaks of the moments at
  which a revocation stands.
