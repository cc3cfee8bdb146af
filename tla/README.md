# factory-controller: a TLA+ verification project

This directory keeps TLA+ models of the Factory Controller (`src/factory_controller`)
and of the AWE worker (`src/awe_worker`), the TLC configurations that check
them, and proofs about them. It is written for somebody who has the repository.

    tlc -workers 2 -config MissionCore.cfg MCMission      # a run of PROJECT.json
    tlapm ControllerProofs.tla                            # and every other *Proofs.tla

## 1. The system

A single host runs a SQLite ledger and any number of short-lived processes that
open it: `work-once`, `serve`, `supervisor cycle`, `work-intake cycle`, the
operator's CLI. Nothing is shared but the database file; every verb of the
ledger is one `BEGIN IMMEDIATE` transaction, so the interesting interleavings
are those of transactions and of the adapter calls that lie between them.

| Component | State it keeps | Operations | Talks to |
|---|---|---|---|
| Mission ledger (`store.py`) | missions, attempts, steps, runs (routing legs), dependencies, context bindings, reconciliation proofs, projects, portfolio policy, capacity observations, events | submit, claim, transition, renew, retry, defer, cancel, recover_stale, begin_step, complete_step, record_run, add_dependency, record_reconciliation, resume_pre_provider, registry setters | called by every plane |
| Controller (`engine.py`, `routing.py`, `adapter.py`) | none of its own: one `work_once` at a time, local reads between transactions | context, dispatch (select, reconcile, recover), verify, evaluate, evidence | ledger; one subprocess per step |
| Scheduling decision (`portfolio.py`, `capacity.py`) | pure | evaluate, dependency_reading, cycle_path, fit into quota windows | asked by `claim` inside its transaction |
| Supervisor (`supervisor.py`) | control state and its transitions, cycles, health and suppression of projects, checkpoints | transition, cycle, recover, brief | ledger, maintenance and improvement planes, Controller |
| Continuity and attention (`continuity.py`, `attention.py`, `activation.py`) | work batons, attention events | consume, notify | read by people and by runtimes that start |
| Work intake, management (`work_source.py`, `work_intake.py`, `management.py`, `advisor.py`) | packets and claims, management cycles, proposals | observe, claim, admit, cycle | Controller.submit, work_once by mission id |
| Production boundary (`production.py`, `release.py`, `google_production.py`) | bundles, approvals, deployments, operations, incidents, releases | seal, approve, deploy, observe, contain, reconcile on restart | deployment port |
| Maintenance, improvement (`maintenance.py`, `improvement.py`) | triggers, lineages, experiments, baselines, decisions | admit, measure, decide | production ledger, Controller.submit |
| Shift authority (`shift.py`, `shift_runtime.py`, `dogfood.py`) | grants with their suspension and revocation, the slots of the portfolio | preflight, apply, revoke, suspend, drain, resume, next mission | supervisor, ledger |
| Owner lifecycle (`factory.py`) | the loaded service, packages, release candidates, returns for changes | start, stop, run, cycle, brief, product, revise, review | shift authority, drain, service loader, release path |
| AWE worker (`awe_worker/`) | claims with leases, frozen heads, certifications, liveness and runtime rows; outside it the physical folder, the dashboard row and the dispatch pointer of every task | run_cycle, claim, complete, block, gate, service start / stop / restart | Notion, harness processes, git |
| Edges (`cli.py`, `product.py`, `pcp.py`, `owner_app.py`, `dogfood_intake.py`, `context.py`, `gateway.py`, `stage1_adapter.py`, ...) | documents and reports | parsing, materializing, printing | the verbs above |

What is hard in it, and what makes each part correct, is the list of hazards in
`PROJECT.json`, each at its line. In short:

- *leases*: a worker that lost its lease comes back from a ten-minute adapter
  call; whatever it writes must not count;
- *the side-effect boundary*: after a crash nobody knows whether a provider
  process runs. The durable facts are a STARTED row, the routing legs and what
  each leg proved. From these alone the next attempt chooses between selecting
  afresh, asking again under the recorded route, recovering, and refusing;
- *ordering*: edges declared before, after or between the events that release
  or cancel them; cancellation racing with every stage;
- *progress*: retries, deferrals, recoveries and escalations together must
  neither lose a mission nor try it for ever;
- *read, then write*: most verbs of the maintenance, improvement, shift and
  intake planes read in one transaction and write in a later one, which asks
  little or nothing again;
- *overlapping invocations*: cycles hold leases of half a minute that nobody
  renews, so two of them are at work more often than the tests would have it;
- *two records of one fact*: the supervisor's control state and the portfolio
  stop, the AWE ledger and the physical exchange, the deployment ledger and the
  record of the release.

## 2. The modules

| Module | Models |
|---|---|
| `MissionStore` | the ledger: rows as functions from missions, one operator per verb |
| `Controller` | `work_once` of any number of workers over `MissionStore`, the adapter, crashes, the passing of time, the operator |
| `ControllerProperties` | what both owe each other: every property of these two modules |
| `MCMission` | values for TLC |
| `ControllerProofs` | the proofs |
| `AweLedger` | the claim ledger of the AWE worker and the certification gate |
| `AweWorker` | `run_cycle` of any number of workers over `AweLedger` and the exchange, the agents, certifiers, Owner and integration authority around them |
| `AweProperties` | what ledger, exchange and workers owe each other |
| `MCAwe` | values for TLC |
| `AweProofs` | the proofs |
| `Production` | the deployment ledger and the processes that run `deploy` and `rollback` |
| `ProductionProperties`, `MCProduction` | what the ledger promises, values for TLC |
| `Release` | the release sequences over `Production`: seal, review, validation, promotion, probe |
| `ReleaseProperties`, `MCRelease` | what the release path promises, values for TLC |
| `ProductionProofs` | the proofs of both |
| `CycleLedger` | abstract: what a table of cycles promises |
| `Maintenance` | the maintenance plane over the tables it reads |
| `Supervisor` | the supervisor's cycles over `Maintenance`, the control state, the portfolio stop |
| `SupervisorProperties`, `MCSupervisor`, `SupervisorProofs` | what supervisor and maintenance promise, `CycleLedger` refined, the proofs |
| `WorkIntake` | packets, items and the work intake cycle |
| `Management` | the management cycle over the items of `WorkIntake` |
| `ManagementProperties`, `MCManagement`, `ManagementProofs` | what the two cycles promise over one table, `CycleLedger` refined twice, the proofs |
| `Improvement`, `ImprovementProperties`, `MCImprovement`, `ImprovementProofs` | policies, objectives, experiments of several generations |
| `Shift` | grants and the serial portfolio |
| `Factory` | start, stop, run, the shift commands and the service's cycle over `Shift`, with the drain |
| `FactoryProperties`, `MCFactory`, `FactoryProofs` | what a shift bounds, the proofs |
| `Revision`, `RevisionProperties`, `MCRevision`, `RevisionProofs` | one application from its brief to its review and back by revisions |

### MissionStore and Controller

`MissionStore` declares the rows. A verb the operator or the poll calls
(`submit`, `cancel`, `recover_stale`, `add_dependency`, `record_reconciliation`,
`resume_pre_provider`) is a whole action. A verb called under a lease is a
fragment (`GrantLease`, `TransitionRows`, `RetryRows`, `DeferRows`, `BeginRows`,
`CompleteRows`, `RecordRows`) that `Controller` joins with a step of a worker's
program counter: one transaction, one action. `job[w]` holds what `work_once`
keeps in local variables: the mission and token, the state read at the claim,
the stage, the answer it heard, the profiles it has attempted. Between reading
the rows (`Recover`, `Reconcile`, `Select`) and writing the STARTED row (`Send`)
another process may act, and between `Send` and `AnswerDispatch` the provider
runs: that is where the model crashes workers, expires leases and lets rivals in.

`processes[m]` is a history variable: how many provider processes the execution
layer was made to start for the mission. No guard reads it but `Truthful`, which
says what the layer's receipts prove: a `process_started` of false is true, and
a candidate exists only if a process ran.

Abstractions, each of them a reading of the code:

- a lease token (uuid4) is the number of leases the mission was ever granted;
- the code defers a mission for capacity as often as it is asked to. `Exhausted` and
  `CapacityGate` have no bound either; a worker that is about to defer once more than
  `MaxDeferrals` stops there (`PastBound`), which a property can name;
- the wall clock is the flag `expired`; a renewal lowers it;
- the legs of a mission are kept as what the code asks of them: is there a free
  leg (`process_started` 0), a kept one (1 or NULL), and who served the last
  kept one;
- the outcome of a step is one of eight answers (`DispatchAnswers` for a
  dispatch), the classes `work_once` distinguishes;
- which candidate the policy prefers is left open, as are budget, capacity and
  ceiling: any of them may refuse whenever the code consults it;
- every mission declares a context request, as real missions do;
- the verdict on a receipt is a function of the recorded answer.

### AweLedger and AweWorker

The exchange is in three places outside the ledger: the folder a task page is in
(`folder`, the truth), its dashboard row (`board`, `current`, `needsOwner`,
`note`) and the pointer of its slot on the Dispatch page of its harness
(`pointer`). `claim_task`, `complete_task`, `block_task` and `route_rework` are
the same sequence of writes towards four goals, so they share the actions
`Move`, `Project`, `Erase` and `Append`, each one call that may fail with or
without effect; `AfterWrites` says where `run_cycle` goes from there. Ledger
verbs are one transaction each and one action each. `job[w]` holds the locals of
`run_cycle`: the task as it was observed, the token, the head it read, the goal.

Abstractions:

- a claim token (uuid4) is the number of tokens the task was ever issued;
- time is the flag `live` of a lease, lowered by `Expire`. `run_cycle` takes the
  time once, when it begins, and passes it to `claim`; `late` is the set of
  leases that ran out since, which that claim still counts;
- a commit is its position on the task's branch. `detect_state` reads the head
  once per cycle and everything after it in the cycle is about that head, so the
  frozen head (always equal to it) is left out;
- `stalled` records that a lease of 120 seconds ran out during a cycle on its
  task. Two properties hold only as long as it did not; section 3 says
  which;
- agents commit only on tasks in progress; certifiers record verdicts on heads
  that exist; the integration authority makes a task executable in a slot whose
  page names none;
- a worker identity is one process. Two processes started with one identity
  would share a token (`claim` resumes by identity), which the hazard about
  `service.py` is about;
- `heartbeat` is not an action: nothing but the tests calls it.

### Production and Release

`dep[d]` is a row of `deployments`, `env[e]` one of `environments`; every verb of
`ProductionLedger` is one transaction and one action. `deploy` and `rollback`
are several: `ClaimDeploy` (or `StartRollback` and `ClaimRollback`, which the code
commits apart), the adapter call outside any transaction, and `SettleCall`, which
may find the row elsewhere. `op[c]` is where a process is in them, and it may die
between any two. What an environment serves is outside the ledger (`served`);
`calls` and `restored` are histories that no guard reads.

`Release` extends `Production` with the tables of `release.py`. `deploy_review` and
`promote_validated` are sequences of those transactions, one action each, from
`BeginReview` or `BeginPromotion` to `Report`, with `flow[c]` for their local
variables; the transactions of the ledger are the actions of `Production`
themselves, taken by the process whose sequence is at them. `record[r][e]` is the
deployment a review is bound to and whether it is `firm`: one that was recorded as failed
or uncertain is replaced by the next attempt, which keeps the requester of the first.

Abstractions:

- a deployment id is its place in the order of admission (the event log keeps
  it, and `rollback` reads it there); the state `admitted`, which the table names
  and no code writes, is left out;
- a bundle, its artifact and its commit are one value;
- `environment.state` is the flag `open`; the three scopes of an emergency stop
  are "one environment" and "all";
- the adapter answers reached, missed, unknown or raises: after the last two the
  environment may serve the bundle or not. A rollback puts back the target the row
  names at the time of the call, if that has a platform version and other bytes;
- `seen` is the last health observation of a row: `proven` by a probe that compared
  the entry document, `unproven` when an operator typed counts. A probe is proven
  exactly if the environment serves the sealed bundle when it looks.

### CycleLedger, Supervisor and Maintenance

`CycleLedger` is the promise of a cycle table: invocations are numbered, at most
the last is open, each is settled once. It has one variable, the outcomes in order.
The three tables of the code are shown to implement it, by `INSTANCE ... WITH`
in `SupervisorProperties` and `ManagementProperties`, under runs in which leases
run out, invocations die and come back late.

`Maintenance` has the tables `repairs`, `missions`, `projectState` and the portfolio
stop. A verb of the plane reads in one transaction and writes in the next, so an
operator's `desk` holds what was read and not yet acted on. `Supervisor` extends
it with the control state and the cycles: `worker[c]` is an invocation with what
it read (control, scope, queue, what is left of its ceiling), and its steps follow
`cycle`: claim, scope, promotion of repairs, missions one by one, close. The Owner's
`transition` is two actions, the control state first and the portfolio stop after
it, with a possible death between.

Abstractions:

- a mission is seen from outside: what one `work_once` may leave behind
  (`Controller` has the inside);
- the policy of the maintenance plane is fixed and its cooldown may be over at any
  time; a trigger is known by the failure it repeats;
- `escalated`, `suppressed` and `abandoned` repairs are one disposition, since
  every decision treats them alike;
- the execution window of a policy is the flag `open`;
- the promotion of improvement experiments runs the same loop over another table
  and is left out; `Improvement` has the verbs it calls.

### WorkIntake and Management

An item is a row of `work_items`, a packet is what the inbox says of it: whether it
is the Owner's and whether it is blocked. `Edit` is somebody at the inbox.
Either cycle claims its row of a table, reads the packets, observes each into its
item (one transaction each), takes the lowest item, submits its mission, runs it
once, reconciles and closes. Claims and cycles last 30 seconds and are not renewed:
`ClaimExpires` may end a claim at any time, and `Begin` may settle a cycle that is
still at work. `Management` adds the registered manifest,
the snapshot a manager judges (`unmoved` stands for the state version of the
snapshot still being the current one) and the rewriting of the submitted mission.
`released` is a history: the items the inbox ever left to the Factory.

Abstractions: what the manager answers, which profiles are eligible and which
reviewer is named are left open; packets that do not parse end the cycle, as a
cycle may end anywhere.

### Improvement

A row of `experiments` is found by its objective and generation, which the code
makes unique. Every verb but the admission reads, decides and writes in a later
transaction, most often where the disposition is null and asking nothing again;
`desk[p]` is what an operator decided and has not written. Several work on one
experiment at once. `shown` is a history: the experiments recorded as improved at
some moment.

Abstractions: policies and objectives are known by their digest; the measured
values are the word the comparison makes of them; producer and evaluator differ
(there is always another name); the column `state` repeats the others and is left
out, as are the evidence behind a trigger, the stop and the cooldown.

### Shift and Factory

`Shift` has the grants in the order they were granted and, for each slot of the
portfolio, the missions tried under it. `Factory` has the processes: the Owner's
commands (`start`, `stop`, `run`, the shift commands) and the one cycle the loaded
service runs. `proc[p]` holds the program counter and what was read. A drain is
a command's own sequence: enter `draining`, recover orphans, resume what is past the
boundary, take a snapshot, settle the control state by it. A start reads the grant,
inserts one if there is none, moves the control state, loads the service and
confirms; when it fails, it undoes what it created.

Abstractions: the conditions of the activation gate, the window and the budget of a
grant may refuse whenever they are asked (`GateUnmet`); a mission has the stages the
drain and the portfolio tell apart; previews and resume packages are reports.

### Revision

The Owner's loop about one application: `Brief` derives the first package, `Product`
admits its mission, `Review` seals a finished candidate and deploys its review,
`FollowOn` and `Revise` send it back and admit the next version, `Start` opens the
shift and continues a waiting brief. The sequences of `revise` (probe, health,
return, attempt, submission) and `review` (seal, deploy, publish, record) are
step by step, `proc` is where each process is. The candidate of a mission is named
by the place of the mission.

The hosting of a review answers as in `production.deploy`: it was reached, it was
not, or nobody knows, and then it may serve the candidate or not. `ledger[c]` holds the
attempts `deploy_review` admits of one candidate, the next one only after the last has
failed; `record[c]` is the row of `release_deployments`, what it says and of which
attempt, and a second process has to agree with it unless it says failed or uncertain.
A cycle of the service has ends before its review: the Bridge is not healthy, the
capacity cannot be read, a hand-off is refused, the supervisor fails or refuses one of
its projects; and a review ends before its deployment where the artifact cannot be
built or placed. All of these are the flag `barred`, which `Bar` raises and lowers at
any time. Attention on a slot and a complete portfolio (`portfolio`) do not bar the
review, which is what the fast path is for.

Abstractions:

- one application with derived packages; promotion and drain are one step each, since
  `Release` and `Factory` have theirs in full; a mission is worked in one step and
  ends in one of the ways `revise`, `review` and `start` tell apart;
- what refuses a command of the Owner ends it, as it may end at any step (`Die`);
- `Retirable` looks at how the first attempt ended and not at the divergence of the two
  payloads, on which the code refuses as well (factory.py:1224-1230): the model allows
  more, which is sound for the invariants;
- a mission cannot both be reopened by `start` and have a successor. In the code the
  two are read off different facts, which exclude each other but for one answer, given
  in section 5.

## 3. Runs

| Run | Question | Instance |
|---|---|---|
| `mission_core` | leases, memo, boundary, final states | 1 mission, 2 workers, 2 profiles, every answer, 1 fault, 3 leases, 1 deferral |
| `mission_graph` | edges, releases, stalls | 3 missions, 1 worker, edges of the three policies at any time |
| `mission_live` | does an admitted mission settle, whatever but capacity fails it | 1 mission, 2 workers, 2 profiles, capacity and budget refused at any time, 2 deferrals, 2 faults, 8 leases |
| `one_process` | is there ever a second provider process | violated, see section 5 |
| `awe_claims` | slots, fencing, the gate, ledger against exchange | 2 tasks of one slot, the second certifying the first, protected and kept by the Owner; 2 workers, 1 role, 2 commits, 2 tokens, 1 fault |
| `production_core` | approval, single deploy, rollback, late answers | 1 production environment, 2 releases, 2 processes, 2 rollback attempts |
| `release_path` | is what is promoted what the Owner saw and validated | 1 staging and 1 production environment, 2 bundles, 3 deployments, 2 processes, 2 review attempts, 1 validation, 1 fault |
| `supervisor_core` | is a run of failures cut off in time, though cycles overlap; is `supervisor_cycles` a `CycleLedger` | 1 project, 1 trigger, 2 backlog missions, 2 invocations, 1 Owner, 1 operator, 3 cycles, 1 decision of the Owner, 1 fault, threshold 1, 1 mission per cycle |
| `intake_core` | is the Owner's item left alone; are both cycle tables a `CycleLedger` | 1 item that is in both inboxes, any packet, 2 invocations, 1 edit, 1 intake and 2 management cycles |
| `improvement_lineage` | is a lineage a chain, is what is accepted shown to be better | 1 objective, 2 commits, 2 operators, 2 generations, 1 revision of policy or objective |
| `shift_core` | one shift, one slot at a time | 2 Factory shifts and one of the Owner's own, 2 slots of 2 attempts, 2 commands and the service, 3 commands in all, 1 fault |
| `revision_core` | is a revision built from what was sent back, and is a finished candidate put up for review | 1 command beside the service, 2 versions, 2 review attempts, 2 shifts, 2 things that go wrong |

**Bounds.** `MaxFaults` bounds crashes and missed renewals, `MaxLeases` the
claims, `MaxDeferrals` the deferrals; each is a guard of the action it bounds.
A deferral beyond `MaxDeferrals` is one the code would
make: the worker stops at it. Three leases are enough for a worker to lose its lease, a second to be granted
one and lose it too, and the first to come back; two profiles are the least for
which a fallback exists; three missions the least for which a cycle is longer
than a mutual wait. A second mission never changes a mission but through edges
and through the scheduler, which `mission_graph` has.

For the AWE, two tasks of one slot are the least that can exclude each other,
two commits the least for which a verdict can be about an old head, and two
tokens let a claim be taken over or both tasks be claimed; the one fault is a
crash, a failed call at any of its places, or a lease that runs out under its
cycle. Two roles add nothing to one but a product of verdicts: `Gate` treats them
alike. `Protected`, `Kept` and the certifier coincide in task 2, so that every
branch of the cycle is taken by one task or the other. Workers are
interchangeable in every definition and property, hence the symmetry.

For the production boundary, two releases are the least for which one can be
rolled back to the other in either order, two processes the least for which one
call is late, and two rollback attempts let a withdrawn release be withdrawn again.
The policy of an environment is one in each instance: re-registration with a
smaller concurrency makes `ForwardBounded` say less, as its comment has it, and
the proofs take every set of policies. In `release_path` three deployments are a
review, its second attempt and the promotion; `MaxFaults` counts deaths and verbs
from outside the two sequences (an operator's health counts, a cancellation, a
reconciliation, a bare rollback), and the adapter's four answers are not counted.
Callers and bundles are interchangeable, hence the symmetry. Environments are
names, because the policy in force depends on the class.

In `supervisor_core` two invocations and three cycles let one be abandoned,
settled by the next and come back while a third is open; with a threshold of one
the second failure escalates, and the second backlog mission is what a cycle
with an old scope still runs. In `intake_core` one item is enough, as the cycles
take items one at a time and meet only over the same one; the second management
cycle is the one that settles the first. In `improvement_lineage` a second generation is
the least that has a parent, and two commits let it start from the wrong one. In
`shift_core` two slots of two attempts are the least for which a retry and an order of
slots exist; three commands let two starts overlap a stop. In `revision_core` two
versions are the least that has a revision, and two review attempts (eight in
release.py:381-392) the least in which one fails and the next is admitted. `MaxFaults`
counts deaths, promotions, failed or unclear answers of the hosting, slots that want
attention and bars raised, in any combination of two; lowering a bar is free. Whether a
revision of a revision keeps the invariants is left to the proofs, which take
any number of versions and commands.

**The premise ~stalled.** `SlotHeldOnce` and `ReviewedStays` hold as long as no
lease runs out during a cycle on its task. Without it neither does: section 5 says
how the first fails, and the second does because page moves are not fenced, so a
worker that lost its claim still moves the page after its successor completed.
`ClosedByHolder` and `ReviewIsCertified` need no premise.

**Deadlock** is not checked: a ledger whose missions are all settled stops, and
so do workers that find nothing executable, processes whose Owner gives no further
command and planes whose bounds are used up.

**Fairness** is assumed in two runs. In `mission_live` (`FairSpec`), a worker that is
in `work_once` goes on (its adapter calls are bounded by `STEP_TIMEOUT_SECONDS`), the
service loop keeps claiming and recovering (it polls on an interval), and the lease of
a dead worker expires (the clock runs). In `revision_core` (`LiveSpec`), a
process that lives takes its next step, and the loader starts a cycle on an interval,
so the service gets to `review` if it is enabled for good. It is not while `barred`:
`CompletedIsReviewed` has the premise that the service is in the end no longer barred
(`<>[]~barred`) and promises nothing to one that is barred again and again. Operators, the Owner, crashes, deaths and
stalls of live workers are not fair: they may never happen; nor is the working of a
mission in `Revision`. `mission_live` has crashes and no stalls: a worker that misses its
renewals can strand a dispatch for good (section 5). `MaxLeases` is above what a mission can use in `mission_live`
with two faults and two deferrals, so that this bound never ends a behaviour by itself;
that of the deferrals does, and `EventuallySettled` names it (`DeferredAgain`): a mission
is settled, or the layer was out of capacity every time. What the run shows is that
nothing else (a lost answer, an unproven leg, a dead worker) keeps it from
being settled.

## 4. Proofs

`ControllerProofs` proves, for any sets of missions, profiles, workers and
answers and any bounds:

| Theorem | Statement |
|---|---|
| `Invariance` | `Spec => []IInv` |
| `Typing` | `Spec => []TypeOK` |
| `MutualExclusion` | `Spec => []OneHolder` |
| `MemoIsStable` | `Spec => MemoStable` |
| `LeaseIsKept` | `Spec => LeaseNotStolen` |
| `Ledger` | `Spec => []ILedger` |
| `ReleasedOnCompletion` | `Spec => []ReleasedIffCompleted` |
| `OnlyForward` | `Spec => NeverBackward` |
| `GraphIsAcyclic` | `Spec => []Acyclic` |
| `CompletionIsProven` | `Spec => []CompletedIsProven` |
| `SecondProcessNeedsProof` | `Spec => []OneProcessPerProof` |
| `StallHasCause` | for finitely many missions, `Spec => [](Quiet => ...)`, see below |
| `NothingStallsSilently` | for finitely many missions and `NoStall`, `Spec => []NoSilentStall` |

`OneHolder` is not inductive: it says nothing of a worker whose token is no
longer in the row, yet such a worker must not have the token the next claim
grants. `IInv` adds `LeaseInv`: no token in a row or in a worker's hand exceeds
`serial`, and two workers on one mission hold different tokens. A claim takes a
number above all of them. `MemoStable` needs, beyond that, that a worker about
to write an answer found the step without one and that only the holder of the
lease can have filled it since (`MemoInv`).

Every step is first put in a frame, which says which parts of the rows and of
`job` it may change; the invariants are then proved of frames rather than of
forty actions. The only assumptions are `StoreAssumption` and
`ControllerAssumption`: `MaxAttempts` is a positive number, NULL is no mission
and no profile, and the bounds are numbers.

The other theorems build one invariant on another:

- `ILedger` adds that a mission never submitted has no lease and no edge, which is
  what lets a late edge be released at its declaration. `OnlyForward` reads the
  lifecycle off the frames: `NextStates` is what any verb may do to a state.
- `Acyclic` is proved without paths: that `a` does not reach `b` is witnessed by a set
  with `a` and without `b` that no edge leaves (`ApartWitness`). An edge from `m` to `d`
  is declared only if such a set lies between `d` and `m`, and the new witnesses are
  unions and intersections of the old ones with that set (`NewEdgeAcyclic`).
- `CompletionIsProven` needs to know what a worker may take as done. `PlaceInv` says
  at which steps of which stage a worker can be, `ShownInv` that a worker which holds
  its lease at a stage finds the steps before it on record. Since no step is rewritten
  (`MemoIsStable`) and no worker without the lease completes anything, the record is
  complete when the mission is.
- `SecondProcessNeedsProof`: `SparedInv` ties the number of processes to the rows. A
  mission with a process has a leg, a proof, or its current dispatch step begun
  (`Traced`); and who holds the lease and is about to ask for a fresh run has found that
  nothing ran or that a leg or a proof says so (`Clear`).
- A standstill is traced along the edges: the missions that wait and are reached from
  `m` are finitely many and their graph has no cycle, so there is a last one
  (`LastOfThem`), and whatever it waits for is not admitted and not at work
  (`QuietHasCause`). It is stopped, or it is a `Stranded` dispatch: lease gone, and the
  free leg of a late worker took it off the list of uncertain ones. `NoStall` (the
  environment misses no renewal, or no fault may happen) excludes the latter, since
  every worker at work then has its lease (`AtWorkInv`). Section 5 has the code's side.

`AweProofs` proves, for any tasks, slots, workers, roles and bounds:

| Theorem | Statement |
|---|---|
| `AweTyping` | `Spec => []AweTypeOK` |
| `AweInvariance` | `Spec => []IInv` |
| `SlotIsHeldOnce` | `Spec => []SlotHeldOnce` |
| `ReviewStaysFinal` | `Spec => ReviewIsFinal` |
| `OnlyTheHolderCloses` | `Spec => ClosedByHolder` |
| `CompletionIsCertified` | `Spec => []ReviewIsCertified` |
| `ReviewedIsNotReworked` | `Spec => ReviewedStays` |

`AweTypeOK` is not inductive: a cycle that is about to move a page has a goal,
and one that is not idle has a task; `TInv` adds both. `SlotHeldOnce` is
preserved by a grant because `Free` looks at the slot, but a resumption does not
look: it is harmless exactly when the lease it extends is still live, which
`Punctual` says of a worker before its claim as long as nothing stalled.
`ClosedByHolder` rests on `Bound`: a worker holds no token beyond the last one
issued for its task, and who holds the last is the worker the row names.
`ReviewIsFinal` rests on `Final`: a completed row has no lease, and no cycle
holds its token any more. `ReviewIsCertified` is carried from the gate to the
ledger by `Passed`: a cycle whose goal is Review holds a head all roles
accepted, and `accepted` never shrinks. `ReviewedStays` is about pages, which nothing
fences. Without stalls the ledger does it for them (`Standing`): who may still settle a
claim has the lease, so it is one worker (`Owns`); if the page is in Review that worker
is completing the task and moves it nowhere else (`Aims`); and a worker that observed the
task earlier and has not claimed it yet finds it completed or leased to another
(`Waits`), so it is refused. The assumptions are `LedgerAssumption` and
`WorkerAssumption`.

`ProductionProofs` proves, for any environments, policies, processes, actors,
candidates and bounds (`SpecProduction` is the ledger alone, `Spec` the release path):

| Theorem | Statement |
|---|---|
| `ProductionInvariance` | `SpecProduction => []IInv` |
| `ProductionTyping` | `SpecProduction => []ProductionTypeOK` |
| `ReachedOnlyApproved` | `SpecProduction => []ApprovedBeforeReached` |
| `DeployedAtMostOnce` | `SpecProduction => []DeployedOnce` |
| `ClosedIsFinal` | `SpecProduction => ClosedStays` |
| `RollbackOnlyGoesBack` | `SpecProduction => []RollbackGoesBack` |
| `RecoveredMeansRestored` | `SpecProduction => []RecoveredWasRestored` |
| `ForwardIsBounded` | for `SteadyConcurrency`, `SpecProduction => []ForwardBounded` |
| `ReleaseInvariance` | `Spec => [](IInv /\ StoodInv /\ ReleaseInv)` |
| `LedgerHoldsOnReleasePath` | `Spec => [](DeployedOnce /\ ApprovedBeforeReached)` |
| `DecidedOnWhatWasServed` | `Spec => []ValidatedWasServed` |
| `ValidationIsTheBytes` | `Spec => []PromotesWhatWasValidated` |
| `PromotionRestsOnReview` | `Spec => AdmittedOnHealthyReview` |

`NoWayBack` is the fact about the table of transitions the rest stands on: no state
after a claim (`Reached`) leads back to one before it. `DeployedOnce` is not
inductive, since it does not see a process that has claimed and not yet called;
`Unspent` says that such a process is alone with a deployment no one has called for,
and `ClaimedFirst` that a deployment still to be claimed has no calls.
`ApprovedBeforeReached` is carried from the approval to the call by `Authority`: in
a production environment a row in `approved` or past it names a second person.
That a rollback's target is a deployment needs the newest of a finite set of
positions to exist (`NewestIsOne`, by the well-foundedness of the naturals). The
assumption is `ProductionAssumption`: a policy of a production environment is
never autonomous and names approvers, as `EnvironmentPolicy` enforces.

A target is chosen in one transaction and put back in a later step. `StoodInv` says that
what a row names as its target was admitted before it into the same environment and once
stood there, and `RestoredInv` that what was restored was such a target and that whoever
is about to record a recovery has restored one. For `ForwardIsBounded`, every step
admits one row below the ceiling, moves one row or moves none, and no row returns to
being on its way (`ForwardKept`); the hypothesis `SteadyConcurrency` says that the
policies an Owner may register for one environment agree on the ceiling. An environment
registered again with a smaller one keeps what is under way in it.

On the release path, every step is a `ReleaseMove`: a verb of the ledger, an
approval that names a validation, a probed health or a death. That gives the ledger's
invariant over again. `ReleaseInv` then says what a sequence may rest on from one of its
transactions to the next: the deployment it names is one of its candidate and environment
(`Binds`), and it knows the requester while it may ask again (`Asks`); what is called
proven or is being served was served (`ShownInv`); an approval is the validation's it names
(`GrantInv`). It survives what others do in between since seals, validations and what was
shown only grow (`Lasting`). `ReleaseAssumption` says that NULL is no candidate and that
the bound of faults is a number. `ReleaseInv` was first checked by TLC on the instance of
`release_path`, which showed that a retried review has to keep the requester of the first.

`SupervisorProofs` proves, for any callers, projects, triggers and bounds:

| Theorem | Statement |
|---|---|
| `SupervisorInvariance` | `Spec => []TInv` |
| `SupervisorTyping` | `Spec => []SupervisorTypeOK` |
| `CyclesImplementLedger` | `Spec => CyclesSettledOnce` |
| `EscalationIsBounded` | `Spec => []EscalationBounds` |

`TInv` types what an invocation carries and says that an invocation which is not away
names a row of the table. That one fact is what the refinement rests on: the rows
change in four ways, by a claim and a close, which are steps of `CycleLedger`, and by a
renewal and a lease that ends, which stutter. A close by an invocation that another
settled finds no open row.

`EscalationIsBounded` bounds an uninterrupted run of failures of one project, the
counter of `project_health`. It does not bound the missions a broken layer costs: any
outcome that is no infrastructure failure, a retry too, begins a new run (section 5).

The bound is a matter of counting. An escalation takes a project out of the
scope of the next cycle and not out of that of a cycle at work, and cycles overlap. By
`LapseInv` the invocations at work that have lost the lead of their cycle are no more than
the leases lost, and by `EscInv` the failures counted and those that invocations may still
count for the project, at most `PerCycle` each, stay within the ceiling. The assumption is
`SupervisorAssumption`.

`ManagementProofs` proves, for any items, inboxes, callers and bounds:

| Theorem | Statement |
|---|---|
| `ManagementInvariance` | `Spec => []IInv` |
| `IntakeTyping` | `Spec => []IntakeTypeOK` |
| `OwnerItemsStay` | `Spec => []OwnerItemsHeld` |
| `IntakeImplementsLedger` | `Spec => CyclesSettledOnce` |

The owner flag an admission read may be out of date when it submits, so no invariant
about the flag is kept. `IInv` speaks of `released`, which only grows: who folds a packet
without the flag and who is past the check name an item that was once released. Both
tables of cycles are shown to implement `CycleLedger` by the same four changes as
the supervisor's. The assumption is `IntakeAssumption`.

`ImprovementProofs` proves, for any objectives, commits, operators and bounds:

| Theorem | Statement |
|---|---|
| `ImprovementInvariance` | `Spec => []IInv` |
| `ImprovementTyping` | `Spec => []ImprovementTypeOK` |
| `LineageIsAChain` | `Spec => []LineageChained` |
| `AcceptedIsShown` | `Spec => []AcceptedWasShown` |

Every verb writes what it decided on an earlier read. `Decided` says what such a
decision rests on, and it is kept because a row that changes grows (`Grows`): it keeps
its baseline, and once it is closed its candidate. The commit an `open_generation` read
from a closed generation is therefore still that generation's when the next one is
admitted with it. The assumptions are `ImprovementAssumption` and `NoneAssumption` (NULL is none of the words).

`FactoryProofs` proves, for any owners, portfolios and bounds:

| Theorem | Statement |
|---|---|
| `FactoryInvariance` | `Spec => []IInv` |
| `FactoryTyping` | `Spec => []FactoryTypeOK` |
| `OneShiftAtATime` | `Spec => []OneFactoryShift` |
| `PortfolioIsSerial` | `Spec => []StrictlySerial` |

`OneFactoryShift` does not see a start that found nothing live and is about to insert.
`GrantInv` adds that the numbers in use have no gap and that all but the last are
revoked for good; `Entitled`, that such a start holds the next number, or one that is
known by now, in which case it inserts nothing. `StrictlySerial` is likewise carried by
`Due`: the attempt a hand-off is about to submit is the next of its slot, behind slots
settled for good, or is already there. The assumptions are `ShiftAssumption` and
`FactoryAssumption`.

`RevisionProofs` proves, for any commands and bounds:

| Theorem | Statement |
|---|---|
| `RevisionInvariance` | `Spec => []IInv` |
| `RevisedWasSentBack` | `Spec => []RevisedWasReturned` |
| `NoVersionTwice` | `Spec => []OnlyUnprovenSucceeded` |

A command carries a version from step to step while the tables move. `Rests` says
what it rests on at each, and every step of others is `Later`: versions keep their
predecessor, what completed or ended unproven stays so, a healthy review stays healthy.
The last would fail in two ways. A deployment could write its answer over "healthy":
`Alone` says that who is between the row and the deployment is the only one there and its
row still says "deploying". And the record could be bound to another attempt: `ReviewInv`
says that a record which may be replaced, one that says failed or uncertain, names an
attempt that did fail or is uncertain, and no step leads out of these two. That a candidate is in the table at all is counted: by
`OnlyUnprovenSucceeded` no two missions have the same place, so there are no more of them
than candidates (`MissionsAreCandidates`, by the pigeonhole theorem of the
library). The assumption is `RevisionAssumption`.

Facts proved and not run are `ReviewStaysFinal`, `ClosedIsFinal` (a closed claim and a
closed deployment are never reopened), `StallHasCause`, `LedgerHoldsOnReleasePath` and the
strengthened invariants themselves (`Invariance`, `Ledger`, `ReleaseInvariance` and the
like).

Left to TLC are the two liveness properties, `EventuallySettled` of the Controller and
`CompletedIsReviewed` of `Revision`: the prover has no fairness and no ENABLED. Every
invariant and action property that the passing runs check is proved. Three proofs have a
hypothesis on the constants beyond the assumptions of the modules: `StallHasCause`
(finitely many missions), `NothingStallsSilently` (the same, and `NoStall`) and
`ForwardIsBounded` (`SteadyConcurrency`). Each holds of the instance whose run checks
the property.

## 5. What the code does against what it says

One run is expected to fail; `PROJECT.json` quotes the lines.

- `one_process`: a declined leg followed by an interrupted call. The declined
  leg makes `prior` non-empty, so the interrupted call is not reconciled but
  selected again: two provider processes. `OneProcessPerProof` is what does
  hold: a second process needs an earlier leg that proved nothing ran.

The models show, or rest on, more of the kind. None of what follows has a run; each is
a behaviour of a module, and where a stronger property would be wanted it is
the reason why there is none.

*Mission ledger and Controller*

- `blocked` asks for a transition the table does not have (engine.py:782), the error
  escapes with the lease held, and attempts go beyond the policy.
- Only `transition` propagates a failure to dependents (store.py:663); `cancel`,
  `recover_stale`, the propagation itself and a late edge do not.
- An exhausted quota sends a mission back to admission for the next reset, without
  limit (engine.py:499-505, store.py:714-758). A layer that always answers exhausted
  never settles it, so `EventuallySettled` speaks of everything else.
- A cancellation accepted while a dispatch is uncertain takes the mission out of the
  scheduler's sight for ever (store.py:863, 878).
- `recover_stale` keeps a mission in `dispatching` when its legs leave the dispatch
  uncertain, and says that it is scheduled only as a resume. `record_run` asks for no lease
  (store.py:1386): the worker that lost it may add a leg that proves nothing started
  (engine.py:373). The dispatch is then no longer uncertain (store.py:923), so the mission
  is neither fresh nor resumable (store.py:1978) and its dependents wait for ever.
  `NoSilentStall` is therefore false where a live worker may miss its renewals;
  `StallHasCause` is what holds then, and calls such a mission `Stranded`.

*AWE worker*

- `run_cycle` claims with the time it began (worker.py:252). A lease that ran out while
  it observed the exchange is extended, without a look at the slot, which may have
  gone to another task.

*Production*

- `reconcile_on_restart` looks for `deploying` and `verifying` only (production.py:1285).
  A rollback whose process died stays in `rolling_back`, which no verb leads out of,
  and holds the slot of its environment.
- A reconciliation puts a failed or uncertain row back behind `deploying` without a look
  at the declared concurrency, which is asked at admission (production.py:1024).
- `_claim_operation` says that no transition returns a deployment to a state a claim can
  start from (production.py:1538). With `max_rollback_attempts` above 1, a restart
  reconciled while a deploy is under way, a rollback, the deploy's late "unknown" and a
  second rollback let both rollbacks claim the key of the second attempt.

*Supervisor and maintenance*

- A death between the two transactions of `transition` leaves the portfolio stop not
  engaged, and repeating the command is a no-op (supervisor.py:468-510). The command
  that sets the portfolio policy reads and writes the stop in two transactions and can
  lose one the same way (cli.py:1671-1677, store.py:1814).
- A retry moves the counter of failures in neither direction, says the comment of
  `classify_outcome` (supervisor.py:328-332), as does a test
  (tests/test_stage9_supervisor.py:1024); `_record_health` clears it on any outcome that
  is not an infrastructure failure (supervisor.py:1266-1272), a retry included. The next
  failure then writes `escalated` back to 0, although a project is said to stay
  escalated until the Owner releases it (1244-1285). So failures with
  retries between them never escalate, and no property bounds the missions they cost.
- With every project suppressed, closed or escalated the ceiling of a cycle is 0, so
  missions half done are not resumed, although `_advance` says a resume is exempt.
- A repair whose mission was submitted and not bound, by a death between the two,
  becomes `candidate_validated` with no mission on record; `record_mission_outcome` and
  `stage_recovery` overwrite the state of a repair that was closed meanwhile.

*Work intake and management*

- An item that becomes the Owner's between the reading and the submission of `admit` is
  submitted; it had been left to the Factory, so `OwnerItemsHeld` is kept. A slow
  `admit` also takes an item from `done` back to `admitted`.
- `_narrow_mission` rewrites payload and hash of a mission that another process may
  already hold. `_recover_authorized` never has anything to do.
- The kind of a source is frozen with the item: a plane pointed at the inbox of the
  other refuses every cycle from then on. A registered manifest is immutable: an edited
  packet refuses every management cycle.
- The tables of the planes are separate, so an intake and a management cycle overlap.
  A claim compares the expiry with `<`, a reader with `>=` (management.py:929, 948).
- `bind_source` compares a digest and the packets are read again after it.

*Improvement*

- Of two closes the last wins; a seal after the evaluation replaces the candidate
  that was evaluated; `stage_promotion` writes to a closed experiment; a baseline may be
  measured again after the mission that answers it exists. A close reads the verdict
  before it writes, so an accepted experiment may carry another verdict at the end: this is
  why `AcceptedWasShown` speaks of a verdict that was once recorded.
- `register_objective` says a changed objective ends the lineage under it (758-770);
  `open_generation` pins the current digest and goes on.
- A rejected first generation blocks its objective, since the pair is unique. A death
  between seal and close in dogfood_improvement.settle leaves an experiment open that
  counts against the concurrency.

*Shift and Owner lifecycle*

- Two concurrent `apply` of references the Owner named give two live grants;
  `OneFactoryShift` is about those the Factory derives.
- `run` and `cycle` hand off under a suspended grant and do not ask `admission`, which
  the shift command does (cli.py:1394-1402).
- A stop racing with a start leaves the control state `running` without a grant, or the
  service loaded again after the stop unloaded it. A drain settles by its snapshot
  (shift_runtime.py:920-970), so FACTORY OFF may be said while a cycle works a mission.
- Within one cycle the second hand-off uses the grant read before the supervisor's cycle.

*The Owner's application*

- A follow-on brief accepted while the Factory is off is said to be admitted "when
  running" (factory.py:922). `_continue_fast_path_waiting_brief` (848-860) returns early
  once there is a product reading, so no start ever admits it.
- Once the dogfood portfolio is complete, `cycle` returns before the supervisor's cycle
  (2423-2424): a product mission admitted then is never worked.
- `cycle` ends before its review on a Bridge or capacity problem and on a
  `SUPERVISOR_FAILURE` (factory.py:2412-2419, 2440-2464). The last lasts as long as one
  supervised project is refused: a project that has nothing to do with the application
  keeps its finished candidate from review, however the fast path is described.
- Once a review has failed as often as `deploy_review` tries, or its hosting has
  answered once that it does not know, every later cycle refuses and only an operator's
  reconciliation helps (`GivenUp`, `Unclear`). A death in the middle of the
  deployment leaves it `deploying` the same way (`Stranded`).
- A second `review` overlapping a deployment records `deploying` for good, so the status
  denies a review that is up and the service reviews in every cycle. If the attempt it
  recorded then fails, the record is not one that is replaced, and every later attempt
  ends in RELEASE_DEPLOYMENT_IDENTITY_MISMATCH (`Misnamed`).
- `start` reopens a stopped revision whose refusal proved no process (SF-164), whatever its
  code; `revise` gives a successor to one that ended IDEMPOTENCY_KEY_UNPROVEN. A
  refusal that gives no code, with no key, proves both (engine.py:91-94, 734): a
  revision reopened once after STALE_HEAD and answered like that may have a
  successor and then be reopened beside it. The model leaves this answer out.
- `revise` says it is safe to repeat (1071-1073). Under another shift it is a conflict,
  because the payload holds the reference of the shift; in the same shift a terminal
  unproven first attempt answers "already-submitted" and gets no successor.
- Two overlapping follow-on commands can admit two versions at once, and two stopped
  revisions that could be recovered make `start` refuse for ever. A revision that ends
  without success leaves no way to send the application back again.
- A promotion may go through after `revise` found the candidate not promoted.

## 6. Plan

Done: the mission ledger and Controller, the AWE worker, the production boundary
and release path, supervisor and maintenance, intake and management, improvement, the
shift authority and the Owner lifecycle, with proofs of each. Next, in the order of
what depends on it:

| Step | Modules | What they model | Properties aimed at |
|---|---|---|---|
| 1 | `Mission` (abstract), refined by `Controller` | the promise of a mission: admitted, working, one final outcome, at most one unproven process | `Controller!Spec => Mission!Spec` under a mapping from rows to stages |
| 2 | incidents, over `Production` | declare, contain, route, close, which have no state guard of their own | a closed incident is not contained again; recovery is verified by another person |
| 3 | `Continuity` | work batons | a baton is consumed once and by a runtime it names |
| 4 | `AweService` | start, stop and restart of the one supervisor, liveness rows | two supervisors never act for one host |
| 5 | `Capacity`, `Portfolio` | pure operators: reading of observations, fit into windows, priorities and caps | against reference definitions over bounded inputs |

Theorems wanted: step 1, as a refinement proved in `ControllerProofs` from `PlaceInv` and
`SparedInv`; and refinements of the release path and of the grants by abstract
specifications of their own, for which the invariants are there.

## 7. Not modelled

- *Host edges* (`awe_worker/cli.py`, `credentials.py`, `harness.py`, `grounding.py`,
  `stage1_adapter.py`, `safe_provider.py`, and of `cli.py` and `factory.py` the parsing
  of arguments, printing, installation and the capacity refresh): argument parsing, key
  chain, subprocess and HTTP. They have no state of their own; what they answer enters
  the models as an input.
- *Derivations of documents* (`pcp.py`, `context.py`, `envelope_scaffold.py`, and what a
  brief says in `product.py` and `dogfood_intake.py`): one document in, one document or a
  refusal out; long, sequential and well within the reach of tests.
- *Activation, attention and continuity*: readings and notices that no decision of a
  modelled component uses.
- *Reports*: every read-only view of the ledger, the event logs, digests and
  wording.
- *Time as a number*: leases, windows and expiries are flags lowered by an action;
  the boundaries of comparisons are modelled where two readers disagree about them.
- *The prover's limits*: liveness under fairness stays with TLC.
