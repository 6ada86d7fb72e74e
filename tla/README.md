# Formal model of the Redbeak runner protocol

TLA+ modules, TLC configurations and TLAPS proofs for the two programs that speak
runner protocol 0.1 in this repository, the reference orchestrator
(`src/python/redbeak-reference-server`) and the open-source runner
(`src/python/redbeak-runner`), and for the parts of the adapter SDK
(`src/python/redbeak-adapter-sdk`) they rest on. Paths below are relative to the repository;
`loop.py`, `runtime.py` and so on are the files of those packages.

    tlasany RunnerSystem.tla                                  # parse
    tlc -workers 2 -config SystemLossy.cfg MCRunnerSystem     # model-check one run
    tlc -workers 2 -config Sessions.cfg SessionStore          # a module without an MC module
    tlc -workers 2 -config CallBeating.cfg RunnerProcess
    tlapm ReferenceServerProofs.tla                           # check the proofs

## 1. The system

A *case execution* is a scripted conversation with a system under test. An orchestrator
hands cases out under *leases*; a runner executes one case at a time against a *target*
(through an adapter), submits every answer as a *turn*, and finally a *completion*. All
of that may be interrupted: leases run out, keys are revoked, requests are lost,
repeated or late, processes are killed. Each request that writes carries an
*idempotency key*, and the runner saves a checkpoint before it sends one.

| Component | State | Operations | Talks to | What is hard | What makes it correct |
|---|---|---|---|---|---|
| Reference orchestrator (`runtime.py`) | `_keys`, `_cases` (status, lease, cursor, turns, completion), `_leases` | `create_runner_key`, `revoke_key`, `enqueue`, `claim`, `submit_turn`, `complete`, `heartbeat` | runners, over HTTP | leases expire only when some request looks; replays by key and by sequence; superseded tokens; a completion is answered before the lease is looked at | one lease per case and per runner, evidence only under a lease in force, an append-only log sealed once, no key reaches another project |
| HTTP surface (`http.py`) | none | one route per operation | the above | handlers must be atomic (they are: no await after the body is read) | - |
| Runner loop (`loop.py`) | position in the case, current checkpoint, the target's session | `run_until_idle`, `_resume_case`, `_run_case`, `_complete`, `_with_heartbeat` | server, target, disk | every await is a point where it can be killed, lose its lease, or get an error; what it does at the next start depends on what was saved | recorded answers come from an intact conversation, a key stands for one body, every case ends, no invented failure |
| Checkpoint (`checkpoint.py`) | one JSON file, replaced atomically | `save_checkpoint`, `load_checkpoint`, `clear_checkpoint` | loop | what it says relative to what the server recorded | it never runs ahead of the server |
| Evidence files (`artifacts.py`) | a body and a manifest per turn, observation and completion; the manifests' lineage | `write_turn`, `write_observations`, `write_completion` | loop | written after the call, before the checkpoint, two files for each artifact, again after a restart; a manifest names at most 64 parents | equal to what the server recorded; every manifest leads to bytes on disk |
| HTTP client and retry (`client.py`, `retry.py`) | none | `_post`, `_protocol_error`, `retry_call` | server | a transport failure says nothing about whether the call was served; an abandoned attempt may still arrive | callers can go on either way |
| Runner process (`cli.py` `runner start`, `loop.py` `run_until_idle`) | options, the stop event, the poll backoff | `--once`, `--until-idle`, `--wait`, SIGINT and SIGTERM | loop | a signal at any await; a leftover checkpoint next to `--once`; hints of the server that change the backoff | it ends only for a reason, leaves no case half way, stops promptly, and finds work that comes later |
| Command line, control plane, grants (`cli.py`, `control_plane.py`, `config.py`) | an execution grant for one Run | `runs create --execute`, `run`, `auth` | control plane, loop | attempt ids, a new runner id per start, a grant of one Run next to a leftover checkpoint of another | a repeated command finishes its Run; the grant ends with the command; nothing of another Run is reported |
| Credentials, log, adapter discovery | credential file | `load`, `save`, redaction | CLI | truncation before write | not modelled |
| SDK sessions (`sessions.py`) | session id -> mutable state | `open`, `get`, `snapshot`, `close` | adapters | live references are handed out and may be kept | each session has a state of its own |
| SDK errors (`errors.py`), example adapter | none | `normalize_exception`, exception classes; `send` | loop, target | two tasks raise, one exception survives; who is blamed for it | the target is blamed exactly when it was not available (it is not: runs `target_blamed`, `target_masked`; what holds is weaker) |
| SDK models and guards | none | `SessionContext.from_assignment`, `require_single_turn` | loop, adapters | what they raise, and where | refusals are recorded (they are not: run `refused_assignment`) |
| Contracts (`redbeak-contracts`, `contracts/`) | none | schema validation, fixtures, bundling, verification | all | - | not modelled: validation of documents, no behaviour over time |

Every hazard met in this code, at its line, is listed in `PROJECT.json` with the
properties that would catch it, or the reason none does.

## 2. Modules

    EvidenceLog              what the server promises about a case's evidence
        ^ implemented by
    ReferenceServer          runtime.py            <-- MCReferenceServer (TLC)
        ^ EXTENDS            ^ EXTENDS                 ReferenceServerProofs (TLAPS)
    RunnerHttp               http.py: a request and its reply
        |                                          <-- RunnerHttpProofs (TLAPS, lemmas)
        ^ INSTANCE
        |- RunnerSystem      runners + server + network + clock  <-- MCRunnerSystem (TLC)
        |                                          <-- RunnerSystemProofs (TLAPS)
        |                                                ^ EXTENDS
        |                                              RunnerFailureProofs (TLAPS)
        |                                                ^ EXTENDS
        |                                              RunnerEvidenceProofs (TLAPS)
        |- GrantedRuns       cli.py: commands + grants + server  <-- MCGrantedRuns (TLC)
              |                                    <-- GrantedRunsProofs (TLAPS)
              | both EXTEND
           RunnerLoop        loop.py, checkpoint.py, artifacts.py

    TurnCall                 one call of the target under heartbeats, and whom its failure
        ^ EXTENDS            is blamed on
    RunnerProcess            the process around the cases: options, signals, polling
                                                   <-- RunnerProcessProofs (TLAPS, of both)

    IsolatedSessions         what a session store promises
        ^ implemented by
    SessionStore             sessions.py           <-- SessionStoreProofs (TLAPS)

RunnerSystem asks what a runner, killed and started again, makes of a case; RunnerProcess
asks when a runner starts, claims, waits and ends, and takes what happens within a case from
TurnCall. They meet at the checkpoint: RunnerSystem has its content, TurnCall only whether
there is one and what report it holds.

### EvidenceLog
The abstract specification. A case has a `log`, extended only at its end by entries
without gaps and without repeated keys, and a `seal`, set once, after which nothing is
added. Leases, runners, keys and time do not occur in it.

### ReferenceServer
| Code | Model |
|---|---|
| `_keys` | `keyState[k]`: absent, active, revoked |
| `_cases` and its insertion order | `cases[c]`, `queue` |
| `_leases`; `lease_id` and `lease_token` | `leases`; a lease is its position, 0 is `None` or a token never issued |
| `expires_at` | `left`: ticks that remain. 0 = overdue, but not noticed yet |
| `authenticate` | guard `Authentic(k)`; an unauthenticated request changes nothing, not even overdue leases |
| `_expire_leases`, `_expire_one` | `Settled`, `SettledLeases`: the state a handler sees |
| `_authorized_case`, `_require_lease` | `Authorized`, `RequireLease` |
| `claim`, `_active_lease_for`, `_grant_lease` | `ClaimExisting`, `GrantLease`, `NoWork` |
| `submit_turn` | `TurnVerdict` (the order of its checks), `AcceptTurn`, `SubmitTurn` |
| `complete` | `CompleteVerdict`, `AcceptCompletion`, `Complete` |
| `heartbeat` | `HeartbeatVerdict`, `Heartbeat` |
| `create_runner_key`, `revoke_key`, `enqueue`, passing time | `CreateKey`, `RevokeKey`, `Enqueue`, `Tick` |

A request is any combination of key, case, token, sequence, idempotency key and content:
the server is checked against clients that follow no discipline at all. Schema
validation of bodies and the reading of work files are left out, and so is everything
stored that no decision depends on.

### RunnerLoop
One process per runner id. `proc[r]` is volatile, `disk[r]` (the checkpoint) and
`artifacts[r]` survive. A step goes from one await of the server or the target to the
next, so a kill (`Crash`) can come at every await, and also after any number of the evidence
files an answered call is followed by, which are written before the next checkpoint is saved.

| Code | Model |
|---|---|
| `run_until_idle` start: leftover checkpoint | `Boot` |
| `client.claim`, the first checkpoint | `ClaimLeased`, `ClaimEnds` |
| `_resume_case` | `ResumeAlive`, `ResumeLost`, `ResumeFails` |
| `from_assignment` outside the `try` | `BeginCase` and the constant `Refused` |
| reset and replay of submitted inputs | `Replay`, in `BeginCase` |
| `adapter.send`, preparing and saving the submission | `Send`, `Prepared`, `Saved` |
| continue: evidence, then the next checkpoint | `TurnContinues`, `Advanced` |
| finish or cancel: `_complete` up to its call | `TurnFinishes` |
| `_complete` after its call | `CompletionAccepted` |
| `_write`: a body, then its manifest; `write_turn`, `write_observations`, `write_completion` | `FilePair`, `TurnFiles`, `CompletionFiles`: the files of a call in their order |
| files overwritten by name, a kill or an `OSError` between two | `WriteFirst`, `WriteAll`, `WriteRaises` |
| `parent_ids`, new in every `_run_case` | `proc[r].parents`, `ParentsAfter` |
| a manifest names at most 64 parents (`artifact-manifest.schema.json`) | `TooManyParents` and the constant `MaxParents` |
| `except LeaseLostError` | `CaseLost` |
| `except Exception`: a failure report from the *entry* checkpoint | `FailCase` from `SendRaises` and `CallErrors`; `FailureRecorded`, `FailureUnwanted`, `FailureEscapes` |

An input is its sequence number. What a target answers is *the list of inputs its
session has heard* together with a "take" (a target may answer the same conversation
differently a second time). Content is thus abstracted to exactly what the properties
tell apart: which conversation an answer belongs to, and whether two answers are the same.
An artifact is its case, its stem and its content (the digest in the code), a file is the
body or the manifest of one; the file name does not contain the digest, so a later artifact
of the same stem takes the place of an earlier one, one file at a time. Which turns come with
an observation request is the constant `Observed`.

### RunnerSystem
The loop, an instance of the server behind its HTTP surface (RunnerHttp) and the
network. `Serve` is one handler on one pending request and its `Reply`. `AttemptFails` is a
transport failure before or after the request was served; `retry_call` repeats the same request a bounded number of times.
A request that was given up, or whose process was killed, may arrive later
(`LateArrives`). `Beat` is a heartbeat while the target works, `Killed` a kill at any
point, `Tick` the clock. All cases belong to the project of one key and are enqueued
before the runners start, as `load_work` does.

Simplifications of the loop, none of which hides a step that changes saved state: the runner
id is a stable one (`--runner-id`; GrantedRuns has the other case); replaying inputs to a
reset target is one step (no request is sent meanwhile, and time may pass before and after
it); a heartbeat failing for another reason than a lost lease is part of `SendRaises`, as
both go to the same handler (TurnCall tells them apart); waiting for work (`--wait`), and the
options that decide whether a process claims again, are here any choice between ending and
going on: RunnerProcess has them in detail.

### GrantedRuns
`redbeak runs create --execute`, invoked again and again by somebody with attempt ids.

| Code | Model |
|---|---|
| `create_run` with an attempt id | `CreateRun`: the Run is created once, every call issues a grant; its reply may be lost |
| the grant | a key of ReferenceServer whose project is the Run |
| `load_adapter` before the `try` | `LoadFails` |
| `require_runner_id` | `FreshId`: a new runner, or `OwnId`, the one `--runner-id` names |
| `_run_with_client`, the loop | `Execute`, `Step`, `Serve`, `Beat` |
| the `finally` clause, the check of `run_ids` | `Release`, `reported` |
| a kill | `Killed`: the grant stays, a posted request may arrive later |

The control plane's server is not in this repository. That an attempt id names one Run and
that a grant is bound to it is what the CLI's help says, and is assumed. In FairSpec every
command is repeated, and `OrphanAges` lets the lease of a claim whose answer died with its
process run out: nobody knows its token, so nothing renews it.

### TurnCall
`_with_heartbeat` as two tasks of one event loop, and what `_run_case` makes of the result.
What comes of asking the endpoint is one of nine things (`Provider`); `SendResult` is what the adapter of
`examples/llm-api` makes of each, `Stage` what `normalize_exception` makes of that. The adapter catches
`httpx.HTTPError` after the timeout, so what it takes for an endpoint out of reach includes an answer that
cannot be decoded and a request that cannot be sent (`Misjudged`); too many redirects do not occur, as
none is followed, and an address that is no URL is no `HTTPError` (stage `adapter`, like a refusal).
`BeatAnswered` is a heartbeat with its retries: renewed, lost, or dead of an error; `Leave` and
`CallReturns` are the `finally` clause. Errors of the runner's own calls are no
`AdapterError`: they end up at stage `adapter`; `RunnerError.to_execution_error` (stage
`runner`) is never called.

A process may end anywhere in a case (`Interrupted`, `FailureEscapes`). What it leaves is the
pending turn, and the report if there was one to send (`saved`). The next process calls the
pending turn again after replaying the earlier inputs (`CaseResumed`, `ReplayFails`), or sends
the report again: it may be recorded and answered (`ReportServed`, `ReportAccepted`), or fail, and then this
failure is what is reported under the same key (`ReportReplaced`). The orchestrator goes by the key: a report it
has recorded is accepted whatever has taken its place since, and before the lease is looked at. A report recorded
whose answer is lost to a process that lives on is RunnerSystem's (run `reply_lost`). Adapters whose `close`
raises anything but an `AdapterError` are left to RunnerLoop (`CloseAndLeave`).

### RunnerProcess
`redbeak runner start`: the loop around the cases.

| Code | Model |
|---|---|
| `runner_start`, the options | `Start`; `options.drain` is `--until-idle` (or neither), `options.wait` is `--wait` |
| `_graceful_stop`: the first signal, the second, a kill | `StopRequested`, `Killed` |
| leftover checkpoint, `_resume_case` | `ResumeAlive`, `ResumeLost`, `ResumeFails`; `ReportSent`, `ReportFails`, `ReportEscapes` |
| the head of the loop looks at the stop event | `GoOn` |
| `client.claim` | `ClaimGranted`, `ClaimEmpty`, `ClaimFails` |
| `_next_backoff`, the wait for the stop event with a timeout | `NextBackoff`, `WaitElapses` |
| `_run_case` | `CaseGoesOn` (the steps of TurnCall), `CaseEnds`, `CaseEscapes` |
| `if once: break` | `OnceDone` |
| the orchestrator meanwhile | `WorkArrives`, `Elsewhere` |

A process that wants both `--wait` and `--once` waits for one case. A leftover case is not
the one case of `--once`: where a checkpoint was left over, that case is finished first, and then
one is claimed and executed, two in all. The docs say otherwise: the docstring of the loop (`loop.py:89`) and
of the command (`cli.py:166`) have `--once` "execute a single case", the help (`cli.py:148`) has it claim and execute
one. `EndsForAReason` states what the code keeps, that no second case is *claimed*; that the
two texts are wrong after a restart follows from `OnceDone` at once (`not leftover`: `loop.py:99-110` does not
look at the option) and needs no run. `tally` is history: it counts for the properties and steers nothing.

### SessionStore and IsolatedSessions
The store over references: `states[s]` is an object, `content[o]` what is in it. Code that serves a
session keeps any reference it was ever given, also across resets; observers keep
snapshots, the adapter keeps its fixture, and all of them write. `deepcopy` puts a copy
where nobody refers to. IsolatedSessions has values instead of objects; the refinement reads
`state[s]` off as the content of the object of s.

## 3. Runs

Passing runs. Sizes are distinct states.

| Run (cfg) | Instance | Question | States |
|---|---|---|---|
| `server_shared` (ServerShared) | 2 runners, 2 cases (2 turns and 1) of one project, a key of this and one of another project, 2 idempotency keys, 2 leases, any request | Do leases, turns and completions stay consistent when everything races, can a foreign or revoked key reach a case, and does the server implement EvidenceLog? | 21,333 |
| `system_lossy` (SystemLossy) | 2 runners, 1 case of 2 turns, the first with an observation; kill, a faulty attempt, a tick, 2 takes | Do recorded answers come from an intact conversation, does a turn key name one body, is the evidence of a first lease what was recorded and its lineage whole, and can handovers alone produce an `execution_failed`? | 975,580 |
| `system_raises` (SystemRaises) | target and disk may raise anywhere, manifests may be refused, retries, expiry | Is a completed case complete, does the checkpoint trail the server, and is nothing attempted too often? | 448,672 |
| `grants_recovery` (GrantsRecovery) | 1 Run of 2 cases, a new or the old runner id at each start, a kill, a tick | Does repeating the command finish the Run, and does a grant end with its command? | 294,652 |
| `grants_two_runs` (GrantsTwoRuns) | 2 Runs in one directory, a kill, an expiring grant, a failing control-plane call, a missing adapter | Can a command report a case of another Run? | 263,277 |
| `call_beating` (CallBeating) | a runner process, started again and again with any options, signals and kills at any point; cases of 2 turns, an adapter of either kind, heartbeats, restarts | Is a target blamed wrongly or let off; does a call always return; does a process end for a reason, promptly, and without abandoning a case; does it find work? | 224,622 |
| `sessions` (Sessions) | 2 sessions, 2 values, 5 objects | Does the store isolate sessions, whoever keeps which reference? | 98,976 |

What the properties say:

* `LeaseDiscipline`, `OneLeasePerRunner`: a held case has the newest lease granted for it,
  in the name of its claimer, and it is its only live one; a runner holds one case per project.
* `GaplessTurns`, `TerminalMeansSealed`: the cursor, turns, keys and stored answers agree; a case is
  terminal exactly when a completion is recorded, and with the status that calls for.
* `TokensOnlyDegrade`: the server's word on a token goes ok -> lease_expired ->
  lease_invalid and never back, although the flag it is computed from is cleared again at expiry.
* `EvidenceUnderLease`: evidence is written for one case at a time, under a lease with time left.
* `ProjectIsolation`: without an active key of its project a case can at most lose its lease.
* `ImplementsLog`: the server refines EvidenceLog.
* `ConversationIntact`: turn n was answered by a session that had heard exactly inputs 0..n.
* `TurnKeyFixesBody`: whatever is sent, saved or recorded under a turn's key is one submission.
* `CompletedRanToEnd`: nothing in the server checks that a completion comes at the end of
  the script or that a turn is within it; the runner's order of calls does.
* `CheckpointTrailsServer`: the checkpoint never claims a turn the server does not have.
* `FirstLeaseEvidence`: until a case is granted again, the turns on a runner's disk are the recorded ones, though a
  restarted target may answer differently. `ArtifactsMatchServer`, the same without the exception and with
  completions, is what run `reclaim` refutes.
* `LineageResolves`: until a case is granted again, whatever a manifest describes, and every artifact it
  names as a parent, lies on disk as it was described, although body and manifest are two writes and a restart
  writes both again. Of the manifest of a completion only the parents are claimed: it may describe an earlier
  report than the body beside it, when the process ended between the two files of a second one.
* `LineageComplete`: without a restart the completion names every turn and every observation of its case.
  After one it names only those since, because `parent_ids` starts empty in every `_run_case`.
* `NoFalseFailure`: kills, restarts and handovers alone never produce an `execution_failed`.
* `GrantDiesWithCommand`: an active grant belongs to a running command, unless the command was killed or a
  call of the control plane failed.
* `ResultsOfTheRun`: `cli.py` checks that no case of another Run was executed and says this can only
  happen if scoping failed. It also honours any leftover checkpoint first; the property shows
  that the comment is right.
* `RunFinishes`: with a new runner id per start, recovery rests on the expiry of the lease left behind; with
  the old one, on `claim` returning that lease. `CasesFinish` is the same promise of `redbeak run`.
* `NeverBlamesUnlessMisjudged`, `HeldToAccountUnlessMasked`: the two directions of the distinction
  `errors.py` exists for, also across restarts, each with the exception the code makes. Blamed is only what the
  adapter takes for an endpoint out of reach; without that exception it is `NeverBlamesTheTarget`, which run
  `target_blamed` refutes. An error of the runner's own calls may take the target's place:
  that of a heartbeat, or that of sending a saved report again; without that exception the
  second is `TargetHeldToAccount`, which run `target_masked` refutes.
* `CallReturnsInTheEnd`: the `finally` clause never waits for ever.
* `EndsForAReason`: a process that is not killed and does not fail ends only because it was stopped; because it need not
  wait and the last answer to its claims was that there is no work; or with the one case claimed under `--once`.
  After a case, without `--once` and a signal, it asks again before it ends.
* `NothingAbandoned`, `StopIsPrompt`: a process that returned, was stopped, or claims and waits, has no
  checkpoint; after a signal at most the one case is begun whose claim or heartbeat was on its way.
* `StopEnds`, `WorkIsFound`: a stop signal ends the process if the target answers in the end (a premise of
  the property); a waiting runner takes up work that arrives.
* `PollsSlowDown`: hints never make the polls faster than doubling would, and never slower than the bound.
* `NoSharedObjects`, `ImplementsIsolation`: no two holders share an object, and so no write shows elsewhere.

**Violated runs.** Each states what the documentation promises and shows a behaviour
of the code that breaks it. `PROJECT.json` quotes the lines.

| Run | Promise | What happens |
|---|---|---|
| `reply_lost` | resumes after interruption; resends the same completion | every reply to an accepted completion is lost; the handler forgets the saved completion, mints a new key and reports a failure; 409 `already_completed` at this and every later start |
| `reclaim` | evidence is written after the server accepted it | a reclaimed case runs again from input 0; the server replays by sequence, and the runner files answers that were never recorded |
| `refused_assignment` | a refused payload becomes an adapter-stage error | `from_assignment` runs outside the handler: the process dies at every start and nothing is recorded |
| `target_blamed` | `target_unavailable` is the provider, never this client | `except httpx.HTTPError` takes an answer that cannot be decoded, and a request that cannot be sent because of its address or a header, for an endpoint out of reach |
| `target_masked` | a target that crashed is not filed as an adapter fault | a heartbeat fails as well; the `finally` clause raises its error in place of the target's, and that is filed under `adapter` |

The handler of `reply_lost` shows the same weakness elsewhere. If the lease expires before a
completion is sent and another runner completes the case, `already_completed` is answered
before the lease is looked at, and is no lost lease for the client: the first runner fails
at every start. And a restart with a saved completion that fails in transport rewrites it
into a failure under the same key.

One more promise is broken without a run of its own, because a glance shows it: the grant of `runs create --execute` is
"released when the command finishes", "even on failure", but `load_adapter` (`cli.py:704`) runs after the grant was issued and before the
`try` that releases it. With an adapter that cannot be loaded (`LoadFails`, which `grants_two_runs` exercises) the grant
stays active; `GrantDiesWithCommand` is therefore checked, and proved, for an adapter that can be.

**Bounds.** `MaxLeases` never binds in the system runs: deadlock is checked everywhere, and
once it bound, a claim could not be served and the system would stop. In the server run it
bounds the history to two grants, enough for a token to be current, to run out, and to be
superseded by one that runs out in its turn; longer histories are covered by the proofs.
`LeaseTTL` is one tick: what matters is only whether a lease was overdue at a request, and
every order of ticks and requests is explored. Requests carry sequence numbers up to
`MaxSequence` = 1, one beyond the one-turn script. Two takes are enough to tell two answers
apart. One case of two turns has a first, a middle ("continue") and a last step, the second
case shows that leaving one for another is right. `MaxCrashes`, `MaxFaults` and `MaxTicks`
(1 or 2) bound how often the environment interferes; a defect of these protocols shows with
a kill, a late duplicate and an expiry combined, which the runs allow. `Attempts` is 1 or 2:
what retrying adds is one request served twice. Symmetry is used for runners only where no
liveness is checked. In GrantedRuns `GrantIds` and `RunnerIds` bound how many grants and
runner ids are in use at once, not over time: one that is over and that no request on its
way carries stands for a new one. Three grants per Run cover one in use, one left by a kill
and one that a late request carries. TurnCall needs two turns for a single-turn adapter to
meet one it refuses; which kind the adapter is is left open. In SessionStore five objects
are the fixture, two states and two snapshots, or fewer of those and references kept from
before a reset; when all are in use a copy has to wait until one is forgotten. In
`system_raises` `MaxParents` is 2, fewer than the two turns and the observation of the case, so that
the manifest of its completion is refused; elsewhere it is the 64 of the schema. In RunnerProcess the polls
wait between `PollMin` 1 and `PollMax` 5 seconds, one hint (3) lies between the bounds and one (9) above; `MaxWork` 1
tells an empty queue from one that is not; `tally` counts to 2 claims and 3 idle answers, the values beyond being
the same to the properties. The proofs cover any number.

**Fairness.** `FairSpec` assumes weak fairness of `Start`, `Step` and `Serve` per runner:
the event loops of runner and server run what is ready, and a runner that ended is started
again (the recovery the runner's README describes). Ticks, network faults, late arrivals,
heartbeats and kills are owed nothing; they are bounded, so they stop in the end. In
GrantedRuns the command is in addition repeated with each attempt id (weak fairness of
`CreateRun`), as its help advises for a lost response, and an orphaned lease runs out. In
TurnCall the event loop runs a task that is ready, and a heartbeat call ends, since the HTTP
client has a timeout and retries are bounded; the endpoint and the heartbeat's timer are
owed nothing, so the call need not return while the target is silent: the loop sets no
deadline of its own. In RunnerProcess, likewise, every call of the orchestrator and every wait between polls
ends, and the event loop runs what can run; nobody has to start a process, signal it, or queue
work. That the target answers in the end is a premise of `StopEnds`, and of nothing else.

**Deadlock** is checked in every run: in the server time can always pass; in the system a
runner can always be started, in GrantedRuns a command, in TurnCall a case, in RunnerProcess
a process; references can always be written through.

## 4. Proofs

`ReferenceServerProofs` proves, for every value of the constants that satisfies
`ConstantsAssumption` and `NoneAssumption` (any number of cases, runners, keys,
projects; any script lengths, any bounds), every property the server run checks:

| Theorem | Property |
|---|---|
| `TypeCorrect` | `TypeOK` |
| `LeasesDisciplined` | `LeaseDiscipline` |
| `RunnerHoldsOne` | `OneLeasePerRunner` |
| `TurnsGapless` | `GaplessTurns` |
| `TerminalSealed` | `TerminalMeansSealed` |
| `TokensDegrade` | `TokensOnlyDegrade` |
| `EvidenceNeedsLease` | `EvidenceUnderLease` |
| `ProjectsIsolated` | `ProjectIsolation` |
| `Refinement` | `ImplementsLog` |
| `Invariance` | the inductive invariant `IInv` all of these rest on |

*The inductive invariant.* Taken one by one the checked invariants are not inductive:
that a lease is granted to a free runner needs `LeaseDiscipline`, to know that the
table of leases and `claimed_by` tell the same; that turns stay gapless needs the
type of the cursor; that a sealed case is not granted again needs both. `IInv` is the
conjunction of all, arranged *per case* (`CaseInv`: type, lease, turns, seal), plus
`OnePerRunner` across cases. Almost every action changes one case and
leaves the others as `Settled` has them, so the proof has three layers: settling preserves
`CaseInv`; each handler preserves it for the case it works on; a lemma puts
the cases together. The lemma `InvariantParts` shows that `IInv` is the
conjunction of the invariants that TLC checks.

*Action properties and refinement.* `StepEffects` says once, for each step, what becomes of the
evidence (nothing, one turn, or one completion, and under which lease);
`StepLeases` what becomes of the lease table. The four temporal results follow from these
and `IInv`. For the refinement, an accepted turn is `Record`, an accepted completion is
`Seal`, anything else a stutter.

`RunnerHttpProofs` has no theorem of its own. It says what one request does, for the proofs of the
systems built on it: `Effect(req)` (the evidence gains at most the turn, or the completion, that the request
carries), that a served request keeps `IInv`, and what can be concluded from its answer.

`RunnerSystemProofs`, for any number of runners and cases, scripts of any length, any number of
kills, faults, retries and late requests, and whatever raises:

| Theorem | Property |
|---|---|
| `ConversationStaysIntact` | `ConversationIntact` |
| `KeysFixBodies` | `TurnKeyFixesBody` |
| `CompletionMeansTheEnd` | `CompletedRanToEnd` |
| `CheckpointStaysBehind` | `CheckpointTrailsServer` |
| `SystemTypeCorrect` | `TypeOK` |
| `SystemInvariance` | the inductive invariant `SysInv` they rest on |

*The argument.* Since a request may be late, none of these properties can be kept by what a runner does
*now*. So `SysInv` says of every request that is on its way, or saved to be sent again, that it is `Good`: it may
be served at any time and any number of times. A good turn carries the conversation of its own sequence
number, under a key handed out before; a good completion that says "completed" belongs to a case whose script has been
recorded to its end, which no later step can undo. `Sound` says the same of a checkpoint, `ProcSound` that what a
process has in memory agrees with its checkpoint at each await, and `Fresh` that nothing is on its way,
or recorded, under the key of a turn that has no submission yet: this is what makes the
next submission the only one. A step of the orchestrator is used through `Effect` alone; a step of a runner
through the lemma `LocalStep`, which asks only what the runner sends and saves. Types are proved
on top of it (`TypeInv`): that a file is typed rests on the request it was made of being `Good`.
Assumed is `SystemAssumption`: scripts are not empty, a lease lasts at least a tick, a call is attempted at
least once (`retry_call` takes `max(1, attempts)`), and `None` is told apart from other values.

`RunnerFailureProofs`: `FailuresAreFailures` proves `NoFalseFailure`. Runners *do* report failures
when nothing failed: one that lost its case to another is refused with `already_completed`, takes that
for an error and reports `execution_failed`. The invariant `Blameless` says that such a report is only ever made of
a case already sealed, where it is refused as well. It rests on two facts about answers: a turn
not beyond the cursor is refused only because of the lease or the seal, and a completion answered otherwise than
by a lost lease leaves its case sealed.

`RunnerEvidenceProofs`, again for any number of runners, cases, kills, faults, retries and late requests:

| Theorem | Property |
|---|---|
| `EvidenceOfFirstLease` | `FirstLeaseEvidence` |
| `LineageLeadsToBytes` | `LineageResolves` |
| `LineageIsComplete` | `LineageComplete` |
| `LeasesHold` | the invariant `LeaseInv` they rest on |

*The argument.* All three speak of a case that was granted once, which no step can see while it is so: the evidence
is filed first, and a second grant may come at any time. So the invariants carry `AtMostOnce(c)` as a premise, which a step
can only destroy, and there are three, one on top of the other.

1. `LeaseInv` follows the lease. What a runner works on was granted to it (`Bound`), and what it was told of its lease, or
   of its report, is still so (`Told`): a lease that was lost never comes back. Of a case granted once nothing is recorded, or
   on its way, that its one runner has not prepared (`Leads`), and of each turn at most one submission (`OneSubmission`).
   For a new submission to be the only one, its sequence number has to be untouched, and for that a runner that is handed the
   case must find it untouched (`Opens`). The orchestrator also hands out a lease a second time, to a runner that comes back
   to claim, and this is where the argument could fail: `Keeps` says that the holder of a case that was touched still
   has its checkpoint, and so does not claim. A checkpoint goes only when the lease is lost or the case sealed,
   and then nobody holds it.
2. `FileInv` says of every file what `FirstLeaseEvidence` and `LineageResolves` say, and of `parent_ids` that they name
   artifacts whose bytes are there. A file is written over only by one of its name; for a turn of a case granted once
   that carries the same bytes, since both are what was recorded under the one sequence number (`BytesStay`).
3. `WholeInv`, while no process is killed. The process that reports the end of a case is then the one that went through
   all of its turns, unless it ended of its own: because the target's `close` raised after the lease was lost, or because
   the assignment was refused. Such a process leaves a checkpoint that is taken up again with empty `parent_ids`, and the
   invariant says why no manifest comes of it: the lease it names is lost, or its case is `Barren`, held by nobody
   and not sealed, and stays so unless it is granted a second time.

From the orchestrator they need what becomes of leases in one step and what an answer says of them: the part "Leases" of
`RunnerHttpProofs`. Assumed is in addition, for the last theorem alone, `ObservedAssumption`: observations are requested of
turns of a script, since a request for one comes with the turn.

`GrantedRunsProofs`, for any number of Runs, grants and directories, kills and failing calls:

| Theorem | Property |
|---|---|
| `GrantsDieWithCommands` | `GrantDiesWithCommand`, where the adapter can be loaded (see the violated runs) |
| `ResultsOfItsRun` | `ResultsOfTheRun` |

For the second, `ResultInv` says that a completion answered with success, or with a lost lease, was authorized:
`_authorized_case` comes before every other check, so the case is of the Run of the grant it was sent with,
and that is the grant of the command that counts the result. Assumed is that `None` is no grant.

`RunnerProcessProofs`, of TurnCall, for scripts of any length and either kind of adapter:

| Theorem | Property |
|---|---|
| `TypeCorrect` | `TypeOK` |
| `OnlyMisjudgedBlamed` | `NeverBlamesUnlessMisjudged` |
| `OnlyRunnerErrorsMask` | `HeldToAccountUnlessMasked` |

A recorded stage says nothing about how it came about, so the invariant follows the failure
along its way: what `sent`, then `outcome`, then `saved` hold is a `TargetUnavailableError`, or its stage, only
if the endpoint was not available, or was taken for that, *in this turn*, and conversely unless an error of the
runner took its place; each is tied to the position in the code where it is read, so that
nothing of an earlier turn is filed.

And of the process, for any options, signals, queue and polling bounds:

| Theorem | Property |
|---|---|
| `ProcessImplementsCalls` | `ProcessSpec => Spec`: every process takes a case through TurnCall's steps alone |
| `ProcessBlamesOnlyMisjudged`, `ProcessHoldsToAccount` | the two above, of processes |
| `ProcessTypeCorrect` | `ProcessTypeOK` |
| `CasesAreNotAbandoned` | `NothingAbandoned` |
| `ProcessEndsForAReason` | `EndsForAReason` |
| `StopsPromptly` | `StopIsPrompt` |
| `PollsDoSlowDown` | `PollsSlowDown` |

For `EndsForAReason`, `Accounted` ties the counts to where the loop is: before a claim nothing has been claimed under
`--once`, in a case it is the leftover one or the first claimed. For the last, `Backed` says of every running process what `PollsSlowDown` says of a waiting one: that the backoff has
kept up with the doubling. That needs the hint to count only where it is larger, and the bounds to be applied last.
The tally of idle answers ends at 3, so the powers of two are four numbers, and no induction is needed.

`SessionStoreProofs`, for any number of sessions, values and objects:

| Theorem | Property |
|---|---|
| `NothingShared` | `NoSharedObjects` |
| `StoreIsolates` | `ImplementsIsolation` |

`NoSharedObjects` is inductive with its types; the lemma `CopyIsNew` says what a deep copy
gives. The refinement follows from it: a write through a reference held for s is seen in the
state of s or nowhere, since no other session, snapshot or fixture has that object.

*Only model-checked* is liveness (`RunFinishes`, `CallReturnsInTheEnd`, `WorkIsFound`, `StopEnds`),
which is beyond the prover. Every other property of a passing run is stated by a theorem.

## 5. Not modelled, and why

* **Contracts**: JSON Schema validation, OpenAPI texts, fixtures and their build-time bundling: documents,
  no behaviour over time. The one limit that steers control, 64 parents of a manifest, is in RunnerLoop.
* **Stored credentials** (`credentials.py`): one file, read at the start of a command and written by `auth`,
  shared with no other component. It is truncated and then written, so a kill in between leaves an empty file; one write
  of one file has no interleaving for a model to explore, and the hazard is listed without a property.
* **SDK models and guards**: parsing and validation of payloads. That `from_assignment` may refuse an assignment,
  and where that exception goes, is modelled (`Refused`).
* **Logging, adapter discovery, console output, digests and file names**: text or import machinery that no modelled
  decision depends on. The list of `CaseResult`s matters only to `cli.py`'s check of the Runs, and is in GrantedRuns.
* **CLI**: `doctor` and the read-only commands keep no state, `auth` only the credential file.
* **The control plane's server** is not in this repository; it is modelled as far as the CLI relies on it.
* **`call_with_timeout` and `deadline_ms`**: nothing in the runner uses them.
* An attempt id that the CLI generated itself is printed only with the reply of `create_run`; that a lost reply
  then leaves a Run nobody can name is not a property of the model, in which attempt ids are known.
* **What an observation contains**: the model has that one is taken, and filed, for the turn it belongs to.

## 6. Plan

What was planned is there: the server, the loop, the composed system, grants, calls and processes are modelled, and
their safety is proved. What could follow, most important first:

1. **One specification of the runner**: RunnerProcess over RunnerSystem in place of TurnCall, so that options and signals
   meet checkpoints with content. The product is out of TLC's reach in the present bounds; a refinement between the two
   would do: a case of RunnerSystem, seen through whether there is a checkpoint and what report it holds, behaves as TurnCall
   without heartbeats says.
2. **Types of GrantedRuns**, and what a command reports in the order it was done.
3. **Observations** with content, and the capability stripped from them before they are filed.
