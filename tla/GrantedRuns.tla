---------------------------- MODULE GrantedRuns ----------------------------
(***************************************************************************)
(* "redbeak runs create --execute" (redbeak_runner/cli.py): a command      *)
(* creates a Run at the control plane, or finds the one its attempt id had *)
(* created before, is given a short-lived runner key bound to that Run,    *)
(* executes the Run with the runner loop under this grant, and releases    *)
(* the grant.  Somebody keeps invoking it, with the attempt ids they like, *)
(* in a working directory whose checkpoint outlives every invocation.      *)
(*                                                                         *)
(* The control plane is not part of the repository.  What the command      *)
(* relies on is modelled: one Run per attempt id (a Run is named by its    *)
(* attempt), and a grant that is a runner key whose scope is the Run, at   *)
(* an orchestrator that treats scopes as ReferenceServer treats projects.  *)
(***************************************************************************)
EXTENDS RunnerLoop

CONSTANTS Attempts,      \* attempt ids, each naming the Run it creates
          RunOf,         \* the Run of each case
          ScriptOf,      \* the cases of each Run in their order
          GrantIds,      \* grants per Run that can be active or under way at once
          RunnerIds,     \* runner ids that invocations make up
          OwnId,         \* the one that --runner-id names, None if it is never given
          TurnCount, LeaseTTL,
          AdapterMayBeMissing,  \* whether load_adapter may raise
          MaxLeases,     \* bound: leases granted
          MaxKills,      \* bound: invocations killed
          MaxFaults,     \* bound: calls of the control plane that fail
          MaxTicks,      \* bound: ticks of the clock while leases are in use
          MaxExpiries    \* bound: grants expiring while a command uses them

Grants == Attempts \X GrantIds

ASSUME GrantsAssumption == None \notin Grants

VARIABLES keyState, queue, cases, leases,   \* the orchestrator's state
          command,      \* command[r]: the invocation running in directory r
          reported,     \* reported[r]: cases its RunResult lists
          lost,         \* grants whose command was killed, or whose call was lost
          late,         \* requests of killed invocations, still on their way
          spent         \* how much of each bound has been used

serverVars == <<keyState, queue, cases, leases>>
shellVars == <<command, reported, lost>>
vars == <<loopVars, serverVars, shellVars, late, spent>>

Server == INSTANCE RunnerHttp WITH
    Runners <- (RunnerIds \union {OwnId}) \ {None}, Keys <- Grants, Projects <- Attempts,
    ProjectOf <- RunOf, KeyProject <- [k \in Grants |-> k[1]],
    IdemKeys <- Runners \X Nat,
    Outputs <- [heard : Seq(Nat), take : Takes],
    MaxSequence <- 0

NoCommand == [at |-> "idle", attempt |-> None, grant |-> None, id |-> None]

Init == /\ InitLoop
        /\ keyState = [k \in Grants |-> "absent"]
        /\ queue = << >>
        /\ cases = [c \in Cases |-> Server!NoCase]
        /\ leases = << >>
        /\ command = [r \in Runners |-> NoCommand]
        /\ reported = [r \in Runners |-> {}]
        /\ lost = {}
        /\ late = {}
        /\ spent = [kills |-> 0, faults |-> 0, ticks |-> 0, expiries |-> 0]

-----------------------------------------------------------------------------
(* The control plane *)

\* A grant never issued, or one that is over and forgotten, stands for a new one.
FreshGrants(a) ==
    {k \in Grants : k[1] = a /\ keyState[k] # "active" /\ \A m \in late : m.grant # k}

\* The first call with an attempt id queues every case of its Run, later ones
\* find the Run; either way the call issues a grant k of its own.
RunCreated(a, k) ==
    /\ IF \E n \in DOMAIN queue : RunOf[queue[n]] = a
       THEN UNCHANGED <<queue, cases>>
       ELSE /\ queue' = queue \o ScriptOf[a]
            /\ cases' = [c \in Cases |->
                  IF RunOf[c] = a THEN [cases[c] EXCEPT !.status = "queued"] ELSE cases[c]]
    /\ keyState' = [keyState EXCEPT ![k] = "active"]
    /\ UNCHANGED leases

GrantExpires ==
    /\ \E k \in Grants :
          /\ keyState[k] = "active"
          /\ keyState' = [keyState EXCEPT ![k] = "revoked"]
          /\ IF \E r \in Runners : command[r].grant = k
             THEN spent.expiries < MaxExpiries
                  /\ spent' = [spent EXCEPT !.expiries = @ + 1]
             ELSE UNCHANGED spent
    /\ UNCHANGED <<loopVars, queue, cases, leases, shellVars, late>>

Fault == spent.faults < MaxFaults /\ spent' = [spent EXCEPT !.faults = @ + 1]

-----------------------------------------------------------------------------
(* The command: runs_create, _create_and_execute, _execute_run *)

\* create_run is not repeated: if its reply is lost the command ends, and
\* nobody knows the grant that was issued.
CreateRun(r, a) ==
    /\ command[r].at = "idle"
    /\ FreshGrants(a) # {}
    /\ LET k == CHOOSE k \in FreshGrants(a) : TRUE IN
          /\ RunCreated(a, k)
          /\ \/ /\ command' = [command EXCEPT ![r] =
                       [NoCommand EXCEPT !.at = "created", !.attempt = a, !.grant = k]]
                /\ lost' = lost \ {k}
                /\ UNCHANGED spent
             \/ Fault /\ lost' = lost \union {k} /\ UNCHANGED command
    /\ UNCHANGED <<loopVars, reported, late>>

\* The adapter is loaded before the block that releases the grant is entered.
LoadFails(r) ==
    /\ AdapterMayBeMissing /\ command[r].at = "created"
    /\ command' = [command EXCEPT ![r] = NoCommand]
    /\ UNCHANGED <<loopVars, serverVars, reported, lost, late, spent>>

\* require_runner_id: without --runner-id an invocation is a new runner.
FreshId ==
    CHOOSE id \in RunnerIds : /\ \A c \in Cases : cases[c].claimed_by # id
                              /\ \A m \in late : m.id # id
                              /\ \A r \in Runners : command[r].id # id

Execute(r) ==
    /\ command[r].at = "created"
    /\ Boot(r)
    /\ \E id \in {FreshId, OwnId} \ {None} :
          command' = [command EXCEPT ![r].at = "executing", ![r].id = id]
    /\ reported' = [reported EXCEPT ![r] = {}]
    /\ UNCHANGED <<serverVars, lost, late, spent>>

\* The steps of the loop that return a CaseResult: the case was completed, or
\* its failure was reported, whether or not the report found the lease lost.
ReturnsResult(r) ==
    /\ CompletionAccepted(r) \/ FailureRecorded(r) \/ FailureUnwanted(r)
    /\ LeaveCase(r)

Step(r) ==
    /\ Proceed(r)
    /\ reported' = [reported EXCEPT ![r] =
          IF ReturnsResult(r) THEN @ \union {proc[r].request.case} ELSE @]
    /\ UNCHANGED <<serverVars, command, lost, late, spent>>

\* Variation: a command that executed no case keeps its grant.
ReleasedAfterWork(r) ==
    IF reported[r] # {} THEN [keyState EXCEPT ![command[r].grant] = "revoked"] ELSE keyState

Released(r) == [keyState EXCEPT ![command[r].grant] = "revoked"]

\* The loop is over, by a return or an exception: the grant is released, and if
\* this call fails that is passed over in silence.  The results are printed.  (Every
\* grant here has a key id: one without would not be released.)
Release(r) ==
    /\ command[r].at = "executing" /\ At(r, "off")
    /\ \/ keyState' = Released(r) /\ UNCHANGED <<lost, spent>>
       \/ Fault /\ lost' = lost \union {command[r].grant} /\ UNCHANGED keyState
    /\ command' = [command EXCEPT ![r] = NoCommand]
    /\ reported' = [reported EXCEPT ![r] = {}]
    /\ UNCHANGED <<loopVars, queue, cases, leases, late>>

-----------------------------------------------------------------------------
(* Requests of the loop, time and kills *)

Pending(r) == proc[r].request # None /\ proc[r].answer = None

Serve(r) ==
    /\ Pending(r)
    /\ Server!Serves(command[r].grant, command[r].id, proc[r].request)
    /\ proc' = [proc EXCEPT ![r].answer =
          Server!Reply(command[r].grant, command[r].id, proc[r].request)]
    /\ UNCHANGED <<disk, minted, artifacts, shellVars, late, spent>>

Beat(r) ==
    /\ At(r, "send") /\ Server!Authentic(command[r].grant)
    /\ Server!Heartbeat(command[r].grant, proc[r].current.case, proc[r].current.lease)
    /\ UNCHANGED <<loopVars, shellVars, late, spent>>

LateArrives ==
    /\ \E m \in late : Server!Serves(m.grant, m.id, m.request) /\ late' = late \ {m}
    /\ UNCHANGED <<loopVars, shellVars, spent>>

\* The whole command is killed; its grant is not released, and a request it had
\* posted is gone or arrives later.
Killed(r) ==
    /\ spent.kills < MaxKills
    /\ \/ command[r].at = "created" /\ UNCHANGED loopVars
       \/ Crash(r)
    /\ late' \in IF Pending(r)
                 THEN {late, late \union {[grant |-> command[r].grant, id |-> command[r].id,
                                           request |-> proc[r].request]}}
                 ELSE {late}
    /\ lost' = lost \union {command[r].grant}
    /\ command' = [command EXCEPT ![r] = NoCommand]
    /\ reported' = [reported EXCEPT ![r] = {}]
    /\ spent' = [spent EXCEPT !.kills = @ + 1]
    /\ UNCHANGED serverVars

Tick ==
    /\ spent.ticks < MaxTicks
    /\ Server!Tick
    /\ spent' = [spent EXCEPT !.ticks = @ + 1]
    /\ UNCHANGED <<loopVars, shellVars, late>>

\* The leases that the checkpoint of r, or a claim it has just been answered, names.
KnownTo(r) ==
    (IF disk[r] = None THEN {} ELSE {disk[r].lease})
    \union (IF Answered(r, "claim") /\ proc[r].answer.verdict = "leased"
            THEN {proc[r].answer.lease} ELSE {})

\* Cases under a lease that nobody knows (any more, or yet).
Orphans == {c \in Cases : /\ cases[c].left > 0
                          /\ \A r \in Runners : cases[c].lease \notin KnownTo(r)}

\* Time passes until the lease of a claim whose answer was lost has run out.
OrphanAges == /\ Orphans # {}
              /\ Server!Tick
              /\ UNCHANGED <<loopVars, shellVars, late, spent>>

Next == \/ \E r \in Runners : \/ \E a \in Attempts : CreateRun(r, a)
                              \/ LoadFails(r) \/ Execute(r) \/ Step(r) \/ Release(r)
                              \/ Serve(r) \/ Beat(r) \/ Killed(r)
        \/ GrantExpires \/ LateArrives \/ Tick \/ OrphanAges

Spec == Init /\ [][Next]_vars

\* The command is invoked again and again with every attempt id; what it has
\* under way goes on; an abandoned lease runs out in the end.
Fairness ==
    /\ \A r \in Runners :
          /\ \A a \in Attempts : WF_vars(CreateRun(r, a))
          /\ WF_vars(Execute(r)) /\ WF_vars(Step(r)) /\ WF_vars(Serve(r)) /\ WF_vars(Release(r))
    /\ WF_vars(OrphanAges)

FairSpec == Spec /\ Fairness

-----------------------------------------------------------------------------
(* Correctness *)

\* A grant is active only while the command it was issued to is running, unless
\* the command was killed or a call of the control plane failed (_execute_run,
\* the finally clause).
GrantDiesWithCommand ==
    \A k \in Grants : keyState[k] = "active" =>
       k \in lost \/ \E r \in Runners : command[r].grant = k

\* Whatever checkpoint it finds, a command reports only cases of the Run it was
\* asked to execute: its check of result.run_ids never fails (_execute_run).
ResultsOfTheRun ==
    \A r \in Runners : \A c \in reported[r] : RunOf[c] = command[r].attempt

\* Commands that are repeated with one attempt id bring the Run to its end,
\* whether an invocation is a new runner to the orchestrator or the old one.
RunFinishes ==
    <>[](/\ \A c \in Cases : cases[c].status \in Server!Terminal
         /\ \A r \in Runners : disk[r] = None)
=============================================================================
