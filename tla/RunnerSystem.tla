--------------------------- MODULE RunnerSystem ---------------------------
(***************************************************************************)
(* Runners, the orchestrator and the network between them.                 *)
(*                                                                         *)
(* A request is served as one step of RunnerHttp, at any time after it was *)
(* posted.  An attempt may fail in transport (client._post) before         *)
(* or after it was served; retry_call repeats it a bounded number of times *)
(* and then gives up.  An attempt that was given up, or whose process was  *)
(* killed, may still reach the server later.  All cases belong to the      *)
(* project of the one runner key, and are enqueued before the runners      *)
(* start, as load_work does.                                               *)
(***************************************************************************)
EXTENDS RunnerLoop

CONSTANTS RunnerKey,    \* the key all runners authenticate with
          Project,
          Script,       \* the cases in the order of the work file
          TurnCount,    \* the length of each case's script
          LeaseTTL,     \* LEASE_TTL, in ticks
          Attempts,     \* attempts of retry_call
          MaxLeases,    \* bound: leases granted
          MaxCrashes,   \* bound: processes killed
          MaxFaults,    \* bound: attempts failing in transport
          MaxTicks      \* bound: ticks of the clock

VARIABLES keyState, queue, cases, leases,   \* the orchestrator's state
          late,         \* requests of attempts already given up, still on their way
          spent         \* how much of each bound has been used

serverVars == <<keyState, queue, cases, leases>>
vars == <<loopVars, serverVars, late, spent>>

-----------------------------------------------------------------------------
(* What is sent and what is saved *)

Keys == Runners \X Nat
Outputs == [heard : Seq(Nat), take : Takes]

TurnRequests == [op : {"turn"}, case : Cases, lease : Nat, sequence : Nat, key : Keys,
                 output : Outputs]
CompleteRequests == [op : {"complete"}, case : Cases, lease : Nat, key : Keys,
                     outcome : {"completed", "canceled", "execution_failed"}]
Requests == [op : {"claim"}] \union [op : {"heartbeat"}, case : Cases, lease : Nat]
            \union TurnRequests \union CompleteRequests

Checkpoints == [case : Cases, lease : Nat \ {0}, submitted : Seq(Nat),
                pending : Nat \union {None}, turn_key : Keys \union {None},
                complete_key : Keys \union {None}, phase : {"turn", "complete"},
                submission : Requests \union {None}]

Server == INSTANCE RunnerHttp WITH
    Keys <- {RunnerKey}, Projects <- {Project},
    ProjectOf <- [c \in Cases |-> Project], KeyProject <- [k \in {RunnerKey} |-> Project],
    IdemKeys <- Keys, Outputs <- Outputs, MaxSequence <- 0

\* Scripts are not empty, leases last, a call is attempted at least once, and
\* None is told apart from what it stands beside.
ASSUME SystemAssumption ==
    /\ TurnCount \in [Cases -> Nat \ {0}]
    /\ LeaseTTL \in Nat \ {0}
    /\ MaxLeases \in Nat
    /\ Attempts \in Nat \ {0}
    /\ Script \in Seq(Cases)
    /\ None \notin Runners \union Requests \union Checkpoints \union Keys \union Nat
    /\ None \notin Server!CompletionRecord

\* What observations are requested of are turns of a script.
ASSUME ObservedAssumption ==
    /\ Observed \subseteq Cases \X Nat
    /\ \A o \in Observed : o[2] < TurnCount[o[1]]

-----------------------------------------------------------------------------
(* Steps *)

Init == /\ InitLoop
        /\ keyState = [k \in {RunnerKey} |-> "active"]
        /\ queue = Script
        /\ cases = [c \in Cases |-> [Server!NoCase EXCEPT !.status = "queued"]]
        /\ leases = << >>
        /\ late = {}
        /\ spent = [crashes |-> 0, faults |-> 0, ticks |-> 0]

Pending(r) == proc[r].request # None /\ proc[r].answer = None

Serve(r) ==
    /\ Pending(r)
    /\ Server!Serves(RunnerKey, r, proc[r].request)
    /\ proc' = [proc EXCEPT ![r].answer = Server!Reply(RunnerKey, r, proc[r].request)]
    /\ UNCHANGED <<disk, minted, artifacts, late, spent>>

\* A request given up before it was served is gone, or arrives later.
GivenUp(r) == IF Pending(r) THEN {late, late \union {[runner |-> r, request |-> proc[r].request]}}
              ELSE {late}

\* Variation: one attempt too many.
MoreAttemptsThanAllowed(p) == p.attempt <= Attempts

MoreAttempts(p) == p.attempt < Attempts
Retrying(p) == [p EXCEPT !.attempt = p.attempt + 1, !.answer = None]

\* One attempt fails in transport: retry_call repeats the same request, and
\* raises after the last attempt.
AttemptFails(r) ==
    /\ spent.faults < MaxFaults
    /\ proc[r].request # None /\ proc[r].answer # [verdict |-> "transport"]
    /\ late' \in GivenUp(r)
    /\ proc' = [proc EXCEPT ![r] =
          IF MoreAttempts(@) THEN Retrying(@)
          ELSE [@ EXCEPT !.answer = [verdict |-> "transport"]]]
    /\ spent' = [spent EXCEPT !.faults = @ + 1]
    /\ UNCHANGED <<disk, minted, artifacts, serverVars>>

LateArrives ==
    /\ \E m \in late : Server!Serves(RunnerKey, m.runner, m.request) /\ late' = late \ {m}
    /\ UNCHANGED <<loopVars, spent>>

\* _with_heartbeat: while the target works on a turn the lease is renewed.  A
\* beat that finds the lease lost ends the beating and changes nothing else.
Beat(r) ==
    /\ At(r, "send")
    /\ Server!Heartbeat(RunnerKey, proc[r].current.case, proc[r].current.lease)
    /\ UNCHANGED <<loopVars, late, spent>>

Killed(r) ==
    /\ spent.crashes < MaxCrashes
    /\ Crash(r)
    /\ late' \in GivenUp(r)
    /\ spent' = [spent EXCEPT !.crashes = @ + 1]
    /\ UNCHANGED serverVars

Tick ==
    /\ spent.ticks < MaxTicks
    /\ Server!Tick
    /\ spent' = [spent EXCEPT !.ticks = @ + 1]
    /\ UNCHANGED <<loopVars, late>>

Start(r) == Boot(r) /\ UNCHANGED <<serverVars, late, spent>>
Step(r) == Proceed(r) /\ UNCHANGED <<serverVars, late, spent>>

Next == \/ \E r \in Runners : \/ Start(r) \/ Step(r) \/ Serve(r) \/ Beat(r)
                              \/ AttemptFails(r) \/ Killed(r)
        \/ LateArrives
        \/ Tick

Spec == Init /\ [][Next]_vars

\* The event loop of a runner and of the orchestrator never leave a ready step
\* undone, and a runner that ended is started again; the clock, the network's
\* faults and the kills owe nothing.
Fairness == \A r \in Runners : WF_vars(Start(r)) /\ WF_vars(Step(r)) /\ WF_vars(Serve(r))

FairSpec == Spec /\ Fairness

-----------------------------------------------------------------------------
(* Correctness *)

Artifacts == [case : Cases, stem : {"turn", "observations", "completion"} \X Nat,
              content : Outputs \union [outcome : Server!Outcomes]]

\* Every variable holds a value of its type.
TypeOK ==
    /\ Server!TypeOK
    /\ disk \in [Runners -> Checkpoints \union {None}]
    /\ minted \in [Runners -> Nat]
    /\ \A r \in Runners :
          /\ proc[r].at \in {"off", "claim", "resume", "send", "turn", "complete", "failing"}
          /\ {proc[r].entry, proc[r].current} \subseteq Checkpoints \union {None}
          /\ proc[r].request \in Requests \union {None}
          /\ proc[r].attempt \in 0..Attempts
          /\ proc[r].parents \subseteq Artifacts
          /\ artifacts[r] \subseteq [kind : {"body", "manifest"}, artifact : Artifacts,
                                     parents : SUBSET Artifacts]
    /\ late \subseteq [runner : Runners, request : Requests]

\* The inputs 0, 1, ..., n - 1 of a script.
Inputs(n) == [m \in 1..n |-> m - 1]

\* Every answer recorded as turn n was given by a target whose session, since
\* its last reset, had heard exactly the inputs 0..n of the case in order: no
\* restart, replay, reclaim or late request puts a skipped or repeated input
\* behind recorded evidence (_run_case 271-288, submit_turn).
ConversationIntact ==
    \A c \in Cases : \A n \in DOMAIN cases[c].turns :
        cases[c].turns[n].event.heard = Inputs(n)

\* A case recorded as completed had every turn of its script recorded, and no
\* case ever gets a turn beyond its script, although the orchestrator checks
\* neither (complete, submit_turn).
CompletedRanToEnd ==
    \A c \in Cases :
       /\ Len(cases[c].turns) <= TurnCount[c]
       /\ cases[c].completion # None /\ cases[c].completion.event = "completed"
          => Len(cases[c].turns) = TurnCount[c]

\* What the checkpoint calls submitted has been recorded by the orchestrator,
\* the pending input is the next one, and a saved report of completion exists
\* only once the whole script has been recorded (save_checkpoint calls of
\* _run_case and _complete).
CheckpointTrailsServer ==
    \A r \in Runners : disk[r] # None =>
       LET ckpt == disk[r]
           done == Len(ckpt.submitted)
       IN  /\ ckpt.submitted = Inputs(done)
           /\ done <= Len(cases[ckpt.case].turns)
           /\ ckpt.phase = "turn" => ckpt.pending = done
           /\ ckpt.phase = "complete" /\ ckpt.submission.outcome = "completed"
              => Len(cases[ckpt.case].turns) = TurnCount[ckpt.case]

\* Requests that are on their way, or saved to be sent again after a restart.
Outstanding ==
    {proc[r].request : r \in Runners} \union {m.request : m \in late}
    \union {disk[r].submission : r \in {q \in Runners : disk[q] # None}}

OutstandingOf(op) == {req \in Outstanding \ {None} : req.op = op}

\* An idempotency key of a turn stands for one turn with one content: whatever
\* is sent, still to be sent or recorded under it is the same submission
\* (loop.py:302-321, the saved pending_submission).
TurnKeyFixesBody ==
    \A req \in OutstandingOf("turn") :
       /\ \A other \in OutstandingOf("turn") : other.key = req.key => other = req
       /\ \A c \in Cases : \A n \in DOMAIN cases[c].turns :
             cases[c].turns[n].idempotency_key = req.key =>
                /\ c = req.case /\ n = req.sequence + 1
                /\ cases[c].turns[n].event = req.output

\* Crashes, restarts and lost leases never turn into evidence of a failure:
\* while the target answers and no attempt has failed in transport, no failure
\* is recorded (_resume_case, the except LeaseLostError clause of _run_case).
NoFalseFailure ==
    ~TargetRaises /\ ~DiskRaises /\ Refused = {} /\ spent.faults = 0 =>
       \A c \in Cases : cases[c].completion # None =>
                           cases[c].completion.event # "execution_failed"

\* The artifacts of one kind of stem whose body, or manifest, is on the disk of r.
Kept(r, kind, stem) ==
    {f.artifact : f \in {g \in artifacts[r] : g.kind = kind /\ g.artifact.stem[1] = stem}}

\* The turn filed as artifact a is the one the orchestrator recorded.
RecordedAsFiled(a) ==
    /\ a.stem[2] < Len(cases[a.case].turns)
    /\ cases[a.case].turns[a.stem[2] + 1].event = a.content

\* The evidence kept on a runner's disk is what the orchestrator recorded
\* (write_turn and write_completion after the call returned).
ArtifactsMatchServer ==
    \A r \in Runners :
       /\ \A a \in Kept(r, "body", "turn") : RecordedAsFiled(a)
       /\ \A a \in Kept(r, "body", "completion") :
             /\ cases[a.case].completion # None
             /\ cases[a.case].completion.event = a.content.outcome

Grants(c) == {t \in DOMAIN leases : leases[t].case_execution_id = c}
GrantedOnce(c) == Cardinality(Grants(c)) = 1

\* As long as a case has not been granted again, whatever else goes wrong, the
\* turns and observations kept of it are the recorded ones: a restart that asks
\* the target anew, and may be answered differently, still files what was
\* submitted (write_turn, the saved pending_submission).
FirstLeaseEvidence ==
    \A r \in Runners : \A a \in Kept(r, "body", "turn") \union Kept(r, "body", "observations") :
       GrantedOnce(a.case) => RecordedAsFiled(a)

\* As long as a case has not been granted again, its lineage leads back to bytes
\* on disk: whatever a manifest describes, and every artifact it was derived
\* from, lies there as it was described, although a body and its manifest are
\* two writes and a process may end between any two (_write, parent_ids).  The
\* manifest of a completion may describe an earlier report than the body beside
\* it, so of it only the parents are claimed.
LineageResolves ==
    \A r \in Runners : \A f \in artifacts[r] :
       f.kind = "manifest" /\ GrantedOnce(f.artifact.case) =>
          LET described == IF f.artifact.stem[1] = "completion" THEN {} ELSE {f.artifact}
          IN  \A a \in described \union f.parents :
                 \E body \in artifacts[r] : body.kind = "body" /\ body.artifact = a

\* Without a restart the lineage is whole: the manifest of a case that ran to its
\* end under one lease names an artifact for each of its turns and for the
\* observations of each (parent_ids of _run_case).  After a resume it names only
\* those of the turns since.
LineageComplete ==
    spent.crashes = 0 =>
       \A r \in Runners : \A f \in artifacts[r] :
          /\ f.kind = "manifest" /\ GrantedOnce(f.artifact.case)
          /\ f.artifact.content = [outcome |-> "completed"]
          => {a.stem : a \in f.parents} =
                {<<"turn", n>> : n \in 0..TurnCount[f.artifact.case] - 1}
                \union {<<"observations", o[2]>> : o \in {p \in Observed :
                                                          p[1] = f.artifact.case}}

\* Every case is carried to a terminal state, and in the end no runner is left
\* with a checkpoint to come back to.
CasesFinish ==
    <>[](/\ \A c \in Cases : cases[c].status \in Server!Terminal
         /\ \A r \in Runners : disk[r] = None)
=============================================================================
