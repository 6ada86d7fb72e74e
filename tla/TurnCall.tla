------------------------------ MODULE TurnCall ------------------------------
(***************************************************************************)
(* One turn at a time: adapter.send under _with_heartbeat (loop.py), and   *)
(* what becomes of a failure: the exception an adapter makes of it, the    *)
(* stage normalize_exception (redbeak_adapter_sdk/errors.py) files it      *)
(* under, and the report the orchestrator gets.                            *)
(*                                                                         *)
(* Two tasks of one event loop share a lease: the call of the target and   *)
(* the task that renews the lease meanwhile.  The target is an endpoint    *)
(* behind an adapter that classifies as the one of examples/llm-api does.  *)
(* A process that ends in the middle leaves a checkpoint: the pending turn *)
(* is called again, or the report saved with it is sent again.             *)
(***************************************************************************)
EXTENDS Integers

CONSTANTS Turns,        \* inputs of a case's script
          Heartbeats,   \* whether heartbeat_interval_s > 0
          None

ASSUME TurnsAssumption == Turns \in Nat \ {0}

VARIABLES at,        \* where _run_case is: "calling", "leaving", "called", "over", or
                     \* "left": a process ended and its checkpoint is there
          turn,      \* sequence of the pending input
          provider,  \* what came of asking the endpoint in this turn, or None
          sent,      \* what send came to: "answer", an exception, or None
          beat,      \* the heartbeat task: "none", "asleep", "posting", "ended", an exception
          stop,      \* the event both tasks look at
          outcome,   \* what _with_heartbeat came to, then what made the case fail
          lease,     \* "held" or "lost", as the orchestrator sees it
          saved,     \* the report a process that ended has left in its checkpoint, or None
          recorded   \* stage of the failure the orchestrator recorded, "completed", or None

vars == <<at, turn, provider, sent, beat, stop, outcome, lease, saved, recorded>>

-----------------------------------------------------------------------------
(* Exceptions and stages *)

\* What may come of asking an endpoint: it answers with a text, with something that
\* is not a chat completion, or with bytes that cannot be decoded; it rejects the
\* key, refuses the request, is overloaded (429 or 5xx), silent until the timeout,
\* or not reachable; or the request cannot be sent, for its address or a header.
Provider == {"text", "garbled", "undecodable", "rejects", "refuses",
             "overloaded", "silent", "unreachable", "unsendable"}

\* The system under test could not be reached or did not survive the call.
Unavailable == {"overloaded", "unreachable"}

\* The HTTP client raises here as it does for an endpoint out of reach, but the
\* endpoint has answered, or was never asked.
Misjudged == {"undecodable", "unsendable"}

\* Variation: an endpoint that is silent counts as one that is gone.
SendResultWithTimeout(p) ==
    CASE p = "text" -> "answer"
      [] p = "silent" \/ p \in Unavailable \union Misjudged -> "TargetUnavailableError"
      [] OTHER -> "AdapterInternalError"

\* Every error of the HTTP client but a timeout counts as an endpoint out of reach.
SendResult(p) ==
    CASE p = "text" -> "answer"
      [] p = "garbled" -> "AdapterProtocolError"
      [] p = "rejects" -> "AdapterConfigurationError"
      [] p = "refuses" -> "AdapterInternalError"
      [] p = "silent" -> "AdapterTimeoutError"
      [] p \in Unavailable \union Misjudged -> "TargetUnavailableError"

\* Variation: every AdapterError is filed under the stage of the root class.
StageOfRootClass(exc) ==
    IF exc = "AdapterTimeoutError" THEN "timeout" ELSE "adapter"

\* Errors of the runner itself are not AdapterErrors: normalize_exception does
\* not know them, and files them under "adapter".
Stage(exc) ==
    CASE exc = "AdapterProtocolError" -> "protocol"
      [] exc = "AdapterTimeoutError" -> "timeout"
      [] exc = "TargetUnavailableError" -> "target_unavailable"
      [] exc \in {"AdapterConfigurationError", "AdapterInternalError",
                  "TransportError", "ProtocolError"} -> "adapter"

\* What a call of the orchestrator raises, other than a lost lease.
RunnerErrors == {"TransportError", "ProtocolError"}

-----------------------------------------------------------------------------
(* The call *)

BeatBegins == IF Heartbeats THEN "asleep" ELSE "none"
BeatOver == beat \notin {"asleep", "posting"}

\* require_single_turn: a SingleTurnTextAdapter refuses any turn but the first.
Refusable(t) == t # 0

\* Turn t is sent, by an adapter of either kind.  One that refuses does so before
\* it waits for anything: the heartbeat task is told to stop before it runs.
Call(t) ==
    /\ turn' = t
    /\ provider' = None
    /\ beat' = BeatBegins
    /\ outcome' = None
    /\ \/ at' = "calling" /\ sent' = None /\ stop' = FALSE
       \/ /\ Refusable(t)
          /\ at' = "leaving" /\ sent' = "AdapterConfigurationError" /\ stop' = TRUE

Init == /\ at = "over" /\ turn = 0 /\ provider = None /\ sent = None
        /\ beat = "none" /\ stop = FALSE /\ outcome = None
        /\ lease = "held" /\ saved = None /\ recorded = None

\* The endpoint answers, or not; send returns or raises.
SendReturns ==
    /\ at = "calling" /\ sent = None
    /\ \E p \in Provider : provider' = p /\ sent' = SendResult(p)
    /\ UNCHANGED <<at, turn, beat, stop, outcome, lease, saved, recorded>>

BeatWakes ==
    /\ beat = "asleep" /\ ~stop
    /\ beat' = "posting"
    /\ UNCHANGED <<at, turn, provider, sent, stop, outcome, lease, saved, recorded>>

BeatStops ==
    /\ beat = "asleep" /\ stop
    /\ beat' = "ended"
    /\ UNCHANGED <<at, turn, provider, sent, stop, outcome, lease, saved, recorded>>

\* The heartbeat call, with its retries, is over: the lease was renewed, or it
\* is lost and the task ends in silence, or the task dies of the error.
BeatAnswered ==
    /\ beat = "posting"
    /\ \/ lease = "held" /\ beat' = "asleep" /\ UNCHANGED stop
       \/ lease = "lost" /\ beat' = "ended" /\ stop' = TRUE
       \/ beat' \in RunnerErrors /\ UNCHANGED stop
    /\ UNCHANGED <<at, turn, provider, sent, outcome, lease, saved, recorded>>

\* Variation: the heartbeat task is waited for without being told to stop.
LeaveQuietly ==
    /\ at = "calling" /\ sent # None
    /\ at' = "leaving"
    /\ UNCHANGED <<turn, provider, sent, beat, stop, outcome, lease, saved, recorded>>

\* The finally clause: the heartbeat task is told to stop, and waited for.
Leave ==
    /\ at = "calling" /\ sent # None
    /\ at' = "leaving" /\ stop' = TRUE
    /\ UNCHANGED <<turn, provider, sent, beat, outcome, lease, saved, recorded>>

\* If the heartbeat task died, its error is raised instead of what send came to.
CallReturns ==
    /\ at = "leaving" /\ BeatOver
    /\ at' = "called"
    /\ outcome' = IF beat \in RunnerErrors THEN beat ELSE sent
    /\ UNCHANGED <<turn, provider, sent, beat, stop, lease, saved, recorded>>

-----------------------------------------------------------------------------
(* What _run_case makes of it *)

Over(record) ==
    /\ at' = "over" /\ recorded' = record
    /\ UNCHANGED <<turn, provider, sent, beat, stop, outcome, lease, saved>>

\* Variation: one turn more than the script has.
MoreThanAllTurns == turn + 1 <= Turns

MoreTurns == turn + 1 < Turns

TurnAccepted ==
    /\ at = "called" /\ outcome = "answer" /\ lease = "held"
    /\ IF MoreTurns THEN Call(turn + 1) /\ UNCHANGED <<lease, saved, recorded>>
                    ELSE Over("completed")

TurnRaises ==
    /\ at = "called" /\ outcome = "answer"
    /\ outcome' \in RunnerErrors
    /\ UNCHANGED <<at, turn, provider, sent, beat, stop, lease, saved, recorded>>

\* The lease was lost: the case is dropped, whatever was to be reported.
CaseDropped == at = "called" /\ lease = "lost" /\ Over(None)

FailureRecorded ==
    /\ at = "called" /\ outcome # "answer" /\ lease = "held"
    /\ Over(Stage(outcome))

\* What _complete is about to report, once there is something to report.
Report == IF outcome = "answer" THEN "completed" ELSE Stage(outcome)
Reporting == at = "called" /\ (outcome = "answer" => ~MoreTurns)

\* The process ends in the middle of a case: the pending turn stays in the
\* checkpoint, with the report if that was saved, and the report may have been
\* recorded although its answer never came.
Ends(report) ==
    /\ at' = "left" /\ saved' = report /\ beat' = "none"
    /\ recorded' \in {None} \union (IF lease = "held" THEN {report} ELSE {})
    /\ UNCHANGED <<turn, provider, sent, stop, outcome, lease>>

\* The report itself fails: the exception ends the process.
FailureEscapes == at = "called" /\ outcome # "answer" /\ Ends(Report)

\* The process is killed.
Interrupted ==
    /\ at \in {"calling", "leaving", "called"}
    /\ Ends(None) \/ (Reporting /\ Ends(Report))

\* A case is claimed.
NextCase == at = "over" /\ Call(0) /\ lease' = "held" /\ saved' = None /\ recorded' = None

\* The next process finds the lease alive: the target hears again the inputs it
\* had answered, without a heartbeat, and the pending turn is called.
CaseResumed ==
    /\ at = "left" /\ saved = None /\ lease = "held"
    /\ Call(turn)
    /\ UNCHANGED <<lease, saved, recorded>>

ReplayFails ==
    /\ at = "left" /\ saved = None /\ lease = "held" /\ turn # 0
    /\ at' = "called"
    /\ \E p \in Provider \ {"text"} : provider' = p /\ outcome' = SendResult(p)
    /\ sent' = outcome' /\ beat' = "none" /\ stop' = TRUE
    /\ UNCHANGED <<turn, lease, saved, recorded>>

\* The next process finds the lease lost, and the checkpoint goes.  A report that
\* was recorded is answered before the lease is looked at.
LeftDropped ==
    /\ at = "left" /\ lease = "lost" /\ recorded = None
    /\ at' = "over" /\ saved' = None
    /\ UNCHANGED <<turn, provider, sent, beat, stop, outcome, lease, recorded>>

\* The report of an earlier process, sent again, reaches the orchestrator,
ReportServed ==
    /\ at = "left" /\ saved # None /\ lease = "held" /\ recorded = None
    /\ recorded' = saved
    /\ UNCHANGED <<at, turn, provider, sent, beat, stop, outcome, lease, saved>>

\* and so does the answer.  A report recorded before is accepted by its key, also
\* when a failure has taken its place in the checkpoint since: the key stays.  (A
\* process that loses the answer itself reports anew, under another key: this is
\* RunnerSystem's.)
ReportAccepted ==
    /\ at = "left" /\ saved # None /\ recorded # None
    /\ at' = "over" /\ saved' = None
    /\ UNCHANGED <<turn, provider, sent, beat, stop, outcome, lease, recorded>>

\* Or sending it fails: this error fails the case anew, and its report takes
\* the place of the saved one, under the same key.
ReportReplaced ==
    /\ at = "left" /\ saved # None
    /\ outcome' \in RunnerErrors
    /\ saved' = Stage(outcome')
    /\ UNCHANGED <<at, turn, provider, sent, beat, stop, lease, recorded>>

LeaseLapses ==
    /\ lease = "held" /\ at # "over"
    /\ lease' = "lost"
    /\ UNCHANGED <<at, turn, provider, sent, beat, stop, outcome, saved, recorded>>

Next == \/ SendReturns \/ BeatWakes \/ BeatStops \/ BeatAnswered \/ Leave \/ CallReturns
        \/ TurnAccepted \/ TurnRaises \/ CaseDropped \/ FailureRecorded \/ FailureEscapes
        \/ Interrupted \/ NextCase \/ CaseResumed \/ ReplayFails
        \/ LeftDropped \/ ReportServed \/ ReportAccepted \/ ReportReplaced
        \/ LeaseLapses

Spec == Init /\ [][Next]_vars

\* The event loop runs a task that can run, and every call of the orchestrator
\* ends: the HTTP client has timeouts and the retries are bounded.  The target
\* owes nothing, and neither does the timer of the heartbeat.
Fairness == WF_vars(Leave) /\ WF_vars(CallReturns) /\ WF_vars(BeatStops) /\ WF_vars(BeatAnswered)

FairSpec == Spec /\ Fairness

-----------------------------------------------------------------------------
(* Correctness *)

Exceptions == {"AdapterProtocolError", "AdapterConfigurationError", "AdapterInternalError",
               "AdapterTimeoutError", "TargetUnavailableError"} \union RunnerErrors
Stages == {"protocol", "timeout", "target_unavailable", "adapter"}

\* None is told apart from everything a call may come to.
ASSUME NoneAssumption ==
    None \notin Exceptions \union Stages \union Provider \union {"answer", "completed"}

\* Every variable holds a value of its type.
TypeOK ==
    /\ at \in {"calling", "leaving", "called", "over", "left"}
    /\ turn \in 0..Turns - 1
    /\ provider \in Provider \union {None}
    /\ sent \in {"answer", None} \union Exceptions
    /\ beat \in {"none", "asleep", "posting", "ended"} \union RunnerErrors
    /\ stop \in BOOLEAN
    /\ outcome \in {"answer", None} \union Exceptions
    /\ lease \in {"held", "lost"}
    /\ {saved, recorded} \subseteq Stages \union {"completed", None}

\* A failure is never held against a target that was there: a case recorded at
\* the stage "target_unavailable" met an endpoint that could not be reached or
\* could not serve, never a fault of this client (errors.py 3-15; README of
\* examples/llm-api 202-204).  The example adapter does not keep it.
NeverBlamesTheTarget ==
    recorded = "target_unavailable" => provider \in Unavailable

\* What the code does keep: only what the adapter itself takes for an endpoint out
\* of reach is ever recorded as one.  No silent, refusing or answering endpoint,
\* no failing heartbeat or report, no refused turn of the script, and nothing left
\* of an earlier turn or process is filed there (adapter.py 99-161, errors.py,
\* _with_heartbeat, _run_case).
NeverBlamesUnlessMisjudged ==
    recorded = "target_unavailable" => provider \in Unavailable \union Misjudged

\* Conversely a target that was not available is held to account: whatever
\* fails besides, a failure that is recorded is recorded as the target's
\* (errors.py 11-13).
TargetHeldToAccount ==
    recorded # None /\ provider \in Unavailable => recorded = "target_unavailable"

\* Nothing hides the target's failure but an error of the runner's own calls
\* that took its place: a heartbeat that died, or a saved report that could not
\* be sent again.  Not a lost lease, not a later turn, not a restart, not the way
\* from exception to stage.
HeldToAccountUnlessMasked ==
    recorded # None /\ provider \in Unavailable /\ outcome \notin RunnerErrors
    => recorded = "target_unavailable"

\* Once the target has answered or failed, the call returns, however the
\* heartbeat task is caught: asleep, posting, ended or dead (_with_heartbeat),
\* unless the process is ended meanwhile.
CallReturnsInTheEnd ==
    at \in {"calling", "leaving"} /\ sent # None ~> at \in {"called", "left"}
=============================================================================
