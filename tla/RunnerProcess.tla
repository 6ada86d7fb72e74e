--------------------------- MODULE RunnerProcess ---------------------------
(***************************************************************************)
(* The runner as a process: "redbeak runner start" (cli.py) with its       *)
(* options, the loop run_until_idle (loop.py) around the cases, and the    *)
(* signals that stop it.                                                   *)
(*                                                                         *)
(* What happens within a case, and what a process that ended has left of   *)
(* one, is TurnCall's.  A step runs to the next await: the claim, the      *)
(* heartbeat of a resume, the report sent again, the wait between polls.   *)
(***************************************************************************)
EXTENDS TurnCall

CONSTANTS PollMin, PollMax,   \* --poll-min and --poll-max
          Hints,              \* retry_after_ms of an answer without work
          MaxWork             \* bound: cases queued at a time

ASSUME PollAssumption == PollMin \in Nat /\ PollMax \in Nat /\ Hints \subseteq Nat
ASSUME WorkAssumption == MaxWork \in Nat

VARIABLES phase,    \* where run_until_idle is: "off", "resuming", "reporting",
                    \* "failing", "claiming", "waiting" or "case"
          ended,    \* how the last process ended, or "running"
          options,  \* --until-idle/--once and --wait of this process
          halt,     \* the event a stop signal sets
          backoff,  \* seconds to wait after the next answer without work
          leftover, \* whether the case at hand is the one of a leftover checkpoint
          work,     \* cases queued at the orchestrator
          tally     \* history of this process: cases claimed (2: or more), cases begun after
                    \* the stop signal, answers without work since the last case was claimed

processVars == <<phase, ended, options, halt, backoff, leftover, work, tally>>
allVars == <<vars, processVars>>

Larger(a, b) == IF a > b THEN a ELSE b
Smaller(a, b) == IF a < b THEN a ELSE b

NoTally == [claimed |-> 0, late |-> 0, idle |-> 0]

ProcessInit ==
    /\ Init
    /\ phase = "off" /\ ended = "never" /\ options = [drain |-> TRUE, wait |-> FALSE]
    /\ halt = FALSE /\ backoff = PollMin /\ leftover = FALSE
    /\ work = 0 /\ tally = NoTally

-----------------------------------------------------------------------------
(* The process begins and ends *)

\* A leftover checkpoint comes first: a saved report is sent, a case in its
\* turns heartbeats.
Start ==
    /\ phase = "off"
    /\ options' \in [drain : BOOLEAN, wait : BOOLEAN]
    /\ phase' = CASE at = "over" -> "claiming"
                  [] at = "left" /\ saved = None -> "resuming"
                  [] OTHER -> "reporting"
    /\ leftover' = (at = "left")
    /\ ended' = "running" /\ halt' = FALSE /\ backoff' = PollMin /\ tally' = NoTally
    /\ UNCHANGED <<vars, work>>

Ended(how) == phase' = "off" /\ ended' = how

\* Variation: the stop signal is looked at only while waiting.
GoOnRegardless == phase' = "claiming" /\ UNCHANGED ended

\* The head of the loop.
GoOn == IF halt THEN Ended("stopped") ELSE phase' = "claiming" /\ UNCHANGED ended

Raises == Ended("raised") /\ UNCHANGED <<options, halt, backoff, leftover, work, tally>>

\* SIGINT or SIGTERM, once.
StopRequested ==
    /\ phase # "off" /\ ~halt
    /\ halt' = TRUE
    /\ UNCHANGED <<vars, phase, ended, options, backoff, leftover, work, tally>>

\* A second signal, or a kill.
Killed ==
    /\ phase # "off"
    /\ IF phase = "case" THEN Interrupted ELSE UNCHANGED vars
    /\ Ended("killed")
    /\ UNCHANGED <<options, halt, backoff, leftover, work, tally>>

-----------------------------------------------------------------------------
(* A leftover checkpoint: _resume_case *)

LeftoverDone ==
    /\ GoOn
    /\ leftover' = FALSE
    /\ UNCHANGED <<options, halt, backoff, work, tally>>

\* History: a case is begun.
CountLate(t) == IF halt THEN [t EXCEPT !.late = @ + 1] ELSE t

ResumeAlive ==
    /\ phase = "resuming"
    /\ CaseResumed \/ ReplayFails
    /\ phase' = "case" /\ tally' = CountLate(tally)
    /\ UNCHANGED <<ended, options, halt, backoff, leftover, work>>

\* Variation: the checkpoint stays.
ResumeLostKeeps == phase = "resuming" /\ lease = "lost" /\ LeftoverDone /\ UNCHANGED vars

ResumeLost == phase = "resuming" /\ LeftDropped /\ LeftoverDone

ResumeFails == phase = "resuming" /\ Raises /\ UNCHANGED vars

\* The saved report is accepted, or not wanted any more.
ReportSent ==
    /\ phase \in {"reporting", "failing"}
    /\ ReportAccepted \/ LeftDropped
    /\ LeftoverDone

ReportFails ==
    /\ phase = "reporting"
    /\ ReportReplaced
    /\ phase' = "failing"
    /\ UNCHANGED <<ended, options, halt, backoff, leftover, work, tally>>

\* The report of that failure fails, too.
ReportEscapes == phase = "failing" /\ Raises /\ UNCHANGED vars

-----------------------------------------------------------------------------
(* Claiming and waiting: run_until_idle *)

ClaimGranted ==
    /\ phase = "claiming" /\ work > 0
    /\ NextCase
    /\ work' = work - 1
    /\ phase' = "case" /\ backoff' = PollMin
    /\ tally' = CountLate([tally EXCEPT !.claimed = Smaller(2, @ + 1), !.idle = 0])
    /\ UNCHANGED <<ended, options, halt, leftover>>

\* Variation: the server's hint takes the place of the doubling.
BackoffAsHinted(current, hint) ==
    Larger(PollMin, Smaller(PollMax, IF hint > 0 THEN hint ELSE current * 2))

\* _next_backoff; a hint of 0 is none.
NextBackoff(current, hint) ==
    Larger(PollMin, Smaller(PollMax, Larger(IF hint > 0 THEN hint ELSE PollMin, current * 2)))

ClaimEmpty ==
    /\ phase = "claiming" /\ work = 0
    /\ tally' = [tally EXCEPT !.idle = Smaller(3, @ + 1)]
    /\ IF options.wait
       THEN /\ \E hint \in Hints \union {0} : backoff' = NextBackoff(backoff, hint)
            /\ phase' = "waiting"
            /\ UNCHANGED ended
       ELSE Ended("returned") /\ UNCHANGED backoff
    /\ UNCHANGED <<vars, options, halt, leftover, work>>

ClaimFails == phase = "claiming" /\ Raises /\ UNCHANGED vars

\* Variation: the wait has no timeout.
WaitForSignal ==
    /\ phase = "waiting" /\ halt
    /\ GoOn
    /\ UNCHANGED <<vars, options, halt, backoff, leftover, work, tally>>

\* The wait is over: it has lasted, or it was cut short by the stop signal.
WaitElapses ==
    /\ phase = "waiting"
    /\ GoOn
    /\ UNCHANGED <<vars, options, halt, backoff, leftover, work, tally>>

WorkArrives ==
    /\ work < MaxWork
    /\ work' = work + 1
    /\ UNCHANGED <<vars, phase, ended, options, halt, backoff, leftover, tally>>

-----------------------------------------------------------------------------
(* A case *)

CaseStep ==
    \/ SendReturns \/ BeatWakes \/ BeatStops \/ BeatAnswered \/ Leave \/ CallReturns
    \/ TurnRaises
    \/ TurnAccepted /\ at' # "over"

CaseGoesOn == phase = "case" /\ CaseStep /\ UNCHANGED processVars

\* Variation: a process that need not wait ends after the first case it claims.
OnceUnlessWaiting == ~options.wait /\ ~leftover

\* --once ends the loop after a case it has claimed, not after a leftover one.
OnceDone == ~options.drain /\ ~leftover

CaseEnds ==
    /\ phase = "case"
    /\ CaseDropped \/ FailureRecorded \/ TurnAccepted
    /\ at' = "over"
    /\ IF OnceDone THEN Ended("returned") ELSE GoOn
    /\ leftover' = FALSE
    /\ UNCHANGED <<options, halt, backoff, work, tally>>

CaseEscapes == phase = "case" /\ FailureEscapes /\ Raises

\* What the orchestrator does meanwhile: a lease lapses, and a report that is
\* on its way arrives.
Elsewhere == (LeaseLapses \/ ReportServed) /\ UNCHANGED processVars

-----------------------------------------------------------------------------
ProcessNext ==
    \/ Start \/ StopRequested \/ Killed
    \/ ResumeAlive \/ ResumeLost \/ ResumeFails
    \/ ReportSent \/ ReportFails \/ ReportEscapes
    \/ ClaimGranted \/ ClaimEmpty \/ ClaimFails \/ WaitElapses \/ WorkArrives
    \/ CaseGoesOn \/ CaseEnds \/ CaseEscapes
    \/ Elsewhere

ProcessSpec == ProcessInit /\ [][ProcessNext]_allVars

\* Every call of the orchestrator ends (timeouts, bounded retries), a wait ends,
\* and the event loop runs what can run; nothing else owes a step: not the
\* target, the clock, the signals, the work or whoever starts the process.
Calls == ResumeAlive \/ ResumeLost \/ ResumeFails \/ ReportSent \/ ReportFails
         \/ ReportEscapes \/ ClaimGranted \/ ClaimEmpty \/ ClaimFails \/ WaitElapses
         \/ CaseEnds \/ CaseEscapes

ProcessFairness ==
    /\ WF_allVars(Calls)
    /\ WF_allVars(CaseGoesOn /\ (Leave \/ CallReturns \/ TurnAccepted))
    /\ WF_allVars(CaseGoesOn /\ BeatStops) /\ WF_allVars(CaseGoesOn /\ BeatAnswered)

ProcessFairSpec == ProcessSpec /\ ProcessFairness

-----------------------------------------------------------------------------
(* Correctness *)

\* Every variable holds a value of its type, and a case is under way, or left
\* behind, exactly where the loop has one.
ProcessTypeOK ==
    /\ TypeOK
    /\ phase \in {"off", "resuming", "reporting", "failing", "claiming", "waiting", "case"}
    /\ ended \in {"never", "running", "returned", "stopped", "raised", "killed"}
    /\ options \in [drain : BOOLEAN, wait : BOOLEAN]
    /\ {halt, leftover} \subseteq BOOLEAN
    /\ backoff \in Nat
    /\ work \in 0..MaxWork
    /\ tally \in [claimed : 0..2, late : Nat, idle : 0..3]
    /\ phase = "case" <=> at \in {"calling", "leaving", "called"}
    /\ phase = "off" <=> ended # "running"

\* A process that is not killed and does not fail ends only when it should: it was
\* stopped; or it need not wait, and the orchestrator's last word was that there is
\* no work; or it has done the one case of --once.  With --wait and without --once
\* only a signal ends it, and --once never claims a second case (run_until_idle).
\* The one case of --once is one it has claimed: where a checkpoint was left over,
\* that case is executed before it, as the code does and its docs do not say
\* ("--once executes a single case", loop.py 89 and cli.py 166).
EndsForAReason ==
    /\ ended = "stopped" => halt
    /\ ended = "returned" => \/ ~options.wait /\ tally.idle > 0
                             \/ ~options.drain /\ tally.claimed = 1
    /\ ~options.drain => tally.claimed <= 1

\* A process that ended of its own accord has left no checkpoint, and none is
\* ever overwritten by the next claim: a signal at any moment, a resume or a
\* report that came to nothing never abandon a case half way (_graceful_stop:
\* "a leased case is never abandoned mid-turn"; _resume_case, _run_case).
NothingAbandoned ==
    ended \in {"returned", "stopped"} \/ phase \in {"claiming", "waiting"} => at = "over"

\* After a stop signal at most one more case is begun: the one whose claim, or
\* whose resuming heartbeat, was on its way (run_until_idle, _graceful_stop).
StopIsPrompt == tally.late <= 1

\* While the queue stays empty the polls slow down at least as fast as they
\* would without hints, doubling up to --poll-max, and never wait longer than
\* that, whatever the server asks for (_next_backoff).
PollsSlowDown ==
    phase = "waiting" =>
       /\ backoff >= Smaller(PollMax, PollMin * 2^tally.idle)
       /\ backoff <= Larger(PollMin, PollMax)

\* A waiting runner takes up work that comes later, unless it is stopped or ends
\* of an error.
WorkIsFound ==
    phase = "waiting" /\ work > 0 ~> phase = "case" \/ halt \/ ended \in {"raised", "killed"}

\* A stop signal ends the process, if only the target answers every call in the
\* end: no case, resume, report or wait goes on for ever.
StopEnds == []<>(at # "calling" \/ sent # None) => (halt ~> phase = "off")
=============================================================================
