---------------------------- MODULE RunnerLoop ----------------------------
(***************************************************************************)
(* The runner's claim / turn / complete loop (redbeak_runner/loop.py) with *)
(* its local checkpoint (checkpoint.py) and the evidence it keeps on disk  *)
(* (artifacts.py).  One process per runner id: "proc" is its volatile      *)
(* state and dies with it, "disk" and "artifacts" survive.                 *)
(*                                                                         *)
(* A step runs from one await of an HTTP call, or of the target, to the    *)
(* next.  A step that posts a request leaves it in proc[r].request; the    *)
(* module that composes the loop with a server and a network puts the      *)
(* outcome in proc[r].answer: what the server said, or "transport" when    *)
(* every attempt of retry_call failed.                                     *)
(*                                                                         *)
(* An input is its sequence number in the script.  What a target answers   *)
(* is the inputs its session has heard, and which of several answers it    *)
(* happened to give ("take").                                              *)
(***************************************************************************)
EXTENDS Integers, Sequences, FiniteSets

CONSTANTS Cases,        \* case executions
          Runners,      \* runner ids, each with a checkpoint directory of its own
          Takes,        \* answers a target may give to one conversation
          Refused,      \* cases whose assignment SessionContext.from_assignment refuses
          TargetRaises, \* whether calls of the adapter may raise
          DiskRaises,   \* whether writing evidence may raise
          Observed,     \* <<case, sequence>> of the turns with an observation request
          MaxParents,   \* artifacts a manifest may be derived from (maxItems)
          None

VARIABLES disk,         \* disk[r]: runner-checkpoint.json, or None
          proc,         \* proc[r]: the running process
          minted,       \* minted[r]: new_uuid() calls for idempotency keys so far
          artifacts     \* artifacts[r]: the evidence files below artifacts_dir

loopVars == <<disk, proc, minted, artifacts>>

\* A fresh idempotency key: new_uuid never returns the same one twice.
NewKey(r) == <<r, minted[r] + 1>>

\* A process that does not run: nothing of its state is left.  "parents" are the
\* artifacts the present _run_case has written.
Off == [at |-> "off", entry |-> None, current |-> None, session |-> None,
        parents |-> {}, request |-> None, answer |-> None, attempt |-> 0]

\* The process p waiting at "at" for the answer to a request.
Waiting(p, at, request) ==
    [p EXCEPT !.at = at, !.request = request, !.answer = None, !.attempt = 1]

ClaimRequest == [op |-> "claim"]
HeartbeatRequest(ckpt) ==
    [op |-> "heartbeat", case |-> ckpt.case, lease |-> ckpt.lease]
TurnRequest(ckpt, output) ==
    [op |-> "turn", case |-> ckpt.case, lease |-> ckpt.lease, sequence |-> ckpt.pending,
     key |-> ckpt.turn_key, output |-> output]
CompleteRequest(ckpt, key, outcome) ==
    [op |-> "complete", case |-> ckpt.case, lease |-> ckpt.lease, key |-> key,
     outcome |-> outcome]

Claiming == Waiting(Off, "claim", ClaimRequest)

At(r, at) == proc[r].at = at

\* The call has been answered; what the client makes of it (_protocol_error).
Answered(r, at) == At(r, at) /\ proc[r].answer # None
Succeeded(r) == proc[r].answer.verdict \in {"leased", "no_work", "accepted", "replayed"}
LeaseLost(r) == proc[r].answer.verdict \in {"lease_expired", "lease_invalid"}
Errored(r) == ~Succeeded(r) /\ ~LeaseLost(r)

InitLoop == /\ disk = [r \in Runners |-> None]
            /\ proc = [r \in Runners |-> Off]
            /\ minted = [r \in Runners |-> 0]
            /\ artifacts = [r \in Runners |-> {}]

-----------------------------------------------------------------------------
(* Evidence on disk: ArtifactStore *)

\* An artifact is identified by its case, its stem and the digest of its bytes.
Artifact(c, stem, content) == [case |-> c, stem |-> stem, content |-> content]

\* A file name: the stem, with .json or .manifest.json.
FileName(f) == <<f.artifact.case, f.artifact.stem, f.kind>>

\* Variation: the manifest is written before the bytes it describes.
ManifestFirst(artifact, parents) ==
    << [kind |-> "manifest", artifact |-> artifact, parents |-> parents],
       [kind |-> "body", artifact |-> artifact, parents |-> {}] >>

\* _write: the body, then the manifest that describes it.
FilePair(artifact, parents) ==
    << [kind |-> "body", artifact |-> artifact, parents |-> {}],
       [kind |-> "manifest", artifact |-> artifact, parents |-> parents] >>

\* What write_turn and write_observations write of an accepted turn, in order.
TurnFiles(req) ==
    LET turn == Artifact(req.case, <<"turn", req.sequence>>, req.output)
        seen == Artifact(req.case, <<"observations", req.sequence>>, req.output)
    IN  FilePair(turn, {})
        \o IF <<req.case, req.sequence>> \in Observed THEN FilePair(seen, {turn}) ELSE << >>

CompletionFiles(req, parents) ==
    FilePair(Artifact(req.case, <<"completion", 0>>, [outcome |-> req.outcome]), parents)

\* The files an answered call is followed by.
EvidenceOf(r) ==
    IF proc[r].request.op = "turn" THEN TurnFiles(proc[r].request)
    ELSE CompletionFiles(proc[r].request, proc[r].parents)

\* The first n of the files are written, each over the one of its name.
WriteFirst(r, n) ==
    LET written == {EvidenceOf(r)[m] : m \in 1..n}
    IN  artifacts' = [artifacts EXCEPT ![r] =
           {f \in @ : \A g \in written : FileName(f) # FileName(g)} \union written]

WriteAll(r) == WriteFirst(r, Len(EvidenceOf(r)))

\* Variation: observations are not named among the parents.
TurnsOnly(r, n) ==
    proc[r].parents \union {EvidenceOf(r)[m].artifact :
        m \in {k \in 1..n : EvidenceOf(r)[k].kind = "manifest" /\ k <= 2}}

\* parent_ids, once the first n of the files are written.
ParentsAfter(r, n) ==
    proc[r].parents \union {EvidenceOf(r)[m].artifact :
        m \in {k \in 1..n : EvidenceOf(r)[k].kind = "manifest"}}

\* A completion derived from more artifacts than a manifest may name: the
\* manifest is refused when its body has been written.
TooManyParents(r) ==
    proc[r].request.op = "complete" /\ Cardinality(proc[r].parents) > MaxParents

\* Writing the evidence raises, after n files.
WriteRaises(r, n) ==
    \/ DiskRaises /\ n < Len(EvidenceOf(r))
    \/ TooManyParents(r) /\ n = 1

-----------------------------------------------------------------------------
(* Between cases: run_until_idle, _resume_case *)

\* A leftover checkpoint is honoured before anything is claimed: a pending
\* completion is sent as it was saved, a case in its turns heartbeats first.
Boot(r) ==
    /\ At(r, "off")
    /\ LET ckpt == disk[r] IN
       \/ /\ ckpt = None
          /\ proc' = [proc EXCEPT ![r] = Claiming]
       \/ /\ ckpt # None
          /\ ckpt.phase = "complete" /\ ckpt.case \notin Refused
          /\ proc' = [proc EXCEPT ![r] =
                Waiting([Off EXCEPT !.entry = ckpt, !.current = ckpt],
                        "complete", ckpt.submission)]
       \/ /\ ckpt # None
          /\ ckpt.phase = "turn"
          /\ proc' = [proc EXCEPT ![r] =
                Waiting(Off, "resume", HeartbeatRequest(ckpt))]
    /\ UNCHANGED <<disk, minted, artifacts>>

\* A case is over: its checkpoint goes, and the loop claims the next one unless
\* it was told to stop or, after a case it claimed, runs with --once.
LeaveCase(r) ==
    /\ disk' = [disk EXCEPT ![r] = None]
    /\ \/ proc' = [proc EXCEPT ![r] = Claiming]
       \/ proc' = [proc EXCEPT ![r] = Off]

\* Start a case: the assignment is checked outside the handler that records
\* failures, so a refused one takes the process down and leaves the checkpoint, as
\* adapter.capabilities() does if it raises there (which is no different from a kill).
BeginCase(r, ckpt, session) ==
    proc' = [proc EXCEPT ![r] =
       IF ckpt.case \in Refused THEN Off
       ELSE [@ EXCEPT !.at = "send", !.entry = ckpt, !.current = ckpt, !.session = session,
                      !.request = None, !.answer = None, !.attempt = 0]]

\* A claimed case is checkpointed before the target hears of it.
ClaimLeased(r) ==
    /\ Answered(r, "claim") /\ proc[r].answer.verdict = "leased"
    /\ LET ckpt == [case |-> proc[r].answer.case, lease |-> proc[r].answer.lease,
                    submitted |-> << >>, pending |-> 0, turn_key |-> NewKey(r),
                    complete_key |-> None, phase |-> "turn", submission |-> None]
       IN  /\ disk' = [disk EXCEPT ![r] = ckpt]
           /\ BeginCase(r, ckpt, << >>)
    /\ minted' = [minted EXCEPT ![r] = @ + 1]
    /\ UNCHANGED artifacts

\* Nothing queued, or the claim failed: the run ends (with --wait it comes
\* back to claim after a while, as a new process would).
ClaimEnds(r) ==
    /\ Answered(r, "claim") /\ proc[r].answer.verdict # "leased"
    /\ proc' = [proc EXCEPT ![r] = Off]
    /\ UNCHANGED <<disk, minted, artifacts>>

\* Variation: the reset target is not told what was said before.
ReplayNothing(ckpt) == << >>

\* What the target hears again when a case is resumed.
Replay(ckpt) == ckpt.submitted

\* The lease is still ours: the target is reset and hears again, without a
\* heartbeat, every input it had answered.
ResumeAlive(r) ==
    /\ Answered(r, "resume") /\ Succeeded(r)
    /\ BeginCase(r, disk[r], Replay(disk[r]))
    /\ UNCHANGED <<disk, minted, artifacts>>

\* Variation: the process gives up and keeps the checkpoint.
ResumeLostKeeps(r) ==
    /\ Answered(r, "resume") /\ LeaseLost(r)
    /\ proc' = [proc EXCEPT ![r] = Off]
    /\ UNCHANGED <<disk, minted, artifacts>>

ResumeLost(r) ==
    /\ Answered(r, "resume") /\ LeaseLost(r)
    /\ LeaveCase(r)
    /\ UNCHANGED <<minted, artifacts>>

\* Any other failure of the first heartbeat escapes and keeps the checkpoint.
ResumeFails(r) ==
    /\ Answered(r, "resume") /\ Errored(r)
    /\ proc' = [proc EXCEPT ![r] = Off]
    /\ UNCHANGED <<disk, minted, artifacts>>

-----------------------------------------------------------------------------
(* A case: _run_case, _complete *)

\* Variation: the failure is reported with the default status of _complete.
FailureReportAsDefault(ckpt, key) == CompleteRequest(ckpt, key, "completed")

FailureReport(ckpt, key) == CompleteRequest(ckpt, key, "execution_failed")

\* The except clause works on the checkpoint _run_case was entered with: a
\* completion key made since then is forgotten, and whatever had been prepared
\* is replaced by the report of a failure, saved and posted.
FailCase(r, parents) ==
    LET entry == proc[r].entry
        key == IF entry.complete_key = None THEN NewKey(r) ELSE entry.complete_key
        report == FailureReport(entry, key)
    IN  /\ disk' = [disk EXCEPT ![r] =
              [entry EXCEPT !.complete_key = key, !.phase = "complete", !.submission = report]]
        /\ minted' = [minted EXCEPT ![r] = IF entry.complete_key = None THEN @ + 1 ELSE @]
        /\ proc' = [proc EXCEPT ![r] = Waiting([@ EXCEPT !.parents = parents],
                                              "failing", report)]

\* Variation: what was prepared before a restart is prepared again.
PreparedAnew(ckpt, output) == TurnRequest(ckpt, output)

\* The submission of the pending turn: the saved one, if there is one.
Prepared(ckpt, output) ==
    IF ckpt.submission = None THEN TurnRequest(ckpt, output) ELSE ckpt.submission

\* Variation: the input counts as submitted before the server has said so.
SavedAhead(ckpt, submission) ==
    [ckpt EXCEPT !.submission = submission, !.submitted = Append(@, ckpt.pending)]

Saved(ckpt, submission) == [ckpt EXCEPT !.submission = submission]

\* The target answers; the submission is saved, unless it was, and posted.
Send(r) ==
    /\ At(r, "send")
    /\ \E take \in Takes :
       LET current == proc[r].current
           heard == Append(proc[r].session, current.pending)
           submission == Prepared(current, [heard |-> heard, take |-> take])
           saved == Saved(current, submission)
       IN  /\ disk' = [disk EXCEPT ![r] = saved]
           /\ proc' = [proc EXCEPT ![r] =
                 Waiting([@ EXCEPT !.current = saved, !.session = heard], "turn", submission)]
    /\ UNCHANGED <<minted, artifacts>>

\* reset, send or observe raises, or a heartbeat sent meanwhile failed for
\* another reason than a lost lease.
SendRaises(r) ==
    /\ TargetRaises /\ At(r, "send")
    /\ FailCase(r, proc[r].parents)
    /\ UNCHANGED artifacts

\* Variation: the key of the turn before is kept.
AdvancedUnderOldKey(ckpt, input, key) ==
    [ckpt EXCEPT !.submitted = Append(@, ckpt.pending), !.pending = input, !.submission = None]

\* The checkpoint of the next turn, under a key of its own.
Advanced(ckpt, input, key) ==
    [ckpt EXCEPT !.submitted = Append(@, ckpt.pending), !.pending = input,
                 !.turn_key = key, !.submission = None]

TurnContinues(r) ==
    /\ Answered(r, "turn") /\ Succeeded(r) /\ proc[r].answer.action = "continue"
    /\ WriteAll(r)
    /\ LET next == Advanced(proc[r].current, proc[r].answer.input, NewKey(r))
       IN  /\ disk' = [disk EXCEPT ![r] = next]
           /\ proc' = [proc EXCEPT ![r] =
                 [@ EXCEPT !.at = "send", !.current = next,
                           !.parents = ParentsAfter(r, Len(EvidenceOf(r))),
                           !.request = None, !.answer = None, !.attempt = 0]]
    /\ minted' = [minted EXCEPT ![r] = @ + 1]

\* The script is over: the completion is prepared, saved and posted.
TurnFinishes(r) ==
    /\ Answered(r, "turn") /\ Succeeded(r) /\ proc[r].answer.action # "continue"
    /\ WriteAll(r)
    /\ LET current == proc[r].current
           key == IF current.complete_key = None THEN NewKey(r) ELSE current.complete_key
           report == CompleteRequest(current, key, IF proc[r].answer.action = "cancel"
                                                   THEN "canceled" ELSE "completed")
           done == [current EXCEPT !.submitted = Append(@, current.pending),
                                   !.pending = None, !.turn_key = None, !.complete_key = key,
                                   !.phase = "complete", !.submission = report]
       IN  /\ disk' = [disk EXCEPT ![r] = done]
           /\ proc' = [proc EXCEPT ![r] =
                 Waiting([@ EXCEPT !.current = done,
                                   !.parents = ParentsAfter(r, Len(EvidenceOf(r)))],
                         "complete", report)]
           /\ minted' = [minted EXCEPT ![r] = IF current.complete_key = None THEN @ + 1 ELSE @]

CompletionAccepted(r) ==
    /\ Answered(r, "complete") /\ Succeeded(r) /\ ~TooManyParents(r)
    /\ WriteAll(r)
    /\ LeaveCase(r)
    /\ UNCHANGED minted

\* Leaving a case after its lease was lost or its failure reported, the target
\* is closed first; an error of it that is not an AdapterError escapes and
\* keeps the checkpoint.
CloseAndLeave(r) ==
    \/ LeaveCase(r)
    \/ TargetRaises /\ proc' = [proc EXCEPT ![r] = Off] /\ UNCHANGED disk

\* The server took the lease away: the case is dropped, nothing is resubmitted.
CaseLost(r) ==
    /\ Answered(r, "turn") \/ Answered(r, "complete")
    /\ LeaseLost(r)
    /\ CloseAndLeave(r)
    /\ UNCHANGED <<minted, artifacts>>

\* The call was answered, but what follows it raises: writing the evidence, the
\* final observe after the last turn, or close after the completion.
RaisesAfterAnswer(r, n) ==
    /\ Succeeded(r)
    /\ WriteFirst(r, n)
    /\ \/ WriteRaises(r, n)
       \/ /\ TargetRaises /\ n = Len(EvidenceOf(r)) /\ ~TooManyParents(r)
          /\ \/ At(r, "turn") /\ proc[r].answer.action = "finish"
             \/ At(r, "complete") /\ proc[r].session # None

\* Any error but a lost lease, of the call or of what follows it, fails the case.
\* parent_ids holds the turns whose manifest has been written.
CallErrors(r) ==
    \/ /\ Answered(r, "turn") \/ Answered(r, "complete")
       /\ Errored(r) /\ UNCHANGED artifacts
       /\ FailCase(r, proc[r].parents)
    \/ /\ Answered(r, "turn")
       /\ \E n \in 0..Len(EvidenceOf(r)) :
             RaisesAfterAnswer(r, n) /\ FailCase(r, ParentsAfter(r, n))
    \/ /\ Answered(r, "complete")
       /\ \E n \in 0..Len(EvidenceOf(r)) :
             RaisesAfterAnswer(r, n) /\ FailCase(r, proc[r].parents)

FailureRecorded(r) ==
    /\ Answered(r, "failing") /\ Succeeded(r) /\ ~TooManyParents(r)
    /\ WriteAll(r)
    /\ CloseAndLeave(r)
    /\ UNCHANGED minted

FailureUnwanted(r) ==
    /\ Answered(r, "failing") /\ LeaseLost(r)
    /\ CloseAndLeave(r)
    /\ UNCHANGED <<minted, artifacts>>

\* The failure report itself failed, or the writing of its evidence: that
\* exception is not caught, the process ends and the checkpoint stays, in phase
\* "complete".
FailureEscapes(r) ==
    /\ Answered(r, "failing")
    /\ \/ Errored(r) /\ UNCHANGED artifacts
       \/ /\ Succeeded(r)
          /\ \E n \in 0..Len(EvidenceOf(r)) : WriteRaises(r, n) /\ WriteFirst(r, n)
    /\ proc' = [proc EXCEPT ![r] = Off]
    /\ UNCHANGED <<disk, minted>>

\* The process is killed: between two steps, or while it writes the evidence of
\* a call that was answered and before it saved its checkpoint.
Crash(r) ==
    /\ ~At(r, "off")
    /\ \/ UNCHANGED artifacts
       \/ /\ Answered(r, "turn") \/ Answered(r, "complete") \/ Answered(r, "failing")
          /\ Succeeded(r)
          /\ \E n \in 1..Len(EvidenceOf(r)) :
                /\ TooManyParents(r) => n = 1
                /\ WriteFirst(r, n)
    /\ proc' = [proc EXCEPT ![r] = Off]
    /\ UNCHANGED <<disk, minted>>

\* What a live process does of its own, in the order of the code.
Proceed(r) ==
    \/ ClaimLeased(r) \/ ClaimEnds(r)
    \/ ResumeAlive(r) \/ ResumeLost(r) \/ ResumeFails(r)
    \/ Send(r) \/ SendRaises(r)
    \/ TurnContinues(r) \/ TurnFinishes(r)
    \/ CompletionAccepted(r) \/ CaseLost(r) \/ CallErrors(r)
    \/ FailureRecorded(r) \/ FailureUnwanted(r) \/ FailureEscapes(r)
=============================================================================
