------------------------- MODULE GrantedRunsProofs -------------------------
(***************************************************************************)
(* Proofs about GrantedRuns, for any number of Runs, cases, grants and     *)
(* working directories, and any number of kills and failing calls: a grant *)
(* ends with its command, and a command reports cases of its Run alone.    *)
(***************************************************************************)
EXTENDS GrantedRuns, TLAPS

ProcFields == {"at", "entry", "current", "session", "parents", "request", "answer", "attempt"}
CheckpointFields == {"case", "lease", "submitted", "pending", "turn_key", "complete_key",
                     "phase", "submission"}

-----------------------------------------------------------------------------
(* Grants *)

\* A directory without a command has no grant, a command has one for its Run.
CommandSound(r) ==
    \/ command[r] = NoCommand
    \/ /\ DOMAIN command[r] = {"at", "attempt", "grant", "id"}
       /\ command[r].at \in {"created", "executing"}
       /\ command[r].grant \in Grants /\ command[r].grant[1] = command[r].attempt

CommandsSound ==
    /\ DOMAIN command = Runners /\ DOMAIN keyState = Grants
    /\ \A r \in Runners : CommandSound(r)

\* No handler of the orchestrator issues or revokes a grant.
LEMMA ServingKeepsKeys ==
    ASSUME NEW k, NEW id, NEW req, Server!Serves(k, id, req)
    PROVE  keyState' = keyState
BY DEF Server!Serves, Server!Unauthenticated, Server!vars, Server!Claim, Server!ClaimExisting,
       Server!GrantLease, Server!NoWork, Server!Heartbeat, Server!SubmitTurn, Server!Complete

LEMMA NoCommandParts ==
    /\ NoCommand.at = "idle" /\ NoCommand.grant = None
    /\ \A r \in Runners : CommandSound(r) /\ command[r].at # "idle" =>
         /\ DOMAIN command[r] = {"at", "attempt", "grant", "id"}
         /\ command[r].grant \in Grants /\ command[r].grant[1] = command[r].attempt
BY DEF NoCommand, CommandSound

\* A command that is created holds a grant for its Run that nobody has, or the
\* reply was lost and with it the grant.
LEMMA CreateParts ==
    ASSUME NEW r \in Runners, NEW a \in Attempts, CreateRun(r, a)
    PROVE  \E k \in Grants : \E x :
              /\ command[r].at = "idle" /\ UNCHANGED <<loopVars, reported>>
              /\ keyState' = [keyState EXCEPT ![k] = "active"]
              /\ \/ command' = [command EXCEPT ![r] = x] /\ lost' = lost \ {k}
                 \/ command' = command /\ lost' = lost \union {k}
              /\ DOMAIN x = {"at", "attempt", "grant", "id"}
              /\ x.at = "created" /\ x.attempt = a /\ x.grant = k /\ k[1] = a
<1>1. PICK k : k = CHOOSE g \in FreshGrants(a) : TRUE
  OBVIOUS
<1>2. PICK x : x = [NoCommand EXCEPT !.at = "created", !.attempt = a, !.grant = k]
  OBVIOUS
<1>3. FreshGrants(a) # {} /\ command[r].at = "idle" /\ UNCHANGED <<loopVars, reported>>
  BY Zenon DEF CreateRun
<1>4. k \in Grants /\ k[1] = a
  BY <1>1, <1>3 DEF FreshGrants
<1>5. /\ RunCreated(a, k)
      /\ \/ command' = [command EXCEPT ![r] = x] /\ lost' = lost \ {k}
         \/ command' = command /\ lost' = lost \union {k}
  BY <1>1, <1>2, Zenon DEF CreateRun
<1>6. /\ DOMAIN x = {"at", "attempt", "grant", "id"}
      /\ x.at = "created" /\ x.attempt = a /\ x.grant = k
  BY <1>2 DEF NoCommand
<1> QED
  BY <1>3, <1>4, <1>5, <1>6 DEF RunCreated

\* A command that starts its loop keeps its grant.
LEMMA ExecuteParts ==
    ASSUME CommandsSound, NEW r \in Runners, Execute(r)
    PROVE  /\ command[r].at = "created" /\ DOMAIN command' = Runners
           /\ \A q \in Runners \ {r} : command'[q] = command[q]
           /\ DOMAIN command'[r] = {"at", "attempt", "grant", "id"}
           /\ command'[r].at = "executing" /\ command'[r].grant = command[r].grant
           /\ command'[r].attempt = command[r].attempt
<1>1. PICK id : command' = [command EXCEPT ![r].at = "executing", ![r].id = id]
  BY DEF Execute
<1>2. command[r].at = "created"
  BY DEF Execute
<1>3. DOMAIN command[r] = {"at", "attempt", "grant", "id"}
  BY <1>2, NoCommandParts DEF CommandsSound
<1> QED
  BY <1>1, <1>2, <1>3 DEF CommandsSound

\* What becomes of grants and commands in a step that is not the creation, the
\* start or the end of one.
LEMMA QuietParts ==
    ASSUME [Next]_vars,
           ~\E r \in Runners : \/ \E a \in Attempts : CreateRun(r, a)
                               \/ LoadFails(r) \/ Execute(r) \/ Release(r) \/ Killed(r)
    PROVE  /\ UNCHANGED <<command, lost>>
           /\ keyState' = keyState
              \/ \E k \in Grants : keyState' = [keyState EXCEPT ![k] = "revoked"]
<1>1. CASE \/ UNCHANGED vars \/ Tick \/ OrphanAges \/ GrantExpires
           \/ \E r \in Runners : Beat(r) \/ Step(r)
  BY <1>1 DEF vars, serverVars, shellVars, Tick, OrphanAges, Server!Tick, GrantExpires,
              Beat, Server!Heartbeat, Step
<1>2. CASE LateArrives \/ \E r \in Runners : Serve(r)
  BY <1>2, ServingKeepsKeys DEF LateArrives, Serve, shellVars
<1> QED
  BY <1>1, <1>2 DEF Next

LEMMA CommandsStep ==
    ASSUME CommandsSound, [Next]_vars
    PROVE  CommandsSound'
<1>1. ASSUME NEW r \in Runners, NEW a \in Attempts, CreateRun(r, a)
      PROVE  CommandsSound'
  BY <1>1, CreateParts DEF CommandsSound, CommandSound
<1>2. ASSUME NEW r \in Runners, LoadFails(r) \/ Release(r) \/ Killed(r)
      PROVE  CommandsSound'
  BY <1>2 DEF LoadFails, Release, Released, Killed, serverVars, CommandsSound, CommandSound
<1>3. ASSUME NEW r \in Runners, Execute(r)
      PROVE  CommandsSound'
  <2>1. CommandSound(r)'
    BY <1>3, ExecuteParts, NoCommandParts DEF CommandsSound, CommandSound
  <2>2. keyState' = keyState
    BY <1>3 DEF Execute, serverVars
  <2> QED
    BY <1>3, <2>1, <2>2, ExecuteParts DEF CommandsSound, CommandSound
<1> QED
  BY <1>1, <1>2, <1>3, QuietParts DEF CommandsSound, CommandSound

\* A command that ends leaves its grant revoked, or lost.
LEMMA EndingCommand ==
    ASSUME CommandsSound, GrantDiesWithCommand, NEW r \in Runners,
           command' = [command EXCEPT ![r] = NoCommand],
           \/ keyState' = Released(r) /\ lost' = lost
           \/ keyState' = keyState /\ lost' = lost \union {command[r].grant}
    PROVE  GrantDiesWithCommand'
<1> SUFFICES ASSUME NEW k \in Grants, keyState'[k] = "active"
             PROVE  k \in lost' \/ \E q \in Runners : command'[q].grant = k
  BY DEF GrantDiesWithCommand
<1>1. keyState[k] = "active"
  BY DEF CommandsSound, Released
<1>2. ASSUME NEW q \in Runners, command[q].grant = k
      PROVE  k \in lost' \/ command'[q].grant = k
  BY <1>2 DEF CommandsSound, Released
<1> QED
  BY <1>1, <1>2 DEF GrantDiesWithCommand

\* A new grant is the command's, or its reply was lost.
LEMMA CreatingCommand ==
    ASSUME CommandsSound, GrantDiesWithCommand, NEW r \in Runners, NEW a \in Attempts,
           CreateRun(r, a)
    PROVE  GrantDiesWithCommand'
<1>1. PICK k \in Grants : \E x :
        /\ command[r].at = "idle" /\ keyState' = [keyState EXCEPT ![k] = "active"]
        /\ \/ command' = [command EXCEPT ![r] = x] /\ lost' = lost \ {k}
           \/ command' = command /\ lost' = lost \union {k}
        /\ x.grant = k
  BY CreateParts
<1>2. command[r].grant \notin Grants
  BY <1>1, NoCommandParts, GrantsAssumption DEF CommandsSound, CommandSound
<1> SUFFICES ASSUME NEW j \in Grants, keyState'[j] = "active"
             PROVE  j \in lost' \/ \E q \in Runners : command'[q].grant = j
  BY DEF GrantDiesWithCommand
<1>3. CASE j = k
  BY <1>1, <1>3 DEF CommandsSound
<1>4. CASE j # k
  BY <1>1, <1>2, <1>4 DEF CommandsSound, GrantDiesWithCommand
<1> QED
  BY <1>3, <1>4

\* Every step but a failed load of the adapter, which drops the grant of a
\* command that was created.
LEMMA GrantStep ==
    ASSUME CommandsSound, GrantDiesWithCommand, [Next]_vars, ~AdapterMayBeMissing
    PROVE  GrantDiesWithCommand'
<1>1. ASSUME NEW r \in Runners, NEW a \in Attempts, CreateRun(r, a)
      PROVE  GrantDiesWithCommand'
  BY <1>1, CreatingCommand
<1>2. ASSUME NEW r \in Runners, Release(r) \/ Killed(r)
      PROVE  GrantDiesWithCommand'
  BY <1>2, EndingCommand DEF Release, Killed, serverVars
<1>3. ASSUME NEW r \in Runners, Execute(r)
      PROVE  GrantDiesWithCommand'
  <2>1. keyState' = keyState /\ lost' = lost
    BY <1>3 DEF Execute, serverVars
  <2>2. \A q \in Runners : command'[q].grant = command[q].grant
    BY <1>3, ExecuteParts
  <2> QED
    BY <2>1, <2>2 DEF GrantDiesWithCommand
<1>4. ASSUME UNCHANGED <<command, lost>>,
             \/ keyState' = keyState
             \/ \E k \in Grants : keyState' = [keyState EXCEPT ![k] = "revoked"]
      PROVE  GrantDiesWithCommand'
  BY <1>4 DEF CommandsSound, GrantDiesWithCommand
<1> QED
  BY <1>1, <1>2, <1>3, <1>4, QuietParts DEF LoadFails

LEMMA GrantInit == Init => CommandsSound /\ GrantDiesWithCommand
BY DEF Init, CommandsSound, CommandSound, GrantDiesWithCommand

\* A grant is active only while its command runs, or after a kill or a failed
\* call, wherever the adapter can be loaded (_execute_run, the finally clause).
THEOREM GrantsDieWithCommands ==
    ASSUME ~AdapterMayBeMissing
    PROVE  Spec => []GrantDiesWithCommand
<1>1. /\ CommandsSound /\ GrantDiesWithCommand /\ [Next]_vars
         => CommandsSound' /\ GrantDiesWithCommand'
  BY CommandsStep, GrantStep
<1> QED
  BY GrantInit, <1>1, PTL DEF Spec

-----------------------------------------------------------------------------
(* Results *)

\* A checkpoint whose submission, once its turns are over, is a completion.
Shaped(ckpt) ==
    /\ DOMAIN ckpt = CheckpointFields
    /\ ckpt.phase = "complete" => ckpt.submission.op = "complete"

\* The state p of a process agrees with its checkpoint d.
Fits(p, d) ==
    /\ DOMAIN p = ProcFields
    /\ d # None => Shaped(d)
    /\ p.at = "resume" => Shaped(d) /\ d.phase = "turn"
    /\ p.at \in {"send", "turn", "complete"} => Shaped(p.entry) /\ Shaped(p.current)
    /\ p.at \in {"send", "turn"} => p.current.phase = "turn"
    /\ p.at \in {"complete", "failing"} => p.request.op = "complete"

\* A case whose completion has been answered, or refused for want of a lease,
\* belongs to the Run of the command.
OwnCase(r) ==
    proc[r].answer # None /\ (Succeeded(r) \/ LeaseLost(r)) =>
       RunOf[proc[r].request.case] = command[r].attempt

LoopSound(r) ==
    /\ Fits(proc[r], disk[r])
    /\ At(r, "complete") \/ At(r, "failing") => OwnCase(r)
    /\ ~At(r, "off") => command[r].at = "executing"

ReportSound(r) ==
    /\ command[r].at # "executing" => reported[r] = {}
    /\ \A c \in reported[r] : RunOf[c] = command[r].attempt

DomainsSound == /\ DOMAIN proc = Runners /\ DOMAIN reported = Runners
                /\ disk = [r \in Runners |-> disk[r]]

ResultInv ==
    /\ CommandsSound /\ DomainsSound
    /\ \A r \in Runners : LoopSound(r) /\ ReportSound(r)

LEMMA OffParts == DOMAIN Off = ProcFields /\ Off.at = "off"
BY DEF Off, ProcFields

LEMMA WaitingParts ==
    ASSUME NEW p, DOMAIN p = ProcFields, NEW at, NEW request
    PROVE  LET w == Waiting(p, at, request) IN
           /\ DOMAIN w = ProcFields
           /\ w.at = at /\ w.request = request /\ w.answer = None
           /\ w.entry = p.entry /\ w.current = p.current
BY DEF Waiting, ProcFields

\* The orchestrator answers a completion with success, or with a lost lease,
\* only if the case belongs to the Run of the grant.
LEMMA CompletionAnswered ==
    ASSUME NEW k \in Grants, NEW id, NEW req, req.op = "complete",
           Server!Reply(k, id, req).verdict \in {"leased", "no_work", "accepted", "replayed",
                                                "lease_expired", "lease_invalid"}
    PROVE  RunOf[req.case] = k[1]
<1>1. /\ Server!Authentic(k)
      /\ Server!Reply(k, id, req) =
            [verdict |-> Server!CompleteVerdict(k, req.case, req.lease, req.key)]
  BY DEF Server!Reply
<1>2. Server!Authorized(k, req.case) = "ok"
  BY <1>1 DEF Server!CompleteVerdict, Server!Authorized
<1> QED
  BY <1>2 DEF Server!Authorized

-----------------------------------------------------------------------------
(* Steps of the loop *)

\* The process of r goes on, and waits for nothing that was answered before.
Moved(r) ==
    \E p, d : /\ proc' = [proc EXCEPT ![r] = p] /\ disk' = [disk EXCEPT ![r] = d]
              /\ Fits(p, d) /\ p.answer = None

LEMMA GoesOff ==
    ASSUME NEW r \in Runners, DomainsSound, Fits(proc[r], disk[r]),
           proc' = [proc EXCEPT ![r] = Off], disk' = disk
    PROVE  Moved(r)
<1>1. disk' = [disk EXCEPT ![r] = disk[r]]
  BY DEF DomainsSound
<1>2. Fits(Off, disk[r]) /\ Off.answer = None
  BY OffParts DEF Fits, Off
<1> QED
  BY <1>1, <1>2 DEF Moved

LEMMA LeavesCase ==
    ASSUME NEW r \in Runners, DomainsSound, Fits(proc[r], disk[r]), CloseAndLeave(r)
    PROVE  Moved(r)
<1>1. CASE LeaveCase(r)
  <2>1. PICK p \in {Off, Claiming} : proc' = [proc EXCEPT ![r] = p]
    BY <1>1 DEF LeaveCase
  <2>2. Fits(p, None) /\ p.answer = None
    <3>1. /\ DOMAIN Claiming = ProcFields /\ Claiming.at = "claim" /\ Claiming.answer = None
          /\ Off.answer = None
      BY OffParts, WaitingParts DEF Claiming, Off
    <3> QED
      BY <3>1, OffParts DEF Fits
  <2> QED
    BY <1>1, <2>1, <2>2 DEF Moved, LeaveCase
<1>2. CASE proc' = [proc EXCEPT ![r] = Off] /\ disk' = disk
  BY <1>2, GoesOff
<1> QED
  BY <1>1, <1>2 DEF CloseAndLeave

LEMMA Boots ==
    ASSUME NEW r \in Runners, DomainsSound, Fits(proc[r], disk[r]), Boot(r)
    PROVE  Moved(r)
<1> DEFINE ckpt == disk[r]
<1>1. disk' = [disk EXCEPT ![r] = ckpt]
  BY DEF Boot, DomainsSound
<1>2. CASE ckpt = None /\ proc' = [proc EXCEPT ![r] = Claiming]
  <2>1. Fits(Claiming, ckpt) /\ Claiming.answer = None
    BY <1>2, OffParts, WaitingParts DEF Claiming, Fits
  <2> QED
    BY <1>1, <1>2, <2>1 DEF Moved
<1>3. CASE /\ ckpt # None /\ ckpt.phase = "complete"
           /\ proc' = [proc EXCEPT ![r] =
                  Waiting([Off EXCEPT !.entry = ckpt, !.current = ckpt],
                          "complete", ckpt.submission)]
  <2>1. PICK q : q = [Off EXCEPT !.entry = ckpt, !.current = ckpt]
    OBVIOUS
  <2>2. DOMAIN q = ProcFields /\ q.entry = ckpt /\ q.current = ckpt
    BY <2>1 DEF Off, ProcFields
  <2>3. PICK p : p = Waiting(q, "complete", ckpt.submission)
    OBVIOUS
  <2>4. /\ DOMAIN p = ProcFields /\ p.at = "complete" /\ p.entry = ckpt /\ p.current = ckpt
        /\ p.request = ckpt.submission /\ p.answer = None
    BY <2>2, <2>3, WaitingParts
  <2>5. Fits(p, ckpt)
    BY <1>3, <2>4 DEF Fits, Shaped
  <2> QED
    BY <1>1, <1>3, <2>1, <2>3, <2>4, <2>5 DEF Moved
<1>4. CASE /\ ckpt # None /\ ckpt.phase = "turn"
           /\ proc' = [proc EXCEPT ![r] = Waiting(Off, "resume", HeartbeatRequest(ckpt))]
  <2>1. PICK p : p = Waiting(Off, "resume", HeartbeatRequest(ckpt))
    OBVIOUS
  <2>2. Fits(p, ckpt) /\ p.answer = None
    BY <1>4, <2>1, OffParts, WaitingParts DEF Fits
  <2> QED
    BY <1>1, <1>4, <2>1, <2>2 DEF Moved
<1> QED
  BY <1>2, <1>3, <1>4 DEF Boot

LEMMA Begins ==
    ASSUME NEW r \in Runners, DomainsSound, Fits(proc[r], disk[r]), NEW ckpt, NEW session,
           Shaped(ckpt), ckpt.phase = "turn", disk' = [disk EXCEPT ![r] = ckpt],
           BeginCase(r, ckpt, session)
    PROVE  Moved(r)
<1>1. PICK p : /\ proc' = [proc EXCEPT ![r] = p]
               /\ p = IF ckpt.case \in Refused THEN Off
                      ELSE [proc[r] EXCEPT !.at = "send", !.entry = ckpt, !.current = ckpt,
                                           !.session = session, !.request = None,
                                           !.answer = None, !.attempt = 0]
  BY DEF BeginCase
<1>2. \/ p = Off
      \/ /\ DOMAIN p = ProcFields /\ p.at = "send" /\ p.answer = None
         /\ p.current = ckpt /\ p.entry = ckpt
  BY <1>1 DEF Fits, ProcFields
<1>3. Off.answer = None
  BY DEF Off
<1>4. Fits(p, ckpt) /\ p.answer = None
  BY <1>2, <1>3, OffParts DEF Fits
<1> QED
  BY <1>1, <1>4 DEF Moved

LEMMA Claims ==
    ASSUME NEW r \in Runners, DomainsSound, Fits(proc[r], disk[r]),
           ClaimLeased(r) \/ ResumeAlive(r)
    PROVE  Moved(r)
<1>1. CASE ClaimLeased(r)
  <2>1. PICK ckpt : /\ disk' = [disk EXCEPT ![r] = ckpt] /\ BeginCase(r, ckpt, << >>)
                    /\ ckpt = [case |-> proc[r].answer.case, lease |-> proc[r].answer.lease,
                               submitted |-> << >>, pending |-> 0, turn_key |-> NewKey(r),
                               complete_key |-> None, phase |-> "turn", submission |-> None]
    BY <1>1 DEF ClaimLeased
  <2>2. Shaped(ckpt) /\ ckpt.phase = "turn"
    BY <2>1 DEF Shaped, CheckpointFields
  <2> QED
    BY <2>1, <2>2, Begins
<1>2. CASE ResumeAlive(r)
  <2>1. Shaped(disk[r]) /\ disk[r].phase = "turn"
    BY <1>2 DEF ResumeAlive, Answered, At, Fits
  <2>2. disk' = [disk EXCEPT ![r] = disk[r]]
    BY <1>2 DEF ResumeAlive, DomainsSound
  <2>3. PICK session : BeginCase(r, disk[r], session)
    BY <1>2 DEF ResumeAlive
  <2> QED
    BY <2>1, <2>2, <2>3, Begins
<1> QED
  BY <1>1, <1>2

LEMMA Fails ==
    ASSUME NEW r \in Runners, DomainsSound, Fits(proc[r], disk[r]),
           proc[r].at \in {"send", "turn", "complete"}, NEW parents, FailCase(r, parents)
    PROVE  Moved(r)
<1>1. PICK entry : entry = proc[r].entry
  OBVIOUS
<1>2. PICK key : key = IF entry.complete_key = None THEN NewKey(r) ELSE entry.complete_key
  OBVIOUS
<1>3. PICK report : report = FailureReport(entry, key)
  OBVIOUS
<1>4. PICK failed : failed = [entry EXCEPT !.complete_key = key, !.phase = "complete",
                                           !.submission = report]
  OBVIOUS
<1>5. PICK q : q = [proc[r] EXCEPT !.parents = parents]
  OBVIOUS
<1>6. PICK p : p = Waiting(q, "failing", report)
  OBVIOUS
<1>7. disk' = [disk EXCEPT ![r] = failed] /\ proc' = [proc EXCEPT ![r] = p]
  BY <1>1, <1>2, <1>3, <1>4, <1>5, <1>6, Zenon DEF FailCase
<1>8. report.op = "complete"
  BY <1>3 DEF FailureReport, CompleteRequest
<1>9. DOMAIN failed = CheckpointFields /\ failed.submission = report
  BY <1>1, <1>4 DEF Fits, Shaped, CheckpointFields
<1>10. DOMAIN p = ProcFields /\ p.at = "failing" /\ p.request = report /\ p.answer = None
  <2>1. DOMAIN q = ProcFields
    BY <1>5 DEF Fits, ProcFields
  <2> QED
    BY <1>6, <2>1, WaitingParts
<1>11. Fits(p, failed)
  BY <1>8, <1>9, <1>10 DEF Fits, Shaped
<1> QED
  BY <1>7, <1>10, <1>11 DEF Moved

LEMMA Sends ==
    ASSUME NEW r \in Runners, DomainsSound, Fits(proc[r], disk[r]), Send(r)
    PROVE  Moved(r)
<1>1. PICK take \in Takes :
        LET current == proc[r].current
            heard == Append(proc[r].session, current.pending)
            submission == Prepared(current, [heard |-> heard, take |-> take])
            saved == Saved(current, submission)
        IN  /\ disk' = [disk EXCEPT ![r] = saved]
            /\ proc' = [proc EXCEPT ![r] =
                  Waiting([@ EXCEPT !.current = saved, !.session = heard], "turn", submission)]
  BY Zenon DEF Send
<1>2. PICK heard : heard = Append(proc[r].session, proc[r].current.pending)
  OBVIOUS
<1>3. PICK submission :
        submission = Prepared(proc[r].current, [heard |-> heard, take |-> take])
  OBVIOUS
<1>4. PICK saved : saved = Saved(proc[r].current, submission)
  OBVIOUS
<1>5. PICK q : q = [proc[r] EXCEPT !.current = saved, !.session = heard]
  OBVIOUS
<1>6. PICK p : p = Waiting(q, "turn", submission)
  OBVIOUS
<1>7. disk' = [disk EXCEPT ![r] = saved] /\ proc' = [proc EXCEPT ![r] = p]
  BY <1>1, <1>2, <1>3, <1>4, <1>5, <1>6, Zenon
<1>8. /\ Shaped(proc[r].entry) /\ Shaped(proc[r].current)
      /\ proc[r].current.phase = "turn"
  BY DEF Send, At, Fits
<1>9. Shaped(saved) /\ saved.phase = "turn"
  BY <1>4, <1>8 DEF Saved, Shaped, CheckpointFields
<1>10. /\ DOMAIN p = ProcFields /\ p.at = "turn" /\ p.answer = None
       /\ p.entry = proc[r].entry /\ p.current = saved
  <2>1. DOMAIN q = ProcFields /\ q.entry = proc[r].entry /\ q.current = saved
    BY <1>5 DEF Fits, ProcFields
  <2> QED
    BY <1>6, <2>1, WaitingParts
<1>11. Fits(p, saved)
  BY <1>8, <1>9, <1>10 DEF Fits
<1> QED
  BY <1>7, <1>10, <1>11 DEF Moved

LEMMA Continues ==
    ASSUME NEW r \in Runners, DomainsSound, Fits(proc[r], disk[r]), TurnContinues(r)
    PROVE  Moved(r)
<1>1. PICK next : next = Advanced(proc[r].current, proc[r].answer.input, NewKey(r))
  OBVIOUS
<1>2. PICK p : p = [proc[r] EXCEPT !.at = "send", !.current = next,
                                   !.parents = ParentsAfter(r, Len(EvidenceOf(r))),
                                   !.request = None, !.answer = None, !.attempt = 0]
  OBVIOUS
<1>3. disk' = [disk EXCEPT ![r] = next] /\ proc' = [proc EXCEPT ![r] = p]
  BY <1>1, <1>2, Zenon DEF TurnContinues
<1>4. /\ Shaped(proc[r].entry) /\ Shaped(proc[r].current)
      /\ proc[r].current.phase = "turn"
  BY DEF TurnContinues, Answered, At, Fits
<1>5. Shaped(next) /\ next.phase = "turn"
  BY <1>1, <1>4 DEF Advanced, Shaped, CheckpointFields
<1>6. /\ DOMAIN p = ProcFields /\ p.at = "send" /\ p.answer = None
      /\ p.entry = proc[r].entry /\ p.current = next
  BY <1>2 DEF Fits, ProcFields
<1>7. Fits(p, next)
  BY <1>4, <1>5, <1>6 DEF Fits
<1> QED
  BY <1>3, <1>6, <1>7 DEF Moved

LEMMA Finishes ==
    ASSUME NEW r \in Runners, DomainsSound, Fits(proc[r], disk[r]), TurnFinishes(r)
    PROVE  Moved(r)
<1>1. PICK key : key = IF proc[r].current.complete_key = None THEN NewKey(r)
                       ELSE proc[r].current.complete_key
  OBVIOUS
<1>2. PICK report : report = CompleteRequest(proc[r].current, key,
                       IF proc[r].answer.action = "cancel" THEN "canceled" ELSE "completed")
  OBVIOUS
<1>3. PICK current : current = proc[r].current
  OBVIOUS
<1>4. PICK done : done = [current EXCEPT !.submitted = Append(@, current.pending),
                             !.pending = None, !.turn_key = None, !.complete_key = key,
                             !.phase = "complete", !.submission = report]
  OBVIOUS
<1>5. PICK q : q = [proc[r] EXCEPT !.current = done,
                                   !.parents = ParentsAfter(r, Len(EvidenceOf(r)))]
  OBVIOUS
<1>6. PICK p : p = Waiting(q, "complete", report)
  OBVIOUS
<1>7. disk' = [disk EXCEPT ![r] = done] /\ proc' = [proc EXCEPT ![r] = p]
  BY <1>1, <1>2, <1>3, <1>4, <1>5, <1>6, Zenon DEF TurnFinishes
<1>8. Shaped(proc[r].entry) /\ Shaped(current)
  BY <1>3 DEF TurnFinishes, Answered, At, Fits
<1>9. report.op = "complete"
  BY <1>2 DEF CompleteRequest
<1>10. Shaped(done)
  BY <1>4, <1>8, <1>9 DEF Shaped, CheckpointFields
<1>11. /\ DOMAIN p = ProcFields /\ p.at = "complete" /\ p.answer = None
       /\ p.request = report /\ p.entry = proc[r].entry /\ p.current = done
  <2>1. DOMAIN q = ProcFields /\ q.entry = proc[r].entry /\ q.current = done
    BY <1>5 DEF Fits, ProcFields
  <2> QED
    BY <1>6, <2>1, WaitingParts
<1>12. Fits(p, done)
  BY <1>8, <1>9, <1>10, <1>11 DEF Fits
<1> QED
  BY <1>7, <1>11, <1>12 DEF Moved

LEMMA Proceeds ==
    ASSUME NEW r \in Runners, DomainsSound, Fits(proc[r], disk[r]), Proceed(r)
    PROVE  Moved(r) /\ ~At(r, "off")
<1>1. CASE ClaimLeased(r) \/ ResumeAlive(r)
  BY <1>1, Claims DEF ClaimLeased, ResumeAlive, Answered, At
<1>2. CASE ClaimEnds(r) \/ ResumeFails(r) \/ FailureEscapes(r)
  BY <1>2, GoesOff DEF ClaimEnds, ResumeFails, FailureEscapes, Answered, At
<1>3. CASE \/ ResumeLost(r) \/ CompletionAccepted(r) \/ CaseLost(r)
           \/ FailureRecorded(r) \/ FailureUnwanted(r)
  BY <1>3, LeavesCase
     DEF ResumeLost, CompletionAccepted, CaseLost, FailureRecorded, FailureUnwanted,
         CloseAndLeave, Answered, At
<1>4. CASE Send(r)
  <2>1. Moved(r)
    BY <1>4, Sends
  <2>2. ~At(r, "off")
    BY <1>4 DEF Send, At
  <2> QED
    BY <2>1, <2>2
<1>5. CASE SendRaises(r)
  BY <1>5, Fails DEF SendRaises, At
<1>6. CASE CallErrors(r)
  BY <1>6, Fails DEF CallErrors, Answered, At
<1>7. CASE TurnContinues(r)
  <2>1. Moved(r)
    BY <1>7, Continues
  <2>2. ~At(r, "off")
    BY <1>7 DEF TurnContinues, Answered, At
  <2> QED
    BY <2>1, <2>2
<1>8. CASE TurnFinishes(r)
  <2>1. Moved(r)
    BY <1>8, Finishes
  <2>2. ~At(r, "off")
    BY <1>8 DEF TurnFinishes, Answered, At
  <2> QED
    BY <2>1, <2>2
<1> QED
  BY <1>1, <1>2, <1>3, <1>4, <1>5, <1>6, <1>7, <1>8 DEF Proceed

LEMMA Crashes ==
    ASSUME NEW r \in Runners, DomainsSound, Fits(proc[r], disk[r]), Crash(r)
    PROVE  Moved(r) /\ ~At(r, "off") /\ proc' = [proc EXCEPT ![r] = Off]
BY GoesOff DEF Crash

-----------------------------------------------------------------------------
(* The invariant and its theorem *)

\* What is true of one directory needs nothing but its own state.
LEMMA DirectoryUntouched ==
    ASSUME NEW r \in Runners, LoopSound(r), ReportSound(r), proc'[r] = proc[r],
           disk'[r] = disk[r], command'[r] = command[r], reported'[r] = reported[r]
    PROVE  LoopSound(r)' /\ ReportSound(r)'
BY DEF LoopSound, ReportSound, Fits, OwnCase, At, Succeeded, LeaseLost

LEMMA ResultUntouched ==
    ASSUME ResultInv, CommandsSound', UNCHANGED <<loopVars, shellVars>>
    PROVE  ResultInv'
<1>1. DomainsSound'
  BY DEF ResultInv, DomainsSound, loopVars, shellVars
<1> QED
  BY <1>1, DirectoryUntouched DEF ResultInv, loopVars, shellVars

\* A step in directory r alone.
LEMMA DirectoryStep ==
    ASSUME ResultInv, CommandsSound', NEW r \in Runners,
           LoopSound(r)', ReportSound(r)', DomainsSound',
           \A q \in Runners \ {r} :
              /\ proc'[q] = proc[q] /\ disk'[q] = disk[q]
              /\ command'[q] = command[q] /\ reported'[q] = reported[q]
    PROVE  ResultInv'
<1>1. ASSUME NEW q \in Runners, q # r
      PROVE  LoopSound(q)' /\ ReportSound(q)'
  BY <1>1, DirectoryUntouched DEF ResultInv
<1> QED
  BY <1>1 DEF ResultInv

\* The process of r moved: it fits, and none of its requests is answered yet.
LEMMA MovedParts ==
    ASSUME DomainsSound, NEW r \in Runners, Moved(r)
    PROVE  /\ DOMAIN proc' = Runners /\ disk' = [q \in Runners |-> disk'[q]]
           /\ Fits(proc'[r], disk'[r]) /\ proc'[r].answer = None
           /\ \A q \in Runners \ {r} : proc'[q] = proc[q] /\ disk'[q] = disk[q]
<1>1. PICK p, d : /\ proc' = [proc EXCEPT ![r] = p] /\ disk' = [disk EXCEPT ![r] = d]
                  /\ Fits(p, d) /\ p.answer = None
  BY DEF Moved
<1>2. proc'[r] = p /\ disk'[r] = d
  BY <1>1 DEF DomainsSound
<1> QED
  BY <1>1, <1>2 DEF DomainsSound

LEMMA MovedSound ==
    ASSUME DomainsSound, NEW r \in Runners, Moved(r),
           command'[r].at = "executing" \/ proc'[r].at = "off"
    PROVE  LoopSound(r)'
BY MovedParts DEF LoopSound, OwnCase, At

LEMMA ExecuteStep ==
    ASSUME ResultInv, CommandsSound', NEW r \in Runners, Execute(r)
    PROVE  ResultInv'
<1>1. CommandsSound /\ DomainsSound /\ LoopSound(r)
  BY DEF ResultInv
<1>2. Moved(r)
  BY <1>1, Boots DEF LoopSound, Execute
<1>3. PICK id : command' = [command EXCEPT ![r].at = "executing", ![r].id = id]
  BY DEF Execute
<1>4. /\ DOMAIN command[r] = {"at", "attempt", "grant", "id"}
      /\ reported' = [reported EXCEPT ![r] = {}]
  BY <1>1, NoCommandParts DEF Execute, CommandsSound, CommandSound
<1>5. /\ command'[r].at = "executing" /\ reported'[r] = {}
      /\ \A q \in Runners \ {r} : command'[q] = command[q] /\ reported'[q] = reported[q]
  BY <1>1, <1>3, <1>4 DEF CommandsSound, DomainsSound
<1>6. DomainsSound'
  BY <1>1, <1>2, <1>4, MovedParts DEF DomainsSound
<1>7. LoopSound(r)'
  BY <1>1, <1>2, <1>5, MovedSound
<1>8. ReportSound(r)'
  BY <1>5 DEF ReportSound
<1> QED
  BY <1>1, <1>2, <1>5, <1>6, <1>7, <1>8, MovedParts, DirectoryStep

\* A case is reported only when the orchestrator has answered its completion.
LEMMA ProceedStep ==
    ASSUME ResultInv, CommandsSound', NEW r \in Runners, Step(r)
    PROVE  ResultInv'
<1>1. /\ CommandsSound /\ DomainsSound /\ LoopSound(r) /\ ReportSound(r)
      /\ command' = command
  BY DEF ResultInv, Step
<1>2. Moved(r) /\ ~At(r, "off")
  BY <1>1, Proceeds DEF LoopSound, Step
<1>3. reported' = [reported EXCEPT ![r] =
         IF ReturnsResult(r) THEN @ \union {proc[r].request.case} ELSE @]
  BY DEF Step
<1>4. command[r].at = "executing"
  BY <1>1, <1>2 DEF LoopSound
<1>5. ReturnsResult(r) => RunOf[proc[r].request.case] = command[r].attempt
  BY <1>1 DEF ReturnsResult, CompletionAccepted, FailureRecorded, FailureUnwanted, Answered,
              LoopSound, OwnCase
<1>6. /\ \A c \in reported'[r] : RunOf[c] = command[r].attempt
      /\ \A q \in Runners \ {r} : reported'[q] = reported[q]
  BY <1>1, <1>3, <1>5 DEF ReportSound, DomainsSound
<1>7. DomainsSound'
  BY <1>1, <1>2, <1>3, MovedParts DEF DomainsSound
<1>8. LoopSound(r)'
  BY <1>1, <1>2, <1>4, MovedSound
<1>9. ReportSound(r)'
  BY <1>1, <1>4, <1>6 DEF ReportSound
<1> QED
  BY <1>1, <1>2, <1>6, <1>7, <1>8, <1>9, MovedParts, DirectoryStep

LEMMA KillStep ==
    ASSUME ResultInv, CommandsSound', NEW r \in Runners, Killed(r)
    PROVE  ResultInv'
<1>1. CommandsSound /\ DomainsSound /\ LoopSound(r)
  BY DEF ResultInv
<1>2. /\ command' = [command EXCEPT ![r] = NoCommand]
      /\ reported' = [reported EXCEPT ![r] = {}]
  BY DEF Killed
<1>3. /\ command'[r] = NoCommand /\ reported'[r] = {}
      /\ \A q \in Runners \ {r} : command'[q] = command[q] /\ reported'[q] = reported[q]
  BY <1>1, <1>2 DEF CommandsSound, DomainsSound
<1>4. ReportSound(r)'
  BY <1>3, NoCommandParts DEF ReportSound
<1>5. CASE command[r].at = "created" /\ UNCHANGED loopVars
  <2>1. At(r, "off")
    BY <1>1, <1>5 DEF LoopSound
  <2>2. DomainsSound' /\ LoopSound(r)'
    BY <1>1, <1>2, <1>5, <2>1 DEF DomainsSound, LoopSound, At, OwnCase, loopVars
  <2> QED
    BY <1>3, <1>4, <1>5, <2>2, DirectoryStep DEF loopVars
<1>6. CASE Crash(r)
  <2>1. Moved(r) /\ proc' = [proc EXCEPT ![r] = Off]
    BY <1>1, <1>6, Crashes DEF LoopSound
  <2>2. proc'[r].at = "off"
    BY <1>1, <2>1, OffParts DEF DomainsSound
  <2>3. DomainsSound'
    BY <1>1, <1>2, <2>1, MovedParts DEF DomainsSound
  <2>4. LoopSound(r)'
    BY <1>1, <2>1, <2>2, MovedSound
  <2> QED
    BY <1>1, <1>3, <1>4, <2>1, <2>3, <2>4, MovedParts, DirectoryStep
<1> QED
  BY <1>5, <1>6 DEF Killed

\* Steps of a command whose loop does not run.
LEMMA IdleLoopStep ==
    ASSUME ResultInv, CommandsSound', NEW r \in Runners,
           (\E a \in Attempts : CreateRun(r, a)) \/ LoadFails(r) \/ Release(r)
    PROVE  ResultInv'
<1>1. CommandsSound /\ DomainsSound /\ LoopSound(r) /\ ReportSound(r)
  BY DEF ResultInv
<1>2. At(r, "off") /\ proc' = proc /\ disk' = disk
  <2>1. ASSUME NEW a \in Attempts, CreateRun(r, a)
        PROVE  command[r].at = "idle" /\ UNCHANGED loopVars
    BY <2>1, CreateParts
  <2> QED
    BY <1>1, <2>1 DEF LoopSound, LoadFails, Release, loopVars
<1>3. LoopSound(r)'
  BY <1>1, <1>2 DEF LoopSound, At, OwnCase
<1>4. CASE \E a \in Attempts : CreateRun(r, a)
  <2>1. PICK x : /\ command' = command \/ command' = [command EXCEPT ![r] = x]
                 /\ x.at = "created" /\ command[r].at = "idle" /\ reported' = reported
    BY <1>4, CreateParts
  <2>2. reported[r] = {} /\ \A q \in Runners \ {r} : command'[q] = command[q]
    BY <1>1, <2>1 DEF ReportSound, CommandsSound
  <2>3. ReportSound(r)' /\ DomainsSound'
    BY <1>1, <1>2, <2>1, <2>2 DEF ReportSound, DomainsSound
  <2> QED
    BY <1>2, <1>3, <2>1, <2>2, <2>3, DirectoryStep
<1>5. CASE LoadFails(r) \/ Release(r)
  <2>1. /\ command' = [command EXCEPT ![r] = NoCommand]
        /\ reported' \in {reported, [reported EXCEPT ![r] = {}]}
    BY <1>5 DEF LoadFails, Release
  <2>2. LoadFails(r) => reported[r] = {}
    BY <1>1 DEF LoadFails, ReportSound
  <2>3. reported'[r] = {}
    BY <1>1, <1>5, <2>2 DEF LoadFails, Release, DomainsSound
  <2>4. \A q \in Runners \ {r} : command'[q] = command[q] /\ reported'[q] = reported[q]
    BY <1>1, <2>1 DEF CommandsSound, DomainsSound
  <2>5. ReportSound(r)' /\ DomainsSound'
    BY <1>1, <1>2, <2>1, <2>3 DEF ReportSound, DomainsSound
  <2> QED
    BY <1>2, <1>3, <2>4, <2>5, DirectoryStep
<1> QED
  BY <1>4, <1>5

LEMMA ServeStep ==
    ASSUME ResultInv, CommandsSound', NEW r \in Runners, Serve(r)
    PROVE  ResultInv'
<1>1. CommandsSound /\ DomainsSound /\ LoopSound(r) /\ ReportSound(r)
  BY DEF ResultInv
<1> DEFINE reply == Server!Reply(command[r].grant, command[r].id, proc[r].request)
<1>2. /\ proc' = [proc EXCEPT ![r].answer = reply]
      /\ disk' = disk /\ command' = command /\ reported' = reported
  BY DEF Serve, shellVars
<1>3. DOMAIN proc[r] = ProcFields
  BY <1>1 DEF LoopSound, Fits
<1> HIDE DEF reply
<1>4. /\ DOMAIN proc' = Runners /\ \A q \in Runners \ {r} : proc'[q] = proc[q]
      /\ DOMAIN proc'[r] = ProcFields /\ proc'[r].answer = reply
      /\ proc'[r].at = proc[r].at /\ proc'[r].request = proc[r].request
      /\ proc'[r].entry = proc[r].entry /\ proc'[r].current = proc[r].current
  BY <1>1, <1>2, <1>3 DEF DomainsSound, ProcFields
<1>5. Fits(proc'[r], disk'[r])
  BY <1>1, <1>2, <1>4 DEF LoopSound, Fits
<1>6. At(r, "complete") \/ At(r, "failing") => OwnCase(r)'
  <2> SUFFICES ASSUME At(r, "complete") \/ At(r, "failing"), (Succeeded(r) \/ LeaseLost(r))'
               PROVE  RunOf[proc[r].request.case] = command[r].attempt
    BY <1>2, <1>4 DEF OwnCase
  <2>1. proc[r].request.op = "complete" /\ command[r].at = "executing"
    BY <1>1 DEF LoopSound, Fits, At
  <2>2. command[r].grant \in Grants /\ command[r].grant[1] = command[r].attempt
    BY <1>1, <2>1, NoCommandParts DEF CommandsSound, CommandSound
  <2>3. reply.verdict \in {"leased", "no_work", "accepted", "replayed",
                           "lease_expired", "lease_invalid"}
    BY <1>4 DEF Succeeded, LeaseLost
  <2> QED
    BY <2>1, <2>2, <2>3, CompletionAnswered DEF reply
<1>7. LoopSound(r)'
  BY <1>1, <1>2, <1>4, <1>5, <1>6 DEF LoopSound, At
<1>8. ReportSound(r)' /\ DomainsSound'
  BY <1>1, <1>2, <1>4 DEF ReportSound, DomainsSound
<1> QED
  BY <1>2, <1>4, <1>7, <1>8, DirectoryStep

\* The loop, its answers and what is reported, through every step.
LEMMA ResultStep ==
    ASSUME ResultInv, [Next]_vars, CommandsSound'
    PROVE  ResultInv'
<1>1. CASE \/ UNCHANGED vars \/ GrantExpires \/ LateArrives \/ Tick \/ OrphanAges
           \/ \E r \in Runners : Beat(r)
  BY <1>1, ResultUntouched DEF vars, GrantExpires, LateArrives, Tick, OrphanAges, Beat
<1>2. ASSUME NEW r \in Runners,
             \/ (\E a \in Attempts : CreateRun(r, a)) \/ LoadFails(r) \/ Release(r)
             \/ Execute(r) \/ Step(r) \/ Serve(r) \/ Killed(r)
      PROVE  ResultInv'
  BY <1>2, IdleLoopStep, ExecuteStep, ProceedStep, ServeStep, KillStep
<1> QED
  BY <1>1, <1>2 DEF Next

LEMMA ResultInit == Init => ResultInv
<1> SUFFICES ASSUME Init PROVE ResultInv
  OBVIOUS
<1>1. /\ proc = [r \in Runners |-> Off] /\ disk = [r \in Runners |-> None]
      /\ command = [r \in Runners |-> NoCommand] /\ reported = [r \in Runners |-> {}]
  BY DEF Init, InitLoop
<1>2. ASSUME NEW r \in Runners
      PROVE  LoopSound(r) /\ ReportSound(r)
  BY <1>1, OffParts DEF LoopSound, ReportSound, Fits, At
<1> QED
  BY <1>1, <1>2, GrantInit DEF ResultInv, DomainsSound

\* Whatever checkpoint it finds, and whatever is killed, expires or fails, a
\* command reports only cases of the Run it was asked to execute: the check of
\* result.run_ids in _execute_run never fails.
THEOREM ResultsOfItsRun == Spec => []ResultsOfTheRun
<1>1. CommandsSound /\ ResultInv /\ [Next]_vars => CommandsSound' /\ ResultInv'
  BY CommandsStep, ResultStep
<1>2. ResultInv => ResultsOfTheRun
  BY DEF ResultInv, ReportSound, ResultsOfTheRun
<1> QED
  BY GrantInit, ResultInit, <1>1, <1>2, PTL DEF Spec

=============================================================================
