------------------------ MODULE RunnerFailureProofs ------------------------
(***************************************************************************)
(* Proof that nothing but a failure is recorded as one: while the target   *)
(* and the disk raise nothing and every attempt gets through, runners may  *)
(* be killed and started again, lose their leases, repeat requests and     *)
(* have them served late, and no case is ever recorded as failed.          *)
(*                                                                         *)
(* A runner does report failures then: a turn of a runner that lost the    *)
(* case to another is refused with already_completed, and so is a          *)
(* completion.  The invariant says that such a report is only ever made of *)
(* a case that is sealed already.                                          *)
(***************************************************************************)
EXTENDS RunnerSystemProofs

\* Neither the target nor the disk raises.
Calm == ~TargetRaises /\ ~DiskRaises

Sealed(c) == cases[c].completion # None

\* A report of a failure that comes too late to be recorded.
Harmless(req) ==
    req # None /\ req.op = "complete" /\ req.outcome = "execution_failed" => Sealed(req.case)

\* The orchestrator refused what r posted, for another reason than its lease.
Turned(r) == proc[r].answer # None /\ Errored(r)

\* The report that r is about to make, if it makes one, comes too late.
ProcBlameless(r) ==
    /\ At(r, "send") \/ At(r, "turn") \/ At(r, "complete") => proc[r].entry.case = disk[r].case
    /\ At(r, "turn") /\ Turned(r) => Sealed(disk[r].case)
    /\ At(r, "complete") /\ proc[r].answer # None /\ ~LeaseLost(r) => Sealed(disk[r].case)

Blameless ==
    /\ keyState[RunnerKey] = "active"
    /\ Cases \subseteq Http!Known(cases)
    /\ \A c \in Cases : Sealed(c) => cases[c].completion.event # "execution_failed"
    /\ \A req \in Outstanding : Harmless(req)
    /\ \A r \in Runners : ProcBlameless(r)

Spent == [crashes : Nat, faults : Nat, ticks : Nat]

\* The inductive invariant, beside that of the system.
BlameInv == spent \in Spent /\ (Calm /\ spent.faults = 0 => Blameless)

-----------------------------------------------------------------------------
(* A step of the orchestrator *)

\* What is sealed stays sealed, and is not sealed as failed.
LEMMA SealsStay ==
    ASSUME Blameless, NEW req, Http!Effect(req), req.op = "complete" => Harmless(req),
           req # None, NEW c \in Cases
    PROVE  /\ Sealed(c) => Sealed(c)'
           /\ Sealed(c)' => cases'[c].completion.event # "execution_failed"
<1>1. CASE cases'[c].completion = cases[c].completion
  BY <1>1 DEF Blameless, Sealed
<1>2. CASE /\ req.op = "complete" /\ c = req.case
           /\ cases[c].completion = None /\ cases'[c].completion.event = req.outcome
  BY <1>2 DEF Harmless, Sealed
<1> QED
  BY <1>1, <1>2 DEF Http!Effect, Http!SealEffect

\* The processes that a step of the orchestrator does not answer stay blameless.
LEMMA UnansweredBlameless ==
    ASSUME NEW r \in Runners, ProcBlameless(r), DiskSound(r), ProcSound(r),
           \A c \in Cases : Sealed(c) => Sealed(c)',
           disk'[r] = disk[r], proc'[r] = proc[r]
    PROVE  ProcBlameless(r)'
<1>1. At(r, "turn") \/ At(r, "complete") => disk[r].case \in Cases
  BY DEF ProcSound, InTurns, Completing, DiskSound, Sound, Checkpoints
<1> QED
  BY <1>1 DEF ProcBlameless, Turned, At, Errored, Succeeded, LeaseLost

LEMMA ServerBlameless ==
    ASSUME StateSound, Blameless, NEW req, req # None, Http!Effect(req),
           req.op = "complete" => Harmless(req),
           keyState' = keyState, Http!Known(cases) \subseteq Http!Known(cases'),
           disk' = disk, late' \subseteq late,
           \A q \in Runners : proc'[q].request = proc[q].request,
           \A q \in Runners : ProcBlameless(q)'
    PROVE  Blameless'
<1>1. \A c \in Cases : /\ Sealed(c) => Sealed(c)'
                       /\ Sealed(c)' => cases'[c].completion.event # "execution_failed"
  BY SealsStay
<1>2. Outstanding' \subseteq Outstanding
  BY DEF Outstanding
<1>3. ASSUME NEW other \in Outstanding
      PROVE  Harmless(other)'
  <2> SUFFICES ASSUME other # None, other.op = "complete", other.outcome = "execution_failed"
               PROVE  Sealed(other.case)'
    BY DEF Harmless
  <2>1. other.case \in Cases /\ Sealed(other.case)
    BY OutstandingTurn DEF Blameless, Harmless, Http!WellFormed
  <2> QED
    BY <1>1, <2>1
<1>4. (Cases \subseteq Http!Known(cases))'
  BY DEF Blameless, Http!Known
<1> QED
  BY <1>1, <1>2, <1>3, <1>4 DEF Blameless

\* A step of the orchestrator that answers no runner.
LEMMA SilentBlameless ==
    ASSUME SysInv, Blameless, NEW req, req # None, Http!Effect(req),
           req.op = "complete" => Harmless(req),
           keyState' = keyState, Http!Known(cases) \subseteq Http!Known(cases'),
           disk' = disk, proc' = proc, late' \subseteq late
    PROVE  Blameless'
<1>1. \A c \in Cases : Sealed(c) => Sealed(c)'
  BY SealsStay
<1>2. \A q \in Runners : ProcBlameless(q)'
  BY <1>1, UnansweredBlameless DEF SysInv, StateSound, Blameless
<1> QED
  BY <1>2, ServerBlameless DEF SysInv

\* Whatever a runner asks for, its key entitles it to.
LEMMA RunnersEntitled ==
    ASSUME Blameless, NEW req, req.case \in Cases
    PROVE  Http!Entitled(RunnerKey, req)
BY DEF Blameless, Http!Entitled, Http!Authentic, Http!Known

LEMMA Verdicts ==
    ASSUME NEW r \in Runners
    PROVE  /\ Succeeded(r) <=> proc[r].answer.verdict \in Http!Success
           /\ LeaseLost(r) <=> proc[r].answer.verdict \in Http!Lost
BY DEF Succeeded, LeaseLost, Http!Success, Http!Lost

LEMMA ServeBlameless ==
    ASSUME SysInv, Blameless, NEW r \in Runners, Serve(r)
    PROVE  Blameless'
<1> DEFINE req == proc[r].request
           reply == Http!Reply(RunnerKey, r, req)
<1>1. StateSound /\ ProcSound(r) /\ DOMAIN proc = Runners /\ Http!IInv
  BY DEF SysInv, StateSound, Typed
<1>2. /\ req # None /\ Http!Serves(RunnerKey, r, req)
      /\ proc' = [proc EXCEPT ![r].answer = reply]
      /\ UNCHANGED <<disk, late>>
  BY SameServer DEF Serve, Pending
<1>3. /\ proc'[r] = [proc[r] EXCEPT !.answer = reply]
      /\ \A q \in Runners \ {r} : proc'[q] = proc[q]
  BY <1>1, <1>2
<1>4. /\ proc'[r].answer = reply /\ proc'[r].at = proc[r].at
      /\ proc'[r].request = req /\ proc'[r].entry = proc[r].entry
  <2>1. DOMAIN proc[r] = ProcFields
    BY <1>1 DEF ProcSound
  <2> HIDE DEF reply
  <2> QED
    BY <1>3, <2>1 DEF ProcFields
<1>5. req \in Outstanding /\ Good(req) /\ Http!WellFormed(req)
  BY <1>1, <1>2, OutstandingParts, OutstandingTurn
<1>6. Http!Effect(req) /\ Harmless(req)
  BY <1>1, <1>2, <1>5, HttpAssumptions, Http!ServesSafely DEF Blameless
<1>7. keyState' = keyState /\ Http!Known(cases) \subseteq Http!Known(cases')
  BY <1>1, <1>2, <1>5, HttpAssumptions, Http!ServesKeep
<1>8. \A c \in Cases : Sealed(c) => Sealed(c)'
  BY <1>2, <1>6, SealsStay
<1>9. ASSUME NEW q \in Runners \ {r}
      PROVE  ProcBlameless(q)'
  BY <1>2, <1>3, <1>8, UnansweredBlameless DEF SysInv, StateSound, Blameless
<1>10. ASSUME At(r, "turn"), reply.verdict \notin Http!Success \union Http!Lost
       PROVE  Sealed(disk[r].case)'
  <2>1. /\ disk[r] # None /\ Sound(r, disk[r]) /\ disk[r].phase = "turn"
        /\ req = disk[r].submission
    BY <1>1, <1>10 DEF ProcSound, InTurns, StateSound, DiskSound
  <2>2. /\ req.op = "turn" /\ req.case = disk[r].case
        /\ req.sequence = Len(disk[r].submitted)
    BY <1>2, <2>1 DEF Sound, SavedTurn
  <2>3. req.case \in Cases /\ req.sequence <= Len(cases[req.case].turns)
    BY <1>5, <2>1, <2>2 DEF Sound, Reached, Http!WellFormed
  <2>4. Http!Entitled(RunnerKey, req)
    BY <2>3, RunnersEntitled
  <2>5. cases[req.case].completion # None
    BY <1>1, <1>5, <1>10, <2>2, <2>3, <2>4, HttpAssumptions, Http!TurnRefused
  <2> QED
    BY <1>2, <1>8, <2>2, <2>3, <2>5 DEF Sealed
<1>11. ASSUME At(r, "complete"), reply.verdict \notin Http!Lost
       PROVE  Sealed(disk[r].case)'
  <2>1. /\ disk[r] # None /\ Sound(r, disk[r]) /\ disk[r].phase = "complete"
        /\ req = disk[r].submission
    BY <1>1, <1>11 DEF ProcSound, Completing, StateSound, DiskSound
  <2>2. req.op = "complete" /\ req.case = disk[r].case
    BY <2>1 DEF Sound
  <2>3. req.case \in Cases
    BY <1>5, <2>2 DEF Http!WellFormed
  <2>4. Http!Entitled(RunnerKey, req)
    BY <2>3, RunnersEntitled
  <2>5. cases'[req.case].completion # None
    BY <1>1, <1>2, <1>5, <1>11, <2>2, <2>4, HttpAssumptions, Http!CompletionAnswered
  <2> QED
    BY <2>2, <2>5, <1>2 DEF Sealed
<1>12. ProcBlameless(r)'
  <2>1. /\ Succeeded(r)' <=> reply.verdict \in Http!Success
        /\ LeaseLost(r)' <=> reply.verdict \in Http!Lost
    BY <1>4 DEF Succeeded, LeaseLost, Http!Success, Http!Lost
  <2>2. \A at : At(r, at)' <=> At(r, at)
    BY <1>4 DEF At
  <2>3. disk' = disk /\ proc'[r].entry = proc[r].entry /\ ProcBlameless(r)
    BY <1>2, <1>4 DEF Blameless
  <2> HIDE DEF reply, req
  <2> QED
    BY <1>10, <1>11, <2>1, <2>2, <2>3 DEF ProcBlameless, Turned, Errored
<1>13. \A q \in Runners : proc'[q].request = proc[q].request
  BY <1>3, <1>4
<1> QED
  BY <1>1, <1>2, <1>6, <1>7, <1>9, <1>12, <1>13, ServerBlameless

LEMMA LateBlameless ==
    ASSUME SysInv, Blameless, LateArrives
    PROVE  Blameless'
<1>1. PICK m \in late : Server!Serves(RunnerKey, m.runner, m.request) /\ late' = late \ {m}
  BY DEF LateArrives
<1>2. /\ StateSound /\ Http!IInv /\ m.runner \in Runners
      /\ m.request # None /\ m.request \in Outstanding
  BY OutstandingParts DEF SysInv, StateSound, Typed
<1>3. Http!Serves(RunnerKey, m.runner, m.request) /\ Http!WellFormed(m.request)
  BY <1>1, <1>2, SameServer, OutstandingTurn
<1>4. Http!Effect(m.request) /\ Harmless(m.request)
  BY <1>2, <1>3, HttpAssumptions, Http!ServesSafely DEF Blameless
<1>5. keyState' = keyState /\ Http!Known(cases) \subseteq Http!Known(cases')
  BY <1>2, <1>3, HttpAssumptions, Http!ServesKeep
<1> QED
  BY <1>1, <1>2, <1>4, <1>5, SilentBlameless DEF LateArrives, loopVars

LEMMA ClaimRequestParts == ClaimRequest # None /\ ClaimRequest.op = "claim"
<1>1. ClaimRequest \in Requests
  BY DEF ClaimRequest, Requests
<1> QED
  BY <1>1, RequestKinds DEF ClaimRequest

LEMMA BeatBlameless ==
    ASSUME SysInv, Blameless, NEW r \in Runners, Beat(r)
    PROVE  Blameless'
<1>1. proc[r].current.case \in Cases /\ Http!IInv
  BY DEF SysInv, StateSound, Beat, ProcSound, InTurns, DiskSound, Sound, Checkpoints
<1>2. Http!Heartbeat(RunnerKey, proc[r].current.case, proc[r].current.lease)
  BY SameHeartbeat DEF Beat
<1>3. Http!Effect(ClaimRequest)
  BY <1>1, <1>2, HttpAssumptions, Http!BeatsSafely
<1>4. keyState' = keyState /\ Http!Known(cases) \subseteq Http!Known(cases')
  BY <1>1, <1>2, HttpAssumptions, Http!BeatsKeep
<1> QED
  BY <1>3, <1>4, ClaimRequestParts, SilentBlameless DEF Beat, loopVars

LEMMA TickBlameless ==
    ASSUME SysInv, Blameless, Tick
    PROVE  Blameless'
<1>1. Http!IInv /\ Http!Tick
  BY SameServer DEF Tick, SysInv, StateSound
<1>2. Http!Effect(ClaimRequest)
  BY <1>1, HttpAssumptions, Http!TicksSafely
<1>3. keyState' = keyState /\ Http!Known(cases) \subseteq Http!Known(cases')
  BY <1>1 DEF Http!Tick, Http!Known, Http!Aged, Http!IInv, Http!StateInv, Http!CaseRecord
<1> QED
  BY <1>2, <1>3, ClaimRequestParts, SilentBlameless DEF Tick, loopVars
-----------------------------------------------------------------------------
(* A step of one runner *)

\* What runner r sends, saves and remembers after a step of its own comes too
\* late if it is the report of a failure, and what it leaves to the network was
\* on its way before.
LEMMA LocalBlameless ==
    ASSUME Blameless, NEW r \in Runners, UNCHANGED <<keyState, cases>>,
           \A q \in Runners \ {r} : disk'[q] = disk[q] /\ proc'[q] = proc[q],
           \A m \in late' : m.request \in Outstanding,
           Harmless(proc'[r].request),
           disk'[r] # None => Harmless(disk'[r].submission),
           ProcBlameless(r)'
    PROVE  Blameless'
<1>1. ASSUME NEW req \in Outstanding'
      PROVE  Harmless(req)
  <2>1. CASE \E q \in Runners : req = proc'[q].request
    <3>1. PICK q \in Runners : req = proc'[q].request
      BY <2>1
    <3> QED
      BY <3>1, OutstandingParts DEF Blameless
  <2>2. CASE \E q \in Runners : disk'[q] # None /\ req = disk'[q].submission
    <3>1. PICK q \in Runners : disk'[q] # None /\ req = disk'[q].submission
      BY <2>2
    <3> QED
      BY <3>1, OutstandingParts DEF Blameless
  <2>3. CASE \E m \in late' : req = m.request
    BY <2>3 DEF Blameless
  <2> QED
    BY <2>1, <2>2, <2>3 DEF Outstanding
<1>2. \A c : Sealed(c)' <=> Sealed(c)
  BY DEF Sealed
<1>3. \A req \in Outstanding' : Harmless(req)'
  BY <1>1, <1>2 DEF Harmless
<1>4. ASSUME NEW q \in Runners \ {r}
      PROVE  ProcBlameless(q)'
  BY <1>2 DEF Blameless, ProcBlameless, At, Turned, Errored, Succeeded, LeaseLost
<1>5. /\ (keyState[RunnerKey] = "active")' /\ (Cases \subseteq Http!Known(cases))'
      /\ (\A c \in Cases : Sealed(c) => cases[c].completion.event # "execution_failed")'
  BY DEF Blameless, Sealed, Http!Known
<1> QED
  BY <1>3, <1>4, <1>5 DEF Blameless

LEMMA ClaimHarmless == Harmless(ClaimRequest) /\ Harmless(None)
BY ClaimRequestParts DEF Harmless

\* A process that ends, or turns to claim, keeps or drops its checkpoint.
LEMMA RestBlameless ==
    ASSUME SysInv, Blameless, NEW r \in Runners, UNCHANGED serverVars,
           \A m \in late' : m.request \in Outstanding,
           disk' \in {disk, [disk EXCEPT ![r] = None]},
           proc' \in {[proc EXCEPT ![r] = Off], [proc EXCEPT ![r] = Claiming]}
    PROVE  Blameless'
<1>1. /\ disk'[r] \in {disk[r], None} /\ proc'[r] \in {Off, Claiming}
      /\ \A q \in Runners \ {r} : disk'[q] = disk[q] /\ proc'[q] = proc[q]
  BY DEF SysInv, StateSound, Typed
<1>2. /\ Off.request = None /\ Off.at = "off"
      /\ Claiming.request = ClaimRequest /\ Claiming.at = "claim"
  BY OffParts, WaitingParts DEF Claiming
<1>3. Harmless(proc'[r].request)
  BY <1>1, <1>2, ClaimHarmless
<1>4. disk'[r] # None => Harmless(disk'[r].submission)
  BY <1>1, OutstandingParts DEF Blameless
<1>5. ProcBlameless(r)'
  BY <1>1, <1>2 DEF ProcBlameless, At
<1> QED
  BY <1>1, <1>3, <1>4, <1>5, LocalBlameless DEF serverVars

\* A process that has just posted a request, or turned to the target, about the
\* case of its checkpoint ckpt.
LEMMA AheadBlameless ==
    ASSUME SysInv, Blameless, NEW r \in Runners, UNCHANGED <<serverVars, late>>,
           NEW ckpt, disk' = [disk EXCEPT ![r] = ckpt],
           NEW p, proc' = [proc EXCEPT ![r] = p],
           p.answer = None, p.at \in {"resume", "send", "turn", "complete", "failing"},
           p.at \in {"send", "turn", "complete"} => p.entry.case = ckpt.case,
           Harmless(ckpt.submission), Harmless(p.request)
    PROVE  Blameless'
<1>1. /\ disk'[r] = ckpt /\ proc'[r] = p
      /\ \A q \in Runners \ {r} : disk'[q] = disk[q] /\ proc'[q] = proc[q]
  BY DEF SysInv, StateSound, Typed
<1>2. ProcBlameless(r)'
  BY <1>1 DEF ProcBlameless, At, Turned
<1>3. \A m \in late' : m.request \in Outstanding
  BY OutstandingParts
<1> QED
  BY <1>1, <1>2, <1>3, LocalBlameless DEF serverVars

LEMMA BootBlameless ==
    ASSUME SysInv, Blameless, NEW r \in Runners, Start(r)
    PROVE  Blameless'
<1>1. PICK ckpt : ckpt = disk[r]
  OBVIOUS
<1>2. /\ UNCHANGED <<serverVars, late, disk>> /\ disk' = [disk EXCEPT ![r] = ckpt]
      /\ \A m \in late' : m.request \in Outstanding
  BY <1>1, OutstandingParts DEF Start, Boot, SysInv, StateSound, Typed
<1>3. CASE proc' = [proc EXCEPT ![r] = Claiming]
  BY <1>2, <1>3, RestBlameless
<1>4. CASE /\ ckpt # None
           /\ proc' = [proc EXCEPT ![r] = Waiting([Off EXCEPT !.entry = ckpt, !.current = ckpt],
                                                  "complete", ckpt.submission)]
  <2> DEFINE resumed == [Off EXCEPT !.entry = ckpt, !.current = ckpt]
             p == Waiting(resumed, "complete", ckpt.submission)
  <2>1. DOMAIN resumed = ProcFields /\ resumed.entry = ckpt
    BY DEF Off, ProcFields
  <2> HIDE DEF resumed
  <2>2. /\ p.at = "complete" /\ p.request = ckpt.submission
        /\ p.entry = ckpt /\ p.answer = None
    BY <2>1, WaitingParts
  <2>3. Harmless(ckpt.submission)
    BY <1>1, <1>4, OutstandingParts DEF Blameless
  <2>4. proc' = [proc EXCEPT ![r] = p]
    BY <1>4 DEF resumed
  <2> HIDE DEF p
  <2> QED
    BY <1>2, <2>2, <2>3, <2>4, AheadBlameless
<1>5. CASE /\ ckpt # None
           /\ proc' = [proc EXCEPT ![r] = Waiting(Off, "resume", HeartbeatRequest(ckpt))]
  <2> DEFINE p == Waiting(Off, "resume", HeartbeatRequest(ckpt))
  <2>1. p.at = "resume" /\ p.request = HeartbeatRequest(ckpt) /\ p.answer = None
    BY OffParts, WaitingParts
  <2>2. Harmless(HeartbeatRequest(ckpt))
    BY DEF Harmless, HeartbeatRequest
  <2>3. Harmless(ckpt.submission)
    BY <1>1, <1>5, OutstandingParts DEF Blameless
  <2>4. proc' = [proc EXCEPT ![r] = p]
    BY <1>5
  <2> HIDE DEF p
  <2> QED
    BY <1>2, <2>1, <2>2, <2>3, <2>4, AheadBlameless
<1> QED
  BY <1>1, <1>3, <1>4, <1>5 DEF Start, Boot

\* A case is begun, or taken up again, with the checkpoint ckpt.
LEMMA BeginBlameless ==
    ASSUME SysInv, Blameless, NEW r \in Runners, UNCHANGED <<serverVars, late>>,
           NEW ckpt, disk' = [disk EXCEPT ![r] = ckpt], NEW session,
           BeginCase(r, ckpt, session), Harmless(ckpt.submission)
    PROVE  Blameless'
<1>1. DOMAIN proc[r] = ProcFields /\ DOMAIN proc = Runners
  BY DEF SysInv, ProcSound, StateSound, Typed
<1>2. PICK p : /\ proc' = [proc EXCEPT ![r] = p]
               /\ p = IF ckpt.case \in Refused THEN Off
                      ELSE [proc[r] EXCEPT !.at = "send", !.entry = ckpt, !.current = ckpt,
                                           !.session = session, !.request = None,
                                           !.answer = None, !.attempt = 0]
  BY DEF BeginCase
<1>3. CASE p = Off
  <2>1. /\ disk'[r] = ckpt /\ proc'[r] = Off
        /\ \A q \in Runners \ {r} : disk'[q] = disk[q] /\ proc'[q] = proc[q]
    BY <1>1, <1>2, <1>3 DEF SysInv, StateSound, Typed
  <2>2. ProcBlameless(r)' /\ Harmless(proc'[r].request)
    BY <2>1, OffParts, ClaimHarmless DEF ProcBlameless, At
  <2>3. \A m \in late' : m.request \in Outstanding
    BY OutstandingParts
  <2> QED
    BY <2>1, <2>2, <2>3, LocalBlameless DEF serverVars
<1>4. CASE p # Off
  <2>1. p.at = "send" /\ p.entry = ckpt /\ p.request = None /\ p.answer = None
    BY <1>1, <1>2, <1>4 DEF ProcFields
  <2> QED
    BY <1>2, <2>1, ClaimHarmless, AheadBlameless
<1> QED
  BY <1>3, <1>4

LEMMA ClaimLeasedBlameless ==
    ASSUME SysInv, Blameless, NEW r \in Runners, UNCHANGED <<serverVars, late>>, ClaimLeased(r)
    PROVE  Blameless'
<1>1. PICK ckpt : /\ disk' = [disk EXCEPT ![r] = ckpt] /\ BeginCase(r, ckpt, << >>)
                  /\ ckpt = [case |-> proc[r].answer.case, lease |-> proc[r].answer.lease,
                             submitted |-> << >>, pending |-> 0, turn_key |-> NewKey(r),
                             complete_key |-> None, phase |-> "turn", submission |-> None]
  BY DEF ClaimLeased
<1>2. ckpt.submission = None
  BY <1>1
<1> QED
  BY <1>1, <1>2, ClaimHarmless, BeginBlameless

LEMMA ResumeAliveBlameless ==
    ASSUME SysInv, Blameless, NEW r \in Runners, UNCHANGED <<serverVars, late>>, ResumeAlive(r)
    PROVE  Blameless'
<1>1. PICK ckpt : ckpt = disk[r]
  OBVIOUS
<1>2. /\ disk' = [disk EXCEPT ![r] = ckpt] /\ disk[r] # None
      /\ BeginCase(r, ckpt, Replay(ckpt))
  BY <1>1 DEF SysInv, StateSound, Typed, ProcSound, InTurns, ResumeAlive, Answered
<1>3. Harmless(ckpt.submission)
  BY <1>1, <1>2, OutstandingParts DEF Blameless
<1> QED
  BY <1>2, <1>3, BeginBlameless
\* A case in its turns: its checkpoint, and the case _run_case was entered with.
LEMMA InTurnsBlameless ==
    ASSUME SysInv, Blameless, NEW r \in Runners, At(r, "send") \/ At(r, "turn")
    PROVE  /\ DOMAIN proc[r] = ProcFields /\ proc[r].current = disk[r] /\ disk[r] # None
           /\ disk[r] \in Checkpoints
           /\ proc[r].entry.case = disk[r].case
           /\ Harmless(disk[r].submission)
<1>1. /\ DOMAIN proc[r] = ProcFields /\ proc[r].current = disk[r] /\ disk[r] # None
      /\ disk[r] \in Checkpoints
  BY InTurnsParts DEF Sound
<1> QED
  BY <1>1, OutstandingParts DEF Blameless, ProcBlameless

LEMMA SendBlameless ==
    ASSUME SysInv, Blameless, NEW r \in Runners, UNCHANGED <<serverVars, late>>, Send(r)
    PROVE  Blameless'
<1>1. PICK ckpt : ckpt = disk[r]
  OBVIOUS
<1>2. /\ DOMAIN proc[r] = ProcFields /\ proc[r].current = ckpt /\ ckpt \in Checkpoints
      /\ proc[r].entry.case = ckpt.case /\ Harmless(ckpt.submission)
  BY <1>1, InTurnsBlameless DEF Send
<1>3. PICK output, heard :
         LET submission == Prepared(ckpt, output)
             saved == Saved(ckpt, submission)
         IN  /\ disk' = [disk EXCEPT ![r] = saved]
             /\ proc' = [proc EXCEPT ![r] =
                   Waiting([@ EXCEPT !.current = saved, !.session = heard],
                           "turn", submission)]
  <2>1. ckpt = proc[r].current
    BY <1>2
  <2> QED
    BY <2>1, Zenon DEF Send
<1>4. PICK submission : submission = Prepared(ckpt, output)
  OBVIOUS
<1>5. PICK saved : saved = Saved(ckpt, submission)
  OBVIOUS
<1>6. PICK q : q = [proc[r] EXCEPT !.current = saved, !.session = heard]
  OBVIOUS
<1>7. PICK p : p = Waiting(q, "turn", submission)
  OBVIOUS
<1>8. disk' = [disk EXCEPT ![r] = saved] /\ proc' = [proc EXCEPT ![r] = p]
  BY <1>3, <1>4, <1>5, <1>6, <1>7
<1>9. Harmless(submission)
  BY <1>2, <1>4 DEF Prepared, TurnRequest, Harmless
<1>10. saved.case = ckpt.case /\ saved.submission = submission
  BY <1>2, <1>5 DEF Saved, Checkpoints
<1>11. DOMAIN q = ProcFields /\ q.entry = proc[r].entry
  BY <1>2, <1>6 DEF ProcFields
<1>12. p.at = "turn" /\ p.request = submission /\ p.answer = None /\ p.entry = proc[r].entry
  BY <1>7, <1>11, WaitingParts
<1> QED
  BY <1>2, <1>8, <1>9, <1>10, <1>12, AheadBlameless

LEMMA TurnContinuesBlameless ==
    ASSUME SysInv, Blameless, NEW r \in Runners, UNCHANGED <<serverVars, late>>,
           TurnContinues(r)
    PROVE  Blameless'
<1>1. PICK ckpt : ckpt = disk[r]
  OBVIOUS
<1>2. /\ DOMAIN proc[r] = ProcFields /\ proc[r].current = ckpt /\ ckpt \in Checkpoints
      /\ proc[r].entry.case = ckpt.case
  BY <1>1, InTurnsBlameless DEF TurnContinues, Answered
<1>3. PICK next : next = Advanced(ckpt, proc[r].answer.input, NewKey(r))
  OBVIOUS
<1>4. PICK p : p = [proc[r] EXCEPT !.at = "send", !.current = next,
                                   !.parents = ParentsAfter(r, Len(EvidenceOf(r))),
                                   !.request = None, !.answer = None, !.attempt = 0]
  OBVIOUS
<1>5. disk' = [disk EXCEPT ![r] = next] /\ proc' = [proc EXCEPT ![r] = p]
  <2>1. ckpt = proc[r].current
    BY <1>2
  <2> QED
    BY <1>3, <1>4, <2>1, Zenon DEF TurnContinues
<1>6. next.case = ckpt.case /\ next.submission = None
  BY <1>2, <1>3 DEF Advanced, Checkpoints
<1>7. p.at = "send" /\ p.entry = proc[r].entry /\ p.request = None /\ p.answer = None
  BY <1>2, <1>4 DEF ProcFields
<1>8. /\ Harmless(next.submission) /\ Harmless(p.request) /\ p.entry.case = next.case
      /\ p.at \in {"resume", "send", "turn", "complete", "failing"}
  BY <1>2, <1>6, <1>7, ClaimHarmless
<1> QED
  BY <1>5, <1>7, <1>8, AheadBlameless

LEMMA TurnFinishesBlameless ==
    ASSUME SysInv, Blameless, NEW r \in Runners, UNCHANGED <<serverVars, late>>,
           TurnFinishes(r)
    PROVE  Blameless'
<1>1. PICK ckpt : ckpt = disk[r]
  OBVIOUS
<1>2. /\ DOMAIN proc[r] = ProcFields /\ proc[r].current = ckpt /\ ckpt \in Checkpoints
      /\ proc[r].entry.case = ckpt.case
  BY <1>1, InTurnsBlameless DEF TurnFinishes, Answered
<1>3. PICK key : key = IF ckpt.complete_key = None THEN NewKey(r) ELSE ckpt.complete_key
  OBVIOUS
<1>4. PICK outcome : outcome = IF proc[r].answer.action = "cancel" THEN "canceled"
                               ELSE "completed"
  OBVIOUS
<1>5. PICK report : report = CompleteRequest(ckpt, key, outcome)
  OBVIOUS
<1>6. PICK done : done = [ckpt EXCEPT !.submitted = Append(@, ckpt.pending),
                                      !.pending = None, !.turn_key = None,
                                      !.complete_key = key,
                                      !.phase = "complete", !.submission = report]
  OBVIOUS
<1>7. PICK q : q = [proc[r] EXCEPT !.current = done,
                                   !.parents = ParentsAfter(r, Len(EvidenceOf(r)))]
  OBVIOUS
<1>8. PICK p : p = Waiting(q, "complete", report)
  OBVIOUS
<1>9. disk' = [disk EXCEPT ![r] = done] /\ proc' = [proc EXCEPT ![r] = p]
  <2>1. ckpt = proc[r].current
    BY <1>2
  <2> QED
    BY <1>3, <1>4, <1>5, <1>6, <1>7, <1>8, <2>1, Zenon DEF TurnFinishes
<1>10. Harmless(report)
  BY <1>4, <1>5 DEF CompleteRequest, Harmless
<1>11. done.case = ckpt.case /\ done.submission = report
  BY <1>2, <1>6 DEF Checkpoints
<1>12. DOMAIN q = ProcFields /\ q.entry = proc[r].entry
  BY <1>2, <1>7 DEF ProcFields
<1>13. p.at = "complete" /\ p.request = report /\ p.answer = None /\ p.entry = proc[r].entry
  BY <1>8, <1>12, WaitingParts
<1>14. /\ Harmless(done.submission) /\ Harmless(p.request) /\ p.entry.case = done.case
       /\ p.at \in {"resume", "send", "turn", "complete", "failing"}
  BY <1>2, <1>10, <1>11, <1>13
<1> QED
  BY <1>9, <1>13, <1>14, AheadBlameless

\* A failure is reported of a case that is sealed.
LEMMA FailCaseBlameless ==
    ASSUME SysInv, Blameless, NEW r \in Runners, UNCHANGED <<serverVars, late>>,
           NEW parents, FailCase(r, parents), At(r, "turn") \/ At(r, "complete"),
           Sealed(disk[r].case)
    PROVE  Blameless'
<1>1. PICK entry : entry = proc[r].entry
  OBVIOUS
<1>2. DOMAIN proc[r] = ProcFields /\ entry \in Checkpoints /\ entry.case = disk[r].case
  BY <1>1 DEF SysInv, ProcSound, Entered, Sound, At, Blameless, ProcBlameless
<1>3. PICK key : key = IF entry.complete_key = None THEN NewKey(r) ELSE entry.complete_key
  OBVIOUS
<1>4. PICK report : report = FailureReport(entry, key)
  OBVIOUS
<1>5. PICK failed : failed = [entry EXCEPT !.complete_key = key, !.phase = "complete",
                                           !.submission = report]
  OBVIOUS
<1>6. PICK q : q = [proc[r] EXCEPT !.parents = parents]
  OBVIOUS
<1>7. PICK p : p = Waiting(q, "failing", report)
  OBVIOUS
<1>8. disk' = [disk EXCEPT ![r] = failed] /\ proc' = [proc EXCEPT ![r] = p]
  BY <1>1, <1>3, <1>4, <1>5, <1>6, <1>7, Zenon DEF FailCase
<1>9. Harmless(report)
  BY <1>2, <1>4 DEF FailureReport, CompleteRequest, Harmless
<1>10. failed.submission = report
  BY <1>2, <1>5 DEF Checkpoints
<1>11. p.at = "failing" /\ p.request = report /\ p.answer = None
  <2>1. DOMAIN q = ProcFields
    BY <1>2, <1>6 DEF ProcFields
  <2> QED
    BY <1>7, <2>1, WaitingParts
<1> QED
  BY <1>8, <1>9, <1>10, <1>11, AheadBlameless

LEMMA CallErrorsBlameless ==
    ASSUME SysInv, Blameless, Calm, NEW r \in Runners, UNCHANGED <<serverVars, late>>,
           CallErrors(r)
    PROVE  Blameless'
<1>1. ProcBlameless(r) /\ (Succeeded(r) => ~LeaseLost(r))
  BY DEF Blameless, Succeeded, LeaseLost
<1>2. ASSUME Answered(r, "turn"), NEW n, RaisesAfterAnswer(r, n)
      PROVE  FALSE
  <2>1. proc[r].request.op = "turn"
    BY <1>2, InTurnsParts DEF Answered, SysInv, ProcSound, At, SavedTurn
  <2> QED
    BY <1>2, <2>1 DEF RaisesAfterAnswer, WriteRaises, TooManyParents, Calm
<1>3. PICK parents : /\ At(r, "turn") \/ At(r, "complete")
                     /\ Sealed(disk[r].case) /\ FailCase(r, parents)
  BY <1>1, <1>2 DEF CallErrors, Answered, ProcBlameless, Turned, Errored, RaisesAfterAnswer
<1> QED
  BY <1>3, FailCaseBlameless

LEMMA StepBlameless ==
    ASSUME SysInv, Blameless, Calm, NEW r \in Runners, Step(r)
    PROVE  Blameless'
<1>1. UNCHANGED <<serverVars, late>> /\ Proceed(r)
  BY DEF Step
<1>2. CASE \/ ClaimEnds(r) \/ ResumeLost(r) \/ ResumeFails(r)
           \/ CompletionAccepted(r) \/ CaseLost(r)
           \/ FailureRecorded(r) \/ FailureUnwanted(r) \/ FailureEscapes(r)
  <2>1. /\ disk' \in {disk, [disk EXCEPT ![r] = None]}
        /\ proc' \in {[proc EXCEPT ![r] = Off], [proc EXCEPT ![r] = Claiming]}
    BY <1>2 DEF ClaimEnds, ResumeLost, ResumeFails, CompletionAccepted, CaseLost,
                FailureRecorded, FailureUnwanted, FailureEscapes, LeaveCase, CloseAndLeave
  <2>2. \A m \in late' : m.request \in Outstanding
    BY <1>1, OutstandingParts
  <2> QED
    BY <1>1, <2>1, <2>2, RestBlameless
<1>3. CASE ClaimLeased(r)
  BY <1>1, <1>3, ClaimLeasedBlameless
<1>4. CASE ResumeAlive(r)
  BY <1>1, <1>4, ResumeAliveBlameless
<1>5. CASE Send(r)
  BY <1>1, <1>5, SendBlameless
<1>6. CASE TurnContinues(r)
  BY <1>1, <1>6, TurnContinuesBlameless
<1>7. CASE TurnFinishes(r)
  BY <1>1, <1>7, TurnFinishesBlameless
<1>8. CASE CallErrors(r)
  BY <1>1, <1>8, CallErrorsBlameless
<1>9. CASE SendRaises(r)
  BY <1>9 DEF SendRaises, Calm
<1> QED
  BY <1>1, <1>2, <1>3, <1>4, <1>5, <1>6, <1>7, <1>8, <1>9 DEF Proceed

LEMMA KilledBlameless ==
    ASSUME SysInv, Blameless, NEW r \in Runners, Killed(r)
    PROVE  Blameless'
<1>1. disk' = disk /\ proc' = [proc EXCEPT ![r] = Off] /\ UNCHANGED serverVars
  BY DEF Killed, Crash
<1>2. \A m \in late' : m.request \in Outstanding
  BY OutstandingParts DEF Killed, GivenUp
<1> QED
  BY <1>1, <1>2, RestBlameless

-----------------------------------------------------------------------------
(* The invariant *)

LEMMA InitBlameless == Init => BlameInv
<1> SUFFICES ASSUME Init PROVE BlameInv
  OBVIOUS
<1>1. spent \in Spent /\ keyState[RunnerKey] = "active"
  BY DEF Init, Spent
<1>2. \A c \in Cases : cases[c].status = "queued" /\ cases[c].completion = None
  BY DEF Init, Server!NoCase
<1>3. \A req \in Outstanding : Harmless(req)
  BY OffParts DEF Init, InitLoop, Outstanding, Harmless
<1>4. \A r \in Runners : ProcBlameless(r)
  BY OffParts DEF Init, InitLoop, ProcBlameless, At
<1> QED
  BY <1>1, <1>2, <1>3, <1>4 DEF BlameInv, Blameless, Sealed, Http!Known

\* No step adds to the faults but the failing of an attempt.
LEMMA FaultsGrow ==
    ASSUME spent \in Spent, [Next]_vars
    PROVE  spent' \in Spent /\ (spent'.faults = 0 =>
              spent.faults = 0 /\ \A r \in Runners : ~AttemptFails(r))
<1>1. \/ spent' = spent
      \/ spent' = [spent EXCEPT !.crashes = @ + 1]
      \/ spent' = [spent EXCEPT !.faults = @ + 1]
      \/ spent' = [spent EXCEPT !.ticks = @ + 1]
  BY DEF Next, vars, Start, Step, Serve, Beat, AttemptFails, Killed, LateArrives, Tick
<1>2. ASSUME NEW r \in Runners, AttemptFails(r)
      PROVE  spent'.faults = spent.faults + 1
  BY <1>2 DEF AttemptFails, Spent
<1>3. spent' \in Spent /\ spent'.faults \in {spent.faults, spent.faults + 1}
  BY <1>1 DEF Spent
<1> QED
  BY <1>2, <1>3 DEF Spent

LEMMA NextBlameless == SysInv /\ BlameInv /\ [Next]_vars => BlameInv'
<1> SUFFICES ASSUME SysInv, BlameInv, [Next]_vars, Calm, spent'.faults = 0
             PROVE  Blameless'
  BY FaultsGrow DEF BlameInv, Calm
<1>1. Blameless /\ \A r \in Runners : ~AttemptFails(r)
  BY FaultsGrow DEF BlameInv
<1>2. ASSUME NEW r \in Runners, Start(r)
      PROVE  Blameless'
  BY <1>1, <1>2, BootBlameless
<1>3. ASSUME NEW r \in Runners, Step(r)
      PROVE  Blameless'
  BY <1>1, <1>3, StepBlameless
<1>4. ASSUME NEW r \in Runners, Serve(r)
      PROVE  Blameless'
  BY <1>1, <1>4, ServeBlameless
<1>5. ASSUME NEW r \in Runners, Beat(r)
      PROVE  Blameless'
  BY <1>1, <1>5, BeatBlameless
<1>6. ASSUME NEW r \in Runners, Killed(r)
      PROVE  Blameless'
  BY <1>1, <1>6, KilledBlameless
<1>7. CASE LateArrives
  BY <1>1, <1>7, LateBlameless
<1>8. CASE Tick
  BY <1>1, <1>8, TickBlameless
<1>9. CASE UNCHANGED vars
  BY <1>1, <1>9 DEF vars, loopVars, serverVars, Blameless, Outstanding, Harmless, Sealed,
                    Http!Known, ProcBlameless, At, Turned, Errored, Succeeded, LeaseLost
<1> QED
  BY <1>1, <1>2, <1>3, <1>4, <1>5, <1>6, <1>7, <1>8, <1>9 DEF Next

\* Kills, restarts, lost leases, repeated and late requests never turn into the
\* record of a failure, whatever the number of runners, cases and kills.
THEOREM FailuresAreFailures == Spec => []NoFalseFailure
<1>1. Init => BlameInv
  BY InitBlameless
<1>2. SysInv /\ BlameInv /\ [Next]_vars => BlameInv'
  BY NextBlameless
<1>3. BlameInv => NoFalseFailure
  BY DEF BlameInv, Calm, Blameless, Sealed, NoFalseFailure
<1> QED
  BY <1>1, <1>2, <1>3, SystemInvariance, PTL DEF Spec
=============================================================================
