------------------------ MODULE RunnerProcessProofs ------------------------
(***************************************************************************)
(* Proofs about TurnCall and RunnerProcess.  Of the calls of one case: the *)
(* type invariant, that no failure is held against a target but one that   *)
(* the adapter takes for out of reach, and that nothing but an error of the runner's own calls hides    *)
(* the failure of one that was not, for every length of the script, every  *)
(* kind of adapter, and with or without a heartbeat.  Of the process       *)
(* around them: whatever its options, its queue and the signals it gets,   *)
(* it does to a case only what TurnCall says, it abandons no case, ends    *)
(* for a reason, begins at most one case after a stop signal, and slows    *)
(* its polling down.                                                       *)
(***************************************************************************)
EXTENDS RunnerProcess, TLAPS

USE DEF RunnerErrors, Exceptions, Stages, Provider, Unavailable, Misjudged, BeatOver

\* A call that has returned came to something, and so did send when the
\* heartbeat task is waited for; nothing is recorded of a case under way, nor of
\* one that was left in its turns.
CallInv ==
    /\ at = "leaving" => sent # None
    /\ at = "called" => outcome # None
    /\ at = "calling" => outcome = None
    /\ at \in {"calling", "leaving", "called"} => recorded = None /\ saved = None
    /\ at = "left" /\ saved = None => recorded = None
    /\ at = "over" => saved = None

\* Whatever is filed under "target_unavailable", or on its way there, came from
\* an endpoint that the adapter took for out of reach in this very turn.
Traced ==
    /\ sent = "TargetUnavailableError" => provider \in Unavailable \union Misjudged
    /\ outcome = "TargetUnavailableError" => provider \in Unavailable \union Misjudged
    /\ saved = "target_unavailable" => provider \in Unavailable \union Misjudged
    /\ NeverBlamesUnlessMisjudged

\* An endpoint that was not available stays the cause, unless a call of the
\* runner's own failed.
Held ==
    /\ provider \in Unavailable => sent = "TargetUnavailableError"
    /\ provider \in Unavailable /\ outcome \notin {None} \union RunnerErrors
       => outcome = "TargetUnavailableError"
    /\ provider \in Unavailable /\ saved # None /\ outcome \notin RunnerErrors
       => saved = "target_unavailable"
    /\ HeldToAccountUnlessMasked

\* The inductive invariant.
IInv == TypeOK /\ CallInv /\ Traced /\ Held

\* Every call begins with the invariant (Call).
LEMMA CallInitiates ==
    ASSUME IInv, NEW t \in 0..Turns - 1, Call(t), lease' \in {"held", "lost"},
           saved' = None, recorded' = None
    PROVE  IInv'
<1>1. TypeOK'
  BY DEF IInv, TypeOK, Call, BeatBegins
<1>2. CallInv'
  BY NoneAssumption DEF CallInv, Call
<1>3. Traced'
  BY NoneAssumption DEF Traced, NeverBlamesUnlessMisjudged, Call
<1>4. Held'
  BY NoneAssumption DEF Held, HeldToAccountUnlessMasked, Call
<1> QED
  BY <1>1, <1>2, <1>3, <1>4 DEF IInv

\* A process that ends keeps the invariant if the report it leaves behind does.
LEMMA EndsKeeps ==
    ASSUME IInv, NEW report \in Stages \union {"completed", None}, Ends(report),
           at \in {"calling", "leaving", "called"},
           report = "target_unavailable" => provider \in Unavailable \union Misjudged,
           report # None /\ provider \in Unavailable /\ outcome \notin RunnerErrors
              => report = "target_unavailable"
    PROVE  IInv'
<1>0. recorded' \in {None, report}
  BY DEF Ends
<1>1. TypeOK'
  BY <1>0 DEF IInv, TypeOK, Ends
<1>2. CallInv'
  BY <1>0, NoneAssumption DEF CallInv, Ends
<1>3. Traced'
  BY <1>0, NoneAssumption DEF IInv, Traced, NeverBlamesUnlessMisjudged, Ends
<1>4. Held'
  BY <1>0, NoneAssumption DEF IInv, Held, HeldToAccountUnlessMasked, Ends
<1> QED
  BY <1>1, <1>2, <1>3, <1>4 DEF IInv

\* What is to be reported of a call is under the stage of its failure (Stage).
LEMMA ReportTraced ==
    ASSUME IInv, at = "called"
    PROVE  /\ Report \in Stages \union {"completed"}
           /\ Report = "target_unavailable" => provider \in Unavailable \union Misjudged
           /\ provider \in Unavailable /\ outcome \notin RunnerErrors
              => Report = "target_unavailable"
<1>1. outcome \in {"answer"} \union Exceptions
  BY DEF IInv, TypeOK, CallInv
<1>2. Report \in Stages \union {"completed"}
  BY <1>1 DEF Report, Stage
<1>3. Report = "target_unavailable" <=> outcome = "TargetUnavailableError"
  BY <1>1 DEF Report, Stage
<1> QED
  BY <1>1, <1>2, <1>3, NoneAssumption DEF IInv, Traced, Held

LEMMA InitInv == Init => IInv
<1> SUFFICES ASSUME Init PROVE IInv
  OBVIOUS
<1>1. TypeOK
  <2>1. turn \in 0..Turns - 1
    BY TurnsAssumption DEF Init
  <2>2. stop \in BOOLEAN
    BY ZenonT(30) DEF Init
  <2> QED
    BY <2>1, <2>2 DEF Init, TypeOK
<1>2. CallInv
  BY DEF Init, CallInv
<1>3. Traced
  BY NoneAssumption DEF Init, Traced, NeverBlamesUnlessMisjudged
<1>4. Held
  BY NoneAssumption DEF Init, Held, HeldToAccountUnlessMasked
<1> QED
  BY <1>1, <1>2, <1>3, <1>4 DEF IInv

LEMMA NextInv == IInv /\ [Next]_vars => IInv'
<1> SUFFICES ASSUME IInv, [Next]_vars PROVE IInv'
  OBVIOUS
<1> USE DEF IInv
<1>1. CASE SendReturns
  <2>1. PICK p \in Provider : provider' = p /\ sent' = SendResult(p)
    BY <1>1 DEF SendReturns
  <2>2. /\ SendResult(p) = "TargetUnavailableError" <=> p \in Unavailable \union Misjudged
        /\ SendResult(p) \in {"answer"} \union Exceptions
    BY DEF SendResult
  <2>3. recorded' = None /\ saved' = None /\ outcome' = None
    BY <1>1 DEF SendReturns, CallInv
  <2>4. TypeOK'
    BY <1>1, <2>1, <2>2 DEF TypeOK, SendReturns
  <2>5. CallInv'
    BY <1>1 DEF CallInv, SendReturns
  <2>6. Traced'
    BY <2>1, <2>2, <2>3, NoneAssumption DEF Traced, NeverBlamesUnlessMisjudged
  <2>7. Held'
    BY <2>1, <2>2, <2>3 DEF Held, HeldToAccountUnlessMasked
  <2> QED
    BY <2>4, <2>5, <2>6, <2>7
<1>2. CASE BeatWakes
  <2>1. TypeOK'
    BY <1>2, NoneAssumption DEF TypeOK, CallInv, BeatWakes
  <2>2. CallInv'
    BY <1>2, NoneAssumption DEF TypeOK, CallInv, BeatWakes
  <2>3. Traced'
    BY <1>2, NoneAssumption DEF TypeOK, CallInv, Traced, NeverBlamesUnlessMisjudged, BeatWakes
  <2>4. Held'
    BY <1>2, NoneAssumption
       DEF TypeOK, CallInv, Held, HeldToAccountUnlessMasked, BeatWakes
  <2> QED
    BY <2>1, <2>2, <2>3, <2>4
<1>3. CASE BeatStops
  <2>1. TypeOK'
    BY <1>3, NoneAssumption DEF TypeOK, CallInv, BeatStops
  <2>2. CallInv'
    BY <1>3, NoneAssumption DEF TypeOK, CallInv, BeatStops
  <2>3. Traced'
    BY <1>3, NoneAssumption DEF TypeOK, CallInv, Traced, NeverBlamesUnlessMisjudged, BeatStops
  <2>4. Held'
    BY <1>3, NoneAssumption
       DEF TypeOK, CallInv, Held, HeldToAccountUnlessMasked, BeatStops
  <2> QED
    BY <2>1, <2>2, <2>3, <2>4
<1>4. CASE Leave
  <2>1. TypeOK'
    BY <1>4, NoneAssumption DEF TypeOK, CallInv, Leave
  <2>2. CallInv'
    BY <1>4, NoneAssumption DEF TypeOK, CallInv, Leave
  <2>3. Traced'
    BY <1>4, NoneAssumption DEF TypeOK, CallInv, Traced, NeverBlamesUnlessMisjudged, Leave
  <2>4. Held'
    BY <1>4, NoneAssumption
       DEF TypeOK, CallInv, Held, HeldToAccountUnlessMasked, Leave
  <2> QED
    BY <2>1, <2>2, <2>3, <2>4
<1>5. CASE CallReturns
  <2>1. TypeOK'
    BY <1>5, NoneAssumption DEF TypeOK, CallInv, CallReturns
  <2>2. CallInv'
    BY <1>5, NoneAssumption DEF TypeOK, CallInv, CallReturns
  <2>3. Traced'
    BY <1>5, NoneAssumption DEF TypeOK, CallInv, Traced, NeverBlamesUnlessMisjudged, CallReturns
  <2>4. Held'
    BY <1>5, NoneAssumption
       DEF TypeOK, CallInv, Held, HeldToAccountUnlessMasked, CallReturns
  <2> QED
    BY <2>1, <2>2, <2>3, <2>4
<1>6. CASE TurnRaises
  <2>1. TypeOK'
    BY <1>6, NoneAssumption DEF TypeOK, CallInv, TurnRaises
  <2>2. CallInv'
    BY <1>6, NoneAssumption DEF TypeOK, CallInv, TurnRaises
  <2>3. Traced'
    BY <1>6, NoneAssumption DEF TypeOK, CallInv, Traced, NeverBlamesUnlessMisjudged, TurnRaises
  <2>4. Held'
    BY <1>6, NoneAssumption
       DEF TypeOK, CallInv, Held, HeldToAccountUnlessMasked, TurnRaises
  <2> QED
    BY <2>1, <2>2, <2>3, <2>4
<1>7. CASE LeftDropped
  <2>1. TypeOK'
    BY <1>7, NoneAssumption DEF TypeOK, CallInv, LeftDropped
  <2>2. CallInv'
    BY <1>7, NoneAssumption DEF TypeOK, CallInv, LeftDropped
  <2>3. Traced'
    BY <1>7, NoneAssumption DEF TypeOK, CallInv, Traced, NeverBlamesUnlessMisjudged, LeftDropped
  <2>4. Held'
    BY <1>7, NoneAssumption
       DEF TypeOK, CallInv, Held, HeldToAccountUnlessMasked, LeftDropped
  <2> QED
    BY <2>1, <2>2, <2>3, <2>4
<1>8. CASE ReportServed
  <2>1. TypeOK'
    BY <1>8, NoneAssumption DEF TypeOK, CallInv, ReportServed
  <2>2. CallInv'
    BY <1>8, NoneAssumption DEF TypeOK, CallInv, ReportServed
  <2>3. Traced'
    BY <1>8, NoneAssumption DEF TypeOK, CallInv, Traced, NeverBlamesUnlessMisjudged, ReportServed
  <2>4. Held'
    BY <1>8, NoneAssumption
       DEF TypeOK, CallInv, Held, HeldToAccountUnlessMasked, ReportServed
  <2> QED
    BY <2>1, <2>2, <2>3, <2>4
<1>9. CASE ReportAccepted
  <2>1. TypeOK'
    BY <1>9, NoneAssumption DEF TypeOK, CallInv, ReportAccepted
  <2>2. CallInv'
    BY <1>9, NoneAssumption DEF TypeOK, CallInv, ReportAccepted
  <2>3. Traced'
    BY <1>9, NoneAssumption DEF TypeOK, CallInv, Traced, NeverBlamesUnlessMisjudged, ReportAccepted
  <2>4. Held'
    BY <1>9, NoneAssumption
       DEF TypeOK, CallInv, Held, HeldToAccountUnlessMasked, ReportAccepted
  <2> QED
    BY <2>1, <2>2, <2>3, <2>4
<1>10. CASE LeaseLapses
  <2>1. TypeOK'
    BY <1>10, NoneAssumption DEF TypeOK, CallInv, LeaseLapses
  <2>2. CallInv'
    BY <1>10, NoneAssumption DEF TypeOK, CallInv, LeaseLapses
  <2>3. Traced'
    BY <1>10, NoneAssumption DEF TypeOK, CallInv, Traced, NeverBlamesUnlessMisjudged, LeaseLapses
  <2>4. Held'
    BY <1>10, NoneAssumption
       DEF TypeOK, CallInv, Held, HeldToAccountUnlessMasked, LeaseLapses
  <2> QED
    BY <2>1, <2>2, <2>3, <2>4
<1>11. CASE CaseDropped
  <2>1. TypeOK'
    BY <1>11, NoneAssumption DEF TypeOK, CallInv, CaseDropped, Over
  <2>2. CallInv'
    BY <1>11, NoneAssumption DEF TypeOK, CallInv, CaseDropped, Over
  <2>3. Traced'
    BY <1>11, NoneAssumption DEF TypeOK, CallInv, Traced, NeverBlamesUnlessMisjudged, CaseDropped, Over
  <2>4. Held'
    BY <1>11, NoneAssumption
       DEF TypeOK, CallInv, Held, HeldToAccountUnlessMasked, CaseDropped, Over
  <2> QED
    BY <2>1, <2>2, <2>3, <2>4
<1>12. CASE FailureRecorded
  <2>1. TypeOK'
    BY <1>12, NoneAssumption DEF TypeOK, CallInv, FailureRecorded, Over, Stage
  <2>2. CallInv'
    BY <1>12, NoneAssumption DEF TypeOK, CallInv, FailureRecorded, Over, Stage
  <2>3. Traced'
    BY <1>12, NoneAssumption DEF TypeOK, CallInv, Traced, NeverBlamesUnlessMisjudged, FailureRecorded, Over, Stage
  <2>4. Held'
    BY <1>12, NoneAssumption
       DEF TypeOK, CallInv, Held, HeldToAccountUnlessMasked, FailureRecorded, Over, Stage
  <2> QED
    BY <2>1, <2>2, <2>3, <2>4
<1>13. CASE BeatAnswered
  <2>1. TypeOK'
    <3>1. stop' \in BOOLEAN
      BY <1>13, ZenonT(30) DEF TypeOK, BeatAnswered
    <3>2. beat' \in {"asleep", "ended"} \union RunnerErrors
      BY <1>13 DEF BeatAnswered
    <3> QED
      BY <1>13, <3>1, <3>2 DEF TypeOK, BeatAnswered
  <2>2. CallInv'
    BY <1>13, NoneAssumption DEF TypeOK, CallInv, BeatAnswered
  <2>3. Traced'
    BY <1>13, NoneAssumption DEF TypeOK, CallInv, Traced, NeverBlamesUnlessMisjudged, BeatAnswered
  <2>4. Held'
    BY <1>13, NoneAssumption DEF TypeOK, CallInv, Held, HeldToAccountUnlessMasked, BeatAnswered
  <2> QED
    BY <2>1, <2>2, <2>3, <2>4
<1>14. CASE FailureEscapes
  <2>1. at = "called" /\ Ends(Report)
    BY <1>14 DEF FailureEscapes
  <2> QED
    BY <2>1, ReportTraced, EndsKeeps
<1>15. CASE Interrupted
  <2>1. CASE Ends(None)
    BY <1>15, <2>1, EndsKeeps, NoneAssumption DEF Interrupted
  <2>2. CASE Reporting /\ Ends(Report)
    BY <2>2, ReportTraced, EndsKeeps DEF Reporting
  <2> QED
    BY <1>15, <2>1, <2>2 DEF Interrupted
<1>16. CASE ReportReplaced
  <2>1. PICK e \in RunnerErrors : outcome' = e /\ saved' = "adapter"
    BY <1>16 DEF ReportReplaced, Stage
  <2>2. TypeOK'
    BY <1>16, <2>1 DEF TypeOK, ReportReplaced
  <2>3. CallInv'
    BY <1>16, <2>1, NoneAssumption DEF CallInv, ReportReplaced
  <2>4. Traced'
    BY <1>16, <2>1 DEF Traced, NeverBlamesUnlessMisjudged, ReportReplaced
  <2>5. Held'
    BY <1>16, <2>1 DEF Held, HeldToAccountUnlessMasked, ReportReplaced
  <2> QED
    BY <2>2, <2>3, <2>4, <2>5
<1>17. CASE ReplayFails
  <2>1. PICK p \in Provider \ {"text"} :
           provider' = p /\ outcome' = SendResult(p) /\ sent' = SendResult(p)
    BY <1>17 DEF ReplayFails
  <2>2. /\ SendResult(p) = "TargetUnavailableError" <=> p \in Unavailable \union Misjudged
        /\ SendResult(p) \in Exceptions
    BY DEF SendResult
  <2>3. recorded' = None /\ saved' = None
    BY <1>17 DEF ReplayFails, CallInv
  <2>4. stop' \in BOOLEAN
    BY <1>17, ZenonT(30) DEF ReplayFails
  <2>5. TypeOK'
    BY <1>17, <2>1, <2>2, <2>4 DEF TypeOK, ReplayFails
  <2>6. CallInv'
    BY <1>17, <2>1, <2>2, <2>3, NoneAssumption DEF CallInv, ReplayFails
  <2>7. Traced'
    BY <2>1, <2>2, <2>3, NoneAssumption DEF Traced, NeverBlamesUnlessMisjudged
  <2>8. Held'
    BY <2>1, <2>2, <2>3, NoneAssumption DEF Held, HeldToAccountUnlessMasked
  <2> QED
    BY <2>5, <2>6, <2>7, <2>8
<1>18. CASE TurnAccepted
  <2>1. CASE MoreTurns
    <3>1. turn + 1 \in 0..Turns - 1
      BY <2>1, TurnsAssumption DEF TypeOK, MoreTurns
    <3>2. Call(turn + 1) /\ UNCHANGED <<lease, saved, recorded>> /\ at = "called"
      BY <1>18, <2>1 DEF TurnAccepted
    <3> QED
      BY <3>1, <3>2, CallInitiates DEF TypeOK, CallInv
  <2>2. CASE ~MoreTurns
    <3>1. Over("completed") /\ at = "called" /\ outcome = "answer"
      BY <1>18, <2>2 DEF TurnAccepted
    <3> QED
      BY <3>1, NoneAssumption
         DEF TypeOK, CallInv, Traced, NeverBlamesUnlessMisjudged, Held, HeldToAccountUnlessMasked, Over
  <2> QED
    BY <2>1, <2>2
<1>19. CASE NextCase
  <2>1. 0 \in 0..Turns - 1
    BY TurnsAssumption
  <2> QED
    BY <1>19, <2>1, CallInitiates DEF NextCase
<1>20. CASE CaseResumed
  <2>1. Call(turn) /\ saved' = None /\ recorded' = None /\ lease' = lease
    BY <1>20 DEF CaseResumed, CallInv
  <2> QED
    BY <2>1, CallInitiates DEF TypeOK
<1>21. CASE UNCHANGED vars
  BY <1>21 DEF TypeOK, CallInv, Traced, NeverBlamesUnlessMisjudged, Held, HeldToAccountUnlessMasked, vars
<1> QED
  BY <1>1, <1>2, <1>3, <1>4, <1>5, <1>6, <1>7, <1>8, <1>9, <1>10, <1>11,
     <1>12, <1>13, <1>14, <1>15, <1>16, <1>17, <1>18, <1>19, <1>20, <1>21 DEF Next

\* Every variable always holds a value of its type.
THEOREM TypeCorrect == Spec => []TypeOK
<1>1. IInv => TypeOK
  BY DEF IInv
<1> QED
  BY <1>1, InitInv, NextInv, PTL DEF Spec

\* A case is recorded as failed by its target only if, in the turn that failed, the
\* adapter took it for out of reach: no other fault of the adapter, none of the
\* runner's own calls or of the script, and nothing of an earlier turn or process
\* is ever filed there, whichever of the two tasks raises first (errors.py,
\* _with_heartbeat, _run_case).
THEOREM OnlyMisjudgedBlamed == Spec => []NeverBlamesUnlessMisjudged
<1>1. IInv => NeverBlamesUnlessMisjudged
  BY DEF IInv, Traced
<1> QED
  BY <1>1, InitInv, NextInv, PTL DEF Spec

\* A target that was not available is held to account, unless an error of the
\* runner's own calls took the place of its failure (the finally clause of
\* _with_heartbeat, the except clause of _run_case, normalize_exception).
THEOREM OnlyRunnerErrorsMask == Spec => []HeldToAccountUnlessMasked
<1>1. IInv => HeldToAccountUnlessMasked
  BY DEF IInv, Held
<1> QED
  BY <1>1, InitInv, NextInv, PTL DEF Spec

-----------------------------------------------------------------------------
(* Refinement *)

LEMMA ProcessStepIsCallStep == [ProcessNext]_allVars => [Next]_vars
<1> SUFFICES ASSUME [ProcessNext]_allVars PROVE [Next]_vars
  OBVIOUS
<1>1. CASE Start
  BY <1>1 DEF Start
<1>2. CASE StopRequested
  BY <1>2 DEF StopRequested
<1>3. CASE Killed
  BY <1>3 DEF Killed, Next
<1>4. CASE ResumeAlive
  BY <1>4 DEF ResumeAlive, Next
<1>5. CASE ResumeLost
  BY <1>5 DEF ResumeLost, Next
<1>6. CASE ResumeFails
  BY <1>6 DEF ResumeFails
<1>7. CASE ReportSent
  BY <1>7 DEF ReportSent, Next
<1>8. CASE ReportFails
  BY <1>8 DEF ReportFails, Next
<1>9. CASE ReportEscapes
  BY <1>9 DEF ReportEscapes
<1>10. CASE ClaimGranted
  BY <1>10 DEF ClaimGranted, Next
<1>11. CASE ClaimEmpty
  BY <1>11 DEF ClaimEmpty
<1>12. CASE ClaimFails
  BY <1>12 DEF ClaimFails
<1>13. CASE WaitElapses
  BY <1>13 DEF WaitElapses
<1>14. CASE WorkArrives
  BY <1>14 DEF WorkArrives
<1>15. CASE CaseGoesOn
  BY <1>15 DEF CaseGoesOn, CaseStep, Next
<1>16. CASE CaseEnds
  BY <1>16 DEF CaseEnds, Next
<1>17. CASE CaseEscapes
  BY <1>17 DEF CaseEscapes, Next
<1>18. CASE Elsewhere
  BY <1>18 DEF Elsewhere, Next
<1>19. CASE UNCHANGED allVars
  BY <1>19 DEF allVars
<1> QED
  BY <1>1, <1>2, <1>3, <1>4, <1>5, <1>6, <1>7, <1>8, <1>9, <1>10,
     <1>11, <1>12, <1>13, <1>14, <1>15, <1>16, <1>17, <1>18, <1>19 DEF ProcessNext

\* A runner process behaves, toward the case at hand, as TurnCall says.
THEOREM ProcessImplementsCalls == ProcessSpec => Spec
<1>1. ProcessInit => Init
  BY DEF ProcessInit
<1> QED
  BY <1>1, ProcessStepIsCallStep, PTL DEF ProcessSpec, Spec

\* A runner process blames a target only if the adapter took it for out of reach
\* (see OnlyMisjudgedBlamed),
THEOREM ProcessBlamesOnlyMisjudged == ProcessSpec => []NeverBlamesUnlessMisjudged
BY ProcessImplementsCalls, OnlyMisjudgedBlamed

\* and hides the failure of one that was not only behind an error of its own
\* calls (see OnlyRunnerErrorsMask).
THEOREM ProcessHoldsToAccount == ProcessSpec => []HeldToAccountUnlessMasked
BY ProcessImplementsCalls, OnlyRunnerErrorsMask

-----------------------------------------------------------------------------
(* Where the loop is, and where its case is *)

Underway == {"calling", "leaving", "called"}

\* The case is under way, left behind or over as the phase says.
Placed ==
    /\ phase \in {"off", "resuming", "reporting", "failing", "claiming", "waiting", "case"}
    /\ ended \in {"never", "running", "returned", "stopped", "raised", "killed"}
    /\ at \in Underway \union {"over", "left"}
    /\ phase = "case" <=> at \in Underway
    /\ phase = "off" <=> ended # "running"
    /\ at # "left" => saved = None
    /\ phase = "resuming" => at = "left" /\ saved = None
    /\ phase \in {"reporting", "failing"} => at = "left" /\ saved # None
    /\ NothingAbandoned

LEMMA InitPlaced == ProcessInit => Placed
BY NoneAssumption DEF ProcessInit, Init, Placed, Underway, NothingAbandoned

LEMMA StepPlaced == Placed /\ [ProcessNext]_allVars => Placed'
<1> SUFFICES ASSUME Placed, [ProcessNext]_allVars PROVE Placed'
  OBVIOUS
<1> USE NoneAssumption DEF Placed, Underway, NothingAbandoned
<1>1. CASE Start
  BY <1>1 DEF Start, Ended, vars
<1>2. CASE StopRequested
  BY <1>2 DEF StopRequested, vars
<1>3. CASE Killed
  BY <1>3 DEF Killed, Ended, vars, Interrupted, Ends
<1>4. CASE ResumeAlive
  BY <1>4 DEF ResumeAlive, CountLate, vars, CaseResumed, ReplayFails, Call
<1>5. CASE ResumeLost
  BY <1>5 DEF ResumeLost, LeftoverDone, GoOn, Ended, vars, LeftDropped
<1>6. CASE ResumeFails
  BY <1>6 DEF ResumeFails, Raises, Ended, vars
<1>7. CASE ReportSent
  BY <1>7 DEF ReportSent, LeftoverDone, GoOn, Ended, vars, ReportAccepted, LeftDropped
<1>8. CASE ReportFails
  BY <1>8 DEF ReportFails, vars, ReportReplaced, Stage, RunnerErrors, Stages
<1>9. CASE ReportEscapes
  BY <1>9 DEF ReportEscapes, Raises, Ended, vars
<1>10. CASE ClaimGranted
  BY <1>10 DEF ClaimGranted, CountLate, Smaller, vars, NextCase, Call
<1>11. CASE ClaimEmpty
  BY <1>11 DEF ClaimEmpty, Ended, vars
<1>12. CASE ClaimFails
  BY <1>12 DEF ClaimFails, Raises, Ended, vars
<1>13. CASE WaitElapses
  BY <1>13 DEF WaitElapses, GoOn, Ended, vars
<1>14. CASE WorkArrives
  BY <1>14 DEF WorkArrives, vars
<1>15. CASE CaseGoesOn
  BY <1>15
     DEF CaseGoesOn, processVars, CaseStep, SendReturns, BeatWakes, BeatStops, BeatAnswered,
         Leave, CallReturns, TurnRaises, TurnAccepted, Call, Over
<1>16. CASE CaseEnds
  <2>1. at = "called" /\ phase = "case" /\ at' = "over" /\ saved' = saved
    BY <1>16 DEF CaseEnds, CaseDropped, FailureRecorded, TurnAccepted, Over, Call
  <2>2. (phase' = "off" /\ ended' \in {"returned", "stopped"})
        \/ (phase' = "claiming" /\ ended' = ended)
    BY <1>16 DEF CaseEnds, GoOn, Ended
  <2> QED
    BY <2>1, <2>2
<1>17. CASE CaseEscapes
  BY <1>17 DEF CaseEscapes, Raises, Ended, vars, FailureEscapes, Ends
<1>18. CASE Elsewhere
  BY <1>18 DEF Elsewhere, processVars, vars, LeaseLapses, ReportServed
<1>19. CASE UNCHANGED allVars
  BY <1>19 DEF allVars, vars, processVars
<1> QED
  BY <1>1, <1>2, <1>3, <1>4, <1>5, <1>6, <1>7, <1>8, <1>9, <1>10,
     <1>11, <1>12, <1>13, <1>14, <1>15, <1>16, <1>17, <1>18, <1>19 DEF ProcessNext

\* A process that ended of its own accord left no checkpoint, and none is
\* overwritten by a claim (run_until_idle, _resume_case, _graceful_stop).
THEOREM CasesAreNotAbandoned == ProcessSpec => []NothingAbandoned
<1>1. Placed => NothingAbandoned
  BY DEF Placed
<1> QED
  BY <1>1, InitPlaced, StepPlaced, PTL DEF ProcessSpec
-----------------------------------------------------------------------------
(* Types *)

Counts == [claimed : 0..2, late : Nat, idle : 0..3]

ProcessTypes ==
    /\ options \in [drain : BOOLEAN, wait : BOOLEAN]
    /\ {halt, leftover} \subseteq BOOLEAN
    /\ backoff \in Nat
    /\ work \in 0..MaxWork
    /\ tally \in Counts

\* A claim counted.
LEMMA CountedClaim ==
    ASSUME NEW t \in Counts, NEW u, u = [t EXCEPT !.claimed = Smaller(2, @ + 1), !.idle = 0]
    PROVE  /\ u \in Counts
           /\ u.late = t.late
           /\ t.claimed = 0 => u.claimed = 1
<1>1. t.claimed \in 0..2 /\ t.late \in Nat
  BY DEF Counts
<1>2. PICK c \in 0..2 : c = Smaller(2, t.claimed + 1) /\ (t.claimed = 0 => c = 1)
  BY <1>1 DEF Smaller
<1>3. u = [claimed |-> c, late |-> t.late, idle |-> 0]
  BY <1>2 DEF Counts
<1> QED
  BY <1>1, <1>2, <1>3 DEF Counts

LEMMA InitTypes == ProcessInit => ProcessTypes
<1> SUFFICES ASSUME ProcessInit PROVE ProcessTypes
  OBVIOUS
<1>1. options \in [drain : BOOLEAN, wait : BOOLEAN]
  BY DEF ProcessInit
<1>2. {halt, leftover} \subseteq BOOLEAN
  BY Zenon DEF ProcessInit
<1>3. backoff \in Nat /\ work \in 0..MaxWork /\ tally \in Counts
  BY PollAssumption, WorkAssumption DEF ProcessInit, NoTally, Counts
<1> QED
  BY <1>1, <1>2, <1>3 DEF ProcessTypes

LEMMA StepTypes == ProcessTypes /\ [ProcessNext]_allVars => ProcessTypes'
<1> SUFFICES ASSUME ProcessTypes, [ProcessNext]_allVars PROVE ProcessTypes'
  OBVIOUS
<1> USE DEF ProcessTypes, Counts
<1>1. CASE Start
  <2>1. options' \in [drain : BOOLEAN, wait : BOOLEAN]
    BY <1>1 DEF Start
  <2>2. {halt, leftover}' \subseteq BOOLEAN
    BY <1>1, ZenonT(30) DEF Start
  <2>3. backoff' \in Nat /\ work' \in 0..MaxWork /\ tally' \in Counts
    BY <1>1, PollAssumption DEF Start, NoTally
  <2> QED
    BY <2>1, <2>2, <2>3
<1>2. CASE StopRequested
  <2>1. {halt, leftover}' \subseteq BOOLEAN
    BY <1>2, ZenonT(30) DEF StopRequested
  <2>2. UNCHANGED <<options, backoff, work, tally>>
    BY <1>2 DEF StopRequested
  <2> QED
    BY <2>1, <2>2
<1>3. CASE Killed
  BY <1>3 DEF Killed, Ended
<1>4. CASE ResumeAlive
  <2>1. tally' = tally \/ tally' = [tally EXCEPT !.late = @ + 1]
    BY <1>4 DEF ResumeAlive, CountLate
  <2>2. tally' \in Counts
    BY <2>1
  <2>3. UNCHANGED <<options, halt, backoff, leftover, work>>
    BY <1>4 DEF ResumeAlive
  <2> QED
    BY <2>2, <2>3
<1>5. CASE ResumeLost
  <2>1. {halt, leftover}' \subseteq BOOLEAN
    BY <1>5, ZenonT(30) DEF ResumeLost, LeftoverDone
  <2>2. UNCHANGED <<options, backoff, work, tally>>
    BY <1>5 DEF ResumeLost, LeftoverDone
  <2> QED
    BY <2>1, <2>2
<1>6. CASE ResumeFails
  BY <1>6 DEF ResumeFails, Raises, Ended
<1>7. CASE ReportSent
  <2>1. {halt, leftover}' \subseteq BOOLEAN
    BY <1>7, ZenonT(30) DEF ReportSent, LeftoverDone
  <2>2. UNCHANGED <<options, backoff, work, tally>>
    BY <1>7 DEF ReportSent, LeftoverDone
  <2> QED
    BY <2>1, <2>2
<1>8. CASE ReportFails
  BY <1>8 DEF ReportFails
<1>9. CASE ReportEscapes
  BY <1>9 DEF ReportEscapes, Raises, Ended
<1>10. CASE ClaimGranted
  <2>1. work' \in 0..MaxWork /\ backoff' = PollMin
    BY <1>10, WorkAssumption DEF ClaimGranted
  <2> DEFINE counted == [tally EXCEPT !.claimed = Smaller(2, @ + 1), !.idle = 0]
  <2>2. counted \in Counts
    BY CountedClaim
  <2>3. tally' = counted \/ tally' = [counted EXCEPT !.late = @ + 1]
    <3>1. tally' = CountLate(counted)
      BY <1>10 DEF ClaimGranted
    <3> HIDE DEF counted
    <3> QED
      BY <3>1 DEF CountLate
  <2> HIDE DEF counted
  <2>4. tally' \in Counts
    BY <2>2, <2>3
  <2>5. UNCHANGED <<options, halt, leftover>>
    BY <1>10 DEF ClaimGranted
  <2> QED
    BY <2>1, <2>4, <2>5, PollAssumption
<1>11. CASE ClaimEmpty
  <2>1. UNCHANGED <<options, halt, leftover, work>>
    BY <1>11 DEF ClaimEmpty
  <2>2. tally' \in Counts
    BY <1>11 DEF ClaimEmpty, Smaller
  <2>3. CASE options.wait
    <3>1. PICK hint \in Hints \union {0} : backoff' = NextBackoff(backoff, hint)
      BY <1>11, <2>3 DEF ClaimEmpty
    <3>2. hint \in Nat /\ backoff * 2 \in Nat
      BY PollAssumption
    <3>3. backoff' \in Nat
      BY <3>1, <3>2, PollAssumption DEF NextBackoff, Larger, Smaller
    <3> QED
      BY <2>1, <2>2, <3>3
  <2>4. CASE ~options.wait
    BY <1>11, <2>1, <2>4, <2>2 DEF ClaimEmpty
  <2> QED
    BY <2>3, <2>4
<1>12. CASE ClaimFails
  BY <1>12 DEF ClaimFails, Raises, Ended
<1>13. CASE WaitElapses
  BY <1>13 DEF WaitElapses
<1>14. CASE WorkArrives
  BY <1>14, WorkAssumption DEF WorkArrives
<1>15. CASE CaseGoesOn
  BY <1>15 DEF CaseGoesOn, processVars
<1>16. CASE CaseEnds
  <2>1. {halt, leftover}' \subseteq BOOLEAN
    BY <1>16, ZenonT(30) DEF CaseEnds
  <2>2. UNCHANGED <<options, backoff, work, tally>>
    BY <1>16 DEF CaseEnds
  <2> QED
    BY <2>1, <2>2
<1>17. CASE CaseEscapes
  BY <1>17 DEF CaseEscapes, Raises, Ended
<1>18. CASE Elsewhere
  BY <1>18 DEF Elsewhere, processVars
<1>19. CASE UNCHANGED allVars
  BY <1>19 DEF allVars, processVars
<1> QED
  BY <1>1, <1>2, <1>3, <1>4, <1>5, <1>6, <1>7, <1>8, <1>9, <1>10,
     <1>11, <1>12, <1>13, <1>14, <1>15, <1>16, <1>17, <1>18, <1>19 DEF ProcessNext

\* Every variable of a runner process always holds a value of its type, and a
\* case is under way exactly where the loop has one.
THEOREM ProcessTypeCorrect == ProcessSpec => []ProcessTypeOK
<1>1. TypeOK /\ ProcessTypes /\ Placed => ProcessTypeOK
  <2> SUFFICES ASSUME TypeOK, ProcessTypes, Placed PROVE ProcessTypeOK
    OBVIOUS
  <2>1. {halt, leftover} \subseteq BOOLEAN
    BY Zenon DEF ProcessTypes
  <2>2. /\ options \in [drain : BOOLEAN, wait : BOOLEAN] /\ backoff \in Nat
        /\ work \in 0..MaxWork
        /\ tally \in [claimed : 0..2, late : Nat, idle : 0..3]
    BY DEF ProcessTypes, Counts
  <2>3. /\ phase \in {"off", "resuming", "reporting", "failing", "claiming", "waiting", "case"}
        /\ phase = "case" <=> at \in {"calling", "leaving", "called"}
        /\ phase = "off" <=> ended # "running"
        /\ ended \in {"never", "running", "returned", "stopped", "raised", "killed"}
    BY DEF Placed, Underway
  <2>4. TypeOK
    OBVIOUS
  <2> QED
    BY <2>1, <2>2, <2>3, <2>4, Zenon DEF ProcessTypeOK
<1>2. ProcessSpec => []TypeOK
  BY ProcessImplementsCalls, TypeCorrect
<1> QED
  BY <1>1, <1>2, InitTypes, StepTypes, InitPlaced, StepPlaced, PTL DEF ProcessSpec

-----------------------------------------------------------------------------
(* What a process counts *)

\* With --once a case is claimed once, after the leftover one, and then the process
\* ends; a case begun after the stop signal is the last.
Accounted ==
    /\ phase \in {"resuming", "reporting", "failing"} => leftover
    /\ leftover => phase \in {"resuming", "reporting", "failing", "case", "off"}
    /\ phase \in {"resuming", "reporting", "failing", "claiming", "waiting"} =>
          /\ tally.late = 0
          /\ ~options.drain => tally.claimed = 0
    /\ phase = "case" /\ ~options.drain => tally.claimed = (IF leftover THEN 0 ELSE 1)
    /\ phase = "case" /\ tally.late # 0 => halt
    /\ EndsForAReason
    /\ StopIsPrompt

PInv == ProcessTypes /\ Placed /\ Accounted

LEMMA InitAccounted == ProcessInit => Accounted
BY DEF ProcessInit, NoTally, Accounted, EndsForAReason, StopIsPrompt

\* Back at the head of the loop.
LEMMA GoOnAccounted ==
    ASSUME PInv, GoOn, UNCHANGED <<options, halt, tally>>, ~leftover',
           phase # "off", tally.late # 0 => halt, ~options.drain => tally.claimed = 0
    PROVE  Accounted'
<1>1. CASE halt
  BY <1>1 DEF PInv, ProcessTypes, Placed, Accounted, EndsForAReason, StopIsPrompt, GoOn, Ended
<1>2. CASE ~halt
  BY <1>2 DEF PInv, ProcessTypes, Placed, Accounted, EndsForAReason, StopIsPrompt, GoOn, Ended
<1> QED
  BY <1>1, <1>2

LEMMA StepAccounted == PInv /\ [ProcessNext]_allVars => Accounted'
<1> SUFFICES ASSUME PInv, [ProcessNext]_allVars PROVE Accounted'
  OBVIOUS
<1> USE DEF PInv, ProcessTypes, Counts, Placed, Accounted, EndsForAReason, StopIsPrompt
<1>1. CASE Start
  <2>1. /\ phase' \in {"claiming", "resuming", "reporting"}
        /\ IF phase' = "claiming" THEN ~leftover' ELSE leftover'
        /\ ended' = "running" /\ tally' = NoTally
    BY <1>1 DEF Start, Underway
  <2> QED
    BY <2>1 DEF NoTally
<1>2. CASE StopRequested
  BY <1>2 DEF StopRequested
<1>3. CASE Killed
  BY <1>3 DEF Killed, Ended
<1>4. CASE ResumeAlive
  <2>1. /\ phase = "resuming" /\ phase' = "case"
        /\ UNCHANGED <<ended, options, halt, leftover>>
    BY <1>4 DEF ResumeAlive
  <2>2. tally' = CountLate(tally) /\ leftover
    BY <1>4 DEF ResumeAlive
  <2>3. /\ tally'.claimed = tally.claimed
        /\ tally'.late = IF halt THEN 1 ELSE 0
    BY <2>1, <2>2 DEF CountLate
  <2> QED
    BY <2>1, <2>2, <2>3
<1>5. CASE ResumeLost
  BY <1>5, GoOnAccounted DEF ResumeLost, LeftoverDone
<1>6. CASE ResumeFails
  BY <1>6 DEF ResumeFails, Raises, Ended
<1>7. CASE ReportSent
  BY <1>7, GoOnAccounted DEF ReportSent, LeftoverDone
<1>8. CASE ReportFails
  BY <1>8 DEF ReportFails
<1>9. CASE ReportEscapes
  BY <1>9 DEF ReportEscapes, Raises, Ended
<1>10. CASE ClaimGranted
  <2> DEFINE counted == [tally EXCEPT !.claimed = Smaller(2, @ + 1), !.idle = 0]
  <2>1. /\ phase = "claiming" /\ phase' = "case"
        /\ UNCHANGED <<ended, options, halt, leftover>>
        /\ tally' = CountLate(counted)
    BY <1>10 DEF ClaimGranted
  <2>2. /\ counted.late = 0
        /\ ~options.drain => counted.claimed = 1
        /\ counted \in Counts
    BY <2>1, CountedClaim
  <2>3. /\ tally'.claimed = counted.claimed
        /\ tally'.late = IF halt THEN 1 ELSE 0
    BY <2>1, <2>2 DEF CountLate
  <2> HIDE DEF counted
  <2> QED
    BY <2>1, <2>2, <2>3
<1>11. CASE ClaimEmpty
  <2>1. /\ tally'.idle > 0
        /\ tally'.claimed = tally.claimed /\ tally'.late = tally.late
    BY <1>11 DEF ClaimEmpty, Smaller
  <2>2. phase = "claiming" /\ UNCHANGED <<options, halt, leftover>>
    BY <1>11 DEF ClaimEmpty
  <2>3. IF options.wait THEN phase' = "waiting" /\ ended' = ended
                        ELSE phase' = "off" /\ ended' = "returned"
    BY <1>11 DEF ClaimEmpty, Ended
  <2> QED
    BY <2>1, <2>2, <2>3
<1>12. CASE ClaimFails
  BY <1>12 DEF ClaimFails, Raises, Ended
<1>13. CASE WaitElapses
  BY <1>13, GoOnAccounted DEF WaitElapses
<1>14. CASE WorkArrives
  BY <1>14 DEF WorkArrives
<1>15. CASE CaseGoesOn
  BY <1>15 DEF CaseGoesOn, processVars
<1>16. CASE CaseEnds
  <2>1. UNCHANGED <<options, halt, tally>> /\ ~leftover' /\ phase = "case"
    BY <1>16 DEF CaseEnds
  <2>2. CASE OnceDone
    BY <1>16, <2>1, <2>2 DEF CaseEnds, OnceDone, Ended
  <2>3. CASE ~OnceDone
    <3>1. GoOn
      BY <1>16, <2>3 DEF CaseEnds
    <3>2. ~options.drain => tally.claimed = 0
      BY <2>1, <2>3 DEF OnceDone
    <3> QED
      BY <2>1, <3>1, <3>2, GoOnAccounted
  <2> QED
    BY <2>2, <2>3
<1>17. CASE CaseEscapes
  BY <1>17 DEF CaseEscapes, Raises, Ended
<1>18. CASE Elsewhere
  BY <1>18 DEF Elsewhere, processVars
<1>19. CASE UNCHANGED allVars
  BY <1>19 DEF allVars, processVars
<1> QED
  BY <1>1, <1>2, <1>3, <1>4, <1>5, <1>6, <1>7, <1>8, <1>9, <1>10,
     <1>11, <1>12, <1>13, <1>14, <1>15, <1>16, <1>17, <1>18, <1>19 DEF ProcessNext

LEMMA ProcessInvariant == ProcessSpec => []PInv
<1>1. ProcessInit => PInv
  BY InitTypes, InitPlaced, InitAccounted DEF PInv
<1>2. PInv /\ [ProcessNext]_allVars => PInv'
  BY StepTypes, StepPlaced, StepAccounted DEF PInv
<1> QED
  BY <1>1, <1>2, PTL DEF ProcessSpec

\* A process that is not killed and does not fail ends only when it was stopped,
\* when there was no work and it need not wait, or with the one case that --once
\* claims; and --once never claims a second (run_until_idle).
THEOREM ProcessEndsForAReason == ProcessSpec => []EndsForAReason
<1>1. PInv => EndsForAReason
  BY DEF PInv, Accounted
<1> QED
  BY <1>1, ProcessInvariant, PTL

\* After a stop signal at most one more case is begun, wherever the signal finds
\* the process (run_until_idle, _graceful_stop).
THEOREM StopsPromptly == ProcessSpec => []StopIsPrompt
<1>1. PInv => StopIsPrompt
  BY DEF PInv, Accounted
<1> QED
  BY <1>1, ProcessInvariant, PTL

-----------------------------------------------------------------------------
(* Polling *)

\* The wait that doubling alone would have come to.
Doubled(n) == Smaller(PollMax, PollMin * 2^n)

\* What PollsSlowDown says while the runner waits is true as long as the process
\* runs: the backoff and the count of idle answers start over together.
Backed ==
    /\ tally \in Counts
    /\ backoff \in Nat
    /\ phase # "off" =>
          Doubled(tally.idle) <= backoff /\ backoff <= Larger(PollMin, PollMax)

LEMMA DoubledParts ==
    /\ Doubled(0) = Smaller(PollMax, PollMin)
    /\ Doubled(1) = Smaller(PollMax, 2 * PollMin)
    /\ Doubled(2) = Smaller(PollMax, 4 * PollMin)
    /\ Doubled(3) = Smaller(PollMax, 8 * PollMin)
<1>1. 2^0 = 1 /\ 2^1 = 2 /\ 2^2 = 4 /\ 2^3 = 8
  OBVIOUS
<1>2. PollMin * 1 = PollMin /\ \A n \in Nat : PollMin * n = n * PollMin
  BY PollAssumption
<1> QED
  BY <1>1, <1>2, Zenon DEF Doubled

\* One answer without work, with any hint, doubles the wait at least.
LEMMA BackoffDoubles ==
    ASSUME Backed, phase # "off", NEW hint \in Nat
    PROVE  LET next == NextBackoff(backoff, hint)
               idle == Smaller(3, tally.idle + 1)
           IN  Doubled(idle) <= next /\ next <= Larger(PollMin, PollMax)
<1> DEFINE next == NextBackoff(backoff, hint)
<1>1. /\ tally.idle \in 0..3 /\ backoff \in Nat
      /\ Doubled(tally.idle) <= backoff /\ backoff <= Larger(PollMin, PollMax)
  BY DEF Backed, Counts
<1>2. /\ next \in Nat /\ next >= Smaller(PollMax, 2 * backoff)
      /\ next <= Larger(PollMin, PollMax)
  BY <1>1, PollAssumption DEF NextBackoff, Smaller, Larger
<1>3. Smaller(3, 0 + 1) = 1 /\ Smaller(3, 1 + 1) = 2 /\ Smaller(3, 2 + 1) = 3
      /\ Smaller(3, 3 + 1) = 3
  BY DEF Smaller
<1>4. Doubled(Smaller(3, tally.idle + 1)) <= next
  <2> HIDE DEF next
  <2>1. CASE tally.idle = 0
    BY <1>1, <1>2, <1>3, <2>1, DoubledParts, PollAssumption DEF Smaller
  <2>2. CASE tally.idle = 1
    BY <1>1, <1>2, <1>3, <2>2, DoubledParts, PollAssumption DEF Smaller
  <2>3. CASE tally.idle = 2
    BY <1>1, <1>2, <1>3, <2>3, DoubledParts, PollAssumption DEF Smaller
  <2>4. CASE tally.idle = 3
    BY <1>1, <1>2, <1>3, <2>4, DoubledParts, PollAssumption DEF Smaller
  <2> QED
    BY <1>1, <2>1, <2>2, <2>3, <2>4
<1> QED
  BY <1>2, <1>4

\* No idle answer yet: the wait is the shortest one.
LEMMA FreshBackoff ==
    /\ PollMin \in Nat
    /\ Doubled(0) <= PollMin /\ PollMin <= Larger(PollMin, PollMax)
BY DoubledParts, PollAssumption DEF Smaller, Larger

LEMMA StepBacked == ProcessTypes' /\ Backed /\ [ProcessNext]_allVars => Backed'
<1> SUFFICES ASSUME ProcessTypes', Backed, [ProcessNext]_allVars
             PROVE  phase' # "off" => /\ Doubled(tally'.idle) <= backoff'
                                      /\ backoff' <= Larger(PollMin, PollMax)
  BY DEF ProcessTypes, Backed
<1>1. CASE backoff' = PollMin /\ tally'.idle = 0
  BY <1>1, FreshBackoff
<1>2. CASE backoff' = backoff /\ tally'.idle = tally.idle /\ (phase = "off" => phase' = "off")
  BY <1>2 DEF Backed
<1>3. CASE ClaimEmpty /\ options.wait
  <2>1. PICK hint \in Hints \union {0} : backoff' = NextBackoff(backoff, hint)
    BY <1>3 DEF ClaimEmpty
  <2>2. tally'.idle = Smaller(3, tally.idle + 1)
    BY <1>3 DEF ClaimEmpty, Backed, Counts
  <2>3. phase # "off"
    BY <1>3 DEF ClaimEmpty
  <2> QED
    BY <2>1, <2>2, <2>3, BackoffDoubles, PollAssumption
<1>4. CASE ClaimGranted
  <2>1. backoff' = PollMin
    BY <1>4 DEF ClaimGranted
  <2>2. tally'.idle = 0
    <3> DEFINE counted == [tally EXCEPT !.claimed = Smaller(2, @ + 1), !.idle = 0]
    <3>1. tally' = CountLate(counted) /\ counted.idle = 0
      BY <1>4 DEF ClaimGranted, Backed, Counts
    <3>2. DOMAIN counted = {"claimed", "late", "idle"}
      BY DEF Backed, Counts
    <3> HIDE DEF counted
    <3> QED
      BY <3>1, <3>2 DEF CountLate
  <2> QED
    BY <1>1, <2>1, <2>2
<1>5. CASE Start
  BY <1>1, <1>5 DEF Start, NoTally
<1>6. CASE ResumeAlive
  <2>1. backoff' = backoff /\ tally' = CountLate(tally) /\ phase # "off"
    BY <1>6 DEF ResumeAlive
  <2>2. tally'.idle = tally.idle
    BY <2>1 DEF CountLate, Backed, Counts
  <2> QED
    BY <1>2, <2>1, <2>2
<1>7. ASSUME ~Start, ~ResumeAlive, ~ClaimGranted, ~ClaimEmpty
      PROVE  UNCHANGED <<backoff, tally>> /\ (phase = "off" => phase' = "off")
  BY <1>7 DEF ProcessNext, StopRequested, Killed, ResumeLost, ResumeFails, ReportSent,
              ReportFails, ReportEscapes, ClaimFails, WaitElapses, WorkArrives,
              CaseGoesOn, CaseEnds, CaseEscapes, Elsewhere, LeftoverDone, Raises,
              allVars, processVars
<1>8. CASE ClaimEmpty /\ ~options.wait
  BY <1>8 DEF ClaimEmpty, Ended
<1> QED
  BY <1>2, <1>3, <1>4, <1>5, <1>6, <1>7, <1>8

\* While the queue stays empty the polls slow down at least as fast as doubling
\* would, and never beyond the longest wait, whatever the hints (_next_backoff).
THEOREM PollsDoSlowDown == ProcessSpec => []PollsSlowDown
<1>1. ProcessInit => Backed
  BY InitTypes, FreshBackoff DEF ProcessInit, ProcessTypes, Backed, NoTally
<1>2. ProcessTypes' /\ Backed /\ [ProcessNext]_allVars => Backed'
  BY StepBacked
<1>3. Backed => PollsSlowDown
  BY DEF Backed, PollsSlowDown, Doubled
<1>4. PInv => ProcessTypes
  BY DEF PInv
<1> QED
  BY <1>1, <1>2, <1>3, <1>4, ProcessInvariant, PTL DEF ProcessSpec
=============================================================================
