-------------------------- MODULE RunnerHttpProofs --------------------------
(***************************************************************************)
(* Proofs about RunnerHttp: what serving a well-formed request does to the *)
(* evidence of a case, and what the request is answered.  The module of    *)
(* the composed system builds on these facts alone.                        *)
(***************************************************************************)
EXTENDS RunnerHttp, ReferenceServerProofs

\* A request as http.py passes it on: its fields have been validated.
WellFormed(req) ==
    \/ req.op = "claim"
    \/ req.op = "heartbeat" /\ req.case \in Cases
    \/ /\ req.op = "turn" /\ req.case \in Cases /\ req.sequence \in Nat
       /\ req.key \in IdemKeys /\ req.output \in Outputs
    \/ /\ req.op = "complete" /\ req.case \in Cases /\ req.key \in IdemKeys
       /\ req.outcome \in Outcomes

\* The turn req is appended to the log of its case.
Appended(c, req) ==
    /\ req.op = "turn" /\ c = req.case /\ req.sequence = Len(cases[c].turns)
    /\ \A n \in DOMAIN cases[c].turns : cases[c].turns[n].idempotency_key # req.key
    /\ cases'[c].turns = Append(cases[c].turns,
          [sequence |-> req.sequence, idempotency_key |-> req.key, event |-> req.output,
           next_action |-> NextAction(c, req.sequence)])

\* The log of case c stays as it is, or grows by the turn req.
TurnsEffect(c, req) == cases'[c].turns = cases[c].turns \/ Appended(c, req)

\* The seal of case c stays as it is, or is the completion req.
SealEffect(c, req) ==
    \/ cases'[c].completion = cases[c].completion
    \/ /\ req.op = "complete" /\ c = req.case
       /\ cases[c].completion = None /\ cases'[c].completion.event = req.outcome
       /\ cases'[c].turns = cases[c].turns

Effect(req) == \A c \in Cases : TurnsEffect(c, req) /\ SealEffect(c, req)

LEMMA VerdictParts ==
    /\ \A k, c : Authorized(k, c) \in {"not_found", "forbidden", "ok"}
    /\ \A c, t : RequireLease(c, t) \in {"ok", "lease_expired", "lease_invalid"}
BY DEF Authorized, RequireLease

\* Expiring what is overdue leaves the evidence alone.
LEMMA ExpiryEffect ==
    ASSUME IInv, ExpireLeases, NEW req
    PROVE  Effect(req)
BY SettledInv DEF IInv, ExpireLeases, Effect, TurnsEffect, SealEffect

LEMMA HeartbeatEffect ==
    ASSUME IInv, NEW k, NEW c \in Cases, NEW t, Heartbeat(k, c, t), NEW req
    PROVE  Effect(req)
<1>1. StateInv(cases, leases) /\ Settled \in [Cases -> CaseRecord]
  BY SettledInv DEF IInv, StateInv
<1>2. CASE ExpireLeases
  BY <1>2, ExpiryEffect
<1>3. CASE cases' = [Settled EXCEPT ![c].left = LeaseTTL]
  <2>1. ASSUME NEW d \in Cases
        PROVE  /\ cases'[d].turns = Settled[d].turns
               /\ cases'[d].completion = Settled[d].completion
    BY <1>1, <1>3 DEF CaseRecord
  <2> QED
    BY <1>1, <2>1, SettledInv DEF Effect, TurnsEffect, SealEffect
<1> QED
  BY <1>2, <1>3 DEF Heartbeat

LEMMA SubmitEffect ==
    ASSUME IInv, NEW k, NEW req, WellFormed(req), req.op = "turn",
           SubmitTurn(k, req.case, req.lease, req.sequence, req.key, req.output)
    PROVE  IInv' /\ Effect(req)
<1>1. /\ req.case \in Cases /\ req.sequence \in Nat
      /\ req.key \in IdemKeys /\ req.output \in Outputs
  BY DEF WellFormed
<1>2. StateInv(cases, leases) /\ Settled \in [Cases -> CaseRecord]
  BY SettledInv DEF IInv, StateInv
<1>3. CASE ExpireLeases
  BY <1>2, <1>3, ExpiryEffect, ExpireLeasesInv DEF IInv, SubmitTurn
<1>4. CASE AcceptTurn(k, req.case, req.lease, req.sequence, req.key, req.output)
  <2>1. StateInv(cases', leases') /\ \A d \in Cases \ {req.case} : cases'[d] = Settled[d]
    BY <1>1, <1>2, <1>4, AcceptTurnInv
  <2>2. /\ Replayed(req.case, req.sequence, req.key) = {}
        /\ req.sequence = cases[req.case].expected_sequence
    BY <1>1, <1>4, TurnAccepted DEF AcceptTurn
  <2>3. cases[req.case].expected_sequence = Len(cases[req.case].turns)
    BY <1>1, <1>2 DEF StateInv, CaseInv, TurnsInv
  <2>4. \A n \in DOMAIN cases[req.case].turns :
           cases[req.case].turns[n].idempotency_key # req.key
    BY <2>2 DEF Replayed
  <2>5. /\ cases'[req.case].turns = Append(Settled[req.case].turns,
              [sequence |-> req.sequence, idempotency_key |-> req.key, event |-> req.output,
               next_action |-> NextAction(req.case, req.sequence)])
        /\ cases'[req.case].completion = Settled[req.case].completion
    BY <1>1, <1>2, <1>4 DEF AcceptTurn, CaseRecord
  <2>6. \A d \in Cases : /\ Settled[d].turns = cases[d].turns
                         /\ Settled[d].completion = cases[d].completion
    BY <1>2, SettledInv
  <2>7. Appended(req.case, req) /\ cases'[req.case].completion = cases[req.case].completion
    BY <1>1, <2>2, <2>3, <2>4, <2>5, <2>6 DEF Appended
  <2>8. Effect(req)
    BY <2>1, <2>6, <2>7 DEF Effect, TurnsEffect, SealEffect
  <2> QED
    BY <2>1, <2>8 DEF IInv, SubmitTurn
<1> QED
  BY <1>3, <1>4 DEF SubmitTurn

LEMMA CompleteEffect ==
    ASSUME IInv, NEW k, NEW req, WellFormed(req), req.op = "complete",
           Complete(k, req.case, req.lease, req.key, req.outcome)
    PROVE  IInv' /\ Effect(req)
<1>1. req.case \in Cases /\ req.key \in IdemKeys /\ req.outcome \in Outcomes
  BY DEF WellFormed
<1>2. StateInv(cases, leases) /\ Settled \in [Cases -> CaseRecord]
  BY SettledInv DEF IInv, StateInv
<1>3. CASE ExpireLeases
  BY <1>2, <1>3, ExpiryEffect, ExpireLeasesInv DEF IInv, Complete
<1>4. CASE AcceptCompletion(k, req.case, req.lease, req.key, req.outcome)
  <2>1. StateInv(cases', leases') /\ \A d \in Cases \ {req.case} : cases'[d] = Settled[d]
    BY <1>1, <1>2, <1>4, AcceptCompletionInv
  <2>2. /\ cases'[req.case].turns = Settled[req.case].turns
        /\ cases'[req.case].completion.event = req.outcome
    BY <1>1, <1>2, <1>4 DEF AcceptCompletion, CaseRecord
  <2>3. cases[req.case].completion = None
    BY <1>1, <1>4, CompletionAccepted DEF AcceptCompletion
  <2>4. Effect(req)
    BY <1>1, <1>2, <2>1, <2>2, <2>3, SettledInv DEF Effect, TurnsEffect, SealEffect
  <2> QED
    BY <2>1, <2>4 DEF IInv, Complete
<1> QED
  BY <1>3, <1>4 DEF Complete

LEMMA ClaimEffect ==
    ASSUME IInv, NEW k, NEW r \in Runners, Claim(k, r), NEW req
    PROVE  IInv' /\ Effect(req)
<1>1. StateInv(cases, leases) /\ Settled \in [Cases -> CaseRecord]
  BY SettledInv DEF IInv, StateInv
<1>2. CASE ExpireLeases /\ UNCHANGED <<keyState, queue>>
  BY <1>1, <1>2, ExpiryEffect, ExpireLeasesInv DEF IInv
<1>3. ASSUME NEW c \in Cases, GrantLease(k, r, c)
      PROVE  IInv' /\ Effect(req)
  BY <1>1, <1>3, GrantLeaseInv DEF IInv, GrantLease, Effect, TurnsEffect, SealEffect
<1> QED
  BY <1>2, <1>3 DEF Claim, ClaimExisting, NoWork

\* A request that is served keeps the orchestrator's invariant, and adds to the
\* evidence nothing but the turn or the completion it carries (http.py).
LEMMA ServesSafely ==
    ASSUME IInv, NEW k, NEW r \in Runners, NEW req, WellFormed(req), Serves(k, r, req)
    PROVE  IInv' /\ Effect(req)
<1>1. CASE Unauthenticated(k)
  <2>1. UNCHANGED <<keyState, queue, cases, leases>>
    BY <1>1 DEF Unauthenticated, vars
  <2>2. Effect(req)
    BY <2>1 DEF Effect, TurnsEffect, SealEffect
  <2>3. IInv'
    BY <2>1 DEF IInv, StateInv, CaseInv, HeldInv, TurnsInv, SealInv, OnePerRunner
  <2> QED
    BY <2>2, <2>3
<1>2. CASE req.op = "claim" /\ Claim(k, r)
  BY <1>2, ClaimEffect
<1>3. CASE req.op = "heartbeat" /\ Heartbeat(k, req.case, req.lease)
  <2>1. req.case \in Cases
    BY <1>3 DEF WellFormed
  <2>2. StateInv(cases', leases')
    BY <1>3, <2>1, HeartbeatInv, ExpireLeasesInv DEF IInv, Heartbeat
  <2> QED
    BY <1>3, <2>1, <2>2, HeartbeatEffect DEF IInv, Heartbeat
<1>4. CASE req.op = "turn"
           /\ SubmitTurn(k, req.case, req.lease, req.sequence, req.key, req.output)
  BY <1>4, SubmitEffect
<1>5. CASE req.op = "complete" /\ Complete(k, req.case, req.lease, req.key, req.outcome)
  BY <1>5, CompleteEffect
<1> QED
  BY <1>1, <1>2, <1>3, <1>4, <1>5 DEF Serves

\* The heartbeat of a beating task changes no evidence.
LEMMA BeatsSafely ==
    ASSUME IInv, NEW k, NEW c \in Cases, NEW t, Heartbeat(k, c, t), NEW req
    PROVE  IInv' /\ Effect(req)
<1>1. StateInv(cases', leases')
  BY HeartbeatInv, ExpireLeasesInv DEF IInv, Heartbeat
<1> QED
  BY <1>1, HeartbeatEffect DEF IInv, Heartbeat

LEMMA TicksSafely ==
    ASSUME IInv, Tick, NEW req
    PROVE  IInv' /\ Effect(req)
<1>1. StateInv(cases', leases')
  BY TickInv DEF IInv
<1>2. ASSUME NEW c \in Cases
      PROVE  cases'[c].turns = cases[c].turns /\ cases'[c].completion = cases[c].completion
  BY DEF IInv, StateInv, Tick, Aged, CaseRecord
<1> QED
  BY <1>1, <1>2 DEF IInv, Tick, Effect, TurnsEffect, SealEffect

-----------------------------------------------------------------------------
(* Answers *)

Success == {"leased", "no_work", "accepted", "replayed"}

\* A turn that succeeds has been recorded under its key or sequence number, and
\* is answered with what follows the turn recorded there.
LEMMA TurnAnswered ==
    ASSUME IInv, NEW k, NEW r \in Runners, NEW req, WellFormed(req), req.op = "turn",
           Serves(k, r, req), Reply(k, r, req).verdict \in Success
    PROVE  \E n \in DOMAIN cases'[req.case].turns :
              LET turn == cases'[req.case].turns[n] IN
              /\ turn.idempotency_key = req.key \/ turn.sequence = req.sequence
              /\ turn.sequence = n - 1
              /\ Reply(k, r, req).input = n
              /\ Reply(k, r, req).action = NextAction(req.case, n - 1)
<1>1. /\ req.case \in Cases /\ req.sequence \in Nat
      /\ req.key \in IdemKeys /\ req.output \in Outputs
  BY DEF WellFormed
<1> DEFINE c == req.case
           verdict == TurnVerdict(k, c, req.lease, req.sequence, req.key)
<1>2. Authentic(k) /\ Reply(k, r, req) = TurnReply(k, req)
  BY DEF Reply, Success
<1>3. SubmitTurn(k, c, req.lease, req.sequence, req.key, req.output)
  BY <1>2 DEF Serves, Unauthenticated
<1>4. TurnReply(k, req).verdict = verdict
  BY DEF TurnReply
<1>5. verdict \in {"accepted", "replayed"}
  BY <1>2, <1>4, VerdictParts DEF TurnVerdict, Success
<1>6. CASE verdict = "accepted"
  <2>1. /\ TurnReply(k, req).input = req.sequence + 1
        /\ TurnReply(k, req).action = NextAction(c, req.sequence)
    BY <1>6 DEF TurnReply
  <2>2. AcceptTurn(k, c, req.lease, req.sequence, req.key, req.output)
    BY <1>3, <1>6 DEF SubmitTurn
  <2>3. StateInv(cases, leases) /\ Settled \in [Cases -> CaseRecord]
    BY SettledInv DEF IInv, StateInv
  <2>4. req.sequence = cases[c].expected_sequence
    BY <1>1, <1>6, TurnAccepted
  <2>5. cases[c].expected_sequence = Len(cases[c].turns) /\ cases[c].turns \in Seq(TurnRecord)
    BY <1>1, <2>3 DEF StateInv, CaseInv, TurnsInv, CaseRecord
  <2> DEFINE turn == [sequence |-> req.sequence, idempotency_key |-> req.key,
                      event |-> req.output, next_action |-> NextAction(c, req.sequence)]
  <2>6. cases'[c].turns = Append(cases[c].turns, turn)
    <3>1. cases'[c].turns = Append(Settled[c].turns, turn)
      BY <1>1, <2>2, <2>3 DEF AcceptTurn, CaseRecord
    <3> QED
      BY <1>1, <2>3, <3>1, SettledInv
  <2> DEFINE m == req.sequence + 1
  <2>7. m \in DOMAIN cases'[c].turns /\ cases'[c].turns[m] = turn
    <3> HIDE DEF turn
    <3> QED
      BY <1>1, <2>4, <2>5, <2>6
  <2>8. turn.sequence = m - 1 /\ turn.sequence = req.sequence /\ m - 1 = req.sequence
    BY <1>1
  <2> QED
    BY <1>2, <2>1, <2>7, <2>8
<1>7. CASE verdict = "replayed"
  <2>1. Replayed(c, req.sequence, req.key) # {}
    BY <1>7, VerdictParts DEF TurnVerdict
  <2>2. PICK n \in Replayed(c, req.sequence, req.key) :
           TurnReply(k, req) = [verdict |-> "replayed", input |-> cases[c].turns[n].sequence + 1,
                                action |-> cases[c].turns[n].next_action]
    BY <1>7, <2>1 DEF TurnReply
  <2>3. /\ n \in DOMAIN cases[c].turns
        /\ \/ cases[c].turns[n].idempotency_key = req.key
           \/ cases[c].turns[n].sequence = req.sequence
    BY DEF Replayed
  <2>4. StateInv(cases, leases) /\ cases[c].turns \in Seq(TurnRecord)
    BY <1>1 DEF IInv, StateInv, CaseRecord
  <2>5. /\ cases[c].turns[n].sequence = n - 1
        /\ cases[c].turns[n].next_action = NextAction(c, n - 1)
    BY <1>1, <2>3, <2>4 DEF StateInv, CaseInv, TurnsInv
  <2>6. cases'[c].turns = cases[c].turns
    <3>1. ExpireLeases
      BY <1>3, <1>7 DEF SubmitTurn, AcceptTurn
    <3> QED
      BY <1>1, <2>4, <3>1, SettledInv DEF ExpireLeases
  <2>7. n \in Nat
    BY <2>3, <2>4
  <2> QED
    BY <1>2, <2>2, <2>3, <2>5, <2>6, <2>7
<1> QED
  BY <1>5, <1>6, <1>7

\* A claim that succeeds with a lease names a case and its lease.
LEMMA ClaimAnswered ==
    ASSUME IInv, NEW k, NEW r \in Runners, NEW req, req.op = "claim",
           Serves(k, r, req), Reply(k, r, req).verdict = "leased"
    PROVE  Reply(k, r, req).case \in Cases /\ Reply(k, r, req).lease \in Nat \ {0}
<1>1. Authentic(k) /\ Reply(k, r, req) = ClaimReply(k, r)
  BY DEF Reply
<1>2. Claim(k, r)
  BY <1>1 DEF Serves, Unauthenticated
<1>3. StateInv(cases, leases) /\ Settled \in [Cases -> CaseRecord] /\ leases \in Seq(Lease)
  BY SettledInv DEF IInv, StateInv
<1> DEFINE held == ActiveCases(r, KeyProject[k])
           waiting == QueuedCases(KeyProject[k])
           found(S) == CHOOSE c \in S : First(c, S)
<1>4. CASE held # {}
  <2>1. \E c \in Cases : ClaimExisting(k, r, c) \/ GrantLease(k, r, c)
    BY <1>2, <1>4 DEF Claim, NoWork
  <2>2. found(held) \in held
    <3>1. \E c \in held : First(c, held)
      BY <1>4, <2>1 DEF ClaimExisting, GrantLease, First
    <3> QED
      BY <3>1
  <2>3. ClaimReply(k, r) = [verdict |-> "leased", case |-> found(held),
                            lease |-> cases[found(held)].lease]
    BY <1>4 DEF ClaimReply
  <2>4. found(held) \in Cases /\ Settled[found(held)].lease # 0
    BY <2>2 DEF ActiveCases
  <2>5. cases[found(held)].lease \in Nat \ {0}
    <3>1. Settled[found(held)] = cases[found(held)]
      BY <1>3, <2>4, SettledInv
    <3>2. Settled[found(held)].lease \in Nat
      BY <1>3, <2>4 DEF CaseRecord
    <3> QED
      BY <2>4, <3>1, <3>2
  <2> HIDE DEF found, held
  <2> QED
    BY <1>1, <2>3, <2>4, <2>5
<1>5. CASE held = {} /\ waiting # {}
  <2>1. \E c \in Cases : ClaimExisting(k, r, c) \/ GrantLease(k, r, c)
    BY <1>2, <1>5 DEF Claim, NoWork
  <2>2. found(waiting) \in waiting
    <3>1. \A c : ~ClaimExisting(k, r, c)
      BY <1>5 DEF ClaimExisting, First
    <3>2. \E c \in waiting : First(c, waiting)
      BY <2>1, <3>1 DEF GrantLease, First
    <3> QED
      BY <3>2
  <2>3. ClaimReply(k, r) = [verdict |-> "leased", case |-> found(waiting),
                            lease |-> Len(leases) + 1]
    BY <1>5 DEF ClaimReply
  <2>4. found(waiting) \in Cases
    <3>1. waiting \subseteq Cases
      BY DEF QueuedCases
    <3> HIDE DEF found, waiting
    <3> QED
      BY <2>2, <3>1
  <2>5. Len(leases) + 1 \in Nat \ {0}
    BY <1>3
  <2> HIDE DEF found, waiting
  <2> QED
    BY <1>1, <2>3, <2>4, <2>5
<1>6. CASE held = {} /\ waiting = {}
  BY <1>1, <1>6 DEF ClaimReply
<1> QED
  BY <1>4, <1>5, <1>6

-----------------------------------------------------------------------------
(* What is never undone, and when a request is refused *)

\* Cases that have been enqueued.
Known(records) == {c \in Cases : records[c].status # "absent"}

LEMMA SettledKnown ==
    ASSUME IInv
    PROVE  Known(Settled) = Known(cases) /\ Settled \in [Cases -> CaseRecord]
<1>1. StateInv(cases, leases) /\ StateInv(Settled, leases)
  BY SettledInv DEF IInv
<1>2. ASSUME NEW c \in Cases
      PROVE  Settled[c].status = "absent" <=> cases[c].status = "absent"
  <2>1. cases[c] \in CaseRecord
    BY <1>1 DEF StateInv
  <2>2. ExpireOne(cases[c]).status = "absent" <=> cases[c].status = "absent"
    BY <2>1, ExpireOneType
  <2> QED
    BY <2>2 DEF Settled
<1> QED
  BY <1>1, <1>2 DEF Known, StateInv

LEMMA BeatsKeep ==
    ASSUME IInv, NEW k, NEW c \in Cases, NEW t, Heartbeat(k, c, t)
    PROVE  Known(cases) \subseteq Known(cases') /\ keyState' = keyState
<1>1. CASE ExpireLeases
  BY <1>1, SettledKnown DEF ExpireLeases, Heartbeat
<1>2. CASE cases' = [Settled EXCEPT ![c].left = LeaseTTL]
  <2>1. \A d \in Cases : cases'[d].status = Settled[d].status
    BY <1>2, SettledKnown DEF CaseRecord
  <2> QED
    BY <2>1, SettledKnown DEF Known, Heartbeat
<1> QED
  BY <1>1, <1>2 DEF Heartbeat

\* No request makes the orchestrator forget a case or issue or revoke a key.
LEMMA ServesKeep ==
    ASSUME IInv, NEW k, NEW r \in Runners, NEW req, WellFormed(req), Serves(k, r, req)
    PROVE  Known(cases) \subseteq Known(cases') /\ keyState' = keyState
<1>1. keyState' = keyState
  BY DEF Serves, Unauthenticated, vars, Claim, ClaimExisting, GrantLease, NoWork, Heartbeat,
         SubmitTurn, Complete
<1>2. CASE Unauthenticated(k)
  BY <1>2 DEF Unauthenticated, vars
<1>3. CASE ExpireLeases
  BY <1>1, <1>3, SettledKnown DEF ExpireLeases
<1>4. ASSUME NEW c \in Cases, GrantLease(k, r, c)
      PROVE  Known(cases) \subseteq Known(cases')
  <2>1. cases' = [Settled EXCEPT ![c] = Granted(Settled[c], r, Len(leases) + 1)]
    BY <1>4 DEF GrantLease
  <2>2. Granted(Settled[c], r, Len(leases) + 1).status = "leased"
    BY SettledKnown DEF Granted, CaseRecord
  <2>3. \A d \in Cases : d # c => cases'[d] = Settled[d]
    BY <2>1, SettledKnown
  <2>4. cases'[c].status = "leased"
    BY <2>1, <2>2, SettledKnown
  <2> QED
    BY <2>3, <2>4, SettledKnown DEF Known
<1>5. CASE req.op = "heartbeat" /\ Heartbeat(k, req.case, req.lease)
  BY <1>5, BeatsKeep DEF WellFormed
<1>6. CASE /\ req.op = "turn"
           /\ AcceptTurn(k, req.case, req.lease, req.sequence, req.key, req.output)
  <2>1. req.case \in Cases
    BY <1>6 DEF WellFormed
  <2>2. /\ cases'[req.case].status = "running"
        /\ \A d \in Cases : d # req.case => cases'[d] = Settled[d]
    BY <1>6, <2>1, SettledKnown DEF AcceptTurn, CaseRecord
  <2> QED
    BY <1>1, <2>2, SettledKnown DEF Known
<1>7. CASE /\ req.op = "complete"
           /\ AcceptCompletion(k, req.case, req.lease, req.key, req.outcome)
  <2>1. req.case \in Cases
    BY <1>7 DEF WellFormed
  <2>2. /\ cases'[req.case].status = FinalStatus(req.outcome)
        /\ \A d \in Cases : d # req.case => cases'[d] = Settled[d]
    BY <1>7, <2>1, SettledKnown DEF AcceptCompletion, CaseRecord
  <2> QED
    BY <1>1, <2>2, SettledKnown DEF Known, FinalStatus
<1> QED
  BY <1>1, <1>2, <1>3, <1>4, <1>5, <1>6, <1>7
     DEF Serves, Claim, ClaimExisting, NoWork, SubmitTurn, Complete

\* The key is active, and the case it asks for is known and of its project.
Entitled(k, req) ==
    /\ Authentic(k) /\ req.case \in Known(cases)
    /\ ProjectOf[req.case] = KeyProject[k]

LEMMA EntitledAuthorized ==
    ASSUME IInv, NEW k, NEW req, Entitled(k, req)
    PROVE  Authorized(k, req.case) = "ok"
BY SettledKnown DEF Entitled, Authorized, Known

Lost == {"lease_expired", "lease_invalid"}

\* A turn that is not beyond the cursor is refused for want of a lease, or
\* because its case is sealed, and for nothing else.
LEMMA TurnRefused ==
    ASSUME IInv, NEW k, NEW r, NEW req, WellFormed(req), req.op = "turn", Entitled(k, req),
           req.sequence <= Len(cases[req.case].turns),
           Reply(k, r, req).verdict \notin Success \union Lost
    PROVE  cases[req.case].completion # None
<1> DEFINE c == req.case
           verdict == TurnVerdict(k, c, req.lease, req.sequence, req.key)
<1>1. c \in Cases /\ req.sequence \in Nat
  BY DEF WellFormed
<1>2. Reply(k, r, req).verdict = verdict
  BY DEF Reply, TurnReply, Entitled
<1>3. Authorized(k, c) = "ok"
  BY EntitledAuthorized
<1>4. RequireLease(c, req.lease) = "ok"
  BY <1>2, <1>3, VerdictParts DEF TurnVerdict, Lost
<1>5. CASE Settled[c].status \in Terminal
  <2>1. CaseInv(c, Settled[c], leases) /\ Settled[c].completion = cases[c].completion
    BY <1>1, SettledInv DEF IInv, StateInv
  <2> QED
    BY <1>5, <2>1 DEF CaseInv, SealInv
<1>6. CASE Settled[c].status \notin Terminal
  <2>1. Replayed(c, req.sequence, req.key) = {} /\ req.sequence # cases[c].expected_sequence
    BY <1>2, <1>3, <1>4, <1>6 DEF TurnVerdict, Success
  <2>2. /\ cases[c].expected_sequence = Len(cases[c].turns)
        /\ \A n \in DOMAIN cases[c].turns : cases[c].turns[n].sequence = n - 1
        /\ cases[c].turns \in Seq(TurnRecord)
    BY <1>1 DEF IInv, StateInv, CaseInv, TurnsInv, CaseRecord
  <2>3. req.sequence + 1 \in DOMAIN cases[c].turns
    BY <1>1, <2>1, <2>2
  <2>4. req.sequence + 1 \in Replayed(c, req.sequence, req.key)
        \/ Replayed(c, req.sequence, req.key) # {}
    BY <1>1, <2>2, <2>3 DEF Replayed
  <2> QED
    BY <2>1, <2>4
<1> QED
  BY <1>5, <1>6

\* Once a completion has been answered otherwise than by a lost lease, its case
\* is sealed.
LEMMA CompletionAnswered ==
    ASSUME IInv, NEW k, NEW r \in Runners, NEW req, WellFormed(req), req.op = "complete",
           Entitled(k, req), Serves(k, r, req), Reply(k, r, req).verdict \notin Lost
    PROVE  cases'[req.case].completion # None
<1> DEFINE c == req.case
           verdict == CompleteVerdict(k, c, req.lease, req.key)
<1>1. c \in Cases /\ req.key \in IdemKeys /\ req.outcome \in Outcomes
  BY DEF WellFormed
<1>2. Reply(k, r, req).verdict = verdict
  BY DEF Reply, Entitled
<1>3. Authorized(k, c) = "ok"
  BY EntitledAuthorized
<1>4. Complete(k, c, req.lease, req.key, req.outcome)
  BY DEF Serves, Unauthenticated, Entitled
<1>5. CASE cases[c].completion # None
  BY <1>1, <1>5, ServesSafely DEF Effect, SealEffect
<1>6. CASE cases[c].completion = None
  <2>1. verdict = "accepted"
    BY <1>2, <1>3, <1>6, VerdictParts DEF CompleteVerdict, Lost
  <2>2. AcceptCompletion(k, c, req.lease, req.key, req.outcome)
    BY <1>4, <2>1 DEF Complete
  <2>3. cases'[c].completion \in CompletionRecord
    BY <1>1, <2>2, SettledKnown DEF AcceptCompletion, CaseRecord, CompletionRecord
  <2> QED
    BY <2>3, NoneAssumption
<1> QED
  BY <1>5, <1>6
-----------------------------------------------------------------------------
(* Leases *)

\* Lease t was granted to runner r for case c.
Named(r, c, t) ==
    /\ t \in DOMAIN leases
    /\ leases[t].case_execution_id = c /\ leases[t].runner_id = r

\* No lease is forgotten or changes hands.
TableKept ==
    \A t \in DOMAIN leases :
       /\ t \in DOMAIN leases'
       /\ leases'[t].case_execution_id = leases[t].case_execution_id
       /\ leases'[t].runner_id = leases[t].runner_id

\* Case c keeps its lease, loses it, or is granted a new one; a case that holds
\* no lease is not sealed.
LeaseMoves(c) ==
    /\ cases'[c].lease \in {0, cases[c].lease} \/ cases'[c].lease \notin DOMAIN leases
    /\ cases'[c].completion = cases[c].completion \/ cases[c].lease # 0

LeaseStep == TableKept /\ \A c \in Cases : LeaseMoves(c)

LEMMA SettledParts ==
    ASSUME IInv
    PROVE  /\ Settled \in [Cases -> CaseRecord] /\ SettledLeases = leases
           /\ leases \in Seq(Lease)
           /\ \A c \in Cases : /\ Settled[c].lease \in {0, cases[c].lease}
                              /\ Settled[c].completion = cases[c].completion
                              /\ Settled[c].turns = cases[c].turns
BY SettledInv, SettledLeasesSame DEF IInv, StateInv

LEMMA ExpiryLeases ==
    ASSUME IInv, ExpireLeases
    PROVE  LeaseStep
BY SettledParts DEF ExpireLeases, LeaseStep, TableKept, LeaseMoves

LEMMA BeatsLeases ==
    ASSUME IInv, NEW k, NEW c \in Cases, NEW t, Heartbeat(k, c, t)
    PROVE  LeaseStep
<1>1. CASE cases' = [Settled EXCEPT ![c].left = LeaseTTL] /\ leases' = SettledLeases
  <2>1. \A d \in Cases : /\ cases'[d].lease = Settled[d].lease
                         /\ cases'[d].completion = Settled[d].completion
    BY <1>1, SettledParts DEF CaseRecord
  <2> QED
    BY <1>1, <2>1, SettledParts DEF LeaseStep, TableKept, LeaseMoves
<1> QED
  BY <1>1, ExpiryLeases DEF Heartbeat

LEMMA TicksLeases ==
    ASSUME IInv, Tick
    PROVE  LeaseStep
<1>1. \A d \in Cases : /\ cases'[d].lease = cases[d].lease
                       /\ cases'[d].completion = cases[d].completion
  BY DEF Tick, Aged, IInv, StateInv, CaseRecord
<1> QED
  BY <1>1 DEF LeaseStep, TableKept, LeaseMoves, Tick

\* What granting a lease adds to the table.
LEMMA GrantParts ==
    ASSUME IInv, NEW k, NEW r, NEW c \in Cases, GrantLease(k, r, c)
    PROVE  /\ LeaseStep
           /\ Len(leases) + 1 \notin DOMAIN leases
           /\ cases'[c].lease = Len(leases) + 1
           /\ \E t : t = Len(leases) + 1 /\ Named(r, c, t)'
<1> DEFINE lease == [runner_id |-> r, case_execution_id |-> c, superseded |-> FALSE]
<1>1. leases' = Append(Superseding(c), lease)
  BY DEF GrantLease
<1>2. ASSUME NEW t \in DOMAIN leases
      PROVE  /\ Superseding(c)[t].case_execution_id = leases[t].case_execution_id
             /\ Superseding(c)[t].runner_id = leases[t].runner_id
  <2>1. leases[t] \in Lease
    BY SettledParts
  <2> QED
    BY <2>1, SettledParts DEF Superseding, Lease
<1>3. DOMAIN Superseding(c) = 1..Len(leases) /\ Len(leases) \in Nat
      /\ DOMAIN leases = 1..Len(leases)
  BY SettledParts DEF Superseding
<1>4. /\ DOMAIN leases' = 1..(Len(leases) + 1)
      /\ \A t \in 1..Len(leases) : leases'[t] = Superseding(c)[t]
      /\ leases'[Len(leases) + 1] = lease
  <2>1. Superseding(c) = [t \in 1..Len(leases) |-> Superseding(c)[t]]
    BY <1>3 DEF Superseding
  <2>2. Superseding(c) \in Seq({Superseding(c)[t] : t \in 1..Len(leases)})
    BY <1>3, <2>1
  <2>3. Len(Superseding(c)) = Len(leases)
    BY <1>3, <2>2
  <2> HIDE DEF lease
  <2> QED
    BY <1>1, <1>3, <2>2, <2>3
<1>5. TableKept
  BY <1>2, <1>3, <1>4 DEF TableKept
<1>6. cases' = [Settled EXCEPT ![c] = Granted(Settled[c], r, Len(leases) + 1)]
  BY DEF GrantLease
<1>7. \A d \in Cases \ {c} : cases'[d] = Settled[d]
  BY <1>6, SettledParts
<1>8. /\ cases'[c].lease = Len(leases) + 1
      /\ cases'[c].completion = Settled[c].completion
  BY <1>6, SettledParts DEF Granted, CaseRecord
<1>9. Len(leases) + 1 \notin DOMAIN leases
  BY <1>3
<1>10. LeaseStep
  BY <1>5, <1>7, <1>8, <1>9, SettledParts DEF LeaseStep, LeaseMoves
<1>11. \E t : t = Len(leases) + 1 /\ Named(r, c, t)'
  <2>1. PICK t : t = Len(leases) + 1
    OBVIOUS
  <2>2. t \in DOMAIN leases' /\ leases'[t] = lease
    BY <1>3, <1>4, <2>1
  <2>3. lease.case_execution_id = c /\ lease.runner_id = r
    OBVIOUS
  <2>4. Named(r, c, t)'
    BY <2>2, <2>3 DEF Named
  <2> QED
    BY <2>1, <2>4
<1> QED
  BY <1>8, <1>9, <1>10, <1>11

\* Serving a request forgets no lease, and puts a case under another lease only
\* by granting a new one.
LEMMA ServesLeases ==
    ASSUME IInv, NEW k, NEW r \in Runners, NEW req, WellFormed(req), Serves(k, r, req)
    PROVE  LeaseStep
<1>1. CASE Unauthenticated(k)
  BY <1>1 DEF Unauthenticated, vars, LeaseStep, TableKept, LeaseMoves
<1>2. CASE ExpireLeases
  BY <1>2, ExpiryLeases
<1>3. ASSUME NEW c \in Cases, GrantLease(k, r, c)
      PROVE  LeaseStep
  BY <1>3, GrantParts
<1>4. CASE req.op = "heartbeat" /\ Heartbeat(k, req.case, req.lease)
  BY <1>4, BeatsLeases DEF WellFormed
<1>5. CASE /\ req.op = "turn"
           /\ AcceptTurn(k, req.case, req.lease, req.sequence, req.key, req.output)
  <2>1. req.case \in Cases
    BY <1>5 DEF WellFormed
  <2>2. \A d \in Cases : /\ cases'[d].lease = Settled[d].lease
                         /\ cases'[d].completion = Settled[d].completion
    BY <1>5, <2>1, SettledParts DEF AcceptTurn, CaseRecord
  <2> QED
    BY <1>5, <2>2, SettledParts DEF AcceptTurn, LeaseStep, TableKept, LeaseMoves
<1>6. CASE /\ req.op = "complete"
           /\ AcceptCompletion(k, req.case, req.lease, req.key, req.outcome)
  <2>1. req.case \in Cases
    BY <1>6 DEF WellFormed
  <2>2. /\ cases'[req.case].lease = 0
        /\ \A d \in Cases \ {req.case} : cases'[d] = Settled[d]
    BY <1>6, <2>1, SettledParts DEF AcceptCompletion, CaseRecord
  <2>3. Settled[req.case].lease # 0
    BY <1>6, <2>1, CompletionAccepted, LeaseInForce DEF AcceptCompletion
  <2>4. leases' = [leases EXCEPT ![req.lease].superseded = TRUE]
    BY <1>6, SettledParts DEF AcceptCompletion
  <2>5. ASSUME NEW s \in DOMAIN leases
        PROVE  /\ s \in DOMAIN leases'
               /\ leases'[s].case_execution_id = leases[s].case_execution_id
               /\ leases'[s].runner_id = leases[s].runner_id
    <3>1. leases[s] \in Lease
      BY SettledParts
    <3> QED
      BY <2>4, <3>1 DEF Lease
  <2> QED
    BY <2>1, <2>2, <2>3, <2>5, SettledParts DEF LeaseStep, TableKept, LeaseMoves
<1> QED
  BY <1>1, <1>2, <1>3, <1>4, <1>5, <1>6
     DEF Serves, Claim, ClaimExisting, NoWork, SubmitTurn, Complete

\* A runner that is told its lease is lost no longer holds the case by it; a
\* completion so refused leaves the case open.
LEMMA LostAnswered ==
    ASSUME IInv, NEW k, NEW r \in Runners, NEW req, WellFormed(req), Serves(k, r, req),
           req.op # "claim", req.lease # 0, Reply(k, r, req).verdict \in Lost
    PROVE  /\ cases'[req.case].lease # req.lease
           /\ req.op = "complete" => cases'[req.case].completion = None
<1> DEFINE c == req.case
<1>1. c \in Cases
  BY DEF WellFormed
<1>2. Authentic(k)
  BY DEF Reply, Lost
<1>3. ASSUME ExpireLeases, RequireLease(c, req.lease) # "ok"
      PROVE  cases'[c].lease # req.lease
  BY <1>1, <1>3 DEF ExpireLeases, RequireLease
<1>4. CASE req.op = "heartbeat"
  <2>1. HeartbeatVerdict(k, c, req.lease) \in Lost
    BY <1>2, <1>4 DEF Reply
  <2>2. RequireLease(c, req.lease) # "ok"
    BY <2>1, VerdictParts DEF HeartbeatVerdict, Lost
  <2>3. ExpireLeases
    BY <1>2, <1>4, <2>1 DEF Serves, Unauthenticated, Heartbeat, Lost
  <2> QED
    BY <1>3, <1>4, <2>2, <2>3
<1>5. CASE req.op = "turn"
  <2>1. TurnVerdict(k, c, req.lease, req.sequence, req.key) \in Lost
    BY <1>2, <1>5 DEF Reply, TurnReply
  <2>2. RequireLease(c, req.lease) # "ok"
    BY <2>1, VerdictParts DEF TurnVerdict, Lost
  <2>3. ExpireLeases
    BY <1>2, <1>5, <2>1 DEF Serves, Unauthenticated, SubmitTurn, AcceptTurn, Lost
  <2> QED
    BY <1>3, <1>5, <2>2, <2>3
<1>6. CASE req.op = "complete"
  <2>1. CompleteVerdict(k, c, req.lease, req.key) \in Lost
    BY <1>2, <1>6 DEF Reply
  <2>2. RequireLease(c, req.lease) # "ok" /\ cases[c].completion = None
    BY <2>1, VerdictParts DEF CompleteVerdict, Lost
  <2>3. ExpireLeases
    BY <1>2, <1>6, <2>1 DEF Serves, Unauthenticated, Complete, AcceptCompletion, Lost
  <2>4. cases'[c].completion = None
    BY <1>1, <2>2, <2>3, SettledParts DEF ExpireLeases
  <2> QED
    BY <1>3, <2>2, <2>3, <2>4
<1> QED
  BY <1>4, <1>5, <1>6 DEF WellFormed

\* A completion that succeeds seals its case.
LEMMA SealAnswered ==
    ASSUME IInv, NEW k, NEW r \in Runners, NEW req, WellFormed(req), Serves(k, r, req),
           req.op = "complete", Reply(k, r, req).verdict \in Success
    PROVE  cases'[req.case].completion # None
<1> DEFINE c == req.case
<1>1. c \in Cases /\ req.key \in IdemKeys /\ req.outcome \in Outcomes
  BY DEF WellFormed
<1>2. Authentic(k)
  BY DEF Reply, Success
<1>3. CompleteVerdict(k, c, req.lease, req.key) \in {"accepted", "replayed"}
  BY <1>2, VerdictParts DEF Reply, CompleteVerdict, Success
<1>4. CASE cases[c].completion # None
  BY <1>1, <1>4, ServesSafely DEF Effect, SealEffect
<1>5. CASE cases[c].completion = None
  <2>1. CompleteVerdict(k, c, req.lease, req.key) = "accepted"
    BY <1>3, <1>5, VerdictParts DEF CompleteVerdict
  <2>2. AcceptCompletion(k, c, req.lease, req.key, req.outcome)
    BY <1>2, <2>1 DEF Serves, Unauthenticated, Complete
  <2>3. cases'[c].completion \in CompletionRecord
    BY <1>1, <2>2, SettledKnown DEF AcceptCompletion, CaseRecord, CompletionRecord
  <2> QED
    BY <2>3, NoneAssumption
<1> QED
  BY <1>4, <1>5

\* A heartbeat succeeds only under the lease that the case is held by.
LEMMA BeatAnswered ==
    ASSUME IInv, NEW k, NEW r \in Runners, NEW req, WellFormed(req), Serves(k, r, req),
           req.op = "heartbeat", Reply(k, r, req).verdict \in Success
    PROVE  cases[req.case].lease = req.lease /\ req.lease # 0
<1>1. req.case \in Cases
  BY DEF WellFormed
<1>2. HeartbeatVerdict(k, req.case, req.lease) = "accepted"
  BY VerdictParts DEF Reply, Success, HeartbeatVerdict
<1>3. Settled[req.case].lease = req.lease /\ req.lease # 0
  BY <1>1, <1>2, HeartbeatAccepted, LeaseInForce
<1> QED
  BY <1>1, <1>3, SettledParts

\* At most one member of a set is the first in the queue.
LEMMA FirstUnique ==
    ASSUME IInv, NEW S, NEW c, First(c, S), NEW d, First(d, S)
    PROVE  c = d
<1>1. DOMAIN queue \subseteq Nat
  BY DEF IInv
<1>2. PICK n \in DOMAIN queue : queue[n] = c /\ \A m \in DOMAIN queue : m < n => queue[m] \notin S
  BY DEF First
<1>3. PICK m \in DOMAIN queue : queue[m] = d /\ \A l \in DOMAIN queue : l < m => queue[l] \notin S
  BY DEF First
<1>4. ~(n < m) /\ ~(m < n)
  BY <1>2, <1>3 DEF First
<1>5. n = m
  BY <1>1, <1>4
<1> QED
  BY <1>2, <1>3, <1>5

\* A claim is answered with the lease its runner holds, or with one that was
\* granted to it now.
LEMMA LeaseAnswered ==
    ASSUME IInv, NEW k, NEW r \in Runners, NEW req, req.op = "claim",
           Serves(k, r, req), Reply(k, r, req).verdict = "leased",
           NEW c, c = Reply(k, r, req).case, NEW t, t = Reply(k, r, req).lease
    PROVE  /\ Named(r, c, t)'
           /\ \/ t \notin DOMAIN leases
              \/ t # 0 /\ cases[c].lease = t /\ Named(r, c, t)
<1>1. Authentic(k) /\ Reply(k, r, req) = ClaimReply(k, r)
  BY DEF Reply
<1>2. Claim(k, r)
  BY <1>1 DEF Serves, Unauthenticated
<1> DEFINE held == ActiveCases(r, KeyProject[k])
           waiting == QueuedCases(KeyProject[k])
           found(S) == CHOOSE d \in S : First(d, S)
<1>4. CASE held # {}
  <2>1. \E d \in Cases : ClaimExisting(k, r, d)
    BY <1>2, <1>4 DEF Claim, NoWork, GrantLease
  <2>2. found(held) \in held
    <3>1. \E d \in held : First(d, held)
      BY <2>1 DEF ClaimExisting, First
    <3> QED
      BY <3>1
  <2>3. ClaimReply(k, r) = [verdict |-> "leased", case |-> found(held),
                            lease |-> cases[found(held)].lease]
    BY <1>4 DEF ClaimReply
  <2>4. c = found(held) /\ t = cases[c].lease
    <3> HIDE DEF found, held
    <3> QED
      BY <1>1, <2>3
  <2>5. /\ c \in Cases /\ Settled[c].lease # 0
        /\ SettledLeases[Settled[c].lease].runner_id = r
    BY <2>2, <2>4 DEF ActiveCases
  <2>6. /\ Settled[c].lease = cases[c].lease /\ SettledLeases = leases
        /\ HeldInv(c, cases[c], leases)
    BY <2>5, SettledParts DEF IInv, StateInv, CaseInv
  <2>7. Named(r, c, t) /\ t # 0
    BY <2>4, <2>5, <2>6 DEF Named, HeldInv
  <2>8. leases' = leases
    BY <2>1, <2>6 DEF ClaimExisting, ExpireLeases
  <2> QED
    BY <2>4, <2>7, <2>8 DEF Named
<1>5. CASE held = {} /\ waiting # {}
  <2>1. PICK d \in Cases : GrantLease(k, r, d)
    BY <1>2, <1>5 DEF Claim, NoWork, ClaimExisting, First
  <2>2. d \in waiting /\ First(d, waiting)
    BY <2>1 DEF GrantLease, First
  <2>3. found(waiting) = d
    BY <2>2, FirstUnique
  <2>4. ClaimReply(k, r) = [verdict |-> "leased", case |-> found(waiting),
                            lease |-> Len(leases) + 1]
    BY <1>5 DEF ClaimReply
  <2>5. c = d /\ t = Len(leases) + 1
    <3> HIDE DEF found, waiting
    <3> QED
      BY <1>1, <2>3, <2>4
  <2> QED
    BY <2>1, <2>5, GrantParts
<1>6. CASE held = {} /\ waiting = {}
  BY <1>1, <1>6 DEF ClaimReply
<1> QED
  BY <1>4, <1>5, <1>6
=============================================================================
