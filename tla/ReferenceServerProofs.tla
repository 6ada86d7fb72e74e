----------------------- MODULE ReferenceServerProofs -----------------------
(***************************************************************************)
(* Proofs about the orchestrator, for any number of cases, runners, keys   *)
(* and projects, any scripts, any LEASE_TTL, and without regard to the     *)
(* bounds of the model-checked instances.                                  *)
(*                                                                         *)
(* The invariants of ReferenceServer speak of one case and the lease table *)
(* at a time.  They are restated here for an arbitrary case record and     *)
(* table, so that they can be claimed of the settled state in the middle   *)
(* of a handler as well as of the states at its ends.                      *)
(***************************************************************************)
EXTENDS ReferenceServer, TLAPS

USE DEF Held, Terminal

HeldInv(c, record, table) ==
    /\ record.lease # 0 <=> record.status \in Held
    /\ record.lease # 0 =>
         /\ record.lease \in DOMAIN table
         /\ table[record.lease].case_execution_id = c
         /\ table[record.lease].runner_id = record.claimed_by
         /\ \A t \in DOMAIN table :
               table[t].case_execution_id = c =>
                  t <= record.lease /\ (table[t].superseded <=> t # record.lease)

TurnsInv(c, record) ==
    /\ record.expected_sequence = Len(record.turns)
    /\ \A n \in DOMAIN record.turns :
         /\ record.turns[n].sequence = n - 1
         /\ record.turns[n].next_action = NextAction(c, n - 1)
         /\ \A m \in DOMAIN record.turns :
               record.turns[m].idempotency_key = record.turns[n].idempotency_key => m = n

SealInv(record) ==
    /\ record.status \in Terminal <=> record.completion # None
    /\ record.completion # None =>
         /\ record.status = "canceled" <=> record.completion.event = "canceled"
         /\ record.completion.accepted = "evaluation_queued"
            <=> record.completion.event = "completed"

CaseInv(c, record, table) ==
    record \in CaseRecord /\ HeldInv(c, record, table) /\ TurnsInv(c, record) /\ SealInv(record)

\* No two leased records of one project name the same runner.
OnePerRunner(records) ==
    \A c, d \in Cases :
       /\ records[c].lease # 0 /\ records[d].lease # 0
       /\ ProjectOf[c] = ProjectOf[d]
       /\ records[c].claimed_by = records[d].claimed_by
       => c = d

StateInv(records, table) ==
    /\ records \in [Cases -> CaseRecord]
    /\ table \in Seq(Lease)
    /\ \A c \in Cases : CaseInv(c, records[c], table)
    /\ OnePerRunner(records)

\* The inductive invariant.
IInv ==
    /\ keyState \in [Keys -> {"absent", "active", "revoked"}]
    /\ queue \in Seq(Cases)
    /\ StateInv(cases, leases)

\* The inductive invariant is the conjunction of the invariants that are
\* model-checked: none of them needs more than the others to be preserved.
LEMMA InvariantParts ==
    IInv <=> TypeOK /\ LeaseDiscipline /\ OneLeasePerRunner /\ GaplessTurns /\ TerminalMeansSealed
BY DEF IInv, StateInv, CaseInv, HeldInv, TurnsInv, SealInv, OnePerRunner, TypeOK,
       LeaseDiscipline, OneLeasePerRunner, GaplessTurns, TerminalMeansSealed

-----------------------------------------------------------------------------
(* The settled state *)

\* Expiring an overdue lease leaves the lease table alone: the lease that a case
\* holds was not superseded in the first place.
LEMMA SettledLeasesSame ==
    ASSUME StateInv(cases, leases)
    PROVE  SettledLeases = leases
<1>1. ASSUME NEW t \in DOMAIN leases
      PROVE  (IF \E c \in Cases : Expired(c) /\ cases[c].lease = t
              THEN [leases[t] EXCEPT !.superseded = FALSE] ELSE leases[t]) = leases[t]
  <2>1. CASE \E c \in Cases : Expired(c) /\ cases[c].lease = t
    <3>1. PICK c \in Cases : Expired(c) /\ cases[c].lease = t
      BY <2>1
    <3>2. leases[t] \in Lease
      BY DEF StateInv
    <3>3. leases[t].superseded \in BOOLEAN
      BY <3>2 DEF Lease
    <3>4. HeldInv(c, cases[c], leases) /\ cases[c].lease = t /\ cases[c].lease # 0
      BY <3>1 DEF StateInv, CaseInv, Expired
    <3>5. leases[t].case_execution_id = c
      BY <3>4 DEF HeldInv
    <3>6. ~leases[t].superseded
      BY <3>4, <3>5 DEF HeldInv
    <3>7. leases[t].superseded = FALSE
      BY <3>3, <3>6
    <3>8. [leases[t] EXCEPT !.superseded = FALSE] = leases[t]
      BY <3>2, <3>7 DEF Lease
    <3> QED
      BY <2>1, <3>8
  <2> QED
    BY <2>1
<1>2. leases = [t \in DOMAIN leases |-> leases[t]]
  BY DEF StateInv
<1> QED
  BY <1>1, <1>2 DEF SettledLeases

\* What _expire_one leaves of a record.
LEMMA ExpireOneType ==
    ASSUME NEW record \in CaseRecord
    PROVE  /\ ExpireOne(record) \in CaseRecord
           /\ ExpireOne(record).lease = 0
           /\ ExpireOne(record).status =
                IF record.status \in {"leased", "running"} THEN "queued" ELSE record.status
           /\ ExpireOne(record).turns = record.turns
           /\ ExpireOne(record).expected_sequence = record.expected_sequence
           /\ ExpireOne(record).completion = record.completion
BY DEF ExpireOne, CaseRecord, CaseStatus

\* Lapsed leases break nothing and touch no evidence; a lease that survives is
\* the one its case had, with time left.
LEMMA SettledInv ==
    ASSUME StateInv(cases, leases)
    PROVE  /\ StateInv(Settled, leases)
           /\ \A c \in Cases :
                /\ Settled[c].turns = cases[c].turns
                /\ Settled[c].expected_sequence = cases[c].expected_sequence
                /\ Settled[c].completion = cases[c].completion
                /\ Settled[c].lease # 0 => Settled[c] = cases[c] /\ cases[c].left # 0
<1>1. ASSUME NEW c \in Cases
      PROVE  /\ CaseInv(c, Settled[c], leases)
             /\ Settled[c].turns = cases[c].turns
             /\ Settled[c].expected_sequence = cases[c].expected_sequence
             /\ Settled[c].completion = cases[c].completion
             /\ Settled[c].lease # 0 => Settled[c] = cases[c] /\ cases[c].left # 0
  <2>1. Settled[c] = IF Expired(c) THEN ExpireOne(cases[c]) ELSE cases[c]
    BY DEF Settled
  <2>2. CaseInv(c, cases[c], leases)
    BY DEF StateInv
  <2>3. CASE Expired(c)
    <3>1. /\ Settled[c] \in CaseRecord /\ Settled[c].lease = 0
          /\ Settled[c].status =
               IF cases[c].status \in {"leased", "running"} THEN "queued" ELSE cases[c].status
          /\ Settled[c].turns = cases[c].turns
          /\ Settled[c].expected_sequence = cases[c].expected_sequence
          /\ Settled[c].completion = cases[c].completion
      BY <2>1, <2>2, <2>3, ExpireOneType DEF CaseInv
    <3>2. cases[c].status \in Held
      BY <2>2, <2>3 DEF CaseInv, HeldInv, Expired
    <3>3. Settled[c].status = "queued"
      BY <3>1, <3>2
    <3>4. HeldInv(c, Settled[c], leases)
      BY <3>1, <3>3 DEF HeldInv
    <3>5. TurnsInv(c, Settled[c])
      BY <3>1, <2>2 DEF CaseInv, TurnsInv
    <3>6. SealInv(Settled[c])
      BY <3>1, <3>2, <3>3, <2>2 DEF CaseInv, SealInv
    <3> QED
      BY <3>1, <3>4, <3>5, <3>6 DEF CaseInv
  <2>4. CASE ~Expired(c)
    BY <2>1, <2>2, <2>4 DEF Expired
  <2> QED
    BY <2>3, <2>4
<1>2. Settled \in [Cases -> CaseRecord]
  BY <1>1 DEF Settled, CaseInv
<1>3. OnePerRunner(Settled)
  BY <1>1 DEF StateInv, OnePerRunner
<1> QED
  BY <1>1, <1>2, <1>3 DEF StateInv

-----------------------------------------------------------------------------
(* What the verdicts of the handlers imply *)

\* _require_lease passes only the token of the lease in force.
LEMMA LeaseInForce ==
    ASSUME NEW c \in Cases, NEW t, RequireLease(c, t) = "ok"
    PROVE  t # 0 /\ Settled[c].lease = t
BY DEF RequireLease

\* submit_turn records a turn only under the lease in force, at the cursor, and
\* if neither its key nor its sequence number has been recorded.
LEMMA TurnAccepted ==
    ASSUME NEW k, NEW c \in Cases, NEW t, NEW q, NEW i,
           TurnVerdict(k, c, t, q, i) = "accepted"
    PROVE  /\ RequireLease(c, t) = "ok"
           /\ Replayed(c, q, i) = {}
           /\ q = cases[c].expected_sequence
<1>1. Authorized(k, c) \in {"not_found", "forbidden", "ok"}
  BY DEF Authorized
<1>2. RequireLease(c, t) \in {"ok", "lease_expired", "lease_invalid"}
  BY DEF RequireLease
<1>3. Authorized(k, c) = "ok" /\ RequireLease(c, t) = "ok"
  BY <1>1, <1>2 DEF TurnVerdict
<1>4. Settled[c].status \notin Terminal
  BY <1>3 DEF TurnVerdict
<1>5. Replayed(c, q, i) = {}
  BY <1>3, <1>4 DEF TurnVerdict
<1> QED
  BY <1>3, <1>4, <1>5 DEF TurnVerdict

\* complete records only under the lease in force, and only a first completion.
LEMMA CompletionAccepted ==
    ASSUME NEW k, NEW c \in Cases, NEW t, NEW i,
           CompleteVerdict(k, c, t, i) = "accepted"
    PROVE  RequireLease(c, t) = "ok" /\ cases[c].completion = None
<1>1. Authorized(k, c) \in {"not_found", "forbidden", "ok"}
  BY DEF Authorized
<1>2. RequireLease(c, t) \in {"ok", "lease_expired", "lease_invalid"}
  BY DEF RequireLease
<1>3. Authorized(k, c) = "ok" /\ cases[c].completion = None
  BY <1>1 DEF CompleteVerdict
<1> QED
  BY <1>2, <1>3 DEF CompleteVerdict

\* heartbeat renews only the lease in force.
LEMMA HeartbeatAccepted ==
    ASSUME NEW k, NEW c \in Cases, NEW t,
           HeartbeatVerdict(k, c, t) = "accepted"
    PROVE  RequireLease(c, t) = "ok"
<1>1. Authorized(k, c) \in {"not_found", "forbidden", "ok"}
  BY DEF Authorized
<1>2. RequireLease(c, t) \in {"ok", "lease_expired", "lease_invalid"}
  BY DEF RequireLease
<1> QED
  BY <1>1, <1>2 DEF HeartbeatVerdict

-----------------------------------------------------------------------------
(* What one step does to one case *)

SameEvidence(d) ==
    cases'[d].turns = cases[d].turns /\ cases'[d].completion = cases[d].completion

\* The case neither gains evidence nor a lease nor time.
Quiet(d) ==
    /\ SameEvidence(d)
    /\ cases'[d].lease \in {0, cases[d].lease}
    /\ cases'[d].left <= cases[d].left

TurnRecorded(c) ==
    /\ Settled[c].lease # 0
    /\ cases[c].completion = None /\ cases'[c].completion = None
    /\ \E i \in IdemKeys, o \in Outputs, answer \in {"continue", "finish"} :
         /\ \A n \in DOMAIN cases[c].turns : cases[c].turns[n].idempotency_key # i
         /\ cases'[c].turns =
              Append(cases[c].turns, [sequence |-> Len(cases[c].turns), idempotency_key |-> i,
                                      event |-> o, next_action |-> answer])

CompletionRecorded(c) ==
    /\ Settled[c].lease # 0
    /\ cases'[c].turns = cases[c].turns
    /\ cases[c].completion = None
    /\ cases'[c].completion \in CompletionRecord
    /\ cases'[c].completion.accepted =
         IF cases'[c].completion.event = "completed" THEN "evaluation_queued" ELSE "recorded"

-----------------------------------------------------------------------------
(* The ways a handler changes a case *)

\* One record may change as it likes, as long as it stays sound by itself and
\* takes neither another lease nor another runner.
LEMMA ReplaceRecord ==
    ASSUME NEW records, NEW table, StateInv(records, table),
           NEW c \in Cases, NEW record, CaseInv(c, record, table),
           record.lease # 0 => /\ record.lease = records[c].lease
                               /\ record.claimed_by = records[c].claimed_by
    PROVE  StateInv([records EXCEPT ![c] = record], table)
<1> DEFINE new == [records EXCEPT ![c] = record]
<1>1. new \in [Cases -> CaseRecord]
  BY DEF StateInv, CaseInv
<1>2. \A d \in Cases : new[d] = IF d = c THEN record ELSE records[d]
  BY DEF StateInv
<1>3. \A d \in Cases : CaseInv(d, new[d], table)
  BY <1>2 DEF StateInv
<1>4. OnePerRunner(new)
  BY <1>2 DEF StateInv, OnePerRunner
<1> QED
  BY <1>1, <1>3, <1>4 DEF StateInv

\* A handler that only lets overdue leases lapse.
LEMMA ExpireLeasesInv ==
    ASSUME StateInv(cases, leases), ExpireLeases
    PROVE  StateInv(cases', leases')
BY SettledInv, SettledLeasesSame DEF ExpireLeases

\* A case that is enqueued had no lease and no completion.
LEMMA EnqueueInv ==
    ASSUME StateInv(cases, leases), NEW c \in Cases, Enqueue(c)
    PROVE  StateInv(cases', leases')
<1> DEFINE record == [cases[c] EXCEPT !.status = "queued"]
<1>1. CaseInv(c, cases[c], leases) /\ cases[c] \in CaseRecord /\ cases[c].status = "absent"
  BY DEF StateInv, CaseInv, Enqueue
<1>2. /\ record \in CaseRecord /\ record.status = "queued"
      /\ record.lease = cases[c].lease /\ record.claimed_by = cases[c].claimed_by
      /\ record.turns = cases[c].turns /\ record.completion = cases[c].completion
      /\ record.expected_sequence = cases[c].expected_sequence
  BY <1>1 DEF CaseRecord, CaseStatus
<1>3. cases[c].lease = 0 /\ cases[c].completion = None
  BY <1>1 DEF CaseInv, HeldInv, SealInv
<1>4. HeldInv(c, record, leases) /\ SealInv(record)
  BY <1>2, <1>3 DEF HeldInv, SealInv
<1>5. TurnsInv(c, record)
  BY <1>1, <1>2 DEF CaseInv, TurnsInv
<1>6. CaseInv(c, record, leases)
  BY <1>2, <1>4, <1>5 DEF CaseInv
<1>7. StateInv([cases EXCEPT ![c] = record], leases)
  <2> HIDE DEF record
  <2> QED
    BY <1>2, <1>3, <1>6, ReplaceRecord
<1>8. cases' = [cases EXCEPT ![c] = record] /\ leases' = leases
  BY DEF Enqueue
<1> QED
  BY <1>7, <1>8

\* Time passing changes no lease by itself.
LEMMA TickInv ==
    ASSUME StateInv(cases, leases), Tick
    PROVE  StateInv(cases', leases')
<1>1. ASSUME NEW c \in Cases
      PROVE  /\ Aged(cases[c]) \in CaseRecord
             /\ Aged(cases[c]).status = cases[c].status
             /\ Aged(cases[c]).lease = cases[c].lease
             /\ Aged(cases[c]).claimed_by = cases[c].claimed_by
             /\ Aged(cases[c]).turns = cases[c].turns
             /\ Aged(cases[c]).expected_sequence = cases[c].expected_sequence
             /\ Aged(cases[c]).completion = cases[c].completion
  <2>1. cases[c] \in CaseRecord /\ cases[c].left \in 0..LeaseTTL /\ LeaseTTL \in Nat
    BY ConstantsAssumption DEF StateInv, CaseRecord
  <2>2. (IF cases[c].left > 0 THEN cases[c].left - 1 ELSE 0) \in 0..LeaseTTL
    BY <2>1
  <2> QED
    BY <2>1, <2>2 DEF Aged, CaseRecord
<1>2. leases' = leases /\ cases' = [c \in Cases |-> Aged(cases[c])]
  BY DEF Tick
<1>3. cases' \in [Cases -> CaseRecord]
  BY <1>1, <1>2
<1>4. ASSUME NEW c \in Cases
      PROVE  CaseInv(c, cases'[c], leases')
  <2>1. CaseInv(c, cases[c], leases) /\ cases'[c] = Aged(cases[c])
    BY <1>2 DEF StateInv
  <2>2. HeldInv(c, cases'[c], leases')
    BY <1>1, <1>2, <2>1 DEF CaseInv, HeldInv
  <2>3. TurnsInv(c, cases'[c])
    BY <1>1, <2>1 DEF CaseInv, TurnsInv
  <2>4. SealInv(cases'[c])
    BY <1>1, <2>1 DEF CaseInv, SealInv
  <2> QED
    BY <1>3, <2>2, <2>3, <2>4 DEF CaseInv
<1>5. OnePerRunner(cases')
  BY <1>1, <1>2 DEF StateInv, OnePerRunner
<1> QED
  BY <1>2, <1>3, <1>4, <1>5 DEF StateInv

\* A heartbeat renews the lease and leaves the rest of the case alone.
LEMMA HeartbeatInv ==
    ASSUME StateInv(cases, leases), NEW k, NEW c \in Cases, NEW t,
           HeartbeatVerdict(k, c, t) = "accepted",
           cases' = [Settled EXCEPT ![c].left = LeaseTTL],
           leases' = SettledLeases
    PROVE  StateInv(cases', leases')
<1> DEFINE record == [Settled[c] EXCEPT !.left = LeaseTTL]
<1>1. StateInv(Settled, leases)
  BY SettledInv
<1>2. CaseInv(c, Settled[c], leases) /\ Settled[c] \in CaseRecord
  BY <1>1 DEF StateInv, CaseInv
<1>3. /\ record \in CaseRecord /\ record.status = Settled[c].status
      /\ record.lease = Settled[c].lease /\ record.claimed_by = Settled[c].claimed_by
      /\ record.turns = Settled[c].turns /\ record.completion = Settled[c].completion
      /\ record.expected_sequence = Settled[c].expected_sequence
  <2>1. LeaseTTL \in 0..LeaseTTL
    BY ConstantsAssumption
  <2> QED
    BY <1>2, <2>1 DEF CaseRecord
<1>4. CaseInv(c, record, leases)
  <2>1. HeldInv(c, record, leases) /\ SealInv(record)
    BY <1>2, <1>3 DEF CaseInv, HeldInv, SealInv
  <2>2. TurnsInv(c, record)
    BY <1>2, <1>3 DEF CaseInv, TurnsInv
  <2> QED
    BY <1>3, <2>1, <2>2 DEF CaseInv
<1>5. StateInv([Settled EXCEPT ![c] = record], leases)
  <2> HIDE DEF record
  <2> QED
    BY <1>1, <1>3, <1>4, ReplaceRecord
<1>6. cases' = [Settled EXCEPT ![c] = record] /\ leases' = leases
  BY SettledLeasesSame
<1> QED
  BY <1>5, <1>6

\* The turn appended by submit_turn is the next one, under a key of its own.
LEMMA AcceptTurnInv ==
    ASSUME StateInv(cases, leases), NEW k, NEW c \in Cases, NEW t, NEW q \in Nat,
           NEW i \in IdemKeys, NEW o \in Outputs, AcceptTurn(k, c, t, q, i, o)
    PROVE  /\ StateInv(cases', leases')
           /\ TurnRecorded(c)
           /\ \A d \in Cases \ {c} : cases'[d] = Settled[d]
<1> DEFINE turn == [sequence |-> q, idempotency_key |-> i, event |-> o,
                    next_action |-> NextAction(c, q)]
           record == [Settled[c] EXCEPT !.turns = Append(@, turn),
                                        !.expected_sequence = q + 1,
                                        !.status = "running", !.left = LeaseTTL]
<1>1. StateInv(Settled, leases)
  BY SettledInv
<1>2. CaseInv(c, Settled[c], leases) /\ Settled[c] \in CaseRecord
  BY <1>1 DEF StateInv, CaseInv
<1>3. /\ Settled[c].lease # 0
      /\ Replayed(c, q, i) = {}
      /\ q = cases[c].expected_sequence
  <2>1. TurnVerdict(k, c, t, q, i) = "accepted"
    BY DEF AcceptTurn
  <2>2. RequireLease(c, t) = "ok" /\ Replayed(c, q, i) = {} /\ q = cases[c].expected_sequence
    BY <2>1, TurnAccepted
  <2>3. t # 0 /\ Settled[c].lease = t
    BY <2>2, LeaseInForce
  <2> QED
    BY <2>2, <2>3
<1>4. /\ Settled[c].turns = cases[c].turns
      /\ Settled[c].expected_sequence = cases[c].expected_sequence
      /\ Settled[c].completion = cases[c].completion
  BY SettledInv
<1>5. q = Len(cases[c].turns) /\ cases[c].turns \in Seq(TurnRecord)
  BY <1>2, <1>3, <1>4 DEF CaseInv, TurnsInv, CaseRecord
<1>6. turn \in TurnRecord
  BY DEF TurnRecord, NextAction
<1>7. /\ record \in CaseRecord /\ record.status = "running"
      /\ record.lease = Settled[c].lease /\ record.claimed_by = Settled[c].claimed_by
      /\ record.turns = Append(cases[c].turns, turn)
      /\ record.completion = Settled[c].completion
      /\ record.expected_sequence = q + 1
  <2>1. Append(Settled[c].turns, turn) \in Seq(TurnRecord)
    BY <1>4, <1>5, <1>6
  <2>2. LeaseTTL \in 0..LeaseTTL /\ q + 1 \in Nat
    BY ConstantsAssumption
  <2> HIDE DEF turn
  <2> QED
    BY <1>2, <1>4, <2>1, <2>2 DEF CaseRecord, CaseStatus
<1>8. \A n \in DOMAIN cases[c].turns : cases[c].turns[n].idempotency_key # i
  BY <1>3 DEF Replayed
<1>9. Settled[c].status \in Held /\ Settled[c].completion = None
  BY <1>2, <1>3 DEF CaseInv, HeldInv, SealInv
<1>10. HeldInv(c, record, leases) /\ SealInv(record)
  BY <1>2, <1>7, <1>9 DEF CaseInv, HeldInv, SealInv
<1>11. TurnsInv(c, record)
  <2> DEFINE old == cases[c].turns
             new == Append(old, turn)
  <2>1. /\ Len(new) = Len(old) + 1
        /\ DOMAIN new = 1..(Len(old) + 1) /\ DOMAIN old = 1..Len(old)
        /\ \A n \in 1..Len(old) : new[n] = old[n]
        /\ new[Len(old) + 1] = turn
        /\ Len(old) \in Nat
    BY <1>5, <1>6
  <2>2. \A n \in DOMAIN old : /\ old[n].sequence = n - 1
                              /\ old[n].next_action = NextAction(c, n - 1)
                              /\ \A m \in DOMAIN old :
                                    old[m].idempotency_key = old[n].idempotency_key => m = n
    BY <1>2, <1>4 DEF CaseInv, TurnsInv
  <2>3. /\ turn.sequence = Len(old) + 1 - 1 /\ turn.idempotency_key = i
        /\ turn.next_action = NextAction(c, Len(old) + 1 - 1)
    BY <1>5
  <2>4. record.turns = new /\ record.expected_sequence = Len(new)
    BY <1>5, <1>7, <2>1
  <2>5. ASSUME NEW n \in DOMAIN new
        PROVE  /\ new[n].sequence = n - 1
               /\ new[n].next_action = NextAction(c, n - 1)
               /\ \A m \in DOMAIN new :
                     new[m].idempotency_key = new[n].idempotency_key => m = n
    <3> HIDE DEF old, new, turn
    <3>1. CASE n \in 1..Len(old)
      <4>1. n \in DOMAIN old /\ new[n] = old[n]
        BY <2>1, <3>1
      <4>2. ASSUME NEW m \in DOMAIN new,
                   new[m].idempotency_key = new[n].idempotency_key
            PROVE  m = n
        <5>1. old[n].idempotency_key # i
          BY <1>8, <4>1 DEF old
        <5>2. m \in 1..Len(old)
          BY <2>1, <2>3, <4>1, <4>2, <5>1
        <5>3. m \in DOMAIN old /\ new[m] = old[m]
          BY <2>1, <5>2
        <5> QED
          BY <2>2, <4>1, <4>2, <5>3
      <4> QED
        BY <2>2, <4>1, <4>2
    <3>2. CASE n = Len(old) + 1
      <4>1. new[n] = turn /\ new[n].idempotency_key = i
        BY <2>1, <2>3, <3>2
      <4>2. ASSUME NEW m \in DOMAIN new, new[m].idempotency_key = i
            PROVE  m = n
        <5>1. \A l \in DOMAIN old : old[l].idempotency_key # i
          BY <1>8 DEF old
        <5> QED
          BY <2>1, <3>2, <4>2, <5>1
      <4> QED
        BY <2>3, <3>2, <4>1, <4>2
    <3> QED
      BY <2>1, <3>1, <3>2
  <2> QED
    BY <2>4, <2>5 DEF TurnsInv
<1>12. CaseInv(c, record, leases)
  BY <1>7, <1>10, <1>11 DEF CaseInv
<1>13. StateInv([Settled EXCEPT ![c] = record], leases)
  <2> HIDE DEF record
  <2> QED
    BY <1>1, <1>7, <1>12, ReplaceRecord
<1>14. cases' = [Settled EXCEPT ![c] = record] /\ leases' = leases
  BY SettledLeasesSame DEF AcceptTurn
<1>15. cases'[c] = record /\ \A d \in Cases \ {c} : cases'[d] = Settled[d]
  BY <1>1, <1>14 DEF StateInv
<1>16. TurnRecorded(c)
  <2>1. /\ NextAction(c, q) \in {"continue", "finish"}
        /\ cases'[c].turns = Append(cases[c].turns,
              [sequence |-> Len(cases[c].turns), idempotency_key |-> i, event |-> o,
               next_action |-> NextAction(c, q)])
    BY <1>5, <1>7, <1>15 DEF NextAction
  <2>2. cases[c].completion = None /\ cases'[c].completion = None
    <3> HIDE DEF record
    <3> QED
      BY <1>4, <1>7, <1>9, <1>15
  <2> QED
    BY <1>3, <1>8, <2>1, <2>2, Zenon DEF TurnRecorded
<1> QED
  BY <1>13, <1>14, <1>15, <1>16

\* A completion gives the lease up and supersedes it.
LEMMA AcceptCompletionInv ==
    ASSUME StateInv(cases, leases), NEW k, NEW c \in Cases, NEW t, NEW i \in IdemKeys,
           NEW outcome \in Outcomes, AcceptCompletion(k, c, t, i, outcome)
    PROVE  /\ StateInv(cases', leases')
           /\ CompletionRecorded(c)
           /\ \A d \in Cases \ {c} : cases'[d] = Settled[d]
<1> DEFINE sealing == [idempotency_key |-> i, event |-> outcome,
                       accepted |-> IF outcome = "completed"
                                    THEN "evaluation_queued" ELSE "recorded"]
           record == [Settled[c] EXCEPT !.status = FinalStatus(outcome),
                                        !.completion = sealing, !.lease = 0, !.left = 0]
           table == [leases EXCEPT ![t].superseded = TRUE]
<1>1. StateInv(Settled, leases)
  BY SettledInv
<1>2. CaseInv(c, Settled[c], leases) /\ Settled[c] \in CaseRecord
  BY <1>1 DEF StateInv, CaseInv
<1>3. RequireLease(c, t) = "ok" /\ cases[c].completion = None
  <2>1. CompleteVerdict(k, c, t, i) = "accepted"
    BY DEF AcceptCompletion
  <2> QED
    BY <2>1, CompletionAccepted
<1>4. t # 0 /\ Settled[c].lease = t
  BY <1>3, LeaseInForce
<1>5. t \in DOMAIN leases /\ leases[t].case_execution_id = c
  BY <1>2, <1>4 DEF CaseInv, HeldInv
<1>6. sealing \in CompletionRecord /\ sealing.event = outcome
      /\ (sealing.accepted = "evaluation_queued" <=> outcome = "completed")
  BY DEF CompletionRecord, Outcomes
<1>7. sealing # None
  BY <1>6, NoneAssumption
<1>8. FinalStatus(outcome) \in {"submitted", "canceled"}
      /\ (FinalStatus(outcome) = "canceled" <=> outcome = "canceled")
  BY DEF FinalStatus
<1>9. /\ record \in CaseRecord /\ record.status = FinalStatus(outcome)
      /\ record.lease = 0 /\ record.completion = sealing
      /\ record.turns = Settled[c].turns
      /\ record.expected_sequence = Settled[c].expected_sequence
  <2>1. 0 \in 0..LeaseTTL
    BY ConstantsAssumption
  <2> HIDE DEF sealing
  <2> QED
    BY <1>2, <1>6, <1>8, <2>1 DEF CaseRecord, CaseStatus
<1>10. HeldInv(c, record, table)
  BY <1>8, <1>9 DEF HeldInv
<1>11. SealInv(record)
  <2> HIDE DEF sealing, record
  <2> QED
    BY <1>6, <1>7, <1>8, <1>9 DEF SealInv
<1>12. TurnsInv(c, record)
  BY <1>2, <1>9 DEF CaseInv, TurnsInv
<1>13. table \in Seq(Lease) /\ DOMAIN table = DOMAIN leases
       /\ \A s \in DOMAIN leases : s # t => table[s] = leases[s]
       /\ table[t].case_execution_id = c
  <2>1. leases \in Seq(Lease) /\ leases[t] \in Lease
    BY <1>5 DEF StateInv
  <2>2. [leases[t] EXCEPT !.superseded = TRUE] \in Lease
        /\ [leases[t] EXCEPT !.superseded = TRUE].case_execution_id = c
    BY <1>5, <2>1 DEF Lease
  <2>3. \A s \in DOMAIN leases :
           table[s] = IF s = t THEN [leases[t] EXCEPT !.superseded = TRUE] ELSE leases[s]
    BY <1>5, <2>1
  <2>4. \A s \in DOMAIN leases : table[s] \in Lease
    BY <2>1, <2>2, <2>3
  <2>5. DOMAIN leases = 1..Len(leases) /\ Len(leases) \in Nat
    BY <2>1
  <2>6. table = [s \in DOMAIN leases |-> table[s]]
    OBVIOUS
  <2>7. table \in Seq(Lease) /\ DOMAIN table = DOMAIN leases
    <3> HIDE DEF table
    <3>1. table \in [1..Len(leases) -> Lease]
      BY <2>4, <2>5, <2>6
    <3> QED
      BY <2>5, <2>6, <3>1
  <2> QED
    BY <1>5, <2>2, <2>3, <2>7
<1>14. leases' = table /\ cases' = [Settled EXCEPT ![c] = record]
  BY SettledLeasesSame DEF AcceptCompletion
<1>15. cases'[c] = record /\ \A d \in Cases \ {c} : cases'[d] = Settled[d]
  BY <1>1, <1>14 DEF StateInv
<1>16. ASSUME NEW d \in Cases
       PROVE  CaseInv(d, cases'[d], leases')
  <2>1. CASE d = c
    BY <1>9, <1>10, <1>11, <1>12, <1>14, <1>15, <2>1 DEF CaseInv
  <2>2. CASE d # c
    <3>1. CaseInv(d, Settled[d], leases) /\ cases'[d] = Settled[d]
      BY <1>1, <1>15, <2>2 DEF StateInv
    <3>2. HeldInv(d, Settled[d], table)
      <4> HIDE DEF table
      <4> QED
        BY <1>5, <1>13, <2>2, <3>1 DEF CaseInv, HeldInv
    <3> QED
      BY <1>14, <3>1, <3>2 DEF CaseInv
  <2> QED
    BY <2>1, <2>2
<1>17. cases' \in [Cases -> CaseRecord]
  BY <1>1, <1>9, <1>14 DEF StateInv
<1>18. OnePerRunner(cases')
  <2>1. \A d \in Cases : cases'[d].lease # 0 => cases'[d] = Settled[d]
    <3> HIDE DEF record
    <3> QED
      BY <1>9, <1>15
  <2> QED
    BY <1>1, <2>1 DEF StateInv, OnePerRunner
<1>19. StateInv(cases', leases')
  BY <1>13, <1>14, <1>16, <1>17, <1>18 DEF StateInv
<1>20. Settled[c].turns = cases[c].turns
  BY SettledInv
<1>21. CompletionRecorded(c)
  <2>1. cases'[c].completion = sealing /\ cases'[c].turns = cases[c].turns
    <3> HIDE DEF record, sealing
    <3> QED
      BY <1>9, <1>15, <1>20
  <2> QED
    BY <1>3, <1>4, <1>6, <2>1 DEF CompletionRecorded
<1> QED
  BY <1>15, <1>19, <1>21

\* Everything that is recorded for a case outlives a change of its holder.
LEMMA GrantLeaseInv ==
    ASSUME StateInv(cases, leases), NEW k, NEW r \in Runners, NEW c \in Cases,
           GrantLease(k, r, c)
    PROVE  /\ StateInv(cases', leases')
           /\ \A d \in Cases : /\ cases'[d].turns = cases[d].turns
                               /\ cases'[d].completion = cases[d].completion
<1> DEFINE n == Len(leases) + 1
           record == Granted(Settled[c], r, n)
           lease == [runner_id |-> r, case_execution_id |-> c, superseded |-> FALSE]
           table == Append(Superseding(c), lease)
<1>1. StateInv(Settled, leases)
  BY SettledInv
<1>2. CaseInv(c, Settled[c], leases) /\ Settled[c] \in CaseRecord
  BY <1>1 DEF StateInv, CaseInv
<1>3. Settled[c].status = "queued" /\ ProjectOf[c] = KeyProject[k]
  BY DEF GrantLease, First, QueuedCases
<1>4. Settled[c].lease = 0 /\ Settled[c].completion = None
  BY <1>2, <1>3 DEF CaseInv, HeldInv, SealInv
<1>5. leases \in Seq(Lease) /\ Len(leases) \in Nat /\ DOMAIN leases = 1..Len(leases)
  BY DEF StateInv
<1>6. /\ table \in Seq(Lease) /\ DOMAIN table = 1..n /\ table[n] = lease
      /\ \A s \in DOMAIN leases :
           /\ table[s].case_execution_id = leases[s].case_execution_id
           /\ table[s].runner_id = leases[s].runner_id
           /\ leases[s].case_execution_id = c => table[s].superseded
           /\ leases[s].case_execution_id # c => table[s] = leases[s]
  <2>1. ASSUME NEW s \in DOMAIN leases
        PROVE  /\ Superseding(c)[s] \in Lease
               /\ Superseding(c)[s].case_execution_id = leases[s].case_execution_id
               /\ Superseding(c)[s].runner_id = leases[s].runner_id
               /\ leases[s].case_execution_id = c => Superseding(c)[s].superseded
               /\ leases[s].case_execution_id # c => Superseding(c)[s] = leases[s]
    <3>1. Superseding(c)[s] = IF leases[s].case_execution_id = c
                              THEN [leases[s] EXCEPT !.superseded = TRUE] ELSE leases[s]
      BY SettledLeasesSame DEF Superseding
    <3>2. leases[s] \in Lease
      BY <1>5
    <3> QED
      BY <3>1, <3>2 DEF Lease
  <2>2. Superseding(c) = [s \in DOMAIN leases |-> Superseding(c)[s]]
    BY DEF Superseding
  <2>3. Superseding(c) \in [1..Len(leases) -> Lease]
    BY <1>5, <2>1, <2>2
  <2>4. Superseding(c) \in Seq(Lease) /\ Len(Superseding(c)) = Len(leases)
    BY <1>5, <2>3
  <2>5. lease \in Lease
    BY DEF Lease
  <2>6. /\ table \in Seq(Lease) /\ DOMAIN table = 1..n /\ table[n] = lease
        /\ \A s \in 1..Len(leases) : table[s] = Superseding(c)[s]
    <3> HIDE DEF lease
    <3> QED
      BY <1>5, <2>4, <2>5
  <2> QED
    BY <1>5, <2>1, <2>6
<1>7. /\ record \in CaseRecord /\ record.status = "leased" /\ record.lease = n
      /\ record.claimed_by = r /\ record.turns = Settled[c].turns
      /\ record.completion = Settled[c].completion
      /\ record.expected_sequence = Settled[c].expected_sequence
  <2>1. LeaseTTL \in 0..LeaseTTL /\ n \in Nat
    BY <1>5, ConstantsAssumption
  <2> HIDE DEF n
  <2> QED
    BY <1>2, <2>1 DEF Granted, CaseRecord, CaseStatus
<1>8. HeldInv(c, record, table)
  <2> HIDE DEF record, table
  <2>1. \A s \in DOMAIN table : table[s].case_execution_id = c =>
                                   s <= n /\ (table[s].superseded <=> s # n)
    BY <1>5, <1>6
  <2> QED
    BY <1>5, <1>6, <1>7, <2>1 DEF HeldInv
<1>9. SealInv(record) /\ TurnsInv(c, record)
  <2> HIDE DEF record
  <2> QED
    BY <1>2, <1>3, <1>4, <1>7 DEF CaseInv, SealInv, TurnsInv
<1>10. leases' = table /\ cases' = [Settled EXCEPT ![c] = record]
  BY DEF GrantLease
<1>11. cases'[c] = record /\ \A d \in Cases \ {c} : cases'[d] = Settled[d]
  BY <1>1, <1>10 DEF StateInv
<1>12. ASSUME NEW d \in Cases
       PROVE  CaseInv(d, cases'[d], leases')
  <2> HIDE DEF record, table
  <2>1. CASE d = c
    BY <1>7, <1>8, <1>9, <1>10, <1>11, <2>1 DEF CaseInv
  <2>2. CASE d # c
    <3>1. CaseInv(d, Settled[d], leases) /\ cases'[d] = Settled[d]
      BY <1>1, <1>11, <2>2 DEF StateInv
    <3>2. HeldInv(d, Settled[d], table)
      <4>1. \A s \in DOMAIN table : table[s].case_execution_id = d =>
                                       s \in DOMAIN leases /\ table[s] = leases[s]
        BY <1>5, <1>6, <2>2
      <4>2. \A s \in DOMAIN leases : leases[s].case_execution_id = d =>
                                        s \in DOMAIN table /\ table[s] = leases[s]
        BY <1>5, <1>6, <2>2
      <4> QED
        BY <3>1, <4>1, <4>2 DEF CaseInv, HeldInv
    <3> QED
      BY <1>10, <3>1, <3>2 DEF CaseInv
  <2> QED
    BY <2>1, <2>2
<1>13. cases' \in [Cases -> CaseRecord]
  BY <1>1, <1>7, <1>10 DEF StateInv
<1>14. ASSUME NEW d \in Cases \ {c}, Settled[d].lease # 0, ProjectOf[d] = ProjectOf[c]
       PROVE  Settled[d].claimed_by # r
  <2>1. HeldInv(d, Settled[d], leases)
    BY <1>1 DEF StateInv, CaseInv
  <2>2. d \notin ActiveCases(r, KeyProject[k])
    BY DEF GrantLease
  <2> QED
    BY <1>3, <1>14, <2>1, <2>2, SettledLeasesSame DEF ActiveCases, HeldInv
<1>15. OnePerRunner(cases')
  <2> HIDE DEF record
  <2> QED
    BY <1>1, <1>7, <1>11, <1>14 DEF StateInv, OnePerRunner
<1>16. StateInv(cases', leases')
  BY <1>6, <1>10, <1>12, <1>13, <1>15 DEF StateInv
<1>17. \A d \in Cases : Settled[d].turns = cases[d].turns
                        /\ Settled[d].completion = cases[d].completion
  BY SettledInv
<1> QED
  <2> HIDE DEF record
  <2> QED
    BY <1>7, <1>11, <1>16, <1>17

-----------------------------------------------------------------------------
(* The invariants *)

\* No case is enqueued, nothing is granted and no lease is out at the start.
LEMMA InitInv == Init => IInv
<1> SUFFICES ASSUME Init PROVE IInv
  OBVIOUS
<1>1. NoCase \in CaseRecord
  <2>1. 0 \in 0..LeaseTTL
    BY ConstantsAssumption
  <2> QED
    BY <2>1 DEF NoCase, CaseRecord, CaseStatus
<1>2. cases = [c \in Cases |-> NoCase] /\ leases = << >>
  BY DEF Init
<1>3. ASSUME NEW c \in Cases
      PROVE  CaseInv(c, cases[c], leases)
  BY <1>1, <1>2 DEF NoCase, CaseInv, HeldInv, TurnsInv, SealInv
<1>4. OnePerRunner(cases)
  BY <1>2 DEF NoCase, OnePerRunner
<1>5. StateInv(cases, leases)
  BY <1>1, <1>2, <1>3, <1>4 DEF StateInv
<1> QED
  BY <1>5 DEF Init, IInv

\* Every handler, the operator's calls and the clock preserve it.
LEMMA NextInv == IInv /\ [Next]_vars => IInv'
<1> SUFFICES ASSUME IInv, [Next]_vars PROVE IInv'
  OBVIOUS
<1> USE DEF IInv
<1>1. ASSUME NEW k \in Keys, CreateKey(k)
      PROVE  IInv'
  BY <1>1 DEF CreateKey
<1>2. ASSUME NEW k \in Keys, RevokeKey(k)
      PROVE  IInv'
  BY <1>2 DEF RevokeKey
<1>3. ASSUME NEW k \in Keys, NEW r \in Runners, NEW c \in Cases, ClaimExisting(k, r, c)
      PROVE  IInv'
  BY <1>3, ExpireLeasesInv DEF ClaimExisting
<1>4. ASSUME NEW k \in Keys, NEW r \in Runners, NEW c \in Cases, GrantLease(k, r, c)
      PROVE  IInv'
  <2>1. StateInv(cases', leases')
    BY <1>4, GrantLeaseInv
  <2> QED
    BY <1>4, <2>1 DEF GrantLease
<1>5. ASSUME NEW k \in Keys, NEW r \in Runners, NoWork(k, r)
      PROVE  IInv'
  BY <1>5, ExpireLeasesInv DEF NoWork
<1>6. ASSUME NEW k \in Keys, NEW c \in Cases, NEW t \in 0..Len(leases), Heartbeat(k, c, t)
      PROVE  IInv'
  <2>1. StateInv(cases', leases')
    BY <1>6, HeartbeatInv, ExpireLeasesInv DEF Heartbeat
  <2> QED
    BY <1>6, <2>1 DEF Heartbeat
<1>7. ASSUME NEW k \in Keys, NEW c \in Cases, NEW t \in 0..Len(leases), NEW i \in IdemKeys,
             NEW q \in 0..MaxSequence, NEW o \in Outputs, SubmitTurn(k, c, t, q, i, o)
      PROVE  IInv'
  <2>1. q \in Nat
    BY ConstantsAssumption
  <2>2. StateInv(cases', leases')
    BY <1>7, <2>1, AcceptTurnInv, ExpireLeasesInv DEF SubmitTurn
  <2> QED
    BY <1>7, <2>2 DEF SubmitTurn
<1>8. ASSUME NEW k \in Keys, NEW c \in Cases, NEW t \in 0..Len(leases), NEW i \in IdemKeys,
             NEW outcome \in Outcomes, Complete(k, c, t, i, outcome)
      PROVE  IInv'
  <2>1. StateInv(cases', leases')
    BY <1>8, AcceptCompletionInv, ExpireLeasesInv DEF Complete
  <2> QED
    BY <1>8, <2>1 DEF Complete
<1>9. ASSUME NEW c \in Cases, Enqueue(c)
      PROVE  IInv'
  <2>1. StateInv(cases', leases')
    BY <1>9, EnqueueInv
  <2>2. queue' = Append(queue, c) /\ keyState' = keyState
    BY <1>9 DEF Enqueue
  <2> QED
    BY <2>1, <2>2
<1>10. CASE Tick
  <2>1. StateInv(cases', leases')
    BY <1>10, TickInv
  <2> QED
    BY <1>10, <2>1 DEF Tick
<1>11. CASE UNCHANGED vars
  BY <1>11 DEF vars, StateInv, CaseInv, HeldInv, TurnsInv, SealInv, OnePerRunner
<1> QED
  BY <1>1, <1>2, <1>3, <1>4, <1>5, <1>6, <1>7, <1>8, <1>9, <1>10, <1>11 DEF Next, Claim

\* The inductive invariant holds of every state the orchestrator reaches.
THEOREM Invariance == Spec => []IInv
BY InitInv, NextInv, PTL DEF Spec

\* Every variable of the orchestrator keeps its type.
THEOREM TypeCorrect == Spec => []TypeOK
BY Invariance, InvariantParts, PTL

\* A case is leased or running exactly while it holds the newest, and only
\* unsuperseded, lease that was granted for it (_grant_lease, _expire_one).
THEOREM LeasesDisciplined == Spec => []LeaseDiscipline
BY Invariance, InvariantParts, PTL

\* A runner never holds two cases of one project at once (_active_lease_for).
THEOREM RunnerHoldsOne == Spec => []OneLeasePerRunner
BY Invariance, InvariantParts, PTL

\* The recorded turns are numbered without a gap, under keys of their own
\* (submit_turn).
THEOREM TurnsGapless == Spec => []GaplessTurns
BY Invariance, InvariantParts, PTL

\* A case is terminal exactly when a completion is recorded for it (complete).
THEOREM TerminalSealed == Spec => []TerminalMeansSealed
BY Invariance, InvariantParts, PTL

-----------------------------------------------------------------------------
(* The effect of a step *)

\* A step serves at most one case, for an active key of its project.
LEMMA StepEffects ==
    ASSUME IInv, [Next]_vars
    PROVE  \/ \A d \in Cases : Quiet(d)
           \/ \E k \in Keys, c \in Cases :
                /\ Authentic(k) /\ KeyProject[k] = ProjectOf[c]
                /\ SameEvidence(c) \/ TurnRecorded(c) \/ CompletionRecorded(c)
                /\ \A d \in Cases \ {c} : Quiet(d)
<1> DEFINE Served(k, c) ==
             /\ Authentic(k) /\ KeyProject[k] = ProjectOf[c]
             /\ SameEvidence(c) \/ TurnRecorded(c) \/ CompletionRecorded(c)
             /\ \A d \in Cases \ {c} : Quiet(d)
           AllQuiet == \A d \in Cases : Quiet(d)
           Goal == AllQuiet \/ \E k \in Keys, c \in Cases : Served(k, c)
<1>1. StateInv(cases, leases) /\ cases \in [Cases -> CaseRecord]
  BY DEF IInv, StateInv
<1>2. \A d \in Cases : cases[d].left \in Nat
  <2>1. \A d \in Cases : cases[d].left \in 0..LeaseTTL
    BY <1>1 DEF CaseRecord
  <2> QED
    BY <2>1, ConstantsAssumption
<1>3. ASSUME NEW d \in Cases, cases'[d] = Settled[d]
      PROVE  Quiet(d)
  <2>1. /\ Settled[d].turns = cases[d].turns
        /\ Settled[d].completion = cases[d].completion
    BY <1>1, SettledInv
  <2>2. Settled[d].lease \in {0, cases[d].lease} /\ Settled[d].left = cases[d].left
    BY <1>1 DEF Settled, ExpireOne, CaseRecord
  <2> QED
    BY <1>2, <1>3, <2>1, <2>2 DEF Quiet, SameEvidence
<1>4. ASSUME ExpireLeases
      PROVE  AllQuiet
  BY <1>3, <1>4 DEF ExpireLeases
<1>5. ASSUME NEW k, NEW c \in Cases, Authorized(k, c) = "ok"
      PROVE  KeyProject[k] = ProjectOf[c]
  BY <1>5 DEF Authorized
<1>6. \A k, c : Authorized(k, c) \in {"not_found", "forbidden", "ok"}
  BY DEF Authorized
<1>7. \A c, t : RequireLease(c, t) \in {"ok", "lease_expired", "lease_invalid"}
  BY DEF RequireLease
<1>8. ASSUME NEW k \in Keys, NEW r \in Runners, NEW c \in Cases, GrantLease(k, r, c)
      PROVE  Served(k, c)
  <2>1. SameEvidence(c)
    BY <1>1, <1>8, GrantLeaseInv DEF SameEvidence
  <2>2. Authentic(k) /\ KeyProject[k] = ProjectOf[c]
    BY <1>8 DEF GrantLease, First, QueuedCases
  <2>3. \A d \in Cases \ {c} : cases'[d] = Settled[d]
    BY <1>8 DEF GrantLease, Settled
  <2> QED
    BY <1>3, <2>1, <2>2, <2>3
<1>9. ASSUME NEW k \in Keys, NEW c \in Cases, NEW t \in 0..Len(leases), Heartbeat(k, c, t)
      PROVE  AllQuiet \/ Served(k, c)
  <2>1. CASE HeartbeatVerdict(k, c, t) = "accepted" /\ cases' = [Settled EXCEPT ![c].left = LeaseTTL]
    <3>1. Authorized(k, c) = "ok"
      BY <1>6, <2>1 DEF HeartbeatVerdict
    <3>2. SameEvidence(c)
      <4>1. Settled \in [Cases -> CaseRecord]
        BY <1>1, SettledInv DEF StateInv
      <4>2. cases'[c].turns = Settled[c].turns /\ cases'[c].completion = Settled[c].completion
        BY <2>1, <4>1 DEF CaseRecord
      <4> QED
        BY <1>1, <4>2, SettledInv DEF SameEvidence
    <3>3. \A d \in Cases \ {c} : cases'[d] = Settled[d]
      BY <2>1 DEF Settled
    <3> QED
      BY <1>3, <1>5, <1>9, <3>1, <3>2, <3>3 DEF Heartbeat
  <2> QED
    BY <1>4, <1>9, <2>1 DEF Heartbeat
<1>10. ASSUME NEW k \in Keys, NEW c \in Cases, NEW t \in 0..Len(leases), NEW i \in IdemKeys,
              NEW q \in 0..MaxSequence, NEW o \in Outputs, SubmitTurn(k, c, t, q, i, o)
       PROVE  AllQuiet \/ Served(k, c)
  <2>1. CASE AcceptTurn(k, c, t, q, i, o)
    <3>1. Authorized(k, c) = "ok"
      BY <1>6, <1>7, <2>1 DEF AcceptTurn, TurnVerdict
    <3>2. q \in Nat
      BY ConstantsAssumption
    <3>3. TurnRecorded(c)
      BY <1>1, <2>1, <3>2, AcceptTurnInv
    <3>4. \A d \in Cases \ {c} : cases'[d] = Settled[d]
      BY <1>1, <2>1, <3>2, AcceptTurnInv
    <3> QED
      BY <1>3, <1>5, <1>10, <3>1, <3>3, <3>4 DEF SubmitTurn
  <2> QED
    BY <1>4, <1>10, <2>1 DEF SubmitTurn
<1>11. ASSUME NEW k \in Keys, NEW c \in Cases, NEW t \in 0..Len(leases), NEW i \in IdemKeys,
              NEW outcome \in Outcomes, Complete(k, c, t, i, outcome)
       PROVE  AllQuiet \/ Served(k, c)
  <2>1. CASE AcceptCompletion(k, c, t, i, outcome)
    <3>1. Authorized(k, c) = "ok"
      BY <1>6, <2>1 DEF AcceptCompletion, CompleteVerdict
    <3>2. CompletionRecorded(c)
      BY <1>1, <2>1, AcceptCompletionInv
    <3>3. \A d \in Cases \ {c} : cases'[d] = Settled[d]
      BY <1>1, <2>1, AcceptCompletionInv
    <3> QED
      BY <1>3, <1>5, <1>11, <3>1, <3>2, <3>3 DEF Complete
  <2> QED
    BY <1>4, <1>11, <2>1 DEF Complete
<1>12. ASSUME NEW c \in Cases, Enqueue(c)
       PROVE  AllQuiet
  <2>1. ASSUME NEW d \in Cases
        PROVE  /\ cases'[d].turns = cases[d].turns /\ cases'[d].completion = cases[d].completion
               /\ cases'[d].lease = cases[d].lease /\ cases'[d].left = cases[d].left
    BY <1>1, <1>12 DEF Enqueue, CaseRecord
  <2> QED
    BY <1>2, <2>1 DEF Quiet, SameEvidence
<1>13. ASSUME Tick
       PROVE  AllQuiet
  <2>1. ASSUME NEW d \in Cases
        PROVE  /\ cases'[d].turns = cases[d].turns /\ cases'[d].completion = cases[d].completion
               /\ cases'[d].lease = cases[d].lease
               /\ cases'[d].left = IF cases[d].left > 0 THEN cases[d].left - 1 ELSE 0
    BY <1>1, <1>13 DEF Tick, Aged, CaseRecord
  <2> QED
    BY <1>2, <2>1 DEF Quiet, SameEvidence
<1>14. ASSUME UNCHANGED cases
       PROVE  AllQuiet
  BY <1>2, <1>14 DEF Quiet, SameEvidence
<1>15. Goal
  <2> HIDE DEF Served, AllQuiet
  <2>1. CASE UNCHANGED vars
    BY <1>14, <2>1 DEF vars
  <2>2. ASSUME NEW k \in Keys, CreateKey(k) \/ RevokeKey(k)
        PROVE  AllQuiet
    BY <1>14, <2>2 DEF CreateKey, RevokeKey
  <2>3. ASSUME NEW k \in Keys, NEW r \in Runners, Claim(k, r)
        PROVE  Goal
    BY <1>4, <1>8, <2>3 DEF Claim, ClaimExisting, NoWork
  <2>4. CASE Next
    BY <1>9, <1>10, <1>11, <1>12, <1>13, <2>2, <2>3, <2>4 DEF Next
  <2> QED
    BY <2>1, <2>4
<1> QED
  BY <1>15

\* A lease that is in force once overdue leases have lapsed was in force before.
LEMMA InForceBefore ==
    ASSUME IInv, NEW c \in Cases, Settled[c].lease # 0
    PROVE  cases[c].lease # 0 /\ cases[c].left > 0
<1>1. StateInv(cases, leases)
  BY DEF IInv
<1>2. Settled[c] = cases[c] /\ cases[c].left # 0
  BY <1>1, SettledInv
<1>3. cases[c].left \in 0..LeaseTTL
  BY <1>1 DEF StateInv, CaseRecord
<1> QED
  BY <1>2, <1>3, ConstantsAssumption

\* A case is served only while some key of its own project is active; any other
\* request can at most let an overdue lease lapse (_authorized_case, claim).
THEOREM ProjectsIsolated == Spec => ProjectIsolation
<1> DEFINE Isolated ==
      \A c \in Cases :
         \/ \E k \in Keys : Authentic(k) /\ KeyProject[k] = ProjectOf[c]
         \/ /\ cases'[c].turns = cases[c].turns /\ cases'[c].completion = cases[c].completion
            /\ cases'[c].lease \in {0, cases[c].lease}
            /\ cases'[c].left <= cases[c].left
<1>1. ASSUME IInv, [Next]_vars
      PROVE  Isolated
  <2>1. CASE \A d \in Cases : Quiet(d)
    BY <2>1 DEF Quiet, SameEvidence
  <2>2. ASSUME NEW k \in Keys, NEW c \in Cases,
               Authentic(k), KeyProject[k] = ProjectOf[c],
               \A d \in Cases \ {c} : Quiet(d)
        PROVE  Isolated
    BY <2>2 DEF Quiet, SameEvidence
  <2> QED
    BY <1>1, <2>1, <2>2, StepEffects
<1> QED
  BY <1>1, Invariance, PTL DEF Spec, ProjectIsolation

\* Evidence is written for one case at a time and only under a lease that is out
\* and has time left (submit_turn, complete, _expire_leases).
THEOREM EvidenceNeedsLease == Spec => EvidenceUnderLease
<1> DEFINE UnderLease ==
      \A c \in Cases :
         \/ cases'[c].turns = cases[c].turns /\ cases'[c].completion = cases[c].completion
         \/ /\ cases[c].lease # 0 /\ cases[c].left > 0
            /\ \A d \in Cases \ {c} : cases'[d].turns = cases[d].turns
                                      /\ cases'[d].completion = cases[d].completion
<1>1. ASSUME IInv, [Next]_vars
      PROVE  UnderLease
  <2>1. CASE \A d \in Cases : SameEvidence(d)
    BY <2>1 DEF SameEvidence
  <2>2. ASSUME NEW c \in Cases, TurnRecorded(c) \/ CompletionRecorded(c),
               \A d \in Cases \ {c} : SameEvidence(d)
        PROVE  UnderLease
    <3>1. cases[c].lease # 0 /\ cases[c].left > 0
      BY <1>1, <2>2, InForceBefore DEF TurnRecorded, CompletionRecorded
    <3> QED
      BY <2>2, <3>1 DEF SameEvidence
  <2> QED
    BY <1>1, <2>1, <2>2, StepEffects DEF Quiet
<1> QED
  BY <1>1, Invariance, PTL DEF Spec, EvidenceUnderLease

\* The orchestrator implements the abstract log: whoever holds a case, its
\* evidence only grows at its end and is sealed once.
THEOREM Refinement == Spec => ImplementsLog
<1> DEFINE evidence == [c \in Cases |-> cases[c].turns]
           sealed == [c \in Cases |-> cases[c].completion]
<1>1. Init => Log!Init
  BY DEF Init, NoCase, Log!Init
<1>2. ASSUME IInv, [Next]_vars
      PROVE  [Log!Next]_Log!vars
  <2>1. CASE \A d \in Cases : SameEvidence(d)
    <3>1. UNCHANGED <<evidence, sealed>>
      BY <2>1 DEF SameEvidence
    <3> QED
      BY <3>1 DEF Log!vars
  <2>2. ASSUME NEW c \in Cases, TurnRecorded(c), \A d \in Cases \ {c} : SameEvidence(d)
        PROVE  Log!Next
    <3>1. PICK i \in IdemKeys, o \in Outputs, answer \in {"continue", "finish"} :
            /\ \A n \in DOMAIN cases[c].turns : cases[c].turns[n].idempotency_key # i
            /\ cases'[c].turns =
                 Append(cases[c].turns, [sequence |-> Len(cases[c].turns), idempotency_key |-> i,
                                         event |-> o, next_action |-> answer])
      BY <2>2, Zenon DEF TurnRecorded
    <3>2. sealed[c] = None /\ sealed' = sealed
      BY <2>2 DEF TurnRecorded, SameEvidence
    <3>3. evidence' = [evidence EXCEPT ![c] =
            Append(@, [sequence |-> Len(evidence[c]), idempotency_key |-> i,
                       event |-> o, next_action |-> answer])]
      BY <2>2, <3>1 DEF SameEvidence
    <3>4. \A n \in DOMAIN evidence[c] : evidence[c][n].idempotency_key # i
      BY <3>1
    <3>5. Log!Record(c, i, o, answer)
      BY <3>2, <3>3, <3>4 DEF Log!Record
    <3>6. answer \in Log!Answers
      BY DEF Log!Answers
    <3>7. \E key \in IdemKeys, output \in Outputs, a \in Log!Answers :
             Log!Record(c, key, output, a)
      BY <3>5, <3>6
    <3> QED
      BY <3>7 DEF Log!Next
  <2>3. ASSUME NEW c \in Cases, CompletionRecorded(c), \A d \in Cases \ {c} : SameEvidence(d)
        PROVE  Log!Next
    <3>1. PICK completion \in CompletionRecord :
            /\ cases'[c].completion = completion
            /\ completion.accepted =
                 IF completion.event = "completed" THEN "evaluation_queued" ELSE "recorded"
      BY <2>3 DEF CompletionRecorded
    <3>2. completion \in Log!Completions
      BY DEF CompletionRecord, Outcomes, Log!Completions
    <3>3. sealed[c] = None /\ evidence' = evidence
      BY <2>3 DEF CompletionRecorded, SameEvidence
    <3>4. sealed' = [sealed EXCEPT ![c] = completion]
      BY <2>3, <3>1 DEF SameEvidence
    <3>5. Log!Seal(c, completion)
      BY <3>1, <3>3, <3>4 DEF Log!Seal
    <3>6. \E sealing \in Log!Completions : Log!Seal(c, sealing)
      BY <3>2, <3>5
    <3> QED
      BY <3>6 DEF Log!Next
  <2> QED
    <3>1. \/ \A d \in Cases : SameEvidence(d)
          \/ \E c \in Cases : /\ TurnRecorded(c) \/ CompletionRecorded(c)
                              /\ \A d \in Cases \ {c} : SameEvidence(d)
      BY <1>2, StepEffects DEF Quiet
    <3> QED
      BY <2>1, <2>2, <2>3, <3>1
<1> QED
  BY <1>1, <1>2, Invariance, PTL DEF Spec, ImplementsLog, Log!Spec

-----------------------------------------------------------------------------
(* Tokens *)

\* The table only grows, and a superseded lease stays superseded.
TableGrows ==
    \A t \in DOMAIN leases :
       /\ t \in DOMAIN leases'
       /\ leases'[t].case_execution_id = leases[t].case_execution_id
       /\ leases[t].superseded => leases'[t].superseded

\* A lease with time left was in force before the step, or is a new one.
LeaseKeptOrNew(c) ==
    cases'[c].lease # 0 /\ cases'[c].left # 0
    => cases'[c].lease \in {Settled[c].lease, Len(leases) + 1}

\* No step revives a lease or takes back that it was superseded.
LEMMA StepLeases ==
    ASSUME IInv, [Next]_vars
    PROVE  TableGrows /\ \A c \in Cases : LeaseKeptOrNew(c)
<1> DEFINE Kept == TableGrows /\ \A c \in Cases : LeaseKeptOrNew(c)
<1>1. /\ StateInv(cases, leases) /\ StateInv(Settled, leases) /\ SettledLeases = leases
      /\ cases \in [Cases -> CaseRecord] /\ Settled \in [Cases -> CaseRecord]
      /\ leases \in Seq(Lease)
  BY SettledInv, SettledLeasesSame DEF IInv, StateInv
<1>2. ASSUME leases' = leases
      PROVE  TableGrows
  BY <1>2 DEF TableGrows
<1>3. ASSUME NEW c \in Cases, cases'[c].lease = Settled[c].lease
      PROVE  LeaseKeptOrNew(c)
  BY <1>3 DEF LeaseKeptOrNew
<1>4. ASSUME NEW c \in Cases, cases'[c].lease = cases[c].lease,
             cases'[c].left # 0 => cases[c].left # 0
      PROVE  LeaseKeptOrNew(c)
  BY <1>4 DEF LeaseKeptOrNew, Settled, Expired
<1>5. ASSUME ExpireLeases
      PROVE  Kept
  BY <1>1, <1>2, <1>3, <1>5 DEF ExpireLeases
<1>6. ASSUME NEW k, NEW r, NEW c \in Cases, GrantLease(k, r, c)
      PROVE  Kept
  <2> DEFINE lease == [runner_id |-> r, case_execution_id |-> c, superseded |-> FALSE]
  <2>1. leases' = Append(Superseding(c), lease)
    BY <1>6 DEF GrantLease
  <2>2. ASSUME NEW t \in DOMAIN leases
        PROVE  /\ Superseding(c)[t].case_execution_id = leases[t].case_execution_id
               /\ leases[t].superseded => Superseding(c)[t].superseded
    <3>1. leases[t] \in Lease
      BY <1>1
    <3> QED
      BY <1>1, <3>1 DEF Superseding, Lease
  <2>3. DOMAIN Superseding(c) = 1..Len(leases) /\ Len(leases) \in Nat
        /\ DOMAIN leases = 1..Len(leases)
    BY <1>1 DEF Superseding
  <2>4. DOMAIN leases' = 1..(Len(leases) + 1)
        /\ \A t \in 1..Len(leases) : leases'[t] = Superseding(c)[t]
    <3>1. Superseding(c) = [t \in 1..Len(leases) |-> Superseding(c)[t]]
      BY <2>3 DEF Superseding
    <3>2. Superseding(c) \in Seq({Superseding(c)[t] : t \in 1..Len(leases)})
      BY <2>3, <3>1
    <3>3. Len(Superseding(c)) = Len(leases)
      BY <2>3, <3>2
    <3> HIDE DEF lease
    <3> QED
      BY <2>1, <2>3, <3>2, <3>3
  <2>5. TableGrows
    BY <2>2, <2>3, <2>4 DEF TableGrows
  <2>6. \A d \in Cases \ {c} : cases'[d] = Settled[d]
    BY <1>1, <1>6 DEF GrantLease
  <2>7. cases'[c].lease = Len(leases) + 1
    BY <1>1, <1>6 DEF GrantLease, Granted, CaseRecord
  <2>8. LeaseKeptOrNew(c)
    BY <2>7 DEF LeaseKeptOrNew
  <2> QED
    BY <1>3, <2>5, <2>6, <2>8
<1>7. ASSUME NEW c \in Cases, cases' = [Settled EXCEPT ![c].left = LeaseTTL],
             leases' = SettledLeases
      PROVE  Kept
  <2>1. \A d \in Cases : cases'[d].lease = Settled[d].lease
    BY <1>1, <1>7 DEF CaseRecord
  <2> QED
    BY <1>1, <1>2, <1>3, <1>7, <2>1
<1>8. ASSUME NEW k, NEW c \in Cases, NEW t, NEW q, NEW i, NEW o, AcceptTurn(k, c, t, q, i, o)
      PROVE  Kept
  <2>1. \A d \in Cases : cases'[d].lease = Settled[d].lease
    BY <1>1, <1>8 DEF AcceptTurn, CaseRecord
  <2> QED
    BY <1>1, <1>2, <1>3, <1>8, <2>1 DEF AcceptTurn
<1>9. ASSUME NEW k, NEW c \in Cases, NEW t, NEW i, NEW outcome,
             AcceptCompletion(k, c, t, i, outcome)
      PROVE  Kept
  <2>1. cases'[c].lease = 0 /\ \A d \in Cases \ {c} : cases'[d] = Settled[d]
    BY <1>1, <1>9 DEF AcceptCompletion, CaseRecord
  <2>2. leases' = [leases EXCEPT ![t].superseded = TRUE]
    BY <1>1, <1>9 DEF AcceptCompletion
  <2>3. ASSUME NEW s \in DOMAIN leases
        PROVE  /\ s \in DOMAIN leases'
               /\ leases'[s].case_execution_id = leases[s].case_execution_id
               /\ leases[s].superseded => leases'[s].superseded
    <3>1. leases[s] \in Lease
      BY <1>1
    <3> QED
      BY <2>2, <3>1 DEF Lease
  <2>4. LeaseKeptOrNew(c)
    BY <2>1 DEF LeaseKeptOrNew
  <2> QED
    BY <1>3, <2>1, <2>3, <2>4 DEF TableGrows
<1>10. ASSUME NEW c \in Cases, Enqueue(c)
       PROVE  Kept
  <2>1. \A d \in Cases : cases'[d].lease = cases[d].lease /\ cases'[d].left = cases[d].left
    BY <1>1, <1>10 DEF Enqueue, CaseRecord
  <2> QED
    BY <1>2, <1>4, <1>10, <2>1 DEF Enqueue
<1>11. ASSUME Tick
       PROVE  Kept
  <2>1. ASSUME NEW d \in Cases
        PROVE  cases'[d].lease = cases[d].lease /\ (cases'[d].left # 0 => cases[d].left # 0)
    BY <1>1, <1>11 DEF Tick, Aged, CaseRecord
  <2> QED
    BY <1>2, <1>4, <1>11, <2>1 DEF Tick
<1>12. ASSUME UNCHANGED <<cases, leases>>
       PROVE  Kept
  BY <1>2, <1>4, <1>12
<1>13. Kept
  <2> HIDE DEF Kept
  <2>1. CASE UNCHANGED vars
    BY <1>12, <2>1 DEF vars
  <2>2. ASSUME NEW k \in Keys, CreateKey(k) \/ RevokeKey(k)
        PROVE  Kept
    BY <1>12, <2>2 DEF CreateKey, RevokeKey
  <2>3. ASSUME NEW k \in Keys, NEW r \in Runners, Claim(k, r)
        PROVE  Kept
    BY <1>5, <1>6, <2>3 DEF Claim, ClaimExisting, NoWork
  <2>4. ASSUME NEW k \in Keys, NEW c \in Cases, NEW t \in 0..Len(leases), Heartbeat(k, c, t)
        PROVE  Kept
    BY <1>5, <1>7, <2>4 DEF Heartbeat
  <2>5. ASSUME NEW k \in Keys, NEW c \in Cases, NEW t \in 0..Len(leases), NEW i \in IdemKeys,
               NEW q \in 0..MaxSequence, NEW o \in Outputs, SubmitTurn(k, c, t, q, i, o)
        PROVE  Kept
    BY <1>5, <1>8, <2>5 DEF SubmitTurn
  <2>6. ASSUME NEW k \in Keys, NEW c \in Cases, NEW t \in 0..Len(leases), NEW i \in IdemKeys,
               NEW outcome \in Outcomes, Complete(k, c, t, i, outcome)
        PROVE  Kept
    BY <1>5, <1>9, <2>6 DEF Complete
  <2>7. CASE Next
    BY <1>10, <1>11, <2>2, <2>3, <2>4, <2>5, <2>6, <2>7 DEF Next
  <2> QED
    BY <2>1, <2>7
<1> QED
  BY <1>13

\* What the server says of a token, read off the settled case and the table.
Standing ==
    \A c \in Cases : \A t \in DOMAIN leases :
       leases[t].case_execution_id = c =>
          TokenRank(c, t) = IF Settled[c].lease = t THEN 0
                            ELSE IF Settled[c].lease = 0 /\ ~leases[t].superseded THEN 1 ELSE 2

\* A lease that is in force has time left, and is the only one of its case that
\* is not superseded.
InForce ==
    \A c \in Cases : Settled[c].lease # 0 =>
       /\ Settled[c].lease = cases[c].lease
       /\ cases[c].left # 0
       /\ \A t \in DOMAIN leases :
             leases[t].case_execution_id = c /\ t # Settled[c].lease => leases[t].superseded

\* _require_lease, read off the settled case and the table.
LEMMA TokenStanding == IInv => Standing
<1> SUFFICES ASSUME IInv, NEW c \in Cases, NEW t \in DOMAIN leases,
                    leases[t].case_execution_id = c
             PROVE  TokenRank(c, t) = IF Settled[c].lease = t THEN 0
                                      ELSE IF Settled[c].lease = 0 /\ ~leases[t].superseded
                                      THEN 1 ELSE 2
  BY DEF Standing
<1>1. SettledLeases = leases /\ leases \in Seq(Lease)
  BY SettledLeasesSame DEF IInv, StateInv
<1>2. t # 0
  BY <1>1
<1>3. CASE Settled[c].lease = t
  BY <1>2, <1>3 DEF TokenRank, RequireLease
<1>4. CASE Settled[c].lease = 0 /\ ~leases[t].superseded
  <2>1. RequireLease(c, t) = "lease_expired"
    BY <1>1, <1>2, <1>4 DEF RequireLease
  <2> QED
    BY <1>2, <1>4, <2>1 DEF TokenRank
<1>5. CASE Settled[c].lease # t /\ (Settled[c].lease # 0 \/ leases[t].superseded)
  <2>1. RequireLease(c, t) = "lease_invalid"
    BY <1>1, <1>2, <1>5 DEF RequireLease
  <2> QED
    BY <1>5, <2>1 DEF TokenRank
<1> QED
  BY <1>3, <1>4, <1>5

\* The leases in force are sound in every reachable state.
LEMMA LeasesInForce == IInv => InForce
<1> SUFFICES ASSUME IInv, NEW c \in Cases, Settled[c].lease # 0
             PROVE  /\ Settled[c].lease = cases[c].lease
                    /\ cases[c].left # 0
                    /\ \A t \in DOMAIN leases :
                          leases[t].case_execution_id = c /\ t # Settled[c].lease
                          => leases[t].superseded
  BY DEF InForce
<1>1. Settled[c] = cases[c] /\ cases[c].left # 0
  BY SettledInv DEF IInv
<1>2. HeldInv(c, cases[c], leases)
  BY DEF IInv, StateInv, CaseInv
<1> QED
  BY <1>1, <1>2 DEF HeldInv

\* A token only ever gets worse: a lease that ran out never comes back, and one
\* called lease_invalid is never called lease_expired again (_require_lease).
THEOREM TokensDegrade == Spec => TokensOnlyDegrade
<1> DEFINE Degrades ==
      \A c \in Cases, t \in DOMAIN leases :
         leases[t].case_execution_id = c => TokenRank(c, t)' >= TokenRank(c, t)
<1>1. IInv' => Standing'
  BY TokenStanding, PTL
<1>2. IInv' => InForce'
  BY LeasesInForce, PTL
<1>3. ASSUME IInv, IInv', [Next]_vars
      PROVE  Degrades
  <2> SUFFICES ASSUME NEW c \in Cases, NEW t \in DOMAIN leases,
                      leases[t].case_execution_id = c
               PROVE  TokenRank(c, t)' >= TokenRank(c, t)
    OBVIOUS
  <2>1. TableGrows /\ LeaseKeptOrNew(c)
    BY <1>3, StepLeases
  <2>2. t \in DOMAIN leases' /\ leases'[t].case_execution_id = c
        /\ (leases[t].superseded => leases'[t].superseded)
    BY <2>1 DEF TableGrows
  <2>3. t # 0 /\ t # Len(leases) + 1
    <3>1. leases \in Seq(Lease)
      BY <1>3 DEF IInv, StateInv
    <3> QED
      BY <3>1
  <2>4. TokenRank(c, t) = IF Settled[c].lease = t THEN 0
                          ELSE IF Settled[c].lease = 0 /\ ~leases[t].superseded THEN 1 ELSE 2
    BY <1>3, TokenStanding DEF Standing
  <2>5. TokenRank(c, t)' = IF Settled'[c].lease = t THEN 0
                           ELSE IF Settled'[c].lease = 0 /\ ~leases'[t].superseded THEN 1 ELSE 2
    BY <1>1, <1>3, <2>2 DEF Standing
  <2>6. Settled[c].lease # t => Settled'[c].lease # t
    BY <1>2, <1>3, <2>1, <2>3 DEF LeaseKeptOrNew, InForce
  <2>7. Settled[c].lease # t /\ Settled[c].lease # 0 => leases[t].superseded
    BY <1>3, LeasesInForce DEF InForce
  <2> QED
    BY <2>2, <2>4, <2>5, <2>6, <2>7
<1> QED
  BY <1>3, Invariance, PTL DEF Spec, TokensOnlyDegrade
=============================================================================
