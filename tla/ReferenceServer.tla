-------------------------- MODULE ReferenceServer --------------------------
(***************************************************************************)
(* The in-memory orchestrator of runner protocol v0                        *)
(* (redbeak_reference_server/runtime.py).  Its HTTP surface calls every    *)
(* handler synchronously from one event loop, so a handler is one atomic   *)
(* action.  Nothing happens at the moment a lease runs out: each           *)
(* authenticated request first expires whatever is overdue, and only then  *)
(* looks at the case.  "Settled" is the state a handler sees after that.   *)
(*                                                                         *)
(* A lease is its position in the table of all leases ever granted; the    *)
(* position stands for lease_id and lease_token alike, and 0 for None or   *)
(* for a token never issued.  expires_at is kept as the time that is left. *)
(***************************************************************************)
EXTENDS Integers, Sequences

CONSTANTS Cases,        \* case executions that may be enqueued
          Runners,      \* runner ids
          Keys,         \* runner keys that may be created
          Projects,
          ProjectOf,    \* the project of each case
          KeyProject,   \* the project each key is scoped to
          TurnCount,    \* the length of each case's script
          IdemKeys,     \* idempotency keys minted by runners
          Outputs,      \* contents of a submitted turn
          LeaseTTL,     \* LEASE_TTL, in ticks
          MaxLeases,    \* bound: leases granted in a behaviour
          MaxSequence,  \* bound: highest sequence number a request carries
          None

ASSUME ConstantsAssumption ==
    /\ ProjectOf \in [Cases -> Projects]
    /\ KeyProject \in [Keys -> Projects]
    /\ TurnCount \in [Cases -> Nat \ {0}]
    /\ LeaseTTL \in Nat \ {0}
    /\ MaxLeases \in Nat
    /\ MaxSequence \in Nat
    /\ None \notin Runners

VARIABLES keyState,     \* _keys: absent, active or revoked
          queue,        \* the keys of _cases in insertion order
          cases,        \* _cases
          leases        \* _leases, oldest first

vars == <<keyState, queue, cases, leases>>

Held == {"leased", "running"}
Terminal == {"submitted", "canceled"}
CaseStatus == {"absent", "queued"} \union Held \union Terminal
Outcomes == {"completed", "execution_failed", "canceled"}

TurnRecord == [sequence : Nat, idempotency_key : IdemKeys, event : Outputs,
               next_action : {"continue", "finish"}]

CompletionRecord == [idempotency_key : IdemKeys, event : Outcomes,
                     accepted : {"evaluation_queued", "recorded"}]

ASSUME NoneAssumption == None \notin CompletionRecord

Lease == [runner_id : Runners, case_execution_id : Cases, superseded : BOOLEAN]

CaseRecord == [status : CaseStatus, lease : Nat, left : 0..LeaseTTL,
               expected_sequence : Nat, turns : Seq(TurnRecord),
               completion : CompletionRecord \union {None},
               claimed_by : Runners \union {None}]

\* A case of the state space that enqueue has not been called for yet.
NoCase == [status |-> "absent", lease |-> 0, left |-> 0, expected_sequence |-> 0,
           turns |-> << >>, completion |-> None, claimed_by |-> None]

Init == /\ keyState = [k \in Keys |-> "absent"]
        /\ queue = << >>
        /\ cases = [c \in Cases |-> NoCase]
        /\ leases = << >>

-----------------------------------------------------------------------------
(* Lazy expiry *)

Expired(c) == cases[c].lease # 0 /\ cases[c].left = 0

\* Variation: the case keeps its status, and never returns to the queue.
ExpireOneKeepsStatus(record) == [record EXCEPT !.lease = 0, !.claimed_by = None]

ExpireOne(record) ==
    IF record.status \in Held
    THEN [record EXCEPT !.lease = 0, !.status = "queued", !.claimed_by = None]
    ELSE [record EXCEPT !.lease = 0]

\* _cases and _leases once _expire_leases has run.
Settled == [c \in Cases |-> IF Expired(c) THEN ExpireOne(cases[c]) ELSE cases[c]]

SettledLeases ==
    [t \in DOMAIN leases |->
        IF \E c \in Cases : Expired(c) /\ cases[c].lease = t
        THEN [leases[t] EXCEPT !.superseded = FALSE] ELSE leases[t]]

ExpireLeases == cases' = Settled /\ leases' = SettledLeases

-----------------------------------------------------------------------------
(* Checks shared by the handlers *)

Authentic(k) == keyState[k] = "active"

\* Variation: the project of the key is not looked at.
AuthorizedAnywhere(k, c) == IF Settled[c].status = "absent" THEN "not_found" ELSE "ok"

\* _authorized_case: what is wrong with key k asking for case c, if anything.
Authorized(k, c) ==
    CASE Settled[c].status = "absent"     -> "not_found"
      [] Settled[c].status # "absent"
         /\ ProjectOf[c] # KeyProject[k]  -> "forbidden"
      [] OTHER                            -> "ok"

\* Variation: a lease that is overdue, but not yet expired, still counts.
RequireLeaseUnsettled(c, t) ==
    IF t # 0 /\ cases[c].lease = t THEN "ok"
    ELSE IF /\ cases[c].lease = 0 /\ t \in DOMAIN leases
            /\ leases[t].case_execution_id = c /\ ~leases[t].superseded
         THEN "lease_expired" ELSE "lease_invalid"

\* _require_lease: only the token of the case's current lease passes; a token
\* that ran out without a successor is told apart from a superseded one.
RequireLease(c, t) ==
    CASE t # 0 /\ Settled[c].lease = t -> "ok"
      [] /\ Settled[c].lease = 0
         /\ t \in DOMAIN leases
         /\ SettledLeases[t].case_execution_id = c
         /\ ~SettledLeases[t].superseded -> "lease_expired"
      [] OTHER -> "lease_invalid"

-----------------------------------------------------------------------------
(* Operator's calls *)

CreateKey(k) ==
    /\ keyState[k] = "absent"
    /\ keyState' = [keyState EXCEPT ![k] = "active"]
    /\ UNCHANGED <<queue, cases, leases>>

RevokeKey(k) ==
    /\ keyState[k] # "absent"
    /\ keyState' = [keyState EXCEPT ![k] = "revoked"]
    /\ UNCHANGED <<queue, cases, leases>>

Enqueue(c) ==
    /\ cases[c].status = "absent"
    /\ queue' = Append(queue, c)
    /\ cases' = [cases EXCEPT ![c].status = "queued"]
    /\ UNCHANGED <<keyState, leases>>

-----------------------------------------------------------------------------
(* POST /v1/runner/work/claim *)

\* The first member of S in the insertion order of _cases.
First(c, S) ==
    /\ c \in S
    /\ \E n \in DOMAIN queue :
          queue[n] = c /\ \A m \in DOMAIN queue : m < n => queue[m] \notin S

\* Variation: a case that is running is overlooked.
ActiveCasesLeasedOnly(r, p) ==
    {c \in Cases : /\ Settled[c].status = "leased" /\ Settled[c].claimed_by = r
                   /\ ProjectOf[c] = p}

\* _active_lease_for
ActiveCases(r, p) ==
    {c \in Cases : /\ Settled[c].lease # 0
                   /\ SettledLeases[Settled[c].lease].runner_id = r
                   /\ ~SettledLeases[Settled[c].lease].superseded
                   /\ ProjectOf[c] = p
                   /\ Settled[c].status \in Held}

QueuedCases(p) == {c \in Cases : Settled[c].status = "queued" /\ ProjectOf[c] = p}

\* The runner is handed the lease it already holds, with sequence 0 again.
ClaimExisting(k, r, c) ==
    /\ Authentic(k)
    /\ First(c, ActiveCases(r, KeyProject[k]))
    /\ ExpireLeases
    /\ UNCHANGED <<keyState, queue>>

\* Variation: the earlier leases of the case are left as they are.
SupersedingNothing(c) == SettledLeases

\* The lease table once every earlier lease of c is superseded.
Superseding(c) ==
    [t \in DOMAIN leases |->
        IF leases[t].case_execution_id = c
        THEN [leases[t] EXCEPT !.superseded = TRUE] ELSE SettledLeases[t]]

\* Variation: a new holder starts the case over.
GrantedAfresh(record, r, t) ==
    [record EXCEPT !.lease = t, !.left = LeaseTTL, !.status = "leased", !.claimed_by = r,
                   !.turns = << >>, !.expected_sequence = 0]

\* The turns and the cursor an earlier holder left stay.
Granted(record, r, t) ==
    [record EXCEPT !.lease = t, !.left = LeaseTTL, !.status = "leased", !.claimed_by = r]

\* _grant_lease, for the first queued case when the runner holds none.
GrantLease(k, r, c) ==
    /\ Authentic(k)
    /\ Len(leases) < MaxLeases
    /\ ActiveCases(r, KeyProject[k]) = {}
    /\ First(c, QueuedCases(KeyProject[k]))
    /\ leases' = Append(Superseding(c), [runner_id |-> r, case_execution_id |-> c,
                                         superseded |-> FALSE])
    /\ cases' = [Settled EXCEPT ![c] = Granted(@, r, Len(leases) + 1)]
    /\ UNCHANGED <<keyState, queue>>

NoWork(k, r) ==
    /\ Authentic(k)
    /\ ActiveCases(r, KeyProject[k]) = {}
    /\ QueuedCases(KeyProject[k]) = {}
    /\ ExpireLeases
    /\ UNCHANGED <<keyState, queue>>

Claim(k, r) == \/ \E c \in Cases : ClaimExisting(k, r, c) \/ GrantLease(k, r, c)
               \/ NoWork(k, r)

-----------------------------------------------------------------------------
(* POST /v1/case-executions/{id}/turn *)

\* _next_action: the script goes on until its last turn has been answered.
NextAction(c, q) == IF q + 1 < TurnCount[c] THEN "continue" ELSE "finish"

\* Variation: nothing is replayed.
ReplayedNever(c, q, i) == {}

\* Variation: a key recorded under another sequence number is not noticed.
ReplayedBySequence(c, q, i) == {n \in DOMAIN cases[c].turns : cases[c].turns[n].sequence = q}

\* Turns whose stored answer replies to a submission: by key, else by sequence.
Replayed(c, q, i) ==
    LET byKey == {n \in DOMAIN cases[c].turns : cases[c].turns[n].idempotency_key = i}
        bySequence == {n \in DOMAIN cases[c].turns : cases[c].turns[n].sequence = q}
    IN  IF byKey # {} THEN byKey ELSE bySequence

TurnVerdict(k, c, t, q, i) ==
    CASE Authorized(k, c) # "ok" -> Authorized(k, c)
      [] Authorized(k, c) = "ok" /\ RequireLease(c, t) # "ok" -> RequireLease(c, t)
      [] OTHER ->
         CASE Settled[c].status \in Terminal -> "already_completed"
           [] Settled[c].status \notin Terminal /\ Replayed(c, q, i) # {} -> "replayed"
           [] OTHER -> IF q = cases[c].expected_sequence
                       THEN "accepted" ELSE "sequence_conflict"

AcceptTurn(k, c, t, q, i, o) ==
    /\ TurnVerdict(k, c, t, q, i) = "accepted"
    /\ cases' = [Settled EXCEPT
          ![c].turns = Append(@, [sequence |-> q, idempotency_key |-> i, event |-> o,
                                  next_action |-> NextAction(c, q)]),
          ![c].expected_sequence = q + 1,
          ![c].status = "running",
          ![c].left = LeaseTTL]
    /\ leases' = SettledLeases

SubmitTurn(k, c, t, q, i, o) ==
    /\ Authentic(k)
    /\ \/ AcceptTurn(k, c, t, q, i, o)
       \/ TurnVerdict(k, c, t, q, i) # "accepted" /\ ExpireLeases
    /\ UNCHANGED <<keyState, queue>>

-----------------------------------------------------------------------------
(* POST /v1/case-executions/{id}/complete *)

\* A recorded completion answers before the lease is looked at, so that a
\* completion resent after its lease was given up is still acknowledged.
CompleteVerdict(k, c, t, i) ==
    CASE Authorized(k, c) # "ok" -> Authorized(k, c)
      [] Authorized(k, c) = "ok" /\ cases[c].completion # None ->
         IF cases[c].completion.idempotency_key = i THEN "replayed" ELSE "already_completed"
      [] OTHER -> IF RequireLease(c, t) = "ok" THEN "accepted" ELSE RequireLease(c, t)

\* Variation: a canceled case is filed like any other.
FinalStatusIgnoresCancel(outcome) == "submitted"

FinalStatus(outcome) == IF outcome = "canceled" THEN "canceled" ELSE "submitted"

AcceptCompletion(k, c, t, i, outcome) ==
    /\ CompleteVerdict(k, c, t, i) = "accepted"
    /\ cases' = [Settled EXCEPT
          ![c].status = FinalStatus(outcome),
          ![c].completion = [idempotency_key |-> i, event |-> outcome,
                             accepted |-> IF outcome = "completed"
                                          THEN "evaluation_queued" ELSE "recorded"],
          ![c].lease = 0,
          ![c].left = 0]
    /\ leases' = [SettledLeases EXCEPT ![t].superseded = TRUE]

Complete(k, c, t, i, outcome) ==
    /\ Authentic(k)
    /\ \/ AcceptCompletion(k, c, t, i, outcome)
       \/ CompleteVerdict(k, c, t, i) # "accepted" /\ ExpireLeases
    /\ UNCHANGED <<keyState, queue>>

-----------------------------------------------------------------------------
(* POST /v1/case-executions/{id}/heartbeat *)

HeartbeatVerdict(k, c, t) ==
    CASE Authorized(k, c) # "ok" -> Authorized(k, c)
      [] Authorized(k, c) = "ok" /\ RequireLease(c, t) # "ok" -> RequireLease(c, t)
      [] OTHER -> IF Settled[c].status \in Terminal THEN "already_completed" ELSE "accepted"

Heartbeat(k, c, t) ==
    /\ Authentic(k)
    /\ \/ /\ HeartbeatVerdict(k, c, t) = "accepted"
          /\ cases' = [Settled EXCEPT ![c].left = LeaseTTL]
          /\ leases' = SettledLeases
       \/ HeartbeatVerdict(k, c, t) # "accepted" /\ ExpireLeases
    /\ UNCHANGED <<keyState, queue>>

-----------------------------------------------------------------------------
(* The clock: time passes for every lease that is still held. *)

\* Variation: time goes on for a lease that has run out.
AgedPastZero(record) == [record EXCEPT !.left = @ - 1]

Aged(record) == [record EXCEPT !.left = IF @ > 0 THEN @ - 1 ELSE 0]

Tick == /\ cases' = [c \in Cases |-> Aged(cases[c])]
        /\ UNCHANGED <<keyState, queue, leases>>

Next == \/ \E k \in Keys :
             \/ CreateKey(k) \/ RevokeKey(k)
             \/ \E r \in Runners : Claim(k, r)
             \/ \E c \in Cases, t \in 0..Len(leases) :
                  \/ Heartbeat(k, c, t)
                  \/ \E i \in IdemKeys :
                       \/ \E q \in 0..MaxSequence, o \in Outputs : SubmitTurn(k, c, t, q, i, o)
                       \/ \E outcome \in Outcomes : Complete(k, c, t, i, outcome)
        \/ \E c \in Cases : Enqueue(c)
        \/ Tick

Spec == Init /\ [][Next]_vars

-----------------------------------------------------------------------------
(* Correctness *)

\* Every variable holds a value of its type.
TypeOK ==
    /\ keyState \in [Keys -> {"absent", "active", "revoked"}]
    /\ queue \in Seq(Cases)
    /\ cases \in [Cases -> CaseRecord]
    /\ leases \in Seq(Lease)

\* A case is leased or running exactly while it holds a lease, and then the
\* lease is the newest one granted for it, was granted to the runner that is
\* named as claiming it, and is the only one of the case not superseded
\* (_grant_lease, _expire_one, complete).
LeaseDiscipline ==
    \A c \in Cases :
       /\ cases[c].lease # 0 <=> cases[c].status \in Held
       /\ cases[c].lease # 0 =>
            /\ cases[c].lease \in DOMAIN leases
            /\ leases[cases[c].lease].case_execution_id = c
            /\ leases[cases[c].lease].runner_id = cases[c].claimed_by
            /\ \A t \in DOMAIN leases :
                  leases[t].case_execution_id = c =>
                     t <= cases[c].lease /\ (leases[t].superseded <=> t # cases[c].lease)

\* A runner never holds two cases of one project at once, although it may
\* claim as often as it likes (claim, _active_lease_for).
OneLeasePerRunner ==
    \A c, d \in Cases :
       /\ cases[c].lease # 0 /\ cases[d].lease # 0
       /\ ProjectOf[c] = ProjectOf[d]
       /\ cases[c].claimed_by = cases[d].claimed_by
       => c = d

\* The cursor counts the recorded turns, the turns carry the sequence numbers
\* 0, 1, 2, ... without a gap, no idempotency key is recorded twice, and the
\* stored answers walk through the script (submit_turn).
GaplessTurns ==
    \A c \in Cases :
       /\ cases[c].expected_sequence = Len(cases[c].turns)
       /\ \A n \in DOMAIN cases[c].turns :
            /\ cases[c].turns[n].sequence = n - 1
            /\ cases[c].turns[n].next_action = NextAction(c, n - 1)
            /\ \A m \in DOMAIN cases[c].turns :
                  cases[c].turns[m].idempotency_key = cases[c].turns[n].idempotency_key
                  => m = n

\* A case is terminal exactly when a completion is recorded for it, so that no
\* lease is ever out on it again, and its status is the one the recorded event
\* calls for (complete).
TerminalMeansSealed ==
    \A c \in Cases :
       /\ cases[c].status \in Terminal <=> cases[c].completion # None
       /\ cases[c].completion # None =>
            /\ cases[c].status = "canceled" <=> cases[c].completion.event = "canceled"
            /\ cases[c].completion.accepted = "evaluation_queued"
               <=> cases[c].completion.event = "completed"

\* How far a token has degraded: in force, run out, superseded.
TokenRank(c, t) ==
    [ok |-> 0, lease_expired |-> 1, lease_invalid |-> 2][RequireLease(c, t)]

\* What the server says of a token only ever gets worse: a lease that ran out
\* never comes back, and after a runner has been told lease_invalid for it it
\* is never told lease_expired again, whatever happens to the later leases of
\* the case (_require_lease, and the superseded flags it reads).
TokensOnlyDegrade ==
    [][\A c \in Cases, t \in DOMAIN leases :
         leases[t].case_execution_id = c => TokenRank(c, t)' >= TokenRank(c, t)]_vars

\* Evidence is written for one case at a time, and only while a lease on that
\* case is out and has time left (submit_turn, complete, _expire_leases).
EvidenceUnderLease ==
    [][\A c \in Cases :
         \/ cases'[c].turns = cases[c].turns /\ cases'[c].completion = cases[c].completion
         \/ /\ cases[c].lease # 0 /\ cases[c].left > 0
            /\ \A d \in Cases \ {c} : cases'[d].turns = cases[d].turns
                                      /\ cases'[d].completion = cases[d].completion]_vars

\* A case is granted, answered, completed or kept alive only while some key of
\* its own project is active: a revoked key, or one of another project, can at
\* most make an overdue lease lapse (authenticate, _authorized_case, claim).
ProjectIsolation ==
    [][\A c \in Cases :
         \/ \E k \in Keys : Authentic(k) /\ KeyProject[k] = ProjectOf[c]
         \/ /\ cases'[c].turns = cases[c].turns /\ cases'[c].completion = cases[c].completion
            /\ cases'[c].lease \in {0, cases[c].lease}
            /\ cases'[c].left <= cases[c].left]_vars

\* Whoever holds the case, its evidence is an append-only log that is sealed
\* once: the server implements EvidenceLog.
Log == INSTANCE EvidenceLog WITH log <- [c \in Cases |-> cases[c].turns],
                                 seal <- [c \in Cases |-> cases[c].completion]
ImplementsLog == Log!Spec
=============================================================================
