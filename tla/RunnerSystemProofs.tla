------------------------- MODULE RunnerSystemProofs -------------------------
(***************************************************************************)
(* Proofs about runners, orchestrator and network together, for any number *)
(* of runners and cases, scripts of any length, any number of kills,       *)
(* faults and retries, and whether or not the target and the disk raise.   *)
(*                                                                         *)
(* What serving a request does is taken from RunnerHttpProofs.  The        *)
(* invariant says of every request on its way, or saved to be sent again,  *)
(* that it may be served at any time and any number of times.              *)
(***************************************************************************)
EXTENDS RunnerSystem, TLAPS

Http == INSTANCE RunnerHttpProofs WITH
    Keys <- {RunnerKey}, Projects <- {Project},
    ProjectOf <- [c \in Cases |-> Project], KeyProject <- [k \in {RunnerKey} |-> Project],
    IdemKeys <- Keys, Outputs <- Outputs, MaxSequence <- 0

-----------------------------------------------------------------------------
(* The orchestrator as the system sees it *)

LEMMA HttpAssumptions == Http!ConstantsAssumption /\ Http!NoneAssumption
<1>1. Http!ConstantsAssumption
  BY SystemAssumption DEF Http!ConstantsAssumption
<1>2. Server!CompletionRecord = Http!CompletionRecord
  BY DEF Server!CompletionRecord, Http!CompletionRecord, Server!Outcomes, Http!Outcomes
<1> QED
  BY <1>1, <1>2, SystemAssumption DEF Http!NoneAssumption

\* The two instances of RunnerHttp are the same.
LEMMA SameServer ==
    ASSUME NEW r, NEW req
    PROVE  /\ Server!Serves(RunnerKey, r, req) <=> Http!Serves(RunnerKey, r, req)
           /\ Server!Reply(RunnerKey, r, req) = Http!Reply(RunnerKey, r, req)
           /\ Server!Tick <=> Http!Tick
<1>1. Server!Serves(RunnerKey, r, req) <=> Http!Serves(RunnerKey, r, req)
  BY DEF Server!Serves, Http!Serves, Server!Unauthenticated, Http!Unauthenticated,
         Server!Authentic, Http!Authentic, Server!Claim, Http!Claim, Server!ClaimExisting,
         Http!ClaimExisting, Server!GrantLease, Http!GrantLease, Server!NoWork, Http!NoWork,
         Server!First, Http!First, Server!ActiveCases, Http!ActiveCases, Server!QueuedCases,
         Http!QueuedCases, Server!Superseding, Http!Superseding, Server!Granted, Http!Granted,
         Server!Settled, Http!Settled, Server!SettledLeases, Http!SettledLeases, Server!Expired,
         Http!Expired, Server!ExpireOne, Http!ExpireOne, Server!ExpireLeases, Http!ExpireLeases,
         Server!Heartbeat, Http!Heartbeat, Server!HeartbeatVerdict, Http!HeartbeatVerdict,
         Server!Authorized, Http!Authorized, Server!RequireLease, Http!RequireLease,
         Server!SubmitTurn, Http!SubmitTurn, Server!AcceptTurn, Http!AcceptTurn,
         Server!TurnVerdict, Http!TurnVerdict, Server!Replayed, Http!Replayed,
         Server!NextAction, Http!NextAction, Server!Complete, Http!Complete,
         Server!AcceptCompletion, Http!AcceptCompletion, Server!CompleteVerdict,
         Http!CompleteVerdict, Server!FinalStatus, Http!FinalStatus, Server!vars, Http!vars,
         Server!Held, Http!Held, Server!Terminal, Http!Terminal
<1>2. Server!Reply(RunnerKey, r, req) = Http!Reply(RunnerKey, r, req)
  BY DEF Server!Reply, Http!Reply, Server!ClaimReply, Http!ClaimReply, Server!TurnReply,
         Http!TurnReply, Server!Authentic, Http!Authentic, Server!First, Http!First,
         Server!ActiveCases, Http!ActiveCases, Server!QueuedCases, Http!QueuedCases,
         Server!Settled, Http!Settled, Server!SettledLeases, Http!SettledLeases, Server!Expired,
         Http!Expired, Server!ExpireOne, Http!ExpireOne, Server!HeartbeatVerdict,
         Http!HeartbeatVerdict, Server!Authorized, Http!Authorized, Server!RequireLease,
         Http!RequireLease, Server!TurnVerdict, Http!TurnVerdict, Server!Replayed,
         Http!Replayed, Server!NextAction, Http!NextAction, Server!CompleteVerdict,
         Http!CompleteVerdict, Server!Held, Http!Held, Server!Terminal, Http!Terminal
<1>3. Server!Tick <=> Http!Tick
  BY DEF Server!Tick, Http!Tick, Server!Aged, Http!Aged
<1> QED
  BY <1>1, <1>2, <1>3

LEMMA SameHeartbeat ==
    ASSUME NEW c, NEW t
    PROVE  Server!Heartbeat(RunnerKey, c, t) <=> Http!Heartbeat(RunnerKey, c, t)
BY DEF Server!Heartbeat, Http!Heartbeat, Server!Authentic, Http!Authentic, Server!Settled,
       Http!Settled, Server!SettledLeases, Http!SettledLeases, Server!Expired, Http!Expired,
       Server!ExpireOne, Http!ExpireOne, Server!ExpireLeases, Http!ExpireLeases,
       Server!HeartbeatVerdict, Http!HeartbeatVerdict, Server!Authorized, Http!Authorized,
       Server!RequireLease, Http!RequireLease, Server!Held, Http!Held, Server!Terminal,
       Http!Terminal

-----------------------------------------------------------------------------
(* The invariant *)

\* The keys handed out so far.
UsedKeys == {key \in Keys : key[2] <= minted[key[1]]}

\* At least n turns of case c have been recorded.
Reached(c, n) == n <= Len(cases[c].turns)

GoodTurn(req) ==
    /\ req.sequence < TurnCount[req.case]
    /\ req.key \in UsedKeys
    /\ req.output.heard = Inputs(req.sequence + 1)

GoodCompletion(req) == req.outcome = "completed" => Reached(req.case, TurnCount[req.case])

\* A request that does no harm whenever, and however often, it is served.
Good(req) ==
    /\ req \in Requests
    /\ req.op = "turn" => GoodTurn(req)
    /\ req.op = "complete" => GoodCompletion(req)

\* The submission saved for a turn is the one of that turn, under its key.
SavedTurn(ckpt) ==
    /\ ckpt.submission.op = "turn"
    /\ ckpt.submission.case = ckpt.case
    /\ ckpt.submission.sequence = ckpt.pending
    /\ ckpt.submission.key = ckpt.turn_key

\* A checkpoint that runner r may resume from.
Sound(r, ckpt) ==
    /\ ckpt \in Checkpoints
    /\ ckpt.submitted = Inputs(Len(ckpt.submitted))
    /\ Reached(ckpt.case, Len(ckpt.submitted))
    /\ ckpt.submission # None => Good(ckpt.submission)
    /\ ckpt.phase = "turn" =>
         /\ ckpt.pending = Len(ckpt.submitted)
         /\ ckpt.pending < TurnCount[ckpt.case]
         /\ ckpt.turn_key \in UsedKeys /\ ckpt.turn_key[1] = r
         /\ ckpt.submission # None => SavedTurn(ckpt)
    /\ ckpt.phase = "complete" =>
         /\ ckpt.submission # None
         /\ ckpt.submission.op = "complete" /\ ckpt.submission.case = ckpt.case

InTurns(r) == disk[r] # None /\ disk[r].phase = "turn"
Completing(r) == /\ disk[r] # None /\ disk[r].phase = "complete"
                 /\ proc[r].request = disk[r].submission
Entered(r) == proc[r].entry # None /\ Sound(r, proc[r].entry)

ProcFields == {"at", "entry", "current", "session", "parents", "request", "answer", "attempt"}

\* What a claim, and a turn, may have been answered.
ClaimAnswerSound(r) ==
    proc[r].answer # None /\ proc[r].answer.verdict = "leased" =>
       proc[r].answer.case \in Cases /\ proc[r].answer.lease \in Nat \ {0}

TurnAnswerSound(r) ==
    proc[r].answer # None /\ Succeeded(r) =>
       /\ proc[r].answer.input = disk[r].pending + 1
       /\ Reached(disk[r].case, disk[r].pending + 1)
       /\ proc[r].answer.action = Http!NextAction(disk[r].case, disk[r].pending)

\* What the process of r has in memory agrees with its checkpoint.
ProcSound(r) ==
    /\ DOMAIN proc[r] = ProcFields
    /\ proc[r].at \in {"off", "claim", "resume", "send", "turn", "complete", "failing"}
    /\ At(r, "off") => proc[r].request = None
    /\ At(r, "claim") => proc[r].request = ClaimRequest /\ ClaimAnswerSound(r)
    /\ At(r, "resume") => InTurns(r) /\ proc[r].request.op = "heartbeat"
    /\ At(r, "send") =>
         /\ InTurns(r) /\ Entered(r) /\ proc[r].current = disk[r]
         /\ proc[r].session = disk[r].submitted
         /\ proc[r].request = None
    /\ At(r, "turn") =>
         /\ InTurns(r) /\ Entered(r) /\ proc[r].current = disk[r]
         /\ proc[r].session = Append(disk[r].submitted, disk[r].pending)
         /\ disk[r].submission # None /\ proc[r].request = disk[r].submission
         /\ TurnAnswerSound(r)
    /\ At(r, "complete") => Completing(r) /\ Entered(r)
    /\ At(r, "failing") => Completing(r)

DiskSound(r) == disk[r] # None => Sound(r, disk[r])

\* Nothing is on its way, or recorded, under the key of a turn without submission.
Fresh(r) ==
    InTurns(r) /\ disk[r].submission = None =>
       /\ \A req \in OutstandingOf("turn") : req.key # disk[r].turn_key
       /\ \A c \in Cases : \A n \in DOMAIN cases[c].turns :
             cases[c].turns[n].idempotency_key # disk[r].turn_key

RequestsSound == \A req \in Outstanding : req # None => Good(req)

RecordsSound ==
    \A c \in Cases :
       /\ Len(cases[c].turns) <= TurnCount[c]
       /\ \A n \in DOMAIN cases[c].turns :
            /\ cases[c].turns[n].event.heard = Inputs(n)
            /\ cases[c].turns[n].idempotency_key \in UsedKeys
       /\ cases[c].completion # None /\ cases[c].completion.event = "completed"
          => Reached(c, TurnCount[c])

Typed ==
    /\ disk \in [Runners -> Checkpoints \union {None}]
    /\ DOMAIN proc = Runners
    /\ minted \in [Runners -> Nat]
    /\ \A m \in late : m.runner \in Runners /\ m.request # None

\* All of it but what the processes have in memory.
StateSound ==
    /\ Typed
    /\ Http!IInv
    /\ RequestsSound
    /\ \A r \in Runners : DiskSound(r) /\ Fresh(r)
    /\ RecordsSound
    /\ TurnKeyFixesBody

\* The inductive invariant.
SysInv == StateSound /\ \A r \in Runners : ProcSound(r)

-----------------------------------------------------------------------------
(* Data *)

LEMMA InputsParts ==
    ASSUME NEW n \in Nat
    PROVE  /\ Inputs(n) \in Seq(Nat) /\ Len(Inputs(n)) = n
           /\ Append(Inputs(n), n) = Inputs(n + 1)
<1>1. Inputs(n) \in Seq(Nat) /\ Len(Inputs(n)) = n
  BY DEF Inputs
<1>2. Append(Inputs(n), n) = Inputs(n + 1)
  BY DEF Inputs
<1> QED
  BY <1>1, <1>2

LEMMA NoInputs == Inputs(0) = << >>
BY DEF Inputs

\* Which requests are outstanding.
LEMMA OutstandingParts ==
    /\ \A r \in Runners : proc[r].request \in Outstanding
    /\ \A r \in Runners : disk[r] # None => disk[r].submission \in Outstanding
    /\ \A m \in late : m.request \in Outstanding
    /\ \A req \in Outstanding :
          \/ \E r \in Runners : req = proc[r].request
          \/ \E r \in Runners : disk[r] # None /\ req = disk[r].submission
          \/ \E m \in late : req = m.request
BY DEF Outstanding

LEMMA RequestKinds ==
    ASSUME NEW req \in Requests
    PROVE  /\ req # None
           /\ req.op \in {"claim", "heartbeat", "turn", "complete"}
           /\ req.op = "claim" => req = ClaimRequest
           /\ req.op = "heartbeat" => req.case \in Cases
           /\ req.op = "turn" => req \in TurnRequests
           /\ req.op = "complete" => req \in CompleteRequests
<1>1. req # None
  BY SystemAssumption
<1> QED
  BY <1>1 DEF Requests, TurnRequests, CompleteRequests, ClaimRequest

\* A good request is one that the orchestrator understands.
LEMMA GoodIsWellFormed ==
    ASSUME NEW req, Good(req)
    PROVE  Http!WellFormed(req)
BY RequestKinds DEF Good, Http!WellFormed, TurnRequests, CompleteRequests, Http!Outcomes

LEMMA WaitingParts ==
    ASSUME NEW p, DOMAIN p = ProcFields, NEW at, NEW request
    PROVE  LET w == Waiting(p, at, request) IN
           /\ DOMAIN w = ProcFields
           /\ w.at = at /\ w.request = request /\ w.answer = None
           /\ w.entry = p.entry /\ w.current = p.current /\ w.session = p.session
           /\ w.parents = p.parents /\ w.attempt = 1
BY DEF Waiting, ProcFields

LEMMA OffParts == DOMAIN Off = ProcFields /\ Off.at = "off" /\ Off.request = None
BY DEF Off, ProcFields

LEMMA TurnsTyped ==
    ASSUME Http!IInv, NEW c \in Cases
    PROVE  /\ cases[c].turns \in Seq(Http!TurnRecord)
           /\ Len(cases[c].turns) \in Nat
           /\ DOMAIN cases[c].turns = 1..Len(cases[c].turns)
BY DEF Http!IInv, Http!StateInv, Http!CaseRecord

\* The next key has not been handed out.
LEMMA NewKeyParts ==
    ASSUME Typed, NEW r \in Runners
    PROVE  NewKey(r) \in Keys /\ NewKey(r)[1] = r /\ NewKey(r) \notin UsedKeys
BY DEF Typed, NewKey, Keys, UsedKeys

-----------------------------------------------------------------------------
(* What is gained is not lost *)

\* Turns are added and keys are handed out: whatever was good stays good.
Grows ==
    /\ Typed /\ Typed'
    /\ \A c \in Cases : Len(cases[c].turns) \in Nat /\ Len(cases'[c].turns) \in Nat
                        /\ Len(cases[c].turns) <= Len(cases'[c].turns)
    /\ \A r \in Runners : minted[r] <= minted'[r]

LEMMA UsedStayUsed ==
    ASSUME Grows, NEW key \in UsedKeys
    PROVE  key \in UsedKeys'
BY DEF Grows, Typed, UsedKeys, Keys

LEMMA ReachedStaysReached ==
    ASSUME Grows, NEW c \in Cases, NEW n \in Nat, Reached(c, n)
    PROVE  Reached(c, n)'
BY DEF Grows, Reached

LEMMA GoodStaysGood ==
    ASSUME Grows, NEW req, Good(req)
    PROVE  Good(req)'
<1>1. req \in Requests
  BY DEF Good
<1>2. req.op = "turn" => GoodTurn(req)'
  BY UsedStayUsed DEF Good, GoodTurn
<1>3. req.op = "complete" => GoodCompletion(req)'
  <2> SUFFICES ASSUME req.op = "complete", req.outcome = "completed"
               PROVE  Reached(req.case, TurnCount[req.case])'
    BY DEF GoodCompletion
  <2>1. req.case \in Cases /\ TurnCount[req.case] \in Nat
    BY <1>1, RequestKinds, SystemAssumption DEF CompleteRequests
  <2> QED
    BY <2>1, ReachedStaysReached DEF Good, GoodCompletion
<1> QED
  BY <1>1, <1>2, <1>3 DEF Good

LEMMA SoundStaysSound ==
    ASSUME Grows, NEW r \in Runners, NEW ckpt, Sound(r, ckpt)
    PROVE  Sound(r, ckpt)'
<1>1. ckpt \in Checkpoints
  BY DEF Sound
<1>2. ckpt.case \in Cases /\ Len(ckpt.submitted) \in Nat
  BY <1>1 DEF Checkpoints
<1>3. Reached(ckpt.case, Len(ckpt.submitted))'
  BY <1>2, ReachedStaysReached DEF Sound
<1>4. ckpt.submission # None => Good(ckpt.submission)'
  BY GoodStaysGood DEF Sound
<1>5. ckpt.phase = "turn" => ckpt.turn_key \in UsedKeys'
  BY UsedStayUsed DEF Sound
<1> QED
  BY <1>1, <1>3, <1>4, <1>5 DEF Sound

\* What runner r has, and does not touch, stays sound.
LEMMA RunnerStaysSound ==
    ASSUME Grows, NEW r \in Runners, DiskSound(r), ProcSound(r),
           disk'[r] = disk[r], proc'[r] = proc[r]
    PROVE  DiskSound(r)' /\ ProcSound(r)'
<1>1. DiskSound(r)'
  BY SoundStaysSound DEF DiskSound
<1>2. Entered(r) => Entered(r)'
  BY SoundStaysSound DEF Entered
<1>3. InTurns(r) <=> InTurns(r)'
  BY DEF InTurns
<1>4. InTurns(r) /\ TurnAnswerSound(r) => TurnAnswerSound(r)'
  <2> SUFFICES ASSUME InTurns(r), TurnAnswerSound(r), proc[r].answer # None, Succeeded(r)
               PROVE  Reached(disk[r].case, disk[r].pending + 1)'
    BY DEF TurnAnswerSound, Succeeded
  <2>1. /\ disk[r].case \in Cases /\ disk[r].pending + 1 \in Nat
        /\ Reached(disk[r].case, disk[r].pending + 1)
    BY DEF DiskSound, Sound, InTurns, TurnAnswerSound, Checkpoints
  <2> QED
    BY <2>1, ReachedStaysReached
<1> QED
  BY <1>1, <1>2, <1>3, <1>4 DEF ProcSound, At, Completing, ClaimAnswerSound

-----------------------------------------------------------------------------
(* A step of the orchestrator *)

\* What a good request, or a request that is not a turn, does to the evidence.
LEMMA EffectParts ==
    ASSUME StateSound, Http!IInv', NEW req, Http!Effect(req), UNCHANGED <<disk, minted>>, Typed',
           req.op \in {"turn", "complete"} => Good(req)
    PROVE  /\ Grows
           /\ \A c \in Cases :
                \/ cases'[c].turns = cases[c].turns
                \/ /\ req.op = "turn" /\ c = req.case /\ req.sequence = Len(cases[c].turns)
                   /\ cases'[c].turns # << >>
                   /\ Len(cases'[c].turns) = req.sequence + 1
                   /\ cases'[c].turns[req.sequence + 1].event = req.output
                   /\ cases'[c].turns[req.sequence + 1].idempotency_key = req.key
                   /\ \A n \in 1..req.sequence : cases'[c].turns[n] = cases[c].turns[n]
<1>1. ASSUME NEW c \in Cases
      PROVE  \/ cases'[c].turns = cases[c].turns
             \/ /\ req.op = "turn" /\ c = req.case /\ req.sequence = Len(cases[c].turns)
                /\ cases'[c].turns # << >>
                /\ Len(cases'[c].turns) = req.sequence + 1
                /\ cases'[c].turns[req.sequence + 1].event = req.output
                /\ cases'[c].turns[req.sequence + 1].idempotency_key = req.key
                /\ \A n \in 1..req.sequence : cases'[c].turns[n] = cases[c].turns[n]
  <2> SUFFICES ASSUME Http!Appended(c, req)
               PROVE  /\ req.op = "turn" /\ c = req.case /\ req.sequence = Len(cases[c].turns)
                      /\ cases'[c].turns # << >>
                      /\ Len(cases'[c].turns) = req.sequence + 1
                      /\ cases'[c].turns[req.sequence + 1].event = req.output
                      /\ cases'[c].turns[req.sequence + 1].idempotency_key = req.key
                      /\ \A n \in 1..req.sequence : cases'[c].turns[n] = cases[c].turns[n]
    BY DEF Http!Effect, Http!TurnsEffect
  <2> DEFINE turn == [sequence |-> req.sequence, idempotency_key |-> req.key,
                      event |-> req.output, next_action |-> Http!NextAction(c, req.sequence)]
  <2>1. cases'[c].turns = Append(cases[c].turns, turn) /\ req.sequence = Len(cases[c].turns)
    BY DEF Http!Appended
  <2>2. cases[c].turns \in Seq(Http!TurnRecord) /\ Len(cases[c].turns) \in Nat
    BY TurnsTyped DEF StateSound
  <2>3. turn.event = req.output /\ turn.idempotency_key = req.key
    OBVIOUS
  <2> HIDE DEF turn
  <2>4. /\ cases'[c].turns # << >>
        /\ Len(cases'[c].turns) = req.sequence + 1
        /\ cases'[c].turns[req.sequence + 1] = turn
        /\ \A n \in 1..req.sequence : cases'[c].turns[n] = cases[c].turns[n]
    BY <2>1, <2>2
  <2> QED
    BY <2>1, <2>3, <2>4 DEF Http!Appended
<1>2. Grows
  <2>1. ASSUME NEW c \in Cases
        PROVE  /\ Len(cases[c].turns) \in Nat /\ Len(cases'[c].turns) \in Nat
               /\ Len(cases[c].turns) <= Len(cases'[c].turns)
    <3>1. Len(cases[c].turns) \in Nat
      BY TurnsTyped DEF StateSound
    <3> QED
      BY <1>1, <3>1
  <2>2. \A r \in Runners : minted[r] <= minted'[r]
    BY DEF StateSound, Typed
  <2> QED
    BY <2>1, <2>2 DEF Grows, StateSound
<1> QED
  BY <1>1, <1>2

\* Serving a good request keeps everything sound.
LEMMA ServerStep ==
    ASSUME StateSound, Http!IInv', NEW req, Http!Effect(req),
           req \in OutstandingOf("turn") \/ req.op # "turn",
           req.op \in {"turn", "complete"} => Good(req),
           UNCHANGED <<disk, minted>>, late' \subseteq late, DOMAIN proc' = Runners,
           \A q \in Runners : proc'[q].request = proc[q].request
    PROVE  StateSound' /\ Grows
<1>1. Typed'
  BY DEF StateSound, Typed
<1>2. /\ Outstanding' \subseteq Outstanding
      /\ OutstandingOf("turn")' \subseteq OutstandingOf("turn")
  <2>1. Outstanding' \subseteq Outstanding
    BY DEF Outstanding
  <2> QED
    BY <2>1 DEF OutstandingOf
<1> DEFINE Added(c) ==
             /\ req.op = "turn" /\ c = req.case /\ req.sequence = Len(cases[c].turns)
             /\ cases'[c].turns # << >>
             /\ Len(cases'[c].turns) = req.sequence + 1
             /\ cases'[c].turns[req.sequence + 1].event = req.output
             /\ cases'[c].turns[req.sequence + 1].idempotency_key = req.key
             /\ \A n \in 1..req.sequence : cases'[c].turns[n] = cases[c].turns[n]
<1>3. Grows /\ \A c \in Cases : cases'[c].turns = cases[c].turns \/ Added(c)
  BY <1>1, EffectParts
<1>4. RequestsSound'
  BY <1>2, <1>3, GoodStaysGood DEF StateSound, RequestsSound
<1>5. ASSUME NEW r \in Runners
      PROVE  DiskSound(r)'
  BY <1>3, SoundStaysSound DEF StateSound, DiskSound
\* A turn that is recorded now has the key and the answer of the request.
<1>6. ASSUME NEW c \in Cases, NEW n \in DOMAIN cases'[c].turns
      PROVE  \/ n \in DOMAIN cases[c].turns /\ cases'[c].turns[n] = cases[c].turns[n]
             \/ /\ req.op = "turn" /\ c = req.case /\ n = req.sequence + 1
                /\ cases'[c].turns[n].event = req.output
                /\ cases'[c].turns[n].idempotency_key = req.key
  <2>1. /\ DOMAIN cases[c].turns = 1..Len(cases[c].turns) /\ Len(cases[c].turns) \in Nat
        /\ DOMAIN cases'[c].turns = 1..Len(cases'[c].turns)
    BY TurnsTyped DEF StateSound
  <2>2. CASE cases'[c].turns = cases[c].turns
    BY <2>2
  <2>3. CASE Added(c)
    <3>1. n \in 1..req.sequence \/ n = req.sequence + 1
      BY <2>1, <2>3
    <3> QED
      BY <2>1, <2>3, <3>1
  <2> QED
    BY <1>3, <2>2, <2>3
<1>7. ASSUME NEW r \in Runners
      PROVE  Fresh(r)'
  <2> SUFFICES ASSUME InTurns(r), disk[r].submission = None
               PROVE  /\ \A other \in OutstandingOf("turn")' : other.key # disk[r].turn_key
                      /\ \A c \in Cases : \A n \in DOMAIN cases'[c].turns :
                            cases'[c].turns[n].idempotency_key # disk[r].turn_key
    BY DEF Fresh, InTurns
  <2>1. Fresh(r)
    BY DEF StateSound
  <2>2. ASSUME NEW c \in Cases, NEW n \in DOMAIN cases'[c].turns
        PROVE  cases'[c].turns[n].idempotency_key # disk[r].turn_key
    BY <1>6, <2>1, <2>2 DEF Fresh
  <2> QED
    BY <1>2, <2>1, <2>2 DEF Fresh
<1>8. RecordsSound'
  <2> SUFFICES ASSUME NEW c \in Cases
               PROVE  /\ Len(cases'[c].turns) <= TurnCount[c]
                      /\ \A n \in DOMAIN cases'[c].turns :
                           /\ cases'[c].turns[n].event.heard = Inputs(n)
                           /\ cases'[c].turns[n].idempotency_key \in UsedKeys'
                      /\ cases'[c].completion # None
                         /\ cases'[c].completion.event = "completed"
                         => Reached(c, TurnCount[c])'
    BY DEF RecordsSound, Reached
  <2>1. req.op = "turn" => GoodTurn(req) /\ req.sequence \in Nat
    BY RequestKinds DEF Good, TurnRequests
  <2>2. TurnCount[c] \in Nat
    BY SystemAssumption
  <2>3. Len(cases'[c].turns) <= TurnCount[c]
    BY <1>3, <2>1, <2>2 DEF GoodTurn, StateSound, RecordsSound
  <2>4. ASSUME NEW n \in DOMAIN cases'[c].turns
        PROVE  /\ cases'[c].turns[n].event.heard = Inputs(n)
               /\ cases'[c].turns[n].idempotency_key \in UsedKeys'
    <3>1. CASE n \in DOMAIN cases[c].turns /\ cases'[c].turns[n] = cases[c].turns[n]
      BY <1>3, <3>1, UsedStayUsed DEF StateSound, RecordsSound
    <3>2. CASE /\ req.op = "turn" /\ c = req.case /\ n = req.sequence + 1
               /\ cases'[c].turns[n].event = req.output
               /\ cases'[c].turns[n].idempotency_key = req.key
      BY <1>3, <2>1, <3>2, UsedStayUsed DEF GoodTurn
    <3> QED
      BY <1>6, <3>1, <3>2
  <2>5. ASSUME cases'[c].completion # None, cases'[c].completion.event = "completed"
        PROVE  Reached(c, TurnCount[c])'
    <3>1. CASE cases'[c].completion = cases[c].completion
      BY <1>3, <2>2, <2>5, <3>1, ReachedStaysReached DEF StateSound, RecordsSound
    <3>2. CASE /\ req.op = "complete" /\ c = req.case
               /\ cases'[c].completion.event = req.outcome
      BY <1>3, <2>2, <2>5, <3>2, ReachedStaysReached DEF Good, GoodCompletion
    <3> QED
      BY <3>1, <3>2 DEF Http!Effect, Http!SealEffect
  <2> QED
    BY <2>3, <2>4, <2>5
<1>9. TurnKeyFixesBody'
  <2> SUFFICES ASSUME NEW one \in OutstandingOf("turn")'
               PROVE  /\ \A other \in OutstandingOf("turn")' :
                            other.key = one.key => other = one
                      /\ \A c \in Cases : \A n \in DOMAIN cases'[c].turns :
                            cases'[c].turns[n].idempotency_key = one.key =>
                               /\ c = one.case /\ n = one.sequence + 1
                               /\ cases'[c].turns[n].event = one.output
    BY DEF TurnKeyFixesBody
  <2>1. one \in OutstandingOf("turn")
    BY <1>2
  <2>2. ASSUME NEW c \in Cases, NEW n \in DOMAIN cases'[c].turns,
               cases'[c].turns[n].idempotency_key = one.key
        PROVE  c = one.case /\ n = one.sequence + 1 /\ cases'[c].turns[n].event = one.output
    <3>1. CASE n \in DOMAIN cases[c].turns /\ cases'[c].turns[n] = cases[c].turns[n]
      BY <2>1, <2>2, <3>1 DEF StateSound, TurnKeyFixesBody
    <3>2. CASE /\ req.op = "turn" /\ c = req.case /\ n = req.sequence + 1
               /\ cases'[c].turns[n].event = req.output
               /\ cases'[c].turns[n].idempotency_key = req.key
      <4>1. one = req
        BY <2>1, <2>2, <3>2 DEF StateSound, TurnKeyFixesBody
      <4> QED
        BY <3>2, <4>1
    <3> QED
      BY <1>6, <3>1, <3>2
  <2> QED
    BY <1>2, <2>1, <2>2 DEF StateSound, TurnKeyFixesBody
<1> QED
  BY <1>1, <1>3, <1>4, <1>5, <1>7, <1>8, <1>9 DEF StateSound

LEMMA OutstandingTurn ==
    ASSUME StateSound, NEW req \in Outstanding, req # None
    PROVE  /\ Good(req) /\ Http!WellFormed(req)
           /\ req \in OutstandingOf("turn") \/ req.op # "turn"
BY GoodIsWellFormed DEF StateSound, RequestsSound, OutstandingOf

\* The answer of a turn that was accepted, or recorded before.
LEMMA TurnAnsweredSoundly ==
    ASSUME StateSound, StateSound', NEW r \in Runners, NEW req \in OutstandingOf("turn")',
           Http!WellFormed(req), req.op = "turn", Http!Serves(RunnerKey, r, req),
           Http!Reply(RunnerKey, r, req).verdict \in Http!Success
    PROVE  /\ Http!Reply(RunnerKey, r, req).input = req.sequence + 1
           /\ Reached(req.case, req.sequence + 1)'
           /\ Http!Reply(RunnerKey, r, req).action = Http!NextAction(req.case, req.sequence)
<1>1. Http!IInv /\ req.case \in Cases /\ req.sequence \in Nat
  BY DEF StateSound, Http!WellFormed
<1>2. PICK n \in DOMAIN cases'[req.case].turns :
         LET turn == cases'[req.case].turns[n] IN
         /\ turn.idempotency_key = req.key \/ turn.sequence = req.sequence
         /\ turn.sequence = n - 1
         /\ Http!Reply(RunnerKey, r, req).input = n
         /\ Http!Reply(RunnerKey, r, req).action = Http!NextAction(req.case, n - 1)
  BY <1>1, HttpAssumptions, Http!TurnAnswered
<1>3. /\ DOMAIN cases'[req.case].turns = 1..Len(cases'[req.case].turns)
      /\ Len(cases'[req.case].turns) \in Nat
  BY <1>1, TurnsTyped DEF StateSound
<1>4. n = req.sequence + 1
  <2>1. CASE cases'[req.case].turns[n].idempotency_key = req.key
    BY <1>1, <2>1 DEF StateSound, TurnKeyFixesBody
  <2>2. CASE req.sequence = n - 1
    BY <1>1, <1>3, <2>2
  <2> QED
    BY <1>2, <2>1, <2>2
<1> QED
  BY <1>1, <1>2, <1>3, <1>4 DEF Reached

LEMMA ServeSound ==
    ASSUME SysInv, NEW r \in Runners, Serve(r)
    PROVE  SysInv'
<1> DEFINE req == proc[r].request
           reply == Http!Reply(RunnerKey, r, req)
<1>1. StateSound /\ ProcSound(r) /\ DOMAIN proc = Runners
  BY DEF SysInv, StateSound, Typed
<1>2. /\ req # None /\ Http!Serves(RunnerKey, r, req)
      /\ proc' = [proc EXCEPT ![r].answer = reply]
      /\ UNCHANGED <<disk, minted, late>>
  BY SameServer DEF Serve, Pending
<1>3. /\ proc'[r] = [proc[r] EXCEPT !.answer = reply]
      /\ \A q \in Runners \ {r} : proc'[q] = proc[q]
      /\ DOMAIN proc' = Runners
  BY <1>1, <1>2
<1>4. /\ DOMAIN proc'[r] = ProcFields
      /\ proc'[r].answer = reply /\ proc'[r].at = proc[r].at
      /\ proc'[r].request = req /\ proc'[r].entry = proc[r].entry
      /\ proc'[r].current = proc[r].current /\ proc'[r].session = proc[r].session
  <2>1. DOMAIN proc[r] = ProcFields
    BY <1>1 DEF ProcSound
  <2> HIDE DEF reply
  <2> QED
    BY <1>3, <2>1 DEF ProcFields
<1>5. req \in Outstanding
  BY OutstandingParts
<1>6. Good(req) /\ Http!WellFormed(req) /\ (req \in OutstandingOf("turn") \/ req.op # "turn")
  BY <1>1, <1>2, <1>5, OutstandingTurn
<1>7. Http!IInv' /\ Http!Effect(req)
  BY <1>1, <1>2, <1>6, HttpAssumptions, Http!ServesSafely DEF StateSound
<1>8. StateSound' /\ Grows
  <2>1. \A q \in Runners : proc'[q].request = proc[q].request
    BY <1>3, <1>4
  <2> QED
    BY <1>1, <1>2, <1>3, <1>6, <1>7, <2>1, ServerStep
<1>9. ASSUME NEW q \in Runners \ {r}
      PROVE  ProcSound(q)'
  BY <1>2, <1>3, <1>8, RunnerStaysSound DEF SysInv, StateSound
<1>10. ProcSound(r)'
  <2>1. At(r, "claim") => ClaimAnswerSound(r)'
    <3> SUFFICES ASSUME At(r, "claim"), reply.verdict = "leased"
                 PROVE  reply.case \in Cases /\ reply.lease \in Nat \ {0}
      BY <1>4 DEF ClaimAnswerSound
    <3>1. req.op = "claim"
      BY <1>1 DEF ProcSound, ClaimRequest
    <3> QED
      BY <1>1, <1>2, <3>1, HttpAssumptions, Http!ClaimAnswered DEF StateSound
  <2>2. At(r, "turn") => TurnAnswerSound(r)'
    <3> SUFFICES ASSUME At(r, "turn"), reply.verdict \in Http!Success
                 PROVE  /\ reply.input = disk[r].pending + 1
                        /\ Reached(disk[r].case, disk[r].pending + 1)'
                        /\ reply.action = Http!NextAction(disk[r].case, disk[r].pending)
      BY <1>2, <1>4 DEF TurnAnswerSound, Succeeded, Http!Success
    <3>1. /\ req = disk[r].submission /\ disk[r] # None /\ disk[r].phase = "turn"
          /\ req.op = "turn" /\ req.case = disk[r].case /\ req.sequence = disk[r].pending
      BY <1>1, <1>2 DEF ProcSound, InTurns, StateSound, DiskSound, Sound, SavedTurn
    <3>2. req \in OutstandingOf("turn")'
      <4>1. disk'[r] # None /\ disk'[r].submission = req
        BY <1>2, <3>1
      <4> QED
        BY <1>2, <3>1, <4>1 DEF OutstandingOf, Outstanding
    <3> HIDE DEF reply, req
    <3> QED
      BY <1>1, <1>2, <1>6, <1>8, <3>1, <3>2, TurnAnsweredSoundly DEF reply
  <2>3. Entered(r) => Entered(r)'
    BY <1>4, <1>8, SoundStaysSound DEF Entered
  <2>4. (InTurns(r) <=> InTurns(r)') /\ (Completing(r) => Completing(r)')
    BY <1>2, <1>4 DEF InTurns, Completing
  <2> QED
    BY <1>1, <1>2, <1>4, <2>1, <2>2, <2>3, <2>4 DEF ProcSound, At
<1> QED
  BY <1>8, <1>9, <1>10 DEF SysInv

\* A step of the orchestrator that answers no runner.
LEMMA SilentStep ==
    ASSUME SysInv, Http!IInv', NEW req, Http!Effect(req),
           req \in OutstandingOf("turn") \/ req.op # "turn",
           req.op \in {"turn", "complete"} => Good(req),
           UNCHANGED <<disk, minted, proc>>, late' \subseteq late
    PROVE  SysInv'
<1>1. StateSound' /\ Grows
  BY ServerStep DEF SysInv, StateSound, Typed
<1> QED
  BY <1>1, RunnerStaysSound DEF SysInv, StateSound

LEMMA LateSound ==
    ASSUME SysInv, LateArrives
    PROVE  SysInv'
<1>1. PICK m \in late : Server!Serves(RunnerKey, m.runner, m.request) /\ late' = late \ {m}
  BY DEF LateArrives
<1>2. StateSound /\ m.runner \in Runners /\ m.request # None /\ m.request \in Outstanding
  BY OutstandingParts DEF SysInv, StateSound, Typed
<1>3. Http!IInv' /\ Http!Effect(m.request)
  BY <1>1, <1>2, OutstandingTurn, SameServer, HttpAssumptions, Http!ServesSafely
     DEF StateSound
<1> QED
  BY <1>1, <1>2, <1>3, OutstandingTurn, SilentStep DEF LateArrives, loopVars

LEMMA BeatSound ==
    ASSUME SysInv, NEW r \in Runners, Beat(r)
    PROVE  SysInv'
<1>1. proc[r].current.case \in Cases
  BY DEF SysInv, StateSound, Beat, ProcSound, InTurns, DiskSound, Sound, Checkpoints
<1>2. Http!IInv' /\ Http!Effect(ClaimRequest)
  BY <1>1, SameHeartbeat, HttpAssumptions, Http!BeatsSafely DEF Beat, SysInv, StateSound
<1> QED
  BY <1>2, SilentStep DEF Beat, loopVars, ClaimRequest

LEMMA TickSound ==
    ASSUME SysInv, Tick
    PROVE  SysInv'
<1>1. Http!IInv' /\ Http!Effect(ClaimRequest)
  BY SameServer, HttpAssumptions, Http!TicksSafely DEF Tick, SysInv, StateSound
<1> QED
  BY <1>1, SilentStep DEF Tick, loopVars, ClaimRequest

-----------------------------------------------------------------------------
(* A step of one runner *)

\* Runner r steps: the orchestrator and the other runners stand still, and of
\* its requests at most the present one is left to the network.
Local(r) ==
    /\ UNCHANGED serverVars
    /\ Typed'
    /\ minted[r] <= minted'[r]
    /\ \A q \in Runners \ {r} :
          disk'[q] = disk[q] /\ proc'[q] = proc[q] /\ minted'[q] = minted[q]
    /\ \A m \in late' : m \in late \/ m.request = proc[r].request

\* Nothing that r sends, or saves to be sent, is a turn not sent before, but "new".
NoTurnBut(r, new) ==
    /\ proc'[r].request # None /\ proc'[r].request.op = "turn"
       => proc'[r].request \in Outstanding \/ proc'[r].request = new
    /\ disk'[r] # None /\ disk'[r].submission # None /\ disk'[r].submission.op = "turn"
       => disk'[r].submission \in Outstanding \/ disk'[r].submission = new

\* No turn is on its way, or recorded, under the key.
Unused(key) ==
    /\ \A req \in OutstandingOf("turn") : req.key # key
    /\ \A c \in Cases : \A n \in DOMAIN cases[c].turns : cases[c].turns[n].idempotency_key # key

LEMMA UnusedKeys ==
    ASSUME StateSound, NEW key, key \notin UsedKeys
    PROVE  Unused(key)
<1>1. \A req \in OutstandingOf("turn") : req.key \in UsedKeys
  BY DEF StateSound, RequestsSound, OutstandingOf, Good, GoodTurn
<1> QED
  BY <1>1 DEF StateSound, RecordsSound, Unused

LEMMA LocalGrows ==
    ASSUME StateSound, NEW r \in Runners, Local(r)
    PROVE  Grows /\ cases' = cases
<1>1. cases' = cases
  BY DEF Local, serverVars
<1>2. \A c \in Cases : Len(cases[c].turns) \in Nat
  BY TurnsTyped DEF StateSound
<1>3. \A q \in Runners : minted[q] <= minted'[q]
  BY DEF Local, StateSound, Typed
<1> QED
  BY <1>1, <1>2, <1>3 DEF Local, StateSound, Grows

LEMMA LocalOutstanding ==
    ASSUME StateSound, NEW r \in Runners, Local(r), NEW req \in Outstanding'
    PROVE  \/ req \in Outstanding
           \/ req = proc'[r].request
           \/ disk'[r] # None /\ req = disk'[r].submission
<1>1. CASE \E q \in Runners : req = proc'[q].request
  BY <1>1, OutstandingParts DEF Local
<1>2. CASE \E q \in Runners : disk'[q] # None /\ req = disk'[q].submission
  BY <1>2, OutstandingParts DEF Local
<1>3. CASE \E m \in late' : req = m.request
  BY <1>3, OutstandingParts DEF Local
<1> QED
  BY <1>1, <1>2, <1>3 DEF Outstanding

\* If what r sends and saves is sound, and a turn it sends for the first time has
\* a key that nothing has, the system stays sound.
LEMMA LocalStep ==
    ASSUME SysInv, NEW r \in Runners, Local(r), NEW new, NoTurnBut(r, new),
           new \in OutstandingOf("turn")' => Unused(new.key) /\ new.key[1] = r,
           (proc[r].request # None => Good(proc[r].request))',
           DiskSound(r)', ProcSound(r)',
           InTurns(r)' /\ disk'[r].submission = None =>
              /\ disk'[r] = disk[r] \/ disk'[r].turn_key \notin UsedKeys
              /\ new \notin OutstandingOf("turn")'
    PROVE  SysInv'
<1>1. StateSound /\ Grows /\ cases' = cases
  BY LocalGrows DEF SysInv
<1>2. ASSUME NEW q \in Runners \ {r}
      PROVE  DiskSound(q)' /\ ProcSound(q)'
  BY <1>1, RunnerStaysSound DEF SysInv, StateSound, Local
<1>3. RequestsSound'
  <2> SUFFICES ASSUME NEW req \in Outstanding', req # None
               PROVE  Good(req)'
    BY DEF RequestsSound
  <2>1. CASE req \in Outstanding
    BY <1>1, <2>1, GoodStaysGood DEF StateSound, RequestsSound
  <2>2. CASE disk'[r] # None /\ req = disk'[r].submission
    BY <2>2 DEF DiskSound, Sound
  <2>3. CASE req = proc'[r].request
    BY <2>3
  <2> QED
    BY <1>1, <2>1, <2>2, <2>3, LocalOutstanding
<1>4. OutstandingOf("turn")' \subseteq OutstandingOf("turn") \union {new}
  <2> SUFFICES ASSUME NEW req \in Outstanding', req # None, req.op = "turn", req # new
               PROVE  req \in Outstanding
    BY DEF OutstandingOf
  <2> QED
    BY <1>1, LocalOutstanding DEF NoTurnBut
<1>5. RecordsSound'
  BY <1>1, UsedStayUsed DEF StateSound, RecordsSound, Reached
<1>6. TurnKeyFixesBody'
  <2>1. ASSUME NEW one \in OutstandingOf("turn")', NEW other \in OutstandingOf("turn")',
               one.key = other.key
        PROVE  one = other
    BY <1>1, <1>4, <2>1 DEF StateSound, TurnKeyFixesBody, Unused
  <2>2. ASSUME NEW one \in OutstandingOf("turn")', NEW c \in Cases,
               NEW n \in DOMAIN cases[c].turns, cases[c].turns[n].idempotency_key = one.key
        PROVE  c = one.case /\ n = one.sequence + 1 /\ cases[c].turns[n].event = one.output
    BY <1>1, <1>4, <2>2 DEF StateSound, TurnKeyFixesBody, Unused
  <2> QED
    BY <1>1, <2>1, <2>2 DEF TurnKeyFixesBody
<1>7. ASSUME NEW q \in Runners
      PROVE  Fresh(q)'
  <2> SUFFICES ASSUME InTurns(q)', disk'[q].submission = None
               PROVE  /\ \A req \in OutstandingOf("turn")' : req.key # disk'[q].turn_key
                      /\ \A c \in Cases : \A n \in DOMAIN cases[c].turns :
                            cases[c].turns[n].idempotency_key # disk'[q].turn_key
    BY <1>1 DEF Fresh
  <2>1. CASE q = r
    <3>1. Unused(disk'[r].turn_key)
      <4>1. CASE disk'[r] = disk[r]
        BY <1>1, <2>1, <4>1 DEF StateSound, Fresh, InTurns, Unused
      <4> QED
        BY <1>1, <2>1, <4>1, UnusedKeys
    <3> QED
      BY <1>4, <2>1, <3>1 DEF Unused
  <2>2. CASE q # r
    <3>1. disk'[q] = disk[q] /\ InTurns(q)
      BY <2>2 DEF Local, InTurns
    <3>2. disk[q].turn_key[1] = q
      BY <1>1, <3>1 DEF StateSound, DiskSound, Sound, InTurns
    <3>3. Unused(disk[q].turn_key)
      BY <1>1, <3>1 DEF StateSound, Fresh, Unused
    <3> QED
      BY <1>4, <2>2, <3>1, <3>2, <3>3 DEF Unused
  <2> QED
    BY <2>1, <2>2
<1>8. StateSound'
  <2>1. Http!IInv'
    BY <1>1 DEF Local, serverVars, StateSound, Http!IInv, Http!StateInv, Http!CaseInv,
                Http!HeldInv, Http!TurnsInv, Http!SealInv, Http!OnePerRunner
  <2> QED
    BY <1>2, <1>3, <1>5, <1>6, <1>7, <2>1 DEF StateSound, Local
<1> QED
  BY <1>2, <1>8 DEF SysInv

LEMMA ClaimIsGood == Good(ClaimRequest)'
<1>1. ClaimRequest \in Requests /\ ClaimRequest.op = "claim"
  BY DEF ClaimRequest, Requests
<1> QED
  BY <1>1 DEF Good

\* A process that ends, or turns to claim, keeps or drops its checkpoint.
LEMMA RestStep ==
    ASSUME SysInv, NEW r \in Runners, UNCHANGED <<serverVars, minted>>,
           \A m \in late' : m \in late \/ m = [runner |-> r, request |-> proc[r].request],
           proc[r].request # None \/ late' \subseteq late,
           disk' \in {disk, [disk EXCEPT ![r] = None]},
           proc' \in {[proc EXCEPT ![r] = Off], [proc EXCEPT ![r] = Claiming]}
    PROVE  SysInv'
<1>1. StateSound /\ Typed
  BY DEF SysInv, StateSound
<1>2. /\ disk'[r] \in {disk[r], None} /\ proc'[r] \in {Off, Claiming}
      /\ minted' = minted
      /\ \A q \in Runners \ {r} : disk'[q] = disk[q] /\ proc'[q] = proc[q]
      /\ disk' \in [Runners -> Checkpoints \union {None}] /\ DOMAIN proc' = Runners
  BY <1>1 DEF Typed
<1>3. Local(r)
  BY <1>1, <1>2 DEF Typed, Local
<1>4. /\ DOMAIN Claiming = ProcFields /\ Claiming.at = "claim"
      /\ Claiming.request = ClaimRequest /\ Claiming.answer = None
  BY OffParts, WaitingParts DEF Claiming
<1>5. Grows
  BY <1>1, <1>3, LocalGrows
<1>6. DiskSound(r)'
  BY <1>1, <1>2, <1>5, SoundStaysSound DEF StateSound, DiskSound
<1>7. ProcSound(r)'
  BY <1>2, <1>4, OffParts DEF ProcSound, At, ClaimAnswerSound
<1>8. (proc[r].request # None => Good(proc[r].request))'
  BY <1>2, <1>4, OffParts, ClaimIsGood
<1>9. NoTurnBut(r, None)
  BY <1>2, <1>4, OffParts, OutstandingParts DEF NoTurnBut, ClaimRequest
<1>10. None \notin OutstandingOf("turn")'
  BY DEF OutstandingOf
<1>11. InTurns(r)' => disk'[r] = disk[r]
  BY <1>2 DEF InTurns
<1> QED
  BY <1>3, <1>6, <1>7, <1>8, <1>9, <1>10, <1>11, LocalStep

\* What runner r writes is what it has afterwards.
LEMMA LocalParts ==
    ASSUME StateSound, NEW r \in Runners, UNCHANGED serverVars, late' \subseteq late,
           NEW ckpt \in Checkpoints \union {None}, NEW p,
           disk' = [disk EXCEPT ![r] = ckpt], proc' = [proc EXCEPT ![r] = p],
           minted' \in {minted, [minted EXCEPT ![r] = @ + 1]}
    PROVE  Local(r) /\ Grows /\ disk'[r] = ckpt /\ proc'[r] = p
<1>1. Typed' /\ minted[r] <= minted'[r]
  BY DEF StateSound, Typed
<1>2. Local(r) /\ disk'[r] = ckpt /\ proc'[r] = p
  BY <1>1 DEF StateSound, Typed, Local
<1> QED
  BY <1>2, LocalGrows

LEMMA NewKeyUsed ==
    ASSUME Typed, NEW r \in Runners, minted' = [minted EXCEPT ![r] = @ + 1]
    PROVE  NewKey(r) \in UsedKeys'
BY DEF Typed, NewKey, UsedKeys, Keys

\* The process turns to the target with the checkpoint ckpt, or ends.
LEMMA SendStep ==
    ASSUME SysInv, NEW r \in Runners, Local(r), NEW ckpt, disk'[r] = ckpt,
           ckpt.phase = "turn", Sound(r, ckpt)',
           \/ ckpt = disk[r]
           \/ ckpt.submission = None /\ ckpt.turn_key \notin UsedKeys,
           \/ proc'[r] = Off
           \/ /\ DOMAIN proc'[r] = ProcFields /\ proc'[r].at = "send"
              /\ proc'[r].request = None /\ proc'[r].current = ckpt
              /\ proc'[r].session = ckpt.submitted
              /\ Entered(r)'
    PROVE  SysInv'
<1>1. ckpt \in Checkpoints /\ ckpt # None
  BY SystemAssumption DEF Sound
<1>2. DiskSound(r)' /\ InTurns(r)'
  BY <1>1 DEF DiskSound, InTurns
<1>3. ProcSound(r)'
  BY <1>2, OffParts DEF ProcSound, At
<1>4. proc'[r].request = None
  BY OffParts
<1>5. NoTurnBut(r, None)
  BY <1>4, OutstandingParts DEF NoTurnBut
<1>6. None \notin OutstandingOf("turn")'
  BY DEF OutstandingOf
<1>7. disk'[r].submission = None => disk'[r] = disk[r] \/ disk'[r].turn_key \notin UsedKeys
  OBVIOUS
<1> QED
  BY <1>2, <1>3, <1>4, <1>5, <1>6, <1>7, LocalStep

\* The process waits for the answer to a report that its checkpoint holds.
LEMMA ReportStep ==
    ASSUME SysInv, NEW r \in Runners, Local(r), NEW ckpt, disk'[r] = ckpt,
           ckpt.phase = "complete", Sound(r, ckpt)',
           DOMAIN proc'[r] = ProcFields, proc'[r].request = ckpt.submission,
           proc'[r].at = "failing" \/ (proc'[r].at = "complete" /\ Entered(r)')
    PROVE  SysInv'
<1>1. /\ ckpt # None /\ ckpt.submission # None
      /\ ckpt.submission.op = "complete"
      /\ Good(ckpt.submission)'
  BY SystemAssumption DEF Sound
<1>2. DiskSound(r)' /\ Completing(r)' /\ ~InTurns(r)'
  BY <1>1 DEF DiskSound, InTurns, Completing
<1>3. ProcSound(r)'
  BY <1>2 DEF ProcSound, At
<1>4. (proc[r].request # None => Good(proc[r].request))'
  BY <1>1
<1>5. NoTurnBut(r, None)
  BY <1>1 DEF NoTurnBut
<1>6. None \notin OutstandingOf("turn")'
  BY DEF OutstandingOf
<1> QED
  BY <1>2, <1>3, <1>4, <1>5, <1>6, LocalStep

-----------------------------------------------------------------------------
(* The actions of a runner *)

LEMMA RestSound ==
    ASSUME SysInv, NEW r \in Runners, UNCHANGED <<serverVars, late>>,
           \/ ClaimEnds(r) \/ ResumeLost(r) \/ ResumeFails(r)
           \/ CompletionAccepted(r) \/ CaseLost(r)
           \/ FailureRecorded(r) \/ FailureUnwanted(r) \/ FailureEscapes(r)
    PROVE  SysInv'
<1>1. /\ minted' = minted
      /\ disk' \in {disk, [disk EXCEPT ![r] = None]}
      /\ proc' \in {[proc EXCEPT ![r] = Off], [proc EXCEPT ![r] = Claiming]}
  BY DEF ClaimEnds, ResumeLost, ResumeFails, CompletionAccepted, CaseLost, FailureRecorded,
         FailureUnwanted, FailureEscapes, LeaveCase, CloseAndLeave
<1> QED
  BY <1>1, RestStep

LEMMA KilledSound ==
    ASSUME SysInv, NEW r \in Runners, Killed(r)
    PROVE  SysInv'
<1>1. /\ minted' = minted /\ disk' = disk
      /\ proc' = [proc EXCEPT ![r] = Off]
      /\ UNCHANGED serverVars
      /\ \A m \in late' : m \in late \/ m = [runner |-> r, request |-> proc[r].request]
      /\ proc[r].request # None \/ late' \subseteq late
  BY DEF Killed, Crash, GivenUp, Pending
<1> QED
  BY <1>1, RestStep

LEMMA BootSound ==
    ASSUME SysInv, NEW r \in Runners, Start(r)
    PROVE  SysInv'
<1>. PICK ckpt : ckpt = disk[r]
  OBVIOUS
<1>1. /\ StateSound /\ DiskSound(r) /\ UNCHANGED <<serverVars, late, disk, minted>>
      /\ ckpt \in Checkpoints \union {None}
  BY DEF SysInv, StateSound, Typed, Start, Boot
<1>2. disk' = [disk EXCEPT ![r] = ckpt]
  BY <1>1 DEF StateSound, Typed
<1>3. CASE proc' = [proc EXCEPT ![r] = Claiming]
  BY <1>1, <1>3, RestStep
<1>4. CASE /\ ckpt # None /\ ckpt.phase = "complete"
           /\ proc' = [proc EXCEPT ![r] = Waiting([Off EXCEPT !.entry = ckpt, !.current = ckpt],
                                                  "complete", ckpt.submission)]
  <2> DEFINE resumed == [Off EXCEPT !.entry = ckpt, !.current = ckpt]
             p == Waiting(resumed, "complete", ckpt.submission)
  <2>1. DOMAIN resumed = ProcFields /\ resumed.entry = ckpt
    BY DEF Off, ProcFields
  <2> HIDE DEF resumed
  <2>2. /\ DOMAIN p = ProcFields /\ p.at = "complete" /\ p.request = ckpt.submission
        /\ p.entry = ckpt
    BY <2>1, WaitingParts
  <2>3. proc' = [proc EXCEPT ![r] = p]
    BY <1>4 DEF resumed
  <2> HIDE DEF p
  <2>4. Local(r) /\ Grows /\ disk'[r] = ckpt /\ proc'[r] = p
    BY <1>1, <1>2, <2>3, LocalParts
  <2>5. ckpt # None /\ ckpt.phase = "complete"
    BY <1>4
  <2>6. Sound(r, ckpt)'
    BY <1>1, <2>4, <2>5, SoundStaysSound DEF DiskSound
  <2>7. Entered(r)'
    BY <2>2, <2>4, <2>5, <2>6 DEF Entered
  <2> QED
    BY <2>2, <2>4, <2>5, <2>6, <2>7, ReportStep
<1>5. CASE /\ ckpt # None /\ ckpt.phase = "turn"
           /\ proc' = [proc EXCEPT ![r] = Waiting(Off, "resume", HeartbeatRequest(ckpt))]
  <2> DEFINE p == Waiting(Off, "resume", HeartbeatRequest(ckpt))
  <2>1. /\ DOMAIN p = ProcFields /\ p.at = "resume" /\ p.request = HeartbeatRequest(ckpt)
    BY OffParts, WaitingParts
  <2>2. HeartbeatRequest(ckpt) \in Requests /\ HeartbeatRequest(ckpt).op = "heartbeat"
    BY <1>1, <1>5 DEF Checkpoints, HeartbeatRequest, Requests
  <2>3. proc' = [proc EXCEPT ![r] = p]
    BY <1>5
  <2> HIDE DEF p
  <2>4. Local(r) /\ Grows /\ disk'[r] = ckpt /\ proc'[r] = p
    BY <1>1, <1>2, <2>3, LocalParts
  <2>5. DiskSound(r)' /\ InTurns(r)' /\ disk'[r] = disk[r]
    BY <1>1, <1>5, <2>4, SoundStaysSound DEF DiskSound, InTurns
  <2>6. ProcSound(r)'
    BY <2>1, <2>2, <2>4, <2>5 DEF ProcSound, At
  <2>7. (proc[r].request # None => Good(proc[r].request))'
    BY <2>1, <2>2, <2>4 DEF Good
  <2>8. NoTurnBut(r, None)
    BY <2>1, <2>2, <2>4, <2>5, OutstandingParts DEF NoTurnBut
  <2>9. None \notin OutstandingOf("turn")'
    BY DEF OutstandingOf
  <2> QED
    BY <2>4, <2>5, <2>6, <2>7, <2>8, <2>9, LocalStep
<1> QED
  BY <1>3, <1>4, <1>5 DEF Start, Boot

\* A case is begun, or taken up again, with the checkpoint ckpt.
LEMMA BeginStep ==
    ASSUME SysInv, NEW r \in Runners, UNCHANGED <<serverVars, late>>,
           NEW ckpt, disk' = [disk EXCEPT ![r] = ckpt],
           minted' \in {minted, [minted EXCEPT ![r] = @ + 1]},
           BeginCase(r, ckpt, ckpt.submitted), ckpt.phase = "turn", Sound(r, ckpt)',
           ckpt = disk[r] \/ (ckpt.submission = None /\ ckpt.turn_key \notin UsedKeys)
    PROVE  SysInv'
<1>1. StateSound /\ DOMAIN proc[r] = ProcFields /\ ckpt \in Checkpoints /\ ckpt # None
  BY SystemAssumption DEF SysInv, ProcSound, Sound
<1>2. PICK p : /\ proc' = [proc EXCEPT ![r] = p]
               /\ p = IF ckpt.case \in Refused THEN Off
                      ELSE [proc[r] EXCEPT !.at = "send", !.entry = ckpt, !.current = ckpt,
                                           !.session = ckpt.submitted, !.request = None,
                                           !.answer = None, !.attempt = 0]
  BY DEF BeginCase
<1>3. Local(r) /\ disk'[r] = ckpt /\ proc'[r] = p
  BY <1>1, <1>2, LocalParts
<1>4. \/ p = Off
      \/ /\ DOMAIN p = ProcFields /\ p.at = "send" /\ p.request = None
         /\ p.current = ckpt /\ p.session = ckpt.submitted /\ p.entry = ckpt
  BY <1>1, <1>2 DEF ProcFields
<1>5. p # Off => Entered(r)'
  BY <1>1, <1>3, <1>4 DEF Entered
<1> QED
  BY <1>3, <1>4, <1>5, SendStep

LEMMA ClaimLeasedSound ==
    ASSUME SysInv, NEW r \in Runners, UNCHANGED <<serverVars, late>>, ClaimLeased(r)
    PROVE  SysInv'
<1>1. StateSound /\ Typed /\ proc[r].answer.case \in Cases /\ proc[r].answer.lease \in Nat \ {0}
  BY DEF SysInv, StateSound, ProcSound, ClaimAnswerSound, ClaimLeased, Answered
<1>2. PICK ckpt : /\ disk' = [disk EXCEPT ![r] = ckpt] /\ BeginCase(r, ckpt, << >>)
                  /\ ckpt = [case |-> proc[r].answer.case, lease |-> proc[r].answer.lease,
                             submitted |-> << >>, pending |-> 0, turn_key |-> NewKey(r),
                             complete_key |-> None, phase |-> "turn", submission |-> None]
  BY DEF ClaimLeased
<1>3. minted' = [minted EXCEPT ![r] = @ + 1]
  BY DEF ClaimLeased
<1>4. /\ NewKey(r) \in Keys /\ NewKey(r)[1] = r /\ NewKey(r) \notin UsedKeys
      /\ NewKey(r) \in UsedKeys'
  BY <1>1, <1>3, NewKeyParts, NewKeyUsed
<1>5. /\ ckpt \in Checkpoints
      /\ ckpt.case \in Cases /\ ckpt.submitted = << >> /\ ckpt.pending = 0
      /\ ckpt.turn_key = NewKey(r) /\ ckpt.phase = "turn" /\ ckpt.submission = None
  BY <1>1, <1>2, <1>4 DEF Checkpoints
<1>6. Sound(r, ckpt)'
  <2>1. TurnCount[ckpt.case] \in Nat \ {0}
    BY <1>5, SystemAssumption
  <2>2. Reached(ckpt.case, 0)'
    BY <1>1, <1>5, TurnsTyped DEF Reached, StateSound, serverVars
  <2>3. ckpt.submitted = Inputs(0) /\ Len(ckpt.submitted) = 0
    BY <1>5, NoInputs
  <2> QED
    BY <1>4, <1>5, <2>1, <2>2, <2>3 DEF Sound
<1> QED
  BY <1>2, <1>3, <1>4, <1>5, <1>6, BeginStep

LEMMA ResumeAliveSound ==
    ASSUME SysInv, NEW r \in Runners, UNCHANGED <<serverVars, late>>, ResumeAlive(r)
    PROVE  SysInv'
<1>1. PICK ckpt : ckpt = disk[r]
  OBVIOUS
<1>2. /\ StateSound /\ Typed /\ ckpt # None /\ ckpt.phase = "turn" /\ Sound(r, ckpt)
      /\ disk' = disk /\ minted' = minted /\ BeginCase(r, ckpt, ckpt.submitted)
  BY <1>1 DEF SysInv, StateSound, ProcSound, InTurns, DiskSound, ResumeAlive, Answered, Replay
<1>3. disk' = [disk EXCEPT ![r] = ckpt]
  BY <1>1, <1>2 DEF Typed
<1>4. Grows
  <2>1. ckpt \in Checkpoints
    BY <1>2 DEF Sound
  <2>2. \E p : proc' = [proc EXCEPT ![r] = p]
    BY DEF ResumeAlive, BeginCase
  <2> QED
    BY <1>2, <1>3, <2>1, <2>2, LocalParts
<1>5. Sound(r, ckpt)'
  BY <1>2, <1>4, SoundStaysSound
<1>6. minted' = minted
  BY <1>2
<1>7. ckpt = disk[r] \/ (ckpt.submission = None /\ ckpt.turn_key \notin UsedKeys)
  BY <1>1
<1>8. ckpt.phase = "turn" /\ BeginCase(r, ckpt, ckpt.submitted)
  BY <1>2
<1> QED
  BY <1>3, <1>5, <1>6, <1>7, <1>8, BeginStep

\* The submission of a turn is saved and posted: the saved one, or a new one under
\* a key that nothing has.
LEMMA PostStep ==
    ASSUME SysInv, NEW r \in Runners, Local(r), NEW ckpt, disk'[r] = ckpt,
           ckpt.phase = "turn", Sound(r, ckpt)', ckpt.submission # None,
           \/ ckpt.submission \in Outstanding
           \/ Unused(ckpt.submission.key) /\ ckpt.submission.key[1] = r,
           DOMAIN proc'[r] = ProcFields, proc'[r].at = "turn",
           proc'[r].request = ckpt.submission, proc'[r].answer = None,
           proc'[r].current = ckpt, proc'[r].session = Append(ckpt.submitted, ckpt.pending),
           Entered(r)'
    PROVE  SysInv'
<1>1. ckpt # None /\ Good(ckpt.submission)'
  BY SystemAssumption DEF Sound
<1>2. DiskSound(r)' /\ InTurns(r)'
  BY <1>1 DEF DiskSound, InTurns
<1>3. ProcSound(r)'
  BY <1>2 DEF ProcSound, At, TurnAnswerSound
<1>4. (proc[r].request # None => Good(proc[r].request))'
  BY <1>1
<1>5. CASE ckpt.submission \in Outstanding
  <2>1. NoTurnBut(r, None) /\ None \notin OutstandingOf("turn")'
    BY <1>5 DEF NoTurnBut, OutstandingOf
  <2> QED
    BY <1>2, <1>3, <1>4, <2>1, LocalStep
<1>6. CASE Unused(ckpt.submission.key) /\ ckpt.submission.key[1] = r
  <2>1. NoTurnBut(r, ckpt.submission)
    BY DEF NoTurnBut
  <2> QED
    BY <1>2, <1>3, <1>4, <1>6, <2>1, LocalStep
<1> QED
  BY <1>5, <1>6

\* What is known of a case that waits for the target, or for the answer to a turn.
LEMMA InTurnsParts ==
    ASSUME SysInv, NEW r \in Runners, At(r, "send") \/ At(r, "turn")
    PROVE  /\ StateSound /\ Typed /\ DOMAIN proc[r] = ProcFields
           /\ Entered(r) /\ proc[r].current = disk[r]
           /\ disk[r] # None /\ disk[r].phase = "turn" /\ Sound(r, disk[r])
           /\ disk[r].case \in Cases /\ disk[r].lease \in Nat \ {0}
           /\ disk[r].pending \in Nat /\ disk[r].pending < TurnCount[disk[r].case]
           /\ disk[r].turn_key \in Keys /\ disk[r].turn_key[1] = r
           /\ disk[r].submitted = Inputs(disk[r].pending)
           /\ disk[r].submission # None => SavedTurn(disk[r])
           /\ At(r, "send") => proc[r].session = Inputs(disk[r].pending)
           /\ At(r, "turn") => proc[r].session = Inputs(disk[r].pending + 1)
<1>1. /\ StateSound /\ Typed /\ DOMAIN proc[r] = ProcFields
      /\ Entered(r) /\ proc[r].current = disk[r]
      /\ disk[r] # None /\ disk[r].phase = "turn" /\ Sound(r, disk[r])
      /\ At(r, "send") => proc[r].session = disk[r].submitted
      /\ At(r, "turn") => proc[r].session = Append(disk[r].submitted, disk[r].pending)
  BY DEF SysInv, StateSound, ProcSound, InTurns, DiskSound, At
<1>2. /\ disk[r].case \in Cases /\ disk[r].lease \in Nat \ {0}
      /\ disk[r].submitted \in Seq(Nat)
      /\ disk[r].pending = Len(disk[r].submitted)
      /\ disk[r].pending < TurnCount[disk[r].case]
      /\ disk[r].turn_key \in Keys /\ disk[r].turn_key[1] = r
      /\ disk[r].submitted = Inputs(disk[r].pending)
      /\ disk[r].submission # None => SavedTurn(disk[r])
  BY <1>1 DEF Sound, Checkpoints, UsedKeys
<1>3. disk[r].pending \in Nat
  BY <1>2
<1>4. Append(disk[r].submitted, disk[r].pending) = Inputs(disk[r].pending + 1)
  BY <1>2, <1>3, InputsParts
<1> QED
  BY <1>1, <1>2, <1>3, <1>4

LEMMA SendSound ==
    ASSUME SysInv, NEW r \in Runners, UNCHANGED <<serverVars, late>>, Send(r)
    PROVE  SysInv'
<1>1. PICK ckpt : ckpt = disk[r]
  OBVIOUS
<1>2. At(r, "send") /\ minted' = minted
  BY DEF Send
<1>3. /\ StateSound /\ Typed /\ DOMAIN proc[r] = ProcFields
      /\ Entered(r) /\ proc[r].current = ckpt
      /\ ckpt # None /\ ckpt.phase = "turn" /\ Sound(r, ckpt)
      /\ ckpt.case \in Cases /\ ckpt.lease \in Nat \ {0}
      /\ ckpt.pending \in Nat /\ ckpt.pending < TurnCount[ckpt.case]
      /\ ckpt.turn_key \in Keys /\ ckpt.turn_key[1] = r
      /\ ckpt.submission # None => SavedTurn(ckpt)
      /\ proc[r].session = Inputs(ckpt.pending)
      /\ ckpt.submitted = Inputs(ckpt.pending)
  BY <1>1, <1>2, InTurnsParts
<1>4. ckpt \in Checkpoints
  BY <1>3 DEF Sound
<1>5. PICK take \in Takes :
         LET heard == Append(proc[r].session, ckpt.pending)
             submission == Prepared(ckpt, [heard |-> heard, take |-> take])
             saved == Saved(ckpt, submission)
         IN  /\ disk' = [disk EXCEPT ![r] = saved]
             /\ proc' = [proc EXCEPT ![r] =
                   Waiting([@ EXCEPT !.current = saved, !.session = heard],
                           "turn", submission)]
  <2>1. ckpt = proc[r].current
    BY <1>3
  <2> QED
    BY <2>1, Zenon DEF Send
<1>6. PICK heard : heard = Inputs(ckpt.pending + 1)
  OBVIOUS
<1>7. heard \in Seq(Nat) /\ heard = Append(Inputs(ckpt.pending), ckpt.pending)
  <2>1. ckpt.pending + 1 \in Nat
    BY <1>3
  <2> QED
    BY <1>3, <1>6, <2>1, InputsParts
<1>8. PICK submission : submission = Prepared(ckpt, [heard |-> heard, take |-> take])
  OBVIOUS
<1>9. Good(submission)' /\ (\/ submission \in Outstanding
                            \/ Unused(submission.key) /\ submission.key[1] = r)
      /\ submission.op = "turn" /\ submission.case = ckpt.case
      /\ submission.sequence = ckpt.pending /\ submission.key = ckpt.turn_key
      /\ submission \in Requests
  <2>1. CASE ckpt.submission # None
    <3>1. submission = ckpt.submission /\ Good(submission)
      BY <1>3, <1>8, <2>1 DEF Prepared, Sound
    <3>2. submission \in Outstanding
      BY <1>1, <1>3, <3>1, OutstandingParts
    <3>3. Good(submission)'
      BY <3>1, <1>2 DEF Good, GoodTurn, GoodCompletion, Reached, UsedKeys, serverVars
    <3> QED
      BY <1>3, <2>1, <3>1, <3>2, <3>3 DEF SavedTurn, Good
  <2>2. CASE ckpt.submission = None
    <3>1. submission = TurnRequest(ckpt, [heard |-> heard, take |-> take])
      BY <1>8, <2>2 DEF Prepared
    <3>2. /\ submission.op = "turn" /\ submission.case = ckpt.case
          /\ submission.sequence = ckpt.pending /\ submission.key = ckpt.turn_key
          /\ submission.output.heard = heard
      BY <3>1 DEF TurnRequest
    <3>3. submission \in Requests
      BY <1>3, <1>7, <3>1 DEF TurnRequest, Requests, TurnRequests, Outputs
    <3>4. ckpt.turn_key \in UsedKeys'
      BY <1>2, <1>3 DEF Sound, UsedKeys
    <3>5. Good(submission)'
      BY <1>3, <1>6, <3>2, <3>3, <3>4 DEF Good, GoodTurn
    <3>6. Unused(ckpt.turn_key)
      BY <1>1, <1>3, <2>2 DEF StateSound, Fresh, InTurns, Unused
    <3> QED
      BY <1>3, <3>2, <3>3, <3>5, <3>6
  <2> QED
    BY <2>1, <2>2
<1>10. PICK saved : saved = Saved(ckpt, submission)
  OBVIOUS
<1>11. submission # None
  BY <1>9, SystemAssumption
<1>12. /\ saved \in Checkpoints /\ saved.submission = submission
       /\ saved.case = ckpt.case /\ saved.submitted = ckpt.submitted
       /\ saved.pending = ckpt.pending /\ saved.turn_key = ckpt.turn_key
       /\ saved.phase = "turn"
  BY <1>3, <1>4, <1>9, <1>10 DEF Saved, Checkpoints
<1>13. PICK p : p = Waiting([proc[r] EXCEPT !.current = saved, !.session = heard],
                            "turn", submission)
  OBVIOUS
<1>14. /\ DOMAIN p = ProcFields /\ p.at = "turn" /\ p.request = submission
       /\ p.answer = None /\ p.entry = proc[r].entry /\ p.current = saved
       /\ p.session = heard
  <2> DEFINE q == [proc[r] EXCEPT !.current = saved, !.session = heard]
  <2>1. /\ DOMAIN q = ProcFields /\ q.entry = proc[r].entry /\ q.current = saved
        /\ q.session = heard
    BY <1>3 DEF ProcFields
  <2>2. p = Waiting(q, "turn", submission)
    BY <1>13
  <2> HIDE DEF q
  <2> QED
    BY <2>1, <2>2, WaitingParts
<1>15. disk' = [disk EXCEPT ![r] = saved] /\ proc' = [proc EXCEPT ![r] = p]
  BY <1>3, <1>5, <1>7, <1>8, <1>10, <1>13
<1>16. Local(r) /\ Grows /\ disk'[r] = saved /\ proc'[r] = p
  <2>1. StateSound /\ UNCHANGED serverVars /\ late' \subseteq late /\ minted' = minted
    BY <1>2, <1>3
  <2>2. saved \in Checkpoints
    BY <1>12
  <2> QED
    BY <2>1, <2>2, <1>15, LocalParts
<1>17. Sound(r, saved)'
  <2>1. Sound(r, ckpt)'
    BY <1>3, <1>16, SoundStaysSound
  <2> QED
    BY <1>3, <1>9, <1>12, <2>1 DEF Sound, SavedTurn
<1>18. Entered(r)'
  BY <1>3, <1>14, <1>16, SoundStaysSound DEF Entered
<1>19. proc'[r].session = Append(saved.submitted, saved.pending)
  BY <1>3, <1>7, <1>12, <1>14, <1>16
<1> QED
  BY <1>9, <1>11, <1>12, <1>14, <1>16, <1>17, <1>18, <1>19, PostStep

LEMMA TurnAnswerParts ==
    ASSUME SysInv, NEW r \in Runners, Answered(r, "turn"), Succeeded(r)
    PROVE  /\ proc[r].answer.input = disk[r].pending + 1
           /\ Reached(disk[r].case, disk[r].pending + 1)
           /\ proc[r].answer.action = IF disk[r].pending + 1 < TurnCount[disk[r].case]
                                      THEN "continue" ELSE "finish"
BY DEF SysInv, ProcSound, Answered, At, TurnAnswerSound, Http!NextAction

LEMMA TurnContinuesSound ==
    ASSUME SysInv, NEW r \in Runners, UNCHANGED <<serverVars, late>>, TurnContinues(r)
    PROVE  SysInv'
<1>1. PICK ckpt : ckpt = disk[r]
  OBVIOUS
<1>2. At(r, "turn") /\ minted' = [minted EXCEPT ![r] = @ + 1]
  BY DEF TurnContinues, Answered
<1>3. /\ StateSound /\ Typed /\ DOMAIN proc[r] = ProcFields
      /\ Entered(r) /\ proc[r].current = ckpt
      /\ ckpt.phase = "turn" /\ Sound(r, ckpt)
      /\ ckpt.case \in Cases /\ ckpt.pending \in Nat
      /\ ckpt.submitted = Inputs(ckpt.pending)
      /\ proc[r].session = Inputs(ckpt.pending + 1)
  BY <1>1, <1>2, InTurnsParts
<1>4. /\ proc[r].answer.input = ckpt.pending + 1
      /\ Reached(ckpt.case, ckpt.pending + 1)
      /\ ckpt.pending + 1 < TurnCount[ckpt.case]
  BY <1>1, TurnAnswerParts DEF TurnContinues
<1>5. PICK next : next = Advanced(ckpt, ckpt.pending + 1, NewKey(r))
  OBVIOUS
<1>6. PICK p : /\ p = [proc[r] EXCEPT !.at = "send", !.current = next,
                                      !.parents = ParentsAfter(r, Len(EvidenceOf(r))),
                                      !.request = None, !.answer = None, !.attempt = 0]
               /\ disk' = [disk EXCEPT ![r] = next] /\ proc' = [proc EXCEPT ![r] = p]
  <2>1. /\ ckpt = proc[r].current
        /\ next = Advanced(proc[r].current, proc[r].answer.input, NewKey(r))
    BY <1>3, <1>4, <1>5
  <2> QED
    BY <2>1, Zenon DEF TurnContinues
<1>7. /\ NewKey(r) \in Keys /\ NewKey(r)[1] = r /\ NewKey(r) \notin UsedKeys
      /\ NewKey(r) \in UsedKeys'
  BY <1>2, <1>3, NewKeyParts, NewKeyUsed
<1>8. /\ ckpt.pending + 1 \in Nat
      /\ Append(ckpt.submitted, ckpt.pending) = Inputs(ckpt.pending + 1)
  <2>1. ckpt.pending \in Nat /\ ckpt.submitted = Inputs(ckpt.pending)
    BY <1>3
  <2>2. Append(ckpt.submitted, ckpt.pending) = Inputs(ckpt.pending + 1)
    BY <2>1, InputsParts
  <2> QED
    BY <2>1, <2>2
<1>9. /\ Inputs(ckpt.pending + 1) \in Seq(Nat)
      /\ Len(Inputs(ckpt.pending + 1)) = ckpt.pending + 1
  BY <1>8, InputsParts
<1>10. /\ next \in Checkpoints /\ next.case = ckpt.case
       /\ next.submitted = Inputs(ckpt.pending + 1) /\ next.pending = ckpt.pending + 1
       /\ next.turn_key = NewKey(r) /\ next.submission = None /\ next.phase = "turn"
  <2>1. ckpt \in Checkpoints
    BY <1>3 DEF Sound
  <2> QED
    BY <1>3, <1>5, <1>7, <1>8, <1>9, <2>1 DEF Advanced, Checkpoints
<1>11. /\ DOMAIN p = ProcFields /\ p.at = "send" /\ p.request = None
       /\ p.current = next /\ p.session = next.submitted /\ p.entry = proc[r].entry
  BY <1>3, <1>6, <1>10 DEF ProcFields
<1>12. Local(r) /\ Grows /\ disk'[r] = next /\ proc'[r] = p
  <2>1. StateSound /\ UNCHANGED serverVars /\ late' \subseteq late
    BY <1>2, <1>3
  <2>2. next \in Checkpoints
    BY <1>10
  <2>3. disk' = [disk EXCEPT ![r] = next] /\ proc' = [proc EXCEPT ![r] = p]
    BY <1>6
  <2>4. minted' = [minted EXCEPT ![r] = @ + 1]
    BY <1>2
  <2> QED
    BY <2>1, <2>2, <2>3, <2>4, LocalParts
<1>13. Sound(r, next)'
  <2>1. Reached(ckpt.case, ckpt.pending + 1)'
    BY <1>3, <1>4, <1>8, <1>12, ReachedStaysReached
  <2> QED
    BY <1>4, <1>7, <1>9, <1>10, <2>1 DEF Sound
<1>14. Entered(r)'
  BY <1>3, <1>11, <1>12, SoundStaysSound DEF Entered
<1> QED
  BY <1>7, <1>10, <1>11, <1>12, <1>13, <1>14, SendStep

\* A report of a case that has a key, or gets a new one.
LEMMA ReportKey ==
    ASSUME Typed, NEW r \in Runners, NEW ckpt \in Checkpoints, NEW key,
           key = IF ckpt.complete_key = None THEN NewKey(r) ELSE ckpt.complete_key
    PROVE  key \in Keys
BY NewKeyParts DEF Checkpoints

LEMMA TurnFinishesSound ==
    ASSUME SysInv, NEW r \in Runners, UNCHANGED <<serverVars, late>>, TurnFinishes(r)
    PROVE  SysInv'
<1>1. PICK ckpt : ckpt = disk[r]
  OBVIOUS
<1>2. At(r, "turn")
  BY DEF TurnFinishes, Answered
<1>3. /\ StateSound /\ Typed /\ DOMAIN proc[r] = ProcFields
      /\ Entered(r) /\ proc[r].current = ckpt
      /\ ckpt.phase = "turn" /\ Sound(r, ckpt)
      /\ ckpt.case \in Cases /\ ckpt.lease \in Nat \ {0} /\ ckpt.pending \in Nat
      /\ ckpt.pending < TurnCount[ckpt.case]
      /\ ckpt.submitted = Inputs(ckpt.pending)
  BY <1>1, <1>2, InTurnsParts
<1>4. /\ Reached(ckpt.case, ckpt.pending + 1)
      /\ ~(ckpt.pending + 1 < TurnCount[ckpt.case])
  BY <1>1, TurnAnswerParts DEF TurnFinishes
<1>5. PICK key : key = IF ckpt.complete_key = None THEN NewKey(r) ELSE ckpt.complete_key
  OBVIOUS
<1>6. PICK outcome : outcome = IF proc[r].answer.action = "cancel" THEN "canceled"
                               ELSE "completed"
  OBVIOUS
<1>7. PICK report : report = CompleteRequest(ckpt, key, outcome)
  OBVIOUS
<1>8. PICK done : done = [ckpt EXCEPT !.submitted = Append(@, ckpt.pending),
                                      !.pending = None, !.turn_key = None,
                                      !.complete_key = key,
                                      !.phase = "complete", !.submission = report]
  OBVIOUS
<1>9. PICK q : q = [proc[r] EXCEPT !.current = done,
                                   !.parents = ParentsAfter(r, Len(EvidenceOf(r)))]
  OBVIOUS
<1>10. PICK p : p = Waiting(q, "complete", report)
  OBVIOUS
<1>11. /\ disk' = [disk EXCEPT ![r] = done] /\ proc' = [proc EXCEPT ![r] = p]
       /\ minted' = [minted EXCEPT ![r] = IF ckpt.complete_key = None THEN @ + 1 ELSE @]
  <2>1. ckpt = proc[r].current
    BY <1>3
  <2> QED
    BY <1>5, <1>6, <1>7, <1>8, <1>9, <1>10, <2>1, Zenon DEF TurnFinishes
<1>12. ckpt \in Checkpoints /\ key \in Keys
  BY <1>3, <1>5, ReportKey DEF Sound
<1>13. /\ report \in Requests /\ report.op = "complete" /\ report.case = ckpt.case
       /\ report # None
  <2>1. report \in CompleteRequests
    BY <1>3, <1>6, <1>7, <1>12 DEF CompleteRequest, CompleteRequests
  <2> QED
    BY <1>7, <2>1, RequestKinds DEF CompleteRequest, Requests
<1>14. /\ ckpt.pending + 1 \in Nat /\ TurnCount[ckpt.case] \in Nat
       /\ Append(ckpt.submitted, ckpt.pending) = Inputs(ckpt.pending + 1)
  <2>1. ckpt.pending \in Nat /\ ckpt.submitted = Inputs(ckpt.pending) /\ ckpt.case \in Cases
    BY <1>3
  <2>2. Append(ckpt.submitted, ckpt.pending) = Inputs(ckpt.pending + 1)
    BY <2>1, InputsParts
  <2> QED
    BY <2>1, <2>2, SystemAssumption
<1>15. /\ Inputs(ckpt.pending + 1) \in Seq(Nat)
       /\ Len(Inputs(ckpt.pending + 1)) = ckpt.pending + 1
  BY <1>14, InputsParts
<1>16. /\ done \in Checkpoints /\ done.case = ckpt.case
       /\ done.submitted = Inputs(ckpt.pending + 1)
       /\ done.phase = "complete" /\ done.submission = report
  BY <1>8, <1>12, <1>13, <1>14, <1>15 DEF Checkpoints
<1>17. /\ DOMAIN p = ProcFields /\ p.at = "complete" /\ p.request = report
       /\ p.entry = proc[r].entry
  <2>1. DOMAIN q = ProcFields /\ q.entry = proc[r].entry
    BY <1>3, <1>9 DEF ProcFields
  <2> QED
    BY <1>10, <2>1, WaitingParts
<1>18. minted' \in {minted, [minted EXCEPT ![r] = @ + 1]}
  BY <1>3, <1>11 DEF Typed
<1>19. Local(r) /\ Grows /\ disk'[r] = done /\ proc'[r] = p
  <2>1. StateSound /\ UNCHANGED serverVars /\ late' \subseteq late
    BY <1>3
  <2>2. done \in Checkpoints
    BY <1>16
  <2>3. disk' = [disk EXCEPT ![r] = done] /\ proc' = [proc EXCEPT ![r] = p]
    BY <1>11
  <2>4. minted' \in {minted, [minted EXCEPT ![r] = @ + 1]}
    BY <1>18
  <2> QED
    BY <2>1, <2>2, <2>3, <2>4, LocalParts
<1>20. Reached(ckpt.case, ckpt.pending + 1)'
  BY <1>3, <1>4, <1>14, <1>19, ReachedStaysReached
<1>21. Good(report)'
  <2>1. Reached(ckpt.case, TurnCount[ckpt.case])'
    <3>1. TurnCount[ckpt.case] = ckpt.pending + 1
      BY <1>3, <1>4, <1>14
    <3> QED
      BY <1>20, <3>1
  <2> QED
    BY <1>13, <2>1 DEF Good, GoodCompletion
<1>22. Sound(r, done)'
  BY <1>13, <1>15, <1>16, <1>20, <1>21 DEF Sound
<1>23. Entered(r)'
  BY <1>3, <1>17, <1>19, SoundStaysSound DEF Entered
<1> QED
  BY <1>16, <1>17, <1>19, <1>22, <1>23, ReportStep

LEMMA FailCaseSound ==
    ASSUME SysInv, NEW r \in Runners, UNCHANGED <<serverVars, late>>,
           NEW parents, FailCase(r, parents),
           At(r, "send") \/ At(r, "turn") \/ At(r, "complete")
    PROVE  SysInv'
<1>1. PICK entry : entry = proc[r].entry
  OBVIOUS
<1>2. StateSound /\ Typed /\ DOMAIN proc[r] = ProcFields /\ Sound(r, entry)
  BY <1>1 DEF SysInv, StateSound, ProcSound, At, Entered
<1>3. PICK key : key = IF entry.complete_key = None THEN NewKey(r) ELSE entry.complete_key
  OBVIOUS
<1>4. PICK report : report = FailureReport(entry, key)
  OBVIOUS
<1>5. PICK failed : failed = [entry EXCEPT !.complete_key = key, !.phase = "complete",
                                           !.submission = report]
  OBVIOUS
<1>6. PICK q : q = [proc[r] EXCEPT !.parents = parents]
  OBVIOUS
<1>7. PICK p : p = Waiting(q, "failing", report)
  OBVIOUS
<1>8. /\ disk' = [disk EXCEPT ![r] = failed] /\ proc' = [proc EXCEPT ![r] = p]
      /\ minted' = [minted EXCEPT ![r] = IF entry.complete_key = None THEN @ + 1 ELSE @]
  BY <1>1, <1>3, <1>4, <1>5, <1>6, <1>7, Zenon DEF FailCase
<1>9. entry \in Checkpoints /\ key \in Keys
  BY <1>2, <1>3, ReportKey DEF Sound
<1>10. entry.case \in Cases /\ entry.lease \in Nat \ {0}
  BY <1>9 DEF Checkpoints
<1>11. /\ report \in Requests /\ report.op = "complete" /\ report.case = entry.case
       /\ report.outcome = "execution_failed" /\ report # None
  <2>1. report \in CompleteRequests
    BY <1>4, <1>9, <1>10 DEF FailureReport, CompleteRequest, CompleteRequests
  <2> QED
    BY <1>4, <2>1, RequestKinds DEF FailureReport, CompleteRequest, Requests
<1>12. /\ failed \in Checkpoints /\ failed.case = entry.case
       /\ failed.submitted = entry.submitted
       /\ failed.phase = "complete" /\ failed.submission = report
  BY <1>5, <1>9, <1>11 DEF Checkpoints
<1>13. DOMAIN p = ProcFields /\ p.at = "failing" /\ p.request = report
  <2>1. DOMAIN q = ProcFields
    BY <1>2, <1>6 DEF ProcFields
  <2> QED
    BY <1>7, <2>1, WaitingParts
<1>14. minted' \in {minted, [minted EXCEPT ![r] = @ + 1]}
  BY <1>2, <1>8 DEF Typed
<1>15. Local(r) /\ Grows /\ disk'[r] = failed /\ proc'[r] = p
  <2>1. StateSound /\ UNCHANGED serverVars /\ late' \subseteq late
    BY <1>2
  <2>2. failed \in Checkpoints
    BY <1>12
  <2>3. disk' = [disk EXCEPT ![r] = failed] /\ proc' = [proc EXCEPT ![r] = p]
    BY <1>8
  <2>4. minted' \in {minted, [minted EXCEPT ![r] = @ + 1]}
    BY <1>14
  <2> QED
    BY <2>1, <2>2, <2>3, <2>4, LocalParts
<1>16. Sound(r, failed)'
  <2>1. Sound(r, entry)'
    BY <1>2, <1>15, SoundStaysSound
  <2>2. Good(report)'
    BY <1>11 DEF Good, GoodCompletion
  <2> QED
    BY <1>11, <1>12, <2>1, <2>2 DEF Sound
<1> QED
  BY <1>12, <1>13, <1>15, <1>16, ReportStep

LEMMA FailingSound ==
    ASSUME SysInv, NEW r \in Runners, UNCHANGED <<serverVars, late>>,
           SendRaises(r) \/ CallErrors(r)
    PROVE  SysInv'
<1>1. CASE SendRaises(r)
  BY <1>1, FailCaseSound DEF SendRaises
<1>2. CASE CallErrors(r)
  BY <1>2, FailCaseSound DEF CallErrors, Answered
<1> QED
  BY <1>1, <1>2

LEMMA AttemptSound ==
    ASSUME SysInv, NEW r \in Runners, AttemptFails(r)
    PROVE  SysInv'
<1>1. /\ StateSound /\ Typed /\ ProcSound(r) /\ DOMAIN proc[r] = ProcFields /\ DiskSound(r)
      /\ UNCHANGED <<serverVars, disk, minted>> /\ proc[r].request # None
      /\ \A m \in late' : m \in late \/ m = [runner |-> r, request |-> proc[r].request]
  BY DEF SysInv, StateSound, ProcSound, AttemptFails, GivenUp
<1>2. PICK p : /\ proc' = [proc EXCEPT ![r] = p]
               /\ \/ p = Retrying(proc[r])
                  \/ p = [proc[r] EXCEPT !.answer = [verdict |-> "transport"]]
  <2>1. CASE MoreAttempts(proc[r])
    BY <2>1 DEF AttemptFails
  <2>2. CASE ~MoreAttempts(proc[r])
    BY <2>2 DEF AttemptFails
  <2> QED
    BY <2>1, <2>2
<1>3. /\ DOMAIN p = ProcFields /\ p.at = proc[r].at /\ p.request = proc[r].request
      /\ p.entry = proc[r].entry /\ p.current = proc[r].current
      /\ p.session = proc[r].session
      /\ p.answer # None => p.answer.verdict = "transport"
  <2>1. CASE p = Retrying(proc[r])
    BY <1>1, <2>1 DEF ProcFields, Retrying
  <2>2. CASE p = [proc[r] EXCEPT !.answer = [verdict |-> "transport"]]
    <3>1. PICK failure : failure = [verdict |-> "transport"]
      OBVIOUS
    <3>2. failure.verdict = "transport"
      BY <3>1
    <3>3. p = [proc[r] EXCEPT !.answer = failure]
      BY <2>2, <3>1
    <3> QED
      BY <1>1, <3>2, <3>3 DEF ProcFields
  <2> QED
    BY <1>2, <2>1, <2>2
<1>4. /\ proc'[r] = p /\ DOMAIN proc' = Runners
      /\ \A q \in Runners \ {r} : proc'[q] = proc[q]
  BY <1>1, <1>2 DEF Typed
<1>5. Local(r)
  BY <1>1, <1>4 DEF Typed, Local
<1>6. Grows
  BY <1>1, <1>5, LocalGrows
<1>7. DiskSound(r)'
  BY <1>1, <1>6, SoundStaysSound DEF DiskSound
<1>8. ProcSound(r)'
  <2>1. Entered(r) => Entered(r)'
    BY <1>3, <1>4, <1>6, SoundStaysSound DEF Entered
  <2>2. ClaimAnswerSound(r)' /\ TurnAnswerSound(r)'
    BY <1>3, <1>4 DEF ClaimAnswerSound, TurnAnswerSound, Succeeded
  <2>3. (InTurns(r) <=> InTurns(r)') /\ (Completing(r) => Completing(r)')
    BY <1>1, <1>3, <1>4 DEF InTurns, Completing
  <2> QED
    BY <1>1, <1>3, <1>4, <2>1, <2>2, <2>3 DEF ProcSound, At
<1>9. (proc[r].request # None => Good(proc[r].request))'
  <2>1. Good(proc[r].request)
    BY <1>1, OutstandingParts DEF StateSound, RequestsSound
  <2> QED
    BY <1>3, <1>4, <1>6, <2>1, GoodStaysGood
<1>10. NoTurnBut(r, None) /\ None \notin OutstandingOf("turn")'
  BY <1>1, <1>3, <1>4, OutstandingParts DEF NoTurnBut, OutstandingOf
<1>11. disk'[r] = disk[r]
  BY <1>1
<1> QED
  BY <1>5, <1>7, <1>8, <1>9, <1>10, <1>11, LocalStep

-----------------------------------------------------------------------------
(* The invariant *)

LEMMA InitHttp == Init => Http!IInv
<1> SUFFICES ASSUME Init PROVE Http!IInv
  OBVIOUS
<1> DEFINE fresh == [Server!NoCase EXCEPT !.status = "queued"]
<1>1. /\ fresh.status = "queued" /\ fresh.lease = 0 /\ fresh.left = 0
      /\ fresh.expected_sequence = 0 /\ fresh.turns = << >>
      /\ fresh.completion = None /\ fresh.claimed_by = None
  BY DEF Server!NoCase
<1>2. fresh \in Http!CaseRecord
  <2>1. 0 \in 0..LeaseTTL
    BY SystemAssumption
  <2>2. fresh = [status |-> "queued", lease |-> 0, left |-> 0, expected_sequence |-> 0,
                 turns |-> << >>, completion |-> None, claimed_by |-> None]
    BY DEF Server!NoCase
  <2> HIDE DEF fresh
  <2> QED
    BY <2>1, <2>2 DEF Http!CaseRecord, Http!CaseStatus
<1> HIDE DEF fresh
<1>3. cases = [c \in Cases |-> fresh] /\ leases = << >>
  BY DEF Init, fresh
<1>4. ASSUME NEW c \in Cases
      PROVE  Http!CaseInv(c, cases[c], leases)
  BY <1>1, <1>2, <1>3 DEF Http!CaseInv, Http!HeldInv, Http!TurnsInv, Http!SealInv, Http!Held,
                          Http!Terminal
<1>5. Http!OnePerRunner(cases)
  BY <1>1, <1>3 DEF Http!OnePerRunner
<1>6. Http!StateInv(cases, leases)
  BY <1>2, <1>3, <1>4, <1>5 DEF Http!StateInv
<1>7. keyState \in [{RunnerKey} -> {"absent", "active", "revoked"}] /\ queue \in Seq(Cases)
  BY SystemAssumption DEF Init
<1> QED
  BY <1>6, <1>7 DEF Http!IInv

LEMMA InitSound == Init => SysInv
<1> SUFFICES ASSUME Init PROVE SysInv
  OBVIOUS
<1>1. /\ disk = [r \in Runners |-> None] /\ proc = [r \in Runners |-> Off]
      /\ minted = [r \in Runners |-> 0] /\ late = {}
  BY DEF Init, InitLoop
<1>2. \A c \in Cases : cases[c].turns = << >> /\ cases[c].completion = None
  BY DEF Init, Server!NoCase
<1>3. Typed /\ Http!IInv
  BY <1>1, InitHttp DEF Typed
<1>4. \A req \in Outstanding : req = None
  BY <1>1, OffParts DEF Outstanding
<1>5. RequestsSound /\ TurnKeyFixesBody
  BY <1>4 DEF RequestsSound, TurnKeyFixesBody, OutstandingOf
<1>6. ASSUME NEW r \in Runners
      PROVE  DiskSound(r) /\ Fresh(r) /\ ProcSound(r)
  BY <1>1, OffParts DEF DiskSound, Fresh, InTurns, ProcSound, At
<1>7. RecordsSound
  <2>1. \A c \in Cases : TurnCount[c] \in Nat
    BY SystemAssumption
  <2> QED
    BY <1>2, <2>1 DEF RecordsSound
<1> QED
  BY <1>3, <1>5, <1>6, <1>7 DEF SysInv, StateSound

LEMMA IdleSound == SysInv /\ UNCHANGED vars => SysInv'
<1> SUFFICES ASSUME SysInv, UNCHANGED vars PROVE SysInv'
  OBVIOUS
<1>1. Http!IInv' /\ Http!Effect(ClaimRequest)
  BY DEF vars, serverVars, SysInv, StateSound, Http!IInv, Http!StateInv, Http!CaseInv,
         Http!HeldInv, Http!TurnsInv, Http!SealInv, Http!OnePerRunner, Http!Effect,
         Http!TurnsEffect, Http!SealEffect
<1> QED
  BY <1>1, SilentStep DEF vars, loopVars, ClaimRequest

LEMMA StepSound ==
    ASSUME SysInv, NEW r \in Runners, Step(r)
    PROVE  SysInv'
<1>1. UNCHANGED <<serverVars, late>> /\ Proceed(r)
  BY DEF Step
<1>2. CASE \/ ClaimEnds(r) \/ ResumeLost(r) \/ ResumeFails(r)
           \/ CompletionAccepted(r) \/ CaseLost(r)
           \/ FailureRecorded(r) \/ FailureUnwanted(r) \/ FailureEscapes(r)
  BY <1>1, <1>2, RestSound
<1>3. CASE ClaimLeased(r)
  BY <1>1, <1>3, ClaimLeasedSound
<1>4. CASE ResumeAlive(r)
  BY <1>1, <1>4, ResumeAliveSound
<1>5. CASE Send(r)
  BY <1>1, <1>5, SendSound
<1>6. CASE TurnContinues(r)
  BY <1>1, <1>6, TurnContinuesSound
<1>7. CASE TurnFinishes(r)
  BY <1>1, <1>7, TurnFinishesSound
<1>8. CASE SendRaises(r) \/ CallErrors(r)
  BY <1>1, <1>8, FailingSound
<1> QED
  BY <1>1, <1>2, <1>3, <1>4, <1>5, <1>6, <1>7, <1>8 DEF Proceed

LEMMA NextSound == SysInv /\ [Next]_vars => SysInv'
<1> SUFFICES ASSUME SysInv, [Next]_vars PROVE SysInv'
  OBVIOUS
<1>1. ASSUME NEW r \in Runners, Start(r)
      PROVE  SysInv'
  BY <1>1, BootSound
<1>2. ASSUME NEW r \in Runners, Step(r)
      PROVE  SysInv'
  BY <1>2, StepSound
<1>3. ASSUME NEW r \in Runners, Serve(r)
      PROVE  SysInv'
  BY <1>3, ServeSound
<1>4. ASSUME NEW r \in Runners, Beat(r)
      PROVE  SysInv'
  BY <1>4, BeatSound
<1>5. ASSUME NEW r \in Runners, AttemptFails(r)
      PROVE  SysInv'
  BY <1>5, AttemptSound
<1>6. ASSUME NEW r \in Runners, Killed(r)
      PROVE  SysInv'
  BY <1>6, KilledSound
<1>7. CASE LateArrives
  BY <1>7, LateSound
<1>8. CASE Tick
  BY <1>8, TickSound
<1>9. CASE UNCHANGED vars
  BY <1>9, IdleSound
<1> QED
  BY <1>1, <1>2, <1>3, <1>4, <1>5, <1>6, <1>7, <1>8, <1>9 DEF Next

\* Whatever is on its way or saved may be served at any time and any number of
\* times, and what processes remember agrees with their checkpoints.
THEOREM SystemInvariance == Spec => []SysInv
<1>1. Init => SysInv
  BY InitSound
<1>2. SysInv /\ [Next]_vars => SysInv'
  BY NextSound
<1> QED
  BY <1>1, <1>2, PTL DEF Spec

-----------------------------------------------------------------------------
(* What follows from it *)

\* Every recorded answer was given by a target that had heard exactly the inputs
\* up to its own, in order, whatever was killed, lost, repeated or delayed.
THEOREM ConversationStaysIntact == Spec => []ConversationIntact
<1>1. SysInv => ConversationIntact
  BY DEF SysInv, StateSound, RecordsSound, ConversationIntact
<1> QED
  BY <1>1, SystemInvariance, PTL

\* One idempotency key stands for one turn with one content.
THEOREM KeysFixBodies == Spec => []TurnKeyFixesBody
<1>1. SysInv => TurnKeyFixesBody
  BY DEF SysInv, StateSound
<1> QED
  BY <1>1, SystemInvariance, PTL

\* A case completed has its whole script recorded, and no case has more.
THEOREM CompletionMeansTheEnd == Spec => []CompletedRanToEnd
<1>1. SysInv => CompletedRanToEnd
  <2> SUFFICES ASSUME SysInv, NEW c \in Cases
               PROVE  /\ Len(cases[c].turns) <= TurnCount[c]
                      /\ cases[c].completion # None
                         /\ cases[c].completion.event = "completed"
                         => Len(cases[c].turns) = TurnCount[c]
    BY DEF CompletedRanToEnd
  <2>1. Len(cases[c].turns) \in Nat /\ TurnCount[c] \in Nat
    BY TurnsTyped, SystemAssumption DEF SysInv, StateSound
  <2> QED
    BY <2>1 DEF SysInv, StateSound, RecordsSound, Reached
<1> QED
  BY <1>1, SystemInvariance, PTL

\* The checkpoint never claims more than the orchestrator has recorded.
THEOREM CheckpointStaysBehind == Spec => []CheckpointTrailsServer
<1>1. SysInv => CheckpointTrailsServer
  <2> SUFFICES ASSUME SysInv, NEW r \in Runners, disk[r] # None
               PROVE  /\ disk[r].submitted = Inputs(Len(disk[r].submitted))
                      /\ Len(disk[r].submitted) <= Len(cases[disk[r].case].turns)
                      /\ disk[r].phase = "turn" => disk[r].pending = Len(disk[r].submitted)
                      /\ disk[r].phase = "complete"
                         /\ disk[r].submission.outcome = "completed"
                         => Len(cases[disk[r].case].turns) = TurnCount[disk[r].case]
    BY DEF CheckpointTrailsServer
  <2>1. StateSound /\ Sound(r, disk[r])
    BY DEF SysInv, StateSound, DiskSound
  <2>2. disk[r].case \in Cases
    BY <2>1 DEF Sound, Checkpoints
  <2>3. /\ Len(cases[disk[r].case].turns) \in Nat /\ TurnCount[disk[r].case] \in Nat
        /\ Len(cases[disk[r].case].turns) <= TurnCount[disk[r].case]
    BY <2>1, <2>2, TurnsTyped, SystemAssumption DEF StateSound, RecordsSound
  <2>4. disk[r].phase = "complete" /\ disk[r].submission.outcome = "completed"
        => Reached(disk[r].case, TurnCount[disk[r].case])
    BY <2>1 DEF Sound, Good, GoodCompletion
  <2> QED
    BY <2>1, <2>3, <2>4 DEF Sound, Reached
<1> QED
  BY <1>1, SystemInvariance, PTL

-----------------------------------------------------------------------------
(* Types *)

Files == [kind : {"body", "manifest"}, artifact : Artifacts, parents : SUBSET Artifacts]

ProcTyped(p) ==
    /\ p.entry \in Checkpoints \union {None} /\ p.current \in Checkpoints \union {None}
    /\ p.attempt \in 0..Attempts
    /\ p.parents \subseteq Artifacts

FilesTyped == artifacts \in [Runners -> SUBSET Files]

LateTyped == late \subseteq [runner : Runners, request : Requests]

\* What the invariant of the system does not say of types.
TypeInv == FilesTyped /\ LateTyped /\ \A r \in Runners : ProcTyped(proc[r])

LEMMA FilePairTyped ==
    ASSUME NEW artifact \in Artifacts, NEW parents \in SUBSET Artifacts
    PROVE  FilePair(artifact, parents) \in Seq(Files) /\ Len(FilePair(artifact, parents)) = 2
<1>1. /\ [kind |-> "body", artifact |-> artifact, parents |-> {}] \in Files
      /\ [kind |-> "manifest", artifact |-> artifact, parents |-> parents] \in Files
  BY DEF Files
<1> QED
  BY <1>1 DEF FilePair

\* The call that has been answered was about evidence, whose files are typed.
LEMMA EvidenceTyped ==
    ASSUME SysInv, TypeInv, NEW r \in Runners,
           Answered(r, "turn") \/ Answered(r, "complete") \/ Answered(r, "failing")
    PROVE  EvidenceOf(r) \in Seq(Files) /\ Len(EvidenceOf(r)) \in Nat
<1> DEFINE req == proc[r].request
<1>1. /\ disk[r] # None /\ Sound(r, disk[r]) /\ req = disk[r].submission /\ req # None
      /\ Good(req) /\ req.op \in {"turn", "complete"}
  BY DEF SysInv, StateSound, ProcSound, InTurns, Completing, DiskSound, Answered, At, Sound,
         SavedTurn
<1>2. CASE req.op = "turn"
  <2>1. req \in TurnRequests
    BY <1>1, <1>2, RequestKinds DEF Good
  <2> DEFINE turn == Artifact(req.case, <<"turn", req.sequence>>, req.output)
             seen == Artifact(req.case, <<"observations", req.sequence>>, req.output)
  <2>2. turn \in Artifacts /\ seen \in Artifacts
    BY <2>1 DEF TurnRequests, Artifact, Artifacts
  <2> HIDE DEF turn, seen
  <2>3. FilePair(turn, {}) \in Seq(Files) /\ FilePair(seen, {turn}) \in Seq(Files)
    BY <2>2, FilePairTyped
  <2>4. EvidenceOf(r) = FilePair(turn, {})
                        \o IF <<req.case, req.sequence>> \in Observed
                           THEN FilePair(seen, {turn}) ELSE << >>
    BY <1>2 DEF EvidenceOf, TurnFiles, turn, seen
  <2>5. << >> \in Seq(Files)
    OBVIOUS
  <2> QED
    BY <2>3, <2>4, <2>5
<1>3. CASE req.op = "complete"
  <2>1. req \in CompleteRequests
    BY <1>1, <1>3, RequestKinds DEF Good
  <2> DEFINE report == Artifact(req.case, <<"completion", 0>>, [outcome |-> req.outcome])
  <2>2. report \in Artifacts
    BY <2>1 DEF CompleteRequests, Artifact, Artifacts, Server!Outcomes
  <2> HIDE DEF report
  <2>3. EvidenceOf(r) = FilePair(report, proc[r].parents)
    BY <1>3 DEF EvidenceOf, CompletionFiles, report
  <2> QED
    BY <2>2, <2>3, FilePairTyped DEF TypeInv, ProcTyped
<1> QED
  BY <1>1, <1>2, <1>3

LEMMA WrittenTyped ==
    ASSUME TypeInv, NEW r \in Runners, EvidenceOf(r) \in Seq(Files),
           NEW n \in 0..Len(EvidenceOf(r))
    PROVE  /\ WriteFirst(r, n) => FilesTyped'
           /\ ParentsAfter(r, n) \subseteq Artifacts
<1>1. \A m \in 1..n : EvidenceOf(r)[m] \in Files
  OBVIOUS
<1>2. {EvidenceOf(r)[m] : m \in 1..n} \subseteq Files
  BY <1>1
<1>3. ASSUME WriteFirst(r, n)
      PROVE  FilesTyped'
  <2> DEFINE written == {EvidenceOf(r)[m] : m \in 1..n}
             kept == {f \in artifacts[r] : \A g \in written : FileName(f) # FileName(g)}
  <2>1. artifacts' = [artifacts EXCEPT ![r] = kept \union written]
    BY <1>3 DEF WriteFirst
  <2>2. kept \subseteq Files
    BY DEF TypeInv, FilesTyped
  <2> HIDE DEF kept, written
  <2>3. written \subseteq Files
    BY <1>2 DEF written
  <2> QED
    BY <2>1, <2>2, <2>3 DEF TypeInv, FilesTyped
<1>4. ParentsAfter(r, n) \subseteq Artifacts
  <2>1. \A m \in 1..n : EvidenceOf(r)[m].artifact \in Artifacts
    BY <1>1 DEF Files
  <2> QED
    BY <2>1 DEF ParentsAfter, TypeInv, ProcTyped
<1> QED
  BY <1>3, <1>4

\* Whatever a process does, the files it leaves are typed.
LEMMA FilesStayTyped ==
    ASSUME SysInv, TypeInv, NEW r \in Runners, Proceed(r) \/ Crash(r)
    PROVE  FilesTyped'
<1>1. CASE UNCHANGED artifacts
  BY <1>1 DEF TypeInv, FilesTyped
<1>2. CASE \E n \in 0..Len(EvidenceOf(r)) :
              /\ Answered(r, "turn") \/ Answered(r, "complete") \/ Answered(r, "failing")
              /\ WriteFirst(r, n)
  BY <1>2, EvidenceTyped, WrittenTyped
<1>3. ASSUME Answered(r, "turn") \/ Answered(r, "complete") \/ Answered(r, "failing"),
             WriteAll(r)
      PROVE  FilesTyped'
  <2>1. EvidenceOf(r) \in Seq(Files) /\ Len(EvidenceOf(r)) \in 0..Len(EvidenceOf(r))
    BY <1>3, EvidenceTyped
  <2> QED
    BY <1>3, <2>1, WrittenTyped DEF WriteAll
<1>4. CASE Crash(r)
  <2>1. ASSUME Answered(r, "turn") \/ Answered(r, "complete") \/ Answered(r, "failing"),
               NEW n \in 1..Len(EvidenceOf(r)), WriteFirst(r, n)
        PROVE  FilesTyped'
    <3>1. EvidenceOf(r) \in Seq(Files) /\ n \in 0..Len(EvidenceOf(r))
      BY <2>1, EvidenceTyped
    <3> QED
      BY <2>1, <3>1, WrittenTyped
  <2> QED
    BY <1>1, <1>4, <2>1 DEF Crash
<1>5. CASE \/ ClaimLeased(r) \/ ClaimEnds(r) \/ ResumeAlive(r) \/ ResumeLost(r)
           \/ ResumeFails(r) \/ Send(r) \/ SendRaises(r) \/ CaseLost(r) \/ FailureUnwanted(r)
  BY <1>1, <1>5 DEF ClaimLeased, ClaimEnds, ResumeAlive, ResumeLost, ResumeFails, Send,
                    SendRaises, CaseLost, FailureUnwanted
<1>6. CASE TurnContinues(r) \/ TurnFinishes(r) \/ CompletionAccepted(r) \/ FailureRecorded(r)
  BY <1>3, <1>6 DEF TurnContinues, TurnFinishes, CompletionAccepted, FailureRecorded
<1>7. CASE CallErrors(r) \/ FailureEscapes(r)
  BY <1>1, <1>2, <1>7 DEF CallErrors, FailureEscapes, RaisesAfterAnswer
<1> QED
  BY <1>4, <1>5, <1>6, <1>7 DEF Proceed

\* A process that ends, waits for its first answer, or begins a case.
LEMMA PlainTyped ==
    /\ ProcTyped(Off) /\ ProcTyped(Claiming)
    /\ \A request : ProcTyped(Waiting(Off, "resume", request))
<1>1. ProcTyped(Off)
  BY SystemAssumption DEF Off, ProcTyped
<1>2. 1 \in 0..Attempts
  BY SystemAssumption
<1> QED
  BY <1>1, <1>2, OffParts, WaitingParts DEF Claiming, ProcTyped

\* The next process of a step: what it was entered with, and what it works on, was
\* known before or is what the step saved.
LEMMA NextProcTyped ==
    ASSUME Typed', NEW r \in Runners, ProcTyped(proc[r]), NEW p,
           p.entry \in {proc[r].entry, disk'[r]}, p.current \in {proc[r].current, disk'[r]},
           p.attempt \in {0, 1}, p.parents \subseteq Artifacts
    PROVE  ProcTyped(p)
<1>1. 0 \in 0..Attempts /\ 1 \in 0..Attempts
  BY SystemAssumption
<1>2. disk'[r] \in Checkpoints \union {None}
  BY DEF Typed
<1> QED
  BY <1>1, <1>2 DEF ProcTyped

LEMMA BootTyped ==
    ASSUME SysInv, Typed', TypeInv, NEW r \in Runners, Boot(r)
    PROVE  ProcTyped(proc'[r])
<1>1. DOMAIN proc = Runners /\ disk' = disk /\ ProcTyped(proc[r])
  BY DEF SysInv, StateSound, Typed, TypeInv, Boot
<1>2. PICK ckpt : ckpt = disk[r]
  OBVIOUS
<1> DEFINE resumed == [Off EXCEPT !.entry = ckpt, !.current = ckpt]
           p == Waiting(resumed, "complete", ckpt.submission)
<1>3. ProcTyped(p)
  <2>1. /\ DOMAIN resumed = ProcFields /\ resumed.entry = ckpt /\ resumed.current = ckpt
        /\ resumed.parents = {}
    BY DEF Off, ProcFields
  <2> HIDE DEF resumed
  <2>2. p.entry = ckpt /\ p.current = ckpt /\ p.attempt = 1 /\ p.parents = {}
    BY <2>1, WaitingParts
  <2> HIDE DEF p
  <2> QED
    BY <1>1, <1>2, <2>2, NextProcTyped
<1>4. proc' \in {[proc EXCEPT ![r] = Claiming], [proc EXCEPT ![r] = p],
                 [proc EXCEPT ![r] = Waiting(Off, "resume", HeartbeatRequest(ckpt))]}
  BY <1>2 DEF Boot
<1> HIDE DEF p
<1> QED
  BY <1>1, <1>3, <1>4, PlainTyped

LEMMA BeginTyped ==
    ASSUME SysInv, Typed', TypeInv, NEW r \in Runners, NEW ckpt, ckpt = disk'[r], NEW session,
           BeginCase(r, ckpt, session)
    PROVE  ProcTyped(proc'[r])
<1>1. /\ DOMAIN proc = Runners /\ DOMAIN proc[r] = ProcFields /\ ProcTyped(proc[r])
  BY DEF SysInv, StateSound, Typed, TypeInv, ProcSound
<1>2. PICK p : p = [proc[r] EXCEPT !.at = "send", !.entry = ckpt, !.current = ckpt,
                                   !.session = session, !.request = None,
                                   !.answer = None, !.attempt = 0]
  OBVIOUS
<1>3. p.entry = ckpt /\ p.current = ckpt /\ p.attempt = 0 /\ p.parents = proc[r].parents
  BY <1>1, <1>2 DEF ProcFields
<1>4. proc'[r] \in {Off, p}
  BY <1>1, <1>2 DEF BeginCase
<1>5. ProcTyped(p)
  BY <1>1, <1>3, NextProcTyped DEF ProcTyped
<1> QED
  BY <1>4, <1>5, PlainTyped

LEMMA SendTyped ==
    ASSUME SysInv, Typed', TypeInv, NEW r \in Runners, Send(r)
    PROVE  ProcTyped(proc'[r])
<1>1. /\ DOMAIN proc = Runners /\ DOMAIN proc[r] = ProcFields /\ ProcTyped(proc[r])
      /\ DOMAIN disk = Runners
  BY DEF SysInv, StateSound, Typed, TypeInv, ProcSound
<1>2. PICK saved, heard, submission :
         /\ disk' = [disk EXCEPT ![r] = saved]
         /\ proc' = [proc EXCEPT ![r] =
               Waiting([@ EXCEPT !.current = saved, !.session = heard], "turn", submission)]
  BY Zenon DEF Send
<1>3. PICK q : q = [proc[r] EXCEPT !.current = saved, !.session = heard]
  OBVIOUS
<1>4. /\ DOMAIN q = ProcFields /\ q.entry = proc[r].entry /\ q.current = saved
      /\ q.parents = proc[r].parents
  BY <1>1, <1>3 DEF ProcFields
<1>5. PICK p : p = Waiting(q, "turn", submission)
  OBVIOUS
<1>6. /\ p.entry = proc[r].entry /\ p.current = saved /\ p.parents = proc[r].parents
      /\ p.attempt = 1
  BY <1>4, <1>5, WaitingParts
<1>7. disk'[r] = saved /\ proc'[r] = p
  BY <1>1, <1>2, <1>3, <1>5
<1> QED
  BY <1>1, <1>6, <1>7, NextProcTyped DEF ProcTyped

LEMMA TurnContinuesTyped ==
    ASSUME SysInv, Typed', TypeInv, NEW r \in Runners, TurnContinues(r)
    PROVE  ProcTyped(proc'[r])
<1>1. /\ DOMAIN proc = Runners /\ DOMAIN proc[r] = ProcFields /\ ProcTyped(proc[r])
      /\ DOMAIN disk = Runners
  BY DEF SysInv, StateSound, Typed, TypeInv, ProcSound
<1>2. PICK parents : parents = ParentsAfter(r, Len(EvidenceOf(r)))
  OBVIOUS
<1>3. parents \subseteq Artifacts
  <2>1. EvidenceOf(r) \in Seq(Files) /\ Len(EvidenceOf(r)) \in 0..Len(EvidenceOf(r))
    BY EvidenceTyped DEF TurnContinues
  <2> QED
    BY <1>2, <2>1, WrittenTyped
<1>4. PICK next : /\ disk' = [disk EXCEPT ![r] = next]
                  /\ proc' = [proc EXCEPT ![r] =
                        [@ EXCEPT !.at = "send", !.current = next, !.parents = parents,
                                  !.request = None, !.answer = None, !.attempt = 0]]
  BY <1>2, Zenon DEF TurnContinues
<1>5. PICK p : p = [proc[r] EXCEPT !.at = "send", !.current = next, !.parents = parents,
                                   !.request = None, !.answer = None, !.attempt = 0]
  OBVIOUS
<1>6. p.entry = proc[r].entry /\ p.current = next /\ p.parents = parents /\ p.attempt = 0
  BY <1>1, <1>5 DEF ProcFields
<1>7. disk'[r] = next /\ proc'[r] = p
  BY <1>1, <1>4, <1>5
<1> QED
  BY <1>1, <1>3, <1>6, <1>7, NextProcTyped

LEMMA TurnFinishesTyped ==
    ASSUME SysInv, Typed', TypeInv, NEW r \in Runners, TurnFinishes(r)
    PROVE  ProcTyped(proc'[r])
<1>1. /\ DOMAIN proc = Runners /\ DOMAIN proc[r] = ProcFields /\ ProcTyped(proc[r])
      /\ DOMAIN disk = Runners
  BY DEF SysInv, StateSound, Typed, TypeInv, ProcSound
<1>2. PICK parents : parents = ParentsAfter(r, Len(EvidenceOf(r)))
  OBVIOUS
<1>3. parents \subseteq Artifacts
  <2>1. EvidenceOf(r) \in Seq(Files) /\ Len(EvidenceOf(r)) \in 0..Len(EvidenceOf(r))
    BY EvidenceTyped DEF TurnFinishes
  <2> QED
    BY <1>2, <2>1, WrittenTyped
<1>4. PICK done, report : /\ disk' = [disk EXCEPT ![r] = done]
                          /\ proc' = [proc EXCEPT ![r] =
                                Waiting([@ EXCEPT !.current = done, !.parents = parents],
                                        "complete", report)]
  BY <1>2, Zenon DEF TurnFinishes
<1>5. PICK q : q = [proc[r] EXCEPT !.current = done, !.parents = parents]
  OBVIOUS
<1>6. /\ DOMAIN q = ProcFields /\ q.entry = proc[r].entry /\ q.current = done
      /\ q.parents = parents
  BY <1>1, <1>5 DEF ProcFields
<1>7. PICK p : p = Waiting(q, "complete", report)
  OBVIOUS
<1>8. p.entry = proc[r].entry /\ p.current = done /\ p.parents = parents /\ p.attempt = 1
  BY <1>6, <1>7, WaitingParts
<1>9. disk'[r] = done /\ proc'[r] = p
  BY <1>1, <1>4, <1>5, <1>7
<1> QED
  BY <1>1, <1>3, <1>8, <1>9, NextProcTyped

LEMMA FailCaseTyped ==
    ASSUME SysInv, Typed', TypeInv, NEW r \in Runners, NEW parents \in SUBSET Artifacts,
           FailCase(r, parents)
    PROVE  ProcTyped(proc'[r])
<1>1. DOMAIN proc = Runners /\ DOMAIN proc[r] = ProcFields /\ ProcTyped(proc[r])
  BY DEF SysInv, StateSound, Typed, TypeInv, ProcSound
<1>2. PICK report : proc' = [proc EXCEPT ![r] =
                       Waiting([@ EXCEPT !.parents = parents], "failing", report)]
  BY Zenon DEF FailCase
<1>3. PICK q : q = [proc[r] EXCEPT !.parents = parents]
  OBVIOUS
<1>4. /\ DOMAIN q = ProcFields /\ q.entry = proc[r].entry /\ q.current = proc[r].current
      /\ q.parents = parents
  BY <1>1, <1>3 DEF ProcFields
<1>5. PICK p : p = Waiting(q, "failing", report)
  OBVIOUS
<1>6. /\ p.entry = proc[r].entry /\ p.current = proc[r].current
      /\ p.parents = parents /\ p.attempt = 1
  BY <1>4, <1>5, WaitingParts
<1>7. proc'[r] = p
  BY <1>1, <1>2, <1>3, <1>5
<1> QED
  BY <1>1, <1>6, <1>7, NextProcTyped

LEMMA FailingTyped ==
    ASSUME SysInv, Typed', TypeInv, NEW r \in Runners, SendRaises(r) \/ CallErrors(r)
    PROVE  ProcTyped(proc'[r])
<1>1. proc[r].parents \in SUBSET Artifacts
  BY DEF TypeInv, ProcTyped
<1>2. ASSUME Answered(r, "turn"), NEW n \in 0..Len(EvidenceOf(r))
      PROVE  ParentsAfter(r, n) \in SUBSET Artifacts
  BY <1>2, EvidenceTyped, WrittenTyped
<1> QED
  BY <1>1, <1>2, FailCaseTyped DEF SendRaises, CallErrors

\* The process that takes a step is typed.
LEMMA StepTyped ==
    ASSUME SysInv, Typed', TypeInv, NEW r \in Runners, Proceed(r) \/ Crash(r)
    PROVE  ProcTyped(proc'[r])
<1>1. DOMAIN proc = Runners /\ DOMAIN disk = Runners
  BY DEF SysInv, StateSound, Typed
<1>2. CASE \/ ClaimEnds(r) \/ ResumeLost(r) \/ ResumeFails(r) \/ Crash(r)
           \/ CompletionAccepted(r) \/ CaseLost(r)
           \/ FailureRecorded(r) \/ FailureUnwanted(r) \/ FailureEscapes(r)
  <2>1. proc' \in {[proc EXCEPT ![r] = Off], [proc EXCEPT ![r] = Claiming]}
    BY <1>2 DEF ClaimEnds, ResumeLost, ResumeFails, CompletionAccepted, CaseLost, Crash,
                FailureRecorded, FailureUnwanted, FailureEscapes, LeaveCase, CloseAndLeave
  <2> QED
    BY <1>1, <2>1, PlainTyped
<1>3. CASE ClaimLeased(r)
  <2>1. PICK ckpt : disk' = [disk EXCEPT ![r] = ckpt] /\ BeginCase(r, ckpt, << >>)
    BY <1>3, Zenon DEF ClaimLeased
  <2> QED
    BY <1>1, <2>1, BeginTyped
<1>4. CASE ResumeAlive(r)
  <2>1. BeginCase(r, disk'[r], Replay(disk[r]))
    BY <1>4 DEF ResumeAlive
  <2> QED
    BY <2>1, BeginTyped
<1>5. CASE Send(r)
  BY <1>5, SendTyped
<1>6. CASE TurnContinues(r)
  BY <1>6, TurnContinuesTyped
<1>7. CASE TurnFinishes(r)
  BY <1>7, TurnFinishesTyped
<1>8. CASE SendRaises(r) \/ CallErrors(r)
  BY <1>8, FailingTyped
<1> QED
  BY <1>2, <1>3, <1>4, <1>5, <1>6, <1>7, <1>8 DEF Proceed

\* The processes of the other runners stand still.
LEMMA OthersStand ==
    ASSUME Typed, NEW r \in Runners, Boot(r) \/ Proceed(r) \/ Crash(r),
           NEW q \in Runners \ {r}
    PROVE  proc'[q] = proc[q]
<1>1. DOMAIN proc = Runners
  BY DEF Typed
<1>2. CASE \/ Boot(r) \/ ClaimLeased(r) \/ ResumeAlive(r) \/ Send(r)
           \/ TurnContinues(r) \/ TurnFinishes(r) \/ SendRaises(r) \/ CallErrors(r)
  BY <1>1, <1>2 DEF Boot, ClaimLeased, ResumeAlive, Send, TurnContinues, TurnFinishes,
                    SendRaises, CallErrors, FailCase, BeginCase
<1>3. CASE \/ ClaimEnds(r) \/ ResumeLost(r) \/ ResumeFails(r) \/ Crash(r)
           \/ CompletionAccepted(r) \/ CaseLost(r)
           \/ FailureRecorded(r) \/ FailureUnwanted(r) \/ FailureEscapes(r)
  BY <1>1, <1>3 DEF ClaimEnds, ResumeLost, ResumeFails, CompletionAccepted, CaseLost, Crash,
                    FailureRecorded, FailureUnwanted, FailureEscapes, LeaveCase, CloseAndLeave
<1> QED
  BY <1>2, <1>3 DEF Proceed

\* A request that is left to the network is typed.
LEMMA LeftTyped ==
    ASSUME SysInv, TypeInv, NEW r \in Runners, late' \in GivenUp(r)
    PROVE  LateTyped'
<1>1. ASSUME Pending(r)
      PROVE  proc[r].request \in Requests
  BY <1>1, OutstandingParts DEF SysInv, StateSound, RequestsSound, Good, Pending
<1> QED
  BY <1>1 DEF GivenUp, TypeInv, LateTyped

LEMMA AnswerTyped ==
    ASSUME SysInv, NEW r \in Runners, ProcTyped(proc[r]), NEW answer
    PROVE  ProcTyped([proc[r] EXCEPT !.answer = answer])
<1>1. DOMAIN proc[r] = ProcFields
  BY DEF SysInv, ProcSound
<1> QED
  BY <1>1 DEF ProcFields, ProcTyped

LEMMA AttemptTyped ==
    ASSUME SysInv, TypeInv, NEW r \in Runners, AttemptFails(r)
    PROVE  TypeInv'
<1>1. /\ DOMAIN proc = Runners /\ DOMAIN proc[r] = ProcFields /\ ProcTyped(proc[r])
      /\ FilesTyped' /\ LateTyped'
  BY LeftTyped DEF SysInv, StateSound, Typed, ProcSound, TypeInv, FilesTyped, AttemptFails
<1>2. ASSUME MoreAttempts(proc[r])
      PROVE  ProcTyped(Retrying(proc[r]))
  <2>1. proc[r].attempt + 1 \in 0..Attempts
    BY <1>1, <1>2, SystemAssumption DEF ProcTyped, MoreAttempts
  <2>2. PICK next : next = proc[r].attempt + 1
    OBVIOUS
  <2>3. Retrying(proc[r]) = [proc[r] EXCEPT !.attempt = next, !.answer = None]
    BY <2>2 DEF Retrying
  <2> QED
    BY <1>1, <2>1, <2>2, <2>3 DEF ProcFields, ProcTyped
<1>3. PICK failure : failure = [verdict |-> "transport"]
  OBVIOUS
<1>4. proc' = [proc EXCEPT ![r] = IF MoreAttempts(proc[r]) THEN Retrying(proc[r])
                                  ELSE [proc[r] EXCEPT !.answer = failure]]
  BY <1>3 DEF AttemptFails
<1>5. ProcTyped([proc[r] EXCEPT !.answer = failure])
  BY <1>1, AnswerTyped
<1>6. ProcTyped(proc'[r]) /\ \A q \in Runners \ {r} : proc'[q] = proc[q]
  BY <1>1, <1>2, <1>4, <1>5
<1> QED
  BY <1>1, <1>6 DEF TypeInv, ProcTyped

LEMMA ServeTyped ==
    ASSUME SysInv, TypeInv, NEW r \in Runners, Serve(r)
    PROVE  TypeInv'
<1>1. DOMAIN proc = Runners /\ ProcTyped(proc[r]) /\ FilesTyped' /\ LateTyped'
  BY DEF SysInv, StateSound, Typed, TypeInv, FilesTyped, LateTyped, Serve
<1>2. PICK answer : proc' = [proc EXCEPT ![r] = [proc[r] EXCEPT !.answer = answer]]
  BY DEF Serve
<1>3. ProcTyped(proc'[r]) /\ \A q \in Runners \ {r} : proc'[q] = proc[q]
  BY <1>1, <1>2, AnswerTyped
<1> QED
  BY <1>1, <1>3 DEF TypeInv, ProcTyped

LEMMA NextTyped ==
    ASSUME SysInv, SysInv', TypeInv, [Next]_vars
    PROVE  TypeInv'
<1>1. Typed /\ Typed'
  BY DEF SysInv, StateSound
<1>2. ASSUME NEW r \in Runners, Start(r) \/ Step(r) \/ Killed(r)
      PROVE  TypeInv'
  <2>1. Boot(r) \/ Proceed(r) \/ Crash(r)
    BY <1>2 DEF Start, Step, Killed
  <2>2. ProcTyped(proc'[r])
    BY <1>1, <2>1, BootTyped, StepTyped DEF TypeInv
  <2>3. FilesTyped'
    BY <2>1, FilesStayTyped DEF Boot, TypeInv, FilesTyped
  <2>4. LateTyped'
    BY <1>2, LeftTyped DEF Start, Step, Killed, TypeInv, LateTyped
  <2>5. \A q \in Runners \ {r} : ProcTyped(proc'[q])
    BY <1>1, <2>1, OthersStand DEF TypeInv, ProcTyped
  <2> QED
    BY <2>2, <2>3, <2>4, <2>5 DEF TypeInv, ProcTyped
<1>3. CASE UNCHANGED <<proc, artifacts>> /\ late' \subseteq late
  BY <1>3 DEF TypeInv, FilesTyped, LateTyped, ProcTyped
<1>4. CASE LateArrives \/ Tick \/ UNCHANGED vars \/ \E r \in Runners : Beat(r)
  BY <1>3, <1>4 DEF LateArrives, Tick, Beat, vars, loopVars
<1> QED
  BY <1>2, <1>4, AttemptTyped, ServeTyped DEF Next

LEMMA InitTyped == Init => TypeInv
BY PlainTyped DEF Init, InitLoop, TypeInv, FilesTyped, LateTyped

\* The types of the system's state follow from the two invariants.
LEMMA TypesFollow == SysInv /\ TypeInv => TypeOK
<1> SUFFICES ASSUME SysInv, TypeInv PROVE TypeOK
  OBVIOUS
<1>1. Http!TypeOK
  BY HttpAssumptions, Http!InvariantParts DEF SysInv, StateSound
<1>2. Server!TypeOK
  BY <1>1 DEF Server!TypeOK, Http!TypeOK, Server!CaseRecord, Http!CaseRecord, Server!Lease,
              Http!Lease, Server!TurnRecord, Http!TurnRecord, Server!CompletionRecord,
              Http!CompletionRecord, Server!CaseStatus, Http!CaseStatus, Server!Outcomes,
              Http!Outcomes, Server!Held, Http!Held, Server!Terminal, Http!Terminal
<1>3. \A r \in Runners : proc[r].request \in Requests \union {None}
  BY OutstandingParts DEF SysInv, StateSound, RequestsSound, Good
<1>4. \A r \in Runners : artifacts[r] \subseteq Files
  BY DEF TypeInv, FilesTyped
<1>5. ASSUME NEW r \in Runners
      PROVE  /\ proc[r].at \in {"off", "claim", "resume", "send", "turn", "complete", "failing"}
             /\ {proc[r].entry, proc[r].current} \subseteq Checkpoints \union {None}
             /\ proc[r].attempt \in 0..Attempts
             /\ proc[r].parents \subseteq Artifacts
  BY DEF SysInv, ProcSound, TypeInv, ProcTyped
<1> QED
  BY <1>2, <1>3, <1>4, <1>5 DEF SysInv, StateSound, Typed, TypeInv, LateTyped, TypeOK, Files

\* Every variable of runners, orchestrator and network holds a value of its type,
\* and no call is attempted more often than retry_call allows.
THEOREM SystemTypeCorrect == Spec => []TypeOK
<1>1. Init => TypeInv
  BY InitTyped
<1>2. SysInv /\ SysInv' /\ TypeInv /\ [Next]_vars => TypeInv'
  BY NextTyped
<1>3. SysInv /\ TypeInv => TypeOK
  BY TypesFollow
<1> QED
  BY <1>1, <1>2, <1>3, SystemInvariance, PTL DEF Spec
=============================================================================
