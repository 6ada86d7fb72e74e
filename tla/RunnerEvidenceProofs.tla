------------------------ MODULE RunnerEvidenceProofs ------------------------
(***************************************************************************)
(* Proofs about the evidence that runners keep on disk: as long as a case  *)
(* has not been granted twice, the turns and observations kept of it are   *)
(* the recorded ones, every manifest leads back to bytes that lie beside   *)
(* it, and, if no process was killed, the manifest of its completion names *)
(* an artifact for every turn.                                             *)
(*                                                                         *)
(* Three invariants, each on top of the one before: who holds a case and   *)
(* what may still be sent of it, what the files say, and what a completion *)
(* is derived from.                                                        *)
(***************************************************************************)
EXTENDS RunnerFailureProofs, SequenceTheorems, FiniteSetTheorems

-----------------------------------------------------------------------------
(* Who holds a case *)

\* No two leases were granted for case c.
AtMostOnce(c) == \A t, u \in Grants(c) : t = u

\* Nothing has been said of case c, and nothing is on its way.
Untouched(c) ==
    /\ cases[c].turns = << >>
    /\ \A req \in OutstandingOf("turn") : req.case # c

\* The first sequence number a runner has not prepared a turn for.
Ahead(ckpt) == ckpt.pending + (IF ckpt.submission = None THEN 0 ELSE 1)

\* The runner has been handed a case.
Leased(r) == At(r, "claim") /\ proc[r].answer # None /\ proc[r].answer.verdict = "leased"

\* What a runner works on is a case it was granted, under the lease it names.
Bound(r) ==
    /\ disk[r] # None =>
         /\ Http!Named(r, disk[r].case, disk[r].lease)
         /\ disk[r].submission # None =>
              disk[r].submission.case = disk[r].case /\ disk[r].submission.lease = disk[r].lease
    /\ At(r, "claim") => disk[r] = None
    /\ Leased(r) => Http!Named(r, proc[r].answer.case, proc[r].answer.lease)
    /\ At(r, "resume") => proc[r].request = HeartbeatRequest(disk[r])
    /\ At(r, "send") \/ At(r, "turn") \/ At(r, "complete") =>
         proc[r].entry.case = disk[r].case /\ proc[r].entry.lease = disk[r].lease

\* What a runner was told of its lease, or of its report, is still so.
Told(r) ==
    /\ At(r, "resume") \/ At(r, "turn") \/ At(r, "complete") \/ At(r, "failing") =>
         (proc[r].answer # None /\ LeaseLost(r) => cases[disk[r].case].lease # disk[r].lease)
    /\ At(r, "complete") \/ At(r, "failing") =>
         (proc[r].answer # None /\ Succeeded(r) => Sealed(disk[r].case))

\* A runner that is handed a case granted only once begins it.
Opens(r) ==
    Leased(r) /\ AtMostOnce(proc[r].answer.case) => Untouched(proc[r].answer.case)

\* Nothing is recorded, or on its way, of a case granted only once that its
\* runner has not prepared.
Leads(r) ==
    InTurns(r) /\ AtMostOnce(disk[r].case) =>
       /\ Len(cases[disk[r].case].turns) <= Ahead(disk[r])
       /\ \A req \in OutstandingOf("turn") :
             req.case = disk[r].case => req.sequence < Ahead(disk[r])

\* Only a case that was granted is touched.
Entitling(c) == Untouched(c) \/ Grants(c) # {}

\* Of each turn of the case one submission is on its way, or recorded.
OneSubmission(c) ==
    \A req \in OutstandingOf("turn") : req.case = c =>
       /\ \A other \in OutstandingOf("turn") :
             other.case = c /\ other.sequence = req.sequence => other = req
       /\ req.sequence < Len(cases[c].turns) =>
             cases[c].turns[req.sequence + 1].event = req.output

\* The holder of a case that was touched has its checkpoint.
Keeps(c) ==
    cases[c].lease # 0 /\ ~Untouched(c) =>
       LET holder == leases[cases[c].lease].runner_id IN
       disk[holder] # None /\ disk[holder].case = c

RunnerLeases(r) == Bound(r) /\ Told(r) /\ Opens(r) /\ Leads(r)
CaseLeases(c) == Entitling(c) /\ (AtMostOnce(c) => OneSubmission(c) /\ Keeps(c))

\* The first invariant, beside that of the system.
LeaseInv == (\A r \in Runners : RunnerLeases(r)) /\ (\A c \in Cases : CaseLeases(c))

-----------------------------------------------------------------------------
(* Leases *)

\* Two runners were not granted the one lease of a case.
LEMMA OneHolder ==
    ASSUME NEW c, AtMostOnce(c), NEW r, NEW t, Http!Named(r, c, t),
           NEW q, NEW u, Http!Named(q, c, u)
    PROVE  t = u /\ q = r
<1>1. t \in Grants(c) /\ u \in Grants(c)
  BY DEF Http!Named, Grants
<1>2. t = u
  BY <1>1 DEF AtMostOnce
<1> QED
  BY <1>2 DEF Http!Named

\* The lease a case is held by was granted for it, and a sealed case is held by
\* none.
LEMMA HeldByGrant ==
    ASSUME Http!IInv, NEW c \in Cases
    PROVE  /\ cases[c].lease # 0 => cases[c].lease \in Grants(c)
           /\ Sealed(c) => cases[c].lease = 0
BY DEF Http!IInv, Http!StateInv, Http!CaseInv, Http!HeldInv, Http!SealInv, Http!Held,
       Http!Terminal, Grants, Sealed

\* A runner that lost the one lease of a case left nobody holding it.
LEMMA LostIsFree ==
    ASSUME Http!IInv, NEW c \in Cases, AtMostOnce(c), NEW r, NEW t, Http!Named(r, c, t),
           cases[c].lease # t
    PROVE  cases[c].lease = 0
BY HeldByGrant DEF Http!Named, Grants, AtMostOnce

\* What a step of the orchestrator does to leases.
LEMMA GrantsGrow ==
    ASSUME Http!LeaseStep, NEW c
    PROVE  /\ Grants(c) \subseteq Grants(c)' /\ (AtMostOnce(c)' => AtMostOnce(c))
           /\ \A r, t : Http!Named(r, c, t) => Http!Named(r, c, t)'
<1>1. Grants(c) \subseteq Grants(c)'
  BY DEF Http!LeaseStep, Http!TableKept, Grants
<1> QED
  BY <1>1 DEF Http!LeaseStep, Http!TableKept, Http!Named, AtMostOnce

\* A lease a case is no longer held by never comes back.
LEMMA LostStaysLost ==
    ASSUME Http!LeaseStep, NEW r, NEW c \in Cases, NEW t \in Nat \ {0}, Http!Named(r, c, t),
           cases[c].lease # t
    PROVE  cases'[c].lease # t
BY DEF Http!LeaseStep, Http!LeaseMoves, Http!Named

\* A case that was granted, and is not granted again, is not put under a lease.
LEMMA NoSecondLease ==
    ASSUME Http!IInv', Http!LeaseStep, NEW c \in Cases, Grants(c) # {}, AtMostOnce(c)'
    PROVE  cases'[c].lease \in {0, cases[c].lease}
<1>1. ASSUME cases'[c].lease # 0, cases'[c].lease \notin DOMAIN leases
      PROVE  FALSE
  <2>1. cases'[c].lease \in Grants(c)'
    BY <1>1, HttpAssumptions DEF Http!IInv, Http!StateInv, Http!CaseInv, Http!HeldInv, Grants
  <2>2. PICK t \in Grants(c) : TRUE
    OBVIOUS
  <2>3. t \in Grants(c)' /\ t \in DOMAIN leases
    BY GrantsGrow DEF Grants
  <2> QED
    BY <1>1, <2>1, <2>3 DEF AtMostOnce
<1> QED
  BY <1>1 DEF Http!LeaseStep, Http!LeaseMoves

-----------------------------------------------------------------------------
(* Steps of the orchestrator *)

\* A step of the orchestrator: a request is served, or time passes.
Served(req) ==
    /\ Http!Effect(req) /\ Http!LeaseStep
    /\ req \in OutstandingOf("turn") \/ req.op # "turn"
    /\ req.op \in {"turn", "complete"} => Good(req)
    /\ UNCHANGED <<disk, minted>> /\ late' \subseteq late
    /\ \A q \in Runners : proc'[q].request = proc[q].request

\* One runner is answered.
Answering(r, reply) ==
    /\ \A q \in Runners \ {r} : proc'[q] = proc[q]
    /\ DOMAIN proc'[r] = ProcFields
    /\ proc'[r].answer = reply /\ proc'[r].at = proc[r].at
    /\ proc'[r].request = proc[r].request /\ proc'[r].entry = proc[r].entry
    /\ proc'[r].parents = proc[r].parents

LEMMA ServeServed ==
    ASSUME SysInv, NEW r \in Runners, Serve(r)
    PROVE  /\ Served(proc[r].request) /\ Http!Serves(RunnerKey, r, proc[r].request)
           /\ Http!WellFormed(proc[r].request) /\ proc[r].request \in Outstanding
           /\ Answering(r, Http!Reply(RunnerKey, r, proc[r].request))
<1> DEFINE req == proc[r].request
           reply == Http!Reply(RunnerKey, r, req)
<1>1. StateSound /\ Http!IInv /\ DOMAIN proc = Runners /\ DOMAIN proc[r] = ProcFields
  BY DEF SysInv, StateSound, Typed, ProcSound
<1>2. /\ req # None /\ Http!Serves(RunnerKey, r, req)
      /\ proc' = [proc EXCEPT ![r].answer = reply]
      /\ UNCHANGED <<disk, minted, late>>
  BY SameServer DEF Serve, Pending
<1>3. /\ proc'[r] = [proc[r] EXCEPT !.answer = reply]
      /\ \A q \in Runners \ {r} : proc'[q] = proc[q]
  BY <1>1, <1>2
<1>4. Answering(r, reply)
  <2> HIDE DEF reply
  <2> QED
    BY <1>1, <1>3 DEF Answering, ProcFields
<1>5. req \in Outstanding
  BY OutstandingParts
<1>6. Good(req) /\ Http!WellFormed(req) /\ (req \in OutstandingOf("turn") \/ req.op # "turn")
  BY <1>1, <1>2, <1>5, OutstandingTurn
<1>7. Http!Effect(req) /\ Http!LeaseStep
  BY <1>1, <1>2, <1>6, HttpAssumptions, Http!ServesSafely, Http!ServesLeases
<1>8. \A q \in Runners : proc'[q].request = proc[q].request
  BY <1>3, <1>4 DEF Answering
<1> QED
  BY <1>2, <1>4, <1>5, <1>6, <1>7, <1>8 DEF Served

LEMMA SilentServed ==
    ASSUME SysInv, LateArrives \/ Tick \/ \E r \in Runners : Beat(r)
    PROVE  /\ \E req : Served(req)
           /\ UNCHANGED <<proc, artifacts, spent.crashes>>
<1>1. StateSound /\ Http!IInv
  BY DEF SysInv, StateSound
<1>2. CASE LateArrives
  <2>1. PICK m \in late : Server!Serves(RunnerKey, m.runner, m.request) /\ late' = late \ {m}
    BY <1>2 DEF LateArrives
  <2>2. m.runner \in Runners /\ m.request # None /\ m.request \in Outstanding
    BY <1>1, OutstandingParts DEF StateSound, Typed
  <2>3. /\ Http!Serves(RunnerKey, m.runner, m.request) /\ Http!WellFormed(m.request)
        /\ Good(m.request) /\ (m.request \in OutstandingOf("turn") \/ m.request.op # "turn")
    BY <1>1, <2>1, <2>2, SameServer, OutstandingTurn
  <2>4. Http!Effect(m.request) /\ Http!LeaseStep
    BY <1>1, <2>2, <2>3, HttpAssumptions, Http!ServesSafely, Http!ServesLeases
  <2>5. Served(m.request)
    BY <1>2, <2>1, <2>3, <2>4 DEF LateArrives, loopVars, Served
  <2> QED
    BY <1>2, <2>5 DEF LateArrives, loopVars
<1>3. ASSUME NEW r \in Runners, Beat(r)
      PROVE  /\ Served(ClaimRequest)
             /\ UNCHANGED <<proc, artifacts, spent.crashes>>
  <2>1. proc[r].current.case \in Cases
    BY <1>3 DEF SysInv, StateSound, Beat, ProcSound, InTurns, DiskSound, Sound, Checkpoints
  <2>2. Http!Heartbeat(RunnerKey, proc[r].current.case, proc[r].current.lease)
    BY <1>3, SameHeartbeat DEF Beat
  <2>3. Http!Effect(ClaimRequest) /\ Http!LeaseStep
    BY <1>1, <2>1, <2>2, HttpAssumptions, Http!BeatsSafely, Http!BeatsLeases
  <2> QED
    BY <1>3, <2>3, ClaimRequestParts DEF Beat, loopVars, Served
<1>4. CASE Tick
  <2>1. Http!Tick
    BY <1>4, SameServer DEF Tick
  <2>2. Http!Effect(ClaimRequest) /\ Http!LeaseStep
    BY <1>1, <2>1, HttpAssumptions, Http!TicksSafely, Http!TicksLeases
  <2>3. spent' = [spent EXCEPT !.ticks = spent.ticks + 1]
    BY <1>4 DEF Tick
  <2> QED
    BY <1>4, <2>2, <2>3, ClaimRequestParts DEF Tick, loopVars, Served
<1> QED
  BY <1>2, <1>3, <1>4

\* What a step of the orchestrator adds to a case is one turn that was on its way.
LEMMA ServedTurns ==
    ASSUME SysInv, SysInv', NEW req, Served(req), NEW c \in Cases
    PROVE  /\ OutstandingOf("turn")' \subseteq OutstandingOf("turn")
           /\ Sealed(c) => Sealed(c)'
           /\ Len(cases[c].turns) \in Nat /\ Len(cases'[c].turns) \in Nat
           /\ Len(cases[c].turns) <= Len(cases'[c].turns)
           /\ \A n \in 1..Len(cases[c].turns) : cases'[c].turns[n] = cases[c].turns[n]
           /\ \/ cases'[c].turns = cases[c].turns
              \/ /\ req \in OutstandingOf("turn") /\ req.case = c
                 /\ req.sequence = Len(cases[c].turns)
                 /\ Len(cases'[c].turns) = req.sequence + 1
                 /\ cases'[c].turns[req.sequence + 1].event = req.output
<1>1. StateSound /\ Http!IInv /\ Http!IInv' /\ Typed'
  BY DEF SysInv, StateSound
<1>2. Len(cases[c].turns) \in Nat /\ Len(cases'[c].turns) \in Nat
  BY <1>1, TurnsTyped
<1>3. \/ cases'[c].turns = cases[c].turns
      \/ /\ req.op = "turn" /\ c = req.case /\ req.sequence = Len(cases[c].turns)
         /\ Len(cases'[c].turns) = req.sequence + 1
         /\ cases'[c].turns[req.sequence + 1].event = req.output
         /\ \A n \in 1..req.sequence : cases'[c].turns[n] = cases[c].turns[n]
  BY <1>1, EffectParts DEF Served
<1>4. OutstandingOf("turn")' \subseteq OutstandingOf("turn")
  BY DEF Served, OutstandingOf, Outstanding
<1>5. Sealed(c) => Sealed(c)'
  BY DEF Served, Http!Effect, Http!SealEffect, Sealed
<1> QED
  BY <1>2, <1>3, <1>4, <1>5 DEF Served

LEMMA UntouchedStays ==
    ASSUME SysInv, SysInv', NEW req, Served(req), NEW c \in Cases, Untouched(c)
    PROVE  Untouched(c)'
BY ServedTurns DEF Untouched

LEMMA ServedCase ==
    ASSUME SysInv, SysInv', NEW req, Served(req), NEW c \in Cases, CaseLeases(c)
    PROVE  CaseLeases(c)'
<1>1. Http!IInv /\ Http!IInv' /\ Http!LeaseStep /\ disk' = disk
  BY DEF SysInv, StateSound, Served
<1>2. Entitling(c)'
  BY <1>1, UntouchedStays, GrantsGrow DEF CaseLeases, Entitling
<1>3. ASSUME AtMostOnce(c)'
      PROVE  OneSubmission(c)'
  <2>1. OneSubmission(c)
    BY <1>1, <1>3, GrantsGrow DEF CaseLeases
  <2> SUFFICES ASSUME NEW one \in OutstandingOf("turn")', one.case = c,
                      one.sequence < Len(cases'[c].turns)
               PROVE  cases'[c].turns[one.sequence + 1].event = one.output
    BY <2>1, ServedTurns DEF OneSubmission
  <2>2. one \in OutstandingOf("turn") /\ one.sequence \in Nat
    BY ServedTurns, OutstandingTurn DEF SysInv, OutstandingOf, Http!WellFormed
  <2>3. CASE one.sequence < Len(cases[c].turns)
    <3>1. one.sequence + 1 \in 1..Len(cases[c].turns)
      BY <2>2, <2>3, ServedTurns
    <3> QED
      BY <2>1, <2>2, <2>3, <3>1, ServedTurns DEF OneSubmission
  <2>4. CASE ~(one.sequence < Len(cases[c].turns))
    <3>1. /\ req \in OutstandingOf("turn") /\ req.case = c
          /\ req.sequence = Len(cases[c].turns)
          /\ Len(cases'[c].turns) = req.sequence + 1
          /\ cases'[c].turns[req.sequence + 1].event = req.output
      BY <2>4, ServedTurns
    <3>2. one.sequence = req.sequence
      BY <2>2, <2>4, <3>1, ServedTurns
    <3>3. one = req
      BY <2>1, <2>2, <3>1, <3>2 DEF OneSubmission
    <3> QED
      BY <3>1, <3>3
  <2> QED
    BY <2>3, <2>4
<1>4. ASSUME AtMostOnce(c)'
      PROVE  Keeps(c)'
  <2> SUFFICES ASSUME cases'[c].lease # 0, ~Untouched(c)'
               PROVE  LET holder == leases'[cases'[c].lease].runner_id IN
                      disk[holder] # None /\ disk[holder].case = c
    BY <1>1 DEF Keeps
  <2>1. ~Untouched(c) /\ Grants(c) # {} /\ AtMostOnce(c) /\ Keeps(c)
    BY <1>1, <1>4, UntouchedStays, GrantsGrow DEF CaseLeases, Entitling
  <2>2. cases'[c].lease = cases[c].lease
    BY <1>1, <1>4, <2>1, NoSecondLease
  <2>3. cases[c].lease \in DOMAIN leases
    BY <1>1, <2>2, HeldByGrant DEF Grants
  <2>4. leases'[cases'[c].lease].runner_id = leases[cases[c].lease].runner_id
    BY <1>1, <2>2, <2>3 DEF Http!LeaseStep, Http!TableKept
  <2> QED
    BY <2>1, <2>2, <2>4 DEF Keeps
<1> QED
  BY <1>2, <1>3, <1>4 DEF CaseLeases

\* What runner r has, whatever it is answered, once it is known what that means.
LEMMA ServedRunner ==
    ASSUME SysInv, SysInv', NEW req, Served(req), NEW r \in Runners, RunnerLeases(r),
           proc'[r].at = proc[r].at, proc'[r].entry = proc[r].entry,
           (Leased(r) => Http!Named(r, proc[r].answer.case, proc[r].answer.lease))',
           Told(r)', Opens(r)'
    PROVE  RunnerLeases(r)'
<1>1. Http!LeaseStep /\ disk' = disk /\ proc'[r].request = proc[r].request
  BY DEF Served
<1>2. disk[r] # None => disk[r].case \in Cases /\ disk[r] \in Checkpoints
  BY DEF SysInv, StateSound, DiskSound, Sound, Checkpoints
<1>3. Bound(r)'
  <2>1. Bound(r)
    BY DEF RunnerLeases
  <2>2. disk[r] # None => Http!Named(r, disk[r].case, disk[r].lease)'
    BY <1>1, <2>1 DEF Bound, Http!LeaseStep, Http!TableKept, Http!Named
  <2>3. /\ At(r, "resume") => proc'[r].request = HeartbeatRequest(disk'[r])
        /\ At(r, "claim") => disk'[r] = None
    BY <1>1, <2>1 DEF Bound
  <2>4. \A at : At(r, at)' <=> At(r, at)
    BY DEF At
  <2> QED
    BY <1>1, <2>1, <2>2, <2>3, <2>4 DEF Bound
<1>4. Leads(r)'
  <2> SUFFICES ASSUME InTurns(r), AtMostOnce(disk[r].case)'
               PROVE  /\ Len(cases'[disk[r].case].turns) <= Ahead(disk[r])
                      /\ \A other \in OutstandingOf("turn")' :
                            other.case = disk[r].case => other.sequence < Ahead(disk[r])
    BY <1>1 DEF Leads, InTurns
  <2> DEFINE c == disk[r].case
  <2>1. /\ c \in Cases /\ disk[r].pending \in Nat
    BY <1>2 DEF InTurns, Checkpoints, SysInv, StateSound, DiskSound, Sound
  <2>2. Ahead(disk[r]) \in Nat
    BY <2>1 DEF Ahead
  <2>3. AtMostOnce(c)
    BY <1>1, GrantsGrow DEF AtMostOnce
  <2>4. /\ Len(cases[c].turns) <= Ahead(disk[r])
        /\ \A other \in OutstandingOf("turn") : other.case = c => other.sequence < Ahead(disk[r])
    BY <2>3 DEF RunnerLeases, Leads
  <2> QED
    BY <2>1, <2>2, <2>4, ServedTurns, OutstandingTurn DEF SysInv
<1> QED
  BY <1>3, <1>4 DEF RunnerLeases

LEMMA UnansweredLeases ==
    ASSUME SysInv, SysInv', NEW req, Served(req), NEW q \in Runners, RunnerLeases(q),
           proc'[q] = proc[q]
    PROVE  RunnerLeases(q)'
<1>1. Http!LeaseStep /\ disk' = disk /\ ProcSound(q)
  BY DEF Served, SysInv
<1>2. /\ \A at : At(q, at)' <=> At(q, at)
      /\ Leased(q)' <=> Leased(q)
      /\ LeaseLost(q)' <=> LeaseLost(q)
      /\ Succeeded(q)' <=> Succeeded(q)
  BY DEF At, Leased, LeaseLost, Succeeded
<1>3. (Leased(q) => Http!Named(q, proc[q].answer.case, proc[q].answer.lease))'
  BY <1>1, <1>2 DEF RunnerLeases, Bound, Http!LeaseStep, Http!TableKept, Http!Named
<1>4. Told(q)'
  <2>1. ASSUME disk[q] # None
        PROVE  /\ disk[q].case \in Cases /\ disk[q].lease \in Nat \ {0}
               /\ Http!Named(q, disk[q].case, disk[q].lease)
    BY <2>1 DEF RunnerLeases, Bound, SysInv, StateSound, DiskSound, Sound, Checkpoints
  <2>2. At(q, "resume") \/ At(q, "turn") \/ At(q, "complete") \/ At(q, "failing")
        => disk[q] # None
    BY <1>1 DEF ProcSound, InTurns, Completing
  <2>3. ASSUME disk[q] # None, cases[disk[q].case].lease # disk[q].lease
        PROVE  cases'[disk[q].case].lease # disk[q].lease
    BY <1>1, <2>1, <2>3, LostStaysLost
  <2>4. ASSUME disk[q] # None, Sealed(disk[q].case)
        PROVE  cases'[disk[q].case].completion # None
    BY <2>1, <2>4, ServedTurns DEF Sealed
  <2> QED
    BY <1>1, <1>2, <2>2, <2>3, <2>4 DEF RunnerLeases, Told, Sealed
<1>5. Opens(q)'
  <2> SUFFICES ASSUME Leased(q), AtMostOnce(proc[q].answer.case)'
               PROVE  Untouched(proc[q].answer.case)'
    BY <1>2 DEF Opens
  <2>1. PICK c : c = proc[q].answer.case
    OBVIOUS
  <2>2. c \in Cases
    BY <1>1, <2>1 DEF Leased, ProcSound, ClaimAnswerSound
  <2>3. AtMostOnce(c)'
    BY <2>1
  <2>4. AtMostOnce(c)
    BY <1>1, <2>3, GrantsGrow
  <2>5. Untouched(c)
    BY <2>1, <2>4 DEF RunnerLeases, Opens
  <2>6. Untouched(c)'
    BY <2>2, <2>5, UntouchedStays
  <2> QED
    BY <2>1, <2>6
<1> QED
  BY <1>3, <1>4, <1>5, ServedRunner

LEMMA SilentLeases ==
    ASSUME SysInv, SysInv', LeaseInv, NEW req, Served(req), proc' = proc
    PROVE  LeaseInv'
BY UnansweredLeases, ServedCase DEF LeaseInv

LEMMA ServeLeases ==
    ASSUME SysInv, SysInv', LeaseInv, NEW r \in Runners, Serve(r)
    PROVE  LeaseInv'
<1> DEFINE req == proc[r].request
           reply == Http!Reply(RunnerKey, r, req)
<1>1. /\ Served(req) /\ Http!Serves(RunnerKey, r, req) /\ Http!WellFormed(req)
      /\ Answering(r, reply)
  BY ServeServed
<1>2. /\ Http!IInv /\ ProcSound(r) /\ RunnerLeases(r) /\ Http!LeaseStep /\ disk' = disk
  BY <1>1 DEF SysInv, StateSound, LeaseInv, Served
<1>3. /\ proc'[r].at = proc[r].at /\ proc'[r].entry = proc[r].entry
      /\ \A at : At(r, at)' <=> At(r, at)
      /\ proc'[r].answer = reply
  BY <1>1 DEF Answering, At
<1>4. ASSUME At(r, "claim"), reply.verdict = "leased",
             NEW c, c = reply.case, NEW t, t = reply.lease
      PROVE  /\ Http!Named(r, c, t)'
             /\ AtMostOnce(c)' => Untouched(c)'
  <2>1. req.op = "claim" /\ disk[r] = None
    BY <1>2, <1>4 DEF ProcSound, ClaimRequest, RunnerLeases, Bound
  <2>2. /\ Http!Named(r, c, t)'
        /\ \/ t \notin DOMAIN leases
           \/ t # 0 /\ cases[c].lease = t /\ Http!Named(r, c, t)
    BY <1>1, <1>2, <1>4, <2>1, HttpAssumptions, Http!LeaseAnswered
  <2>3. c \in Cases
    BY <1>1, <1>2, <1>4, <2>1, HttpAssumptions, Http!ClaimAnswered
  <2>4. ASSUME AtMostOnce(c)', ~Untouched(c)
        PROVE  FALSE
    <3>1. Grants(c) # {} /\ AtMostOnce(c) /\ Keeps(c)
      BY <1>2, <2>3, <2>4, GrantsGrow DEF LeaseInv, CaseLeases, Entitling
    <3>2. CASE t \notin DOMAIN leases
      <4>1. PICK u \in Grants(c) : TRUE
        BY <3>1
      <4>2. u \in Grants(c)' /\ t \in Grants(c)' /\ u # t
        BY <1>2, <2>2, <3>2, GrantsGrow DEF Grants, Http!Named
      <4> QED
        BY <2>4, <4>2 DEF AtMostOnce
    <3>3. CASE t # 0 /\ cases[c].lease = t /\ Http!Named(r, c, t)
      <4>1. leases[cases[c].lease].runner_id = r
        BY <3>3 DEF Http!Named
      <4> QED
        BY <2>1, <2>4, <3>1, <3>3, <4>1 DEF Keeps
    <3> QED
      BY <2>2, <3>2, <3>3
  <2> QED
    BY <1>1, <2>2, <2>3, <2>4, UntouchedStays
<1>5. (Leased(r) => Http!Named(r, proc[r].answer.case, proc[r].answer.lease))'
  <2> HIDE DEF reply, req
  <2> SUFFICES ASSUME At(r, "claim"), reply.verdict = "leased"
               PROVE  Http!Named(r, proc[r].answer.case, proc[r].answer.lease)'
    BY <1>3 DEF Leased
  <2>1. PICK c : c = reply.case
    OBVIOUS
  <2>2. PICK t : t = reply.lease
    OBVIOUS
  <2>3. Http!Named(r, c, t)'
    BY <1>4, <2>1, <2>2
  <2> QED
    BY <1>3, <2>1, <2>2, <2>3 DEF Http!Named
<1>6. Opens(r)'
  <2> HIDE DEF reply, req
  <2> SUFFICES ASSUME At(r, "claim"), reply.verdict = "leased",
                      AtMostOnce(proc[r].answer.case)'
               PROVE  Untouched(proc[r].answer.case)'
    BY <1>3 DEF Leased, Opens
  <2>1. PICK c : c = reply.case
    OBVIOUS
  <2>2. PICK t : t = reply.lease
    OBVIOUS
  <2>3. AtMostOnce(c)' => Untouched(c)'
    BY <1>4, <2>1, <2>2
  <2>4. proc'[r].answer.case = c
    BY <1>3, <2>1
  <2> QED
    BY <2>3, <2>4 DEF AtMostOnce, Untouched, Grants
<1>7. ASSUME At(r, "resume") \/ At(r, "turn") \/ At(r, "complete") \/ At(r, "failing")
      PROVE  /\ req.case = disk[r].case /\ req.lease = disk[r].lease /\ req.lease # 0
             /\ req.op # "claim"
             /\ At(r, "complete") \/ At(r, "failing") => req.op = "complete"
  <2>1. disk[r] # None /\ disk[r] \in Checkpoints /\ Sound(r, disk[r])
    BY <1>2, <1>7 DEF ProcSound, InTurns, Completing, SysInv, StateSound, DiskSound, Sound
  <2>2. disk[r].lease # 0
    BY <2>1 DEF Checkpoints
  <2>3. CASE At(r, "resume")
    <3>1. req = HeartbeatRequest(disk[r])
      BY <1>2, <2>3 DEF RunnerLeases, Bound
    <3> QED
      BY <2>2, <2>3, <3>1 DEF HeartbeatRequest, At
  <2>4. CASE At(r, "turn") \/ At(r, "complete") \/ At(r, "failing")
    <3>1. req = disk[r].submission /\ disk[r].submission # None
      BY <1>2, <2>1, <2>4 DEF ProcSound, Completing, Sound
    <3>2. req.case = disk[r].case /\ req.lease = disk[r].lease
      BY <1>2, <2>1, <3>1 DEF RunnerLeases, Bound
    <3>3. /\ At(r, "turn") => req.op = "turn"
          /\ At(r, "complete") \/ At(r, "failing") => req.op = "complete"
      BY <1>2, <2>1, <3>1 DEF ProcSound, InTurns, Completing, Sound, SavedTurn
    <3> QED
      BY <2>2, <2>4, <3>2, <3>3
  <2> QED
    BY <1>7, <2>3, <2>4
<1>8. Told(r)'
  <2>1. ASSUME At(r, "resume") \/ At(r, "turn") \/ At(r, "complete") \/ At(r, "failing"),
               reply.verdict \in Http!Lost
        PROVE  cases'[disk[r].case].lease # disk[r].lease
    <3>1. cases'[req.case].lease # req.lease
      BY <1>1, <1>2, <1>7, <2>1, HttpAssumptions, Http!LostAnswered
    <3> QED
      BY <1>7, <2>1, <3>1
  <2>2. ASSUME At(r, "complete") \/ At(r, "failing"), reply.verdict \in Http!Success
        PROVE  cases'[disk[r].case].completion # None
    <3>1. cases'[req.case].completion # None
      BY <1>1, <1>2, <1>7, <2>2, HttpAssumptions, Http!SealAnswered
    <3> QED
      BY <1>7, <2>2, <3>1
  <2>3. /\ Succeeded(r)' <=> reply.verdict \in Http!Success
        /\ LeaseLost(r)' <=> reply.verdict \in Http!Lost
    BY <1>3 DEF Succeeded, LeaseLost, Http!Success, Http!Lost
  <2> HIDE DEF reply, req
  <2> QED
    BY <1>2, <1>3, <2>1, <2>2, <2>3 DEF Told, Sealed
<1>9. RunnerLeases(r)'
  <2> HIDE DEF req, reply
  <2> QED
    BY <1>1, <1>2, <1>3, <1>5, <1>6, <1>8, ServedRunner
<1>10. ASSUME NEW q \in Runners \ {r}
       PROVE  RunnerLeases(q)'
  BY <1>1, UnansweredLeases DEF LeaseInv, Answering
<1> QED
  BY <1>1, <1>9, <1>10, ServedCase DEF LeaseInv


-----------------------------------------------------------------------------
(* Steps of a runner *)

\* What an action of runner r leaves alone.
LEMMA OthersKeep ==
    ASSUME Typed, NEW r \in Runners, Boot(r) \/ Proceed(r) \/ Crash(r),
           NEW q \in Runners \ {r}
    PROVE  /\ disk'[q] = disk[q] /\ minted'[q] = minted[q] /\ proc'[q] = proc[q]
           /\ minted[r] <= minted'[r]
<1>1. DOMAIN proc = Runners /\ DOMAIN disk = Runners /\ minted \in [Runners -> Nat]
  BY DEF Typed
<1>2. CASE \/ Boot(r) \/ ClaimEnds(r) \/ ResumeAlive(r) \/ ResumeLost(r) \/ ResumeFails(r)
           \/ CompletionAccepted(r) \/ CaseLost(r) \/ Crash(r)
           \/ FailureRecorded(r) \/ FailureUnwanted(r) \/ FailureEscapes(r)
  <2>1. minted' = minted /\ disk' \in {disk, [disk EXCEPT ![r] = None]}
    BY <1>2 DEF Boot, ClaimEnds, ResumeAlive, ResumeLost, ResumeFails, CompletionAccepted,
                CaseLost, Crash, FailureRecorded, FailureUnwanted, FailureEscapes, LeaveCase,
                CloseAndLeave
  <2> QED
    BY <1>1, <2>1, OthersStand
<1>3. CASE \/ ClaimLeased(r) \/ Send(r) \/ TurnContinues(r) \/ TurnFinishes(r)
           \/ SendRaises(r) \/ CallErrors(r)
  <2>1. \E ckpt : disk' = [disk EXCEPT ![r] = ckpt]
    BY <1>3, Zenon DEF ClaimLeased, Send, TurnContinues, TurnFinishes, SendRaises, CallErrors,
                FailCase
  <2>2. \/ minted' = minted
        \/ minted' = [minted EXCEPT ![r] = minted[r] + 1]
        \/ minted' = [minted EXCEPT ![r] = minted[r]]
    BY <1>3 DEF ClaimLeased, Send, TurnContinues, TurnFinishes, SendRaises, CallErrors,
                FailCase
  <2> QED
    BY <1>1, <2>1, <2>2, OthersStand
<1> QED
  BY <1>2, <1>3 DEF Proceed


\* An action of runner r, or the failing of its attempt, is local.
LEMMA RunnerLocal ==
    ASSUME SysInv, SysInv', NEW r \in Runners,
           Start(r) \/ Step(r) \/ Killed(r) \/ AttemptFails(r)
    PROVE  Local(r)
<1>1. Typed /\ Typed'
  BY DEF SysInv, StateSound
<1>2. \A m \in late' : m \in late \/ m.request = proc[r].request
  BY DEF Start, Step, Killed, AttemptFails, GivenUp
<1>3. CASE Start(r) \/ Step(r) \/ Killed(r)
  <2>1. (Boot(r) \/ Proceed(r) \/ Crash(r)) /\ UNCHANGED serverVars
    BY <1>3 DEF Start, Step, Killed
  <2>2. minted[r] <= minted'[r]
    <3>1. CASE \E q \in Runners : q # r
      BY <1>1, <2>1, <3>1, OthersKeep
    <3>2. \/ minted' = minted
          \/ minted' = [minted EXCEPT ![r] = minted[r] + 1]
          \/ minted' = [minted EXCEPT ![r] = minted[r]]
      BY <2>1 DEF Boot, Proceed, Crash, ClaimEnds, ResumeAlive, ResumeLost, ResumeFails,
                  CompletionAccepted, CaseLost, FailureRecorded, FailureUnwanted,
                  FailureEscapes, ClaimLeased, Send, TurnContinues, TurnFinishes, SendRaises,
                  CallErrors, FailCase
    <3> QED
      BY <1>1, <3>2 DEF Typed
  <2>3. \A q \in Runners \ {r} :
           disk'[q] = disk[q] /\ minted'[q] = minted[q] /\ proc'[q] = proc[q]
    BY <1>1, <2>1, OthersKeep
  <2> QED
    BY <1>1, <1>2, <2>1, <2>2, <2>3 DEF Local
<1>4. CASE AttemptFails(r)
  <2>1. UNCHANGED <<disk, minted, serverVars>> /\ \E p : proc' = [proc EXCEPT ![r] = p]
    BY <1>4 DEF AttemptFails
  <2> QED
    BY <1>1, <1>2, <2>1 DEF Local, Typed
<1> QED
  BY <1>3, <1>4

\* A process that ends, or turns to claim.
LEMMA AtRest ==
    ASSUME NEW p \in {Off, Claiming}
    PROVE  /\ DOMAIN p = ProcFields
           /\ p.at \in {"off", "claim"} /\ p.answer = None /\ p.parents = {}
           /\ p.request \in {None, ClaimRequest} /\ (p.at = "off" => p = Off)
<1>1. /\ Off.answer = None /\ Off.parents = {} /\ Off.at = "off" /\ Off.request = None
      /\ DOMAIN Off = ProcFields
  BY OffParts DEF Off
<1>2. /\ Claiming.at = "claim" /\ Claiming.answer = None /\ Claiming.parents = {}
      /\ Claiming.request = ClaimRequest /\ DOMAIN Claiming = ProcFields
  BY <1>1, WaitingParts DEF Claiming
<1> QED
  BY <1>1, <1>2

\* The actions by which a process leaves a case, or ends.
Rests(r) ==
    \/ ClaimEnds(r) \/ ResumeLost(r) \/ ResumeFails(r)
    \/ CompletionAccepted(r) \/ CaseLost(r)
    \/ FailureRecorded(r) \/ FailureUnwanted(r) \/ FailureEscapes(r) \/ Crash(r)

\* The checkpoint goes once the lease is known to be lost, or the report accepted.
LEMMA RestMoves ==
    ASSUME Typed, NEW r \in Runners, Rests(r)
    PROVE  /\ proc'[r] \in {Off, Claiming} /\ disk'[r] \in {disk[r], None}
           /\ disk'[r] = None \/ proc'[r] = Off
           /\ \/ disk'[r] = disk[r]
              \/ /\ proc[r].answer # None
                 /\ \/ LeaseLost(r) /\ \/ At(r, "resume") \/ At(r, "turn")
                                       \/ At(r, "complete") \/ At(r, "failing")
                    \/ Succeeded(r) /\ (At(r, "complete") \/ At(r, "failing"))
<1>1. DOMAIN proc = Runners /\ DOMAIN disk = Runners
  BY DEF Typed
<1>2. CASE ClaimEnds(r) \/ ResumeFails(r) \/ FailureEscapes(r) \/ Crash(r)
  BY <1>1, <1>2 DEF ClaimEnds, ResumeFails, FailureEscapes, Crash
<1>3. LeaveCase(r) => disk'[r] = None /\ proc'[r] \in {Off, Claiming}
  BY <1>1 DEF LeaveCase
<1>4. CASE ResumeLost(r)
  BY <1>3, <1>4 DEF ResumeLost, Answered
<1>5. CASE CompletionAccepted(r)
  BY <1>3, <1>5 DEF CompletionAccepted, Answered
<1>6. CloseAndLeave(r) => \/ disk'[r] = None /\ proc'[r] \in {Off, Claiming}
                          \/ disk'[r] = disk[r] /\ proc'[r] = Off
  BY <1>1, <1>3 DEF CloseAndLeave
<1>7. CASE CaseLost(r)
  BY <1>6, <1>7 DEF CaseLost, Answered
<1>8. CASE FailureRecorded(r)
  BY <1>6, <1>8 DEF FailureRecorded, Answered
<1>9. CASE FailureUnwanted(r)
  BY <1>6, <1>9 DEF FailureUnwanted, Answered
<1> QED
  BY <1>2, <1>4, <1>5, <1>7, <1>8, <1>9 DEF Rests


\* A process is started: it claims, or takes up what its checkpoint says.
LEMMA BootMoves ==
    ASSUME Typed, NEW r \in Runners, Boot(r)
    PROVE  /\ disk'[r] = disk[r] /\ proc[r].at = "off" /\ proc'[r].answer = None
           /\ proc'[r].parents = {} /\ DOMAIN proc'[r] = ProcFields
           /\ \/ disk[r] = None /\ proc'[r] = Claiming
              \/ /\ disk[r] # None /\ disk[r].phase = "complete" /\ disk[r].case \notin Refused
                 /\ proc'[r].at = "complete" /\ proc'[r].entry = disk[r]
                 /\ proc'[r].request = disk[r].submission
              \/ /\ disk[r] # None /\ disk[r].phase = "turn"
                 /\ proc'[r].at = "resume" /\ proc'[r].request = HeartbeatRequest(disk[r])
<1>1. DOMAIN proc = Runners
  BY DEF Typed
<1>2. PICK ckpt : ckpt = disk[r]
  OBVIOUS
<1>3. disk'[r] = disk[r] /\ proc[r].at = "off"
  BY DEF Boot, At
<1>4. CASE ckpt = None /\ proc' = [proc EXCEPT ![r] = Claiming]
  BY <1>1, <1>2, <1>3, <1>4, AtRest
<1>5. CASE /\ ckpt # None /\ ckpt.phase = "complete" /\ ckpt.case \notin Refused
           /\ proc' = [proc EXCEPT ![r] = Waiting([Off EXCEPT !.entry = ckpt, !.current = ckpt],
                                                  "complete", ckpt.submission)]
  <2> DEFINE resumed == [Off EXCEPT !.entry = ckpt, !.current = ckpt]
             p == Waiting(resumed, "complete", ckpt.submission)
  <2>1. DOMAIN resumed = ProcFields /\ resumed.entry = ckpt /\ resumed.parents = {}
    BY DEF Off, ProcFields
  <2> HIDE DEF resumed
  <2>2. /\ p.at = "complete" /\ p.request = ckpt.submission /\ DOMAIN p = ProcFields
        /\ p.entry = ckpt /\ p.answer = None /\ p.parents = {}
    BY <2>1, WaitingParts
  <2>3. proc' = [proc EXCEPT ![r] = p]
    BY <1>5 DEF resumed
  <2> HIDE DEF p
  <2> QED
    BY <1>1, <1>2, <1>3, <1>5, <2>2, <2>3
<1>6. CASE /\ ckpt # None /\ ckpt.phase = "turn"
           /\ proc' = [proc EXCEPT ![r] = Waiting(Off, "resume", HeartbeatRequest(ckpt))]
  <2> DEFINE p == Waiting(Off, "resume", HeartbeatRequest(ckpt))
  <2>1. /\ p.at = "resume" /\ p.request = HeartbeatRequest(ckpt) /\ p.answer = None
        /\ p.parents = {} /\ DOMAIN p = ProcFields
    BY OffParts, AtRest, WaitingParts
  <2>2. proc' = [proc EXCEPT ![r] = p]
    BY <1>6
  <2> HIDE DEF p
  <2> QED
    BY <1>1, <1>2, <1>3, <1>6, <2>1, <2>2
<1> QED
  BY <1>2, <1>4, <1>5, <1>6 DEF Boot

\* A case is begun, or taken up again.
Begins(r) == ClaimLeased(r) \/ ResumeAlive(r)

LEMMA BeginMoves ==
    ASSUME SysInv, NEW r \in Runners, Begins(r)
    PROVE  /\ disk'[r] # None
           /\ \/ At(r, "resume") /\ Succeeded(r) /\ proc[r].answer # None /\ disk'[r] = disk[r]
              \/ /\ Leased(r)
                 /\ disk'[r].case = proc[r].answer.case /\ disk'[r].lease = proc[r].answer.lease
                 /\ disk'[r].pending = 0 /\ disk'[r].submission = None
                 /\ disk'[r].phase = "turn" /\ disk'[r].submitted = << >>
           /\ IF disk'[r].case \in Refused THEN proc'[r] = Off
              ELSE /\ DOMAIN proc'[r] = ProcFields
                   /\ proc'[r].at = "send" /\ proc'[r].entry = disk'[r]
                   /\ proc'[r].request = None /\ proc'[r].answer = None
                   /\ proc'[r].parents = proc[r].parents
<1>1. DOMAIN proc = Runners /\ DOMAIN disk = Runners /\ DOMAIN proc[r] = ProcFields
  BY DEF SysInv, StateSound, Typed, ProcSound
<1>2. ASSUME NEW ckpt, NEW session, BeginCase(r, ckpt, session)
      PROVE  IF ckpt.case \in Refused THEN proc'[r] = Off
             ELSE /\ DOMAIN proc'[r] = ProcFields
                  /\ proc'[r].at = "send" /\ proc'[r].entry = ckpt
                  /\ proc'[r].request = None /\ proc'[r].answer = None
                  /\ proc'[r].parents = proc[r].parents
  <2>1. PICK p : /\ proc' = [proc EXCEPT ![r] = p]
                 /\ p = IF ckpt.case \in Refused THEN Off
                        ELSE [proc[r] EXCEPT !.at = "send", !.entry = ckpt, !.current = ckpt,
                                             !.session = session, !.request = None,
                                             !.answer = None, !.attempt = 0]
    BY <1>2 DEF BeginCase
  <2>2. proc'[r] = p
    BY <1>1, <2>1
  <2> QED
    BY <1>1, <2>1, <2>2 DEF ProcFields
<1>3. CASE ResumeAlive(r)
  <2>1. PICK ckpt : ckpt = disk[r]
    OBVIOUS
  <2>2. /\ At(r, "resume") /\ Succeeded(r) /\ proc[r].answer # None
        /\ disk' = disk /\ BeginCase(r, ckpt, Replay(ckpt)) /\ ckpt # None
    BY <1>3, <2>1 DEF ResumeAlive, Answered, SysInv, ProcSound, InTurns
  <2> QED
    BY <1>2, <2>1, <2>2
<1>4. CASE ClaimLeased(r)
  <2>1. PICK ckpt : /\ disk' = [disk EXCEPT ![r] = ckpt] /\ BeginCase(r, ckpt, << >>)
                    /\ ckpt = [case |-> proc[r].answer.case, lease |-> proc[r].answer.lease,
                               submitted |-> << >>, pending |-> 0, turn_key |-> NewKey(r),
                               complete_key |-> None, phase |-> "turn", submission |-> None]
    BY <1>4 DEF ClaimLeased
  <2>2. Leased(r)
    BY <1>4 DEF ClaimLeased, Answered, Leased
  <2>3. /\ ckpt.case = proc[r].answer.case /\ ckpt.lease = proc[r].answer.lease
        /\ ckpt.pending = 0 /\ ckpt.submission = None
        /\ ckpt.phase = "turn" /\ ckpt.submitted = << >>
    BY <2>1
  <2>4. disk'[r] = ckpt
    BY <1>1, <2>1
  <2>5. ckpt # None
    <3>1. Typed /\ proc[r].answer.case \in Cases /\ proc[r].answer.lease \in Nat \ {0}
      BY <2>2 DEF Leased, SysInv, StateSound, ProcSound, ClaimAnswerSound
    <3>2. NewKey(r) \in Keys
      BY <3>1, NewKeyParts
    <3>3. ckpt \in Checkpoints
      BY <2>1, <3>1, <3>2 DEF Checkpoints
    <3> QED
      BY <3>3, SystemAssumption
  <2> QED
    BY <1>2, <2>1, <2>2, <2>3, <2>4, <2>5
<1> QED
  BY <1>3, <1>4 DEF Begins


LEMMA SendMoves ==
    ASSUME SysInv, NEW r \in Runners, Send(r)
    PROVE  /\ disk[r] # None /\ disk[r].phase = "turn" /\ At(r, "send")
           /\ disk'[r] = [disk[r] EXCEPT !.submission = proc'[r].request]
           /\ DOMAIN proc'[r] = ProcFields
           /\ proc'[r].at = "turn" /\ proc'[r].entry = proc[r].entry
           /\ proc'[r].answer = None /\ proc'[r].parents = proc[r].parents
           /\ IF disk[r].submission # None THEN proc'[r].request = disk[r].submission
              ELSE /\ proc'[r].request.op = "turn" /\ proc'[r].request.case = disk[r].case
                   /\ proc'[r].request.lease = disk[r].lease
                   /\ proc'[r].request.sequence = disk[r].pending
<1>1. PICK ckpt : ckpt = disk[r]
  OBVIOUS
<1>2. /\ DOMAIN proc[r] = ProcFields /\ proc[r].current = ckpt /\ ckpt \in Checkpoints
      /\ ckpt # None /\ ckpt.phase = "turn"
      /\ DOMAIN proc = Runners /\ DOMAIN disk = Runners /\ At(r, "send")
  BY <1>1, InTurnsParts DEF Send, Sound, Typed
<1>3. PICK output, heard :
         LET submission == Prepared(ckpt, output)
             saved == Saved(ckpt, submission)
         IN  /\ disk' = [disk EXCEPT ![r] = saved]
             /\ proc' = [proc EXCEPT ![r] =
                   Waiting([@ EXCEPT !.current = saved, !.session = heard],
                           "turn", submission)]
  <2>1. ckpt = proc[r].current
    BY <1>2
  <2> QED
    BY <2>1, Zenon DEF Send
<1>4. PICK submission : submission = Prepared(ckpt, output)
  OBVIOUS
<1>5. PICK saved : saved = Saved(ckpt, submission)
  OBVIOUS
<1>6. PICK q : q = [proc[r] EXCEPT !.current = saved, !.session = heard]
  OBVIOUS
<1>7. PICK p : p = Waiting(q, "turn", submission)
  OBVIOUS
<1>8. disk' = [disk EXCEPT ![r] = saved] /\ proc' = [proc EXCEPT ![r] = p]
  BY <1>3, <1>4, <1>5, <1>6, <1>7
<1>9. disk'[r] = saved /\ proc'[r] = p
  BY <1>2, <1>8
<1>10. /\ DOMAIN q = ProcFields /\ q.entry = proc[r].entry /\ q.parents = proc[r].parents
  BY <1>2, <1>6 DEF ProcFields
<1>11. /\ p.at = "turn" /\ p.request = submission /\ p.answer = None
       /\ p.entry = proc[r].entry /\ p.parents = proc[r].parents /\ DOMAIN p = ProcFields
  BY <1>7, <1>10, WaitingParts
<1>12. IF ckpt.submission # None THEN submission = ckpt.submission
       ELSE /\ submission.op = "turn" /\ submission.case = ckpt.case
            /\ submission.lease = ckpt.lease /\ submission.sequence = ckpt.pending
  BY <1>4 DEF Prepared, TurnRequest
<1>13. saved = [ckpt EXCEPT !.submission = submission]
  BY <1>5 DEF Saved
<1> QED
  BY <1>1, <1>2, <1>9, <1>11, <1>12, <1>13

\* The turn was accepted, and its evidence written.
LEMMA ContinueMoves ==
    ASSUME SysInv, NEW r \in Runners, TurnContinues(r)
    PROVE  /\ Answered(r, "turn") /\ Succeeded(r) /\ WriteAll(r)
           /\ disk'[r] # None /\ disk'[r].phase = "turn" /\ disk'[r].submission = None
           /\ disk'[r].case = disk[r].case /\ disk'[r].lease = disk[r].lease
           /\ disk'[r].pending = disk[r].pending + 1
           /\ disk'[r].submitted = Inputs(disk[r].pending + 1)
           /\ DOMAIN proc'[r] = ProcFields
           /\ proc'[r].at = "send" /\ proc'[r].entry = proc[r].entry
           /\ proc'[r].request = None /\ proc'[r].answer = None
           /\ proc'[r].parents = ParentsAfter(r, Len(EvidenceOf(r)))
<1>1. PICK ckpt : ckpt = disk[r]
  OBVIOUS
<1>2. /\ DOMAIN proc[r] = ProcFields /\ proc[r].current = ckpt /\ ckpt \in Checkpoints
      /\ ckpt.pending \in Nat /\ ckpt.submitted = Inputs(ckpt.pending) /\ ckpt.phase = "turn"
      /\ DOMAIN proc = Runners /\ DOMAIN disk = Runners /\ Typed
  BY <1>1, InTurnsParts DEF TurnContinues, Answered, Sound, Typed
<1>3. Answered(r, "turn") /\ Succeeded(r) /\ WriteAll(r)
  BY DEF TurnContinues
<1>4. proc[r].answer.input = ckpt.pending + 1
  BY <1>1, <1>3, TurnAnswerParts
<1>5. PICK next : next = Advanced(ckpt, proc[r].answer.input, NewKey(r))
  OBVIOUS
<1>6. PICK parents : parents = ParentsAfter(r, Len(EvidenceOf(r)))
  OBVIOUS
<1>7. PICK p : p = [proc[r] EXCEPT !.at = "send", !.current = next, !.parents = parents,
                                   !.request = None, !.answer = None, !.attempt = 0]
  OBVIOUS
<1>8. disk' = [disk EXCEPT ![r] = next] /\ proc' = [proc EXCEPT ![r] = p]
  <2>1. ckpt = proc[r].current
    BY <1>2
  <2> QED
    BY <1>5, <1>6, <1>7, <2>1, Zenon DEF TurnContinues
<1>9. disk'[r] = next /\ proc'[r] = p
  BY <1>2, <1>8
<1>10. Append(ckpt.submitted, ckpt.pending) = Inputs(ckpt.pending + 1)
  BY <1>2, InputsParts
<1>11. /\ next.case = ckpt.case /\ next.lease = ckpt.lease /\ next.phase = "turn"
       /\ next.submission = None /\ next.pending = ckpt.pending + 1
       /\ next.submitted = Inputs(ckpt.pending + 1)
       /\ DOMAIN next = DOMAIN ckpt
  BY <1>2, <1>4, <1>5, <1>10 DEF Advanced, Checkpoints
<1>12. next # None
  <2>1. NewKey(r) \in Keys
    BY <1>2, NewKeyParts
  <2>2. Inputs(ckpt.pending + 1) \in Seq(Nat) /\ ckpt.pending + 1 \in Nat
    <3>1. ckpt.pending + 1 \in Nat
      BY <1>2
    <3> QED
      BY <3>1, InputsParts
  <2>3. next \in Checkpoints
    BY <1>2, <1>4, <1>5, <1>10, <2>1, <2>2 DEF Advanced, Checkpoints
  <2> QED
    BY <2>3, SystemAssumption
<1>13. /\ p.at = "send" /\ p.entry = proc[r].entry /\ p.request = None /\ p.answer = None
       /\ p.parents = parents /\ DOMAIN p = ProcFields
  BY <1>2, <1>7 DEF ProcFields
<1> QED
  BY <1>1, <1>3, <1>6, <1>9, <1>11, <1>12, <1>13


\* The last turn was accepted, its evidence written, the completion prepared.
LEMMA FinishMoves ==
    ASSUME SysInv, NEW r \in Runners, TurnFinishes(r)
    PROVE  /\ Answered(r, "turn") /\ Succeeded(r) /\ WriteAll(r)
           /\ disk[r].pending + 1 = TurnCount[disk[r].case]
           /\ disk'[r] # None /\ disk'[r].phase = "complete"
           /\ disk'[r].case = disk[r].case /\ disk'[r].lease = disk[r].lease
           /\ disk'[r].submission = proc'[r].request /\ proc'[r].request # None
           /\ proc'[r].request.op = "complete"
           /\ proc'[r].request.case = disk[r].case /\ proc'[r].request.lease = disk[r].lease
           /\ DOMAIN proc'[r] = ProcFields
           /\ proc'[r].at = "complete" /\ proc'[r].entry = proc[r].entry
           /\ proc'[r].answer = None
           /\ proc'[r].parents = ParentsAfter(r, Len(EvidenceOf(r)))
<1>1. PICK ckpt : ckpt = disk[r]
  OBVIOUS
<1>2. /\ DOMAIN proc[r] = ProcFields /\ proc[r].current = ckpt /\ ckpt \in Checkpoints
      /\ ckpt.pending \in Nat /\ ckpt.pending < TurnCount[ckpt.case]
      /\ ckpt.lease \in Nat \ {0} /\ ckpt.case \in Cases
      /\ DOMAIN proc = Runners /\ DOMAIN disk = Runners /\ Typed
  BY <1>1, InTurnsParts DEF TurnFinishes, Answered, Sound, Typed
<1>3. Answered(r, "turn") /\ Succeeded(r) /\ WriteAll(r)
  BY DEF TurnFinishes
<1>4. ckpt.pending + 1 = TurnCount[ckpt.case]
  <2>1. TurnCount[ckpt.case] \in Nat
    BY <1>2, SystemAssumption
  <2>2. ~(ckpt.pending + 1 < TurnCount[ckpt.case])
    BY <1>1, <1>3, TurnAnswerParts DEF TurnFinishes
  <2> QED
    BY <1>2, <2>1, <2>2
<1>5. PICK key : key = IF ckpt.complete_key = None THEN NewKey(r) ELSE ckpt.complete_key
  OBVIOUS
<1>6. PICK outcome : outcome = IF proc[r].answer.action = "cancel" THEN "canceled"
                               ELSE "completed"
  OBVIOUS
<1>7. PICK report : report = CompleteRequest(ckpt, key, outcome)
  OBVIOUS
<1>8. PICK done : done = [ckpt EXCEPT !.submitted = Append(@, ckpt.pending),
                                      !.pending = None, !.turn_key = None,
                                      !.complete_key = key,
                                      !.phase = "complete", !.submission = report]
  OBVIOUS
<1>9. PICK parents : parents = ParentsAfter(r, Len(EvidenceOf(r)))
  OBVIOUS
<1>10. PICK q : q = [proc[r] EXCEPT !.current = done, !.parents = parents]
  OBVIOUS
<1>11. PICK p : p = Waiting(q, "complete", report)
  OBVIOUS
<1>12. disk' = [disk EXCEPT ![r] = done] /\ proc' = [proc EXCEPT ![r] = p]
  <2>1. ckpt = proc[r].current
    BY <1>2
  <2> QED
    BY <1>5, <1>6, <1>7, <1>8, <1>9, <1>10, <1>11, <2>1, Zenon DEF TurnFinishes
<1>13. disk'[r] = done /\ proc'[r] = p
  BY <1>2, <1>12
<1>14. /\ done.case = ckpt.case /\ done.lease = ckpt.lease /\ done.phase = "complete"
       /\ done.submission = report
  BY <1>2, <1>8 DEF Checkpoints
<1>15. /\ report # None /\ report.op = "complete" /\ report.case = ckpt.case
       /\ report.lease = ckpt.lease
  <2>1. key \in Keys
    BY <1>2, <1>5, ReportKey
  <2>2. report \in CompleteRequests
    BY <1>2, <1>6, <1>7, <2>1 DEF CompleteRequest, CompleteRequests
  <2>3. report \in Requests
    BY <2>2 DEF Requests
  <2> QED
    BY <1>7, <2>3, RequestKinds DEF CompleteRequest
<1>16. /\ DOMAIN q = ProcFields /\ q.entry = proc[r].entry /\ q.parents = parents
  BY <1>2, <1>10 DEF ProcFields
<1>17. /\ p.at = "complete" /\ p.request = report /\ p.answer = None
       /\ p.entry = proc[r].entry /\ p.parents = parents /\ DOMAIN p = ProcFields
  BY <1>11, <1>16, WaitingParts
<1>18. done # None
  <2>1. Sound(r, ckpt) /\ Append(ckpt.submitted, ckpt.pending) \in Seq(Nat) /\ key \in Keys
    BY <1>1, <1>2, <1>3, <1>5, InTurnsParts, ReportKey DEF Answered, Checkpoints
  <2>2. report \in Requests
    BY <1>2, <1>6, <1>7, <2>1 DEF CompleteRequest, CompleteRequests, Requests
  <2>3. done \in Checkpoints
    BY <1>2, <1>8, <2>1, <2>2 DEF Checkpoints
  <2> QED
    BY <2>3, SystemAssumption
<1> QED
  BY <1>1, <1>3, <1>4, <1>9, <1>13, <1>14, <1>15, <1>17, <1>18

\* The case is failed: the report of it takes the place of what was prepared.
LEMMA FailMoves ==
    ASSUME SysInv, NEW r \in Runners, NEW parents, FailCase(r, parents),
           At(r, "send") \/ At(r, "turn") \/ At(r, "complete")
    PROVE  /\ disk'[r] # None /\ disk'[r].phase = "complete"
           /\ disk'[r].case = proc[r].entry.case /\ disk'[r].lease = proc[r].entry.lease
           /\ disk'[r].submission = proc'[r].request /\ proc'[r].request # None
           /\ proc'[r].request.op = "complete"
           /\ proc'[r].request.outcome = "execution_failed"
           /\ proc'[r].request.case = proc[r].entry.case
           /\ proc'[r].request.lease = proc[r].entry.lease
           /\ DOMAIN proc'[r] = ProcFields
           /\ proc'[r].at = "failing" /\ proc'[r].answer = None
           /\ proc'[r].parents = parents
<1>1. PICK entry : entry = proc[r].entry
  OBVIOUS
<1>2. /\ Typed /\ DOMAIN proc[r] = ProcFields /\ entry \in Checkpoints
      /\ DOMAIN proc = Runners /\ DOMAIN disk = Runners
  BY <1>1 DEF SysInv, StateSound, ProcSound, At, Entered, Sound, Typed
<1>3. PICK key : key = IF entry.complete_key = None THEN NewKey(r) ELSE entry.complete_key
  OBVIOUS
<1>4. PICK report : report = FailureReport(entry, key)
  OBVIOUS
<1>5. PICK failed : failed = [entry EXCEPT !.complete_key = key, !.phase = "complete",
                                           !.submission = report]
  OBVIOUS
<1>6. PICK q : q = [proc[r] EXCEPT !.parents = parents]
  OBVIOUS
<1>7. PICK p : p = Waiting(q, "failing", report)
  OBVIOUS
<1>8. disk' = [disk EXCEPT ![r] = failed] /\ proc' = [proc EXCEPT ![r] = p]
  BY <1>1, <1>3, <1>4, <1>5, <1>6, <1>7, Zenon DEF FailCase
<1>9. disk'[r] = failed /\ proc'[r] = p
  BY <1>2, <1>8
<1>10. key \in Keys /\ entry.case \in Cases /\ entry.lease \in Nat \ {0}
  BY <1>2, <1>3, ReportKey DEF Checkpoints
<1>11. /\ report \in Requests /\ report.op = "complete" /\ report.case = entry.case
       /\ report.lease = entry.lease /\ report.outcome = "execution_failed" /\ report # None
  <2>1. report \in CompleteRequests
    BY <1>4, <1>10 DEF FailureReport, CompleteRequest, CompleteRequests
  <2> QED
    BY <1>4, <2>1, RequestKinds DEF FailureReport, CompleteRequest, Requests
<1>12. failed \in Checkpoints /\ failed.case = entry.case /\ failed.lease = entry.lease
       /\ failed.phase = "complete" /\ failed.submission = report
  BY <1>2, <1>5, <1>10, <1>11 DEF Checkpoints
<1>13. failed # None
  BY <1>12, SystemAssumption
<1>14. DOMAIN q = ProcFields /\ q.parents = parents
  BY <1>2, <1>6 DEF ProcFields
<1>15. /\ p.at = "failing" /\ p.request = report /\ p.answer = None /\ p.parents = parents
       /\ DOMAIN p = ProcFields
  BY <1>7, <1>14, WaitingParts
<1> QED
  BY <1>1, <1>9, <1>11, <1>12, <1>13, <1>15

\* An attempt failed: the call is repeated, or is over.
LEMMA AttemptMoves ==
    ASSUME SysInv, NEW r \in Runners, AttemptFails(r)
    PROVE  /\ disk' = disk /\ artifacts' = artifacts /\ DOMAIN proc'[r] = ProcFields
           /\ proc'[r].at = proc[r].at /\ proc'[r].request = proc[r].request
           /\ proc'[r].entry = proc[r].entry /\ proc'[r].parents = proc[r].parents
           /\ proc'[r].answer # None => proc'[r].answer.verdict = "transport"
<1>1. DOMAIN proc[r] = ProcFields /\ DOMAIN proc = Runners
  BY DEF SysInv, StateSound, Typed, ProcSound
<1>2. PICK failure : failure = [verdict |-> "transport"]
  OBVIOUS
<1>3. PICK p : /\ proc' = [proc EXCEPT ![r] = p]
               /\ p \in {Retrying(proc[r]), [proc[r] EXCEPT !.answer = failure]}
  <2>1. CASE MoreAttempts(proc[r])
    BY <2>1 DEF AttemptFails
  <2>2. CASE ~MoreAttempts(proc[r])
    BY <1>2, <2>2 DEF AttemptFails
  <2> QED
    BY <2>1, <2>2
<1>4. failure.verdict = "transport"
  BY <1>2
<1>5. /\ DOMAIN p = ProcFields /\ p.at = proc[r].at /\ p.request = proc[r].request
      /\ p.entry = proc[r].entry /\ p.parents = proc[r].parents
      /\ p.answer \in {None, failure}
  BY <1>1, <1>3 DEF Retrying, ProcFields
<1>6. proc'[r] = p
  BY <1>1, <1>3
<1> QED
  BY <1>4, <1>5, <1>6 DEF AttemptFails


-----------------------------------------------------------------------------
(* Steps that send no new turn *)

\* A step that sends and saves no turn that was not on its way before.
LEMMA NoNewTurns ==
    ASSUME SysInv, NEW r \in Runners, Local(r), NoTurnBut(r, None)
    PROVE  OutstandingOf("turn")' \subseteq OutstandingOf("turn")
<1> SUFFICES ASSUME NEW req \in Outstanding', req # None, req.op = "turn"
             PROVE  req \in Outstanding
  BY DEF OutstandingOf
<1> QED
  BY LocalOutstanding DEF NoTurnBut, SysInv

\* What such a step means for the leases of the others and of the cases.
LEMMA QuietLeases ==
    ASSUME SysInv, SysInv', LeaseInv, NEW r \in Runners, Local(r), NoTurnBut(r, None),
           ~Leased(r)', Bound(r)', Told(r)', Leads(r)',
           disk[r] # None =>
              \/ disk'[r] # None /\ disk'[r].case = disk[r].case
              \/ AtMostOnce(disk[r].case) => cases[disk[r].case].lease = 0
    PROVE  LeaseInv'
<1>1. /\ cases' = cases /\ leases' = leases
      /\ \A q \in Runners \ {r} : disk'[q] = disk[q] /\ proc'[q] = proc[q]
      /\ OutstandingOf("turn")' \subseteq OutstandingOf("turn")
  BY NoNewTurns DEF Local, serverVars
<1>2. \A c : Grants(c)' = Grants(c) /\ (AtMostOnce(c)' <=> AtMostOnce(c))
  BY <1>1 DEF Grants, AtMostOnce
<1>3. \A c : Untouched(c) => Untouched(c)'
  BY <1>1 DEF Untouched
<1>4. ASSUME NEW q \in Runners \ {r}
      PROVE  RunnerLeases(q)'
  <2>1. disk'[q] = disk[q] /\ proc'[q] = proc[q] /\ RunnerLeases(q)
    BY <1>1 DEF LeaseInv
  <2>2. Bound(q)' /\ Told(q)'
    BY <1>1, <2>1 DEF RunnerLeases, Bound, Told, At, Leased, LeaseLost, Succeeded, Sealed,
                      Http!Named
  <2>3. Opens(q)'
    <3>1. Leased(q)' <=> Leased(q)
      BY <2>1 DEF Leased, At
    <3> SUFFICES ASSUME Leased(q), AtMostOnce(proc[q].answer.case)'
                 PROVE  Untouched(proc[q].answer.case)'
      BY <3>1 DEF Opens
    <3>2. PICK c : c = proc[q].answer.case
      OBVIOUS
    <3>3. proc'[q].answer.case = c
      BY <2>1, <3>2
    <3>4. AtMostOnce(c)'
      BY <3>3
    <3>5. Untouched(c)'
      BY <1>2, <1>3, <2>1, <3>2, <3>4 DEF RunnerLeases, Opens
    <3> QED
      BY <3>3, <3>5
  <2>4. Leads(q)'
    BY <1>1, <1>2, <2>1 DEF RunnerLeases, Leads, InTurns, AtMostOnce
  <2> QED
    BY <2>2, <2>3, <2>4 DEF RunnerLeases
<1>5. ASSUME NEW c \in Cases
      PROVE  CaseLeases(c)'
  <2>1. CaseLeases(c) /\ Http!IInv
    BY DEF LeaseInv, SysInv, StateSound
  <2>2. Entitling(c)'
    BY <1>2, <1>3, <2>1 DEF CaseLeases, Entitling
  <2>3. OneSubmission(c) => OneSubmission(c)'
    BY <1>1 DEF OneSubmission
  <2>4. ASSUME AtMostOnce(c), cases[c].lease # 0, ~Untouched(c)',
               NEW holder, holder = leases[cases[c].lease].runner_id
        PROVE  disk'[holder] # None /\ disk'[holder].case = c
    <3>1. disk[holder] # None /\ disk[holder].case = c
      BY <1>3, <2>1, <2>4 DEF CaseLeases, Keeps
    <3>2. holder \in Runners
      <4>1. cases[c].lease \in DOMAIN leases
        BY <2>1, <2>4, HeldByGrant DEF Grants
      <4>2. leases \in Seq(Http!Lease)
        BY <2>1 DEF Http!IInv, Http!StateInv
      <4>3. leases[cases[c].lease] \in Http!Lease
        BY <4>1, <4>2
      <4> QED
        BY <2>4, <4>3 DEF Http!Lease
    <3> QED
      BY <1>1, <2>4, <3>1, <3>2
  <2>5. AtMostOnce(c) => Keeps(c)'
    BY <1>1, <2>4 DEF Keeps
  <2> QED
    BY <1>2, <2>1, <2>2, <2>3, <2>5 DEF CaseLeases
<1> QED
  BY <1>4, <1>5 DEF LeaseInv, RunnerLeases, Opens


\* A step that neither prepares a turn nor begins a case.
LEMMA SettledLeases ==
    ASSUME SysInv, SysInv', LeaseInv, NEW r \in Runners, Local(r), NoTurnBut(r, None),
           ~Leased(r)', Bound(r)', Told(r)',
           disk'[r] # None =>
              /\ disk[r] # None
              /\ disk'[r].case = disk[r].case /\ disk'[r].lease = disk[r].lease
              /\ InTurns(r)' => InTurns(r) /\ Ahead(disk'[r]) = Ahead(disk[r]),
           disk[r] # None /\ disk'[r] = None /\ AtMostOnce(disk[r].case)
              => cases[disk[r].case].lease = 0
    PROVE  LeaseInv'
<1>1. /\ cases' = cases /\ leases' = leases
      /\ OutstandingOf("turn")' \subseteq OutstandingOf("turn")
  BY NoNewTurns DEF Local, serverVars
<1>2. \A c : Grants(c)' = Grants(c) /\ (AtMostOnce(c)' <=> AtMostOnce(c))
  BY <1>1 DEF Grants, AtMostOnce
<1>3. Leads(r)'
  <2> SUFFICES ASSUME disk'[r] # None, InTurns(r)', AtMostOnce(disk'[r].case)
               PROVE  /\ Len(cases[disk'[r].case].turns) <= Ahead(disk'[r])
                      /\ \A req \in OutstandingOf("turn")' :
                            req.case = disk'[r].case => req.sequence < Ahead(disk'[r])
    BY <1>1, <1>2 DEF Leads, InTurns, AtMostOnce
  <2> QED
    BY <1>1 DEF LeaseInv, RunnerLeases, Leads
<1> QED
  BY <1>3, QuietLeases

\* The leases of runner r, as they were and as a step of its own leaves them.
LEMMA LeasesOf ==
    ASSUME SysInv, LeaseInv, NEW r \in Runners, Local(r)
    PROVE  /\ UNCHANGED <<cases, leases>> /\ Http!IInv
           /\ RunnerLeases(r) /\ Bound(r) /\ Told(r)
           /\ disk[r] # None =>
                /\ disk[r] \in Checkpoints /\ disk[r].case \in Cases
                /\ disk[r].lease \in Nat \ {0} /\ Sound(r, disk[r])
                /\ disk[r].submission \in Outstanding
           /\ \A c, t : Http!Named(r, c, t) => Http!Named(r, c, t)'
<1>1. UNCHANGED <<cases, leases>> /\ Http!IInv
  BY DEF Local, serverVars, SysInv, StateSound
<1>2. disk[r] # None => /\ disk[r] \in Checkpoints /\ disk[r].case \in Cases
                        /\ disk[r].lease \in Nat \ {0} /\ Sound(r, disk[r])
  BY DEF SysInv, StateSound, DiskSound, Sound, Checkpoints
<1> QED
  BY <1>1, <1>2, OutstandingParts DEF LeaseInv, RunnerLeases, Http!Named

\* A case that its runner gives up was lost, or is sealed.
LEMMA RestLeases ==
    ASSUME SysInv, SysInv', LeaseInv, NEW r \in Runners, Local(r), Rests(r)
    PROVE  LeaseInv'
<1>1. /\ UNCHANGED <<cases, leases>> /\ Http!IInv /\ Bound(r) /\ Told(r)
      /\ disk[r] # None => disk[r].case \in Cases /\ disk[r].submission \in Outstanding
  BY LeasesOf
<1>2. /\ proc'[r] \in {Off, Claiming} /\ disk'[r] \in {disk[r], None}
      /\ disk'[r] = None \/ proc'[r] = Off
  BY RestMoves DEF SysInv, StateSound
<1>3. /\ proc'[r].at \in {"off", "claim"} /\ proc'[r].answer = None
      /\ proc'[r].request \in {None, ClaimRequest}
      /\ proc'[r].at = "off" \/ disk'[r] = None
  BY <1>2, AtRest, OffParts
<1>4. NoTurnBut(r, None) /\ ~Leased(r)'
  BY <1>1, <1>2, <1>3, ClaimRequestParts DEF NoTurnBut, Leased
<1>5. Bound(r)' /\ Told(r)'
  BY <1>1, <1>2, <1>3 DEF Bound, Told, At, Leased, Http!Named
<1>6. ASSUME disk[r] # None, disk'[r] = None, AtMostOnce(disk[r].case)
      PROVE  cases[disk[r].case].lease = 0
  <2>1. Http!Named(r, disk[r].case, disk[r].lease) /\ disk[r].case \in Cases
    BY <1>1, <1>6 DEF Bound
  <2>2. cases[disk[r].case].lease # disk[r].lease \/ Sealed(disk[r].case)
    BY <1>1, <1>6, RestMoves DEF Told, SysInv, StateSound
  <2> QED
    BY <1>1, <1>6, <2>1, <2>2, LostIsFree, HeldByGrant
<1> QED
  BY <1>2, <1>4, <1>5, <1>6, SettledLeases DEF InTurns

LEMMA BootLeases ==
    ASSUME SysInv, SysInv', LeaseInv, NEW r \in Runners, Local(r), Boot(r)
    PROVE  LeaseInv'
<1>1. /\ UNCHANGED <<cases, leases>> /\ Bound(r)
      /\ disk[r] # None => disk[r].submission \in Outstanding
  BY LeasesOf
<1>2. /\ disk'[r] = disk[r] /\ proc'[r].answer = None
      /\ proc'[r].at = "claim" => disk[r] = None
      /\ proc'[r].at \in {"claim", "complete", "resume"}
      /\ proc'[r].at = "resume" => proc'[r].request = HeartbeatRequest(disk[r])
      /\ proc'[r].at = "complete" =>
            proc'[r].entry = disk[r] /\ disk[r] # None /\ proc'[r].request = disk[r].submission
      /\ proc'[r].at = "claim" => proc'[r].request = ClaimRequest
  <2>1. Claiming.at = "claim" /\ Claiming.request = ClaimRequest
    BY OffParts, WaitingParts DEF Claiming
  <2> QED
    BY <2>1, BootMoves DEF SysInv, StateSound
<1>3. HeartbeatRequest(disk[r]).op = "heartbeat"
  BY DEF HeartbeatRequest
<1>4. NoTurnBut(r, None) /\ ~Leased(r)'
  BY <1>1, <1>2, <1>3, ClaimRequestParts DEF NoTurnBut, Leased
<1>5. Bound(r)' /\ Told(r)'
  BY <1>1, <1>2 DEF Bound, Told, At, Leased, Http!Named
<1> QED
  BY <1>2, <1>4, <1>5, SettledLeases DEF InTurns

LEMMA ResumeAliveLeases ==
    ASSUME SysInv, SysInv', LeaseInv, NEW r \in Runners, Local(r), ResumeAlive(r)
    PROVE  LeaseInv'
<1>1. /\ UNCHANGED <<cases, leases>> /\ Bound(r)
      /\ disk[r] # None => disk[r].submission \in Outstanding
  BY LeasesOf
<1>2. disk'[r] = disk[r] /\ disk[r] # None
  BY DEF ResumeAlive, Answered, SysInv, ProcSound, InTurns
<1>3. \/ proc'[r] = Off
      \/ /\ proc'[r].at = "send" /\ proc'[r].entry = disk[r]
         /\ proc'[r].request = None /\ proc'[r].answer = None
  BY <1>2, BeginMoves DEF Begins
<1>4. NoTurnBut(r, None) /\ ~Leased(r)'
  BY <1>1, <1>2, <1>3, OffParts DEF NoTurnBut, Leased, At
<1>5. Bound(r)' /\ Told(r)'
  BY <1>1, <1>2, <1>3, OffParts DEF Bound, Told, At, Leased, Http!Named
<1> QED
  BY <1>2, <1>4, <1>5, SettledLeases DEF InTurns

LEMMA ContinueLeases ==
    ASSUME SysInv, SysInv', LeaseInv, NEW r \in Runners, Local(r), TurnContinues(r)
    PROVE  LeaseInv'
<1>1. UNCHANGED <<cases, leases>> /\ Bound(r)
  BY LeasesOf
<1>2. /\ disk[r] # None /\ disk[r].phase = "turn" /\ disk[r].submission # None
      /\ disk[r].pending \in Nat /\ At(r, "turn")
  BY InTurnsParts DEF TurnContinues, Answered, SysInv, ProcSound
<1>3. /\ disk'[r] # None /\ disk'[r].submission = None
      /\ disk'[r].case = disk[r].case /\ disk'[r].lease = disk[r].lease
      /\ disk'[r].pending = disk[r].pending + 1
      /\ proc'[r].at = "send" /\ proc'[r].entry = proc[r].entry
      /\ proc'[r].request = None /\ proc'[r].answer = None
  BY ContinueMoves
<1>4. NoTurnBut(r, None) /\ ~Leased(r)'
  BY <1>3 DEF NoTurnBut, Leased
<1>5. Bound(r)' /\ Told(r)'
  BY <1>1, <1>2, <1>3 DEF Bound, Told, At, Leased, Http!Named
<1>6. InTurns(r) /\ Ahead(disk'[r]) = Ahead(disk[r])
  BY <1>2, <1>3 DEF InTurns, Ahead
<1> QED
  BY <1>2, <1>3, <1>4, <1>5, <1>6, SettledLeases

LEMMA FinishLeases ==
    ASSUME SysInv, SysInv', LeaseInv, NEW r \in Runners, Local(r), TurnFinishes(r)
    PROVE  LeaseInv'
<1>1. UNCHANGED <<cases, leases>> /\ Bound(r)
  BY LeasesOf
<1>2. disk[r] # None /\ At(r, "turn")
  BY DEF TurnFinishes, Answered, SysInv, ProcSound, InTurns
<1>3. /\ disk'[r] # None /\ disk'[r].phase = "complete"
      /\ disk'[r].case = disk[r].case /\ disk'[r].lease = disk[r].lease
      /\ disk'[r].submission = proc'[r].request /\ proc'[r].request.op = "complete"
      /\ proc'[r].request.case = disk[r].case /\ proc'[r].request.lease = disk[r].lease
      /\ proc'[r].at = "complete" /\ proc'[r].entry = proc[r].entry
      /\ proc'[r].answer = None
  BY FinishMoves
<1>4. NoTurnBut(r, None) /\ ~Leased(r)' /\ ~InTurns(r)'
  BY <1>3 DEF NoTurnBut, Leased, InTurns
<1>5. Bound(r)' /\ Told(r)'
  BY <1>1, <1>2, <1>3 DEF Bound, Told, At, Leased, Http!Named
<1> QED
  BY <1>2, <1>3, <1>4, <1>5, SettledLeases

LEMMA FailLeases ==
    ASSUME SysInv, SysInv', LeaseInv, NEW r \in Runners, Local(r), NEW parents,
           FailCase(r, parents), At(r, "send") \/ At(r, "turn") \/ At(r, "complete")
    PROVE  LeaseInv'
<1>1. UNCHANGED <<cases, leases>> /\ Bound(r)
  BY LeasesOf
<1>2. /\ disk[r] # None
      /\ proc[r].entry.case = disk[r].case /\ proc[r].entry.lease = disk[r].lease
  BY <1>1 DEF SysInv, ProcSound, InTurns, Completing, Bound
<1>3. /\ disk'[r] # None /\ disk'[r].phase = "complete"
      /\ disk'[r].case = disk[r].case /\ disk'[r].lease = disk[r].lease
      /\ disk'[r].submission = proc'[r].request /\ proc'[r].request.op = "complete"
      /\ proc'[r].request.case = disk[r].case /\ proc'[r].request.lease = disk[r].lease
      /\ proc'[r].at = "failing" /\ proc'[r].answer = None
  BY <1>2, FailMoves
<1>4. NoTurnBut(r, None) /\ ~Leased(r)' /\ ~InTurns(r)'
  BY <1>3 DEF NoTurnBut, Leased, InTurns
<1>5. Bound(r)' /\ Told(r)'
  BY <1>1, <1>2, <1>3 DEF Bound, Told, At, Leased, Http!Named
<1> QED
  BY <1>2, <1>3, <1>4, <1>5, SettledLeases

LEMMA AttemptLeases ==
    ASSUME SysInv, SysInv', LeaseInv, NEW r \in Runners, Local(r), AttemptFails(r)
    PROVE  LeaseInv'
<1>1. /\ UNCHANGED <<cases, leases>> /\ Bound(r)
      /\ disk[r] # None => disk[r].submission \in Outstanding
  BY LeasesOf
<1>2. /\ disk' = disk
      /\ proc'[r].at = proc[r].at /\ proc'[r].request = proc[r].request
      /\ proc'[r].entry = proc[r].entry
      /\ proc'[r].answer # None => proc'[r].answer.verdict = "transport"
  BY AttemptMoves
<1>3. NoTurnBut(r, None) /\ ~Leased(r)'
  BY <1>1, <1>2, OutstandingParts DEF NoTurnBut, Leased
<1>4. Bound(r)' /\ Told(r)'
  BY <1>1, <1>2, <1>3 DEF Bound, Told, At, Http!Named, LeaseLost, Succeeded
<1> QED
  BY <1>2, <1>3, <1>4, SettledLeases DEF InTurns


-----------------------------------------------------------------------------
(* A case is begun, a turn is prepared *)

LEMMA ClaimLeasedLeases ==
    ASSUME SysInv, SysInv', LeaseInv, NEW r \in Runners, Local(r), ClaimLeased(r)
    PROVE  LeaseInv'
<1>1. UNCHANGED <<cases, leases>> /\ RunnerLeases(r) /\ Bound(r)
  BY LeasesOf
<1>2. At(r, "claim") /\ Leased(r) /\ disk[r] = None
  BY <1>1 DEF ClaimLeased, Answered, Leased, Bound
<1>3. /\ disk'[r].case = proc[r].answer.case /\ disk'[r].lease = proc[r].answer.lease
      /\ disk'[r].pending = 0 /\ disk'[r].submission = None
      /\ \/ proc'[r] = Off
         \/ /\ proc'[r].at = "send" /\ proc'[r].entry = disk'[r]
            /\ proc'[r].request = None /\ proc'[r].answer = None
  BY <1>2, BeginMoves DEF Begins, At
<1>4. NoTurnBut(r, None) /\ ~Leased(r)'
  BY <1>3, OffParts DEF NoTurnBut, Leased, At
<1>5. Bound(r)' /\ Told(r)'
  BY <1>1, <1>2, <1>3, OffParts DEF Bound, Told, At, Leased, Http!Named
<1>6. Leads(r)'
  <2>1. PICK c : c = proc[r].answer.case
    OBVIOUS
  <2>2. OutstandingOf("turn")' \subseteq OutstandingOf("turn")
    BY <1>4, NoNewTurns
  <2>3. Ahead(disk'[r]) = 0
    BY <1>3 DEF Ahead
  <2>4. AtMostOnce(c)' <=> AtMostOnce(c)
    BY <1>1 DEF AtMostOnce, Grants
  <2>5. AtMostOnce(c) => Untouched(c)
    BY <1>1, <1>2, <2>1 DEF RunnerLeases, Opens
  <2>6. AtMostOnce(c)' => /\ Len(cases'[c].turns) <= 0
                          /\ \A req \in OutstandingOf("turn")' : req.case # c
    BY <1>1, <2>2, <2>4, <2>5 DEF Untouched
  <2> QED
    BY <1>3, <2>1, <2>3, <2>6 DEF Leads, AtMostOnce, Grants
<1> QED
  BY <1>2, <1>4, <1>5, <1>6, QuietLeases

\* The submission of a turn that was not prepared before.
LEMMA PrepareLeases ==
    ASSUME SysInv, SysInv', LeaseInv, NEW r \in Runners, Local(r), Send(r),
           disk[r].submission = None
    PROVE  LeaseInv'
<1>1. PICK c : c = disk[r].case
  OBVIOUS
<1>2. PICK n : n = disk[r].pending
  OBVIOUS
<1>3. PICK new : new = proc'[r].request
  OBVIOUS
<1>4. /\ UNCHANGED <<cases, leases>> /\ Http!IInv /\ RunnerLeases(r) /\ Bound(r)
      /\ c \in Cases /\ disk[r] \in Checkpoints /\ disk[r] # None
      /\ Http!Named(r, c, disk[r].lease)
  BY <1>1, LeasesOf, SendMoves DEF Bound
<1>5. /\ InTurns(r) /\ n \in Nat /\ At(r, "send")
  BY <1>2, InTurnsParts, SendMoves DEF InTurns
<1>6. /\ disk'[r] = [disk[r] EXCEPT !.submission = new]
      /\ proc'[r].at = "turn" /\ proc'[r].entry = proc[r].entry /\ proc'[r].answer = None
      /\ new.op = "turn" /\ new.case = c /\ new.lease = disk[r].lease /\ new.sequence = n
  BY <1>1, <1>2, <1>3, SendMoves
<1>7. /\ disk'[r].case = c /\ disk'[r].lease = disk[r].lease
      /\ disk'[r].pending = n /\ disk'[r].submission = new
  BY <1>1, <1>2, <1>4, <1>6 DEF Checkpoints
<1>8. disk'[r] # None /\ new # None
  BY <1>6, <1>7 DEF SysInv, ProcSound, InTurns, At
<1>9. OutstandingOf("turn")' \subseteq OutstandingOf("turn") \union {new}
  <2> SUFFICES ASSUME NEW req \in Outstanding', req # None, req.op = "turn", req # new
               PROVE  req \in Outstanding
    BY DEF OutstandingOf
  <2> QED
    BY <1>3, <1>7, LocalOutstanding DEF SysInv
<1>10. \A d : Grants(d)' = Grants(d) /\ (AtMostOnce(d)' <=> AtMostOnce(d))
  BY <1>4 DEF Grants, AtMostOnce
<1>11. \A d : d # c /\ Untouched(d) => Untouched(d)'
  BY <1>4, <1>6, <1>9 DEF Untouched
<1>12. Ahead(disk[r]) = n /\ Ahead(disk'[r]) = n + 1
  BY <1>2, <1>5, <1>7, <1>8 DEF Ahead
<1>13. AtMostOnce(c) => /\ Len(cases[c].turns) <= n
                        /\ \A req \in OutstandingOf("turn") : req.case = c => req.sequence < n
  BY <1>1, <1>4, <1>5, <1>12 DEF RunnerLeases, Leads
<1>14. Len(cases[c].turns) \in Nat /\ \A req \in OutstandingOf("turn") : req.sequence \in Nat
  BY <1>4, TurnsTyped, OutstandingTurn DEF SysInv, OutstandingOf, Http!WellFormed
<1>15. RunnerLeases(r)'
  <2>1. Bound(r)'
    BY <1>1, <1>4, <1>5, <1>6, <1>7 DEF Bound, At, Leased, Http!Named
  <2>2. Told(r)' /\ Opens(r)'
    BY <1>6 DEF Told, Opens, Leased, At
  <2>3. Leads(r)'
    <3> SUFFICES ASSUME AtMostOnce(c)
                 PROVE  /\ Len(cases[c].turns) <= n + 1
                        /\ \A req \in OutstandingOf("turn")' :
                              req.case = c => req.sequence < n + 1
      BY <1>4, <1>7, <1>10, <1>12 DEF Leads, AtMostOnce, Grants
    <3> QED
      BY <1>5, <1>6, <1>9, <1>13, <1>14
  <2> QED
    BY <2>1, <2>2, <2>3 DEF RunnerLeases
<1>16. ASSUME NEW q \in Runners \ {r}
       PROVE  RunnerLeases(q)'
  <2>1. disk'[q] = disk[q] /\ proc'[q] = proc[q] /\ RunnerLeases(q)
    BY DEF LeaseInv, Local
  <2>2. Bound(q)' /\ Told(q)'
    BY <1>4, <2>1 DEF RunnerLeases, Bound, Told, At, Leased, LeaseLost, Succeeded, Sealed,
                      Http!Named
  <2>3. Opens(q)'
    <3>1. Leased(q)' <=> Leased(q)
      BY <2>1 DEF Leased, At
    <3> SUFFICES ASSUME Leased(q), AtMostOnce(proc[q].answer.case)'
                 PROVE  Untouched(proc[q].answer.case)'
      BY <3>1 DEF Opens
    <3>2. PICK d : d = proc[q].answer.case
      OBVIOUS
    <3>3. proc'[q].answer.case = d
      BY <2>1, <3>2
    <3>4. AtMostOnce(d)'
      BY <3>3
    <3>5. AtMostOnce(d) /\ Untouched(d) /\ Http!Named(q, d, proc[q].answer.lease)
      BY <1>10, <2>1, <3>2, <3>4 DEF RunnerLeases, Opens, Bound
    <3>6. d # c
      BY <1>4, <3>5, OneHolder
    <3>7. Untouched(d)'
      BY <1>11, <3>5, <3>6
    <3> QED
      BY <3>3, <3>7
  <2>4. Leads(q)'
    <3> SUFFICES ASSUME InTurns(q), AtMostOnce(disk[q].case)
                 PROVE  /\ Len(cases[disk[q].case].turns) <= Ahead(disk[q])
                        /\ \A req \in OutstandingOf("turn")' :
                              req.case = disk[q].case => req.sequence < Ahead(disk[q])
      BY <1>4, <1>10, <2>1 DEF Leads, InTurns, AtMostOnce
    <3>1. Http!Named(q, disk[q].case, disk[q].lease)
      BY <2>1 DEF RunnerLeases, Bound, InTurns
    <3>2. disk[q].case # c
      BY <1>4, <3>1, OneHolder
    <3> QED
      BY <1>6, <1>9, <2>1, <3>2 DEF RunnerLeases, Leads
  <2> QED
    BY <2>2, <2>3, <2>4 DEF RunnerLeases
<1>17. ASSUME NEW d \in Cases
       PROVE  CaseLeases(d)'
  <2>1. CaseLeases(d)
    BY DEF LeaseInv
  <2>2. Entitling(d)'
    <3>1. Grants(c) # {}
      BY <1>4 DEF Http!Named, Grants
    <3> QED
      BY <1>10, <1>11, <2>1, <3>1 DEF CaseLeases, Entitling
  <2>3. ASSUME AtMostOnce(d)
        PROVE  OneSubmission(d)'
    <3>1. OneSubmission(d)
      BY <2>1, <2>3 DEF CaseLeases
    <3>2. CASE d = c
      BY <1>4, <1>5, <1>6, <1>9, <1>13, <1>14, <2>3, <3>1, <3>2 DEF OneSubmission
    <3>3. CASE d # c
      BY <1>4, <1>6, <1>9, <3>1, <3>3 DEF OneSubmission
    <3> QED
      BY <3>2, <3>3
  <2>4. ASSUME AtMostOnce(d), cases[d].lease # 0, ~Untouched(d)',
               NEW holder, holder = leases[cases[d].lease].runner_id
        PROVE  disk'[holder] # None /\ disk'[holder].case = d
    <3>1. cases[d].lease \in Grants(d)
      BY <1>4, <2>4, HeldByGrant
    <3>2. CASE d = c
      <4>1. disk[r].lease \in Grants(c) /\ leases[disk[r].lease].runner_id = r
        BY <1>4 DEF Http!Named, Grants
      <4>2. holder = r
        BY <2>4, <3>1, <3>2, <4>1 DEF AtMostOnce
      <4> QED
        BY <1>7, <1>8, <3>2, <4>2
    <3>3. CASE d # c
      <4>1. disk[holder] # None /\ disk[holder].case = d
        BY <1>11, <2>1, <2>4, <3>3 DEF CaseLeases, Keeps
      <4>2. holder \in Runners
        <5>1. leases \in Seq(Http!Lease) /\ cases[d].lease \in DOMAIN leases
          BY <1>4, <3>1 DEF Grants, Http!IInv, Http!StateInv
        <5>2. leases[cases[d].lease] \in Http!Lease
          BY <5>1
        <5> QED
          BY <2>4, <5>2 DEF Http!Lease
      <4> QED
        BY <1>1, <3>3, <4>1, <4>2 DEF Local
    <3> QED
      BY <3>2, <3>3
  <2>5. AtMostOnce(d) => Keeps(d)'
    BY <1>4, <2>4 DEF Keeps
  <2> QED
    BY <1>10, <2>2, <2>3, <2>5 DEF CaseLeases
<1> QED
  BY <1>15, <1>16, <1>17 DEF LeaseInv

LEMMA SendLeases ==
    ASSUME SysInv, SysInv', LeaseInv, NEW r \in Runners, Local(r), Send(r)
    PROVE  LeaseInv'
<1>1. CASE disk[r].submission # None
  <2>1. /\ UNCHANGED <<cases, leases>> /\ Bound(r) /\ disk[r] # None
        /\ disk[r] \in Checkpoints /\ disk[r].submission \in Outstanding
    BY LeasesOf, SendMoves
  <2>2. /\ disk'[r] = disk[r] /\ At(r, "send")
        /\ proc'[r].at = "turn" /\ proc'[r].entry = proc[r].entry /\ proc'[r].answer = None
        /\ proc'[r].request = disk[r].submission
    <3>1. \A ckpt \in Checkpoints : [ckpt EXCEPT !.submission = ckpt.submission] = ckpt
      BY DEF Checkpoints
    <3>2. /\ disk'[r] = [disk[r] EXCEPT !.submission = proc'[r].request] /\ At(r, "send")
          /\ proc'[r].at = "turn" /\ proc'[r].entry = proc[r].entry /\ proc'[r].answer = None
          /\ proc'[r].request = disk[r].submission
      BY <1>1, SendMoves
    <3> QED
      BY <2>1, <3>1, <3>2
  <2>3. NoTurnBut(r, None) /\ ~Leased(r)'
    BY <2>1, <2>2 DEF NoTurnBut, Leased, At
  <2>4. Bound(r)' /\ Told(r)'
    BY <2>1, <2>2 DEF Bound, Told, At, Leased, Http!Named
  <2> QED
    BY <2>1, <2>2, <2>3, <2>4, SettledLeases DEF InTurns
<1> QED
  BY <1>1, PrepareLeases


-----------------------------------------------------------------------------
(* The invariant of the leases *)

\* The case a runner works on when its call fails is failed.
LEMMA CallErrorsFails ==
    ASSUME NEW r \in Runners, SendRaises(r) \/ CallErrors(r)
    PROVE  \E parents : /\ FailCase(r, parents)
                        /\ At(r, "send") \/ At(r, "turn") \/ At(r, "complete")
BY DEF SendRaises, CallErrors, Answered

LEMMA InitLeases == Init => LeaseInv
<1> SUFFICES ASSUME Init PROVE LeaseInv
  OBVIOUS
<1>1. /\ disk = [r \in Runners |-> None] /\ proc = [r \in Runners |-> Off]
      /\ late = {} /\ leases = << >>
  BY DEF Init, InitLoop
<1>2. \A c \in Cases : cases[c].turns = << >> /\ cases[c].lease = 0
  BY DEF Init, Server!NoCase
<1>3. \A req \in Outstanding : req = None
  BY <1>1, OffParts DEF Outstanding
<1>4. OutstandingOf("turn") = {}
  BY <1>3 DEF OutstandingOf
<1>5. \A r \in Runners : RunnerLeases(r)
  BY <1>1, OffParts DEF RunnerLeases, Bound, Told, Opens, Leads, Leased, At, InTurns
<1>6. \A c \in Cases : CaseLeases(c)
  BY <1>2, <1>4 DEF CaseLeases, Entitling, Untouched, OneSubmission, Keeps
<1> QED
  BY <1>5, <1>6 DEF LeaseInv

LEMMA NextLeases ==
    ASSUME SysInv, SysInv', LeaseInv, [Next]_vars
    PROVE  LeaseInv'
<1>1. ASSUME NEW r \in Runners, Start(r)
      PROVE  LeaseInv'
  BY <1>1, RunnerLocal, BootLeases DEF Start
<1>2. ASSUME NEW r \in Runners, Step(r)
      PROVE  LeaseInv'
  <2>1. Local(r) /\ Proceed(r)
    BY <1>2, RunnerLocal DEF Step
  <2>2. CASE Rests(r)
    BY <2>1, <2>2, RestLeases
  <2>3. CASE ClaimLeased(r) \/ ResumeAlive(r) \/ Send(r) \/ TurnContinues(r) \/ TurnFinishes(r)
    BY <2>1, <2>3, ClaimLeasedLeases, ResumeAliveLeases, SendLeases, ContinueLeases,
       FinishLeases
  <2>4. CASE SendRaises(r) \/ CallErrors(r)
    BY <2>1, <2>4, CallErrorsFails, FailLeases
  <2> QED
    BY <2>1, <2>2, <2>3, <2>4 DEF Proceed, Rests
<1>3. ASSUME NEW r \in Runners, Killed(r)
      PROVE  LeaseInv'
  BY <1>3, RunnerLocal, RestLeases DEF Killed, Rests
<1>4. ASSUME NEW r \in Runners, AttemptFails(r)
      PROVE  LeaseInv'
  BY <1>4, RunnerLocal, AttemptLeases
<1>5. ASSUME NEW r \in Runners, Serve(r)
      PROVE  LeaseInv'
  BY <1>5, ServeLeases
<1>6. CASE LateArrives \/ Tick \/ \E r \in Runners : Beat(r)
  BY <1>6, SilentServed, SilentLeases
<1>7. CASE UNCHANGED vars
  <2>1. /\ UNCHANGED <<disk, proc, cases, leases>>
        /\ OutstandingOf("turn")' = OutstandingOf("turn")
    BY <1>7 DEF vars, loopVars, serverVars, OutstandingOf, Outstanding
  <2>2. ASSUME NEW r \in Runners
        PROVE  RunnerLeases(r)'
    BY <2>1 DEF LeaseInv, RunnerLeases, Bound, Told, Opens, Leads, Leased, At, InTurns,
                LeaseLost, Succeeded, Sealed, Http!Named, AtMostOnce, Grants, Untouched
  <2>3. ASSUME NEW c \in Cases
        PROVE  CaseLeases(c)'
    BY <2>1 DEF LeaseInv, CaseLeases, Entitling, OneSubmission, Keeps, AtMostOnce, Grants,
                Untouched
  <2> QED
    BY <2>2, <2>3 DEF LeaseInv
<1> QED
  BY <1>1, <1>2, <1>3, <1>4, <1>5, <1>6, <1>7 DEF Next

\* What is still on its way of a case granted once is what was submitted, and
\* nothing was submitted that its runner has not prepared.
THEOREM LeasesHold == Spec => []LeaseInv
<1>1. Init => LeaseInv
  BY InitLeases
<1>2. SysInv /\ SysInv' /\ LeaseInv /\ [Next]_vars => LeaseInv'
  BY NextLeases
<1> QED
  BY <1>1, <1>2, SystemInvariance, PTL DEF Spec


-----------------------------------------------------------------------------
(* What the files say *)

\* The bytes of artifact a are on the disk of r.
Lies(r, a) == \E body \in artifacts[r] : body.kind = "body" /\ body.artifact = a

OfTurn(a) == a.stem[1] \in {"turn", "observations"}

\* An artifact of a turn of case c, whose bytes are still there.
Traced(r, c, a) == a.case = c /\ OfTurn(a) /\ (AtMostOnce(c) => Lies(r, a))

\* The bytes filed of a turn are the recorded ones, and a manifest leads to bytes.
FileSound(r, f) ==
    AtMostOnce(f.artifact.case) =>
       /\ f.kind = "body" /\ OfTurn(f.artifact) => RecordedAsFiled(f.artifact)
       /\ f.kind = "manifest" =>
            /\ OfTurn(f.artifact) => Lies(r, f.artifact)
            /\ \A a \in f.parents : Traced(r, f.artifact.case, a)

\* The artifacts a completion would be derived from are those of the case.
ParentsSound(r) ==
    /\ At(r, "off") \/ At(r, "claim") \/ At(r, "resume") => proc[r].parents = {}
    /\ At(r, "send") \/ At(r, "turn") \/ At(r, "complete") \/ At(r, "failing") =>
         \A a \in proc[r].parents : Traced(r, disk[r].case, a)

\* The second invariant, beside that of the leases.
FileInv == \A r \in Runners : (\A f \in artifacts[r] : FileSound(r, f)) /\ ParentsSound(r)

LEMMA PairAfterPair ==
    ASSUME NEW S, NEW s \in Seq(S), Len(s) = 2, NEW t \in Seq(S), Len(t) = 2
    PROVE  /\ Len(s \o t) = 4 /\ s \o t \in Seq(S)
           /\ (s \o t)[1] = s[1] /\ (s \o t)[2] = s[2]
           /\ (s \o t)[3] = t[1] /\ (s \o t)[4] = t[2]
<1>1. PICK st : st = s \o t
  OBVIOUS
<1>2. /\ st \in Seq(S) /\ Len(st) = Len(s) + Len(t)
      /\ \A m \in 1..Len(s) + Len(t) : st[m] = IF m <= Len(s) THEN s[m] ELSE t[m - Len(s)]
  BY <1>1, ConcatProperties, Zenon
<1>3. Len(st) = 4 /\ st[1] = s[1] /\ st[2] = s[2]
  BY <1>2
<1>4. st[3] = t[3 - 2] /\ st[4] = t[4 - 2]
  BY <1>2
<1> QED
  BY <1>1, <1>2, <1>3, <1>4

LEMMA FilePairParts ==
    ASSUME NEW artifact \in Artifacts, NEW parents \in SUBSET Artifacts
    PROVE  LET pair == FilePair(artifact, parents) IN
           /\ pair \in Seq(Files) /\ Len(pair) = 2
           /\ pair[1].kind = "body" /\ pair[1].artifact = artifact
           /\ pair[2].kind = "manifest" /\ pair[2].artifact = artifact
           /\ pair[2].parents = parents
<1> DEFINE body == [kind |-> "body", artifact |-> artifact, parents |-> {}]
           manifest == [kind |-> "manifest", artifact |-> artifact, parents |-> parents]
<1>1. /\ body \in Files /\ body.kind = "body" /\ body.artifact = artifact
      /\ manifest \in Files /\ manifest.kind = "manifest" /\ manifest.artifact = artifact
      /\ manifest.parents = parents
  BY DEF Files
<1>2. FilePair(artifact, parents) = <<body, manifest>>
  BY DEF FilePair
<1> HIDE DEF body, manifest
<1> QED
  BY <1>1, <1>2

\* What is filed of a turn that was accepted: bytes, then what they are.
LEMMA TurnEvidence ==
    ASSUME SysInv, TypeInv, NEW r \in Runners, Answered(r, "turn"),
           NEW m \in 1..Len(EvidenceOf(r))
    PROVE  LET f == EvidenceOf(r)[m] IN
           /\ f \in Files /\ OfTurn(f.artifact)
           /\ f.artifact.case = disk[r].case /\ f.artifact.stem[2] = disk[r].pending
           /\ f.artifact.content = disk[r].submission.output
           /\ f.kind = "manifest" =>
                /\ m - 1 \in 1..Len(EvidenceOf(r))
                /\ EvidenceOf(r)[m - 1].kind = "body"
                /\ EvidenceOf(r)[m - 1].artifact = f.artifact
                /\ 1 < m /\ EvidenceOf(r)[1].kind = "body"
                /\ \A a \in f.parents : a = EvidenceOf(r)[1].artifact
<1>1. PICK req : req = proc[r].request
  OBVIOUS
<1>2. /\ req = disk[r].submission /\ req.op = "turn" /\ req.case = disk[r].case
      /\ req.sequence = disk[r].pending
      /\ disk[r].submission # None
  BY <1>1, InTurnsParts DEF Answered, SysInv, ProcSound, At, SavedTurn
<1>3. req \in TurnRequests
  <2>1. Sound(r, disk[r])
    BY InTurnsParts DEF Answered
  <2>2. req \in Requests
    BY <1>2, <2>1 DEF Sound, Good
  <2> QED
    BY <1>2, <2>2, RequestKinds
<1> DEFINE turn == Artifact(req.case, <<"turn", req.sequence>>, req.output)
           seen == Artifact(req.case, <<"observations", req.sequence>>, req.output)
<1>4. /\ turn \in Artifacts /\ turn.case = req.case /\ turn.stem[1] = "turn"
      /\ turn.stem[2] = req.sequence /\ turn.content = req.output
      /\ seen \in Artifacts /\ seen.case = req.case /\ seen.stem[1] = "observations"
      /\ seen.stem[2] = req.sequence /\ seen.content = req.output
  BY <1>3 DEF TurnRequests, Artifact, Artifacts
<1>5. EvidenceOf(r) = FilePair(turn, {})
                      \o IF <<req.case, req.sequence>> \in Observed
                         THEN FilePair(seen, {turn}) ELSE << >>
  BY <1>1, <1>2 DEF EvidenceOf, TurnFiles
<1> HIDE DEF turn, seen
<1>6. PICK first : first = FilePair(turn, {})
  OBVIOUS
<1>7. PICK second : second = FilePair(seen, {turn})
  OBVIOUS
<1>8. /\ first \in Seq(Files) /\ Len(first) = 2
      /\ first[1].kind = "body" /\ first[1].artifact = turn
      /\ first[2].kind = "manifest" /\ first[2].artifact = turn /\ first[2].parents = {}
  BY <1>4, <1>6, FilePairParts
<1>9. /\ second \in Seq(Files) /\ Len(second) = 2
      /\ second[1].kind = "body" /\ second[1].artifact = seen
      /\ second[2].kind = "manifest" /\ second[2].artifact = seen
      /\ second[2].parents = {turn}
  BY <1>4, <1>7, FilePairParts
<1>10. PICK files : files = EvidenceOf(r) /\ m \in 1..Len(files)
  OBVIOUS
<1>11. CASE <<req.case, req.sequence>> \in Observed
  <2>1. files = first \o second
    BY <1>5, <1>6, <1>7, <1>10, <1>11
  <2>2. /\ Len(files) = 4 /\ files[1] = first[1] /\ files[2] = first[2]
        /\ files[3] = second[1] /\ files[4] = second[2] /\ files \in Seq(Files)
    BY <1>8, <1>9, <2>1, PairAfterPair
  <2>3. m \in {1, 2, 3, 4}
    BY <1>10, <2>2
  <2>4. files[m] \in Files
    BY <1>10, <2>2, ElementOfSeq
  <2> QED
    BY <1>2, <1>4, <1>8, <1>9, <1>10, <2>2, <2>3, <2>4 DEF OfTurn
<1>12. CASE <<req.case, req.sequence>> \notin Observed
  <2>1. files = first \o << >>
    BY <1>5, <1>6, <1>10, <1>12
  <2>2. files = first
    BY <1>8, <2>1, ConcatEmptySeq
  <2>3. m \in 1..2
    BY <1>8, <1>10, <2>2
  <2>4. files[m] \in Files
    BY <1>8, <1>10, <2>2, ElementOfSeq
  <2> QED
    BY <1>2, <1>4, <1>8, <1>10, <2>2, <2>3, <2>4 DEF OfTurn
<1> QED
  BY <1>11, <1>12

\* What is filed of a report: bytes, then what they are and came from.
LEMMA ReportEvidence ==
    ASSUME SysInv, TypeInv, NEW r \in Runners, Answered(r, "complete") \/ Answered(r, "failing"),
           NEW m \in 1..Len(EvidenceOf(r))
    PROVE  LET f == EvidenceOf(r)[m] IN
           /\ f \in Files /\ ~OfTurn(f.artifact) /\ f.artifact.case = disk[r].case
           /\ f.artifact.content = [outcome |-> proc[r].request.outcome]
           /\ f.kind = "manifest" => f.parents = proc[r].parents
<1>1. PICK req : req = proc[r].request
  OBVIOUS
<1>2. /\ req = disk[r].submission /\ req.op = "complete" /\ req.case = disk[r].case
      /\ req # None /\ Good(req)
  BY <1>1 DEF Answered, SysInv, StateSound, ProcSound, Completing, DiskSound, Sound
<1>3. req \in CompleteRequests
  BY <1>2, RequestKinds DEF Good
<1> DEFINE report == Artifact(req.case, <<"completion", 0>>, [outcome |-> req.outcome])
<1>4. /\ report \in Artifacts /\ report.case = req.case /\ report.stem[1] = "completion"
      /\ report.content = [outcome |-> req.outcome]
  BY <1>3 DEF CompleteRequests, Artifact, Artifacts, Server!Outcomes
<1>5. EvidenceOf(r) = FilePair(report, proc[r].parents)
  BY <1>1, <1>2 DEF EvidenceOf, CompletionFiles
<1> HIDE DEF report
<1>6. proc[r].parents \in SUBSET Artifacts
  BY DEF TypeInv, ProcTyped
<1>7. PICK files : files = EvidenceOf(r)
  OBVIOUS
<1>8. /\ files \in Seq(Files) /\ Len(files) = 2
      /\ files[1].kind = "body" /\ files[1].artifact = report
      /\ files[2].kind = "manifest" /\ files[2].artifact = report
      /\ files[2].parents = proc[r].parents
  BY <1>4, <1>5, <1>6, <1>7, FilePairParts
<1>9. m \in {1, 2} /\ files[m] \in Files
  BY <1>7, <1>8
<1> QED
  BY <1>1, <1>2, <1>4, <1>7, <1>8, <1>9 DEF OfTurn


-----------------------------------------------------------------------------
(* Writing *)

\* The call of runner r was accepted, and the first n files of it are written.
Writes(r, n) ==
    /\ Answered(r, "turn") \/ Answered(r, "complete") \/ Answered(r, "failing")
    /\ Succeeded(r)
    /\ WriteFirst(r, n)

\* Whatever a process does, it writes nothing but the evidence of a call that was
\* accepted.
LEMMA EvidenceWritten ==
    ASSUME SysInv, TypeInv, NEW r \in Runners, Proceed(r) \/ Crash(r)
    PROVE  artifacts' = artifacts \/ \E n \in 0..Len(EvidenceOf(r)) : Writes(r, n)
<1>1. ASSUME Answered(r, "turn") \/ Answered(r, "complete") \/ Answered(r, "failing"),
             Succeeded(r), WriteAll(r)
      PROVE  \E n \in 0..Len(EvidenceOf(r)) : Writes(r, n)
  <2>1. Len(EvidenceOf(r)) \in 0..Len(EvidenceOf(r))
    BY <1>1, EvidenceTyped
  <2> QED
    BY <1>1, <2>1 DEF WriteAll, Writes
<1>2. CASE Crash(r)
  BY <1>2 DEF Crash, Writes
<1>3. CASE \/ ClaimLeased(r) \/ ClaimEnds(r) \/ ResumeAlive(r) \/ ResumeLost(r)
           \/ ResumeFails(r) \/ Send(r) \/ SendRaises(r) \/ CaseLost(r) \/ FailureUnwanted(r)
  BY <1>3 DEF ClaimLeased, ClaimEnds, ResumeAlive, ResumeLost, ResumeFails, Send,
              SendRaises, CaseLost, FailureUnwanted
<1>4. CASE TurnContinues(r) \/ TurnFinishes(r) \/ CompletionAccepted(r) \/ FailureRecorded(r)
  BY <1>1, <1>4 DEF TurnContinues, TurnFinishes, CompletionAccepted, FailureRecorded
<1>5. CASE CallErrors(r) \/ FailureEscapes(r)
  BY <1>5 DEF CallErrors, FailureEscapes, RaisesAfterAnswer, Writes
<1> QED
  BY <1>2, <1>3, <1>4, <1>5 DEF Proceed

\* The files of r once the first n are written; those of others stay.
LEMMA WrittenFiles ==
    ASSUME TypeInv, NEW r \in Runners, NEW n, WriteFirst(r, n)
    PROVE  /\ \A q \in Runners \ {r} : artifacts'[q] = artifacts[q]
           /\ \A m \in 1..n : EvidenceOf(r)[m] \in artifacts'[r]
           /\ \A f \in artifacts'[r] :
                 f \in artifacts[r] \/ \E m \in 1..n : f = EvidenceOf(r)[m]
           /\ \A f \in artifacts[r] :
                 \/ f \in artifacts'[r]
                 \/ \E m \in 1..n : FileName(EvidenceOf(r)[m]) = FileName(f)
<1> DEFINE written == {EvidenceOf(r)[m] : m \in 1..n}
           kept == {f \in artifacts[r] : \A g \in written : FileName(f) # FileName(g)}
<1>1. artifacts' = [artifacts EXCEPT ![r] = kept \union written]
  BY DEF WriteFirst
<1>2. DOMAIN artifacts = Runners
  BY DEF TypeInv, FilesTyped
<1>3. artifacts'[r] = kept \union written
  <2> HIDE DEF kept, written
  <2> QED
    BY <1>1, <1>2
<1> QED
  BY <1>1, <1>2, <1>3

\* A turn that was accepted, of a case granted only once, is the one recorded.
LEMMA TurnRecorded ==
    ASSUME SysInv, LeaseInv, NEW r \in Runners, Answered(r, "turn"), Succeeded(r),
           AtMostOnce(disk[r].case)
    PROVE  /\ disk[r].pending < Len(cases[disk[r].case].turns)
           /\ cases[disk[r].case].turns[disk[r].pending + 1].event = disk[r].submission.output
<1>1. PICK c : c = disk[r].case
  OBVIOUS
<1>2. PICK req : req = disk[r].submission
  OBVIOUS
<1>3. /\ disk[r] # None /\ c \in Cases /\ req # None /\ disk[r].pending \in Nat
      /\ req.op = "turn" /\ req.case = c /\ req.sequence = disk[r].pending
  BY <1>1, <1>2, InTurnsParts DEF Answered, SysInv, ProcSound, At, SavedTurn
<1>4. req \in OutstandingOf("turn")
  BY <1>2, <1>3, OutstandingParts DEF OutstandingOf
<1>5. disk[r].pending + 1 <= Len(cases[c].turns) /\ Len(cases[c].turns) \in Nat
  BY <1>1, <1>3, TurnAnswerParts, TurnsTyped DEF Reached, SysInv, StateSound
<1>6. OneSubmission(c)
  BY <1>1, <1>3 DEF LeaseInv, CaseLeases
<1>7. req.sequence < Len(cases[c].turns)
  BY <1>3, <1>5
<1>8. cases[c].turns[req.sequence + 1].event = req.output
  BY <1>3, <1>4, <1>6, <1>7, Zenon DEF OneSubmission
<1> QED
  BY <1>1, <1>2, <1>3, <1>7, <1>8

\* The bytes written of an accepted turn are the recorded ones.
LEMMA RecordedEvidence ==
    ASSUME SysInv, TypeInv, LeaseInv, NEW r \in Runners, Answered(r, "turn"), Succeeded(r),
           AtMostOnce(disk[r].case), NEW m \in 1..Len(EvidenceOf(r))
    PROVE  RecordedAsFiled(EvidenceOf(r)[m].artifact)
<1>1. PICK a : a = EvidenceOf(r)[m].artifact
  OBVIOUS
<1>2. /\ a.case = disk[r].case /\ a.stem[2] = disk[r].pending
      /\ a.content = disk[r].submission.output
  BY <1>1, TurnEvidence
<1> QED
  BY <1>1, <1>2, TurnRecorded DEF RecordedAsFiled

\* What was filed of a turn is not written over by anything else.
LEMMA BytesStay ==
    ASSUME SysInv, TypeInv, LeaseInv, FileInv, NEW r \in Runners,
           NEW n \in 0..Len(EvidenceOf(r)), Writes(r, n),
           NEW a, OfTurn(a), AtMostOnce(a.case), Lies(r, a)
    PROVE  Lies(r, a)'
<1>1. PICK body \in artifacts[r] : body.kind = "body" /\ body.artifact = a
  BY DEF Lies
<1>2. RecordedAsFiled(a)
  BY <1>1 DEF FileInv, FileSound
<1>3. a \in Artifacts
  BY <1>1 DEF TypeInv, FilesTyped, Files
<1>4. ASSUME NEW m \in 1..n, FileName(EvidenceOf(r)[m]) = FileName(body)
      PROVE  Lies(r, a)'
  <2>1. PICK f : f = EvidenceOf(r)[m]
    OBVIOUS
  <2>2. /\ f.kind = "body" /\ f.artifact.case = a.case /\ f.artifact.stem = a.stem
        /\ m \in 1..Len(EvidenceOf(r)) /\ f \in artifacts'[r]
    BY <1>1, <1>4, <2>1, WrittenFiles DEF FileName, Writes
  <2>3. OfTurn(f.artifact)
    BY <2>2 DEF OfTurn
  <2>4. Answered(r, "turn")
    BY <2>1, <2>2, <2>3, ReportEvidence DEF Writes
  <2>5. f.artifact.case = disk[r].case /\ f \in Files
    BY <2>1, <2>2, <2>4, TurnEvidence
  <2>6. RecordedAsFiled(f.artifact)
    BY <2>1, <2>2, <2>4, <2>5, RecordedEvidence DEF Writes
  <2>7. f.artifact.content = a.content
    BY <1>2, <2>2, <2>6 DEF RecordedAsFiled
  <2>8. f.artifact \in Artifacts
    BY <2>5 DEF Files
  <2>9. f.artifact = a
    BY <1>3, <2>2, <2>7, <2>8 DEF Artifacts
  <2> QED
    BY <2>2, <2>9 DEF Lies
<1>5. CASE body \in artifacts'[r]
  BY <1>1, <1>5 DEF Lies
<1> QED
  BY <1>4, <1>5, WrittenFiles DEF Writes

\* An artifact of a turn stays where it was while evidence is written.
LEMMA TracesStay ==
    ASSUME SysInv, TypeInv, LeaseInv, FileInv, NEW r \in Runners,
           NEW n \in 0..Len(EvidenceOf(r)), Writes(r, n), UNCHANGED leases,
           NEW c, NEW a, Traced(r, c, a)
    PROVE  Traced(r, c, a)'
<1>1. AtMostOnce(c)' <=> AtMostOnce(c)
  BY DEF AtMostOnce, Grants
<1>2. a.case = c /\ OfTurn(a)
  BY DEF Traced
<1>3. AtMostOnce(c) => Lies(r, a)'
  BY <1>2, BytesStay DEF Traced
<1> QED
  BY <1>1, <1>2, <1>3 DEF Traced

\* Of a turn, whatever of its evidence has a manifest has its bytes.
LEMMA NewTraces ==
    ASSUME SysInv, TypeInv, NEW r \in Runners, Answered(r, "turn"),
           NEW n \in 0..Len(EvidenceOf(r)), WriteFirst(r, n),
           NEW m \in 1..n, NEW f, f = EvidenceOf(r)[m], f.kind = "manifest"
    PROVE  /\ Lies(r, f.artifact)'
           /\ \A a \in f.parents : Lies(r, a)' /\ OfTurn(a) /\ a.case = disk[r].case
<1>1. PICK before : before = EvidenceOf(r)[m - 1]
  OBVIOUS
<1>2. PICK first : first = EvidenceOf(r)[1]
  OBVIOUS
<1>3. m \in 1..Len(EvidenceOf(r)) /\ Len(EvidenceOf(r)) \in Nat
  BY EvidenceTyped
<1>4. /\ m - 1 \in 1..Len(EvidenceOf(r)) /\ before.kind = "body"
      /\ before.artifact = f.artifact
      /\ 1 < m /\ first.kind = "body" /\ \A a \in f.parents : a = first.artifact
  BY <1>1, <1>2, <1>3, TurnEvidence
<1>5. m - 1 \in 1..n /\ 1 \in 1..n /\ 1 \in 1..Len(EvidenceOf(r))
  BY <1>3, <1>4
<1>6. before \in artifacts'[r] /\ first \in artifacts'[r]
  BY <1>1, <1>2, <1>5, WrittenFiles
<1>7. OfTurn(first.artifact) /\ first.artifact.case = disk[r].case
  BY <1>2, <1>5, TurnEvidence
<1>8. Lies(r, f.artifact)'
  BY <1>4, <1>6 DEF Lies
<1>9. \A a \in f.parents : Lies(r, a)'
  BY <1>4, <1>6 DEF Lies
<1> QED
  BY <1>4, <1>7, <1>8, <1>9

\* The artifacts a completion will be derived from, once n files are written.
LEMMA TurnParents ==
    ASSUME SysInv, TypeInv, LeaseInv, FileInv, NEW r \in Runners, Answered(r, "turn"),
           NEW n \in 0..Len(EvidenceOf(r)), Writes(r, n), UNCHANGED leases,
           NEW c, c = disk[r].case, NEW a \in ParentsAfter(r, n)
    PROVE  Traced(r, c, a)'
<1>1. CASE a \in proc[r].parents
  <2>1. Traced(r, c, a)
    BY <1>1 DEF FileInv, ParentsSound, Answered
  <2> QED
    BY <2>1, TracesStay
<1>2. ASSUME NEW m \in 1..n, EvidenceOf(r)[m].kind = "manifest",
             a = EvidenceOf(r)[m].artifact
      PROVE  Traced(r, c, a)'
  <2>1. PICK f : f = EvidenceOf(r)[m]
    OBVIOUS
  <2>2. Lies(r, a)'
    BY <1>2, <2>1, NewTraces DEF Writes
  <2>3. m \in 1..Len(EvidenceOf(r))
    BY EvidenceTyped
  <2>4. a.case = c /\ OfTurn(a)
    BY <1>2, <2>1, <2>3, TurnEvidence
  <2> QED
    BY <2>2, <2>4 DEF Traced
<1> QED
  BY <1>1, <1>2 DEF ParentsAfter

\* Files stay sound, and what was traced stays so, while none is written.
LEMMA FilesKept ==
    ASSUME TypeInv, NEW r \in Runners, artifacts'[r] = artifacts[r],
           \A c : AtMostOnce(c)' => AtMostOnce(c),
           \A a \in Artifacts : RecordedAsFiled(a) => RecordedAsFiled(a)'
    PROVE  /\ \A c, a : Traced(r, c, a) => Traced(r, c, a)'
           /\ \A f \in artifacts'[r] : FileSound(r, f) => FileSound(r, f)'
<1>1. \A a : Lies(r, a)' <=> Lies(r, a)
  BY DEF Lies
<1>2. \A c, a : Traced(r, c, a) => Traced(r, c, a)'
  BY <1>1 DEF Traced
<1>3. ASSUME NEW f \in artifacts'[r], FileSound(r, f)
      PROVE  FileSound(r, f)'
  <2>1. f.artifact \in Artifacts
    BY DEF TypeInv, FilesTyped, Files
  <2> QED
    BY <1>1, <1>2, <1>3, <2>1 DEF FileSound
<1> QED
  BY <1>2, <1>3

\* What is written is sound, and what is kept beside it.
LEMMA WrittenSound ==
    ASSUME SysInv, TypeInv, LeaseInv, FileInv, NEW r \in Runners,
           NEW n \in 0..Len(EvidenceOf(r)), Writes(r, n), UNCHANGED <<cases, leases>>,
           NEW f \in artifacts'[r]
    PROVE  FileSound(r, f)'
<1>1. \A c : AtMostOnce(c)' <=> AtMostOnce(c)
  BY DEF AtMostOnce, Grants
<1>2. \A a : RecordedAsFiled(a)' <=> RecordedAsFiled(a)
  BY DEF RecordedAsFiled
<1>3. CASE f \in artifacts[r]
  <2>1. FileSound(r, f)
    BY <1>3 DEF FileInv
  <2>2. \A a \in f.parents : Traced(r, f.artifact.case, a) => Traced(r, f.artifact.case, a)'
    BY TracesStay
  <2>3. OfTurn(f.artifact) /\ AtMostOnce(f.artifact.case) /\ Lies(r, f.artifact)
        => Lies(r, f.artifact)'
    BY BytesStay
  <2> QED
    BY <1>1, <1>2, <2>1, <2>2, <2>3 DEF FileSound
<1>4. ASSUME NEW m \in 1..n, f = EvidenceOf(r)[m], Answered(r, "turn")
      PROVE  FileSound(r, f)'
  <2>1. m \in 1..Len(EvidenceOf(r))
    BY <1>4, EvidenceTyped
  <2>2. OfTurn(f.artifact) /\ f.artifact.case = disk[r].case
    BY <1>4, <2>1, TurnEvidence
  <2>3. AtMostOnce(f.artifact.case) => RecordedAsFiled(f.artifact)
    BY <1>4, <2>1, <2>2, RecordedEvidence DEF Writes
  <2>4. f.kind = "manifest" =>
          /\ Lies(r, f.artifact)'
          /\ \A a \in f.parents : Lies(r, a)' /\ OfTurn(a) /\ a.case = f.artifact.case
    BY <1>4, <2>2, NewTraces DEF Writes
  <2> QED
    BY <1>1, <1>2, <2>3, <2>4 DEF FileSound, Traced
<1>5. ASSUME NEW m \in 1..n, f = EvidenceOf(r)[m],
             Answered(r, "complete") \/ Answered(r, "failing")
      PROVE  FileSound(r, f)'
  <2>1. m \in 1..Len(EvidenceOf(r))
    BY <1>5, EvidenceTyped
  <2>2. /\ ~OfTurn(f.artifact) /\ f.artifact.case = disk[r].case
        /\ f.kind = "manifest" => f.parents = proc[r].parents
    BY <1>5, <2>1, ReportEvidence
  <2>3. PICK c : c = disk[r].case
    OBVIOUS
  <2>4. ASSUME NEW a \in proc[r].parents
        PROVE  Traced(r, c, a)'
    <3>1. Traced(r, c, a)
      BY <1>5, <2>3 DEF FileInv, ParentsSound, Answered
    <3> QED
      BY <3>1, TracesStay
  <2> QED
    BY <2>2, <2>3, <2>4 DEF FileSound
<1> QED
  BY <1>3, <1>4, <1>5, WrittenFiles DEF Writes


-----------------------------------------------------------------------------
(* The invariant of the files *)

\* The files of all runners are sound after a step of r.
LEMMA FilesAfter ==
    ASSUME SysInv, TypeInv, LeaseInv, FileInv, NEW r \in Runners,
           Proceed(r) \/ Crash(r), UNCHANGED <<cases, leases>>,
           NEW q \in Runners
    PROVE  /\ \A f \in artifacts'[q] : FileSound(q, f)'
           /\ \A c, a : Traced(q, c, a) => Traced(q, c, a)'
<1>1. /\ \A c : AtMostOnce(c)' <=> AtMostOnce(c)
      /\ \A a : RecordedAsFiled(a)' <=> RecordedAsFiled(a)
  BY DEF AtMostOnce, Grants, RecordedAsFiled
<1>2. CASE artifacts'[q] = artifacts[q]
  BY <1>1, <1>2, FilesKept DEF FileInv
<1>3. CASE q = r /\ \E n \in 0..Len(EvidenceOf(r)) : Writes(r, n)
  BY <1>3, WrittenSound, TracesStay
<1> QED
  BY <1>2, <1>3, EvidenceWritten, WrittenFiles DEF Writes

\* A process that is in no case has nothing to derive a completion from.
LEMMA RestParents ==
    ASSUME SysInv, FileInv, NEW r \in Runners, Boot(r) \/ Rests(r) \/ Begins(r)
    PROVE  ParentsSound(r)'
<1>1. Typed
  BY DEF SysInv, StateSound
<1>2. CASE Boot(r)
  <2>1. proc'[r].parents = {}
    BY <1>1, <1>2, BootMoves
  <2> QED
    BY <2>1 DEF ParentsSound
<1>3. CASE Rests(r)
  <2>1. proc'[r].parents = {}
    BY <1>1, <1>3, RestMoves, AtRest
  <2> QED
    BY <2>1 DEF ParentsSound
<1>4. CASE Begins(r)
  <2>1. proc[r].parents = {}
    BY <1>4, BeginMoves DEF FileInv, ParentsSound, Leased
  <2>2. proc'[r].parents = {}
    BY <1>4, <2>1, BeginMoves, AtRest
  <2> QED
    BY <2>2 DEF ParentsSound
<1> QED
  BY <1>2, <1>3, <1>4

\* What runner r goes on to derive a completion from is of its case.
LEMMA NextParents ==
    ASSUME NEW r \in Runners, proc'[r].at \in {"send", "turn", "complete", "failing"},
           NEW c, c = disk'[r].case, \A a \in proc'[r].parents : Traced(r, c, a)'
    PROVE  ParentsSound(r)'
BY DEF ParentsSound, At, Traced, Lies, AtMostOnce, Grants

\* What is saved of the turn that is sent is the submission alone.
LEMMA SendKeeps ==
    ASSUME SysInv, NEW r \in Runners, Send(r)
    PROVE  /\ disk'[r].case = disk[r].case /\ disk'[r].phase = "turn"
           /\ disk'[r].pending = disk[r].pending
<1>1. \A s : \A ckpt \in Checkpoints : LET saved == [ckpt EXCEPT !.submission = s] IN
         saved.case = ckpt.case /\ saved.phase = ckpt.phase /\ saved.pending = ckpt.pending
  BY DEF Checkpoints
<1>2. disk[r] \in Checkpoints /\ disk[r].phase = "turn"
  BY SendMoves, InTurnsParts DEF Sound
<1>3. PICK s : s = proc'[r].request
  OBVIOUS
<1>4. disk'[r] = [disk[r] EXCEPT !.submission = s]
  BY <1>3, SendMoves
<1> QED
  BY <1>1, <1>2, <1>4

LEMMA StepParents ==
    ASSUME SysInv, TypeInv, LeaseInv, FileInv, NEW r \in Runners,
           Proceed(r), UNCHANGED <<cases, leases>>
    PROVE  ParentsSound(r)'
<1>1. PICK c : c = disk[r].case
  OBVIOUS
<1>2. \A a : Traced(r, c, a) => Traced(r, c, a)'
  BY FilesAfter
<1>3. At(r, "send") \/ At(r, "turn") \/ At(r, "complete") =>
         \A a \in proc[r].parents : Traced(r, c, a)'
  BY <1>1, <1>2 DEF FileInv, ParentsSound
<1>4. CASE Send(r)
  <2>1. disk'[r].case = c
    BY <1>1, <1>4, SendKeeps
  <2>2. proc'[r].at = "turn" /\ proc'[r].parents = proc[r].parents /\ At(r, "send")
    BY <1>4, SendMoves
  <2> QED
    BY <1>3, <2>1, <2>2, NextParents
<1>5. CASE TurnContinues(r) \/ TurnFinishes(r)
  <2>1. PICK n : n = Len(EvidenceOf(r))
    OBVIOUS
  <2>2. /\ Answered(r, "turn") /\ Succeeded(r) /\ WriteFirst(r, n)
        /\ disk'[r].case = c /\ proc'[r].at \in {"send", "complete"}
        /\ proc'[r].parents = ParentsAfter(r, n)
    BY <1>1, <1>5, <2>1, ContinueMoves, FinishMoves DEF WriteAll
  <2>3. n \in 0..Len(EvidenceOf(r)) /\ Writes(r, n)
    BY <2>1, <2>2, EvidenceTyped DEF Writes
  <2>4. \A a \in proc'[r].parents : Traced(r, c, a)'
    BY <1>1, <2>2, <2>3, TurnParents
  <2> QED
    BY <2>2, <2>4, NextParents
<1>6. ASSUME NEW parents, FailCase(r, parents),
             At(r, "send") \/ At(r, "turn") \/ At(r, "complete"),
             \A a \in parents : Traced(r, c, a)'
      PROVE  ParentsSound(r)'
  <2>1. proc[r].entry.case = c
    BY <1>1, <1>6 DEF LeaseInv, RunnerLeases, Bound
  <2>2. disk'[r].case = c /\ proc'[r].at = "failing" /\ proc'[r].parents = parents
    BY <1>6, <2>1, FailMoves
  <2> QED
    BY <1>6, <2>2, NextParents
<1>7. CASE SendRaises(r)
  BY <1>3, <1>6, <1>7 DEF SendRaises
<1>8. CASE CallErrors(r)
  <2>1. CASE FailCase(r, proc[r].parents) /\ (Answered(r, "turn") \/ Answered(r, "complete"))
    BY <1>3, <1>6, <2>1 DEF Answered
  <2>2. ASSUME NEW n \in 0..Len(EvidenceOf(r)), Answered(r, "turn"),
               RaisesAfterAnswer(r, n), FailCase(r, ParentsAfter(r, n))
        PROVE  ParentsSound(r)'
    <3>1. Writes(r, n)
      BY <2>2 DEF RaisesAfterAnswer, Writes
    <3>2. \A a \in ParentsAfter(r, n) : Traced(r, c, a)'
      BY <1>1, <2>2, <3>1, TurnParents
    <3> QED
      BY <1>6, <2>2, <3>2 DEF Answered
  <2> QED
    BY <1>8, <2>1, <2>2 DEF CallErrors
<1> QED
  BY <1>4, <1>5, <1>7, <1>8, RestParents DEF Proceed, Rests, Begins

\* Nothing is written, and every process stays where it is.
LEMMA QuietFiles ==
    ASSUME TypeInv, FileInv, artifacts' = artifacts, disk' = disk,
           \A r \in Runners : proc'[r].at = proc[r].at /\ proc'[r].parents = proc[r].parents,
           \A c : AtMostOnce(c)' => AtMostOnce(c),
           \A a \in Artifacts : RecordedAsFiled(a) => RecordedAsFiled(a)'
    PROVE  FileInv'
<1> SUFFICES ASSUME NEW r \in Runners
             PROVE  (\A f \in artifacts'[r] : FileSound(r, f)') /\ ParentsSound(r)'
  BY DEF FileInv
<1>1. /\ \A f \in artifacts'[r] : FileSound(r, f)'
      /\ \A c, a : Traced(r, c, a) => Traced(r, c, a)'
  BY FilesKept DEF FileInv
<1>2. PICK c : c = disk[r].case
  OBVIOUS
<1>3. \A at : At(r, at)' <=> At(r, at)
  BY DEF At
<1>4. CASE proc[r].at \in {"send", "turn", "complete", "failing"}
  <2>1. \A a \in proc'[r].parents : Traced(r, c, a)'
    BY <1>1, <1>2, <1>4 DEF FileInv, ParentsSound, At
  <2> QED
    BY <1>1, <1>2, <1>4, <2>1, NextParents
<1>5. CASE ~(proc[r].at \in {"send", "turn", "complete", "failing"})
  BY <1>1, <1>3, <1>5 DEF FileInv, ParentsSound, At
<1> QED
  BY <1>4, <1>5

\* A step of the orchestrator takes nothing back that was recorded.
LEMMA ServedFiles ==
    ASSUME SysInv, SysInv', TypeInv, FileInv, NEW req, Served(req), artifacts' = artifacts,
           \A r \in Runners : proc'[r].at = proc[r].at /\ proc'[r].parents = proc[r].parents
    PROVE  FileInv'
<1>1. \A c : AtMostOnce(c)' => AtMostOnce(c)
  BY GrantsGrow DEF Served
<1>2. ASSUME NEW a \in Artifacts, RecordedAsFiled(a)
      PROVE  RecordedAsFiled(a)'
  <2>1. PICK n : n = a.stem[2]
    OBVIOUS
  <2>2. PICK c : c = a.case
    OBVIOUS
  <2>3. c \in Cases /\ n \in Nat
    BY <2>1, <2>2 DEF Artifacts
  <2>4. /\ Len(cases[c].turns) \in Nat /\ Len(cases'[c].turns) \in Nat
        /\ Len(cases[c].turns) <= Len(cases'[c].turns)
        /\ \A m \in 1..Len(cases[c].turns) : cases'[c].turns[m] = cases[c].turns[m]
    BY <2>3, ServedTurns
  <2>5. n < Len(cases[c].turns) /\ cases[c].turns[n + 1].event = a.content
    BY <1>2, <2>1, <2>2 DEF RecordedAsFiled
  <2>6. n + 1 \in 1..Len(cases[c].turns) /\ n < Len(cases'[c].turns)
    BY <2>3, <2>4, <2>5
  <2>7. cases'[c].turns[n + 1].event = a.content
    BY <2>4, <2>5, <2>6
  <2> QED
    BY <2>1, <2>2, <2>6, <2>7 DEF RecordedAsFiled
<1>3. disk' = disk
  BY DEF Served
<1> QED
  BY <1>1, <1>2, <1>3, QuietFiles

LEMMA NextFiles ==
    ASSUME SysInv, SysInv', TypeInv, LeaseInv, FileInv, [Next]_vars
    PROVE  FileInv'
<1>1. Typed
  BY DEF SysInv, StateSound
<1>2. ASSUME NEW r \in Runners, Start(r) \/ Step(r) \/ Killed(r)
      PROVE  FileInv'
  <2>1. Boot(r) \/ Proceed(r) \/ Crash(r)
    BY <1>2 DEF Start, Step, Killed
  <2>2. UNCHANGED <<cases, leases>>
    BY <1>2 DEF Start, Step, Killed, serverVars
  <2>3. ASSUME NEW q \in Runners
        PROVE  /\ \A f \in artifacts'[q] : FileSound(q, f)'
               /\ \A c, a : Traced(q, c, a) => Traced(q, c, a)'
    <3>1. /\ \A c : AtMostOnce(c)' <=> AtMostOnce(c)
          /\ \A a : RecordedAsFiled(a)' <=> RecordedAsFiled(a)
      BY <2>2 DEF AtMostOnce, Grants, RecordedAsFiled
    <3>2. CASE Boot(r)
      <4>1. artifacts' = artifacts
        BY <3>2 DEF Boot
      <4> QED
        BY <3>1, <4>1, FilesKept DEF FileInv
    <3> QED
      BY <2>1, <2>2, <3>2, FilesAfter
  <2>4. ParentsSound(r)'
    BY <2>1, <2>2, RestParents, StepParents DEF Rests
  <2>5. ASSUME NEW q \in Runners \ {r}
        PROVE  ParentsSound(q)'
    <3>1. disk'[q] = disk[q] /\ proc'[q] = proc[q]
      BY <1>1, <2>1, OthersKeep
    <3>2. PICK c : c = disk[q].case
      OBVIOUS
    <3>3. CASE proc[q].at \in {"send", "turn", "complete", "failing"}
      <4>1. \A a \in proc'[q].parents : Traced(q, c, a)'
        BY <2>3, <3>1, <3>2, <3>3 DEF FileInv, ParentsSound, At
      <4> QED
        BY <3>1, <3>2, <3>3, <4>1, NextParents
    <3>4. CASE ~(proc[q].at \in {"send", "turn", "complete", "failing"})
      BY <3>1, <3>4 DEF FileInv, ParentsSound, At
    <3> QED
      BY <3>3, <3>4
  <2> QED
    BY <2>3, <2>4, <2>5 DEF FileInv
<1>3. ASSUME NEW r \in Runners, AttemptFails(r)
      PROVE  FileInv'
  <2>1. /\ UNCHANGED <<cases, leases, disk, artifacts>>
        /\ proc'[r].at = proc[r].at /\ proc'[r].parents = proc[r].parents
    BY <1>3, AttemptMoves DEF AttemptFails, serverVars
  <2>2. \A q \in Runners \ {r} : proc'[q] = proc[q]
    BY <1>3, RunnerLocal DEF Local
  <2>3. /\ \A c : AtMostOnce(c)' <=> AtMostOnce(c)
        /\ \A a : RecordedAsFiled(a)' <=> RecordedAsFiled(a)
    BY <2>1 DEF AtMostOnce, Grants, RecordedAsFiled
  <2> QED
    BY <2>1, <2>2, <2>3, QuietFiles
<1>4. ASSUME NEW r \in Runners, Serve(r)
      PROVE  FileInv'
  <2>1. PICK reply : Served(proc[r].request) /\ Answering(r, reply)
    BY <1>4, ServeServed
  <2>2. PICK req : req = proc[r].request
    OBVIOUS
  <2>3. artifacts' = artifacts
    BY <1>4 DEF Serve
  <2>4. \A q \in Runners : proc'[q].at = proc[q].at /\ proc'[q].parents = proc[q].parents
    BY <2>1 DEF Answering
  <2> QED
    BY <2>1, <2>3, <2>4, ServedFiles
<1>5. CASE LateArrives \/ Tick \/ \E r \in Runners : Beat(r)
  BY <1>5, SilentServed, ServedFiles
<1>6. CASE UNCHANGED vars
  <2>1. UNCHANGED <<cases, leases, disk, proc, artifacts>>
    BY <1>6 DEF vars, loopVars, serverVars
  <2>2. /\ \A c : AtMostOnce(c)' <=> AtMostOnce(c)
        /\ \A a : RecordedAsFiled(a)' <=> RecordedAsFiled(a)
    BY <2>1 DEF AtMostOnce, Grants, RecordedAsFiled
  <2> QED
    BY <2>1, <2>2, QuietFiles
<1> QED
  BY <1>2, <1>3, <1>4, <1>5, <1>6 DEF Next

LEMMA InitFiles == Init => FileInv
BY AtRest DEF Init, InitLoop, FileInv, ParentsSound, At

\* What the files of every runner say is so, and what a completion would be
\* derived from lies on disk.
LEMMA FilesHold == Spec => [](TypeInv /\ FileInv)
<1>1. Init => TypeInv /\ FileInv
  BY InitTyped, InitFiles
<1>2. SysInv /\ SysInv' /\ LeaseInv /\ TypeInv /\ FileInv /\ [Next]_vars
      => TypeInv' /\ FileInv'
  BY NextTyped, NextFiles
<1> QED
  BY <1>1, <1>2, SystemInvariance, LeasesHold, PTL DEF Spec

-----------------------------------------------------------------------------
(* What follows from it *)

\* A case with exactly one lease has not been granted twice.
LEMMA OnceIsAtMostOnce ==
    ASSUME SysInv, NEW c, GrantedOnce(c)
    PROVE  AtMostOnce(c)
<1>1. leases \in Seq(Http!Lease)
  BY DEF SysInv, StateSound, Http!IInv, Http!StateInv
<1>2. IsFiniteSet(Grants(c))
  <2>1. DOMAIN leases = 1..Len(leases) /\ Len(leases) \in Nat
    BY <1>1
  <2>2. IsFiniteSet(1..Len(leases))
    BY <2>1, FS_Interval
  <2> QED
    BY <2>1, <2>2, FS_Subset DEF Grants
<1>3. PICK t : Grants(c) = {t}
  BY <1>2, FS_Singleton DEF GrantedOnce
<1> QED
  BY <1>3 DEF AtMostOnce

\* As long as a case has not been granted again, the turns and observations kept
\* of it are the recorded ones, whatever else goes wrong, for any number of
\* runners, kills, faults and retries.
THEOREM EvidenceOfFirstLease == Spec => []FirstLeaseEvidence
<1>1. SysInv /\ FileInv => FirstLeaseEvidence
  <2> SUFFICES ASSUME SysInv, FileInv, NEW r \in Runners,
                      NEW a \in Kept(r, "body", "turn") \union Kept(r, "body", "observations"),
                      GrantedOnce(a.case)
               PROVE  RecordedAsFiled(a)
    BY DEF FirstLeaseEvidence
  <2>1. PICK f \in artifacts[r] : /\ f.kind = "body" /\ f.artifact = a
                                  /\ a.stem[1] \in {"turn", "observations"}
    BY DEF Kept
  <2>2. AtMostOnce(a.case)
    BY OnceIsAtMostOnce
  <2> QED
    BY <2>1, <2>2 DEF FileInv, FileSound, OfTurn
<1> QED
  BY <1>1, FilesHold, SystemInvariance, PTL

\* As long as a case has not been granted again, every manifest of it leads back
\* to bytes that lie beside it, however many processes were killed between the
\* writing of the two.
THEOREM LineageLeadsToBytes == Spec => []LineageResolves
<1>1. SysInv /\ TypeInv /\ FileInv => LineageResolves
  <2> SUFFICES ASSUME SysInv, TypeInv, FileInv, NEW r \in Runners, NEW f \in artifacts[r],
                      f.kind = "manifest", GrantedOnce(f.artifact.case)
               PROVE  /\ f.artifact.stem[1] # "completion" => Lies(r, f.artifact)
                      /\ \A a \in f.parents : Lies(r, a)
    BY DEF LineageResolves, Lies
  <2>1. AtMostOnce(f.artifact.case)
    BY OnceIsAtMostOnce
  <2>2. f.artifact.stem[1] \in {"turn", "observations", "completion"}
    BY DEF TypeInv, FilesTyped, Files, Artifacts
  <2> QED
    BY <2>1, <2>2 DEF FileInv, FileSound, OfTurn, Traced
<1> QED
  BY <1>1, FilesHold, SystemInvariance, PTL

-----------------------------------------------------------------------------
(* What a completion is derived from *)

\* The stems of what is filed of turn n of case c, and of the turns before it.
StemsAt(c, n) ==
    {<<"turn", n>>} \union IF <<c, n>> \in Observed THEN {<<"observations", n>>} ELSE {}

StemsBefore(c, n) ==
    {<<"turn", m>> : m \in 0..n - 1}
    \union {<<"observations", o[2]>> : o \in {p \in Observed : p[1] = c /\ p[2] < n}}

StemsOf(arts) == {a.stem : a \in arts}

\* A case granted only once that will never be completed.
Barren(c) == AtMostOnce(c) => cases[c].lease = 0 /\ ~Sealed(c)

\* The runner has saved the report that its case ran to the end.
ReportsTheEnd(r) ==
    disk[r] # None /\ disk[r].phase = "complete" /\ disk[r].submission.outcome = "completed"

\* As long as no process is killed, the process that reports the end of a case
\* is the one that went through all of its turns, or the report is in vain.
Whole(r) ==
    /\ At(r, "send") \/ At(r, "turn") =>
         StemsOf(proc[r].parents) = StemsBefore(disk[r].case, disk[r].pending)
    /\ ReportsTheEnd(r) =>
         \/ /\ At(r, "complete")
            /\ StemsOf(proc[r].parents) = StemsBefore(disk[r].case, TurnCount[disk[r].case])
         \/ Barren(disk[r].case)
    /\ InTurns(r) /\ (At(r, "off") \/ At(r, "resume")) =>
         disk[r].case \in Refused \/ cases[disk[r].case].lease # disk[r].lease
    /\ At(r, "resume") /\ proc[r].answer # None /\ Succeeded(r) => disk[r].case \in Refused
    /\ At(r, "complete") /\ proc[r].answer # None /\ LeaseLost(r) => Barren(disk[r].case)
    /\ At(r, "failing") => proc[r].request.outcome = "execution_failed"

WholeFile(f) ==
    /\ f.kind = "manifest" /\ AtMostOnce(f.artifact.case)
    /\ f.artifact.content = [outcome |-> "completed"]
    => StemsOf(f.parents) = StemsBefore(f.artifact.case, TurnCount[f.artifact.case])

\* The third invariant, beside that of the files.
WholeInv ==
    /\ spent \in Spent
    /\ spent.crashes = 0 =>
         \A r \in Runners : Whole(r) /\ \A f \in artifacts[r] : WholeFile(f)

-----------------------------------------------------------------------------
(* Stems *)

LEMMA NoStems ==
    ASSUME NEW c
    PROVE  StemsBefore(c, 0) = {}
BY ObservedAssumption DEF StemsBefore

LEMMA StemsGrow ==
    ASSUME NEW c \in Cases, NEW n \in Nat
    PROVE  StemsBefore(c, n + 1) = StemsBefore(c, n) \union StemsAt(c, n)
<1> DEFINE turns(k) == {<<"turn", m>> : m \in 0..k - 1}
           seen(k) == {<<"observations", o[2]>> : o \in {p \in Observed : p[1] = c /\ p[2] < k}}
<1>1. turns(n + 1) = turns(n) \union {<<"turn", n>>}
  <2>1. 0..(n + 1) - 1 = (0..n - 1) \union {n}
    OBVIOUS
  <2> QED
    BY <2>1
<1>2. {p \in Observed : p[1] = c /\ p[2] < n + 1}
      = {p \in Observed : p[1] = c /\ p[2] < n}
        \union IF <<c, n>> \in Observed THEN {<<c, n>>} ELSE {}
  <2>1. \A p \in Observed : /\ p = <<p[1], p[2]>> /\ p[2] \in Nat
                            /\ p[2] < n + 1 <=> p[2] < n \/ p[2] = n
    BY ObservedAssumption
  <2> QED
    BY <2>1
<1>3. seen(n + 1) = seen(n) \union IF <<c, n>> \in Observed THEN {<<"observations", n>>} ELSE {}
  BY <1>2
<1> QED
  BY <1>1, <1>3 DEF StemsBefore, StemsAt

LEMMA AllStems ==
    ASSUME NEW c \in Cases
    PROVE  StemsBefore(c, TurnCount[c]) =
              {<<"turn", n>> : n \in 0..TurnCount[c] - 1}
              \union {<<"observations", o[2]>> : o \in {p \in Observed : p[1] = c}}
<1>1. {p \in Observed : p[1] = c /\ p[2] < TurnCount[c]} = {p \in Observed : p[1] = c}
  BY ObservedAssumption
<1> QED
  BY <1>1 DEF StemsBefore

\* Once all of a turn is filed, what a completion is derived from names it all.
LEMMA FiledStems ==
    ASSUME SysInv, TypeInv, NEW r \in Runners, Answered(r, "turn"),
           NEW n, n = Len(EvidenceOf(r))
    PROVE  StemsOf(ParentsAfter(r, n))
           = StemsOf(proc[r].parents) \union StemsAt(disk[r].case, disk[r].pending)
<1>1. PICK req : req = proc[r].request
  OBVIOUS
<1>2. /\ req = disk[r].submission /\ req.op = "turn" /\ req.case = disk[r].case
      /\ req.sequence = disk[r].pending /\ disk[r].submission # None
  BY <1>1, InTurnsParts DEF Answered, SysInv, ProcSound, At, SavedTurn
<1>3. req \in TurnRequests
  <2>1. req \in Requests
    BY <1>2, InTurnsParts DEF Answered, Sound, Good
  <2> QED
    BY <1>2, <2>1, RequestKinds
<1> DEFINE turn == Artifact(req.case, <<"turn", req.sequence>>, req.output)
           seen == Artifact(req.case, <<"observations", req.sequence>>, req.output)
<1>4. /\ turn \in Artifacts /\ turn.stem = <<"turn", req.sequence>>
      /\ seen \in Artifacts /\ seen.stem = <<"observations", req.sequence>>
  BY <1>3 DEF TurnRequests, Artifact, Artifacts
<1>5. EvidenceOf(r) = FilePair(turn, {})
                      \o IF <<req.case, req.sequence>> \in Observed
                         THEN FilePair(seen, {turn}) ELSE << >>
  BY <1>1, <1>2 DEF EvidenceOf, TurnFiles
<1> HIDE DEF turn, seen
<1>6. PICK first : first = FilePair(turn, {})
  OBVIOUS
<1>7. PICK second : second = FilePair(seen, {turn})
  OBVIOUS
<1>8. /\ first \in Seq(Files) /\ Len(first) = 2 /\ first[1].kind = "body"
      /\ first[2].kind = "manifest" /\ first[2].artifact = turn
  BY <1>4, <1>6, FilePairParts
<1>9. /\ second \in Seq(Files) /\ Len(second) = 2 /\ second[1].kind = "body"
      /\ second[2].kind = "manifest" /\ second[2].artifact = seen
  BY <1>4, <1>7, FilePairParts
<1>10. PICK files : files = EvidenceOf(r)
  OBVIOUS
<1>11. ParentsAfter(r, n) = proc[r].parents \union
          {files[m].artifact : m \in {k \in 1..n : files[k].kind = "manifest"}}
  BY <1>10 DEF ParentsAfter
<1>12. CASE <<req.case, req.sequence>> \in Observed
  <2>1. files = first \o second
    BY <1>5, <1>6, <1>7, <1>10, <1>12
  <2>2. /\ n = 4 /\ files[1] = first[1] /\ files[2] = first[2]
        /\ files[3] = second[1] /\ files[4] = second[2]
    BY <1>8, <1>9, <1>10, <2>1, PairAfterPair
  <2>3. {k \in 1..n : files[k].kind = "manifest"} = {2, 4}
    <3>1. 1..n = {1, 2, 3, 4}
      BY <2>2
    <3> QED
      BY <1>8, <1>9, <2>2, <3>1
  <2>4. ParentsAfter(r, n) = proc[r].parents \union {turn, seen}
    BY <1>8, <1>9, <1>11, <2>2, <2>3
  <2> QED
    BY <1>2, <1>4, <1>12, <2>4 DEF StemsOf, StemsAt
<1>13. CASE <<req.case, req.sequence>> \notin Observed
  <2>1. files = first
    BY <1>5, <1>6, <1>8, <1>10, <1>13, ConcatEmptySeq
  <2>2. {k \in 1..n : files[k].kind = "manifest"} = {2}
    <3>1. n = 2
      BY <1>8, <1>10, <2>1
    <3>2. 1..n = {1, 2}
      BY <3>1
    <3> QED
      BY <1>8, <2>1, <3>2
  <2>3. ParentsAfter(r, n) = proc[r].parents \union {turn}
    BY <1>8, <1>11, <2>1, <2>2
  <2> QED
    BY <1>2, <1>4, <1>13, <2>3 DEF StemsOf, StemsAt
<1> QED
  BY <1>12, <1>13

\* No step adds to the kills but a kill.
LEMMA KillsGrow ==
    ASSUME spent \in Spent, [Next]_vars
    PROVE  spent' \in Spent /\ (spent'.crashes = 0 =>
              spent.crashes = 0 /\ \A r \in Runners : ~Killed(r))
<1>1. \/ spent' = spent
      \/ spent' = [spent EXCEPT !.crashes = @ + 1]
      \/ spent' = [spent EXCEPT !.faults = @ + 1]
      \/ spent' = [spent EXCEPT !.ticks = @ + 1]
  BY DEF Next, vars, Start, Step, Serve, Beat, AttemptFails, Killed, LateArrives, Tick
<1>2. ASSUME NEW r \in Runners, Killed(r)
      PROVE  spent'.crashes = spent.crashes + 1
  BY <1>2 DEF Killed, Spent
<1>3. spent' \in Spent /\ spent'.crashes \in {spent.crashes, spent.crashes + 1}
  BY <1>1 DEF Spent
<1> QED
  BY <1>2, <1>3 DEF Spent

-----------------------------------------------------------------------------
(* Steps of the orchestrator *)

\* What r works on has been granted, and the completion of it, once it is given
\* up for good, never comes.
LEMMA BarrenStays ==
    ASSUME SysInv, SysInv', NEW req, Served(req), NEW r \in Runners,
           NEW c \in Cases, NEW t, Http!Named(r, c, t), Barren(c)
    PROVE  Barren(c)'
<1> SUFFICES ASSUME AtMostOnce(c)'
             PROVE  cases'[c].lease = 0 /\ cases'[c].completion = None
  BY DEF Barren, Sealed
<1>1. Http!LeaseStep /\ Http!IInv'
  BY DEF Served, SysInv, StateSound
<1>2. AtMostOnce(c) /\ Grants(c) # {}
  BY <1>1, GrantsGrow DEF Http!Named, Grants
<1>3. cases[c].lease = 0 /\ cases[c].completion = None
  BY <1>2 DEF Barren, Sealed
<1>4. cases'[c].lease \in {0, cases[c].lease}
  BY <1>1, <1>2, NoSecondLease
<1> QED
  BY <1>1, <1>3, <1>4 DEF Http!LeaseStep, Http!LeaseMoves

\* What runner r has, whatever it is answered, once it is known what that means.
LEMMA ServedWhole ==
    ASSUME SysInv, SysInv', LeaseInv, NEW req, Served(req), NEW r \in Runners, Whole(r),
           proc'[r].at = proc[r].at, proc'[r].parents = proc[r].parents,
           At(r, "resume") =>
              ((proc[r].answer # None /\ Succeeded(r))' => disk[r].case \in Refused),
           At(r, "complete") =>
              ((proc[r].answer # None /\ LeaseLost(r))' => Barren(disk[r].case)')
    PROVE  Whole(r)'
<1>1. Http!LeaseStep /\ disk' = disk /\ proc'[r].request = proc[r].request
  BY DEF Served
<1>2. \A at : At(r, at)' <=> At(r, at)
  BY DEF At
<1>3. PICK c : c = disk[r].case
  OBVIOUS
<1>4. disk[r] # None => /\ c \in Cases /\ disk[r].lease \in Nat \ {0}
                        /\ Http!Named(r, c, disk[r].lease)
  BY <1>3 DEF LeaseInv, RunnerLeases, Bound, SysInv, StateSound, DiskSound, Sound, Checkpoints
<1>5. ASSUME ReportsTheEnd(r), Barren(c)
      PROVE  Barren(c)'
  BY <1>4, <1>5, BarrenStays DEF ReportsTheEnd
<1>6. ASSUME InTurns(r), cases[c].lease # disk[r].lease
      PROVE  cases'[c].lease # disk[r].lease
  BY <1>1, <1>4, <1>6, LostStaysLost DEF InTurns
<1>7. /\ At(r, "complete") /\ (proc[r].answer # None /\ LeaseLost(r))' => Barren(disk[r].case)'
      /\ Barren(c)' <=> Barren(disk[r].case)'
  BY <1>1, <1>3 DEF Barren, AtMostOnce, Grants, Sealed
<1>8. /\ ReportsTheEnd(r)' <=> ReportsTheEnd(r)
      /\ InTurns(r)' <=> InTurns(r)
  BY <1>1 DEF ReportsTheEnd, InTurns
<1> QED
  BY <1>1, <1>2, <1>3, <1>5, <1>6, <1>7, <1>8 DEF Whole

\* A runner that is not answered.
LEMMA UnansweredWhole ==
    ASSUME SysInv, SysInv', LeaseInv, NEW req, Served(req),
           NEW q \in Runners, Whole(q), proc'[q] = proc[q]
    PROVE  Whole(q)'
<1>1. /\ (proc[q].answer # None /\ Succeeded(q))' <=> proc[q].answer # None /\ Succeeded(q)
      /\ (proc[q].answer # None /\ LeaseLost(q))' <=> proc[q].answer # None /\ LeaseLost(q)
  BY DEF Succeeded, LeaseLost
<1>2. ASSUME At(q, "complete"), proc[q].answer # None, LeaseLost(q)
      PROVE  Barren(disk[q].case)'
  <2>1. PICK c : c = disk[q].case
    OBVIOUS
  <2>2. disk[q] # None
    BY <1>2 DEF SysInv, ProcSound, Completing
  <2>3. c \in Cases /\ Http!Named(q, c, disk[q].lease)
    BY <2>1, <2>2 DEF LeaseInv, RunnerLeases, Bound, SysInv, StateSound, DiskSound, Sound,
                      Checkpoints
  <2>4. Barren(c)'
    BY <1>2, <2>1, <2>3, BarrenStays DEF Whole
  <2> QED
    BY <2>1, <2>4 DEF Barren, AtMostOnce, Grants, Sealed, Served
<1>3. At(q, "resume") /\ proc[q].answer # None /\ Succeeded(q) => disk[q].case \in Refused
  BY DEF Whole
<1> QED
  BY <1>1, <1>2, <1>3, ServedWhole

LEMMA ServeWhole ==
    ASSUME SysInv, SysInv', LeaseInv, NEW r \in Runners, Serve(r), NEW q \in Runners, Whole(q)
    PROVE  Whole(q)'
<1> DEFINE req == proc[r].request
           reply == Http!Reply(RunnerKey, r, req)
<1>1. /\ Served(req) /\ Http!Serves(RunnerKey, r, req) /\ Http!WellFormed(req)
      /\ Answering(r, reply)
  BY ServeServed
<1>2. /\ Http!IInv /\ disk' = disk /\ proc[r].answer = None /\ Http!LeaseStep
  BY <1>1 DEF SysInv, StateSound, Served, Serve, Pending
<1>3. CASE q # r
  BY <1>1, <1>3, UnansweredWhole DEF Answering
<1>4. CASE q = r
  <2>1. /\ Succeeded(r)' <=> reply.verdict \in Http!Success
        /\ LeaseLost(r)' <=> reply.verdict \in Http!Lost
    BY <1>1 DEF Answering, Succeeded, LeaseLost, Http!Success, Http!Lost
  <2>2. /\ disk[r] # None => Sound(r, disk[r]) /\ disk[r].case \in Cases
        /\ disk[r] # None => Http!Named(r, disk[r].case, disk[r].lease)
        /\ disk[r] # None => disk[r].lease # 0
    BY DEF LeaseInv, RunnerLeases, Bound, SysInv, StateSound, DiskSound, Sound, Checkpoints
  <2>3. ASSUME At(r, "resume"), Succeeded(r)'
        PROVE  disk[r].case \in Refused
    <3>1. InTurns(r) /\ req = HeartbeatRequest(disk[r])
      BY <2>3 DEF SysInv, ProcSound, LeaseInv, RunnerLeases, Bound
    <3>2. req.op = "heartbeat" /\ req.case = disk[r].case /\ req.lease = disk[r].lease
      BY <3>1 DEF HeartbeatRequest
    <3>3. cases[req.case].lease = req.lease
      BY <1>1, <1>2, <2>1, <2>3, <3>2, HttpAssumptions, Http!BeatAnswered
    <3> QED
      BY <1>4, <2>3, <3>1, <3>2, <3>3 DEF Whole
  <2>4. ASSUME At(r, "complete"), LeaseLost(r)'
        PROVE  Barren(disk[r].case)'
    <3>1. PICK c : c = disk[r].case
      OBVIOUS
    <3>2. disk[r] # None /\ disk[r].phase = "complete" /\ req = disk[r].submission
      BY <2>4 DEF SysInv, ProcSound, Completing
    <3>3. /\ req.op = "complete" /\ req.case = c /\ req.lease = disk[r].lease
          /\ c \in Cases /\ req.lease # 0 /\ Http!Named(r, c, req.lease)
      BY <2>2, <3>1, <3>2 DEF Sound, LeaseInv, RunnerLeases, Bound
    <3>4. PICK t : t = req.lease
      OBVIOUS
    <3>5. /\ cases'[c].lease # t /\ cases'[c].completion = None
          /\ t \in Grants(c)
      BY <1>1, <1>2, <2>1, <2>4, <3>3, <3>4, HttpAssumptions, Http!LostAnswered
         DEF Http!Named, Grants
    <3>6. ASSUME AtMostOnce(c)'
          PROVE  cases'[c].lease = 0
      <4>1. Http!IInv'
        BY DEF SysInv, StateSound
      <4>2. cases'[c].lease # 0 => cases'[c].lease \in Grants(c)'
        BY <3>3, <4>1 DEF Http!IInv, Http!StateInv, Http!CaseInv, Http!HeldInv, Grants
      <4>3. t \in Grants(c)'
        BY <1>2, <3>5, GrantsGrow
      <4> QED
        BY <3>5, <3>6, <4>2, <4>3 DEF AtMostOnce
    <3> QED
      BY <1>2, <3>1, <3>5, <3>6 DEF Barren, AtMostOnce, Grants, Sealed
  <2>5. /\ proc'[r].at = proc[r].at /\ proc'[r].parents = proc[r].parents
    BY <1>1 DEF Answering
  <2> HIDE DEF req, reply
  <2> QED
    BY <1>1, <1>4, <2>3, <2>4, <2>5, ServedWhole
<1> QED
  BY <1>3, <1>4

-----------------------------------------------------------------------------
(* Steps of a runner *)

\* The actions by which a process leaves a case, or ends of its own.
Leaves(r) ==
    \/ ClaimEnds(r) \/ ResumeLost(r) \/ ResumeFails(r)
    \/ CompletionAccepted(r) \/ CaseLost(r)
    \/ FailureRecorded(r) \/ FailureUnwanted(r) \/ FailureEscapes(r)

\* Where a process may be that ends of its own and keeps its checkpoint.
LEMMA LeavesWhere ==
    ASSUME Typed, NEW r \in Runners, Leaves(r), disk'[r] # None
    PROVE  \/ At(r, "claim") \/ At(r, "resume") \/ At(r, "failing")
           \/ Answered(r, "turn") /\ LeaseLost(r)
           \/ Answered(r, "complete") /\ LeaseLost(r)
<1>1. ~LeaveCase(r)
  BY DEF LeaveCase, Typed
<1> QED
  BY <1>1 DEF Leaves, ClaimEnds, ResumeLost, ResumeFails, CompletionAccepted, CaseLost,
              FailureRecorded, FailureUnwanted, FailureEscapes, Answered

\* A process that has left its case, or ended.
LEMMA LeaveWhole ==
    ASSUME SysInv, LeaseInv, NEW r \in Runners, Local(r), Leaves(r), Whole(r)
    PROVE  Whole(r)'
<1>1. /\ proc'[r] \in {Off, Claiming} /\ disk'[r] \in {disk[r], None}
      /\ disk'[r] = None \/ proc'[r] = Off
  BY RestMoves DEF SysInv, StateSound, Leaves, Rests
<1>2. /\ proc'[r].at \in {"off", "claim"}
      /\ disk'[r] = None \/ proc'[r].at = "off"
  BY <1>1, AtRest, OffParts
<1>3. cases' = cases /\ leases' = leases
  BY DEF Local, serverVars
<1>4. CASE disk'[r] = None
  BY <1>2, <1>4 DEF Whole, At, ReportsTheEnd, InTurns
<1>5. CASE disk'[r] = disk[r] /\ disk[r] # None
  <2>1. PICK c : c = disk[r].case
    OBVIOUS
  <2>2. Barren(c)' <=> Barren(c)
    BY <1>3 DEF Barren, AtMostOnce, Grants, Sealed
  <2>3. proc'[r].at = "off"
    BY <1>2, <1>5
  <2>4. ReportsTheEnd(r) => Barren(c)
    <3>1. CASE At(r, "claim") \/ At(r, "resume")
      BY <1>5, <3>1 DEF LeaseInv, RunnerLeases, Bound, SysInv, ProcSound, InTurns, ReportsTheEnd
    <3>2. CASE At(r, "failing")
      BY <2>1, <3>2 DEF Whole, SysInv, ProcSound, Completing, ReportsTheEnd
    <3>3. CASE Answered(r, "turn") /\ LeaseLost(r)
      BY <3>3 DEF Answered, SysInv, ProcSound, InTurns, ReportsTheEnd
    <3>4. CASE Answered(r, "complete") /\ LeaseLost(r)
      BY <2>1, <3>4 DEF Answered, Whole
    <3> QED
      BY <1>5, <3>1, <3>2, <3>3, <3>4, LeavesWhere DEF SysInv, StateSound
  <2>5. InTurns(r) => c \in Refused \/ cases[c].lease # disk[r].lease
    <3>1. CASE At(r, "claim")
      BY <1>5, <3>1 DEF LeaseInv, RunnerLeases, Bound
    <3>2. CASE At(r, "resume")
      BY <2>1, <3>2 DEF Whole
    <3>3. CASE At(r, "failing") \/ Answered(r, "complete")
      BY <3>3 DEF Answered, SysInv, ProcSound, Completing, InTurns
    <3>4. CASE Answered(r, "turn") /\ LeaseLost(r)
      BY <2>1, <3>4 DEF Answered, LeaseInv, RunnerLeases, Told
    <3> QED
      BY <1>5, <3>1, <3>2, <3>3, <3>4, LeavesWhere DEF SysInv, StateSound
  <2> QED
    BY <1>3, <1>5, <2>1, <2>2, <2>3, <2>4, <2>5
       DEF Whole, At, ReportsTheEnd, InTurns, Barren, AtMostOnce, Grants, Sealed
<1> QED
  BY <1>1, <1>4, <1>5

LEMMA BootWhole ==
    ASSUME SysInv, LeaseInv, NEW r \in Runners, Local(r), Boot(r), Whole(r)
    PROVE  Whole(r)'
<1>1. cases' = cases /\ leases' = leases
  BY DEF Local, serverVars
<1>2. /\ disk'[r] = disk[r] /\ At(r, "off") /\ proc'[r].answer = None
      /\ proc'[r].at \in {"claim", "complete", "resume"}
      /\ proc'[r].at = "claim" => disk[r] = None
  <2>1. Claiming.at = "claim"
    BY OffParts, WaitingParts DEF Claiming
  <2> QED
    BY <2>1, BootMoves DEF SysInv, StateSound, At
<1>3. PICK c : c = disk[r].case
  OBVIOUS
<1>4. Barren(c)' <=> Barren(c)
  BY <1>1 DEF Barren, AtMostOnce, Grants, Sealed
<1>5. /\ ReportsTheEnd(r) => Barren(c)
      /\ InTurns(r) => c \in Refused \/ cases[c].lease # disk[r].lease
  BY <1>2, <1>3 DEF Whole, At
<1> QED
  BY <1>1, <1>2, <1>3, <1>4, <1>5
     DEF Whole, At, ReportsTheEnd, InTurns, Barren, AtMostOnce, Grants, Sealed

\* A case that is begun has all of its turns before it; one that is taken up
\* again could not be, if no process was killed.
LEMMA BeginWhole ==
    ASSUME SysInv, FileInv, NEW r \in Runners, Begins(r), Whole(r)
    PROVE  Whole(r)'
<1>1. disk'[r] # None /\ disk'[r].phase = "turn"
  BY BeginMoves DEF SysInv, ProcSound, InTurns
<1>2. CASE disk'[r].case \in Refused
  <2>1. proc'[r].at = "off"
    BY <1>2, BeginMoves, OffParts
  <2> QED
    BY <1>1, <1>2, <2>1 DEF Whole, At, ReportsTheEnd, InTurns
<1>3. CASE disk'[r].case \notin Refused
  <2>1. Leased(r)
    BY <1>3, BeginMoves DEF Whole
  <2>2. proc'[r].at = "send" /\ disk'[r].pending = 0 /\ proc'[r].parents = proc[r].parents
    BY <1>3, <2>1, BeginMoves DEF Leased, At
  <2>3. proc[r].parents = {}
    BY <2>1 DEF FileInv, ParentsSound, Leased
  <2>4. StemsOf(proc'[r].parents) = {}
    BY <2>2, <2>3 DEF StemsOf
  <2>5. StemsOf(proc[r].parents)' = StemsBefore(disk[r].case, disk[r].pending)'
    BY <2>2, <2>4, NoStems DEF StemsOf
  <2> QED
    BY <1>1, <2>2, <2>5 DEF Whole, At, ReportsTheEnd
<1> QED
  BY <1>2, <1>3

LEMMA SendWhole ==
    ASSUME SysInv, NEW r \in Runners, Send(r), Whole(r)
    PROVE  Whole(r)'
<1>1. /\ disk'[r].case = disk[r].case /\ disk'[r].phase = "turn"
      /\ disk'[r].pending = disk[r].pending
  BY SendKeeps
<1>2. proc'[r].at = "turn" /\ proc'[r].parents = proc[r].parents /\ At(r, "send")
  BY SendMoves
<1>3. StemsOf(proc'[r].parents) = StemsBefore(disk[r].case, disk[r].pending)
  BY <1>2 DEF Whole
<1> QED
  BY <1>1, <1>2, <1>3 DEF Whole, At, ReportsTheEnd, StemsOf, StemsBefore

LEMMA TurnWhole ==
    ASSUME SysInv, TypeInv, NEW r \in Runners, TurnContinues(r) \/ TurnFinishes(r), Whole(r)
    PROVE  Whole(r)'
<1>1. PICK c : c = disk[r].case
  OBVIOUS
<1>2. PICK k : k = disk[r].pending
  OBVIOUS
<1>3. PICK n : n = Len(EvidenceOf(r))
  OBVIOUS
<1>4. Answered(r, "turn") /\ proc'[r].parents = ParentsAfter(r, n)
  BY <1>3, ContinueMoves, FinishMoves
<1>5. c \in Cases /\ k \in Nat
  BY <1>1, <1>2, <1>4, InTurnsParts DEF Answered
<1>6. PICK parents : parents = proc'[r].parents
  OBVIOUS
<1>7. StemsOf(parents) = StemsBefore(c, k + 1)
  <2>1. StemsOf(proc[r].parents) = StemsBefore(c, k)
    BY <1>1, <1>2, <1>4 DEF Whole, Answered
  <2>2. StemsOf(ParentsAfter(r, n)) = StemsOf(proc[r].parents) \union StemsAt(c, k)
    BY <1>1, <1>2, <1>3, <1>4, FiledStems
  <2> QED
    BY <1>4, <1>5, <1>6, <2>1, <2>2, StemsGrow
<1>8. CASE TurnContinues(r)
  <2>1. /\ disk'[r].phase = "turn" /\ disk'[r].case = c /\ disk'[r].pending = k + 1
        /\ proc'[r].at = "send"
    BY <1>1, <1>2, <1>8, ContinueMoves
  <2> QED
    BY <1>6, <1>7, <2>1 DEF Whole, At, ReportsTheEnd, StemsOf, StemsBefore
<1>9. CASE TurnFinishes(r)
  <2>1. /\ disk'[r].phase = "complete" /\ disk'[r].case = c
        /\ proc'[r].at = "complete" /\ proc'[r].answer = None /\ k + 1 = TurnCount[c]
    BY <1>1, <1>2, <1>9, FinishMoves
  <2> QED
    BY <1>6, <1>7, <2>1 DEF Whole, At, ReportsTheEnd, InTurns, StemsOf, StemsBefore
<1> QED
  BY <1>8, <1>9

LEMMA FailWhole ==
    ASSUME SysInv, NEW r \in Runners, SendRaises(r) \/ CallErrors(r)
    PROVE  Whole(r)'
<1>1. /\ disk'[r].phase = "complete" /\ disk'[r].submission = proc'[r].request
      /\ proc'[r].request.outcome = "execution_failed" /\ proc'[r].at = "failing"
  BY CallErrorsFails, FailMoves
<1> QED
  BY <1>1 DEF Whole, At, ReportsTheEnd, InTurns

LEMMA AttemptWhole ==
    ASSUME SysInv, SysInv', NEW r \in Runners, AttemptFails(r), NEW q \in Runners, Whole(q)
    PROVE  Whole(q)'
<1>1. /\ disk' = disk /\ cases' = cases /\ leases' = leases
      /\ proc'[r].at = proc[r].at /\ proc'[r].parents = proc[r].parents
      /\ proc'[r].request = proc[r].request
      /\ proc'[r].answer # None => proc'[r].answer.verdict = "transport"
  BY AttemptMoves DEF AttemptFails, serverVars
<1>2. q # r => proc'[q] = proc[q]
  BY RunnerLocal DEF Local
<1>3. /\ proc'[q].at = proc[q].at /\ proc'[q].parents = proc[q].parents
      /\ proc'[q].request = proc[q].request
      /\ proc'[q].answer # None /\ LeaseLost(q)' => proc[q].answer # None /\ LeaseLost(q)
      /\ proc'[q].answer # None /\ Succeeded(q)' => proc[q].answer # None /\ Succeeded(q)
  BY <1>1, <1>2 DEF LeaseLost, Succeeded
<1> QED
  BY <1>1, <1>3 DEF Whole, At, ReportsTheEnd, InTurns, Barren, AtMostOnce, Grants, Sealed,
                    StemsOf, StemsBefore

\* The manifest of a completed case that is written by a process that was not
\* killed names the artifacts of all of its turns.
LEMMA WrittenWhole ==
    ASSUME SysInv, TypeInv, LeaseInv, NEW r \in Runners, Whole(r),
           NEW n \in 0..Len(EvidenceOf(r)), Writes(r, n), NEW m \in 1..n
    PROVE  WholeFile(EvidenceOf(r)[m])
<1>1. PICK f : f = EvidenceOf(r)[m]
  OBVIOUS
<1>2. m \in 1..Len(EvidenceOf(r))
  BY EvidenceTyped DEF Writes
<1>3. CASE Answered(r, "turn")
  <2>1. f.artifact.content = disk[r].submission.output
    BY <1>1, <1>2, <1>3, TurnEvidence
  <2>2. disk[r].submission.output \in Outputs
    <3>1. disk[r].submission # None /\ SavedTurn(disk[r]) /\ Sound(r, disk[r])
      BY <1>3, InTurnsParts DEF Answered, SysInv, ProcSound, At
    <3> QED
      BY <3>1, RequestKinds DEF SavedTurn, Sound, Good, TurnRequests
  <2>3. f.artifact.content # [outcome |-> "completed"]
    <3>1. \A output \in Outputs : DOMAIN output = {"heard", "take"}
      BY DEF Outputs
    <3>2. DOMAIN [outcome |-> "completed"] = {"outcome"}
      OBVIOUS
    <3> QED
      BY <2>1, <2>2, <3>1, <3>2
  <2> QED
    BY <1>1, <2>3 DEF WholeFile
<1>4. CASE Answered(r, "complete") \/ Answered(r, "failing")
  <2>1. PICK c : c = disk[r].case
    OBVIOUS
  <2>2. PICK parents : parents = proc[r].parents
    OBVIOUS
  <2>3. /\ f.artifact.case = c /\ f.artifact.content = [outcome |-> proc[r].request.outcome]
        /\ f.kind = "manifest" => f.parents = parents
    BY <1>1, <1>2, <1>4, <2>1, <2>2, ReportEvidence
  <2> SUFFICES ASSUME f.kind = "manifest", AtMostOnce(c),
                      f.artifact.content = [outcome |-> "completed"]
               PROVE  StemsOf(parents) = StemsBefore(c, TurnCount[c])
    BY <1>1, <2>3 DEF WholeFile
  <2>4. proc[r].request.outcome = "completed"
    BY <2>3
  <2>5. At(r, "complete") /\ ReportsTheEnd(r) /\ Sealed(c)
    BY <1>4, <2>1, <2>4 DEF Answered, Whole, SysInv, ProcSound, Completing, ReportsTheEnd,
                            Writes, LeaseInv, RunnerLeases, Told, At
  <2>6. ~Barren(c)
    BY <2>5 DEF Barren
  <2> QED
    BY <2>1, <2>2, <2>5, <2>6 DEF Whole
<1> QED
  BY <1>3, <1>4 DEF Writes

LEMMA StepWhole ==
    ASSUME SysInv, TypeInv, LeaseInv, FileInv, NEW r \in Runners, Local(r),
           Boot(r) \/ Proceed(r), Whole(r), \A f \in artifacts[r] : WholeFile(f)
    PROVE  Whole(r)' /\ \A f \in artifacts'[r] : WholeFile(f)'
<1>1. Whole(r)'
  <2>1. CASE Boot(r)
    BY <2>1, BootWhole
  <2>2. CASE Leaves(r)
    BY <2>2, LeaveWhole
  <2>3. CASE Begins(r)
    BY <2>3, BeginWhole
  <2>4. CASE Send(r) \/ TurnContinues(r) \/ TurnFinishes(r)
    BY <2>4, SendWhole, TurnWhole
  <2>5. CASE SendRaises(r) \/ CallErrors(r)
    BY <2>5, FailWhole
  <2> QED
    BY <2>1, <2>2, <2>3, <2>4, <2>5 DEF Proceed, Leaves, Begins
<1>2. \A f : WholeFile(f)' <=> WholeFile(f)
  BY DEF Local, serverVars, WholeFile, AtMostOnce, Grants, StemsOf, StemsBefore
<1>3. \A f \in artifacts'[r] : WholeFile(f)
  <2>1. CASE artifacts' = artifacts
    BY <2>1
  <2>2. ASSUME NEW n \in 0..Len(EvidenceOf(r)), Writes(r, n)
        PROVE  \A f \in artifacts'[r] : WholeFile(f)
    BY <2>2, WrittenFiles, WrittenWhole DEF Writes
  <2> QED
    BY <2>1, <2>2, EvidenceWritten DEF Boot
<1> QED
  BY <1>1, <1>2, <1>3

LEMMA NextWhole ==
    ASSUME SysInv, SysInv', TypeInv, LeaseInv, FileInv, WholeInv, [Next]_vars
    PROVE  WholeInv'
<1> SUFFICES ASSUME spent'.crashes = 0, NEW q \in Runners
             PROVE  Whole(q)' /\ \A f \in artifacts'[q] : WholeFile(f)'
  BY KillsGrow DEF WholeInv
<1>1. /\ \A r \in Runners : ~Killed(r)
      /\ \A r \in Runners : Whole(r) /\ \A f \in artifacts[r] : WholeFile(f)
  BY KillsGrow DEF WholeInv
<1>2. ASSUME \A c : AtMostOnce(c)' => AtMostOnce(c), artifacts'[q] = artifacts[q]
      PROVE  \A f \in artifacts'[q] : WholeFile(f)'
  <2> SUFFICES ASSUME NEW f \in artifacts[q], NEW c, c = f.artifact.case
               PROVE  WholeFile(f)'
    BY <1>2
  <2>1. AtMostOnce(c)' => AtMostOnce(c)
    BY <1>2
  <2>2. AtMostOnce(c)' <=> AtMostOnce(f.artifact.case)'
    BY DEF AtMostOnce, Grants
  <2> QED
    BY <1>1, <2>1, <2>2 DEF WholeFile, StemsOf, StemsBefore
<1>3. ASSUME NEW r \in Runners, Start(r) \/ Step(r)
      PROVE  Whole(q)' /\ \A f \in artifacts'[q] : WholeFile(f)'
  <2>1. Local(r) /\ (Boot(r) \/ Proceed(r))
    BY <1>3, RunnerLocal DEF Start, Step
  <2>2. CASE q = r
    BY <1>1, <2>1, <2>2, StepWhole
  <2>3. CASE q # r
    <3>1. /\ disk'[q] = disk[q] /\ proc'[q] = proc[q] /\ cases' = cases /\ leases' = leases
          /\ artifacts'[q] = artifacts[q]
      BY <2>1, <2>3, EvidenceWritten, WrittenFiles DEF Local, serverVars, Writes, Boot
    <3>2. Whole(q)'
      BY <1>1, <3>1 DEF Whole, At, ReportsTheEnd, InTurns, Barren, AtMostOnce, Grants, Sealed,
                        StemsOf, StemsBefore, LeaseLost, Succeeded
    <3>3. \A c : AtMostOnce(c)' => AtMostOnce(c)
      BY <3>1 DEF AtMostOnce, Grants
    <3> QED
      BY <1>2, <3>1, <3>2, <3>3
  <2> QED
    BY <2>2, <2>3
<1>4. ASSUME NEW r \in Runners, AttemptFails(r)
      PROVE  Whole(q)' /\ \A f \in artifacts'[q] : WholeFile(f)'
  <2>1. artifacts' = artifacts /\ leases' = leases
    BY <1>4 DEF AttemptFails, serverVars
  <2> QED
    BY <1>1, <1>2, <1>4, <2>1, AttemptWhole DEF AtMostOnce, Grants
<1>5. ASSUME NEW r \in Runners, Serve(r)
      PROVE  Whole(q)' /\ \A f \in artifacts'[q] : WholeFile(f)'
  <2>1. artifacts' = artifacts /\ \A c : AtMostOnce(c)' => AtMostOnce(c)
    BY <1>5, ServeServed, GrantsGrow DEF Serve, Served
  <2> QED
    BY <1>1, <1>2, <1>5, <2>1, ServeWhole
<1>6. CASE LateArrives \/ Tick \/ \E r \in Runners : Beat(r)
  <2>1. PICK req : Served(req)
    BY <1>6, SilentServed
  <2>2. proc' = proc /\ artifacts' = artifacts /\ \A c : AtMostOnce(c)' => AtMostOnce(c)
    BY <1>6, <2>1, SilentServed, GrantsGrow DEF Served
  <2> QED
    BY <1>1, <1>2, <2>1, <2>2, UnansweredWhole
<1>7. CASE UNCHANGED vars
  <2>1. UNCHANGED <<disk, proc, cases, leases, artifacts>>
    BY <1>7 DEF vars, loopVars, serverVars
  <2>2. Whole(q)'
    BY <1>1, <2>1 DEF Whole, At, ReportsTheEnd, InTurns, Barren, AtMostOnce, Grants, Sealed,
                      StemsOf, StemsBefore, LeaseLost, Succeeded
  <2> QED
    BY <1>2, <2>1, <2>2 DEF AtMostOnce, Grants
<1> QED
  BY <1>1, <1>3, <1>4, <1>5, <1>6, <1>7 DEF Next

LEMMA InitWhole == Init => WholeInv
BY OffParts DEF Init, InitLoop, WholeInv, Spent, Whole, ReportsTheEnd, InTurns, At

\* Without a kill, the manifest of a case that ran to its end under one lease
\* names an artifact for each of its turns and for the observations of each,
\* whatever became of attempts, leases, disks and targets meanwhile.
THEOREM LineageIsComplete == Spec => []LineageComplete
<1>1. Init => WholeInv
  BY InitWhole
<1>2. /\ SysInv /\ SysInv' /\ TypeInv /\ LeaseInv /\ FileInv /\ WholeInv /\ [Next]_vars
      => WholeInv'
  BY NextWhole
<1>3. SysInv /\ TypeInv /\ WholeInv => LineageComplete
  <2> SUFFICES ASSUME SysInv, TypeInv, WholeInv, spent.crashes = 0,
                      NEW r \in Runners, NEW f \in artifacts[r], f.kind = "manifest",
                      NEW c, c = f.artifact.case, GrantedOnce(c),
                      f.artifact.content = [outcome |-> "completed"]
               PROVE  StemsOf(f.parents) =
                         {<<"turn", n>> : n \in 0..TurnCount[c] - 1}
                         \union {<<"observations", o[2]>> : o \in {p \in Observed : p[1] = c}}
    BY DEF LineageComplete, StemsOf
  <2>1. c \in Cases /\ AtMostOnce(c)
    BY OnceIsAtMostOnce DEF TypeInv, FilesTyped, Files, Artifacts
  <2>2. StemsOf(f.parents) = StemsBefore(c, TurnCount[c])
    BY <2>1 DEF WholeInv, WholeFile
  <2> QED
    BY <2>1, <2>2, AllStems
<1> QED
  BY <1>1, <1>2, <1>3, FilesHold, LeasesHold, SystemInvariance, PTL DEF Spec
=============================================================================
