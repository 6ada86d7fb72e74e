---------------------------- MODULE RunnerHttp ----------------------------
(***************************************************************************)
(* The HTTP surface of the orchestrator (redbeak_reference_server/http.py):*)
(* what a request does to the server, and what it is answered.  A handler  *)
(* does not wait for anything once it has read the body, so a request is   *)
(* served in one step; its answer is read off the state before the step.   *)
(*                                                                         *)
(* A request is a record of its operation and what it carries; k is the    *)
(* key it authenticates with, r the runner_id of a claim.                  *)
(***************************************************************************)
EXTENDS ReferenceServer

\* A request without an active key is turned away before anything is looked at.
Unauthenticated(k) == ~Authentic(k) /\ UNCHANGED vars

Serves(k, r, req) ==
    \/ Unauthenticated(k)
    \/ req.op = "claim" /\ Claim(k, r)
    \/ req.op = "heartbeat" /\ Heartbeat(k, req.case, req.lease)
    \/ req.op = "turn" /\ SubmitTurn(k, req.case, req.lease, req.sequence, req.key, req.output)
    \/ req.op = "complete" /\ Complete(k, req.case, req.lease, req.key, req.outcome)

ClaimReply(k, r) ==
    LET held == ActiveCases(r, KeyProject[k])
        waiting == QueuedCases(KeyProject[k])
        first(S) == CHOOSE c \in S : First(c, S)
        leased(c, t) == [verdict |-> "leased", case |-> c, lease |-> t]
    IN  IF held # {} THEN leased(first(held), cases[first(held)].lease)
        ELSE IF waiting # {} THEN leased(first(waiting), Len(leases) + 1)
        ELSE [verdict |-> "no_work"]

\* A turn is answered with its stored next action if it is a replay; the input
\* of a "continue" is the one after the turn that was looked up.
TurnReply(k, req) ==
    LET verdict == TurnVerdict(k, req.case, req.lease, req.sequence, req.key)
        stored == cases[req.case].turns[CHOOSE n \in Replayed(req.case, req.sequence,
                                                             req.key) : TRUE]
    IN  CASE verdict = "accepted" ->
               [verdict |-> verdict, input |-> req.sequence + 1,
                action |-> NextAction(req.case, req.sequence)]
          [] verdict = "replayed" ->
               [verdict |-> verdict, input |-> stored.sequence + 1, action |-> stored.next_action]
          [] OTHER -> [verdict |-> verdict]

Reply(k, r, req) ==
    CASE ~Authentic(k) -> [verdict |-> "unauthorized"]
      [] Authentic(k) /\ req.op = "claim" -> ClaimReply(k, r)
      [] Authentic(k) /\ req.op = "turn" -> TurnReply(k, req)
      [] Authentic(k) /\ req.op = "heartbeat" ->
           [verdict |-> HeartbeatVerdict(k, req.case, req.lease)]
      [] Authentic(k) /\ req.op = "complete" ->
           [verdict |-> CompleteVerdict(k, req.case, req.lease, req.key)]
=============================================================================
