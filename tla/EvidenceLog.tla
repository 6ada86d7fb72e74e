---------------------------- MODULE EvidenceLog ----------------------------
(***************************************************************************)
(* What the orchestrator promises to keep about a case, whoever runs it    *)
(* and however often its lease changes hands: one log of turns per case,   *)
(* extended only at its end, without gaps in the sequence numbers and      *)
(* without two entries under one idempotency key, until a single           *)
(* completion seals it for good.  Leases, keys and time do not exist here. *)
(***************************************************************************)
EXTENDS Integers, Sequences

CONSTANTS Cases,        \* case executions
          IdemKeys,     \* idempotency keys a runner may mint
          Outputs,      \* contents a submitted turn may carry
          None          \* no completion recorded

VARIABLES log,          \* log[c]: the turns recorded for c, oldest first
          seal          \* seal[c]: the completion recorded for c, or None

vars == <<log, seal>>

Answers == {"continue", "finish"}

Completions == [idempotency_key : IdemKeys,
                event : {"completed", "execution_failed", "canceled"},
                accepted : {"evaluation_queued", "recorded"}]

Init == /\ log = [c \in Cases |-> << >>]
        /\ seal = [c \in Cases |-> None]

Record(c, key, output, answer) ==
    /\ seal[c] = None
    /\ \A n \in DOMAIN log[c] : log[c][n].idempotency_key # key
    /\ log' = [log EXCEPT ![c] =
                 Append(@, [sequence |-> Len(log[c]), idempotency_key |-> key,
                            event |-> output, next_action |-> answer])]
    /\ UNCHANGED seal

Seal(c, completion) ==
    /\ seal[c] = None
    /\ completion.accepted =
         IF completion.event = "completed" THEN "evaluation_queued" ELSE "recorded"
    /\ seal' = [seal EXCEPT ![c] = completion]
    /\ UNCHANGED log

Next == \E c \in Cases :
           \/ \E key \in IdemKeys, output \in Outputs, answer \in Answers :
                 Record(c, key, output, answer)
           \/ \E completion \in Completions : Seal(c, completion)

Spec == Init /\ [][Next]_vars
=============================================================================
