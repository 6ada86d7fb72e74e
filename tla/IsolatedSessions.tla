-------------------------- MODULE IsolatedSessions --------------------------
(***************************************************************************)
(* What a SessionStore promises (redbeak_adapter_sdk/sessions.py, its      *)
(* docstring): each session has a state of its own.  A step changes the    *)
(* state of at most one session, what an observer has seen stays as it     *)
(* was, and a session that is opened starts from the fixture.              *)
(***************************************************************************)
CONSTANTS Sessions, Values, None

VARIABLES state,      \* state[s]: the state of session s, None while it is not open
          seen,       \* seen[s]: the last snapshot of s in the hands of an observer
          fixture     \* the initial state in the hands of the adapter

vars == <<state, seen, fixture>>

Init == /\ state = [s \in Sessions |-> None]
        /\ seen = [s \in Sessions |-> None]
        /\ fixture \in Values

Open(s) == state' = [state EXCEPT ![s] = fixture] /\ UNCHANGED <<seen, fixture>>

Close(s) == state' = [state EXCEPT ![s] = None] /\ UNCHANGED <<seen, fixture>>

Work(s) == /\ state[s] # None
           /\ \E v \in Values : state' = [state EXCEPT ![s] = v]
           /\ UNCHANGED <<seen, fixture>>

Observe(s) == /\ state[s] # None
              /\ seen' = [seen EXCEPT ![s] = state[s]]
              /\ UNCHANGED <<state, fixture>>

\* Its holder may change a snapshot, or the fixture, without anyone noticing.
Scribble(s) == /\ seen[s] # None
               /\ \E v \in Values : seen' = [seen EXCEPT ![s] = v]
               /\ UNCHANGED <<state, fixture>>

ChangeFixture == fixture' \in Values /\ UNCHANGED <<state, seen>>

Next == \/ \E s \in Sessions : Open(s) \/ Close(s) \/ Work(s) \/ Observe(s) \/ Scribble(s)
        \/ ChangeFixture

Spec == Init /\ [][Next]_vars
=============================================================================
