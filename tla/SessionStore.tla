---------------------------- MODULE SessionStore ----------------------------
(***************************************************************************)
(* redbeak_adapter_sdk/sessions.py as a program over references: the store *)
(* maps a session to an object, objects are mutable, and everybody who was *)
(* ever handed a reference may keep it and write through it.  Code that    *)
(* serves a session holds references that open and get returned, also old  *)
(* ones from before a reset; an observer holds the snapshot it was given;  *)
(* the adapter holds the fixture that it opens sessions with.              *)
(*                                                                         *)
(* An object stands for all that is reachable from it: deepcopy leaves no  *)
(* part of it shared.                                                      *)
(***************************************************************************)
EXTENDS Naturals

CONSTANTS Sessions, Values, None,
          Objects,      \* bound: the objects there can be at a time
          Fixture       \* the one the adapter opens sessions with

ASSUME ObjectsAssumption == Fixture \in Objects /\ None \notin Objects \union Values

VARIABLES states,     \* states[s]: the object of session s, or None (_states)
          held,       \* held[s]: the objects that code serving s has references to
          snapshots,  \* snapshots[s]: the object an observer of s was given last, or None
          content     \* content[o]: the present content of an object

vars == <<states, held, snapshots, content>>

Init == /\ states = [s \in Sessions |-> None]
        /\ held = [s \in Sessions |-> {}]
        /\ snapshots = [s \in Sessions |-> None]
        /\ content \in {[o \in Objects |-> v] : v \in Values}

\* Where a new object may be: memory that nobody refers to any more.
Free == {o \in Objects \ {Fixture} :
            \A s \in Sessions : states[s] # o /\ snapshots[s] # o /\ o \notin held[s]}

\* A copy of o in a new object.
DeepCopied(o, copy) == /\ Free # {}
                       /\ copy = CHOOSE new \in Free : TRUE
                       /\ content' = [content EXCEPT ![copy] = content[o]]

\* Variation: the fixture itself is installed.
InstalledItself(s, copy) == copy = Fixture /\ UNCHANGED content

Installed(s, copy) == DeepCopied(Fixture, copy)

\* A session is opened anew, whether or not it was open; open returns what it
\* has installed.
Open(s) ==
    /\ \E copy \in Objects :
          /\ Installed(s, copy)
          /\ states' = [states EXCEPT ![s] = copy]
          /\ held' = [held EXCEPT ![s] = @ \union {copy}]
    /\ UNCHANGED snapshots

\* An unopened session has no state to get: UnknownSessionError.
Get(s) ==
    /\ states[s] # None
    /\ held' = [held EXCEPT ![s] = @ \union {states[s]}]
    /\ UNCHANGED <<states, snapshots, content>>

\* Variation: the live state is handed to the observer.
ShownLive(s, copy) == copy = states[s] /\ UNCHANGED content

Shown(s, copy) == DeepCopied(states[s], copy)

Snapshot(s) ==
    /\ states[s] # None
    /\ \E copy \in Objects : Shown(s, copy) /\ snapshots' = [snapshots EXCEPT ![s] = copy]
    /\ UNCHANGED <<states, held>>

Close(s) ==
    /\ states' = [states EXCEPT ![s] = None]
    /\ UNCHANGED <<held, snapshots, content>>

-----------------------------------------------------------------------------
(* What the holders of references do *)

Written(o) == \E v \in Values : content' = [content EXCEPT ![o] = v]

\* Code serving s writes through a reference it has, or loses one.
Write(s) == /\ \E o \in held[s] : Written(o)
            /\ UNCHANGED <<states, held, snapshots>>

Forget(s) == /\ \E o \in held[s] : held' = [held EXCEPT ![s] = @ \ {o}]
             /\ UNCHANGED <<states, snapshots, content>>

Scribble(s) == /\ snapshots[s] # None
               /\ Written(snapshots[s])
               /\ UNCHANGED <<states, held, snapshots>>

ChangeFixture == Written(Fixture) /\ UNCHANGED <<states, held, snapshots>>

Next == \/ \E s \in Sessions : \/ Open(s) \/ Get(s) \/ Snapshot(s) \/ Close(s)
                               \/ Write(s) \/ Forget(s) \/ Scribble(s)
        \/ ChangeFixture

Spec == Init /\ [][Next]_vars

-----------------------------------------------------------------------------
(* Correctness *)

\* The content of an object, or of none.
Seen(o) == IF o = None THEN None ELSE content[o]

Isolated == INSTANCE IsolatedSessions WITH
    state <- [s \in Sessions |-> Seen(states[s])],
    seen <- [s \in Sessions |-> Seen(snapshots[s])],
    fixture <- content[Fixture]

\* However references are kept, shared and written through, across resets,
\* closes and snapshots, each session behaves as if it had a state of its own:
\* nothing done for one session, to the fixture or to a snapshot shows in the
\* state of another session, in a later reset, or in what was observed before
\* (the docstring of sessions.py, 3-16).
ImplementsIsolation == Isolated!Spec

\* Who can write to what: the fixture, the snapshots and the objects held for
\* different sessions are all different objects, and the object of a session
\* that is open is reachable only by code that serves it (SessionStore.get).
NoSharedObjects ==
    /\ \A s \in Sessions : /\ Fixture \notin held[s] \union {states[s], snapshots[s]}
                           /\ snapshots[s] \notin UNION {held[r] : r \in Sessions}
    /\ \A r, s \in Sessions : r # s =>
          /\ held[r] \intersect held[s] = {}
          /\ states[s] \notin held[r]
          /\ states[s] # None => states[r] # states[s]
          /\ snapshots[s] # None => snapshots[r] # snapshots[s]
    /\ \A r, s \in Sessions : states[r] # None => states[r] # snapshots[s]
=============================================================================
