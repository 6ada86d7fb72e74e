------------------------- MODULE SessionStoreProofs -------------------------
(***************************************************************************)
(* Proofs about SessionStore, for any number of sessions, values and       *)
(* objects: no two holders ever share an object, and so each session       *)
(* behaves as if it had a state of its own.                                *)
(***************************************************************************)
EXTENDS SessionStore, TLAPS

TypeInv ==
    /\ states \in [Sessions -> Objects \union {None}]
    /\ held \in [Sessions -> SUBSET Objects]
    /\ snapshots \in [Sessions -> Objects \union {None}]
    /\ content \in [Objects -> Values]

\* The inductive invariant.
IInv == TypeInv /\ NoSharedObjects

\* A copy is an object nobody refers to, and what anybody refers to keeps its
\* content (DeepCopied).
LEMMA CopyIsNew ==
    ASSUME TypeInv, NEW o \in Objects, NEW copy \in Objects, DeepCopied(o, copy)
    PROVE  /\ copy # Fixture
           /\ \A s \in Sessions : /\ copy # states[s] /\ copy # snapshots[s]
                                  /\ copy \notin held[s]
           /\ content' \in [Objects -> Values]
           /\ content'[copy] = content[o]
           /\ \A other \in Objects : other # copy => content'[other] = content[other]
<1>1. copy \in Free
  BY DEF DeepCopied
<1>2. /\ copy # Fixture
      /\ \A s \in Sessions : copy # states[s] /\ copy # snapshots[s] /\ copy \notin held[s]
  BY <1>1 DEF Free
<1>3. content' = [content EXCEPT ![copy] = content[o]]
  BY DEF DeepCopied
<1>4. content' \in [Objects -> Values]
  BY <1>3 DEF TypeInv
<1>5. content'[copy] = content[o]
  BY <1>3 DEF TypeInv
<1>6. \A other \in Objects : other # copy => content'[other] = content[other]
  BY <1>3 DEF TypeInv
<1> QED
  BY <1>2, <1>4, <1>5, <1>6

LEMMA InitInv == Init => IInv
  BY ObjectsAssumption DEF Init, IInv, TypeInv, NoSharedObjects

LEMMA NextInv == IInv /\ [Next]_vars => IInv'
<1> SUFFICES ASSUME IInv, [Next]_vars PROVE IInv'
  OBVIOUS
<1> USE ObjectsAssumption DEF IInv
<1>1. ASSUME NEW s \in Sessions, Open(s) PROVE IInv'
  <2>1. PICK copy \in Objects : /\ Installed(s, copy)
                                /\ states' = [states EXCEPT ![s] = copy]
                                /\ held' = [held EXCEPT ![s] = @ \union {copy}]
    BY <1>1 DEF Open
  <2>2. DeepCopied(Fixture, copy)
    BY <2>1 DEF Installed
  <2>3. /\ copy # Fixture
        /\ \A t \in Sessions : /\ copy # states[t] /\ copy # snapshots[t]
                               /\ copy \notin held[t]
        /\ content' \in [Objects -> Values]
    BY <2>2, CopyIsNew
  <2>4. snapshots' = snapshots
    BY <1>1 DEF Open
  <2>5. TypeInv'
    BY <2>1, <2>3, <2>4 DEF TypeInv
  <2>6. \A t \in Sessions : /\ states'[t] = IF t = s THEN copy ELSE states[t]
                            /\ held'[t] = IF t = s THEN held[s] \union {copy} ELSE held[t]
    BY <2>1 DEF TypeInv
  <2>7. NoSharedObjects'
    BY <2>3, <2>4, <2>6 DEF TypeInv, NoSharedObjects
  <2> QED
    BY <2>5, <2>7
<1>2. ASSUME NEW s \in Sessions, Get(s) PROVE IInv'
  <2>1. TypeInv'
    BY <1>2 DEF TypeInv, Get
  <2>2. \A t \in Sessions : held'[t] = IF t = s THEN held[s] \union {states[s]} ELSE held[t]
    BY <1>2 DEF TypeInv, Get
  <2>3. NoSharedObjects'
    BY <1>2, <2>2 DEF TypeInv, NoSharedObjects, Get
  <2> QED
    BY <2>1, <2>3
<1>3. ASSUME NEW s \in Sessions, Snapshot(s) PROVE IInv'
  <2>1. PICK copy \in Objects : Shown(s, copy) /\ snapshots' = [snapshots EXCEPT ![s] = copy]
    BY <1>3 DEF Snapshot
  <2>2. states[s] \in Objects /\ DeepCopied(states[s], copy)
    BY <1>3, <2>1 DEF Snapshot, Shown, TypeInv
  <2>3. /\ copy # Fixture
        /\ \A t \in Sessions : /\ copy # states[t] /\ copy # snapshots[t]
                               /\ copy \notin held[t]
        /\ content' \in [Objects -> Values]
    BY <2>2, CopyIsNew
  <2>4. UNCHANGED <<states, held>>
    BY <1>3 DEF Snapshot
  <2>5. TypeInv'
    BY <2>1, <2>3, <2>4 DEF TypeInv
  <2>6. \A t \in Sessions : snapshots'[t] = IF t = s THEN copy ELSE snapshots[t]
    BY <2>1 DEF TypeInv
  <2>7. NoSharedObjects'
    BY <2>3, <2>4, <2>6 DEF TypeInv, NoSharedObjects
  <2> QED
    BY <2>5, <2>7
<1>4. ASSUME NEW s \in Sessions, Close(s) PROVE IInv'
  <2>1. TypeInv'
    BY <1>4 DEF TypeInv, Close
  <2>2. \A t \in Sessions : states'[t] = IF t = s THEN None ELSE states[t]
    BY <1>4 DEF TypeInv, Close
  <2>3. NoSharedObjects'
    BY <1>4, <2>2 DEF TypeInv, NoSharedObjects, Close
  <2> QED
    BY <2>1, <2>3
<1>5. ASSUME NEW s \in Sessions, Forget(s) PROVE IInv'
  <2>1. TypeInv'
    BY <1>5 DEF TypeInv, Forget
  <2>2. \A t \in Sessions : held'[t] \subseteq held[t]
    BY <1>5 DEF TypeInv, Forget
  <2>3. NoSharedObjects'
    BY <1>5, <2>2 DEF TypeInv, NoSharedObjects, Forget
  <2> QED
    BY <2>1, <2>3
<1>6. ASSUME NEW o \in Objects, Written(o), UNCHANGED <<states, held, snapshots>>
      PROVE  IInv'
  BY <1>6 DEF TypeInv, NoSharedObjects, Written
<1>7. ASSUME NEW s \in Sessions, Write(s) PROVE IInv'
  BY <1>6, <1>7 DEF Write, TypeInv
<1>8. ASSUME NEW s \in Sessions, Scribble(s) PROVE IInv'
  BY <1>6, <1>8 DEF Scribble, TypeInv
<1>9. CASE ChangeFixture
  BY <1>6, <1>9 DEF ChangeFixture
<1>10. CASE UNCHANGED vars
  BY <1>10 DEF TypeInv, NoSharedObjects, vars
<1> QED
  BY <1>1, <1>2, <1>3, <1>4, <1>5, <1>7, <1>8, <1>9, <1>10 DEF Next

\* No two holders ever share an object: neither do two sessions, nor a session
\* and an observer or the fixture (sessions.py 37-61).
THEOREM NothingShared == Spec => []NoSharedObjects
<1>1. IInv => NoSharedObjects
  BY DEF IInv
<1> QED
  BY <1>1, InitInv, NextInv, PTL DEF Spec

-----------------------------------------------------------------------------
(* The refinement *)

\* Writing an object changes what is seen of it, and of nothing else.
LEMMA WrittenSeen ==
    ASSUME IInv, NEW o \in Objects, Written(o), NEW other \in Objects \union {None}, other # o
    PROVE  Seen(other)' = Seen(other)
  BY ObjectsAssumption DEF IInv, TypeInv, Written, Seen

LEMMA StepRefines == IInv /\ [Next]_vars => [Isolated!Next]_(Isolated!vars)
<1> SUFFICES ASSUME IInv, [Next]_vars PROVE [Isolated!Next]_(Isolated!vars)
  OBVIOUS
<1> USE ObjectsAssumption DEF IInv
<1>1. ASSUME NEW s \in Sessions, Open(s) PROVE Isolated!Open(s)
  <2>1. PICK copy \in Objects : /\ Installed(s, copy)
                                /\ states' = [states EXCEPT ![s] = copy]
    BY <1>1 DEF Open
  <2>2. DeepCopied(Fixture, copy)
    BY <2>1 DEF Installed
  <2>3. /\ copy # Fixture
        /\ \A t \in Sessions : copy # states[t] /\ copy # snapshots[t]
        /\ content'[copy] = content[Fixture]
        /\ \A other \in Objects : other # copy => content'[other] = content[other]
    BY <2>2, CopyIsNew
  <2>4. snapshots' = snapshots
    BY <1>1 DEF Open
  <2>5. \A t \in Sessions : states'[t] = IF t = s THEN copy ELSE states[t]
    BY <2>1 DEF TypeInv
  <2>6. \A t \in Sessions : Seen(states[t])' = IF t = s THEN content[Fixture]
                                               ELSE Seen(states[t])
    BY <2>3, <2>5 DEF TypeInv, Seen
  <2>7. \A t \in Sessions : Seen(snapshots[t])' = Seen(snapshots[t])
    BY <2>3, <2>4 DEF TypeInv, Seen
  <2>8. content'[Fixture] = content[Fixture]
    BY <2>3
  <2> QED
    BY <2>6, <2>7, <2>8 DEF Isolated!Open
<1>2. ASSUME NEW s \in Sessions, Get(s) \/ Forget(s) PROVE UNCHANGED Isolated!vars
  BY <1>2 DEF Get, Forget, Seen, Isolated!vars
<1>3. ASSUME NEW s \in Sessions, Snapshot(s) PROVE Isolated!Observe(s)
  <2>1. PICK copy \in Objects : Shown(s, copy) /\ snapshots' = [snapshots EXCEPT ![s] = copy]
    BY <1>3 DEF Snapshot
  <2>2. states[s] \in Objects /\ DeepCopied(states[s], copy)
    BY <1>3, <2>1 DEF Snapshot, Shown, TypeInv
  <2>3. /\ copy # Fixture
        /\ \A t \in Sessions : copy # states[t] /\ copy # snapshots[t]
        /\ content'[copy] = content[states[s]]
        /\ \A other \in Objects : other # copy => content'[other] = content[other]
    BY <2>2, CopyIsNew
  <2>4. states' = states
    BY <1>3 DEF Snapshot
  <2>5. \A t \in Sessions : snapshots'[t] = IF t = s THEN copy ELSE snapshots[t]
    BY <2>1 DEF TypeInv
  <2>6. \A t \in Sessions : Seen(snapshots[t])' = IF t = s THEN Seen(states[s])
                                                  ELSE Seen(snapshots[t])
    BY <2>2, <2>3, <2>5 DEF TypeInv, Seen
  <2>7. \A t \in Sessions : Seen(states[t])' = Seen(states[t])
    BY <2>3, <2>4 DEF TypeInv, Seen
  <2>8. content'[Fixture] = content[Fixture]
    BY <2>3
  <2>9. Seen(states[s]) # None
    BY <2>2 DEF TypeInv, Seen
  <2> QED
    BY <2>6, <2>7, <2>8, <2>9 DEF Isolated!Observe
<1>4. ASSUME NEW s \in Sessions, Close(s) PROVE Isolated!Close(s)
  <2>1. \A t \in Sessions : states'[t] = IF t = s THEN None ELSE states[t]
    BY <1>4 DEF TypeInv, Close
  <2>2. \A t \in Sessions : Seen(states[t])' = IF t = s THEN None ELSE Seen(states[t])
    BY <1>4, <2>1 DEF Close, Seen
  <2>3. \A t \in Sessions : Seen(snapshots[t])' = Seen(snapshots[t])
    BY <1>4 DEF Close, Seen
  <2>4. content' = content
    BY <1>4 DEF Close
  <2> QED
    BY <2>2, <2>3, <2>4 DEF Isolated!Close
<1>5. ASSUME NEW s \in Sessions, Write(s)
      PROVE  Isolated!Work(s) \/ UNCHANGED Isolated!vars
  <2>1. PICK o \in held[s] : Written(o)
    BY <1>5 DEF Write
  <2>2. o \in Objects /\ UNCHANGED <<states, held, snapshots>>
    BY <1>5 DEF Write, TypeInv
  <2>3. PICK v \in Values : content' = [content EXCEPT ![o] = v]
    BY <2>1 DEF Written
  <2>4. /\ o # Fixture
        /\ \A t \in Sessions : o # snapshots[t] /\ (t # s => o # states[t])
    BY <2>1 DEF NoSharedObjects
  <2>5. \A t \in Sessions : Seen(snapshots[t])' = Seen(snapshots[t])
    BY <2>2, <2>3, <2>4 DEF TypeInv, Seen
  <2>6. content'[Fixture] = content[Fixture]
    BY <2>3, <2>4 DEF TypeInv
  <2>7. \A t \in Sessions : t # s => Seen(states[t])' = Seen(states[t])
    BY <2>2, <2>3, <2>4 DEF TypeInv, Seen
  <2>8. CASE o = states[s]
    <3>1. Seen(states[s]) # None /\ Seen(states[s])' = v
      BY <2>2, <2>3, <2>8 DEF TypeInv, Seen
    <3> QED
      BY <2>5, <2>6, <2>7, <3>1 DEF Isolated!Work
  <2>9. CASE o # states[s]
    <3>1. Seen(states[s])' = Seen(states[s])
      BY <2>2, <2>3, <2>9 DEF TypeInv, Seen
    <3> QED
      BY <2>5, <2>6, <2>7, <3>1 DEF Isolated!vars
  <2> QED
    BY <2>8, <2>9
<1>6. ASSUME NEW s \in Sessions, Scribble(s) PROVE Isolated!Scribble(s)
  <2>1. snapshots[s] \in Objects /\ UNCHANGED <<states, held, snapshots>>
    BY <1>6 DEF Scribble, TypeInv
  <2>2. PICK v \in Values : content' = [content EXCEPT ![snapshots[s]] = v]
    BY <1>6 DEF Scribble, Written
  <2>3. /\ snapshots[s] # Fixture
        /\ \A t \in Sessions : /\ snapshots[s] # states[t]
                               /\ t # s => snapshots[s] # snapshots[t]
    BY <2>1 DEF NoSharedObjects
  <2>4. \A t \in Sessions : Seen(snapshots[t])' = IF t = s THEN v ELSE Seen(snapshots[t])
    BY <2>1, <2>2, <2>3 DEF TypeInv, Seen
  <2>5. \A t \in Sessions : Seen(states[t])' = Seen(states[t])
    BY <2>1, <2>2, <2>3 DEF TypeInv, Seen
  <2>6. content'[Fixture] = content[Fixture] /\ Seen(snapshots[s]) # None
    BY <2>1, <2>2, <2>3 DEF TypeInv, Seen
  <2> QED
    BY <2>4, <2>5, <2>6 DEF Isolated!Scribble
<1>7. CASE ChangeFixture
  <2>1. PICK v \in Values : content' = [content EXCEPT ![Fixture] = v]
    BY <1>7 DEF ChangeFixture, Written
  <2>2. \A t \in Sessions : /\ Seen(states[t])' = Seen(states[t])
                            /\ Seen(snapshots[t])' = Seen(snapshots[t])
    BY <1>7, <2>1 DEF TypeInv, NoSharedObjects, ChangeFixture, Seen
  <2>3. content'[Fixture] \in Values
    BY <2>1 DEF TypeInv
  <2> QED
    BY <2>2, <2>3 DEF Isolated!ChangeFixture, Isolated!Next
<1>8. CASE UNCHANGED vars
  BY <1>8 DEF vars, Seen, Isolated!vars
<1> QED
  BY <1>1, <1>2, <1>3, <1>4, <1>5, <1>6, <1>7, <1>8 DEF Next, Isolated!Next

\* Every behaviour of the store, with whatever its users do to the references
\* they were given, is one of sessions that have a state of their own each: no
\* write, reset, close or snapshot of one shows in another (sessions.py 3-16).
THEOREM StoreIsolates == Spec => ImplementsIsolation
<1>1. Init => Isolated!Init
  BY ObjectsAssumption DEF Init, Seen, Isolated!Init
<1> QED
  BY <1>1, InitInv, NextInv, StepRefines, PTL DEF Spec, ImplementsIsolation, Isolated!Spec
=============================================================================
