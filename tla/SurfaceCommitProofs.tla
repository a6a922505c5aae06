------------------------- MODULE SurfaceCommitProofs -------------------------
(***************************************************************************)
(* For any surfaces, callbacks, buffers and channel capacity: the types of  *)
(* SurfaceCommit, the conservation of its callbacks, that a callback is     *)
(* answered only after its commit, and that the surfaces and their tasks    *)
(* keep the promise of FrameCallbacks.                                      *)
(***************************************************************************)
EXTENDS SurfaceCommit, TLAPS

-----------------------------------------------------------------------------
(* Sequences without repetition *)

LEMMA ConcatRange ==
  ASSUME NEW S, NEW a \in Seq(S), NEW b \in Seq(S)
  PROVE  /\ a \o b \in Seq(S)
         /\ Range(a \o b) = Range(a) \union Range(b)
<1>1. a \o b \in Seq(S) /\ Len(a \o b) = Len(a) + Len(b)
  OBVIOUS
<1>2. \A i \in 1..Len(a) : (a \o b)[i] = a[i]
  OBVIOUS
<1>3. \A i \in 1..Len(b) : (a \o b)[Len(a) + i] = b[i]
  OBVIOUS
<1>4. Range(a \o b) \subseteq Range(a) \union Range(b)
  <2>. SUFFICES ASSUME NEW i \in 1..Len(a) + Len(b)
                PROVE  (a \o b)[i] \in Range(a) \union Range(b)
    BY <1>1 DEF Range
  <2>1. CASE i \in 1..Len(a)
    BY <1>2, <2>1 DEF Range
  <2>2. CASE i \notin 1..Len(a)
    <3>1. i - Len(a) \in 1..Len(b) /\ Len(a) + (i - Len(a)) = i
      BY <2>2
    <3>2. (a \o b)[i] = b[i - Len(a)]
      BY <1>3, <3>1
    <3>. QED  BY <3>1, <3>2 DEF Range
  <2>. QED  BY <2>1, <2>2
<1>5. Range(a) \subseteq Range(a \o b)
  BY <1>1, <1>2 DEF Range
<1>6. Range(b) \subseteq Range(a \o b)
  <2>. SUFFICES ASSUME NEW i \in 1..Len(b) PROVE b[i] \in Range(a \o b)
    BY DEF Range
  <2>1. Len(a) + i \in 1..Len(a \o b)
    BY <1>1
  <2>. QED  BY <1>3, <2>1, <1>1 DEF Range
<1>. QED  BY <1>1, <1>4, <1>5, <1>6

LEMMA ConcatOnce ==
  ASSUME NEW S, NEW a \in Seq(S), NEW b \in Seq(S),
         Once(a), Once(b), Range(a) \intersect Range(b) = {}
  PROVE  Once(a \o b)
<1>1. a \o b \in Seq(S) /\ Len(a \o b) = Len(a) + Len(b)
  OBVIOUS
<1>. SUFFICES ASSUME NEW i \in 1..Len(a) + Len(b), NEW j \in 1..Len(a) + Len(b),
                     (a \o b)[i] = (a \o b)[j]
              PROVE  i = j
  BY <1>1 DEF Once
<1>2. \A k \in 1..Len(a) + Len(b) :
        \/ k \in 1..Len(a) /\ (a \o b)[k] = a[k] /\ a[k] \in Range(a)
        \/ /\ k - Len(a) \in 1..Len(b) /\ (a \o b)[k] = b[k - Len(a)]
           /\ b[k - Len(a)] \in Range(b)
  BY DEF Range
<1>3. \A k, l \in 1..Len(a) : a[k] = a[l] => k = l
  BY DEF Once
<1>4. \A k, l \in 1..Len(b) : b[k] = b[l] => k = l
  BY DEF Once
<1>5. CASE i \in 1..Len(a) /\ j \in 1..Len(a)
  BY <1>2, <1>3, <1>5
<1>6. CASE i \notin 1..Len(a) /\ j \notin 1..Len(a)
  <2>1. i - Len(a) = j - Len(a)
    BY <1>2, <1>4, <1>6
  <2>. QED  BY <2>1
<1>7. CASE ~(i \in 1..Len(a) <=> j \in 1..Len(a))
  BY <1>2, <1>7
<1>. QED  BY <1>5, <1>6, <1>7

LEMMA AppendOnce ==
  ASSUME NEW S, NEW q \in Seq(S), NEW e \in S
  PROVE  /\ Append(q, e) \in Seq(S)
         /\ Range(Append(q, e)) = Range(q) \union {e}
         /\ Once(q) /\ e \notin Range(q) => Once(Append(q, e))
<1>1. /\ Append(q, e) \in Seq(S)
      /\ Len(Append(q, e)) = Len(q) + 1
      /\ \A i \in 1..Len(q) : Append(q, e)[i] = q[i]
      /\ Append(q, e)[Len(q) + 1] = e
      /\ Len(q) \in Nat
  OBVIOUS
<1>2. 1..Len(q) + 1 = (1..Len(q)) \union {Len(q) + 1}
  BY <1>1
<1>3. Range(Append(q, e)) = Range(q) \union {e}
  BY <1>1, <1>2 DEF Range
<1>4. ASSUME Once(q), e \notin Range(q)
      PROVE  Once(Append(q, e))
  BY <1>1, <1>2, <1>4 DEF Range, Once
<1>. QED  BY <1>1, <1>3, <1>4

LEMMA HeadTailOnce ==
  ASSUME NEW S, NEW q \in Seq(S), q # <<>>, Once(q)
  PROVE  /\ Head(q) \in S /\ Tail(q) \in Seq(S)
         /\ Range(q) = Range(Tail(q)) \union {Head(q)}
         /\ Head(q) \notin Range(Tail(q))
         /\ Once(Tail(q))
<1>1. /\ Len(q) \in Nat \ {0}
      /\ Head(q) = q[1]
      /\ Tail(q) \in Seq(S)
      /\ Len(Tail(q)) = Len(q) - 1
      /\ \A i \in 1..Len(q) - 1 : Tail(q)[i] = q[i + 1]
  OBVIOUS
<1>2. \A i, j \in 1..Len(q) : q[i] = q[j] => i = j
  BY DEF Once
<1>3. Once(Tail(q))
  <2>. SUFFICES ASSUME NEW i \in 1..Len(q) - 1, NEW j \in 1..Len(q) - 1,
                       Tail(q)[i] = Tail(q)[j]
                PROVE  i = j
    BY <1>1 DEF Once
  <2>1. i + 1 \in 1..Len(q) /\ j + 1 \in 1..Len(q) /\ q[i + 1] = q[j + 1]
    BY <1>1
  <2>2. i + 1 = j + 1
    BY <1>2, <2>1
  <2>. QED  BY <2>2
<1>4. Head(q) \notin Range(Tail(q))
  <2>. SUFFICES ASSUME NEW i \in 1..Len(q) - 1, Tail(q)[i] = q[1] PROVE FALSE
    BY <1>1 DEF Range
  <2>1. i + 1 \in 1..Len(q) /\ 1 \in 1..Len(q) /\ q[i + 1] = q[1]
    BY <1>1
  <2>. QED  BY <1>2, <2>1
<1>5. Range(q) = Range(Tail(q)) \union {Head(q)}
  <2>1. ASSUME NEW i \in 1..Len(q) PROVE q[i] \in Range(Tail(q)) \union {Head(q)}
    <3>1. CASE i = 1
      BY <1>1, <3>1
    <3>2. CASE i # 1
      <4>1. i - 1 \in 1..Len(q) - 1 /\ (i - 1) + 1 = i
        BY <1>1, <3>2
      <4>2. Tail(q)[i - 1] = q[i]
        BY <1>1, <4>1
      <4>3. i - 1 \in DOMAIN Tail(q)
        BY <1>1, <4>1
      <4>. QED  BY <4>2, <4>3 DEF Range
    <3>. QED  BY <3>1, <3>2
  <2>2. ASSUME NEW i \in 1..Len(q) - 1 PROVE Tail(q)[i] \in Range(q)
    <3>1. i + 1 \in 1..Len(q) /\ Tail(q)[i] = q[i + 1]
      BY <1>1
    <3>. QED  BY <3>1 DEF Range
  <2>3. Head(q) \in Range(q)
    BY <1>1 DEF Range
  <2>. QED  BY <1>1, <2>1, <2>2, <2>3 DEF Range
<1>. QED  BY <1>1, <1>3, <1>4, <1>5
-----------------------------------------------------------------------------
(* Surface state *)

\* A commit step on a clean state keeps its callbacks, each in one list.
KeepsCallbacks(st, new) ==
  /\ new \in DoubleBuffered
  /\ Clean(new)
  /\ HeldBy(new) = HeldBy(st)

LEMMA BufferEdit ==
  ASSUME NEW st \in StateType, NEW b \in Buffers \union {NoBuffer}
  PROVE  [st EXCEPT !.buffer = b] \in StateType
BY DEF StateType

LEMMA CallbacksEdit ==
  ASSUME NEW st \in StateType, NEW q \in Seq(Callbacks)
  PROVE  [st EXCEPT !.callbacks = q] \in StateType
BY DEF StateType

LEMMA DoubleBufferedEdit ==
  ASSUME NEW st \in DoubleBuffered, NEW new \in StateType
  PROVE  /\ [st EXCEPT !.pending = new] \in DoubleBuffered
         /\ [st EXCEPT !.current = new] \in DoubleBuffered
BY DEF DoubleBuffered

LEMMA UpdateCurrentKeeps ==
  ASSUME NEW st \in DoubleBuffered, Clean(st)
  PROVE  KeepsCallbacks(st, UpdateCurrent(st))
<1>. DEFINE cur == st.current.callbacks
            app == st.applied.callbacks
            pen == st.pending.callbacks
            new == UpdateCurrent(st)
<1>1. cur \in Seq(Callbacks) /\ app \in Seq(Callbacks) /\ pen \in Seq(Callbacks)
  BY DEF DoubleBuffered, StateType
<1>2. /\ cur \o app \in Seq(Callbacks)
      /\ Range(cur \o app) = Range(cur) \union Range(app)
  BY <1>1, ConcatRange
<1>3. Once(cur \o app)
  BY <1>1, ConcatOnce DEF Clean
<1>4. new = [pending |-> st.pending,
             applied |-> [buffer |-> st.applied.buffer, callbacks |-> <<>>],
             current |-> [buffer |-> st.applied.buffer, callbacks |-> cur \o app]]
  BY DEF UpdateCurrent, Merge, Drained
<1>4a. /\ new.pending.callbacks = pen
       /\ new.applied.callbacks = <<>>
       /\ new.current.callbacks = cur \o app
  BY DEF UpdateCurrent, Merge, Drained
<1>5. <<>> \in Seq(Callbacks) /\ Range(<<>>) = {} /\ Once(<<>>)
  BY DEF Range, Once
<1>6. new \in DoubleBuffered
  BY <1>2, <1>4, <1>5 DEF DoubleBuffered, StateType
<1>. HIDE DEF new
<1>7. Clean(new)
  BY <1>2, <1>3, <1>4a, <1>5 DEF Clean
<1>8. HeldBy(new) = HeldBy(st)
  BY <1>2, <1>4a, <1>5 DEF HeldBy
<1>. QED  BY <1>6, <1>7, <1>8 DEF KeepsCallbacks, new

LEMMA ApplyPendingKeeps ==
  ASSUME NEW s, NEW st \in DoubleBuffered, Clean(st)
  PROVE  KeepsCallbacks(st, ApplyPending(s, st))
<1>. DEFINE app == st.applied.callbacks
            pen == st.pending.callbacks
            mid == [pending |-> Drained(st.pending),
                    applied |-> Merge(st.applied, st.pending),
                    current |-> st.current]
<1>1. app \in Seq(Callbacks) /\ pen \in Seq(Callbacks)
  BY DEF DoubleBuffered, StateType
<1>2. /\ app \o pen \in Seq(Callbacks)
      /\ Range(app \o pen) = Range(app) \union Range(pen)
  BY <1>1, ConcatRange
<1>3. Once(app \o pen)
  BY <1>1, ConcatOnce DEF Clean
<1>4. mid = [pending |-> [buffer |-> st.pending.buffer, callbacks |-> <<>>],
             applied |-> [buffer |-> st.pending.buffer, callbacks |-> app \o pen],
             current |-> st.current]
  BY DEF Merge, Drained
<1>4a. /\ mid.pending.callbacks = <<>>
       /\ mid.applied.callbacks = app \o pen
       /\ mid.current.callbacks = st.current.callbacks
  BY DEF Merge, Drained
<1>5. <<>> \in Seq(Callbacks) /\ Range(<<>>) = {} /\ Once(<<>>)
  BY DEF Range, Once
<1>9. ApplyPending(s, st) \in {mid, UpdateCurrent(mid)}
  BY DEF ApplyPending
<1>. HIDE DEF mid
<1>6. mid \in DoubleBuffered
  BY <1>2, <1>4, <1>5 DEF DoubleBuffered, StateType
<1>7. Clean(mid)
  BY <1>2, <1>3, <1>4a, <1>5 DEF Clean
<1>8. HeldBy(mid) = HeldBy(st)
  BY <1>2, <1>4a, <1>5 DEF HeldBy
<1>. QED  BY <1>6, <1>7, <1>8, <1>9, UpdateCurrentKeeps DEF KeepsCallbacks

LEMMA UpdateTreeKeeps ==
  ASSUME NEW s \in Surfaces, NEW st \in [Surfaces -> DoubleBuffered],
         \A x \in Surfaces : Clean(st[x])
  PROVE  /\ UpdateTree(s, st) \in [Surfaces -> DoubleBuffered]
         /\ \A x \in Surfaces : KeepsCallbacks(st[x], UpdateTree(s, st)[x])
<1>1. \A x \in Surfaces : UpdateTree(s, st)[x] \in {st[x], UpdateCurrent(st[x])}
  BY DEF UpdateTree
<1>2. \A x \in Surfaces : KeepsCallbacks(st[x], UpdateTree(s, st)[x])
  BY <1>1, UpdateCurrentKeeps DEF KeepsCallbacks
<1>. QED  BY <1>2 DEF UpdateTree, KeepsCallbacks

-----------------------------------------------------------------------------
(* The invariant *)

Inv == TypeOK /\ CallbackConservation

\* A step that only moves callbacks between the lists of their own surface.
LEMMA StateStepKeepsInv ==
  ASSUME Inv,
         state' \in [Surfaces -> DoubleBuffered],
         \A x \in Surfaces : KeepsCallbacks(state[x], state'[x]),
         UNCHANGED <<sink, done, asked>>
  PROVE  CallbackConservation'
<1>1. \A x \in Surfaces : Clean(state'[x]) /\ HeldBy(state'[x]) = HeldBy(state[x])
  BY DEF KeepsCallbacks
<1>2. Outgoing' = Outgoing /\ Requested' = Requested
  BY DEF Outgoing, Requested
<1>3. NoDuplicate'
  BY <1>1, <1>2 DEF Inv, CallbackConservation, NoDuplicate
<1>4. NoneLost'
  BY <1>1, <1>2 DEF Inv, CallbackConservation, NoneLost
<1>. QED  BY <1>3, <1>4 DEF CallbackConservation

LEMMA OtherStepKeepsInv ==
  ASSUME Inv, UNCHANGED <<state, sink, done, asked>>
  PROVE  CallbackConservation'
BY DEF Inv, CallbackConservation, NoDuplicate, NoneLost, Outgoing, Requested

LEMMA CommitKeeps ==
  ASSUME Inv, NEW s \in Surfaces, Commit(s)
  PROVE  /\ state' \in [Surfaces -> DoubleBuffered]
         /\ \A x \in Surfaces : KeepsCallbacks(state[x], state'[x])
<1>. DEFINE st == [state EXCEPT ![s] = ApplyPending(s, @)]
<1>1. state \in [Surfaces -> DoubleBuffered] /\ \A x \in Surfaces : Clean(state[x])
  BY DEF Inv, TypeOK, CallbackConservation, NoDuplicate
<1>2. KeepsCallbacks(state[s], ApplyPending(s, state[s]))
  BY <1>1, ApplyPendingKeeps
<1>3. \A x \in Surfaces : KeepsCallbacks(state[x], st[x])
  BY <1>1, <1>2 DEF KeepsCallbacks
<1>4. st \in [Surfaces -> DoubleBuffered] /\ \A x \in Surfaces : Clean(st[x])
  BY <1>1, <1>3 DEF KeepsCallbacks
<1>5. /\ UpdateTree(s, st) \in [Surfaces -> DoubleBuffered]
      /\ \A x \in Surfaces : KeepsCallbacks(st[x], UpdateTree(s, st)[x])
  <2>. HIDE DEF st
  <2>. QED  BY <1>4, UpdateTreeKeeps
<1>6. \A x \in Surfaces : KeepsCallbacks(state[x], UpdateTree(s, st)[x])
  BY <1>3, <1>5 DEF KeepsCallbacks
<1>7. state' \in {st, UpdateTree(s, st)}
  BY DEF Commit
<1>. QED  BY <1>3, <1>4, <1>5, <1>6, <1>7

LEMMA SetDesyncKeeps ==
  ASSUME Inv, NEW s \in Surfaces, SetDesync(s)
  PROVE  /\ state' \in [Surfaces -> DoubleBuffered]
         /\ \A x \in Surfaces : KeepsCallbacks(state[x], state'[x])
<1>1. state \in [Surfaces -> DoubleBuffered] /\ \A x \in Surfaces : Clean(state[x])
  BY DEF Inv, TypeOK, CallbackConservation, NoDuplicate
<1>2. \A x \in Surfaces : KeepsCallbacks(state[x], state[x])
  BY <1>1 DEF KeepsCallbacks
<1>3. state' \in {state, UpdateTree(s, state)}
  BY DEF SetDesync
<1>. QED  BY <1>1, <1>2, <1>3, UpdateTreeKeeps

LEMMA FrameKeepsInv ==
  ASSUME Inv, NEW s \in Surfaces, NEW cb \in Callbacks, Frame(s, cb)
  PROVE  CallbackConservation'
<1>. DEFINE pen == state[s].pending.callbacks
            held(x) == IF x = s THEN HeldBy(state[s]) \union {cb} ELSE HeldBy(state[x])
<1>. USE DEF Inv, TypeOK
<1>1. pen \in Seq(Callbacks) /\ Clean(state[s])
  BY DEF DoubleBuffered, StateType, CallbackConservation, NoDuplicate
<1>2. cb \notin Requested /\ \A x \in Surfaces : cb \notin Range(asked[x])
  BY DEF Frame, Requested
<1>3. cb \notin Outgoing /\ \A x \in Surfaces : cb \notin HeldBy(state[x])
  BY <1>2 DEF CallbackConservation, NoneLost
<1>4. cb \notin Range(pen) /\ Once(pen)
  BY <1>1, <1>3 DEF HeldBy, Clean
<1>5. /\ Range(Append(pen, cb)) = Range(pen) \union {cb}
      /\ Once(Append(pen, cb))
  BY <1>1, <1>4, AppendOnce
<1>6. /\ state'[s].pending.callbacks = Append(pen, cb)
      /\ state'[s].applied = state[s].applied
      /\ state'[s].current = state[s].current
      /\ \A x \in Surfaces \ {s} : state'[x] = state[x]
  BY DEF Frame, DoubleBuffered, StateType
<1>7. \A x \in Surfaces : Clean(state'[x])
  <2>1. Clean(state'[s])
    BY <1>1, <1>3, <1>5, <1>6 DEF Clean, HeldBy
  <2>. QED  BY <1>6, <2>1 DEF CallbackConservation, NoDuplicate
<1>8. \A x \in Surfaces : HeldBy(state'[x]) = held(x)
  BY <1>5, <1>6 DEF HeldBy
<1>9. Outgoing' = Outgoing /\ sink' = sink /\ done' = done
  BY DEF Frame, Outgoing
<1>10. NoDuplicate'
  <2>1. \A x \in Surfaces : held(x) \intersect Outgoing = {}
    BY <1>3 DEF CallbackConservation, NoDuplicate
  <2>2. \A x, y \in Surfaces : x # y => held(x) \intersect held(y) = {}
    BY <1>3 DEF CallbackConservation, NoDuplicate
  <2>. QED  BY <1>7, <1>8, <1>9, <2>1, <2>2 DEF CallbackConservation, NoDuplicate
<1>11. \A x \in Surfaces :
          Range(asked'[x]) = IF x = s THEN Range(asked[s]) \union {cb} ELSE Range(asked[x])
  <2>1. Range(Append(asked[s], cb)) = Range(asked[s]) \union {cb}
    BY AppendOnce
  <2>. QED  BY <2>1 DEF Frame
<1>12. NoneLost'
  <2>1. \A x \in Surfaces : held(x) \subseteq Range(asked'[x])
    BY <1>11 DEF CallbackConservation, NoneLost
  <2>2. \A x \in Surfaces : Range(asked'[x]) \subseteq held(x) \union Outgoing
    BY <1>11 DEF CallbackConservation, NoneLost
  <2>3. Requested \subseteq Requested'
    <3>1. \A x \in Surfaces : Range(asked[x]) \subseteq Range(asked'[x])
      BY <1>11
    <3>2. ASSUME NEW c \in Requested PROVE c \in Requested'
      <4>1. PICK x \in Surfaces : c \in Range(asked[x])
        BY <3>2 DEF Requested
      <4>2. c \in Range(asked'[x])
        BY <3>1, <4>1
      <4>. QED  BY <4>2 DEF Requested
    <3>. QED  BY <3>2
  <2>4. Outgoing' \subseteq Requested'
    BY <1>9, <2>3 DEF CallbackConservation, NoneLost
  <2>. QED  BY <1>8, <1>9, <2>1, <2>2, <2>4 DEF NoneLost
<1>. QED  BY <1>10, <1>12 DEF CallbackConservation

LEMMA FrameEventKeepsInv ==
  ASSUME Inv, NEW s \in Surfaces, FrameEvent(s)
  PROVE  CallbackConservation'
<1>. DEFINE cur == state[s].current.callbacks
            rest == Range(state[s].pending.callbacks)
                    \union Range(state[s].applied.callbacks)
            held(x) == IF x = s THEN rest ELSE HeldBy(state[x])
<1>. USE DEF Inv, TypeOK
<1>1. cur \in Seq(Callbacks) /\ sink \in Seq(Callbacks) /\ Clean(state[s])
  BY DEF DoubleBuffered, StateType, CallbackConservation, NoDuplicate
<1>2. /\ Range(cur) \subseteq HeldBy(state[s])
      /\ HeldBy(state[s]) = rest \union Range(cur)
      /\ rest \intersect Range(cur) = {}
  BY <1>1 DEF HeldBy, Clean
<1>3. Once(cur) /\ Once(sink) /\ Range(sink) \intersect Range(cur) = {}
  BY <1>1, <1>2 DEF Clean, CallbackConservation, NoDuplicate, Outgoing
<1>4. /\ sink' = sink \o cur
      /\ Range(sink') = Range(sink) \union Range(cur)
      /\ Once(sink')
  <2>1. sink' = sink \o cur
    BY DEF FrameEvent
  <2>. QED  BY <1>1, <1>3, <2>1, ConcatRange, ConcatOnce
<1>5. done' = done /\ asked' = asked /\ Outgoing' = Outgoing \union Range(cur)
  BY <1>4 DEF FrameEvent, Outgoing
<1>6. /\ state'[s].current.callbacks = <<>>
      /\ state'[s].applied = state[s].applied
      /\ state'[s].pending = state[s].pending
      /\ \A x \in Surfaces \ {s} : state'[x] = state[x]
  BY DEF FrameEvent, DoubleBuffered, StateType
<1>7. \A x \in Surfaces : Clean(state'[x])
  <2>1. Range(<<>>) = {} /\ Once(<<>>)
    BY DEF Range, Once
  <2>2. Clean(state'[s])
    BY <1>1, <1>6, <2>1 DEF Clean
  <2>. QED  BY <1>6, <2>2 DEF CallbackConservation, NoDuplicate
<1>8. \A x \in Surfaces : HeldBy(state'[x]) = held(x)
  <2>1. Range(<<>>) = {}
    BY DEF Range
  <2>. QED  BY <1>6, <2>1 DEF HeldBy
<1>9. NoDuplicate'
  <2>1. Range(sink') \intersect Range(done') = {} /\ Once(done')
    BY <1>2, <1>4, <1>5 DEF CallbackConservation, NoDuplicate, Outgoing
  <2>2. \A x \in Surfaces : held(x) \intersect Outgoing' = {}
    BY <1>2, <1>5 DEF CallbackConservation, NoDuplicate
  <2>3. \A x, y \in Surfaces : x # y => held(x) \intersect held(y) = {}
    BY <1>2 DEF CallbackConservation, NoDuplicate
  <2>. QED  BY <1>4, <1>7, <1>8, <2>1, <2>2, <2>3 DEF NoDuplicate
<1>10. NoneLost'
  <2>1. \A x \in Surfaces : held(x) \subseteq Range(asked[x])
    BY <1>2 DEF CallbackConservation, NoneLost
  <2>2. \A x \in Surfaces : Range(asked[x]) \subseteq held(x) \union Outgoing'
    BY <1>2, <1>5 DEF CallbackConservation, NoneLost
  <2>3. Range(cur) \subseteq Requested
    BY <1>2 DEF CallbackConservation, NoneLost, Requested
  <2>4. Outgoing' \subseteq Requested /\ Requested' = Requested
    BY <1>5, <2>3 DEF CallbackConservation, NoneLost, Requested
  <2>. QED  BY <1>5, <1>8, <2>1, <2>2, <2>4 DEF NoneLost
<1>. QED  BY <1>9, <1>10 DEF CallbackConservation

LEMMA SendDoneKeepsInv ==
  ASSUME Inv, SendDone
  PROVE  CallbackConservation'
<1>. DEFINE cb == Head(sink)
<1>. USE DEF Inv, TypeOK
<1>1. sink \in Seq(Callbacks) /\ done \in Seq(Callbacks) /\ sink # <<>>
      /\ Once(sink) /\ Once(done) /\ sink' = Tail(sink) /\ done' = Append(done, cb)
      /\ UNCHANGED <<state, asked>>
  BY DEF CallbackConservation, NoDuplicate, SendDone, surfaceVars
<1>2. /\ cb \in Callbacks
      /\ Range(sink) = Range(sink') \union {cb}
      /\ cb \notin Range(sink')
      /\ Once(sink')
  BY <1>1, HeadTailOnce
<1>3. cb \notin Range(done)
  BY <1>2 DEF CallbackConservation, NoDuplicate
<1>4. Range(done') = Range(done) \union {cb} /\ Once(done')
  BY <1>1, <1>2, <1>3, AppendOnce
<1>5. Outgoing' = Outgoing /\ Range(sink') \intersect Range(done') = {}
  BY <1>2, <1>4 DEF CallbackConservation, NoDuplicate, Outgoing
<1>6. NoDuplicate'
  BY <1>1, <1>2, <1>4, <1>5 DEF CallbackConservation, NoDuplicate
<1>7. NoneLost'
  BY <1>1, <1>5 DEF CallbackConservation, NoneLost, Requested
<1>. QED  BY <1>6, <1>7 DEF CallbackConservation

LEMMA InitInv == Init => Inv
<1>. SUFFICES ASSUME Init PROVE Inv
  OBVIOUS
<1>1. <<>> \in Seq(Callbacks) /\ Range(<<>>) = {} /\ Once(<<>>)
  BY DEF Range, Once
<1>2. EmptyState \in StateType
  BY <1>1 DEF EmptyState, StateType
<1>3. \A s \in Surfaces : state[s] = [pending |-> EmptyState, applied |-> EmptyState,
                                     current |-> EmptyState]
  BY DEF Init
<1>4. TypeOK
  BY <1>1, <1>2, FrameCapacityAssumption DEF Init, TypeOK, DoubleBuffered
<1>5. \A s \in Surfaces : Clean(state[s]) /\ HeldBy(state[s]) = {}
  BY <1>1, <1>3 DEF Clean, HeldBy, EmptyState
<1>6. Outgoing = {} /\ sink = <<>> /\ done = <<>>
  BY <1>1 DEF Init, Outgoing
<1>7. NoDuplicate
  BY <1>1, <1>5, <1>6 DEF NoDuplicate
<1>8. NoneLost
  BY <1>1, <1>5, <1>6 DEF NoneLost, Init
<1>. QED  BY <1>4, <1>7, <1>8 DEF Inv, CallbackConservation

LEMMA StepInv == Inv /\ [Next]_vars => Inv'
<1>. SUFFICES ASSUME Inv, [Next]_vars PROVE Inv'
  OBVIOUS
<1>. USE DEF surfaceVars, treeVars, taskVars
<1>0. TypeOK
  BY DEF Inv
<1>1. ASSUME NEW s \in Surfaces, CreateSurface(s) PROVE Inv'
  BY <1>0, <1>1, OtherStepKeepsInv DEF CreateSurface, Inv, TypeOK
<1>2. ASSUME NEW s \in Surfaces, NEW b \in Buffers \union {NoBuffer}, Attach(s, b)
      PROVE  Inv'
  <2>1. state' = [state EXCEPT ![s].pending.buffer = b]
    BY <1>2 DEF Attach
  <2>a. [state[s].pending EXCEPT !.buffer = b] \in StateType
    <3>1. state[s].pending \in StateType
      BY <1>0 DEF TypeOK, DoubleBuffered
    <3>. QED  BY <3>1, BufferEdit
  <2>b. [state[s] EXCEPT !.pending = [state[s].pending EXCEPT !.buffer = b]]
          \in DoubleBuffered
    BY <1>0, <2>a, DoubleBufferedEdit DEF TypeOK
  <2>2. state' \in [Surfaces -> DoubleBuffered]
    BY <1>0, <2>1, <2>b DEF TypeOK
  <2>3. ASSUME NEW x \in Surfaces PROVE KeepsCallbacks(state[x], state'[x])
    <3>1. /\ state'[x].pending.callbacks = state[x].pending.callbacks
          /\ state'[x].applied = state[x].applied
          /\ state'[x].current = state[x].current
      BY <1>0, <2>1 DEF TypeOK, DoubleBuffered, StateType
    <3>2. Clean(state[x])
      BY DEF Inv, CallbackConservation, NoDuplicate
    <3>. QED  BY <2>2, <3>1, <3>2 DEF KeepsCallbacks, Clean, HeldBy
  <2>4. CallbackConservation'
    BY <1>2, <2>2, <2>3, StateStepKeepsInv DEF Attach
  <2>. QED  BY <1>0, <1>2, <2>2, <2>4 DEF Attach, Inv, TypeOK
<1>3. ASSUME NEW s \in Surfaces, NEW cb \in Callbacks, Frame(s, cb) PROVE Inv'
  <2>1. state' = [state EXCEPT ![s].pending.callbacks = Append(@, cb)]
        /\ asked' = [asked EXCEPT ![s] = Append(@, cb)]
    BY <1>3 DEF Frame
  <2>a. [state[s].pending EXCEPT !.callbacks = Append(@, cb)] \in StateType
    <3>1. state[s].pending \in StateType
      BY <1>0 DEF TypeOK, DoubleBuffered
    <3>2. Append(state[s].pending.callbacks, cb) \in Seq(Callbacks)
      BY <3>1 DEF StateType
    <3>. QED  BY <3>1, <3>2, CallbacksEdit
  <2>b. [state[s] EXCEPT !.pending = [state[s].pending EXCEPT !.callbacks = Append(@, cb)]]
          \in DoubleBuffered
    BY <1>0, <2>a, DoubleBufferedEdit DEF TypeOK
  <2>2. state' \in [Surfaces -> DoubleBuffered] /\ asked' \in [Surfaces -> Seq(Callbacks)]
    BY <1>0, <2>1, <2>b DEF TypeOK
  <2>3. CallbackConservation'
    BY <1>3, FrameKeepsInv
  <2>. QED  BY <1>0, <1>3, <2>2, <2>3 DEF Frame, Inv, TypeOK
<1>4. ASSUME NEW s \in Surfaces, Commit(s) PROVE Inv'
  BY <1>0, <1>4, CommitKeeps, StateStepKeepsInv DEF Commit, Inv, TypeOK
<1>5. ASSUME NEW s \in Surfaces, Destroy(s) PROVE Inv'
  BY <1>0, <1>5, OtherStepKeepsInv DEF Destroy, Inv, TypeOK
<1>6. ASSUME NEW s \in Surfaces, NEW p \in Surfaces, GetSubsurface(s, p) PROVE Inv'
  BY <1>0, <1>6, OtherStepKeepsInv DEF GetSubsurface, Inv, TypeOK
<1>7. ASSUME NEW s \in Surfaces, NEW hasPanel \in BOOLEAN, DestroySubsurface(s, hasPanel)
      PROVE  Inv'
  BY <1>0, <1>7, OtherStepKeepsInv DEF DestroySubsurface, Inv, TypeOK
<1>8. ASSUME NEW s \in Surfaces, SetSync(s) PROVE Inv'
  BY <1>0, <1>8, OtherStepKeepsInv DEF SetSync, Inv, TypeOK
<1>9. ASSUME NEW s \in Surfaces, SetDesync(s) PROVE Inv'
  BY <1>0, <1>9, SetDesyncKeeps, StateStepKeepsInv DEF SetDesync, Inv, TypeOK
<1>10. ASSUME NEW s \in Surfaces, Lagged(s) PROVE Inv'
  BY <1>0, <1>10, OtherStepKeepsInv DEF Lagged, Inv, TypeOK
<1>11. ASSUME NEW s \in Surfaces, FrameEvent(s) PROVE Inv'
  <2>a. [state[s].current EXCEPT !.callbacks = <<>>] \in StateType
    <3>1. state[s].current \in StateType
      BY <1>0 DEF TypeOK, DoubleBuffered
    <3>2. <<>> \in Seq(Callbacks)
      OBVIOUS
    <3>. QED  BY <3>1, <3>2, CallbacksEdit
  <2>b. [state[s] EXCEPT !.current = [state[s].current EXCEPT !.callbacks = <<>>]]
          \in DoubleBuffered
    BY <1>0, <2>a, DoubleBufferedEdit DEF TypeOK
  <2>c. state' \in [Surfaces -> DoubleBuffered]
    BY <1>0, <1>11, <2>b DEF FrameEvent, TypeOK
  <2>d. state[s].current.callbacks \in Seq(Callbacks)
    BY <1>0 DEF TypeOK, DoubleBuffered, StateType
  <2>e. sink' \in Seq(Callbacks)
    BY <1>0, <1>11, <2>d, ConcatRange DEF FrameEvent, TypeOK
  <2>1. state' \in [Surfaces -> DoubleBuffered] /\ sink' \in Seq(Callbacks)
    BY <2>c, <2>e
  <2>2. ticks' \in [Surfaces -> 0..FrameCapacity]
    BY <1>0, <1>11, FrameCapacityAssumption DEF FrameEvent, TypeOK
  <2>3. CallbackConservation'
    BY <1>11, FrameEventKeepsInv
  <2>. QED  BY <1>0, <1>11, <2>1, <2>2, <2>3 DEF FrameEvent, Inv, TypeOK
<1>12. ASSUME NEW s \in Surfaces, FrameTaskEnds(s) PROVE Inv'
  BY <1>0, <1>12, OtherStepKeepsInv DEF FrameTaskEnds, Inv, TypeOK
<1>13. CASE CompositorFrame
  <2>1. ticks' \in [Surfaces -> 0..FrameCapacity] /\ lagged' \in [Surfaces -> BOOLEAN]
    BY <1>0, <1>13, FrameCapacityAssumption DEF CompositorFrame, TypeOK
  <2>. QED  BY <1>0, <1>13, <2>1, OtherStepKeepsInv DEF CompositorFrame, Inv, TypeOK
<1>14. CASE SendDone
  <2>1. sink' \in Seq(Callbacks) /\ done' \in Seq(Callbacks)
    BY <1>0, <1>14 DEF SendDone, TypeOK
  <2>. QED  BY <1>0, <1>14, <2>1, SendDoneKeepsInv DEF SendDone, Inv, TypeOK
<1>15. CASE UNCHANGED vars
  BY <1>0, <1>15, OtherStepKeepsInv DEF vars, Inv, TypeOK
<1>. QED
  BY <1>1, <1>2, <1>3, <1>4, <1>5, <1>6, <1>7, <1>8, <1>9, <1>10, <1>11, <1>12,
     <1>13, <1>14, <1>15 DEF Next, Request, FrameTask

-----------------------------------------------------------------------------
\* In every behaviour the variables keep their types.
THEOREM Typing == Spec => []TypeOK
<1>1. Inv => TypeOK
  BY DEF Inv
<1>. QED  BY <1>1, InitInv, StepInv, PTL DEF Spec

\* In every behaviour each requested frame callback is in exactly one place until
\* its done event is sent, once: for any tree of surfaces, any commits and any
\* frame events, lost ones included.
THEOREM Conservation == Spec => []CallbackConservation
<1>1. Inv => CallbackConservation
  BY DEF Inv
<1>. QED  BY <1>1, InitInv, StepInv, PTL DEF Spec

\* What a step queues comes from the current list of one surface.
LEMMA QueuesCurrent ==
  ASSUME Inv, [Next]_vars, NEW cb \in Range(sink')
  PROVE  cb \in Range(sink) \/ \E s \in Surfaces : cb \in Range(state[s].current.callbacks)
<1>. sink \in Seq(Callbacks) /\ Once(sink)
  BY DEF Inv, TypeOK, CallbackConservation, NoDuplicate
<1>1. ASSUME NEW s \in Surfaces, FrameEvent(s)
      PROVE  Range(sink') = Range(sink) \union Range(state[s].current.callbacks)
  <2>1. state[s].current.callbacks \in Seq(Callbacks)
    BY DEF Inv, TypeOK, DoubleBuffered, StateType
  <2>. QED  BY <1>1, <2>1, ConcatRange DEF FrameEvent
<1>2. CASE SendDone
  BY <1>2, HeadTailOnce DEF SendDone
<1>3. \/ UNCHANGED sink
      \/ SendDone
      \/ \E s \in Surfaces : FrameEvent(s)
  BY DEF Next, Request, FrameTask, vars, CreateSurface, Attach, Frame, Commit, Destroy,
     GetSubsurface, DestroySubsurface, SetSync, SetDesync, Lagged, FrameTaskEnds,
     CompositorFrame
<1>. QED  BY <1>1, <1>2, <1>3

\* A frame event never answers a callback before the commit that follows the request,
\* for any surfaces and any commits in between (surface.rs frame, frame_event).
THEOREM AfterCommit == Spec => OnlyCommittedFires
<1>1. Inv /\ [Next]_vars =>
        [\A s \in Surfaces :
           Range(state[s].pending.callbacks) \intersect Range(sink') = {}]_vars
  <2>. SUFFICES ASSUME Inv, [Next]_vars, NEW s \in Surfaces,
                       NEW cb \in Range(state[s].pending.callbacks), cb \in Range(sink')
                PROVE  FALSE
    OBVIOUS
  <2>1. cb \in HeldBy(state[s]) /\ cb \notin Range(sink)
    BY DEF Inv, CallbackConservation, NoDuplicate, HeldBy, Outgoing
  <2>2. PICK t \in Surfaces : cb \in Range(state[t].current.callbacks)
    BY <2>1, QueuesCurrent
  <2>3. t = s
    BY <2>1, <2>2 DEF Inv, CallbackConservation, NoDuplicate, HeldBy
  <2>. QED  BY <2>2, <2>3 DEF Inv, CallbackConservation, NoDuplicate, Clean
<1>. QED  BY <1>1, InitInv, StepInv, PTL DEF Spec, OnlyCommittedFires
-----------------------------------------------------------------------------
(* The order of the callbacks *)

\* What waits in a surface state, oldest first.
Waiting(st) == st.current.callbacks \o st.applied.callbacks \o st.pending.callbacks

LEMMA ConcatAssoc ==
  ASSUME NEW S, NEW a \in Seq(S), NEW b \in Seq(S), NEW c \in Seq(S)
  PROVE  (a \o b) \o c = a \o (b \o c)
<1>. DEFINE left == (a \o b) \o c
            right == a \o (b \o c)
<1>1. /\ left \in Seq(S) /\ Len(left) = Len(a) + Len(b) + Len(c)
      /\ right \in Seq(S) /\ Len(right) = Len(a) + Len(b) + Len(c)
  OBVIOUS
<1>2. ASSUME NEW i \in 1..Len(a) + Len(b) + Len(c) PROVE left[i] = right[i]
  <2>1. CASE i <= Len(a)
    BY <2>1
  <2>2. CASE i > Len(a) /\ i <= Len(a) + Len(b)
    BY <2>2
  <2>3. CASE i > Len(a) + Len(b)
    BY <2>3
  <2>. QED  BY <2>1, <2>2, <2>3
<1>. HIDE DEF left, right
<1>3. left = right
  BY <1>1, <1>2
<1>. QED  BY <1>3 DEF left, right

LEMMA CallbacksAssoc ==
  \A a, b, c \in Seq(Callbacks) : (a \o b) \o c = a \o (b \o c)
<1>. TAKE a, b, c \in Seq(Callbacks)
<1>. QED  BY ConcatAssoc

LEMMA ConcatEmpty ==
  ASSUME NEW S, NEW a \in Seq(S)
  PROVE  <<>> \in Seq(S) /\ a \o <<>> = a /\ <<>> \o a = a
OBVIOUS

\* What is put between two parts of a sequence leaves their order alone.
LEMMA InsertPrecedes ==
  ASSUME NEW S, NEW x \in Seq(S), NEW y \in Seq(S), NEW z \in Seq(S),
         NEW a, NEW b, Precedes(x \o z, a, b)
  PROVE  Precedes((x \o y) \o z, a, b)
<1>. DEFINE old == x \o z
            new == (x \o y) \o z
            at(k) == IF k <= Len(x) THEN k ELSE k + Len(y)
<1>1. PICK k \in DOMAIN old, l \in DOMAIN old : k < l /\ old[k] = a /\ old[l] = b
  BY DEF Precedes
<1>2. /\ old \in Seq(S) /\ Len(old) = Len(x) + Len(z)
      /\ new \in Seq(S) /\ Len(new) = Len(x) + Len(y) + Len(z)
      /\ Len(x) \in Nat /\ Len(y) \in Nat /\ Len(z) \in Nat
  OBVIOUS
<1>3. ASSUME NEW i \in 1..Len(x) + Len(z)
      PROVE  at(i) \in 1..Len(x) + Len(y) + Len(z) /\ new[at(i)] = old[i]
  <2>1. CASE i <= Len(x)
    BY <2>1
  <2>2. CASE i > Len(x)
    BY <2>2
  <2>. QED  BY <2>1, <2>2
<1>4. \A i, j \in 1..Len(x) + Len(z) : i < j => at(i) < at(j)
  BY <1>2
<1>5. k \in 1..Len(x) + Len(z) /\ l \in 1..Len(x) + Len(z)
  BY <1>1, <1>2
<1>6. DOMAIN new = 1..Len(x) + Len(y) + Len(z)
  BY <1>2
<1>7. /\ at(k) \in DOMAIN new /\ at(l) \in DOMAIN new /\ at(k) < at(l)
      /\ new[at(k)] = a /\ new[at(l)] = b
  BY <1>1, <1>3, <1>4, <1>5, <1>6
<1>. HIDE DEF new, at
<1>8. Precedes(new, a, b)
  BY <1>7 DEF Precedes
<1>. QED  BY <1>8 DEF new

\* A new element comes last.
LEMMA AppendPrecedes ==
  ASSUME NEW S, NEW q \in Seq(S), NEW e \in S
  PROVE  /\ \A a, b : Precedes(q, a, b) => Precedes(Append(q, e), a, b)
         /\ \A a \in Range(q) : Precedes(Append(q, e), a, e)
<1>. DEFINE new == Append(q, e)
<1>1. /\ Len(q) \in Nat /\ DOMAIN q = 1..Len(q)
      /\ new \in Seq(S) /\ DOMAIN new = 1..Len(q) + 1
      /\ \A i \in 1..Len(q) : new[i] = q[i]
      /\ new[Len(q) + 1] = e
  OBVIOUS
<1>. HIDE DEF new
<1>2. ASSUME NEW a, NEW b, Precedes(q, a, b) PROVE Precedes(new, a, b)
  <2>1. PICK k \in DOMAIN q, l \in DOMAIN q : k < l /\ q[k] = a /\ q[l] = b
    BY <1>2 DEF Precedes
  <2>2. /\ k \in DOMAIN new /\ l \in DOMAIN new /\ k < l
        /\ new[k] = a /\ new[l] = b
    BY <1>1, <2>1
  <2>. QED  BY <2>2 DEF Precedes
<1>3. ASSUME NEW a \in Range(q) PROVE Precedes(new, a, e)
  <2>1. PICK k \in DOMAIN q : q[k] = a
    BY DEF Range
  <2>2. /\ k \in DOMAIN new /\ Len(q) + 1 \in DOMAIN new /\ k < Len(q) + 1
        /\ new[k] = a /\ new[Len(q) + 1] = e
    BY <1>1, <2>1
  <2>. QED  BY <2>2 DEF Precedes
<1>. QED  BY <1>2, <1>3 DEF new

LEMMA UpdateCurrentOrder ==
  ASSUME NEW st \in DoubleBuffered
  PROVE  Waiting(UpdateCurrent(st)) = Waiting(st)
<1>1. /\ st.current.callbacks \in Seq(Callbacks)
      /\ st.applied.callbacks \in Seq(Callbacks)
  BY DEF DoubleBuffered, StateType
<1>2. (st.current.callbacks \o st.applied.callbacks) \o <<>>
        = st.current.callbacks \o st.applied.callbacks
  BY <1>1, ConcatRange, ConcatEmpty
<1>. QED  BY <1>2 DEF Waiting, UpdateCurrent, Merge, Drained

LEMMA ApplyPendingOrder ==
  ASSUME NEW s, NEW st \in DoubleBuffered
  PROVE  Waiting(ApplyPending(s, st)) = Waiting(st)
<1>. DEFINE cur == st.current.callbacks
            app == st.applied.callbacks
            pen == st.pending.callbacks
            mid == [pending |-> Drained(st.pending),
                    applied |-> Merge(st.applied, st.pending),
                    current |-> st.current]
<1>1. cur \in Seq(Callbacks) /\ app \in Seq(Callbacks) /\ pen \in Seq(Callbacks)
  BY DEF DoubleBuffered, StateType
<1>2. app \o pen \in Seq(Callbacks) /\ cur \o (app \o pen) \in Seq(Callbacks)
  BY <1>1, ConcatRange
<1>3. (cur \o app) \o pen = (cur \o (app \o pen)) \o <<>>
  <2>1. (cur \o app) \o pen = cur \o (app \o pen)
    BY <1>1, CallbacksAssoc
  <2>2. (cur \o (app \o pen)) \o <<>> = cur \o (app \o pen)
    BY <1>2, ConcatEmpty
  <2>. QED  BY <2>1, <2>2
<1>4. Waiting(mid) = Waiting(st)
  BY <1>3 DEF Waiting, Merge, Drained
<1>5. mid \in DoubleBuffered
  BY <1>1, <1>2, ConcatEmpty DEF Merge, Drained, DoubleBuffered, StateType
<1>6. ApplyPending(s, st) \in {mid, UpdateCurrent(mid)}
  BY DEF ApplyPending
<1>. HIDE DEF mid
<1>. QED  BY <1>4, <1>5, <1>6, UpdateCurrentOrder

LEMMA UpdateTreeOrder ==
  ASSUME NEW s \in Surfaces, NEW st \in [Surfaces -> DoubleBuffered]
  PROVE  \A x \in Surfaces : Waiting(UpdateTree(s, st)[x]) = Waiting(st[x])
<1>1. \A x \in Surfaces : UpdateTree(s, st)[x] \in {st[x], UpdateCurrent(st[x])}
  BY DEF UpdateTree
<1>. QED  BY <1>1, UpdateCurrentOrder

LEMMA CommitOrder ==
  ASSUME Inv, NEW s \in Surfaces, Commit(s) \/ SetDesync(s)
  PROVE  \A x \in Surfaces : Waiting(state'[x]) = Waiting(state[x])
<1>. DEFINE st == [state EXCEPT ![s] = ApplyPending(s, @)]
<1>1. state \in [Surfaces -> DoubleBuffered] /\ \A x \in Surfaces : Clean(state[x])
  BY DEF Inv, TypeOK, CallbackConservation, NoDuplicate
<1>2. ApplyPending(s, state[s]) \in DoubleBuffered
  BY <1>1, ApplyPendingKeeps DEF KeepsCallbacks
<1>3. /\ st \in [Surfaces -> DoubleBuffered]
      /\ \A x \in Surfaces : Waiting(st[x]) = Waiting(state[x])
  <2>1. Waiting(ApplyPending(s, state[s])) = Waiting(state[s])
    BY <1>1, ApplyPendingOrder
  <2>. QED  BY <1>1, <1>2, <2>1
<1>4. state' \in {state, st, UpdateTree(s, st), UpdateTree(s, state)}
  BY DEF Commit, SetDesync
<1>. HIDE DEF st
<1>. QED  BY <1>1, <1>3, <1>4, UpdateTreeOrder

\* A step that moves callbacks along the lists of their surface alone.
LEMMA StateStepKeepsOrder ==
  ASSUME FramePipeline,
         \A x \in Surfaces : Waiting(state'[x]) = Waiting(state[x]),
         UNCHANGED <<sink, done, asked>>
  PROVE  FramePipeline'
<1>1. \A x \in Surfaces : Pipeline(x)' = Pipeline(x)
  BY DEF Pipeline, Held, Waiting
<1>. QED  BY <1>1 DEF FramePipeline

LEMMA PathTypes ==
  ASSUME Inv, NEW s \in Surfaces
  PROVE  /\ done \in Seq(Callbacks) /\ sink \in Seq(Callbacks)
         /\ state[s].current.callbacks \in Seq(Callbacks)
         /\ state[s].applied.callbacks \in Seq(Callbacks)
         /\ state[s].pending.callbacks \in Seq(Callbacks)
         /\ asked[s] \in Seq(Callbacks)
         /\ Held(s) \in Seq(Callbacks) /\ done \o sink \in Seq(Callbacks)
         /\ Pipeline(s) \in Seq(Callbacks)
         /\ Range(Pipeline(s)) = Outgoing \union HeldBy(state[s])
<1>1. /\ done \in Seq(Callbacks) /\ sink \in Seq(Callbacks)
      /\ state[s].current.callbacks \in Seq(Callbacks)
      /\ state[s].applied.callbacks \in Seq(Callbacks)
      /\ state[s].pending.callbacks \in Seq(Callbacks)
      /\ asked[s] \in Seq(Callbacks)
  BY DEF Inv, TypeOK, DoubleBuffered, StateType
<1>2. Held(s) \in Seq(Callbacks) /\ Range(Held(s)) = HeldBy(state[s])
  <2>1. PICK cur, app, pen \in Seq(Callbacks) :
          /\ cur = state[s].current.callbacks
          /\ app = state[s].applied.callbacks
          /\ pen = state[s].pending.callbacks
    BY <1>1
  <2>2. cur \o app \in Seq(Callbacks) /\ Range(cur \o app) = Range(cur) \union Range(app)
    BY ConcatRange
  <2>3. PICK front \in Seq(Callbacks) : front = cur \o app
    BY <2>2
  <2>6. front \o pen \in Seq(Callbacks) /\ Range(front \o pen) = Range(front) \union Range(pen)
    BY ConcatRange
  <2>4. Held(s) = front \o pen
    BY <2>1, <2>3 DEF Held
  <2>5. HeldBy(state[s]) = Range(pen) \union Range(app) \union Range(cur)
    BY <2>1 DEF HeldBy
  <2>. QED  BY <2>2, <2>3, <2>6, <2>4, <2>5
<1>3. done \o sink \in Seq(Callbacks) /\ Range(done \o sink) = Outgoing
  BY <1>1, ConcatRange DEF Outgoing
<1>4. /\ Pipeline(s) \in Seq(Callbacks)
      /\ Range(Pipeline(s)) = Range(done \o sink) \union Range(Held(s))
  <2>1. PICK out, held \in Seq(Callbacks) : out = done \o sink /\ held = Held(s)
    BY <1>2, <1>3
  <2>2. out \o held \in Seq(Callbacks) /\ Range(out \o held) = Range(out) \union Range(held)
    BY ConcatRange
  <2>. QED  BY <2>1, <2>2 DEF Pipeline
<1>. QED  BY <1>1, <1>2, <1>3, <1>4

LEMMA FrameKeepsOrder ==
  ASSUME Inv, FramePipeline, NEW s \in Surfaces, NEW cb \in Callbacks, Frame(s, cb)
  PROVE  FramePipeline'
<1>1. /\ state \in [Surfaces -> DoubleBuffered] /\ asked \in [Surfaces -> Seq(Callbacks)]
      /\ state'[s].pending.callbacks = Append(state[s].pending.callbacks, cb)
      /\ state'[s].applied = state[s].applied
      /\ state'[s].current = state[s].current
      /\ \A x \in Surfaces \ {s} : state'[x] = state[x]
      /\ asked'[s] = Append(asked[s], cb)
      /\ \A x \in Surfaces \ {s} : asked'[x] = asked[x]
      /\ done' = done /\ sink' = sink
  BY DEF Frame, Inv, TypeOK, DoubleBuffered, StateType
<1>2. \A x \in Surfaces \ {s} : Pipeline(x)' = Pipeline(x)
  BY <1>1 DEF Pipeline, Held
<1>3. Pipeline(s)' = Append(Pipeline(s), cb)
  <2>1. \A a, b \in Seq(Callbacks) : a \o Append(b, cb) = Append(a \o b, cb)
    OBVIOUS
  <2>2. state[s].current.callbacks \o state[s].applied.callbacks \in Seq(Callbacks)
    BY PathTypes, ConcatRange
  <2>3. Held(s)' = Append(Held(s), cb)
    <3>1. Held(s)' = (state[s].current.callbacks \o state[s].applied.callbacks)
                       \o Append(state[s].pending.callbacks, cb)
      BY <1>1 DEF Held
    <3>2. state[s].pending.callbacks \in Seq(Callbacks)
      BY PathTypes
    <3>. QED  BY <3>1, <3>2, <2>1, <2>2 DEF Held
  <2>. QED  BY <1>1, <2>1, <2>3, PathTypes DEF Pipeline
<1>4. ASSUME NEW x \in Surfaces, NEW i \in DOMAIN asked'[x], NEW j \in DOMAIN asked'[x],
             i < j
      PROVE  Precedes(Pipeline(x)', asked'[x][i], asked'[x][j])
  <2>1. CASE x # s
    BY <1>1, <1>2, <1>4, <2>1 DEF FramePipeline
  <2>2. CASE x = s /\ j \in DOMAIN asked[s]
    <3>1. /\ i \in DOMAIN asked[s]
          /\ asked'[s][i] = asked[s][i] /\ asked'[s][j] = asked[s][j]
      BY <1>1, <1>4, <2>2
    <3>2. Precedes(Pipeline(s), asked[s][i], asked[s][j])
      BY <1>4, <2>2, <3>1 DEF FramePipeline
    <3>. QED  BY <1>3, <2>2, <3>1, <3>2, PathTypes, AppendPrecedes
  <2>3. CASE x = s /\ j \notin DOMAIN asked[s]
    <3>1. /\ i \in DOMAIN asked[s] /\ asked'[s][i] = asked[s][i]
          /\ asked'[s][j] = cb
      BY <1>1, <1>4, <2>3
    <3>2. asked[s][i] \in Range(asked[s])
      BY <3>1 DEF Range
    <3>3. asked[s][i] \in Range(Pipeline(s))
      BY <3>2, PathTypes DEF Inv, CallbackConservation, NoneLost
    <3>. QED  BY <1>3, <2>3, <3>1, <3>3, PathTypes, AppendPrecedes
  <2>. QED  BY <2>1, <2>2, <2>3
<1>. QED  BY <1>4 DEF FramePipeline

LEMMA FrameEventKeepsOrder ==
  ASSUME Inv, FramePipeline, NEW t \in Surfaces, FrameEvent(t)
  PROVE  FramePipeline'
<1>. DEFINE cur == state[t].current.callbacks
<1>1. /\ state \in [Surfaces -> DoubleBuffered]
      /\ state'[t].pending = state[t].pending
      /\ state'[t].applied = state[t].applied
      /\ state'[t].current.callbacks = <<>>
      /\ \A x \in Surfaces \ {t} : state'[x] = state[x]
      /\ asked' = asked /\ done' = done /\ sink' = sink \o cur
  BY DEF FrameEvent, Inv, TypeOK, DoubleBuffered, StateType
<1>2. /\ done \in Seq(Callbacks) /\ sink \in Seq(Callbacks) /\ cur \in Seq(Callbacks)
      /\ done \o sink \in Seq(Callbacks)
  BY PathTypes
<1>3. done' \o sink' = (done \o sink) \o cur
  BY <1>1, <1>2, CallbacksAssoc
<1>4. Pipeline(t)' = Pipeline(t)
  <2>. DEFINE app == state[t].applied.callbacks
              pen == state[t].pending.callbacks
  <2>1. app \in Seq(Callbacks) /\ pen \in Seq(Callbacks) /\ app \o pen \in Seq(Callbacks)
    BY PathTypes, ConcatRange
  <2>2. Held(t)' = app \o pen
    BY <1>1, <2>1, ConcatEmpty DEF Held
  <2>3. Held(t) = cur \o (app \o pen)
    BY <1>2, <2>1, CallbacksAssoc DEF Held
  <2>4. ((done \o sink) \o cur) \o (app \o pen) = (done \o sink) \o (cur \o (app \o pen))
    BY <1>2, <2>1, CallbacksAssoc
  <2>. QED  BY <1>3, <2>2, <2>3, <2>4 DEF Pipeline
<1>5. ASSUME NEW x \in Surfaces, x # t, NEW a, NEW b, Precedes(Pipeline(x), a, b)
      PROVE  Precedes(Pipeline(x)', a, b)
  <2>1. Pipeline(x)' = ((done \o sink) \o cur) \o Held(x)
    BY <1>1, <1>3, <1>5 DEF Pipeline, Held
  <2>2. Held(x) \in Seq(Callbacks)
    BY PathTypes
  <2>. QED  BY <1>2, <1>5, <2>1, <2>2, InsertPrecedes DEF Pipeline
<1>. QED  BY <1>1, <1>4, <1>5 DEF FramePipeline

LEMMA SendDoneKeepsOrder ==
  ASSUME Inv, FramePipeline, SendDone
  PROVE  FramePipeline'
<1>1. sink \in Seq(Callbacks) /\ done \in Seq(Callbacks) /\ sink # <<>>
  BY DEF SendDone, Inv, TypeOK
<1>2. Append(done, Head(sink)) \o Tail(sink) = done \o sink
  <2>. DEFINE left == Append(done, Head(sink)) \o Tail(sink)
              right == done \o sink
  <2>1. /\ Len(sink) \in Nat \ {0} /\ Len(done) \in Nat
        /\ Append(done, Head(sink)) \in Seq(Callbacks)
        /\ Len(Append(done, Head(sink))) = Len(done) + 1
        /\ Tail(sink) \in Seq(Callbacks) /\ Len(Tail(sink)) = Len(sink) - 1
    BY <1>1
  <2>2. /\ left \in Seq(Callbacks) /\ Len(left) = Len(done) + Len(sink)
        /\ right \in Seq(Callbacks) /\ Len(right) = Len(done) + Len(sink)
    BY <1>1, <2>1
  <2>3. ASSUME NEW i \in 1..Len(done) + Len(sink) PROVE left[i] = right[i]
    <3>1. CASE i <= Len(done)
      BY <1>1, <2>1, <3>1
    <3>2. CASE i = Len(done) + 1
      BY <1>1, <2>1, <3>2
    <3>3. CASE i > Len(done) + 1
      BY <1>1, <2>1, <3>3
    <3>. QED  BY <3>1, <3>2, <3>3, <2>1
  <2>. HIDE DEF left, right
  <2>4. left = right
    BY <2>2, <2>3
  <2>. QED  BY <2>4 DEF left, right
<1>3. \A x \in Surfaces : Pipeline(x)' = Pipeline(x)
  BY <1>2 DEF SendDone, surfaceVars, Pipeline, Held
<1>. QED  BY <1>3 DEF FramePipeline, SendDone

LEMMA OrderInit == Init => FramePipeline
BY DEF Init, FramePipeline

LEMMA OrderStep == Inv /\ FramePipeline /\ [Next]_vars => FramePipeline'
<1>. SUFFICES ASSUME Inv, FramePipeline, [Next]_vars PROVE FramePipeline'
  OBVIOUS
<1>1. ASSUME NEW s \in Surfaces, Commit(s) \/ SetDesync(s) PROVE FramePipeline'
  BY <1>1, CommitOrder, StateStepKeepsOrder DEF Commit, SetDesync
<1>2. ASSUME NEW s \in Surfaces, NEW cb \in Callbacks, Frame(s, cb) PROVE FramePipeline'
  BY <1>2, FrameKeepsOrder
<1>3. ASSUME NEW s \in Surfaces, NEW b \in Buffers \union {NoBuffer}, Attach(s, b)
      PROVE  FramePipeline'
  <2>0. state \in [Surfaces -> DoubleBuffered]
    BY DEF Inv, TypeOK
  <2>1. \A x \in Surfaces : /\ state'[x].current = state[x].current
                            /\ state'[x].applied = state[x].applied
                            /\ state'[x].pending.callbacks = state[x].pending.callbacks
    BY <1>3, <2>0 DEF Attach, DoubleBuffered, StateType
  <2>2. \A x \in Surfaces : Waiting(state'[x]) = Waiting(state[x])
    BY <2>1 DEF Waiting
  <2>. QED  BY <1>3, <2>2, StateStepKeepsOrder DEF Attach
<1>4. ASSUME NEW s \in Surfaces, FrameEvent(s) PROVE FramePipeline'
  BY <1>4, FrameEventKeepsOrder
<1>5. CASE SendDone
  BY <1>5, SendDoneKeepsOrder
<1>6. CASE UNCHANGED <<state, sink, done, asked>>
  BY <1>6, StateStepKeepsOrder
<1>7. \/ \E s \in Surfaces : Commit(s) \/ SetDesync(s) \/ FrameEvent(s)
      \/ \E s \in Surfaces, cb \in Callbacks : Frame(s, cb)
      \/ \E s \in Surfaces, b \in Buffers \union {NoBuffer} : Attach(s, b)
      \/ SendDone
      \/ UNCHANGED <<state, sink, done, asked>>
  BY DEF Next, Request, FrameTask, vars, surfaceVars, CreateSurface, Destroy,
     GetSubsurface, DestroySubsurface, SetSync, Lagged, FrameTaskEnds, CompositorFrame
<1>. QED  BY <1>1, <1>2, <1>3, <1>4, <1>5, <1>6, <1>7

\* In every behaviour the callbacks of a surface are answered in the order of
\* their requests, and wait in that order until then: for any tree of surfaces,
\* any commits and any frame events, of any number of surfaces at once.
THEOREM InOrder == Spec => []FramePipeline
<1>1. Spec => [](Inv /\ FramePipeline)
  <2>1. Inv /\ FramePipeline /\ [Next]_vars => (Inv /\ FramePipeline)'
    BY StepInv, OrderStep
  <2>. QED  BY <2>1, InitInv, OrderInit, PTL DEF Spec
<1>. QED  BY <1>1, PTL

-----------------------------------------------------------------------------
(* SurfaceCommit implements the promise of FrameCallbacks: each of its      *)
(* steps is a step of the promise or changes nothing the promise speaks of. *)

PendingOf(s) == Range(state[s].pending.callbacks)

\* Only live surfaces take requests.
ObjectsLive == \A s \in Surfaces : object[s] => life[s] = "live"

LEMMA ObjectsLiveInit == Init => ObjectsLive
BY DEF Init, ObjectsLive

LEMMA ObjectsLiveStep == TypeOK /\ ObjectsLive /\ [Next]_vars => ObjectsLive'
<1>. SUFFICES ASSUME TypeOK, ObjectsLive, [Next]_vars PROVE ObjectsLive'
  OBVIOUS
<1>. USE DEF TypeOK, ObjectsLive
<1>1. ASSUME NEW s \in Surfaces, CreateSurface(s) PROVE ObjectsLive'
  BY <1>1 DEF CreateSurface
<1>2. ASSUME NEW s \in Surfaces, Destroy(s) PROVE ObjectsLive'
  BY <1>2 DEF Destroy
<1>3. ASSUME NEW s \in Surfaces, NEW hasPanel \in BOOLEAN, DestroySubsurface(s, hasPanel)
      PROVE  ObjectsLive'
  BY <1>3 DEF DestroySubsurface
<1>4. CASE UNCHANGED <<life, object>>
  BY <1>4
<1>5. \/ \E s \in Surfaces : CreateSurface(s) \/ Destroy(s)
      \/ \E s \in Surfaces, hasPanel \in BOOLEAN : DestroySubsurface(s, hasPanel)
      \/ UNCHANGED <<life, object>>
  BY DEF Next, Request, FrameTask, vars, surfaceVars, Attach, Frame, Commit, GetSubsurface,
         SetSync, SetDesync, Lagged, FrameEvent, FrameTaskEnds, CompositorFrame, SendDone
<1>. QED  BY <1>1, <1>2, <1>3, <1>4, <1>5

\* A step that leaves requests and answers alone, and moves no callback back to
\* pending, makes callbacks effective.
LEMMA TakesEffect ==
  ASSUME \A s \in Surfaces : PendingOf(s)' \subseteq PendingOf(s),
         UNCHANGED <<asked, done, life>>
  PROVE  Promise!TakeEffect
<1>1. Requested' = Requested /\ Waived' = Waived
  BY DEF Requested, Waived
<1>2. Pending' \subseteq Pending
  BY DEF Pending, PendingOf
<1>. QED  BY <1>1, <1>2 DEF Promise!TakeEffect

\* A step that leaves the promise's state alone, but for surfaces that are dropped.
LEMMA SurfacesGo ==
  ASSUME UNCHANGED <<state, asked, done>>,
         \A s \in Surfaces : life[s] = "dropped" => life'[s] = "dropped"
  PROVE  Promise!SurfaceGoes
<1>1. Requested' = Requested /\ Pending' = Pending
  BY DEF Requested, Pending
<1>2. Waived \subseteq Waived' /\ Waived' \subseteq Requested
  BY DEF Waived, Requested
<1>. QED  BY <1>1, <1>2 DEF Promise!SurfaceGoes

LEMMA CommitEmptiesPending ==
  ASSUME NEW s \in Surfaces, Inv, Commit(s) \/ SetDesync(s)
  PROVE  \A x \in Surfaces : PendingOf(x)' \subseteq PendingOf(x)
<1>. DEFINE st == [state EXCEPT ![s] = ApplyPending(s, @)]
<1>1. state \in [Surfaces -> DoubleBuffered]
  BY DEF Inv, TypeOK
<1>2. \A y, z : UpdateCurrent(z).pending = z.pending
  BY DEF UpdateCurrent
<1>3. \A z : ApplyPending(s, z).pending.callbacks = <<>>
  BY DEF ApplyPending, UpdateCurrent, Drained
<1>4. \A f, x : x \in Surfaces => UpdateTree(s, f)[x].pending = f[x].pending
  BY <1>2 DEF UpdateTree
<1>5. \A x \in Surfaces : \/ st[x].pending = state[x].pending
                          \/ st[x].pending.callbacks = <<>>
  BY <1>1, <1>3
<1>6. state' \in {state, st, UpdateTree(s, st), UpdateTree(s, state)}
  BY DEF Commit, SetDesync
<1>7. \A x \in Surfaces : \/ state'[x].pending = state[x].pending
                          \/ state'[x].pending.callbacks = <<>>
  <2>. HIDE DEF st
  <2>. QED  BY <1>4, <1>5, <1>6
<1>8. Range(<<>>) = {}
  BY DEF Range
<1>. QED  BY <1>7, <1>8 DEF PendingOf

LEMMA FrameAsks ==
  ASSUME NEW s \in Surfaces, NEW cb \in Callbacks, Inv, ObjectsLive, Frame(s, cb)
  PROVE  Promise!Ask(cb)
<1>1. /\ state[s].pending.callbacks \in Seq(Callbacks) /\ asked[s] \in Seq(Callbacks)
      /\ state \in [Surfaces -> DoubleBuffered] /\ asked \in [Surfaces -> Seq(Callbacks)]
  BY DEF Inv, TypeOK, DoubleBuffered, StateType
<1>2. /\ Range(asked'[s]) = Range(asked[s]) \union {cb}
      /\ \A x \in Surfaces \ {s} : asked'[x] = asked[x]
  BY <1>1, AppendOnce DEF Frame
<1>3. state'[s].pending.callbacks = Append(state[s].pending.callbacks, cb)
  BY <1>1 DEF Frame, DoubleBuffered, StateType
<1>4. /\ PendingOf(s)' = PendingOf(s) \union {cb}
      /\ \A x \in Surfaces \ {s} : PendingOf(x)' = PendingOf(x)
  <2>1. PendingOf(s)' = PendingOf(s) \union {cb}
    BY <1>1, <1>3, AppendOnce DEF PendingOf
  <2>2. \A x \in Surfaces \ {s} : state'[x] = state[x]
    BY <1>1 DEF Frame
  <2>. QED  BY <2>1, <2>2 DEF PendingOf
<1>5. Requested' = Requested \union {cb} /\ cb \notin Requested
  BY <1>2 DEF Requested, Frame
<1>6. Pending' = Pending \union {cb}
  BY <1>4 DEF Pending, PendingOf
<1>7. Waived' = Waived
  <2>1. life' = life /\ life[s] # "dropped"
    BY DEF Frame, ObjectsLive
  <2>. QED  BY <1>2, <2>1 DEF Waived
<1>8. (Requested \ Pending)' = Requested \ Pending
  BY <1>5, <1>6
<1>9. done' = done
  BY DEF Frame
<1>. QED  BY <1>5, <1>7, <1>8, <1>9 DEF Promise!Ask

LEMMA SendDoneAnswers ==
  ASSUME Inv, SendDone
  PROVE  \E cb \in Callbacks : Promise!Answer(cb)
<1>. DEFINE cb == Head(sink)
<1>1. sink \in Seq(Callbacks) /\ done \in Seq(Callbacks) /\ sink # <<>>
  BY DEF Inv, TypeOK, SendDone
<1>2. Once(sink) /\ Range(sink) \intersect Range(done) = {}
  BY DEF Inv, CallbackConservation, NoDuplicate
<1>3. cb \in Callbacks /\ cb \in Range(sink)
  BY <1>1, <1>2, HeadTailOnce
<1>4. done' = Append(done, cb)
  BY DEF SendDone
<1>5. Range(done') = Range(done) \union {cb}
  BY <1>1, <1>3, <1>4, AppendOnce
<1>6. cb \notin Range(done)
  BY <1>2, <1>3
<1>7. cb \in Requested
  BY <1>3 DEF Inv, CallbackConservation, NoneLost, Outgoing
<1>8. cb \notin Pending
  BY <1>3 DEF Inv, CallbackConservation, NoDuplicate, HeldBy, Outgoing, Pending
<1>9. UNCHANGED <<Requested, Pending, Waived>>
  BY DEF SendDone, surfaceVars, Requested, Pending, Waived
<1>. HIDE DEF cb
<1>10. Promise!Answer(cb)
  BY <1>5, <1>6, <1>7, <1>8, <1>9 DEF Promise!Answer
<1>. QED  BY <1>3, <1>10

LEMMA FrameEventKeepsPending ==
  ASSUME NEW s \in Surfaces, Inv, FrameEvent(s)
  PROVE  Promise!TakeEffect
<1>1. \A x \in Surfaces : state'[x].pending = state[x].pending
  BY DEF FrameEvent, Inv, TypeOK, DoubleBuffered
<1>. QED  BY <1>1, TakesEffect DEF FrameEvent, PendingOf

LEMMA AttachKeepsPending ==
  ASSUME NEW s \in Surfaces, NEW b \in Buffers \union {NoBuffer}, Inv, Attach(s, b)
  PROVE  Promise!TakeEffect
<1>1. \A x \in Surfaces : state'[x].pending.callbacks = state[x].pending.callbacks
  BY DEF Attach, Inv, TypeOK, DoubleBuffered, StateType
<1>. QED  BY <1>1, TakesEffect DEF Attach, PendingOf

LEMMA StepKeepsPromise ==
  Inv /\ ObjectsLive /\ [Next]_vars => [Promise!PromiseNext]_(Promise!promiseVars)
<1>. SUFFICES ASSUME Inv, ObjectsLive, [Next]_vars
              PROVE  Promise!PromiseNext \/ UNCHANGED Promise!promiseVars
  OBVIOUS
<1>1. ASSUME NEW s \in Surfaces, Commit(s) \/ SetDesync(s) PROVE Promise!TakeEffect
  BY <1>1, CommitEmptiesPending, TakesEffect DEF Commit, SetDesync
<1>2. ASSUME NEW s \in Surfaces, NEW cb \in Callbacks, Frame(s, cb)
      PROVE  \E c \in Callbacks : Promise!Ask(c)
  BY <1>2, FrameAsks
<1>3. ASSUME NEW s \in Surfaces, NEW b \in Buffers \union {NoBuffer}, Attach(s, b)
      PROVE  Promise!TakeEffect
  BY <1>3, AttachKeepsPending
<1>4. ASSUME NEW s \in Surfaces, FrameEvent(s) PROVE Promise!TakeEffect
  BY <1>4, FrameEventKeepsPending
<1>5. CASE SendDone
  BY <1>5, SendDoneAnswers DEF Promise!PromiseNext
<1>6. CASE /\ UNCHANGED <<state, asked, done>>
           /\ \A s \in Surfaces : life[s] = "dropped" => life'[s] = "dropped"
  BY <1>6, SurfacesGo DEF Promise!PromiseNext
<1>7. TypeOK
  BY DEF Inv
<1>8. \/ \E s \in Surfaces : Commit(s) \/ SetDesync(s) \/ FrameEvent(s)
      \/ \E s \in Surfaces, cb \in Callbacks : Frame(s, cb)
      \/ \E s \in Surfaces, b \in Buffers \union {NoBuffer} : Attach(s, b)
      \/ SendDone
      \/ /\ UNCHANGED <<state, asked, done>>
         /\ \A s \in Surfaces : life[s] = "dropped" => life'[s] = "dropped"
  BY <1>7 DEF Next, Request, FrameTask, vars, surfaceVars, CreateSurface, Destroy,
     GetSubsurface, DestroySubsurface, SetSync, Lagged, FrameTaskEnds, CompositorFrame, TypeOK
<1>. QED  BY <1>1, <1>2, <1>3, <1>4, <1>5, <1>6, <1>8 DEF Promise!PromiseNext

LEMMA InitKeepsPromise == Init => Promise!PromiseInit
<1>. SUFFICES ASSUME Init PROVE Promise!PromiseInit
  OBVIOUS
<1>1. Range(<<>>) = {}
  BY DEF Range
<1>2. \A s \in Surfaces : asked[s] = <<>> /\ life[s] = "unborn"
  BY DEF Init
<1>3. Requested = {} /\ Waived = {}
  BY <1>1, <1>2 DEF Requested, Waived
<1>. QED  BY <1>1, <1>3 DEF Init, Promise!PromiseInit

\* The detailed specification implements the abstract one: a frame callback is
\* answered once, and only after a commit made it effective, whatever the tree of
\* surfaces, the commits and the frame events that are lost.
THEOREM Refinement == Spec => KeepsPromise
<1>1. Inv => TypeOK
  BY DEF Inv
<1>2. Spec => [](Inv /\ ObjectsLive)
  <2>1. Inv /\ ObjectsLive /\ [Next]_vars => (Inv /\ ObjectsLive)'
    BY <1>1, StepInv, ObjectsLiveStep
  <2>. QED  BY <2>1, InitInv, ObjectsLiveInit, PTL DEF Spec
<1>. QED
  BY <1>2, InitKeepsPromise, StepKeepsPromise, PTL DEF Spec, KeepsPromise, Promise!PromiseSpec
-----------------------------------------------------------------------------
(* What a commit made effective stays within reach of its answer *)

\* Nothing stays in the applied state, and the frame task of a surface runs from its
\* first request to its end.
InReach ==
  /\ \A s \in Surfaces : state[s].applied.callbacks = <<>>
  /\ \A s \in Surfaces : life[s] = "live" => task[s] = "running"
  /\ \A s \in Surfaces : asked[s] # <<>> => life[s] # "unborn"

LEMMA InReachInit == Init => InReach
BY DEF Init, InReach, EmptyState

LEMMA AppliedStaysEmpty ==
  ASSUME TypeOK, InReach, [Next]_vars
  PROVE  \A x \in Surfaces : state'[x].applied.callbacks = <<>>
<1>. DEFINE Empty(st) == \A x \in Surfaces : st[x].applied.callbacks = <<>>
<1>t. state \in [Surfaces -> DoubleBuffered] /\ Empty(state)
  BY DEF TypeOK, InReach
<1>e. \A st : UpdateCurrent(st).applied.callbacks = <<>>
  BY DEF UpdateCurrent, Drained
<1>1. ASSUME NEW s \in Surfaces, NEW st \in [Surfaces -> DoubleBuffered], Empty(st)
      PROVE  Empty(UpdateTree(s, st))
  BY <1>1, <1>e DEF UpdateTree
<1>2. ASSUME NEW s \in Surfaces, Commit(s) \/ SetDesync(s) PROVE Empty(state')
  <2>1. ApplyPending(s, state[s]).applied.callbacks = <<>>
    BY <1>e DEF ApplyPending, ManagerRequiresSync
  <2>2. PICK st : st = [state EXCEPT ![s] = ApplyPending(s, @)]
    OBVIOUS
  <2>3. Empty(st)
    BY <1>t, <2>1, <2>2
  <2>4. \A x \in Surfaces : UpdateTree(s, st)[x].applied.callbacks = <<>>
                           /\ UpdateTree(s, state)[x].applied.callbacks = <<>>
    BY <1>t, <1>e, <2>3 DEF UpdateTree
  <2>5. state' \in {state, st, UpdateTree(s, st), UpdateTree(s, state)}
    BY <1>2, <2>2 DEF Commit, SetDesync
  <2>. QED  BY <1>t, <2>3, <2>4, <2>5
<1>3. ASSUME NEW s \in Surfaces, NEW b, Attach(s, b) PROVE Empty(state')
  BY <1>3, <1>t DEF Attach, DoubleBuffered
<1>4. ASSUME NEW s \in Surfaces, NEW cb, Frame(s, cb) PROVE Empty(state')
  BY <1>4, <1>t DEF Frame, DoubleBuffered
<1>5. ASSUME NEW s \in Surfaces, FrameEvent(s) PROVE Empty(state')
  BY <1>5, <1>t DEF FrameEvent, DoubleBuffered
<1>6. CASE UNCHANGED state
  BY <1>6, <1>t
<1>7. \/ \E s \in Surfaces : Commit(s) \/ SetDesync(s) \/ FrameEvent(s)
      \/ \E s \in Surfaces, b \in Buffers \union {NoBuffer} : Attach(s, b)
      \/ \E s \in Surfaces, cb \in Callbacks : Frame(s, cb)
      \/ UNCHANGED state
  BY DEF Next, Request, FrameTask, vars, surfaceVars, CreateSurface, Destroy, GetSubsurface,
         DestroySubsurface, SetSync, Lagged, FrameTaskEnds, CompositorFrame, SendDone
<1>. QED  BY <1>2, <1>3, <1>4, <1>5, <1>6, <1>7

LEMMA TaskStaysRunning ==
  ASSUME TypeOK, InReach, ObjectsLive, [Next]_vars
  PROVE  \A x \in Surfaces : /\ life'[x] = "live" => task'[x] = "running"
                             /\ asked'[x] # <<>> => life'[x] # "unborn"
<1>. DEFINE Goal == \A x \in Surfaces : /\ life'[x] = "live" => task'[x] = "running"
                                        /\ asked'[x] # <<>> => life'[x] # "unborn"
<1>. USE DEF TypeOK, InReach
<1>1. ASSUME NEW s \in Surfaces, CreateSurface(s) PROVE Goal
  BY <1>1 DEF CreateSurface
<1>2. ASSUME NEW s \in Surfaces, FrameTaskEnds(s) PROVE Goal
  BY <1>2 DEF FrameTaskEnds, surfaceVars
<1>3. ASSUME NEW s \in Surfaces, NEW cb, Frame(s, cb) PROVE Goal
  BY <1>3 DEF Frame, ObjectsLive, taskVars
<1>4. ASSUME UNCHANGED <<task, asked>>,
             \A x \in Surfaces : life'[x] = life[x] \/ life'[x] = "dropped"
      PROVE  Goal
  BY <1>4
<1>5. \/ \E s \in Surfaces : CreateSurface(s) \/ FrameTaskEnds(s)
      \/ \E s \in Surfaces, cb \in Callbacks : Frame(s, cb)
      \/ /\ UNCHANGED <<task, asked>>
         /\ \A x \in Surfaces : life'[x] = life[x] \/ life'[x] = "dropped"
  <2>1. ASSUME NEW s \in Surfaces, Destroy(s) \/ \E p \in BOOLEAN : DestroySubsurface(s, p)
        PROVE  /\ UNCHANGED <<task, asked>>
               /\ \A x \in Surfaces : life'[x] = life[x] \/ life'[x] = "dropped"
    BY <2>1 DEF Destroy, DestroySubsurface, taskVars
  <2>2. \/ \E s \in Surfaces : CreateSurface(s) \/ FrameTaskEnds(s) \/ Destroy(s)
        \/ \E s \in Surfaces, cb \in Callbacks : Frame(s, cb)
        \/ \E s \in Surfaces, p \in BOOLEAN : DestroySubsurface(s, p)
        \/ UNCHANGED <<task, asked, life>>
    BY DEF Next, Request, FrameTask, vars, surfaceVars, taskVars, Attach, Commit,
           GetSubsurface, SetSync, SetDesync, Lagged, FrameEvent, CompositorFrame, SendDone
  <2>. QED  BY <2>1, <2>2
<1>. QED  BY <1>1, <1>2, <1>3, <1>4, <1>5

\* A callback that a commit made effective is on its way to its answer, or current on a
\* surface whose frame task takes it at the next frame event (Surface::on_commit, the
\* task of Surface::new): nothing but a frame event has to come, however deep the tree
\* of subsurfaces and however many events a receiver lost.
THEOREM AnswerInReach == Spec => []EffectiveInReach
<1>1. Inv /\ ObjectsLive /\ InReach /\ [Next]_vars => (Inv /\ ObjectsLive /\ InReach)'
  <2>. SUFFICES ASSUME Inv, ObjectsLive, InReach, [Next]_vars
                PROVE  Inv' /\ ObjectsLive' /\ InReach'
    OBVIOUS
  <2>1. TypeOK
    BY DEF Inv
  <2>2. InReach'
    BY <2>1, AppliedStaysEmpty, TaskStaysRunning DEF InReach
  <2>. QED  BY <2>1, <2>2, StepInv, ObjectsLiveStep
<1>2. Inv /\ InReach => EffectiveInReach
  <2>. SUFFICES ASSUME Inv, InReach, NEW s \in Surfaces,
                       NEW cb \in Range(asked[s]) \ Range(state[s].pending.callbacks),
                       cb \notin Outgoing
                PROVE  /\ cb \in Range(state[s].current.callbacks)
                       /\ task[s] = "running" \/ life[s] = "dropped"
    BY DEF EffectiveInReach
  <2>1. Range(<<>>) = {}
    BY DEF Range
  <2>2. cb \in Range(state[s].current.callbacks)
    BY <2>1 DEF Inv, CallbackConservation, NoneLost, HeldBy, InReach
  <2>3. life[s] \in {"live", "dropped"}
    BY <2>1 DEF Inv, TypeOK, InReach
  <2>. QED  BY <2>2, <2>3 DEF InReach
<1>. QED  BY <1>1, <1>2, InitInv, ObjectsLiveInit, InReachInit, PTL DEF Spec
=============================================================================
