---------------------------- MODULE SurfaceCommit ----------------------------
(***************************************************************************)
(* The double-buffered state of the wl_surfaces of one client and the path *)
(* of a wl_callback through it (core/surface.rs, core/subcompositor.rs,    *)
(* util.rs, socket.rs).                                                    *)
(*                                                                         *)
(* A frame request appends a callback to the surface's pending state; a    *)
(* commit moves it to applied and on to current; the surface's frame task  *)
(* takes the current callbacks at a frame event of the XR compositor and   *)
(* sends them to the client's dispatch loop, which sends wl_callback.done. *)
(* Requests run on the client's dispatch task, frame events on one task    *)
(* per surface: both take the surface's state lock, so one step each.      *)
(***************************************************************************)
EXTENDS Naturals, Sequences, FiniteSets, Functions

CONSTANTS Surfaces,      \* wl_surface objects the client may create
          Callbacks,     \* wl_callback ids, each used once
          Buffers,       \* contents a surface may show
          NoSurface, NoBuffer,
          FrameCapacity  \* frame events a receiver of the broadcast channel holds

ASSUME FrameCapacityAssumption == FrameCapacity \in Nat \ {0}
ASSUME NullAssumption == NoSurface \notin Surfaces /\ NoBuffer \notin Buffers

VARIABLES
  \* wl_surface objects
  life,        \* "unborn", "live" (some Arc holds it) or "dropped"
  object,      \* the client's object map still holds the wl_surface
  state,       \* pending, applied and current state
  \* subsurface relation
  role,        \* "none" or "Subsurface", set once
  parent,      \* OnceLock: the first parent stays
  filter,      \* requires_parent_sync holds a filter
  subsurface,  \* a wl_subsurface object for the surface exists
  isSync,      \* its is_sync flag
  \* frame task of each surface
  task,        \* "none", "running" or "ended"
  ticks,       \* frame events waiting in its receiver
  lagged,      \* its receiver has lost events: the next recv returns Lagged
  \* dispatch loop
  sink,        \* callbacks of the Frame messages on their way to the loop
  done,        \* callbacks whose done event was sent, in order
  \* history
  asked        \* callbacks requested on each surface, in order

surfaceVars == <<life, object, state>>
treeVars == <<role, parent, filter, subsurface, isSync>>
taskVars == <<task, ticks, lagged>>
vars == <<life, object, state, role, parent, filter, subsurface, isSync,
          task, ticks, lagged, sink, done, asked>>

EmptyState == [buffer |-> NoBuffer, callbacks |-> <<>>]
Requested == UNION {Range(asked[s]) : s \in Surfaces}
-----------------------------------------------------------------------------
(* Surface state *)

\* Mutants: the later callbacks go first, or are copied and not moved.
MergeInFront(dst, src) ==
  [buffer |-> src.buffer, callbacks |-> src.callbacks \o dst.callbacks]
DrainNothing(src) == src

\* SurfaceState::apply: copies the buffer, moves the callbacks to the end.
Merge(dst, src) ==
  [buffer |-> src.buffer, callbacks |-> dst.callbacks \o src.callbacks]
Drained(src) == [buffer |-> src.buffer, callbacks |-> <<>>]

UpdateCurrent(st) ==
  [pending |-> st.pending,
   applied |-> Drained(st.applied),
   current |-> Merge(st.current, st.applied)]

\* Mutant: the manager defers the state of a surface whose role is Subsurface.
DefersSubsurfaces(s) == role[s] = "Subsurface"

\* SurfaceCommitAwareBufferManager::requires_surface_syncronization: whether
\* the surface is alive or not, the answer is false.
ManagerRequiresSync(s) == FALSE

ApplyPending(s, st) ==
  LET applied == [pending |-> Drained(st.pending),
                  applied |-> Merge(st.applied, st.pending),
                  current |-> st.current]
  IN  IF ManagerRequiresSync(s) THEN applied ELSE UpdateCurrent(applied)

(* Subsurface synchronisation *)

LiveParent(s) == parent[s] # NoSurface /\ life[parent[s]] = "live"

EffectivelySync(s) ==
  isSync[s] \/ (LiveParent(s) /\ role[parent[s]] = "Subsurface")

\* The filter answers true for a surface whose wl_subsurface is gone.
RequiresSync(s) ==
  /\ role[s] = "Subsurface"
  /\ filter[s]
  /\ subsurface[s] => EffectivelySync(s)

SyncChildren(S) ==
  {c \in Surfaces : parent[c] \in S /\ life[c] = "live" /\ RequiresSync(c)}

\* The surfaces update_current_state_recursive visits from s.
SyncTree(s) ==
  LET within[n \in 0..Cardinality(Surfaces)] ==
        IF n = 0 THEN {s} ELSE within[n - 1] \union SyncChildren(within[n - 1])
  IN  within[Cardinality(Surfaces)]

UpdateTree(s, st) ==
  [x \in Surfaces |-> IF x \in SyncTree(s) THEN UpdateCurrent(st[x]) ELSE st[x]]

Ancestors(s) ==
  LET above[n \in 0..Cardinality(Surfaces)] ==
        IF n = 0 THEN {s}
        ELSE above[n - 1] \union {parent[x] : x \in above[n - 1] \ {NoSurface}}
  IN  above[Cardinality(Surfaces)]
-----------------------------------------------------------------------------
Init ==
  /\ life = [s \in Surfaces |-> "unborn"]
  /\ object = [s \in Surfaces |-> FALSE]
  /\ state = [s \in Surfaces |-> [pending |-> EmptyState,
                                  applied |-> EmptyState,
                                  current |-> EmptyState]]
  /\ role = [s \in Surfaces |-> "none"]
  /\ parent = [s \in Surfaces |-> NoSurface]
  /\ filter = [s \in Surfaces |-> FALSE]
  /\ subsurface = [s \in Surfaces |-> FALSE]
  /\ isSync = [s \in Surfaces |-> TRUE]
  /\ task = [s \in Surfaces |-> "none"]
  /\ ticks = [s \in Surfaces |-> 0]
  /\ lagged = [s \in Surfaces |-> FALSE]
  /\ sink = <<>>
  /\ done = <<>>
  /\ asked = [s \in Surfaces |-> <<>>]

(* Requests, handled one at a time by the client's dispatch task *)

\* Surface::new spawns the frame task, which subscribes to the frame events.
CreateSurface(s) ==
  /\ life[s] = "unborn"
  /\ life' = [life EXCEPT ![s] = "live"]
  /\ object' = [object EXCEPT ![s] = TRUE]
  /\ task' = [task EXCEPT ![s] = "running"]
  /\ UNCHANGED <<state, treeVars, ticks, lagged, sink, done, asked>>

Attach(s, b) ==
  /\ object[s]
  /\ state' = [state EXCEPT ![s].pending.buffer = b]
  /\ UNCHANGED <<life, object, treeVars, taskVars, sink, done, asked>>

Frame(s, cb) ==
  /\ object[s]
  /\ cb \notin Requested
  /\ state' = [state EXCEPT ![s].pending.callbacks = Append(@, cb)]
  /\ asked' = [asked EXCEPT ![s] = Append(@, cb)]
  /\ UNCHANGED <<life, object, treeVars, taskVars, sink, done>>

Commit(s) ==
  /\ object[s]
  /\ LET st == [state EXCEPT ![s] = ApplyPending(s, @)]
     IN  state' = IF RequiresSync(s) THEN UpdateTree(s, st) ELSE st
  /\ UNCHANGED <<life, object, treeVars, taskVars, sink, done, asked>>

\* Dropping the last Arc of a surface: a wl_subsurface keeps one.
Destroy(s) ==
  /\ object[s]
  /\ object' = [object EXCEPT ![s] = FALSE]
  /\ life' = IF subsurface[s] THEN life ELSE [life EXCEPT ![s] = "dropped"]
  /\ UNCHANGED <<state, treeVars, taskVars, sink, done, asked>>

\* The client names no surface as its own ancestor and makes no second
\* wl_subsurface while one exists: both are protocol errors the code leaves
\* to the client.
GetSubsurface(s, p) ==
  /\ object[s] /\ object[p]
  /\ ~subsurface[s]
  /\ s \notin Ancestors(p)
  /\ role' = [role EXCEPT ![s] = "Subsurface"]
  /\ parent' = [parent EXCEPT ![s] = IF @ = NoSurface THEN p ELSE @]
  /\ filter' = [filter EXCEPT ![s] = TRUE]
  /\ subsurface' = [subsurface EXCEPT ![s] = TRUE]
  /\ isSync' = [isSync EXCEPT ![s] = TRUE]
  /\ UNCHANGED <<surfaceVars, taskVars, sink, done, asked>>

\* The filter is cleared only when the handler does not return early: hasPanel
\* is whether the parent (when it lives) has a panel item.
DestroySubsurface(s, hasPanel) ==
  /\ subsurface[s]
  /\ subsurface' = [subsurface EXCEPT ![s] = FALSE]
  /\ filter' = IF LiveParent(s) /\ ~hasPanel THEN filter
               ELSE [filter EXCEPT ![s] = FALSE]
  /\ life' = IF object[s] THEN life ELSE [life EXCEPT ![s] = "dropped"]
  /\ UNCHANGED <<object, state, role, parent, isSync, taskVars, sink, done, asked>>

SetSync(s) ==
  /\ subsurface[s]
  /\ isSync' = [isSync EXCEPT ![s] = TRUE]
  /\ UNCHANGED <<surfaceVars, role, parent, filter, subsurface, taskVars, sink,
                 done, asked>>

\* The children's filters see the cleared flag of s only through role, which
\* does not change, so the tree is the one of the state before the step.
SetDesync(s) ==
  /\ subsurface[s]
  /\ isSync' = [isSync EXCEPT ![s] = FALSE]
  /\ state' = IF isSync[s] THEN UpdateTree(s, state) ELSE state
  /\ UNCHANGED <<life, object, role, parent, filter, subsurface, taskVars, sink,
                 done, asked>>

(* Frame tasks *)

\* Mutant: the receiver keeps every event.
UnboundedChannel ==
  /\ ticks' = [s \in Surfaces |->
                 IF task[s] = "running" THEN ticks[s] + 1 ELSE ticks[s]]
  /\ UNCHANGED <<surfaceVars, treeVars, task, lagged, sink, done, asked>>

\* The XR compositor's frame event reaches every receiver; one that is full
\* loses its oldest event.
CompositorFrame ==
  /\ ticks' = [s \in Surfaces |->
                 IF task[s] = "running" /\ ticks[s] < FrameCapacity
                 THEN ticks[s] + 1 ELSE ticks[s]]
  /\ lagged' = [s \in Surfaces |->
                  lagged[s] \/ (task[s] = "running" /\ ticks[s] = FrameCapacity)]
  /\ UNCHANGED <<surfaceVars, treeVars, task, sink, done, asked>>

\* Mutant: the task ends at Lagged, as it does at Closed.
LaggedEnds(s) ==
  /\ task[s] = "running" /\ lagged[s]
  /\ task' = [task EXCEPT ![s] = "ended"]
  /\ UNCHANGED <<surfaceVars, treeVars, ticks, lagged, sink, done, asked>>

\* recv returns Lagged: the task warns and continues with the oldest event left.
Lagged(s) ==
  /\ task[s] = "running" /\ lagged[s]
  /\ lagged' = [lagged EXCEPT ![s] = FALSE]
  /\ UNCHANGED <<surfaceVars, treeVars, task, ticks, sink, done, asked>>

\* Mutant: callbacks not yet committed are sent too.
SendsPending(s) ==
  /\ task[s] = "running" /\ ~lagged[s] /\ ticks[s] > 0 /\ life[s] = "live"
  /\ ticks' = [ticks EXCEPT ![s] = @ - 1]
  /\ state' = [state EXCEPT ![s].pending.callbacks = <<>>,
                            ![s].current.callbacks = <<>>]
  /\ sink' = sink \o state[s].pending.callbacks \o state[s].current.callbacks
  /\ UNCHANGED <<life, object, treeVars, task, lagged, done, asked>>

FrameEvent(s) ==
  /\ task[s] = "running" /\ ~lagged[s] /\ ticks[s] > 0 /\ life[s] = "live"
  /\ ticks' = [ticks EXCEPT ![s] = @ - 1]
  /\ state' = [state EXCEPT ![s].current.callbacks = <<>>]
  /\ sink' = sink \o state[s].current.callbacks
  /\ UNCHANGED <<life, object, treeVars, task, lagged, done, asked>>

\* The surface is gone: the weak reference does not upgrade and the task ends.
FrameTaskEnds(s) ==
  /\ task[s] = "running" /\ ~lagged[s] /\ ticks[s] > 0 /\ life[s] = "dropped"
  /\ task' = [task EXCEPT ![s] = "ended"]
  /\ UNCHANGED <<surfaceVars, treeVars, ticks, lagged, sink, done, asked>>

\* handle_render_message: done, delete_id, and the id leaves the object map.
SendDone ==
  /\ sink # <<>>
  /\ done' = Append(done, Head(sink))
  /\ sink' = Tail(sink)
  /\ UNCHANGED <<surfaceVars, treeVars, taskVars, asked>>
-----------------------------------------------------------------------------
Request(s) ==
  \/ CreateSurface(s)
  \/ \E b \in Buffers \union {NoBuffer} : Attach(s, b)
  \/ \E cb \in Callbacks : Frame(s, cb)
  \/ Commit(s)
  \/ Destroy(s)
  \/ \E p \in Surfaces : GetSubsurface(s, p)
  \/ \E hasPanel \in BOOLEAN : DestroySubsurface(s, hasPanel)
  \/ SetSync(s)
  \/ SetDesync(s)

FrameTask(s) == Lagged(s) \/ FrameEvent(s) \/ FrameTaskEnds(s)

Next ==
  \/ \E s \in Surfaces : Request(s) \/ FrameTask(s)
  \/ CompositorFrame
  \/ SendDone

Spec == Init /\ [][Next]_vars

\* The compositor keeps sending frames, a task that is woken runs, and the
\* dispatch loop polls its messages before the socket (biased select). After
\* Lagged the task calls recv again without suspending, so FrameEvent is
\* strongly fair: the channel does not overflow between the two forever.
Fairness ==
  /\ WF_vars(CompositorFrame)
  /\ WF_vars(SendDone)
  /\ \A s \in Surfaces : WF_vars(Lagged(s)) /\ SF_vars(FrameEvent(s))

FairSpec == Spec /\ Fairness
-----------------------------------------------------------------------------
(* Properties *)

StateType == [buffer : Buffers \union {NoBuffer}, callbacks : Seq(Callbacks)]
DoubleBuffered == [pending : StateType, applied : StateType, current : StateType]

TypeOK ==
  /\ life \in [Surfaces -> {"unborn", "live", "dropped"}]
  /\ object \in [Surfaces -> BOOLEAN]
  /\ state \in [Surfaces -> DoubleBuffered]
  /\ role \in [Surfaces -> {"none", "Subsurface"}]
  /\ parent \in [Surfaces -> Surfaces \union {NoSurface}]
  /\ filter \in [Surfaces -> BOOLEAN]
  /\ subsurface \in [Surfaces -> BOOLEAN]
  /\ isSync \in [Surfaces -> BOOLEAN]
  /\ task \in [Surfaces -> {"none", "running", "ended"}]
  /\ ticks \in [Surfaces -> 0..FrameCapacity]
  /\ lagged \in [Surfaces -> BOOLEAN]
  /\ sink \in Seq(Callbacks)
  /\ done \in Seq(Callbacks)
  /\ asked \in [Surfaces -> Seq(Callbacks)]

\* The callbacks a surface state holds, and that each of its lists holds each
\* once and no two lists share one.
HeldBy(st) == Range(st.pending.callbacks) \union Range(st.applied.callbacks)
              \union Range(st.current.callbacks)
Once(q) == \A i, j \in DOMAIN q : q[i] = q[j] => i = j
Clean(st) ==
  /\ Once(st.pending.callbacks) /\ Once(st.applied.callbacks)
  /\ Once(st.current.callbacks)
  /\ Range(st.pending.callbacks) \intersect Range(st.applied.callbacks) = {}
  /\ Range(st.pending.callbacks) \intersect Range(st.current.callbacks) = {}
  /\ Range(st.applied.callbacks) \intersect Range(st.current.callbacks) = {}

Outgoing == Range(sink) \union Range(done)

NoDuplicate ==
  /\ Once(sink) /\ Once(done)
  /\ Range(sink) \intersect Range(done) = {}
  /\ \A s \in Surfaces : Clean(state[s])
  /\ \A s \in Surfaces : HeldBy(state[s]) \intersect Outgoing = {}
  /\ \A s, t \in Surfaces :
       s # t => HeldBy(state[s]) \intersect HeldBy(state[t]) = {}

NoneLost ==
  /\ \A s \in Surfaces : HeldBy(state[s]) \subseteq Range(asked[s])
  /\ Outgoing \subseteq Requested
  /\ \A s \in Surfaces : Range(asked[s]) \subseteq HeldBy(state[s]) \union Outgoing

\* A requested callback is in exactly one place until its done event is sent, and
\* the event is sent once: a client waits for no callback that got lost between a
\* commit and a frame event, and none is answered twice (delete_id would then
\* name an id the client may have reused).
CallbackConservation == NoDuplicate /\ NoneLost

\* The callbacks that wait on surface s, oldest first, and the path they take:
\* answered, queued for the dispatch loop, waiting.
Held(s) == state[s].current.callbacks \o state[s].applied.callbacks
           \o state[s].pending.callbacks
Pipeline(s) == (done \o sink) \o Held(s)

Precedes(q, a, b) == \E k, l \in DOMAIN q : k < l /\ q[k] = a /\ q[l] = b

\* Of two callbacks requested on one surface the earlier is ahead of the later
\* wherever the two are, answered ones first: commits, sync updates, frame events
\* and the queue never reorder the callbacks of a surface (surface.rs apply,
\* frame_event; socket.rs Message::Frame). Since CallbackConservation puts each
\* callback in one place, the order along the path is the order of the requests.
FramePipeline ==
  \A s \in Surfaces : \A i, j \in DOMAIN asked[s] :
    i < j => Precedes(Pipeline(s), asked[s][i], asked[s][j])

\* A callback that a commit made effective is within reach of its answer: on its way
\* through the dispatch loop, or among the current callbacks of a surface whose
\* frame task runs, which takes them at the next frame event it receives. None waits
\* in a state no later step looks at, and no lost frame event ends the task of a
\* surface that lives (surface.rs on_commit, frame_event, the task of Surface::new).
EffectiveInReach ==
  \A s \in Surfaces : \A cb \in Range(asked[s]) \ Range(state[s].pending.callbacks) :
    \/ cb \in Outgoing
    \/ /\ cb \in Range(state[s].current.callbacks)
       /\ task[s] = "running" \/ life[s] = "dropped"

\* A frame request takes effect on commit: a callback that is still pending when
\* a step starts is not queued by that step, so frame events answer committed
\* callbacks only (frame_event takes current.frame_callbacks alone).
OnlyCommittedFires ==
  [][\A s \in Surfaces :
       Range(state[s].pending.callbacks) \intersect Range(sink') = {}]_vars

(* The promise of FrameCallbacks, and how the state above keeps it. *)

Pending == UNION {Range(state[s].pending.callbacks) : s \in Surfaces}
Waived == UNION {Range(asked[s]) : s \in {x \in Surfaces : life[x] = "dropped"}}

Promise == INSTANCE FrameCallbacks
  WITH requested <- Requested, committed <- Requested \ Pending,
       answered <- Range(done), waived <- Waived

\* The double-buffered states, the frame tasks and the dispatch loop together do
\* what FrameCallbacks promises: a callback is answered once, and only after a
\* commit of its surface.
KeepsPromise == Promise!PromiseSpec

\* The promise's other half: a callback that a commit made effective is answered
\* unless its surface is dropped, whatever frame events its receiver loses (the
\* Lagged arm).
CommittedCallbackIsDone == Promise!EachAnswered

\* What surface.rs documents of set_parent_syncronized_filter: the filter
\* "controls whether current state in SurfaceCommitAwareBuffers is updated on
\* apply" and is true "if the current state needs to be updated on the parents
\* commit". So the current content of a subsurface in sync mode changes at a
\* commit of its parent only, or when it leaves sync mode.
SyncStateFollowsParent ==
  [][\A s \in Surfaces :
       (subsurface[s] /\ RequiresSync(s) /\ state'[s].current.buffer # state[s].current.buffer)
         => (LiveParent(s) /\ Commit(parent[s])) \/ SetDesync(s)]_vars
=============================================================================
