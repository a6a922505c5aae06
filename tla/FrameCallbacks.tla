---------------------------- MODULE FrameCallbacks ----------------------------
(***************************************************************************)
(* What a client is promised of its frame callbacks, whatever surfaces,    *)
(* subsurfaces, tasks and queues they pass through: a callback it asks for *)
(* takes effect with a commit, is answered once and only then, and is      *)
(* answered at last unless the surface goes away (core/surface.rs frame,   *)
(* frame_event, socket.rs Message::Frame).                                 *)
(***************************************************************************)
CONSTANT Callbacks

VARIABLES
  requested,  \* callbacks the client asked for
  committed,  \* those a commit has made effective
  answered,   \* those whose done event was sent
  waived      \* those whose surface is gone: they may be answered or not

promiseVars == <<requested, committed, answered, waived>>

PromiseInit == requested = {} /\ committed = {} /\ answered = {} /\ waived = {}

Ask(cb) ==
  /\ cb \notin requested
  /\ requested' = requested \union {cb}
  /\ UNCHANGED <<committed, answered, waived>>

\* A commit makes a number of callbacks effective.
TakeEffect ==
  /\ committed' \in SUBSET requested /\ committed \subseteq committed'
  /\ UNCHANGED <<requested, answered, waived>>

Answer(cb) ==
  /\ cb \in committed \ answered
  /\ answered' = answered \union {cb}
  /\ UNCHANGED <<requested, committed, waived>>

SurfaceGoes ==
  /\ waived' \in SUBSET requested /\ waived \subseteq waived'
  /\ UNCHANGED <<requested, committed, answered>>

PromiseNext ==
  \/ \E cb \in Callbacks : Ask(cb) \/ Answer(cb)
  \/ TakeEffect
  \/ SurfaceGoes

PromiseSpec == PromiseInit /\ [][PromiseNext]_promiseVars

\* No callback that took effect is passed over for ever.
EachAnswered ==
  \A cb \in Callbacks : cb \in committed ~> cb \in answered \union waived
===============================================================================
