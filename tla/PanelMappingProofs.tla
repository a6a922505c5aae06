-------------------------- MODULE PanelMappingProofs --------------------------
(***************************************************************************)
(* The way of a window to its panel shell, for any subsurfaces, panel      *)
(* items and contents: what a commit leaves behind, and what the installed *)
(* shell shows.                                                            *)
(***************************************************************************)
EXTENDS PanelMapping, TLAPS

(* The parts of the inductive invariant *)

\* The tasks work on a toplevel that is there. The mapping task runs once and is
\* the only one that applies; the request for the default shell is its own.
TasksInOrder ==
  /\ \A t \in Tasks : HoldsToplevel(t) => toplevel \in {"live", "destroyed"}
  /\ provider \in {"asked", "connecting", "late"} => toplevel \in {"live", "destroyed"}
  /\ mapped # NoItem => toplevel \in {"live", "destroyed"} /\ ~Unmapped
  /\ handler \/ toplevel = "none" => walk["mapper"].pc = "idle"
  /\ provider \in {"asked", "connecting"} => walk["mapper"].pc = "await"
  /\ walk["mapper"].mode = "apply"
  /\ \A i \in Items : walk[i].pc \in {"install"} \union WalkPcs => walk[i].mode = "reapply"

\* A walk is at the root or below it.
WalkInOrder(t) ==
  Walking(t) =>
    /\ walk[t].todo = {Root} \/ walk[t].todo \subseteq Children
    /\ walk[t].pc # "take" => walk[t].s \in walk[t].todo /\ walk[t].held # 0

Order ==
  /\ Types
  /\ TasksInOrder
  /\ \A t \in Tasks : WalkInOrder(t)
  /\ commit.pc = "idle" => commit = Idle
  /\ \A c \in Children : linked[c] = "none" => latest[c] = 0

Committing(s) == commit.pc \notin {"idle", "child"} /\ commit.s = s

\* Before the mapping there is no item, and no submission that a walk could find.
BeforeMapping ==
  Unmapped =>
    /\ \A t \in Tasks : Walking(t) => walk[t].pc = "take"
    /\ \A s \in Surfaces : submit[s] = 0
    /\ commit.pc # "store"
    /\ commit.pc = "send" => commit.item = NoItem

\* A surface's latest content is then its buffered update;
Stored(s) ==
  Unmapped => latest[s] = 0 \/ failed[s] = "update" \/ Committing(s) \/ buffered[s] = latest[s]

\* after it, the content is with the shell, or the commit or the walk that works on it
\* will bring it there.
Seen(s) == failed[s] = "call" \/ shown[s] = latest[s]
OnShell(s) == Seen(s) /\ submit[s] = latest[s]

InHand(t, s) == walk[t].pc # "take" /\ walk[t].s = s
Ahead(t, s) == s \in walk[t].todo \/ Root \in walk[t].todo
Source(t) == IF walk[t].mode = "apply" THEN buffered ELSE submit

CommitBrings(s) ==
  /\ commit.pc # "keep"
  /\ commit.pc \in {"send", "store"} => commit.item = mapped
  /\ commit.pc = "store" => Seen(s)

WalkBrings(t, s) ==
  \/ /\ InHand(t, s)
     /\ walk[t].pc \in {"read", "send", "store"} /\ walk[t].held = latest[s]
     /\ walk[t].pc # "read" => walk[t].to = mapped
     /\ walk[t].pc = "store" => Seen(s)
  \/ ~InHand(t, s) /\ Ahead(t, s) /\ Source(t)[s] = latest[s]
  \/ ~InHand(t, s) /\ ~Ahead(t, s) /\ OnShell(s)

Brought(s) ==
  \/ ~SomeWalk /\ Committing(s) /\ CommitBrings(s)
  \/ ~SomeWalk /\ ~Committing(s) /\ OnShell(s)
  \/ \E t \in Tasks : Walking(t) /\ WalkBrings(t, s)

Due(s) ==
  Upgrades /\ mapped # NoItem /\ s \in Linked /\ latest[s] # 0 /\ failed[s] # "update"

\* What holds of a surface that nothing disturbs: at most one task walks, and none while
\* the surface is committed.
Sound(s) ==
  /\ \A t, u \in Tasks : Walking(t) /\ Walking(u) => t = u
  /\ SomeWalk => commit.pc = "idle" \/ commit.s # s
  /\ Stored(s)
  /\ Due(s) => Brought(s)

InStep == \A s \in Surfaces \ disturbed : Sound(s)

Invariant == Order /\ BeforeMapping /\ InStep
-----------------------------------------------------------------------------
(* Types *)

TaskPcs == {"idle", "spawn", "await", "fallback", "connect", "create", "install", "ended",
            "failed"} \union WalkPcs
WalkState == [pc : TaskPcs, mode : {"apply", "reapply"}, item : Items \union {NoItem},
              s : Surfaces, todo : SUBSET Surfaces, held : 0..MaxCommits,
              to : Items \union {NoItem}]
CommitState == [pc : {"idle", "read", "send", "store", "keep", "child"}, s : Surfaces,
                item : Items \union {NoItem}]

LEMMA Typed ==
  Types => /\ walk \in [Tasks -> WalkState] /\ commit \in CommitState
            /\ "mapper" \in Tasks /\ Root \in Surfaces /\ Items \subseteq Tasks
            /\ Children \subseteq Surfaces
BY DEF Types, WalkState, CommitState, TaskPcs, Tasks, Surfaces

LEMMA RestingTyped ==
  /\ Resting \in WalkState /\ Ended \in WalkState /\ Idle \in CommitState
  /\ Nothing \in [Surfaces -> 0..MaxCommits]
  /\ Resting.pc = "idle" /\ Ended.pc = "ended" /\ Idle.pc = "idle"
BY BoundAssumption DEF Nothing, Resting, Ended, Idle, WalkState, CommitState, TaskPcs, Surfaces

\* A task that does not walk goes to another state of that kind.
TaskGoes(t, w) ==
  /\ walk' = [walk EXCEPT ![t] = w]
  /\ w \in WalkState
  /\ ~Walking(t) /\ w.pc \notin WalkPcs
  /\ w.pc \notin {"idle", "ended", "failed"} => HoldsToplevel(t) \/ Upgrades
  /\ t = "mapper" => HoldsToplevel(t) /\ w.pc # "ended" /\ w.mode = "apply"
  /\ t \in Items /\ w.pc = "install" => w.mode = "reapply"

TaskStep ==
  /\ UNCHANGED <<toplevelVars, mapped, surfaceVars, linked, shown, commit, historyVars>>
  /\ kind' \in [Items -> {"free", "acceptor", "ui"}] /\ alive' \in [Items -> BOOLEAN]
  /\ \/ UNCHANGED walk
     \/ \E t \in Tasks, w \in WalkState : TaskGoes(t, w)
  /\ provider' \in {"none", "asked", "connecting", "late", "gone"}
  /\ provider' \in {"asked", "connecting", "late"} =>
       provider \in {"asked", "connecting", "late"} \/ HoldsToplevel("mapper")
  /\ provider' \in {"asked", "connecting"} => walk'["mapper"].pc = "await"

LEMMA InstallsGoes ==
  ASSUME Types, NEW t \in Tasks, NEW i \in Items, NEW mode \in {"apply", "reapply"},
         Installs(t, i, mode), ~Walking(t), HoldsToplevel(t),
         t = "mapper" => mode = "apply", t \in Items => mode = "reapply"
  PROVE  \E w \in WalkState : TaskGoes(t, w) /\ w.pc = "install"
<1>. DEFINE w == [Resting EXCEPT !.pc = "install", !.item = i, !.mode = mode]
<1>1. w \in WalkState /\ w.pc = "install" /\ w.mode = mode
  BY RestingTyped DEF WalkState, TaskPcs, Resting
<1>2. walk' = [walk EXCEPT ![t] = w]
  BY DEF Installs
<1>. HIDE DEF w
<1>3. TaskGoes(t, w)
  BY <1>1, <1>2 DEF TaskGoes, WalkPcs
<1>. QED  BY <1>1, <1>3

LEMMA PcGoes ==
  ASSUME Types, NEW t \in Tasks, NEW p \in TaskPcs \ WalkPcs, ~Walking(t),
         walk' = [walk EXCEPT ![t].pc = p],
         p \notin {"idle", "ended", "failed"} => HoldsToplevel(t) \/ Upgrades,
         t = "mapper" => HoldsToplevel(t) /\ p # "ended" /\ walk[t].mode = "apply",
         p # "install"
  PROVE  \E w \in WalkState : TaskGoes(t, w) /\ w.pc = p
<1>. DEFINE w == [walk[t] EXCEPT !.pc = p]
<1>1. w \in WalkState /\ w.pc = p /\ w.mode = walk[t].mode
  BY Typed DEF WalkState
<1>2. walk' = [walk EXCEPT ![t] = w]
  OBVIOUS
<1>. HIDE DEF w
<1>3. TaskGoes(t, w)
  BY <1>1, <1>2 DEF TaskGoes
<1>. QED  BY <1>1, <1>3

\* The steps of the tasks beside the walks.
OtherTask ==
  \/ MapperStep \/ ShellGetsPanel \/ ProviderStep
  \/ \E i \in Items : CaptureStarts(i) \/ CaptureStep(i) \/ AcceptorDies(i) \/ DeathStep(i)

LEMMA OtherTaskSteps == Types /\ TasksInOrder /\ OtherTask => TaskStep
<1>. SUFFICES ASSUME Types, TasksInOrder, OtherTask PROVE TaskStep
  OBVIOUS
<1>. DEFINE M == "mapper"
<1>t. /\ M \in Tasks /\ M \notin Items /\ Items \subseteq Tasks
      /\ walk \in [Tasks -> WalkState] /\ walk[M].mode = "apply"
      /\ kind \in [Items -> {"free", "acceptor", "ui"}] /\ alive \in [Items -> BOOLEAN]
      /\ provider \in {"none", "asked", "connecting", "late", "gone"}
      /\ provider \in {"asked", "connecting"} => walk[M].pc = "await"
  BY Typed, TaskAssumption DEF Types, TasksInOrder
<1>w. \A t \in Tasks : \A w : walk' = [walk EXCEPT ![t] = w] /\ t # M => walk'[M] = walk[M]
  BY <1>t
<1>m. \A w : walk' = [walk EXCEPT ![M] = w] => walk'[M] = w
  BY <1>t
<1>1. CASE MapperAsks
  <2>a. /\ M \in Tasks /\ "await" \in TaskPcs \ WalkPcs /\ ~Walking(M) /\ HoldsToplevel(M)
        /\ walk' = [walk EXCEPT ![M].pc = "await"]
    BY <1>1, <1>t DEF MapperAsks, Walking, WalkPcs, HoldsToplevel, TaskPcs
  <2>1. PICK w \in WalkState : TaskGoes(M, w) /\ w.pc = "await"
    BY <1>t, <2>a, PcGoes
  <2>2. walk'[M].pc = "await" /\ HoldsToplevel(M)
    BY <2>1, <1>m DEF TaskGoes
  <2>. QED  BY <1>1, <1>t, <2>1, <2>2 DEF MapperAsks, TaskStep
<1>2. CASE MapperTimesOut
  <2>a. /\ M \in Tasks /\ "fallback" \in TaskPcs \ WalkPcs /\ ~Walking(M) /\ HoldsToplevel(M)
        /\ walk' = [walk EXCEPT ![M].pc = "fallback"]
    BY <1>2, <1>t DEF MapperTimesOut, Walking, WalkPcs, HoldsToplevel, TaskPcs
  <2>1. PICK w \in WalkState : TaskGoes(M, w) /\ w.pc = "fallback"
    BY <1>t, <2>a, PcGoes
  <2>2. HoldsToplevel(M)
    BY <2>1 DEF TaskGoes
  <2>. QED  BY <1>2, <1>t, <2>1, <2>2 DEF MapperTimesOut, TaskStep
<1>3. CASE MapperFails
  <2>a. /\ M \in Tasks /\ "failed" \in TaskPcs \ WalkPcs /\ ~Walking(M) /\ HoldsToplevel(M)
        /\ walk' = [walk EXCEPT ![M].pc = "failed"]
    BY <1>3, <1>t DEF MapperFails, Walking, WalkPcs, HoldsToplevel, TaskPcs
  <2>1. PICK w \in WalkState : TaskGoes(M, w) /\ w.pc = "failed"
    BY <1>t, <2>a, PcGoes
  <2>. QED  BY <1>3, <1>t, <2>1 DEF MapperFails, TaskStep, itemVars
<1>4. ASSUME NEW i \in Items, MapperCreatesUi(i) PROVE TaskStep
  <2>1. PICK w \in WalkState : TaskGoes(M, w) /\ w.pc = "install"
    BY <1>4, <1>t, InstallsGoes DEF MapperCreatesUi, Walking, WalkPcs, HoldsToplevel
  <2>. QED  BY <1>4, <1>t, <2>1 DEF MapperCreatesUi, CreatesUi, TaskStep
<1>5. CASE ShellGetsPanel
  BY <1>5, <1>t DEF ShellGetsPanel, TaskStep
<1>6. CASE ShellRefuses
  <2>1. CASE provider = "late"
    BY <1>6, <1>t, <2>1 DEF ShellRefuses, TaskStep
  <2>2. CASE provider = "connecting"
    <3>1. PICK w \in WalkState : TaskGoes(M, w) /\ w.pc = "fallback"
      BY <1>6, <1>t, <2>2, PcGoes DEF ShellRefuses, Walking, WalkPcs, HoldsToplevel, TaskPcs
    <3>. QED  BY <1>6, <1>t, <2>2, <3>1 DEF ShellRefuses, TaskStep
  <2>. QED  BY <1>6, <2>1, <2>2 DEF ShellRefuses
<1>7. ASSUME NEW i \in Items, ShellAccepts(i) PROVE TaskStep
  <2>1. PICK w \in WalkState : TaskGoes(M, w) /\ w.pc = "install"
    BY <1>7, <1>t, InstallsGoes DEF ShellAccepts, Walking, WalkPcs, HoldsToplevel
  <2>. QED  BY <1>7, <1>t, <2>1 DEF ShellAccepts, Accepts, TaskStep
<1>8. ASSUME NEW i \in Items, ShellAcceptsLate(i) PROVE TaskStep
  BY <1>8, <1>t DEF ShellAcceptsLate, Accepts, TaskStep
<1>9. ASSUME NEW i \in Items, CaptureStarts(i) PROVE TaskStep
  <2>a. /\ i \in Tasks /\ "connect" \in TaskPcs \ WalkPcs /\ ~Walking(i) /\ i # M
        /\ walk' = [walk EXCEPT ![i].pc = "connect"]
    BY <1>9, <1>t DEF CaptureStarts, Walking, WalkPcs, TaskPcs
  <2>b. Upgrades
    BY <1>9 DEF CaptureStarts
  <2>1. PICK w \in WalkState : TaskGoes(i, w) /\ w.pc = "connect"
    BY <2>a, <2>b, PcGoes
  <2>m. walk'[M] = walk[M]
    BY <1>t, <1>w, <2>1 DEF TaskGoes
  <2>u. /\ UNCHANGED <<toplevelVars, mapped, surfaceVars, linked, shown, commit, historyVars>>
        /\ UNCHANGED <<kind, alive, provider>>
    BY <1>9 DEF CaptureStarts, itemVars
  <2>. QED  BY <1>t, <2>1, <2>m, <2>u DEF TaskStep
<1>10. ASSUME NEW i \in Items, CaptureFails(i) PROVE TaskStep
  <2>1. TaskGoes(i, Resting)
    BY <1>10, <1>t, RestingTyped DEF CaptureFails, TaskGoes, Walking, WalkPcs, Resting
  <2>m. walk'[M] = walk[M]
    BY <1>t, <1>w, <2>1 DEF TaskGoes
  <2>u. /\ UNCHANGED <<toplevelVars, mapped, surfaceVars, linked, shown, commit, historyVars>>
        /\ UNCHANGED <<kind, alive, provider>>
    BY <1>10 DEF CaptureFails, itemVars
  <2>. QED  BY <1>t, <2>1, <2>m, <2>u, RestingTyped DEF TaskStep
<1>11. ASSUME NEW i \in Items, NEW acceptor \in Items, CaptureConnects(i, acceptor)
       PROVE  TaskStep
  <2>1. PICK w \in WalkState : TaskGoes(i, w) /\ w.pc = "install"
    BY <1>11, <1>t, InstallsGoes DEF CaptureConnects, Walking, WalkPcs, HoldsToplevel
  <2>m. walk'[M] = walk[M]
    BY <1>t, <1>w, <2>1 DEF TaskGoes
  <2>. QED  BY <1>11, <1>t, <2>1, <2>m DEF CaptureConnects, Accepts, TaskStep
<1>12. ASSUME NEW i \in Items, AcceptorDies(i) PROVE TaskStep
  BY <1>12, <1>t DEF AcceptorDies, TaskStep
<1>13. ASSUME NEW i \in Items, DeathNoticed(i) PROVE TaskStep
  <2>1. PICK p \in {"create", "ended"} : /\ walk' = [walk EXCEPT ![i].pc = p]
                                         /\ p = "create" => Upgrades
    BY <1>13 DEF DeathNoticed
  <2>a. i \in Tasks /\ p \in TaskPcs \ WalkPcs /\ ~Walking(i) /\ i # M /\ p # "install"
    BY <1>13, <1>t DEF DeathNoticed, Walking, WalkPcs, TaskPcs
  <2>b. p = "create" \/ p = "ended"
    OBVIOUS
  <2>2. PICK w \in WalkState : TaskGoes(i, w) /\ w.pc = p
    BY <2>a, <2>b, <2>1, PcGoes
  <2>m. walk'[M] = walk[M]
    BY <1>t, <1>w, <2>2 DEF TaskGoes
  <2>u. /\ UNCHANGED <<toplevelVars, mapped, surfaceVars, linked, shown, commit, historyVars>>
        /\ UNCHANGED <<kind, alive, provider>>
    BY <1>13 DEF DeathNoticed, itemVars
  <2>. QED  BY <1>t, <2>2, <2>m, <2>u DEF TaskStep
<1>14. ASSUME NEW i \in Items, NEW ui \in Items, DeathCreatesUi(i, ui) PROVE TaskStep
  <2>1. PICK w \in WalkState : TaskGoes(i, w) /\ w.pc = "install"
    BY <1>14, <1>t, InstallsGoes DEF DeathCreatesUi, Walking, WalkPcs, HoldsToplevel
  <2>m. walk'[M] = walk[M]
    BY <1>t, <1>w, <2>1 DEF TaskGoes
  <2>. QED  BY <1>14, <1>t, <2>1, <2>m DEF DeathCreatesUi, CreatesUi, TaskStep
<1>15. ASSUME NEW i \in Items, DeathFails(i) PROVE TaskStep
  <2>a. /\ i \in Tasks /\ "ended" \in TaskPcs \ WalkPcs /\ ~Walking(i) /\ HoldsToplevel(i)
        /\ walk' = [walk EXCEPT ![i].pc = "ended"]
    BY <1>15, <1>t DEF DeathFails, Walking, WalkPcs, HoldsToplevel, TaskPcs
  <2>1. PICK w \in WalkState : TaskGoes(i, w) /\ w.pc = "ended"
    BY <1>t, <2>a, PcGoes
  <2>m. walk'[M] = walk[M]
    BY <1>t, <1>w, <2>1 DEF TaskGoes
  <2>u. /\ UNCHANGED <<toplevelVars, mapped, surfaceVars, linked, shown, commit, historyVars>>
        /\ UNCHANGED <<kind, alive, provider>>
    BY <1>15 DEF DeathFails, itemVars
  <2>. QED  BY <1>t, <2>1, <2>m, <2>u DEF TaskStep
<1>. QED
  BY <1>1, <1>2, <1>3, <1>4, <1>5, <1>6, <1>7, <1>8, <1>9, <1>10, <1>11, <1>12, <1>13, <1>14,
     <1>15
  DEF OtherTask, MapperStep, ProviderStep, CaptureStep, DeathStep
-----------------------------------------------------------------------------
(* What no commit and no walk touches *)

LEMMA UpgradesMeans == TasksInOrder /\ Upgrades => toplevel \in {"live", "destroyed"}
BY DEF TasksInOrder, Upgrades

LEMMA TasksFrame ==
  ASSUME Types, TasksInOrder, TaskStep
  PROVE  /\ Types' /\ TasksInOrder'
         /\ Upgrades' => Upgrades
         /\ Unmapped' <=> Unmapped
         /\ \A t \in Tasks : walk'[t] = walk[t] \/ (~Walking(t) /\ walk'[t].pc \notin WalkPcs)
<1>t. /\ "mapper" \in Tasks /\ "mapper" \notin Items /\ Items \subseteq Tasks
      /\ walk \in [Tasks -> WalkState]
  BY Typed, TaskAssumption
<1>1. CASE UNCHANGED walk
  <2>1. Types'
    BY <1>1 DEF Types, TaskStep, toplevelVars, surfaceVars, historyVars
  <2>2. \A t \in Tasks : HoldsToplevel(t)' <=> HoldsToplevel(t)
    BY <1>1 DEF HoldsToplevel
  <2>3. Upgrades' => Upgrades
    BY <1>t, <2>2 DEF Upgrades, TaskStep, toplevelVars
  <2>4. Unmapped' <=> Unmapped
    BY <1>1 DEF Unmapped
  <2>5. TasksInOrder'
    BY <1>1, <1>t, <2>2, <2>4 DEF TasksInOrder, TaskStep, toplevelVars
  <2>. QED  BY <1>1, <2>1, <2>3, <2>4, <2>5
<1>2. ASSUME NEW t \in Tasks, NEW w \in WalkState, TaskGoes(t, w)
      PROVE  /\ Types' /\ TasksInOrder'
             /\ Upgrades' => Upgrades
             /\ Unmapped' <=> Unmapped
             /\ \A u \in Tasks :
                  walk'[u] = walk[u] \/ (~Walking(u) /\ walk'[u].pc \notin WalkPcs)
  <2>1. /\ walk' \in [Tasks -> WalkState] /\ walk'[t] = w
        /\ \A u \in Tasks \ {t} : walk'[u] = walk[u]
    BY <1>2, <1>t DEF TaskGoes
  <2>2. Types'
    BY <2>1 DEF Types, TaskStep, toplevelVars, surfaceVars, historyVars, WalkState, TaskPcs
  <2>3. \A u \in Tasks : HoldsToplevel(u)' => HoldsToplevel(u) \/ Upgrades
    BY <1>2, <2>1 DEF TaskGoes, HoldsToplevel
  <2>4. HoldsToplevel("mapper") => Upgrades
    BY <1>t DEF TasksInOrder, Upgrades
  <2>5. UNCHANGED toplevel
    BY DEF TaskStep, toplevelVars
  <2>6. provider' \in {"asked", "connecting", "late"} =>
          provider \in {"asked", "connecting", "late"} \/ HoldsToplevel("mapper")
    BY DEF TaskStep
  <2>7. Upgrades' => Upgrades
    BY <2>3, <2>4, <2>5, <2>6 DEF Upgrades
  <2>8. Unmapped' <=> Unmapped
    BY <1>2, <1>t, <2>1 DEF Unmapped, TaskGoes, HoldsToplevel, Walking
  <2>9. TasksInOrder'
    <3>1. \A u \in Tasks : HoldsToplevel(u)' => toplevel \in {"live", "destroyed"}
      BY <2>3, UpgradesMeans DEF TasksInOrder
    <3>2. provider' \in {"asked", "connecting", "late"} => toplevel \in {"live", "destroyed"}
      BY <1>t, <2>6 DEF TasksInOrder
    <3>3. handler \/ toplevel = "none" => walk'["mapper"].pc = "idle"
      BY <1>2, <1>t, <2>1 DEF TasksInOrder, TaskGoes, HoldsToplevel
    <3>4. /\ walk'["mapper"].mode = "apply"
          /\ \A i \in Items : walk'[i].pc \in {"install"} \union WalkPcs =>
                                walk'[i].mode = "reapply"
      BY <1>2, <1>t, <2>1 DEF TasksInOrder, TaskGoes
    <3>5. mapped # NoItem => toplevel \in {"live", "destroyed"} /\ ~Unmapped
      BY DEF TasksInOrder
    <3>. QED
      BY <2>5, <2>8, <3>1, <3>2, <3>3, <3>4, <3>5 DEF TasksInOrder, TaskStep, toplevelVars
  <2>. QED  BY <1>2, <2>1, <2>2, <2>7, <2>8, <2>9 DEF TaskGoes
<1>. QED  BY <1>1, <1>2 DEF TaskStep

\* Tasks that do not walk may go on, items may come and die, the toplevel may lose
\* its item, and surfaces without content may join.
Frame ==
  /\ UNCHANGED <<surfaceVars, commit, historyVars>>
  /\ \A t \in Tasks : walk'[t] = walk[t] \/ (~Walking(t) /\ walk'[t].pc \notin WalkPcs)
  /\ Unmapped' <=> Unmapped
  /\ \/ mapped' = NoItem
     \/ /\ UNCHANGED <<mapped, shown>>
        /\ Upgrades' => Upgrades
        /\ \A s \in Linked' : s \in Linked \/ latest[s] = 0

LEMMA FrameWalks ==
  ASSUME Frame
  PROVE  /\ \A t \in Tasks : Walking(t)' <=> Walking(t)
         /\ \A t \in Tasks : Walking(t) => walk'[t] = walk[t]
         /\ (\A t \in Tasks : WalkInOrder(t)) => \A t \in Tasks : WalkInOrder(t)'
<1>1. \A t \in Tasks : Walking(t)' <=> Walking(t)
  BY DEF Frame, Walking
<1>2. \A t \in Tasks : Walking(t) => walk'[t] = walk[t]
  BY DEF Frame
<1>. QED  BY <1>1, <1>2 DEF WalkInOrder

\* A step that works on something else leaves a surface sound.
LEMMA Unaffected ==
  ASSUME NEW s \in Surfaces, Sound(s),
         UNCHANGED <<latest[s], buffered[s], submit[s], failed[s]>>,
         \A t \in Tasks : Walking(t)' <=> Walking(t),
         \A t \in Tasks : Walking(t) => walk'[t] = walk[t],
         Unmapped' <=> Unmapped,
         Due(s)' => Due(s) /\ UNCHANGED <<mapped, shown[s]>>,
         commit.pc # "idle" /\ commit.s = s => commit' = commit,
         commit'.pc # "idle" /\ commit'.s = s => commit' = commit
  PROVE  Sound(s)'
<1>1. SomeWalk' <=> SomeWalk
  BY DEF SomeWalk
<1>2. /\ \A t, u \in Tasks : Walking(t)' /\ Walking(u)' => t = u
      /\ SomeWalk' => commit'.pc = "idle" \/ commit'.s # s
  BY <1>1 DEF Sound
<1>3. Committing(s)' <=> Committing(s)
  BY DEF Committing
<1>4. Stored(s)'
  BY <1>3 DEF Sound, Stored
<1>5. ASSUME Due(s)' PROVE Brought(s)'
  <2>1. Brought(s) /\ UNCHANGED <<mapped, shown[s]>>
    BY <1>5 DEF Sound
  <2>2. (OnShell(s)' <=> OnShell(s)) /\ (Seen(s)' <=> Seen(s))
    BY <2>1 DEF OnShell, Seen
  <2>3. CASE ~SomeWalk /\ Committing(s) /\ CommitBrings(s)
    <3>1. commit' = commit
      BY <2>3 DEF Committing
    <3>. QED  BY <1>1, <1>3, <2>1, <2>2, <2>3, <3>1 DEF Brought, CommitBrings
  <2>4. CASE ~SomeWalk /\ ~Committing(s) /\ OnShell(s)
    BY <1>1, <1>3, <2>2, <2>4 DEF Brought
  <2>5. ASSUME NEW t \in Tasks, Walking(t), WalkBrings(t, s) PROVE Brought(s)'
    <3>1. /\ walk'[t] = walk[t] /\ Walking(t)'
          /\ (InHand(t, s)' <=> InHand(t, s)) /\ (Ahead(t, s)' <=> Ahead(t, s))
          /\ Source(t)'[s] = Source(t)[s]
      BY <2>5 DEF InHand, Ahead, Source
    <3>2. WalkBrings(t, s)'
      BY <2>1, <2>2, <2>5, <3>1 DEF WalkBrings
    <3>. QED  BY <3>1, <3>2 DEF Brought
  <2>. QED  BY <2>1, <2>3, <2>4, <2>5 DEF Brought
<1>. QED  BY <1>2, <1>4, <1>5 DEF Sound

LEMMA FrameKeeps == BeforeMapping /\ InStep /\ Frame => BeforeMapping' /\ InStep'
<1>. SUFFICES ASSUME BeforeMapping, InStep, Frame PROVE BeforeMapping' /\ InStep'
  OBVIOUS
<1>1. /\ \A t \in Tasks : Walking(t)' <=> Walking(t)
      /\ \A t \in Tasks : Walking(t) => walk'[t] = walk[t]
      /\ UNCHANGED <<latest, buffered, submit, commit, failed, disturbed>>
      /\ Unmapped' <=> Unmapped
  BY FrameWalks DEF Frame, surfaceVars, historyVars
<1>2. BeforeMapping'
  BY <1>1 DEF BeforeMapping
<1>3. ASSUME NEW s \in Surfaces \ disturbed PROVE Sound(s)'
  <2>1. Sound(s)
    BY DEF InStep
  <2>2. Due(s)' => Due(s) /\ UNCHANGED <<mapped, shown[s]>>
    BY <1>1 DEF Due, Frame
  <2>. QED  BY <1>1, <2>1, <2>2, Unaffected
<1>. QED  BY <1>1, <1>2, <1>3 DEF InStep

LEMMA OtherTaskKeeps == ASSUME Invariant, OtherTask PROVE Invariant'
<1>1. /\ Types' /\ TasksInOrder' /\ TaskStep
      /\ Upgrades' => Upgrades
      /\ Unmapped' <=> Unmapped
      /\ \A t \in Tasks : walk'[t] = walk[t] \/ (~Walking(t) /\ walk'[t].pc \notin WalkPcs)
  BY OtherTaskSteps, TasksFrame DEF Invariant, Order
<1>2. UNCHANGED <<toplevel, mapped, latest, buffered, submit, linked, shown, commit, historyVars>>
  BY <1>1 DEF TaskStep, toplevelVars, surfaceVars
<1>3. Frame
  BY <1>1, <1>2 DEF Frame, Linked, surfaceVars
<1>4. Order'
  BY <1>1, <1>2, <1>3, FrameWalks DEF Invariant, Order
<1>. QED  BY <1>3, <1>4, FrameKeeps DEF Invariant

LEMMA GetToplevelKeeps == ASSUME Invariant, GetToplevel PROVE Invariant'
<1>1. /\ UNCHANGED <<mapped, latest, buffered, submit, linked, shown, commit, walk, historyVars, provider>>
      /\ commit = Idle /\ toplevel = "none" /\ toplevel' = "live" /\ handler' = TRUE
  BY DEF GetToplevel, itemVars, surfaceVars
<1>2. mapped = NoItem
  BY <1>1 DEF Invariant, Order, TasksInOrder
<1>3. Types'
  BY DEF Invariant, Order, Types, GetToplevel, itemVars, surfaceVars, historyVars
<1>4. TasksInOrder'
  BY <1>1, <1>2 DEF Invariant, Order, TasksInOrder, HoldsToplevel
<1>5. Frame
  BY <1>1, <1>2 DEF Frame, surfaceVars, Unmapped
<1>6. Order'
  BY <1>1, <1>3, <1>4, <1>5, FrameWalks DEF Invariant, Order, Idle
<1>. QED  BY <1>5, <1>6, FrameKeeps DEF Invariant

LEMMA AckConfigureKeeps == ASSUME Invariant, AckConfigure PROVE Invariant'
<1>1. /\ UNCHANGED <<toplevel, handler, mapped, latest, buffered, submit, linked, shown, commit,
                     walk, historyVars, provider>>
      /\ commit = Idle
  BY DEF AckConfigure, itemVars, surfaceVars
<1>3. Types'
  BY DEF Invariant, Order, Types, AckConfigure, itemVars, surfaceVars, historyVars
<1>4. TasksInOrder' /\ (Upgrades' <=> Upgrades)
  BY <1>1 DEF Invariant, Order, TasksInOrder, HoldsToplevel, Upgrades, Unmapped
<1>5. Frame
  BY <1>1, <1>4 DEF Frame, surfaceVars, Unmapped, Linked
<1>6. Order'
  BY <1>1, <1>3, <1>4, <1>5, FrameWalks DEF Invariant, Order, Idle
<1>. QED  BY <1>5, <1>6, FrameKeeps DEF Invariant

LEMMA GetSubsurfaceKeeps ==
  ASSUME Invariant, NEW c \in Children, GetSubsurface(c) PROVE Invariant'
<1>1. /\ UNCHANGED <<toplevel, handler, mapped, latest, buffered, submit, shown, commit,
                     walk, historyVars, provider>>
      /\ commit = Idle /\ linked[c] = "none" /\ latest[c] = 0
  BY DEF GetSubsurface, itemVars, surfaceVars, toplevelVars, Invariant, Order
<1>2. \A d \in Children \ {c} : linked'[d] = linked[d]
  BY DEF GetSubsurface, Invariant, Order, Types
<1>3. Types'
  BY DEF Invariant, Order, Types, GetSubsurface, itemVars, surfaceVars, toplevelVars, historyVars
<1>4. TasksInOrder' /\ (Upgrades' <=> Upgrades)
  BY <1>1 DEF Invariant, Order, TasksInOrder, HoldsToplevel, Upgrades, Unmapped
<1>5. Frame
  BY <1>1, <1>2, <1>4 DEF Frame, surfaceVars, Unmapped, Linked
<1>6. Order'
  BY <1>1, <1>2, <1>3, <1>4, <1>5, FrameWalks DEF Invariant, Order, Idle
<1>. QED  BY <1>5, <1>6, FrameKeeps DEF Invariant

LEMMA DestroyToplevelKeeps == ASSUME Invariant, DestroyToplevel PROVE Invariant'
<1>1. /\ UNCHANGED <<handler, latest, buffered, submit, linked, commit, walk, historyVars, provider>>
      /\ commit = Idle /\ toplevel' = "destroyed" /\ mapped' = NoItem
  BY DEF DestroyToplevel, itemVars, surfaceVars
<1>3. Types'
  BY RestingTyped DEF Invariant, Order, Types, DestroyToplevel, itemVars, surfaceVars, historyVars
<1>4. TasksInOrder'
  BY <1>1 DEF Invariant, Order, TasksInOrder
<1>5. Frame
  BY <1>1 DEF Frame, surfaceVars, Unmapped
<1>6. Order'
  BY <1>1, <1>3, <1>4, <1>5, FrameWalks DEF Invariant, Order, Idle
<1>. QED  BY <1>5, <1>6, FrameKeeps DEF Invariant

LEMMA DropToplevelKeeps == ASSUME Invariant, DropToplevel PROVE Invariant'
<1>1. /\ UNCHANGED <<handler, latest, buffered, submit, linked, commit, walk, historyVars, provider>>
      /\ toplevel = "destroyed" /\ ~Upgrades /\ toplevel' = "dropped" /\ mapped' = NoItem
  BY DEF DropToplevel, itemVars, surfaceVars
<1>2. /\ \A t \in Tasks : ~HoldsToplevel(t)
      /\ provider \notin {"asked", "connecting", "late"}
  BY <1>1 DEF Upgrades
<1>3. Types'
  BY RestingTyped DEF Invariant, Order, Types, DropToplevel, itemVars, surfaceVars, historyVars
<1>4. TasksInOrder'
  BY <1>1, <1>2 DEF Invariant, Order, TasksInOrder, HoldsToplevel
<1>5. Frame
  BY <1>1 DEF Frame, surfaceVars, Unmapped
<1>6. Order'
  BY <1>1, <1>3, <1>4, <1>5, FrameWalks DEF Invariant, Order
<1>. QED  BY <1>5, <1>6, FrameKeeps DEF Invariant
-----------------------------------------------------------------------------
(* Commits *)

\* What the steps of a commit leave alone: the other surfaces. Those that become linked
\* are disturbed.
CommitFrame ==
  /\ UNCHANGED <<toplevel, handler, mapped, provider, latest, walk>>
  /\ commit.pc # "idle" /\ commit' \in CommitState
  /\ commit' = Idle \/ (commit'.pc # "idle" /\ commit'.s = commit.s)
  /\ disturbed \subseteq disturbed'
  /\ \A s \in Surfaces \ {commit.s} : UNCHANGED <<buffered[s], submit[s], shown[s], failed[s]>>
  /\ \A c \in Children : linked'[c] = "none" <=> linked[c] = "none"
  /\ \A s \in Surfaces \ disturbed' : s \in Linked' => s \in Linked

LEMMA CommitFrameMeans ==
  ASSUME Invariant, CommitFrame
  PROVE  /\ SomeWalk' <=> SomeWalk
         /\ Upgrades' <=> Upgrades
         /\ Unmapped' <=> Unmapped
         /\ \A s \in Surfaces : Due(s)' /\ s \notin disturbed' /\ failed[s] = failed'[s] => Due(s)
<1>1. /\ SomeWalk' <=> SomeWalk
      /\ Upgrades' <=> Upgrades
      /\ Unmapped' <=> Unmapped
  BY DEF CommitFrame, SomeWalk, Walking, Upgrades, HoldsToplevel, Unmapped
<1>2. \A s \in Surfaces : Due(s)' /\ s \notin disturbed' /\ failed[s] = failed'[s] => Due(s)
  BY <1>1 DEF Due, CommitFrame
<1>. QED  BY <1>1, <1>2

\* It is left to say what a step does to the surface that is committed.
LEMMA CommitFrameKeeps ==
  ASSUME Invariant, CommitFrame, Types', BeforeMapping',
         NEW c, c = commit.s,
         c \notin disturbed /\ ~SomeWalk /\ Sound(c) =>
           Stored(c)' /\ (c \notin disturbed' /\ Due(c)' => Brought(c)')
  PROVE  Invariant'
<1>1. /\ SomeWalk' <=> SomeWalk
      /\ Upgrades' <=> Upgrades
      /\ Unmapped' <=> Unmapped
  BY CommitFrameMeans
<1>2. TasksInOrder'
  BY <1>1 DEF Invariant, Order, TasksInOrder, CommitFrame, HoldsToplevel
<1>3. \A t \in Tasks : WalkInOrder(t)'
  BY DEF Invariant, Order, CommitFrame, WalkInOrder, Walking
<1>4. Order'
  BY <1>2, <1>3 DEF Invariant, Order, CommitFrame
<1>5. Idle.pc = "idle"
  BY RestingTyped
<1>6. ASSUME NEW s \in Surfaces \ disturbed' PROVE Sound(s)'
  <2>1. Sound(s) /\ s \notin disturbed
    BY DEF Invariant, InStep, CommitFrame
  <2>2. CASE s = commit.s
    <3>1. ~SomeWalk
      BY <2>1, <2>2 DEF Sound, CommitFrame
    <3>2. /\ Stored(s)' /\ (Due(s)' => Brought(s)')
      BY <2>1, <2>2, <3>1
    <3>3. \A t \in Tasks : ~Walking(t)'
      BY <1>1, <3>1 DEF SomeWalk
    <3>. QED  BY <1>1, <3>1, <3>2, <3>3 DEF Sound
  <2>3. CASE s # commit.s
    <3>1. Due(s)' => Due(s) /\ UNCHANGED <<mapped, shown[s]>>
      BY <1>1, <2>3 DEF Due, CommitFrame
    <3>2. /\ UNCHANGED <<latest[s], buffered[s], submit[s], failed[s]>>
          /\ \A t \in Tasks : Walking(t)' <=> Walking(t)
          /\ \A t \in Tasks : Walking(t) => walk'[t] = walk[t]
          /\ commit.pc # "idle" /\ commit.s = s => commit' = commit
          /\ commit'.pc # "idle" /\ commit'.s = s => commit' = commit
      BY <1>5, <2>3 DEF CommitFrame, Walking
    <3>. QED  BY <1>1, <2>1, <3>1, <3>2, Unaffected
  <2>. QED  BY <2>2, <2>3
<1>. QED  BY <1>4, <1>6 DEF Invariant, InStep

\* What is known of the commit that is under way.
LEMMA CommitMeans ==
  ASSUME Invariant, commit.pc # "idle"
  PROVE  /\ commit \in CommitState /\ commit.s \in Surfaces
         /\ latest[commit.s] \in 0..MaxCommits
         /\ {latest, buffered, submit, shown} \subseteq [Surfaces -> 0..MaxCommits]
         /\ failed \in [Surfaces -> {"none", "update", "call"}]
         /\ Unmapped => mapped = NoItem
BY Typed DEF Invariant, Order, Types, TasksInOrder, CommitState

LEMMA CommitReadKeeps == ASSUME Invariant, CommitRead PROVE Invariant'
<1>0. PICK c : c = commit.s
  OBVIOUS
<1>1. /\ UNCHANGED <<toplevel, handler, mapped, provider, latest, buffered, submit, linked, shown,
                     walk, disturbed>>
      /\ commit.pc = "read"
      /\ commit' = [commit EXCEPT !.pc = "send", !.item = PanelItem(c)]
      /\ failed' = [failed EXCEPT ![c] = "none"]
  BY <1>0 DEF CommitRead, toplevelVars, itemVars, surfaceVars
<1>2. /\ commit \in CommitState /\ c \in Surfaces
      /\ failed \in [Surfaces -> {"none", "update", "call"}]
      /\ Unmapped => mapped = NoItem
  BY <1>0, <1>1, CommitMeans
<1>3. PanelItem(c) \in Items \union {NoItem}
  BY DEF Invariant, Order, Types, PanelItem
<1>4. /\ commit' \in CommitState /\ commit'.pc = "send" /\ commit'.item = PanelItem(c)
      /\ commit'.s = c
  BY <1>0, <1>1, <1>2, <1>3 DEF CommitState
<1>5. /\ failed' \in [Surfaces -> {"none", "update", "call"}]
      /\ \A s \in Surfaces \ {c} : failed'[s] = failed[s]
  BY <1>0, <1>1, <1>2
<1>6. CommitFrame
  BY <1>0, <1>1, <1>4, <1>5 DEF CommitFrame, Linked
<1>7. Types'
  BY <1>0, <1>1, <1>4, <1>5
  DEF Invariant, Order, Types, CommitRead, toplevelVars, itemVars, CommitState
<1>8. (SomeWalk' <=> SomeWalk) /\ (Unmapped' <=> Unmapped)
  BY <1>6, CommitFrameMeans
<1>9. BeforeMapping'
  <2>1. mapped = NoItem => PanelItem(c) = NoItem
    BY DEF PanelItem
  <2>2. Unmapped => \A t \in Tasks : Walking(t) => walk[t].pc = "take"
    BY DEF Invariant, BeforeMapping
  <2>3. \A t \in Tasks : Walking(t)' => Walking(t)
    BY <1>0, <1>1 DEF Walking
  <2>. QED  BY <1>0, <1>1, <1>2, <1>4, <1>8, <2>1, <2>2, <2>3 DEF Invariant, BeforeMapping
<1>10. Stored(c)'
  BY <1>0, <1>1, <1>4 DEF Stored, Committing
<1>11. ASSUME ~SomeWalk, Due(c)' PROVE Brought(c)'
  <2>1. /\ Committing(c)' /\ ~SomeWalk'
    BY <1>0, <1>1, <1>4, <1>8, <1>11 DEF Committing
  <2>2. Upgrades /\ c \in Linked /\ mapped # NoItem
    BY <1>0, <1>1, <1>6, <1>11, CommitFrameMeans DEF Due, Linked
  <2>3. PanelItem(c) = mapped
    BY <2>2 DEF PanelItem
  <2>. QED  BY <1>0, <1>1, <1>4, <2>1, <2>3 DEF Brought, CommitBrings
<1>. QED  BY <1>0, <1>6, <1>7, <1>9, <1>10, <1>11, CommitFrameKeeps

LEMMA CommitMakesNoneKeeps == ASSUME Invariant, CommitMakesNone PROVE Invariant'
<1>0. PICK c : c = commit.s
  OBVIOUS
<1>1. /\ UNCHANGED <<toplevel, handler, mapped, provider, latest, buffered, submit, linked, shown,
                     walk, disturbed>>
      /\ commit.pc = "read" /\ commit' = [commit EXCEPT !.pc = "child"]
      /\ failed' = [failed EXCEPT ![c] = "update"]
  BY <1>0 DEF CommitMakesNone, toplevelVars, itemVars, surfaceVars
<1>2. /\ commit \in CommitState /\ c \in Surfaces
      /\ failed \in [Surfaces -> {"none", "update", "call"}]
  BY <1>0, <1>1, CommitMeans
<1>3. commit' \in CommitState /\ commit'.pc = "child" /\ commit'.s = c
  BY <1>0, <1>1, <1>2 DEF CommitState
<1>4. /\ failed' \in [Surfaces -> {"none", "update", "call"}] /\ failed'[c] = "update"
      /\ \A s \in Surfaces \ {c} : failed'[s] = failed[s]
  BY <1>0, <1>1, <1>2
<1>5. CommitFrame
  BY <1>0, <1>1, <1>3, <1>4 DEF CommitFrame, Linked
<1>6. Types'
  BY <1>0, <1>1, <1>3, <1>4
  DEF Invariant, Order, Types, CommitMakesNone, toplevelVars, itemVars, CommitState
<1>7. BeforeMapping'
  <2>1. Unmapped' <=> Unmapped
    BY <1>5, CommitFrameMeans
  <2>2. \A t \in Tasks : Walking(t)' <=> Walking(t)
    BY <1>0, <1>1 DEF Walking
  <2>. QED  BY <1>0, <1>1, <1>3, <2>1, <2>2 DEF Invariant, BeforeMapping
<1>8. Stored(c)' /\ ~Due(c)'
  BY <1>4 DEF Stored, Due
<1>. QED  BY <1>0, <1>5, <1>6, <1>7, <1>8, CommitFrameKeeps

\* A submission that is sent has an item: the mapping has been.
LEMMA SendMeans ==
  ASSUME Invariant, (commit.pc = "send" /\ commit.item # NoItem) \/ commit.pc = "store",
         NEW s \in Surfaces, s = commit.s
  PROVE  /\ ~Unmapped
         /\ ~SomeWalk /\ Sound(s) /\ Due(s) =>
              commit.item = mapped /\ (commit.pc = "store" => Seen(s))
<1>1. ~Unmapped
  BY DEF Invariant, BeforeMapping
<1>2. Committing(s)
  BY DEF Committing
<1>. QED  BY <1>1, <1>2 DEF Sound, Brought, CommitBrings, SomeWalk

LEMMA CommitSendKeeps == ASSUME Invariant, CommitSend PROVE Invariant'
<1>0. PICK c : c = commit.s
  OBVIOUS
<1>1. /\ UNCHANGED <<toplevel, handler, mapped, provider, latest, buffered, submit, linked,
                     walk, disturbed, failed>>
      /\ commit.pc = "send" /\ commit.item # NoItem
      /\ commit' = [commit EXCEPT !.pc = "store"]
      /\ shown' = IF commit.item = mapped THEN [shown EXCEPT ![c] = latest[c]] ELSE shown
  BY <1>0 DEF CommitSend, ShellGets, toplevelVars, itemVars, surfaceVars, historyVars
<1>2. /\ commit \in CommitState /\ c \in Surfaces
      /\ shown \in [Surfaces -> 0..MaxCommits] /\ latest \in [Surfaces -> 0..MaxCommits]
  BY <1>0, <1>1, CommitMeans
<1>3. /\ commit' \in CommitState /\ commit'.pc = "store" /\ commit'.item = commit.item
      /\ commit'.s = c
  BY <1>0, <1>1, <1>2 DEF CommitState
<1>4. /\ shown' \in [Surfaces -> 0..MaxCommits]
      /\ commit.item = mapped => shown'[c] = latest[c]
      /\ \A s \in Surfaces \ {c} : shown'[s] = shown[s]
  BY <1>0, <1>1, <1>2
<1>5. CommitFrame
  BY <1>0, <1>1, <1>3, <1>4 DEF CommitFrame, Linked
<1>6. Types'
  BY <1>0, <1>1, <1>3, <1>4
  DEF Invariant, Order, Types, CommitSend, toplevelVars, itemVars, historyVars, CommitState
<1>7. ~Unmapped' /\ (SomeWalk' <=> SomeWalk) /\ (c \notin disturbed' /\ Due(c)' => Due(c))
  BY <1>0, <1>1, <1>2, <1>5, SendMeans, CommitFrameMeans
<1>8. BeforeMapping' /\ Stored(c)'
  BY <1>7 DEF BeforeMapping, Stored
<1>9. ASSUME ~SomeWalk, Sound(c), c \notin disturbed', Due(c)' PROVE Brought(c)'
  <2>1. commit.item = mapped
    BY <1>0, <1>1, <1>2, <1>7, <1>9, SendMeans
  <2>2. Committing(c)' /\ Seen(c)'
    BY <1>0, <1>1, <1>3, <1>4, <2>1 DEF Committing, Seen
  <2>. QED  BY <1>0, <1>1, <1>3, <1>7, <1>9, <2>1, <2>2 DEF Brought, CommitBrings
<1>. QED  BY <1>0, <1>5, <1>6, <1>8, <1>9, CommitFrameKeeps

LEMMA CommitSendFailsKeeps == ASSUME Invariant, CommitSendFails PROVE Invariant'
<1>0. PICK c : c = commit.s
  OBVIOUS
<1>1. /\ UNCHANGED <<toplevel, handler, mapped, provider, latest, buffered, submit, linked,
                     shown, walk, disturbed>>
      /\ commit.pc = "send" /\ commit.item # NoItem
      /\ commit' = [commit EXCEPT !.pc = "store"]
      /\ failed' = IF commit.item = mapped /\ failed[c] = "none"
                   THEN [failed EXCEPT ![c] = "call"] ELSE failed
  BY <1>0 DEF CommitSendFails, CallFails, toplevelVars, itemVars, surfaceVars
<1>2. /\ commit \in CommitState /\ c \in Surfaces
      /\ failed \in [Surfaces -> {"none", "update", "call"}]
  BY <1>0, <1>1, CommitMeans
<1>3. /\ commit' \in CommitState /\ commit'.pc = "store" /\ commit'.item = commit.item
      /\ commit'.s = c
  BY <1>0, <1>1, <1>2 DEF CommitState
<1>4. /\ failed' \in [Surfaces -> {"none", "update", "call"}]
      /\ failed'[c] # "update" => failed[c] # "update"
      /\ commit.item = mapped /\ failed'[c] # "update" => failed'[c] = "call"
      /\ \A s \in Surfaces \ {c} : failed'[s] = failed[s]
  BY <1>0, <1>1, <1>2
<1>5. CommitFrame
  BY <1>0, <1>1, <1>3, <1>4 DEF CommitFrame, Linked
<1>6. Types'
  BY <1>0, <1>1, <1>3, <1>4
  DEF Invariant, Order, Types, CommitSendFails, toplevelVars, itemVars, CommitState
<1>7. ~Unmapped' /\ (SomeWalk' <=> SomeWalk) /\ (Upgrades' <=> Upgrades)
  BY <1>0, <1>1, <1>2, <1>5, SendMeans, CommitFrameMeans
<1>8. BeforeMapping' /\ Stored(c)'
  BY <1>7 DEF BeforeMapping, Stored
<1>9. ASSUME ~SomeWalk, Sound(c), Due(c)' PROVE Brought(c)'
  <2>1. Due(c) /\ failed'[c] # "update"
    BY <1>0, <1>1, <1>4, <1>7, <1>9 DEF Due, Linked
  <2>2. commit.item = mapped
    BY <1>0, <1>1, <1>2, <1>9, <2>1, SendMeans
  <2>3. Committing(c)' /\ Seen(c)'
    BY <1>0, <1>1, <1>3, <1>4, <2>1, <2>2 DEF Committing, Seen
  <2>. QED  BY <1>0, <1>1, <1>3, <1>7, <1>9, <2>2, <2>3 DEF Brought, CommitBrings
<1>. QED  BY <1>0, <1>5, <1>6, <1>8, <1>9, CommitFrameKeeps

LEMMA CommitStoreKeeps == ASSUME Invariant, CommitStore PROVE Invariant'
<1>0. PICK c : c = commit.s
  OBVIOUS
<1>1. /\ UNCHANGED <<toplevel, handler, mapped, provider, latest, buffered, shown, linked,
                     walk, disturbed, failed>>
      /\ commit.pc = "store"
      /\ commit' = [commit EXCEPT !.pc = "child", !.item = NoItem]
      /\ submit' = [submit EXCEPT ![c] = latest[c]]
  BY <1>0 DEF CommitStore, toplevelVars, itemVars, historyVars
<1>2. /\ commit \in CommitState /\ c \in Surfaces
      /\ submit \in [Surfaces -> 0..MaxCommits] /\ latest \in [Surfaces -> 0..MaxCommits]
  BY <1>0, <1>1, CommitMeans
<1>3. commit' \in CommitState /\ commit'.pc = "child" /\ commit'.s = c
  BY <1>0, <1>1, <1>2 DEF CommitState
<1>4. /\ submit' \in [Surfaces -> 0..MaxCommits]
      /\ submit'[c] = latest[c]
      /\ \A s \in Surfaces \ {c} : submit'[s] = submit[s]
  BY <1>0, <1>1, <1>2
<1>5. CommitFrame
  BY <1>0, <1>1, <1>3, <1>4 DEF CommitFrame, Linked
<1>6. Types'
  BY <1>0, <1>1, <1>3, <1>4
  DEF Invariant, Order, Types, CommitStore, toplevelVars, itemVars, historyVars, CommitState
<1>7. ~Unmapped' /\ (SomeWalk' <=> SomeWalk) /\ (c \notin disturbed' /\ Due(c)' => Due(c))
  BY <1>0, <1>1, <1>2, <1>5, SendMeans, CommitFrameMeans
<1>8. BeforeMapping' /\ Stored(c)'
  BY <1>7 DEF BeforeMapping, Stored
<1>9. ASSUME ~SomeWalk, Sound(c), c \notin disturbed', Due(c)' PROVE Brought(c)'
  <2>1. Seen(c)
    BY <1>0, <1>1, <1>2, <1>7, <1>9, SendMeans
  <2>2. ~Committing(c)' /\ OnShell(c)'
    BY <1>0, <1>1, <1>3, <1>4, <2>1 DEF Committing, OnShell, Seen
  <2>. QED  BY <1>7, <1>9, <2>2 DEF Brought
<1>. QED  BY <1>0, <1>5, <1>6, <1>8, <1>9, CommitFrameKeeps

LEMMA CommitDropKeeps == ASSUME Invariant, CommitDrop PROVE Invariant'
<1>0. PICK c : c = commit.s
  OBVIOUS
<1>1. /\ UNCHANGED <<toplevel, handler, mapped, provider, latest, buffered, shown, linked,
                     walk, disturbed, failed>>
      /\ commit.pc = "send" /\ commit.item = NoItem
      /\ commit' = [commit EXCEPT !.pc = "keep"]
      /\ submit' = [submit EXCEPT ![c] = 0]
  BY <1>0 DEF CommitDrop, toplevelVars, itemVars, historyVars
<1>2. /\ commit \in CommitState /\ c \in Surfaces
      /\ submit \in [Surfaces -> 0..MaxCommits] /\ 0 \in 0..MaxCommits
  BY <1>0, <1>1, CommitMeans, BoundAssumption
<1>3. commit' \in CommitState /\ commit'.pc = "keep" /\ commit'.s = c
  BY <1>0, <1>1, <1>2 DEF CommitState
<1>4. /\ submit' \in [Surfaces -> 0..MaxCommits]
      /\ submit'[c] = 0
      /\ \A s \in Surfaces \ {c} : submit'[s] = submit[s]
  BY <1>0, <1>1, <1>2
<1>5. CommitFrame
  BY <1>0, <1>1, <1>3, <1>4 DEF CommitFrame, Linked
<1>6. Types'
  BY <1>0, <1>1, <1>3, <1>4
  DEF Invariant, Order, Types, CommitDrop, toplevelVars, itemVars, historyVars, CommitState
<1>7. /\ Unmapped' <=> Unmapped
      /\ c \notin disturbed' /\ Due(c)' => Due(c)
  BY <1>0, <1>1, <1>2, <1>5, CommitFrameMeans
<1>8. BeforeMapping'
  <2>1. \A t \in Tasks : Walking(t)' <=> Walking(t)
    BY <1>0, <1>1 DEF Walking
  <2>. QED  BY <1>0, <1>1, <1>3, <1>4, <1>7, <2>1 DEF Invariant, BeforeMapping
<1>9. Stored(c)'
  BY <1>0, <1>1, <1>3 DEF Stored, Committing
<1>10. ASSUME ~SomeWalk, Sound(c), c \notin disturbed' PROVE ~Due(c)'
  <2>1. Committing(c)
    BY <1>0, <1>1 DEF Committing
  <2>2. Due(c) => commit.item = mapped
    BY <1>0, <1>1, <1>10, <2>1 DEF Sound, Brought, CommitBrings, SomeWalk
  <2>. QED  BY <1>0, <1>1, <1>7, <1>10, <2>2 DEF Due
<1>. QED  BY <1>0, <1>5, <1>6, <1>8, <1>9, <1>10, CommitFrameKeeps

LEMMA CommitBufferKeeps == ASSUME Invariant, CommitBuffer PROVE Invariant'
<1>0. PICK c : c = commit.s
  OBVIOUS
<1>1. /\ UNCHANGED <<toplevel, handler, mapped, provider, latest, submit, shown, linked, walk,
                     disturbed, failed>>
      /\ commit.pc = "keep"
      /\ commit' = [commit EXCEPT !.pc = "child"]
      /\ buffered' = [buffered EXCEPT ![c] = latest[c]]
  BY <1>0 DEF CommitBuffer, toplevelVars, itemVars, historyVars
<1>2. /\ commit \in CommitState /\ c \in Surfaces
      /\ buffered \in [Surfaces -> 0..MaxCommits] /\ latest \in [Surfaces -> 0..MaxCommits]
  BY <1>0, <1>1, CommitMeans
<1>3. commit' \in CommitState /\ commit'.pc = "child" /\ commit'.s = c
  BY <1>0, <1>1, <1>2 DEF CommitState
<1>4. /\ buffered' \in [Surfaces -> 0..MaxCommits]
      /\ buffered'[c] = latest[c]
      /\ \A s \in Surfaces \ {c} : buffered'[s] = buffered[s]
  BY <1>0, <1>1, <1>2
<1>5. CommitFrame
  BY <1>0, <1>1, <1>3, <1>4 DEF CommitFrame, Linked
<1>6. Types'
  BY <1>0, <1>1, <1>3, <1>4
  DEF Invariant, Order, Types, CommitBuffer, toplevelVars, itemVars, historyVars, CommitState
<1>7. /\ Unmapped' <=> Unmapped
      /\ c \notin disturbed' /\ Due(c)' => Due(c)
  BY <1>0, <1>1, <1>2, <1>5, CommitFrameMeans
<1>8. BeforeMapping'
  <2>1. \A t \in Tasks : Walking(t)' <=> Walking(t)
    BY <1>0, <1>1 DEF Walking
  <2>. QED  BY <1>0, <1>1, <1>3, <1>7, <2>1 DEF Invariant, BeforeMapping
<1>9. Stored(c)'
  BY <1>0, <1>1, <1>4 DEF Stored
<1>10. ASSUME ~SomeWalk, Sound(c), c \notin disturbed' PROVE ~Due(c)'
  <2>1. Committing(c)
    BY <1>0, <1>1 DEF Committing
  <2>2. ~Due(c)
    BY <1>0, <1>1, <1>10, <2>1 DEF Sound, Brought, CommitBrings, SomeWalk
  <2>. QED  BY <1>7, <1>10, <2>2
<1>. QED  BY <1>0, <1>5, <1>6, <1>8, <1>9, <1>10, CommitFrameKeeps

LEMMA CommitChildKeeps == ASSUME Invariant, CommitChild PROVE Invariant'
<1>0. PICK c : c = commit.s
  OBVIOUS
<1>1. /\ UNCHANGED <<toplevel, handler, mapped, provider, latest, buffered, submit, shown, walk,
                     failed>>
      /\ commit.pc = "child" /\ commit' = Idle
      /\ disturbed' = disturbed \union {d \in Children : linked'[d] # linked[d]}
  BY <1>0 DEF CommitChild, toplevelVars, itemVars, surfaceVars
<1>2. /\ linked' \in [Children -> {"none", "unlinked", "born", "late"}]
      /\ \A d \in Children : linked'[d] = linked[d] \/ (linked[d] = "unlinked" /\ linked'[d] = "late")
  BY <1>0 DEF CommitChild, Invariant, Order, Types
<1>3. c \in Surfaces /\ Idle \in CommitState /\ Idle.pc = "idle"
  BY <1>0, <1>1, CommitMeans, RestingTyped
<1>4. CommitFrame
  <2>1. \A s \in Surfaces \ disturbed' : s \in Linked' => s \in Linked
    BY <1>0, <1>1 DEF Linked, Surfaces
  <2>. QED  BY <1>0, <1>1, <1>2, <1>3, <2>1 DEF CommitFrame
<1>5. Types'
  <2>1. disturbed' \subseteq Surfaces
    BY <1>0, <1>1 DEF Invariant, Order, Types, Surfaces
  <2>. QED
    BY <1>0, <1>1, <1>2, <1>3, <2>1
    DEF Invariant, Order, Types, CommitChild, toplevelVars, itemVars, CommitState
<1>6. /\ (Unmapped' <=> Unmapped) /\ (SomeWalk' <=> SomeWalk)
      /\ c \notin disturbed' /\ Due(c)' => Due(c)
  BY <1>0, <1>1, <1>3, <1>4, CommitFrameMeans
<1>7. BeforeMapping'
  <2>1. \A t \in Tasks : Walking(t)' <=> Walking(t)
    BY <1>0, <1>1 DEF Walking
  <2>. QED  BY <1>0, <1>1, <1>3, <1>6, <2>1 DEF Invariant, BeforeMapping
<1>8. ~Committing(c) /\ ~Committing(c)'
  BY <1>0, <1>1, <1>3 DEF Committing
<1>9. Sound(c) => Stored(c)'
  BY <1>0, <1>1, <1>6, <1>8 DEF Sound, Stored
<1>10. ASSUME ~SomeWalk, Sound(c), c \notin disturbed', Due(c)' PROVE Brought(c)'
  <2>1. OnShell(c)
    BY <1>6, <1>8, <1>10 DEF Sound, Brought, SomeWalk
  <2>. QED  BY <1>0, <1>1, <1>6, <1>8, <1>10, <2>1 DEF Brought, OnShell, Seen
<1>. QED  BY <1>0, <1>4, <1>5, <1>7, <1>9, <1>10, CommitFrameKeeps

\* The mapping task may be spawned; the content is the surface's latest.
LEMMA CommitStartKeeps ==
  ASSUME Invariant, NEW s \in Surfaces, NEW newContent \in BOOLEAN, CommitStart(s, newContent)
  PROVE  Invariant'
<1>. DEFINE content == IF newContent THEN latest[s] + 1 ELSE latest[s]
            M == "mapper"
<1>1. /\ commit = Idle /\ s \in {Root} \union Subsurfaces
      /\ newContent => latest[s] < MaxCommits
      /\ latest' = [latest EXCEPT ![s] = content]
      /\ commit' = IF content = 0 THEN Idle
                   ELSE [pc |-> "read", s |-> s, item |-> NoItem]
      /\ disturbed' = IF SomeWalk THEN disturbed \union {s} ELSE disturbed \ {s}
      /\ UNCHANGED <<toplevel, mapped, provider, buffered, submit, linked, shown, failed>>
  BY DEF CommitStart, itemVars
<1>2. /\ latest \in [Surfaces -> 0..MaxCommits] /\ walk \in [Tasks -> WalkState]
      /\ M \in Tasks /\ M \notin Items /\ Items \subseteq Tasks
  BY Typed, TaskAssumption DEF Invariant, Order, Types
<1>3. /\ content \in 0..MaxCommits /\ latest' \in [Surfaces -> 0..MaxCommits]
      /\ latest'[s] = content /\ \A u \in Surfaces \ {s} : latest'[u] = latest[u]
      /\ content = 0 => latest[s] = 0
  BY <1>1, <1>2, BoundAssumption
<1>4. /\ commit' \in CommitState
      /\ \/ content = 0 /\ commit' = Idle
         \/ content # 0 /\ commit'.pc = "read" /\ commit'.s = s
  BY <1>1, RestingTyped DEF CommitState
<1>5. \/ UNCHANGED <<walk, handler>>
      \/ /\ Upgrades /\ handler /\ handler' = FALSE
         /\ walk' = [walk EXCEPT ![M].pc = "spawn"]
  BY DEF CommitStart, SpawnsMapping
<1>6. Idle.pc = "idle" /\ commit.pc = "idle"
  BY <1>1, RestingTyped
<1>7. /\ TasksInOrder' /\ (Upgrades' <=> Upgrades) /\ (Unmapped' <=> Unmapped)
      /\ walk' \in [Tasks -> WalkState]
      /\ \A t \in Tasks : walk'[t] = walk[t] \/ (~Walking(t) /\ walk'[t].pc \notin WalkPcs)
  <2>1. CASE UNCHANGED <<walk, handler>>
    BY <1>1, <1>2, <2>1
    DEF Invariant, Order, TasksInOrder, HoldsToplevel, Upgrades, Unmapped
  <2>2. CASE /\ Upgrades /\ handler /\ handler' = FALSE
             /\ walk' = [walk EXCEPT ![M].pc = "spawn"]
    <3>1. /\ walk' \in [Tasks -> WalkState] /\ walk'[M].pc = "spawn"
          /\ walk'[M].mode = walk[M].mode
          /\ \A t \in Tasks \ {M} : walk'[t] = walk[t]
      BY <1>2, <2>2 DEF WalkState, TaskPcs
    <3>2. walk[M].pc = "idle" /\ walk[M].mode = "apply"
      BY <2>2 DEF Invariant, Order, TasksInOrder
    <3>3. toplevel \in {"live", "destroyed"}
      BY <2>2, UpgradesMeans DEF Invariant, Order
    <3>4. Unmapped' <=> Unmapped
      BY <3>1, <3>2 DEF Unmapped, WalkPcs
    <3>5. Upgrades'
      BY <1>1, <1>2, <3>1, <3>3 DEF Upgrades, HoldsToplevel
    <3>6. TasksInOrder'
      BY <1>1, <1>2, <2>2, <3>1, <3>2, <3>3, <3>4 DEF Invariant, Order, TasksInOrder, HoldsToplevel
    <3>7. ~Walking(M) /\ walk'[M].pc \notin WalkPcs
      BY <3>1, <3>2 DEF Walking, WalkPcs
    <3>. QED  BY <2>2, <3>1, <3>4, <3>5, <3>6, <3>7
  <2>. QED  BY <1>5, <2>1, <2>2
<1>8. /\ \A t \in Tasks : Walking(t)' <=> Walking(t)
      /\ \A t \in Tasks : Walking(t) => walk'[t] = walk[t]
      /\ SomeWalk' <=> SomeWalk
  BY <1>7 DEF Walking, SomeWalk
<1>9. Types'
  <2>1. {configured', handler'} \subseteq BOOLEAN /\ disturbed' \subseteq Surfaces
    BY <1>1, <1>5 DEF CommitStart, Invariant, Order, Types
  <2>. QED
    BY <1>1, <1>3, <1>4, <1>7, <2>1
    DEF CommitStart, Invariant, Order, Types, itemVars, CommitState, WalkState, TaskPcs
<1>10. Order'
  <2>1. \A t \in Tasks : WalkInOrder(t)'
    BY <1>8 DEF Invariant, Order, WalkInOrder
  <2>2. \A c \in Children : linked[c] = "none" => c # s
    BY <1>1, SurfaceAssumption DEF Subsurfaces
  <2>3. \A c \in Children : linked'[c] = "none" => latest'[c] = 0
    BY <1>1, <1>3, <2>2 DEF Invariant, Order, Surfaces
  <2>. QED  BY <1>4, <1>6, <1>7, <1>9, <2>1, <2>3 DEF Order
<1>11. BeforeMapping'
  BY <1>1, <1>4, <1>6, <1>7, <1>8 DEF Invariant, BeforeMapping
<1>12. ASSUME NEW u \in Surfaces \ disturbed' PROVE Sound(u)'
  <2>1. CASE u = s
    <3>1. ~SomeWalk /\ \A t \in Tasks : ~Walking(t)'
      BY <1>1, <1>8, <2>1 DEF SomeWalk
    <3>2. Stored(s)'
      BY <1>3, <1>4 DEF Stored, Committing
    <3>3. Due(s)' => Brought(s)'
      BY <1>3, <1>4, <1>8, <3>1 DEF Due, Brought, Committing, CommitBrings
    <3>. QED  BY <1>8, <2>1, <3>1, <3>2, <3>3 DEF Sound
  <2>2. CASE u # s
    <3>1. Sound(u)
      BY <1>1, <2>2 DEF Invariant, InStep
    <3>2. Due(u)' => Due(u) /\ UNCHANGED <<mapped, shown[u]>>
      BY <1>1, <1>3, <1>7, <2>2 DEF Due, Linked
    <3>3. UNCHANGED <<latest[u], buffered[u], submit[u], failed[u]>>
      BY <1>1, <1>3, <2>2
    <3>4. commit'.pc # "idle" /\ commit'.s = u => commit' = commit
      BY <1>4, <1>6, <2>2
    <3>. QED  BY <1>6, <1>7, <1>8, <3>1, <3>2, <3>3, <3>4, Unaffected
  <2>. QED  BY <2>1, <2>2
<1>. QED  BY <1>10, <1>11, <1>12 DEF Invariant, InStep
-----------------------------------------------------------------------------
(* Walks *)

\* The only walk that there is brings what is due.
LEMMA OnlyWalk ==
  ASSUME Invariant, NEW t \in Tasks, Walking(t), NEW s \in Surfaces \ disturbed
  PROVE  /\ ~Committing(s) /\ \A u \in Tasks \ {t} : ~Walking(u)
         /\ commit.pc = "idle" \/ commit.s # s
         /\ Stored(s) /\ (Due(s) => WalkBrings(t, s))
<1>1. Sound(s) /\ SomeWalk
  BY DEF Invariant, InStep, SomeWalk
<1>2. /\ commit.pc = "idle" \/ commit.s # s
      /\ \A u \in Tasks \ {t} : ~Walking(u)
  BY <1>1 DEF Sound
<1>. QED  BY <1>1, <1>2 DEF Sound, Brought, Committing

\* A walk that begins, or goes on with todo.
LEMMA WalksFromTyped ==
  ASSUME NEW w \in WalkState, NEW todo \in SUBSET Surfaces
  PROVE  /\ WalksFrom(w, todo) \in WalkState
         /\ WalksFrom(w, todo).pc = "take" /\ WalksFrom(w, todo).mode = w.mode
         /\ WalksFrom(w, todo).todo = todo
<1>. DEFINE v == [Resting EXCEPT !.pc = "take", !.mode = w.mode, !.todo = todo]
<1>1. w.mode \in {"apply", "reapply"} /\ Resting \in WalkState
  BY RestingTyped DEF WalkState
<1>2. v \in WalkState /\ v.pc = "take" /\ v.mode = w.mode /\ v.todo = todo
  BY <1>1 DEF WalkState, TaskPcs, WalkPcs
<1>. QED  BY <1>2 DEF WalksFrom

LEMMA InstallKeeps == ASSUME Invariant, NEW t \in Tasks, Install(t) PROVE Invariant'
<1>. DEFINE w == WalksFrom(walk[t], {Root})
<1>1. /\ UNCHANGED <<toplevel, handler, provider, latest, buffered, submit, linked, commit>>
      /\ walk[t].pc = "install"
      /\ IF walk[t].mode = "apply" \/ mapped # NoItem
         THEN /\ mapped' = walk[t].item /\ shown' = Nothing
              /\ failed' = [s \in Surfaces |-> IF failed[s] = "call" THEN "none" ELSE failed[s]]
         ELSE UNCHANGED <<mapped, shown, failed>>
      /\ walk' = [walk EXCEPT ![t] = w]
      /\ disturbed' = Overlaps(t)
  BY DEF Install, Maps, toplevelVars, itemVars, surfaceVars
<1>2. /\ walk \in [Tasks -> WalkState] /\ commit \in CommitState
      /\ Items \subseteq Tasks /\ t \in {"mapper"} \union Items
      /\ "mapper" \in Tasks /\ "mapper" \notin Items
      /\ failed \in [Surfaces -> {"none", "update", "call"}] /\ disturbed \subseteq Surfaces
  BY Typed, TaskAssumption DEF Invariant, Order, Tasks, Types
<1>3. /\ w \in WalkState /\ w.pc = "take" /\ w.todo = {Root} /\ w.mode = walk[t].mode
  <2>1. walk[t] \in WalkState /\ {Root} \in SUBSET Surfaces
    BY <1>2 DEF Surfaces
  <2>. QED  BY <2>1, WalksFromTyped
<1>. HIDE DEF w
<1>4. /\ walk' \in [Tasks -> WalkState] /\ walk'[t] = w
      /\ \A u \in Tasks \ {t} : walk'[u] = walk[u]
  BY <1>1, <1>2, <1>3
<1>5. /\ failed' \in [Surfaces -> {"none", "update", "call"}]
      /\ \A s \in Surfaces : failed'[s] = "update" <=> failed[s] = "update"
  BY <1>1, <1>2
<1>6. HoldsToplevel(t) /\ toplevel \in {"live", "destroyed"} /\ Upgrades
  BY <1>1, <1>2 DEF HoldsToplevel, Invariant, Order, TasksInOrder, Upgrades
<1>7. ~Walking(t) /\ Walking(t)' /\ \A u \in Tasks \ {t} : Walking(u)' <=> Walking(u)
  BY <1>1, <1>3, <1>4 DEF Walking, WalkPcs
<1>8. /\ t = "mapper" => w.mode = "apply" /\ Unmapped /\ ~Unmapped'
      /\ t \in Items => w.mode = "reapply" /\ (Unmapped' <=> Unmapped)
  BY <1>1, <1>2, <1>3, <1>4 DEF Invariant, Order, TasksInOrder, Unmapped, WalkPcs
<1>9. mapped' # NoItem => ~Unmapped'
  BY <1>1, <1>2, <1>3, <1>8 DEF Invariant, Order, TasksInOrder
<1>10. Types'
  <2>1. /\ mapped' \in Items \union {NoItem} /\ shown' \in [Surfaces -> 0..MaxCommits]
    <3>1. walk[t].item \in Items \union {NoItem}
      BY <1>2 DEF WalkState
    <3>. QED  BY <1>1, <3>1, RestingTyped DEF Invariant, Order, Types
  <2>2. disturbed' \subseteq Surfaces
    <3>1. commit.s \in Surfaces
      BY <1>2 DEF CommitState
    <3>. QED  BY <1>1, <1>2, <3>1 DEF Overlaps
  <2>. QED
    BY <1>1, <1>4, <1>5, <2>1, <2>2
    DEF Install, Invariant, Order, Types, toplevelVars, itemVars, CommitState, WalkState, TaskPcs
<1>11. TasksInOrder'
  <2>1. \A u \in Tasks : HoldsToplevel(u)' => toplevel' \in {"live", "destroyed"}
    BY <1>1, <1>6
  <2>2. /\ walk'["mapper"].mode = "apply"
        /\ \A i \in Items : walk'[i].pc \in {"install"} \union WalkPcs =>
                              walk'[i].mode = "reapply"
    BY <1>1, <1>2, <1>3, <1>4, <1>8 DEF Invariant, Order, TasksInOrder
  <2>3. /\ handler \/ toplevel = "none" => walk'["mapper"].pc = "idle"
        /\ provider \in {"asked", "connecting"} => walk'["mapper"].pc = "await"
    BY <1>1, <1>2, <1>3, <1>4, <1>8 DEF Invariant, Order, TasksInOrder
  <2>. QED  BY <1>1, <1>6, <1>9, <2>1, <2>2, <2>3 DEF TasksInOrder
<1>12. Order'
  <2>1. \A u \in Tasks : WalkInOrder(u)'
    BY <1>3, <1>4, <1>7 DEF Invariant, Order, WalkInOrder
  <2>. QED  BY <1>1, <1>10, <1>11, <2>1 DEF Invariant, Order
<1>13. BeforeMapping'
  <2>1. \A u \in Tasks : Walking(u)' => u = t \/ Walking(u)
    BY <1>7
  <2>2. Unmapped' => Unmapped
    BY <1>2, <1>8
  <2>. QED  BY <1>1, <1>3, <1>4, <2>1, <2>2 DEF Invariant, BeforeMapping
<1>14. ASSUME NEW s \in Surfaces \ disturbed' PROVE Sound(s)'
  <2>1. /\ \A u \in Tasks \ {t} : ~Walking(u)
        /\ commit = Idle \/ commit.s # s
        /\ s \notin disturbed
    BY <1>1, <1>2 DEF Overlaps
  <2>2. ~SomeWalk /\ ~Committing(s) /\ (commit.pc = "idle" \/ commit.s # s)
    BY <1>7, <2>1, RestingTyped DEF SomeWalk, Committing
  <2>3. Sound(s)
    BY <2>1 DEF Invariant, InStep
  <2>4. \A u \in Tasks : Walking(u)' => u = t
    BY <1>7, <2>1
  <2>5. Stored(s)'
    <3>1. Unmapped' => Unmapped
      BY <1>2, <1>8
    <3>. QED  BY <1>1, <1>5, <2>2, <2>3, <3>1 DEF Sound, Stored
  <2>6. ASSUME Due(s)' PROVE Brought(s)'
    <3>1. /\ mapped' # NoItem /\ s \in Linked /\ latest[s] # 0 /\ failed[s] # "update"
      BY <1>1, <1>5, <2>6 DEF Due, Linked
    <3>2. CASE t = "mapper"
      <4>1. buffered[s] = latest[s]
        BY <1>8, <2>2, <2>3, <3>1, <3>2 DEF Sound, Stored
      <4>2. WalkBrings(t, s)'
        BY <1>1, <1>3, <1>4, <1>8, <3>2, <4>1 DEF WalkBrings, InHand, Ahead, Source
      <4>. QED  BY <1>7, <4>2 DEF Brought
    <3>3. CASE t \in Items
      <4>1. submit[s] = latest[s]
        <5>1. mapped # NoItem
          BY <1>1, <1>3, <1>8, <3>1, <3>3
        <5>. QED  BY <1>6, <2>2, <2>3, <3>1, <5>1 DEF Sound, Due, Brought, OnShell, SomeWalk
      <4>2. WalkBrings(t, s)'
        BY <1>1, <1>3, <1>4, <1>8, <3>3, <4>1 DEF WalkBrings, InHand, Ahead, Source
      <4>. QED  BY <1>7, <4>2 DEF Brought
    <3>. QED  BY <1>2, <3>2, <3>3
  <2>. QED  BY <1>1, <2>2, <2>4, <2>5, <2>6 DEF Sound
<1>. QED  BY <1>12, <1>13, <1>14 DEF Invariant, InStep

\* A walk goes on, or ends.
WalkGoes(t, w) ==
  /\ UNCHANGED <<toplevelVars, mapped, itemVars, latest, linked, commit, disturbed>>
  /\ {buffered', submit', shown'} \subseteq [Surfaces -> 0..MaxCommits]
  /\ failed' \in [Surfaces -> {"none", "update", "call"}]
  /\ \A s \in Surfaces : failed'[s] # "update" => failed[s] # "update"
  /\ Walking(t) /\ walk' = [walk EXCEPT ![t] = w]
  /\ w \in WalkState
  /\ \/ w = Ended
     \/ /\ w.pc \in WalkPcs /\ w.mode = walk[t].mode
        /\ w.todo = {Root} \/ w.todo \subseteq Children
        /\ w.pc # "take" => w.s \in w.todo /\ w.held # 0

\* What a walk has to show for surface s when it has gone to w.
Brings(t, w, s) == IF w = Ended THEN OnShell(s)' ELSE WalkBrings(t, s)'

LEMMA WalkGoesKeeps ==
  ASSUME Invariant, NEW t \in Tasks, NEW w, WalkGoes(t, w),
         Unmapped => /\ w.pc \in {"take", "ended"}
                     /\ \A s \in Surfaces : UNCHANGED <<buffered[s], submit[s], failed[s]>>,
         \A s \in Surfaces \ disturbed :
           ~Unmapped /\ Due(s) /\ Due(s)' /\ WalkBrings(t, s) => Brings(t, w, s)
  PROVE  Invariant'
<1>1. /\ UNCHANGED <<toplevel, handler, provider, mapped, latest, linked, commit, disturbed>>
      /\ Walking(t)
  BY DEF WalkGoes, toplevelVars, itemVars
<1>2. /\ walk \in [Tasks -> WalkState]
      /\ Items \subseteq Tasks /\ t \in {"mapper"} \union Items
      /\ "mapper" \in Tasks /\ "mapper" \notin Items
  BY Typed, TaskAssumption DEF Invariant, Order, Tasks
<1>3. /\ walk' \in [Tasks -> WalkState] /\ walk'[t] = w
      /\ \A u \in Tasks \ {t} : walk'[u] = walk[u]
  BY <1>2 DEF WalkGoes
<1>4. Ended.pc = "ended" /\ Ended.mode = "apply"
  BY DEF Ended, Resting
<1>5. HoldsToplevel(t) /\ toplevel \in {"live", "destroyed"} /\ Upgrades
  BY <1>1, <1>2 DEF HoldsToplevel, Walking, WalkPcs, Invariant, Order, TasksInOrder, Upgrades
<1>6. \A u \in Tasks \ {t} : Walking(u)' <=> Walking(u)
  BY <1>3 DEF Walking
<1>7. Unmapped' <=> Unmapped
  BY <1>1, <1>2, <1>3, <1>4 DEF Unmapped, WalkGoes, Walking
<1>8. Types'
  BY <1>1, <1>3
  DEF WalkGoes, Invariant, Order, Types, toplevelVars, itemVars, WalkState, TaskPcs
<1>9. TasksInOrder'
  <2>1. \A u \in Tasks : HoldsToplevel(u)' => toplevel' \in {"live", "destroyed"}
    BY <1>1, <1>5
  <2>2. /\ walk'["mapper"].mode = "apply"
        /\ \A i \in Items : walk'[i].pc \in {"install"} \union WalkPcs =>
                              walk'[i].mode = "reapply"
    <3>1. /\ t = "mapper" => w.mode = "apply"
          /\ t \in Items /\ w.pc \in {"install"} \union WalkPcs => w.mode = "reapply"
      BY <1>1, <1>2, <1>4 DEF WalkGoes, Walking, WalkPcs, Invariant, Order, TasksInOrder
    <3>2. /\ walk["mapper"].mode = "apply"
          /\ \A i \in Items : walk[i].pc \in {"install"} \union WalkPcs =>
                                walk[i].mode = "reapply"
      BY DEF Invariant, Order, TasksInOrder
    <3>. QED  BY <1>2, <1>3, <3>1, <3>2
  <2>3. /\ handler \/ toplevel = "none" => walk'["mapper"].pc = "idle"
        /\ provider \in {"asked", "connecting"} => walk'["mapper"].pc = "await"
    <3>1. t = "mapper" => walk[t].pc \notin {"idle", "await"}
      BY <1>1 DEF Walking, WalkPcs
    <3>. QED  BY <1>1, <1>2, <1>3, <3>1 DEF Invariant, Order, TasksInOrder
  <2>4. mapped # NoItem => ~Unmapped
    BY DEF Invariant, Order, TasksInOrder
  <2>. QED  BY <1>1, <1>5, <1>7, <2>1, <2>2, <2>3, <2>4 DEF TasksInOrder
<1>10. \A u \in Tasks : WalkInOrder(u)'
  <2>1. WalkInOrder(t)'
    BY <1>3, <1>4 DEF WalkGoes, WalkInOrder, Walking, WalkPcs
  <2>. QED  BY <1>3, <1>6, <2>1 DEF Invariant, Order, WalkInOrder
<1>11. Order'
  BY <1>1, <1>8, <1>9, <1>10 DEF Invariant, Order
<1>12. BeforeMapping'
  <2>. SUFFICES ASSUME Unmapped PROVE BeforeMapping'
    BY <1>7 DEF BeforeMapping
  <2>1. \A u \in Tasks : Walking(u)' => walk'[u].pc = "take"
    <3>1. Walking(t)' => walk'[t].pc = "take"
      BY <1>3 DEF Walking, WalkPcs
    <3>2. \A u \in Tasks \ {t} : Walking(u)' => walk'[u].pc = "take"
      BY <1>3, <1>6 DEF Invariant, BeforeMapping
    <3>. QED  BY <3>1, <3>2
  <2>. QED  BY <1>1, <2>1 DEF Invariant, BeforeMapping
<1>13. ASSUME NEW s \in Surfaces \ disturbed PROVE Sound(s)'
  <2>1. /\ ~Committing(s) /\ \A u \in Tasks \ {t} : ~Walking(u)
        /\ commit.pc = "idle" \/ commit.s # s
        /\ Stored(s) /\ (Due(s) => WalkBrings(t, s))
    BY <1>1, OnlyWalk
  <2>2. \A u \in Tasks : Walking(u)' => u = t
    BY <1>6, <2>1
  <2>3. ~Committing(s)'
    BY <1>1, <2>1 DEF Committing
  <2>4. Stored(s)'
    BY <1>1, <1>7, <2>1, <2>3 DEF Stored
  <2>5. ASSUME Due(s)' PROVE Brought(s)'
    <3>1. Due(s) /\ ~Unmapped
      BY <1>1, <1>5, <2>5 DEF WalkGoes, Due, Linked, Invariant, Order, TasksInOrder
    <3>2. Brings(t, w, s)
      BY <2>1, <2>5, <3>1
    <3>3. CASE w = Ended
      <4>1. ~SomeWalk'
        BY <1>3, <1>4, <1>6, <2>1, <3>3 DEF SomeWalk, Walking, WalkPcs
      <4>. QED  BY <2>3, <3>2, <3>3, <4>1 DEF Brings, Brought
    <3>4. CASE w # Ended
      <4>1. Walking(t)'
        BY <1>3, <3>4 DEF WalkGoes, Walking
      <4>. QED  BY <3>2, <3>4, <4>1 DEF Brings, Brought
    <3>. QED  BY <3>3, <3>4
  <2>. QED  BY <1>1, <2>1, <2>2, <2>4, <2>5 DEF Sound
<1>. QED  BY <1>1, <1>11, <1>12, <1>13 DEF Invariant, InStep

\* Where a walk goes from surface s: on to the surfaces that were ahead, but s.
LEMMA OnwardsGoes ==
  ASSUME Invariant, NEW t \in Tasks, Walking(t), NEW s \in walk[t].todo
  PROVE  LET w == Onwards(t, s)
         IN  /\ w \in WalkState
             /\ \/ w = Ended /\ \A u \in Linked \ {s} : ~Ahead(t, u)
                \/ /\ w # Ended /\ w.pc = "take" /\ w.mode = walk[t].mode
                   /\ w.todo \subseteq Children /\ s \notin w.todo
                   /\ \A u \in Linked \ {s} : u \in w.todo <=> Ahead(t, u)
<1>. DEFINE todo == Below(t, s)
            v == WalksFrom(walk[t], todo)
<1>1. walk[t] \in WalkState
  BY Typed DEF Invariant, Order
<1>2. walk[t].todo = {Root} \/ walk[t].todo \subseteq Children
  BY DEF Invariant, Order, WalkInOrder
<1>3. Root \notin Children
  BY SurfaceAssumption
<1>4. /\ todo \subseteq Children /\ s \notin todo
      /\ \A u \in Linked \ {s} : u \in todo <=> Ahead(t, u)
  <2>1. CASE s = Root
    <3>1. walk[t].todo = {Root} /\ todo = Subsurfaces
      BY <1>2, <1>3, <2>1 DEF Below
    <3>. QED  BY <1>3, <2>1, <3>1 DEF Subsurfaces, Linked, Ahead
  <2>2. CASE s # Root
    <3>1. walk[t].todo \subseteq Children /\ todo = walk[t].todo \ {s}
      BY <1>2, <2>2 DEF Below
    <3>. QED  BY <1>3, <3>1 DEF Ahead
  <2>. QED  BY <2>1, <2>2
<1>5. /\ v \in WalkState /\ v.pc = "take" /\ v.mode = walk[t].mode /\ v.todo = todo
  <2>1. todo \in SUBSET Surfaces
    BY <1>4 DEF Surfaces
  <2>. HIDE DEF todo
  <2>. QED  BY <1>1, <2>1, WalksFromTyped
<1>6. Onwards(t, s) = IF todo = {} THEN Ended ELSE v
  BY DEF Onwards
<1>7. Ended.pc = "ended"
  BY DEF Ended, Resting
<1>. HIDE DEF v, todo
<1>8. v # Ended
  BY <1>5, <1>7
<1>. QED  BY <1>4, <1>5, <1>6, <1>8, RestingTyped

\* A walk that has left surface s, which is with the shell or needs not be, leaves the
\* others as they were.
LEMMA OnwardsBrings ==
  ASSUME Invariant, NEW t \in Tasks, Walking(t), NEW s \in walk[t].todo,
         walk' = [walk EXCEPT ![t] = Onwards(t, s)],
         UNCHANGED latest,
         walk[t].pc # "take" => walk[t].s = s,
         NEW u \in Linked, WalkBrings(t, u),
         u # s => UNCHANGED <<buffered[u], submit[u], shown[u], failed[u]>>,
         u = s => OnShell(s)'
  PROVE  Brings(t, Onwards(t, s), u)
<1>. DEFINE w == Onwards(t, s)
<1>1. /\ w \in WalkState
      /\ \/ w = Ended /\ \A x \in Linked \ {s} : ~Ahead(t, x)
         \/ /\ w # Ended /\ w.pc = "take" /\ w.mode = walk[t].mode
            /\ w.todo \subseteq Children /\ s \notin w.todo
            /\ \A x \in Linked \ {s} : x \in w.todo <=> Ahead(t, x)
  BY OnwardsGoes
<1>2. walk \in [Tasks -> WalkState]
  BY Typed DEF Invariant, Order
<1>. HIDE DEF w
<1>3. walk'[t] = w
  BY <1>2 DEF w
<1>4. Root \notin Children
  BY SurfaceAssumption
<1>5. CASE u = s
  <2>1. w # Ended => ~InHand(t, s)' /\ ~Ahead(t, s)'
    BY <1>1, <1>3, <1>4 DEF InHand, Ahead
  <2>. QED  BY <1>5, <2>1 DEF Brings, WalkBrings, w
<1>6. CASE u # s
  <2>1. ~InHand(t, u)
    BY <1>6 DEF InHand
  <2>2. CASE Ahead(t, u) /\ Source(t)[u] = latest[u]
    <3>1. w # Ended /\ ~InHand(t, u)' /\ Ahead(t, u)'
      BY <1>1, <1>3, <1>6, <2>2 DEF InHand, Ahead
    <3>2. Source(t)'[u] = latest[u]
      BY <1>1, <1>3, <1>6, <2>2, <3>1 DEF Source
    <3>. QED  BY <3>1, <3>2 DEF Brings, WalkBrings, w
  <2>3. CASE ~Ahead(t, u) /\ OnShell(u)
    <3>1. OnShell(u)'
      BY <1>6, <2>3 DEF OnShell, Seen
    <3>2. w # Ended => ~InHand(t, u)' /\ ~Ahead(t, u)'
      BY <1>1, <1>3, <1>4, <1>6, <2>3 DEF InHand, Ahead
    <3>. QED  BY <3>1, <3>2 DEF Brings, WalkBrings, w
  <2>. QED  BY <2>1, <2>2, <2>3 DEF WalkBrings
<1>. QED  BY <1>5, <1>6

\* A walk that stays with its surface leaves the others as they were.
LEMMA StaysBrings ==
  ASSUME Invariant, NEW t \in Tasks, NEW w \in WalkState,
         walk' = [walk EXCEPT ![t] = w], w.pc \in WalkPcs \ {"take"},
         w.todo = walk[t].todo, w.mode = walk[t].mode,
         NEW u \in Surfaces, w.s # u, ~InHand(t, u), WalkBrings(t, u),
         UNCHANGED <<latest[u], buffered[u], submit[u], shown[u], failed[u]>>
  PROVE  Brings(t, w, u)
<1>1. walk'[t] = w
  BY Typed DEF Invariant, Order
<1>2. w # Ended
  BY RestingTyped DEF WalkPcs
<1>3. /\ ~InHand(t, u)' /\ (Ahead(t, u)' <=> Ahead(t, u))
      /\ Source(t)'[u] = Source(t)[u] /\ (OnShell(u)' <=> OnShell(u))
  BY <1>1 DEF InHand, Ahead, Source, OnShell, Seen
<1>. QED  BY <1>2, <1>3 DEF Brings, WalkBrings

\* What a walk is about to take.
LEMMA TakeMeans ==
  ASSUME Invariant, NEW t \in Tasks, walk[t].pc = "take", NEW s \in walk[t].todo
  PROVE  /\ Walking(t) /\ walk \in [Tasks -> WalkState] /\ walk[t] \in WalkState
         /\ s \in Surfaces /\ 0 \in 0..MaxCommits
         /\ {buffered, submit, shown} \subseteq [Surfaces -> 0..MaxCommits]
         /\ failed \in [Surfaces -> {"none", "update", "call"}]
         /\ walk[t].todo = {Root} \/ walk[t].todo \subseteq Children
         /\ Unmapped => t \in Items /\ walk[t].mode = "reapply" /\ submit[s] = 0
         /\ \A u \in Surfaces : WalkBrings(t, u) /\ u = s => Source(t)[s] = latest[s]
<1>1. Walking(t) /\ walk \in [Tasks -> WalkState] /\ walk[t] \in WalkState
  BY Typed DEF Walking, WalkPcs, Invariant, Order
<1>2. s \in Surfaces /\ 0 \in 0..MaxCommits
  BY <1>1, BoundAssumption DEF WalkState
<1>3. walk[t].todo = {Root} \/ walk[t].todo \subseteq Children
  BY <1>1 DEF Invariant, Order, WalkInOrder
<1>4. Unmapped => t \in Items /\ walk[t].mode = "reapply"
  BY <1>1 DEF Unmapped, Walking, Tasks, WalkPcs, Invariant, Order, TasksInOrder
<1>5. Unmapped => submit[s] = 0
  BY <1>2 DEF Invariant, BeforeMapping
<1>6. \A u \in Surfaces : WalkBrings(t, u) /\ u = s => Source(t)[s] = latest[s]
  BY DEF WalkBrings, InHand, Ahead
<1>. QED  BY <1>1, <1>2, <1>3, <1>4, <1>5, <1>6 DEF Invariant, Order, Types

LEMMA TakeKeeps == ASSUME Invariant, NEW t \in Tasks, Take(t) PROVE Invariant'
<1>. DEFINE applying == walk[t].mode = "apply"
<1>1. PICK s \in walk[t].todo :
        LET held == IF applying THEN buffered[s] ELSE submit[s]
        IN  /\ walk' = [walk EXCEPT ![t] = IF held = 0 THEN Onwards(t, s)
                                           ELSE [@ EXCEPT !.pc = "read", !.s = s, !.held = held]]
            /\ IF applying THEN buffered' = [buffered EXCEPT ![s] = 0] /\ UNCHANGED submit
               ELSE submit' = [submit EXCEPT ![s] = 0] /\ UNCHANGED buffered
  BY DEF Take
<1>. DEFINE held == IF applying THEN buffered[s] ELSE submit[s]
            r == [walk[t] EXCEPT !.pc = "read", !.s = s, !.held = held]
            w == IF held = 0 THEN Onwards(t, s) ELSE r
<1>2. /\ UNCHANGED <<toplevelVars, mapped, itemVars, latest, linked, shown, commit, disturbed,
                     failed>>
      /\ walk[t].pc = "take"
  BY DEF Take, historyVars
<1>3. /\ Walking(t) /\ walk \in [Tasks -> WalkState] /\ walk[t] \in WalkState
      /\ s \in Surfaces /\ 0 \in 0..MaxCommits
      /\ {buffered, submit, shown} \subseteq [Surfaces -> 0..MaxCommits]
      /\ failed \in [Surfaces -> {"none", "update", "call"}]
      /\ walk[t].todo = {Root} \/ walk[t].todo \subseteq Children
      /\ Unmapped => ~applying /\ submit[s] = 0
      /\ \A u \in Surfaces : WalkBrings(t, u) /\ u = s => Source(t)[s] = latest[s]
  BY <1>2, TakeMeans
<1>4. /\ {buffered', submit', shown'} \subseteq [Surfaces -> 0..MaxCommits]
      /\ \A u \in Surfaces \ {s} : UNCHANGED <<buffered[u], submit[u]>>
      /\ applying => submit' = submit
      /\ ~applying => buffered' = buffered /\ submit'[s] = 0
  BY <1>1, <1>2, <1>3
<1>5. held \in 0..MaxCommits
  BY <1>3
<1>6. walk' = [walk EXCEPT ![t] = w]
  BY <1>1
<1>7. /\ r \in WalkState /\ r.pc = "read" /\ r.s = s /\ r.held = held
      /\ r.todo = walk[t].todo /\ r.mode = walk[t].mode
  <2>. HIDE DEF held
  <2>. QED  BY <1>3, <1>5 DEF WalkState, TaskPcs, WalkPcs
<1>8. Onwards(t, s) \in WalkState /\ (Onwards(t, s) = Ended \/
        (/\ Onwards(t, s).pc = "take" /\ Onwards(t, s).mode = walk[t].mode
         /\ Onwards(t, s).todo \subseteq Children))
  BY <1>3, OnwardsGoes
<1>s. Source(t)[s] = held
  BY DEF Source
<1>. HIDE DEF r, held
<1>9. WalkGoes(t, w)
  BY <1>2, <1>3, <1>4, <1>6, <1>7, <1>8 DEF WalkGoes, WalkPcs
<1>10. ASSUME Unmapped
       PROVE  /\ w.pc \in {"take", "ended"}
              /\ \A u \in Surfaces : UNCHANGED <<buffered[u], submit[u], failed[u]>>
  <2>1. held = 0
    BY <1>3, <1>10 DEF held
  <2>2. w.pc \in {"take", "ended"}
    BY <1>8, <2>1, RestingTyped
  <2>3. \A u \in Surfaces : UNCHANGED <<buffered[u], submit[u], failed[u]>>
    BY <1>2, <1>3, <1>4, <1>10
  <2>. QED  BY <2>2, <2>3
<1>11. ASSUME NEW u \in Surfaces \ disturbed, Due(u), Due(u)', WalkBrings(t, u)
       PROVE  Brings(t, w, u)
  <2>1. u \in Linked /\ latest[u] # 0
    BY <1>11 DEF Due
  <2>2. u # s => UNCHANGED <<latest[u], buffered[u], submit[u], shown[u], failed[u]>>
    BY <1>2, <1>4, <1>11
  <2>3. CASE held = 0
    <3>1. u # s
      BY <1>3, <1>s, <1>11, <2>1, <2>3
    <3>. QED  BY <1>2, <1>3, <1>6, <1>11, <2>1, <2>2, <2>3, <3>1, OnwardsBrings
  <2>4. CASE held # 0
    <3>1. walk'[t] = r /\ w = r /\ w # Ended
      BY <1>3, <1>6, <1>7, <2>4, RestingTyped
    <3>2. CASE u = s
      <4>1. held = latest[s]
        BY <1>3, <1>s, <1>11, <3>2
      <4>. QED  BY <1>2, <1>7, <3>1, <3>2, <4>1 DEF Brings, WalkBrings, InHand
    <3>3. CASE u # s
      <4>1. ~InHand(t, u)
        BY <1>2 DEF InHand
      <4>2. r.pc \in WalkPcs \ {"take"} /\ r.s # u
        BY <1>7, <3>3 DEF WalkPcs
      <4>. QED  BY <1>6, <1>7, <1>11, <2>2, <3>1, <3>3, <4>1, <4>2, StaysBrings
    <3>. QED  BY <3>2, <3>3
  <2>. QED  BY <2>3, <2>4
<1>. HIDE DEF w
<1>. QED  BY <1>9, <1>10, <1>11, WalkGoesKeeps

LEMMA TakeFailsKeeps == ASSUME Invariant, NEW t \in Tasks, TakeFails(t) PROVE Invariant'
<1>1. PICK s \in walk[t].todo :
        /\ submit[s] # 0
        /\ submit' = [submit EXCEPT ![s] = 0]
        /\ failed' = [failed EXCEPT ![s] = "update"]
        /\ walk' = [walk EXCEPT ![t] = Onwards(t, s)]
  BY DEF TakeFails
<1>. DEFINE w == Onwards(t, s)
<1>2. /\ UNCHANGED <<toplevelVars, mapped, itemVars, latest, buffered, linked, shown, commit,
                     disturbed>>
      /\ walk[t].pc = "take"
  BY DEF TakeFails
<1>3. /\ Walking(t) /\ walk \in [Tasks -> WalkState]
      /\ s \in Surfaces /\ 0 \in 0..MaxCommits
      /\ {buffered, submit, shown} \subseteq [Surfaces -> 0..MaxCommits]
      /\ failed \in [Surfaces -> {"none", "update", "call"}]
      /\ ~Unmapped
  BY <1>1, <1>2, TakeMeans
<1>4. /\ {buffered', submit', shown'} \subseteq [Surfaces -> 0..MaxCommits]
      /\ failed' \in [Surfaces -> {"none", "update", "call"}] /\ failed'[s] = "update"
      /\ \A u \in Surfaces : failed'[u] # "update" => failed[u] # "update"
      /\ \A u \in Surfaces \ {s} : UNCHANGED <<buffered[u], submit[u], shown[u], failed[u]>>
  BY <1>1, <1>2, <1>3
<1>5. /\ w \in WalkState
      /\ w = Ended \/ (w.pc = "take" /\ w.mode = walk[t].mode /\ w.todo \subseteq Children)
  BY <1>3, OnwardsGoes
<1>. HIDE DEF w
<1>6. WalkGoes(t, w)
  BY <1>1, <1>2, <1>3, <1>4, <1>5 DEF WalkGoes, WalkPcs, w
<1>7. ASSUME NEW u \in Surfaces \ disturbed, Due(u), Due(u)', WalkBrings(t, u)
      PROVE  Brings(t, w, u)
  <2>1. u \in Linked /\ u # s
    BY <1>4, <1>7 DEF Due
  <2>. QED  BY <1>1, <1>2, <1>3, <1>4, <1>7, <2>1, OnwardsBrings DEF w
<1>. QED  BY <1>3, <1>6, <1>7, WalkGoesKeeps

\* What a walk has in hand.
LEMMA HandMeans ==
  ASSUME Invariant, NEW t \in Tasks, walk[t].pc \in WalkPcs \ {"take"}
  PROVE  /\ Walking(t) /\ walk \in [Tasks -> WalkState] /\ walk[t] \in WalkState
         /\ walk[t].s \in walk[t].todo /\ walk[t].s \in Surfaces
         /\ walk[t].held \in 1..MaxCommits /\ 0 \in 0..MaxCommits
         /\ walk[t].todo = {Root} \/ walk[t].todo \subseteq Children
         /\ {buffered, submit, shown} \subseteq [Surfaces -> 0..MaxCommits]
         /\ failed \in [Surfaces -> {"none", "update", "call"}]
         /\ ~Unmapped
         /\ \A u \in Surfaces : InHand(t, u) <=> u = walk[t].s
         /\ WalkBrings(t, walk[t].s) =>
              /\ walk[t].pc \in {"read", "send", "store"} /\ walk[t].held = latest[walk[t].s]
              /\ walk[t].pc # "read" => walk[t].to = mapped
              /\ walk[t].pc = "store" => Seen(walk[t].s)
<1>1. Walking(t) /\ walk \in [Tasks -> WalkState] /\ walk[t] \in WalkState
  BY Typed DEF Invariant, Order, Walking
<1>2. /\ walk[t].s \in walk[t].todo /\ walk[t].held # 0
      /\ walk[t].todo = {Root} \/ walk[t].todo \subseteq Children
  BY <1>1 DEF Invariant, Order, WalkInOrder
<1>3. walk[t].s \in Surfaces /\ walk[t].held \in 1..MaxCommits /\ 0 \in 0..MaxCommits
  BY <1>1, <1>2, BoundAssumption DEF WalkState
<1>4. ~Unmapped
  BY <1>1 DEF Invariant, BeforeMapping
<1>5. \A u \in Surfaces : InHand(t, u) <=> u = walk[t].s
  BY DEF InHand
<1>6. WalkBrings(t, walk[t].s) =>
        /\ walk[t].pc \in {"read", "send", "store"} /\ walk[t].held = latest[walk[t].s]
        /\ walk[t].pc # "read" => walk[t].to = mapped
        /\ walk[t].pc = "store" => Seen(walk[t].s)
  BY DEF WalkBrings, InHand
<1>. QED  BY <1>1, <1>2, <1>3, <1>4, <1>5, <1>6 DEF Invariant, Order, Types

\* A walk that leaves the surface it has in hand, which is with the shell or not due.
LEMMA LeavesKeeps ==
  ASSUME Invariant, NEW t \in Tasks, walk[t].pc \in WalkPcs \ {"take"}, NEW s, s = walk[t].s,
         walk' = [walk EXCEPT ![t] = Onwards(t, s)],
         UNCHANGED <<toplevelVars, mapped, itemVars, latest, linked, commit, disturbed, failed>>,
         {buffered', submit', shown'} \subseteq [Surfaces -> 0..MaxCommits],
         \A u \in Surfaces \ {s} : UNCHANGED <<buffered[u], submit[u], shown[u]>>,
         Due(s) /\ WalkBrings(t, s) => OnShell(s)'
  PROVE  Invariant'
<1>. DEFINE w == Onwards(t, s)
<1>1. /\ Walking(t) /\ s \in walk[t].todo /\ s \in Surfaces /\ ~Unmapped
      /\ failed \in [Surfaces -> {"none", "update", "call"}]
  BY HandMeans
<1>2. /\ w \in WalkState
      /\ w = Ended \/ (w.pc = "take" /\ w.mode = walk[t].mode /\ w.todo \subseteq Children)
  BY <1>1, OnwardsGoes
<1>. HIDE DEF w
<1>3. WalkGoes(t, w)
  BY <1>1, <1>2 DEF WalkGoes, WalkPcs, w
<1>4. ASSUME NEW u \in Surfaces \ disturbed, Due(u), WalkBrings(t, u)
      PROVE  Brings(t, w, u)
  <2>1. u \in Linked
    BY <1>4 DEF Due
  <2>2. u = s => OnShell(s)'
    BY <1>4
  <2>3. u # s => UNCHANGED <<buffered[u], submit[u], shown[u], failed[u]>>
    BY <1>4
  <2>. QED  BY <1>1, <1>4, <2>1, <2>2, <2>3, OnwardsBrings DEF w
<1>. QED  BY <1>1, <1>3, <1>4, WalkGoesKeeps

\* A walk that goes on with the surface it has in hand.
LEMMA StaysKeeps ==
  ASSUME Invariant, NEW t \in Tasks, walk[t].pc \in WalkPcs \ {"take"}, NEW s, s = walk[t].s,
         NEW w \in WalkState, walk' = [walk EXCEPT ![t] = w], w.pc \in WalkPcs \ {"take"},
         w.s = s, w.todo = walk[t].todo, w.mode = walk[t].mode, w.held = walk[t].held,
         UNCHANGED <<toplevelVars, mapped, itemVars, latest, linked, commit, disturbed>>,
         {buffered', submit', shown'} \subseteq [Surfaces -> 0..MaxCommits],
         failed' \in [Surfaces -> {"none", "update", "call"}],
         failed'[s] # "update" => failed[s] # "update",
         \A u \in Surfaces \ {s} : UNCHANGED <<buffered[u], submit[u], shown[u], failed[u]>>,
         Due(s) /\ Due(s)' /\ WalkBrings(t, s) => WalkBrings(t, s)'
  PROVE  Invariant'
<1>1. /\ Walking(t) /\ s \in walk[t].todo /\ s \in Surfaces /\ ~Unmapped
      /\ walk[t].held \in 1..MaxCommits
      /\ walk[t].todo = {Root} \/ walk[t].todo \subseteq Children
      /\ \A u \in Surfaces : InHand(t, u) <=> u = s
  BY HandMeans
<1>2. w # Ended
  BY RestingTyped DEF WalkPcs
<1>3. \A u \in Surfaces : failed'[u] # "update" => failed[u] # "update"
  OBVIOUS
<1>4. WalkGoes(t, w)
  BY <1>1, <1>3 DEF WalkGoes
<1>5. ASSUME NEW u \in Surfaces \ disturbed, Due(u), Due(u)', WalkBrings(t, u)
      PROVE  Brings(t, w, u)
  <2>1. CASE u = s
    BY <1>2, <1>5, <2>1 DEF Brings
  <2>2. CASE u # s
    <3>1. ~InHand(t, u) /\ w.s # u
      BY <1>1, <2>2
    <3>2. UNCHANGED <<latest[u], buffered[u], submit[u], shown[u], failed[u]>>
      BY <2>2
    <3>. QED  BY <1>5, <3>1, <3>2, StaysBrings
  <2>. QED  BY <2>1, <2>2
<1>. QED  BY <1>1, <1>4, <1>5, WalkGoesKeeps

LEMMA ReadKeeps == ASSUME Invariant, NEW t \in Tasks, Read(t) PROVE Invariant'
<1>0. PICK s, item : s = walk[t].s /\ item = PanelItem(walk[t].s)
  OBVIOUS
<1>1. /\ UNCHANGED <<toplevelVars, mapped, itemVars, latest, buffered, submit, linked, shown,
                     commit, disturbed, failed>>
      /\ walk[t].pc = "read" /\ walk[t].pc \in WalkPcs \ {"take"}
      /\ walk' = [walk EXCEPT ![t] =
                    IF item # NoItem THEN [@ EXCEPT !.pc = "send", !.to = item]
                    ELSE IF @.mode = "apply" THEN Onwards(t, s)
                    ELSE [@ EXCEPT !.pc = "drop"]]
  BY <1>0 DEF Read, WalkPcs, surfaceVars, historyVars
<1>2. /\ walk \in [Tasks -> WalkState] /\ walk[t] \in WalkState /\ s \in Surfaces
      /\ {buffered, submit, shown} \subseteq [Surfaces -> 0..MaxCommits]
      /\ failed \in [Surfaces -> {"none", "update", "call"}]
      /\ WalkBrings(t, s) => walk[t].held = latest[s]
  BY <1>0, <1>1, HandMeans
<1>3. /\ item \in Items \union {NoItem}
      /\ Due(s) => item = mapped /\ item # NoItem
  BY <1>0 DEF PanelItem, Due, Invariant, Order, Types
<1>4. CASE item # NoItem
  <2>. DEFINE w == [walk[t] EXCEPT !.pc = "send", !.to = item]
  <2>1. walk' = [walk EXCEPT ![t] = w]
    BY <1>1, <1>4
  <2>2. /\ w \in WalkState /\ w.pc = "send" /\ w.to = item /\ w.s = s
        /\ w.held = walk[t].held /\ w.todo = walk[t].todo /\ w.mode = walk[t].mode
    BY <1>0, <1>2, <1>3 DEF WalkState, TaskPcs, WalkPcs
  <2>. HIDE DEF w
  <2>3. walk'[t] = w
    BY <1>2, <2>1
  <2>4. Due(s) /\ WalkBrings(t, s) => WalkBrings(t, s)'
    BY <1>1, <1>2, <1>3, <2>2, <2>3 DEF WalkBrings, InHand
  <2>. QED  BY <1>0, <1>1, <1>2, <2>1, <2>2, <2>4, StaysKeeps DEF WalkPcs
<1>5. CASE item = NoItem /\ walk[t].mode = "apply"
  <2>1. walk' = [walk EXCEPT ![t] = Onwards(t, s)]
    BY <1>1, <1>5
  <2>. QED  BY <1>0, <1>1, <1>2, <1>3, <1>5, <2>1, LeavesKeeps
<1>6. CASE item = NoItem /\ walk[t].mode # "apply"
  <2>. DEFINE w == [walk[t] EXCEPT !.pc = "drop"]
  <2>1. walk' = [walk EXCEPT ![t] = w]
    BY <1>1, <1>6
  <2>2. /\ w \in WalkState /\ w.pc = "drop" /\ w.s = s
        /\ w.held = walk[t].held /\ w.todo = walk[t].todo /\ w.mode = walk[t].mode
    BY <1>0, <1>2 DEF WalkState, TaskPcs, WalkPcs
  <2>. HIDE DEF w
  <2>. QED  BY <1>0, <1>1, <1>2, <1>3, <1>6, <2>1, <2>2, StaysKeeps DEF WalkPcs
<1>. QED  BY <1>4, <1>5, <1>6

LEMMA SendKeeps == ASSUME Invariant, NEW t \in Tasks, Send(t) PROVE Invariant'
<1>0. PICK s : s = walk[t].s
  OBVIOUS
<1>. DEFINE w == [walk[t] EXCEPT !.pc = "store"]
<1>1. /\ UNCHANGED <<toplevelVars, mapped, itemVars, latest, buffered, submit, linked, commit,
                     disturbed, failed>>
      /\ walk[t].pc = "send" /\ walk[t].pc \in WalkPcs \ {"take"}
      /\ walk' = [walk EXCEPT ![t] = w]
      /\ shown' = IF walk[t].to = mapped THEN [shown EXCEPT ![s] = walk[t].held] ELSE shown
  BY <1>0 DEF Send, ShellGets, surfaceVars, historyVars, WalkPcs
<1>2. /\ walk \in [Tasks -> WalkState] /\ walk[t] \in WalkState /\ s \in Surfaces
      /\ walk[t].held \in 1..MaxCommits
      /\ {buffered, submit, shown} \subseteq [Surfaces -> 0..MaxCommits]
      /\ failed \in [Surfaces -> {"none", "update", "call"}]
      /\ WalkBrings(t, s) => walk[t].held = latest[s] /\ walk[t].to = mapped
  BY <1>0, <1>1, HandMeans
<1>3. /\ w \in WalkState /\ w.pc = "store" /\ w.to = walk[t].to /\ w.s = s
      /\ w.held = walk[t].held /\ w.todo = walk[t].todo /\ w.mode = walk[t].mode
  BY <1>0, <1>2 DEF WalkState, TaskPcs, WalkPcs
<1>. HIDE DEF w
<1>4. /\ {buffered', submit', shown'} \subseteq [Surfaces -> 0..MaxCommits]
      /\ walk[t].to = mapped => shown'[s] = walk[t].held
      /\ \A u \in Surfaces \ {s} : UNCHANGED <<buffered[u], submit[u], shown[u], failed[u]>>
  BY <1>0, <1>1, <1>2, BoundAssumption
<1>5. walk'[t] = w
  BY <1>0, <1>1, <1>2
<1>6. WalkBrings(t, s) => WalkBrings(t, s)'
  BY <1>0, <1>1, <1>2, <1>3, <1>4, <1>5 DEF WalkBrings, InHand, Seen
<1>. QED  BY <1>0, <1>1, <1>2, <1>3, <1>4, <1>6, StaysKeeps DEF WalkPcs

LEMMA SendFailsKeeps == ASSUME Invariant, NEW t \in Tasks, SendFails(t) PROVE Invariant'
<1>0. PICK s : s = walk[t].s
  OBVIOUS
<1>. DEFINE w == [walk[t] EXCEPT !.pc = "store"]
<1>1. /\ UNCHANGED <<toplevelVars, mapped, itemVars, latest, buffered, submit, linked, shown,
                     commit, disturbed>>
      /\ walk[t].pc = "send" /\ walk[t].pc \in WalkPcs \ {"take"}
      /\ walk' = [walk EXCEPT ![t] = w]
      /\ failed' = IF walk[t].to = mapped /\ failed[s] = "none"
                   THEN [failed EXCEPT ![s] = "call"] ELSE failed
  BY <1>0 DEF SendFails, CallFails, surfaceVars, WalkPcs
<1>2. /\ walk \in [Tasks -> WalkState] /\ walk[t] \in WalkState /\ s \in Surfaces
      /\ {buffered, submit, shown} \subseteq [Surfaces -> 0..MaxCommits]
      /\ failed \in [Surfaces -> {"none", "update", "call"}]
      /\ WalkBrings(t, s) => walk[t].held = latest[s] /\ walk[t].to = mapped
  BY <1>0, <1>1, HandMeans
<1>3. /\ w \in WalkState /\ w.pc = "store" /\ w.to = walk[t].to /\ w.s = s
      /\ w.held = walk[t].held /\ w.todo = walk[t].todo /\ w.mode = walk[t].mode
  BY <1>0, <1>2 DEF WalkState, TaskPcs, WalkPcs
<1>. HIDE DEF w
<1>4. /\ failed' \in [Surfaces -> {"none", "update", "call"}]
      /\ failed'[s] # "update" => failed[s] # "update"
      /\ walk[t].to = mapped /\ failed'[s] # "update" => failed'[s] = "call"
      /\ \A u \in Surfaces \ {s} : UNCHANGED <<buffered[u], submit[u], shown[u], failed[u]>>
  BY <1>0, <1>1, <1>2
<1>5. walk'[t] = w
  BY <1>0, <1>1, <1>2
<1>6. Due(s)' /\ WalkBrings(t, s) => WalkBrings(t, s)'
  BY <1>0, <1>1, <1>2, <1>3, <1>4, <1>5 DEF WalkBrings, InHand, Seen, Due
<1>. QED  BY <1>0, <1>1, <1>2, <1>3, <1>4, <1>6, StaysKeeps DEF WalkPcs

LEMMA StoreKeeps == ASSUME Invariant, NEW t \in Tasks, Store(t) PROVE Invariant'
<1>0. PICK s : s = walk[t].s
  OBVIOUS
<1>1. /\ UNCHANGED <<toplevelVars, mapped, itemVars, latest, buffered, shown, linked, commit,
                     disturbed, failed>>
      /\ walk[t].pc = "store" /\ walk[t].pc \in WalkPcs \ {"take"}
      /\ walk' = [walk EXCEPT ![t] = Onwards(t, s)]
      /\ submit' = [submit EXCEPT ![s] = walk[t].held]
  BY <1>0 DEF Store, WalkPcs, historyVars
<1>2. /\ s \in Surfaces /\ walk[t].held \in 1..MaxCommits
      /\ {buffered, submit, shown} \subseteq [Surfaces -> 0..MaxCommits]
      /\ WalkBrings(t, s) => walk[t].held = latest[s] /\ Seen(s)
  BY <1>0, <1>1, HandMeans
<1>3. /\ {buffered', submit', shown'} \subseteq [Surfaces -> 0..MaxCommits]
      /\ submit'[s] = walk[t].held
      /\ \A u \in Surfaces \ {s} : UNCHANGED <<buffered[u], submit[u], shown[u]>>
  BY <1>1, <1>2, BoundAssumption
<1>4. WalkBrings(t, s) => OnShell(s)'
  BY <1>1, <1>2, <1>3 DEF OnShell, Seen
<1>. QED  BY <1>0, <1>1, <1>3, <1>4, LeavesKeeps

LEMMA DropKeeps == ASSUME Invariant, NEW t \in Tasks, Drop(t) PROVE Invariant'
<1>. DEFINE s == walk[t].s
            w == [walk[t] EXCEPT !.pc = "keep"]
<1>1. /\ UNCHANGED <<toplevelVars, mapped, itemVars, latest, buffered, linked, shown, commit,
                     disturbed, failed>>
      /\ walk[t].pc = "drop" /\ walk[t].pc \in WalkPcs \ {"take"}
      /\ walk' = [walk EXCEPT ![t] = w]
      /\ submit' = [submit EXCEPT ![s] = 0]
  BY DEF Drop, WalkPcs, historyVars
<1>2. /\ walk[t] \in WalkState /\ s \in Surfaces /\ 0 \in 0..MaxCommits
      /\ {buffered, submit, shown} \subseteq [Surfaces -> 0..MaxCommits]
      /\ failed \in [Surfaces -> {"none", "update", "call"}]
      /\ ~WalkBrings(t, s)
  BY <1>1, HandMeans
<1>3. /\ w \in WalkState /\ w.pc = "keep" /\ w.s = s
      /\ w.held = walk[t].held /\ w.todo = walk[t].todo /\ w.mode = walk[t].mode
  BY <1>2 DEF WalkState, TaskPcs, WalkPcs
<1>. HIDE DEF w
<1>4. /\ {buffered', submit', shown'} \subseteq [Surfaces -> 0..MaxCommits]
      /\ \A u \in Surfaces \ {s} : UNCHANGED <<buffered[u], submit[u], shown[u], failed[u]>>
  BY <1>1, <1>2
<1>. QED  BY <1>1, <1>2, <1>3, <1>4, StaysKeeps DEF WalkPcs

LEMMA KeepKeeps == ASSUME Invariant, NEW t \in Tasks, Keep(t) PROVE Invariant'
<1>0. PICK s : s = walk[t].s
  OBVIOUS
<1>1. /\ UNCHANGED <<toplevelVars, mapped, itemVars, latest, submit, shown, linked, commit,
                     disturbed, failed>>
      /\ walk[t].pc = "keep" /\ walk[t].pc \in WalkPcs \ {"take"}
      /\ walk' = [walk EXCEPT ![t] = Onwards(t, s)]
      /\ buffered' = [buffered EXCEPT ![s] = walk[t].held]
  BY <1>0 DEF Keep, WalkPcs, historyVars
<1>2. /\ s \in Surfaces /\ walk[t].held \in 1..MaxCommits
      /\ {buffered, submit, shown} \subseteq [Surfaces -> 0..MaxCommits]
      /\ ~WalkBrings(t, s)
  BY <1>0, <1>1, HandMeans
<1>3. /\ {buffered', submit', shown'} \subseteq [Surfaces -> 0..MaxCommits]
      /\ \A u \in Surfaces \ {s} : UNCHANGED <<buffered[u], submit[u], shown[u]>>
  BY <1>1, <1>2, BoundAssumption
<1>. QED  BY <1>0, <1>1, <1>2, <1>3, LeavesKeeps
-----------------------------------------------------------------------------
(* The theorems *)

LEMMA InitiallyInvariant == Init => Invariant
<1>. SUFFICES ASSUME Init PROVE Invariant
  OBVIOUS
<1>t. /\ "mapper" \in Tasks /\ Items \subseteq Tasks /\ Children \subseteq Surfaces
  BY DEF Tasks, Surfaces
<1>1. /\ Idle.pc = "idle" /\ Resting.pc = "idle" /\ Resting.mode = "apply"
      /\ \A s \in Surfaces : Nothing[s] = 0
      /\ \A t \in Tasks : walk[t] = Resting
  BY DEF Idle, Resting, Nothing, Init
<1>2. Types
  <2>1. walk \in [Tasks -> WalkState] /\ commit \in CommitState
    BY RestingTyped DEF Init
  <2>. QED  BY <2>1, RestingTyped DEF Init, Types, WalkState, CommitState, TaskPcs
<1>3. ~SomeWalk /\ Unmapped /\ \A t \in Tasks : ~Walking(t) /\ ~HoldsToplevel(t)
  BY <1>t, <1>1 DEF SomeWalk, Unmapped, Walking, WalkPcs, HoldsToplevel
<1>4. TasksInOrder
  BY <1>t, <1>1, <1>3 DEF Init, TasksInOrder, WalkPcs
<1>5. Order
  BY <1>t, <1>1, <1>2, <1>3, <1>4 DEF Init, Order, WalkInOrder
<1>6. BeforeMapping
  BY <1>1, <1>3 DEF Init, BeforeMapping
<1>7. InStep
  BY <1>1, <1>3 DEF Init, InStep, Sound, Stored, Due
<1>. QED  BY <1>5, <1>6, <1>7 DEF Invariant

LEMMA StutterKeeps == ASSUME Invariant, UNCHANGED vars PROVE Invariant'
<1>1. /\ UNCHANGED <<toplevel, handler, configured, mapped, kind, alive, provider, latest,
                     buffered, submit, linked, shown, commit, walk, disturbed, failed>>
  BY DEF vars, toplevelVars, itemVars, surfaceVars, historyVars
<1>2. Types' /\ TasksInOrder' /\ (Upgrades' <=> Upgrades)
  BY <1>1
  DEF Invariant, Order, Types, TasksInOrder, HoldsToplevel, Upgrades, Unmapped
<1>3. Frame
  BY <1>1, <1>2 DEF Frame, surfaceVars, historyVars, Unmapped, Linked
<1>4. Order'
  BY <1>1, <1>2, <1>3, FrameWalks DEF Invariant, Order
<1>. QED  BY <1>3, <1>4, FrameKeeps DEF Invariant

LEMMA StepKeeps == Invariant /\ [Next]_vars => Invariant'
<1>. SUFFICES ASSUME Invariant, [Next]_vars PROVE Invariant'
  OBVIOUS
<1>1. CASE Client
  BY <1>1, GetToplevelKeeps, AckConfigureKeeps, DestroyToplevelKeeps, GetSubsurfaceKeeps,
     CommitStartKeeps
  DEF Client
<1>2. CASE CommitStep
  BY <1>2, CommitReadKeeps, CommitMakesNoneKeeps, CommitSendKeeps, CommitSendFailsKeeps,
     CommitStoreKeeps, CommitDropKeeps, CommitBufferKeeps, CommitChildKeeps
  DEF CommitStep
<1>3. CASE OtherTask
  BY <1>3, OtherTaskKeeps
<1>4. ASSUME NEW t \in Tasks, WalkStep(t) PROVE Invariant'
  BY <1>4, InstallKeeps, TakeKeeps, TakeFailsKeeps, ReadKeeps, SendKeeps, SendFailsKeeps,
     StoreKeeps, DropKeeps, KeepKeeps
  DEF WalkStep, Advance
<1>5. CASE DropToplevel
  BY <1>5, DropToplevelKeeps
<1>6. CASE UNCHANGED vars
  BY <1>6, StutterKeeps
<1>. QED  BY <1>1, <1>2, <1>3, <1>4, <1>5, <1>6 DEF Next, OtherTask

LEMMA InvariantHolds == Spec => []Invariant
<1>. QED  BY InitiallyInvariant, StepKeeps, PTL DEF Spec

\* Every variable keeps its type, and an answer of the default shell that would still be
\* used finds the mapping task waiting for it (spawn_default_panel_shell), for any
\* subsurfaces, items and number of commits, and whatever fails.
THEOREM Typing == Spec => []TypeOK
<1>1. Invariant => TypeOK
  BY DEF Invariant, Order, TasksInOrder, TypeOK
<1>. QED  BY <1>1, InvariantHolds, PTL

\* For every surface that no race disturbed, or that was committed once more since,
\* mapping the toplevel and every switch of its shell leave the latest content with the
\* installed shell and in current_buffer_submit, for any subsurfaces, items and number of
\* commits. What the failures of the code take away is told apart: content that no
\* submission was made of, by a commit (buffer.update) or by a switch that lost it
\* (BufferSubmit::reapply), is out, and a failed call to the shell
\* (update_surface_dmatex) only keeps the content from that shell
\* (apply_buffered_surface_update_recursive, reapply_buffer_recursive).
THEOREM LatestShown == Spec => []SettledShowsLatest
<1>1. Invariant => SettledShowsLatest
  <2>. SUFFICES ASSUME Invariant, Settled, Upgrades, mapped # NoItem,
                       NEW s \in Linked \ disturbed, latest[s] # 0 /\ failed[s] # "update"
                PROVE  submit[s] = latest[s] /\ (failed[s] = "call" \/ shown[s] = latest[s])
    BY DEF SettledShowsLatest
  <2>1. ~SomeWalk /\ ~Committing(s) /\ s \in Surfaces
    BY RestingTyped DEF Settled, Committing, Linked, Surfaces
  <2>2. Due(s) /\ Sound(s)
    BY <2>1 DEF Due, Invariant, InStep
  <2>3. OnShell(s)
    BY <2>1, <2>2 DEF Sound, Brought, SomeWalk
  <2>. QED  BY <2>3 DEF OnShell, Seen
<1>. QED  BY <1>1, InvariantHolds, PTL
-----------------------------------------------------------------------------
(* The item of the toplevel, as MappedItem promises it *)

\* A task installs an item that was made for it alone.
ItemsInOrder ==
  /\ \A t \in Tasks : walk[t].pc = "install" =>
                      walk[t].item \in Items /\ kind[walk[t].item] # "free"
  /\ \A t, u \in Tasks :
       walk[t].pc = "install" /\ walk[u].pc = "install" /\ walk[t].item = walk[u].item => t = u

Spent == {i \in Items : kind[i] # "free" /\ ~Installing(i)}

\* How a step that installs nothing treats the items: it leaves them alone, ...
LeavesItems ==
  /\ kind' = kind
  /\ \A t \in Tasks : walk[t].pc = "install" \/ walk'[t].pc = "install" => walk'[t] = walk[t]

\* ... makes one for a task that will install it, ...
MakesItem(t, i) ==
  /\ kind[i] = "free" /\ kind'[i] # "free"
  /\ \A j \in Items \ {i} : kind'[j] = kind[j]
  /\ walk[t].pc # "install" /\ walk'[t].pc = "install" /\ walk'[t].item = i
  /\ \A u \in Tasks \ {t} : walk'[u] = walk[u]

\* ... or one that no task will install.
MakesUnused(i) ==
  /\ kind[i] = "free" /\ kind'[i] # "free"
  /\ \A j \in Items \ {i} : kind'[j] = kind[j]
  /\ UNCHANGED walk

LEMMA LeavesItemsKeeps ==
  ASSUME ItemsInOrder, LeavesItems PROVE ItemsInOrder' /\ Spent' = Spent
<1>1. \A i \in Items : Installing(i)' <=> Installing(i)
  BY DEF LeavesItems, Installing
<1>2. Spent' = Spent
  BY <1>1 DEF LeavesItems, Spent
<1>3. ItemsInOrder'
  BY DEF LeavesItems, ItemsInOrder
<1>. QED  BY <1>2, <1>3

LEMMA MakesItemKeeps ==
  ASSUME ItemsInOrder, NEW t \in Tasks, NEW i \in Items, MakesItem(t, i)
  PROVE  ItemsInOrder' /\ Spent' = Spent
<1>1. \A u \in Tasks : walk[u].pc = "install" => walk[u].item # i /\ u # t
  BY DEF MakesItem, ItemsInOrder
<1>2. \A j \in Items : Installing(j)' <=> Installing(j) \/ j = i
  BY <1>1 DEF MakesItem, Installing
<1>3. Spent' = Spent
  BY <1>2 DEF MakesItem, Spent
<1>4. ItemsInOrder'
  BY <1>1 DEF MakesItem, ItemsInOrder
<1>. QED  BY <1>3, <1>4

LEMMA MakesUnusedKeeps ==
  ASSUME ItemsInOrder, NEW i \in Items, MakesUnused(i)
  PROVE  ItemsInOrder' /\ i \notin Spent /\ Spent' = Spent \union {i}
<1>1. \A j \in Items : Installing(j)' <=> Installing(j)
  BY DEF MakesUnused, Installing
<1>2. ~Installing(i)
  BY DEF MakesUnused, Installing, ItemsInOrder
<1>3. i \notin Spent /\ Spent' = Spent \union {i}
  BY <1>1, <1>2 DEF MakesUnused, Spent
<1>4. ItemsInOrder'
  BY DEF MakesUnused, ItemsInOrder
<1>. QED  BY <1>3, <1>4

LEMMA InstallsMakes ==
  ASSUME Types, NEW t \in Tasks, NEW i \in Items, NEW mode, Installs(t, i, mode),
         Accepts(i) \/ CreatesUi(i), walk[t].pc # "install"
  PROVE  MakesItem(t, i)
<1>1. kind[i] = "free" /\ kind'[i] # "free" /\ \A j \in Items \ {i} : kind'[j] = kind[j]
  BY DEF Accepts, CreatesUi, Types
<1>2. /\ walk'[t].pc = "install" /\ walk'[t].item = i
      /\ \A u \in Tasks \ {t} : walk'[u] = walk[u]
  BY Typed DEF Installs, Resting
<1>. QED  BY <1>1, <1>2 DEF MakesItem

\* A task that is not at its install goes to another such state.
LEMMA PcLeaves ==
  ASSUME Types, NEW t \in Tasks, NEW w, walk' = [walk EXCEPT ![t] = w],
         walk[t].pc # "install", w.pc # "install", kind' = kind
  PROVE  LeavesItems
BY Typed DEF LeavesItems

LEMMA OtherTaskItems ==
  ASSUME Order, OtherTask
  PROVE  \/ LeavesItems
         \/ \E t \in Tasks, i \in Items : MakesItem(t, i)
         \/ \E i \in Items : MakesUnused(i)
<1>. DEFINE M == "mapper"
<1>t. /\ Types /\ M \in Tasks /\ Items \subseteq Tasks /\ walk \in [Tasks -> WalkState]
      /\ provider \in {"asked", "connecting"} => walk[M].pc = "await"
  BY Typed DEF Order, TasksInOrder
<1>e. \A t \in Tasks : \A p : [walk EXCEPT ![t].pc = p] = [walk EXCEPT ![t] = [@ EXCEPT !.pc = p]]
  OBVIOUS
<1>1. CASE MapperAsks \/ MapperTimesOut \/ MapperFails \/ (ShellRefuses /\ provider # "late")
  <2>1. /\ kind' = kind /\ walk[M].pc # "install"
        /\ \E p \in TaskPcs \ {"install"} : walk' = [walk EXCEPT ![M].pc = p]
    BY <1>1, <1>t DEF MapperAsks, MapperTimesOut, MapperFails, ShellRefuses, itemVars, TaskPcs
  <2>. QED  BY <1>t, <2>1 DEF LeavesItems, WalkState
<1>2. CASE ShellGetsPanel \/ (ShellRefuses /\ provider = "late")
  BY <1>2 DEF ShellGetsPanel, ShellRefuses, LeavesItems
<1>3. ASSUME NEW i \in Items, MapperCreatesUi(i) PROVE MakesItem(M, i)
  BY <1>3, <1>t, InstallsMakes DEF MapperCreatesUi
<1>4. ASSUME NEW i \in Items, ShellAccepts(i) PROVE MakesItem(M, i)
  BY <1>4, <1>t, InstallsMakes DEF ShellAccepts
<1>5. ASSUME NEW i \in Items, ShellAcceptsLate(i) PROVE MakesUnused(i)
  BY <1>5, <1>t DEF ShellAcceptsLate, Accepts, MakesUnused, Types
<1>6. ASSUME NEW i \in Items, CaptureStarts(i) \/ DeathNoticed(i) \/ DeathFails(i)
      PROVE  LeavesItems
  <2>1. /\ kind' = kind /\ walk[i].pc # "install" /\ i \in Tasks
        /\ \E p \in TaskPcs \ {"install"} : walk' = [walk EXCEPT ![i].pc = p]
    BY <1>6, <1>t DEF CaptureStarts, DeathNoticed, DeathFails, itemVars, TaskPcs
  <2>. QED  BY <1>t, <2>1 DEF LeavesItems, WalkState
<1>7. ASSUME NEW i \in Items, CaptureFails(i) PROVE LeavesItems
  <2>1. Resting.pc # "install"
    BY DEF Resting
  <2>2. walk[i].pc # "install" /\ kind' = kind /\ i \in Tasks
    BY <1>7, <1>t DEF CaptureFails, itemVars
  <2>. QED  BY <1>7, <1>t, <2>1, <2>2, PcLeaves DEF CaptureFails
<1>8. ASSUME NEW i \in Items, NEW j \in Items, CaptureConnects(i, j) PROVE MakesItem(i, j)
  BY <1>8, <1>t, InstallsMakes DEF CaptureConnects
<1>9. ASSUME NEW i \in Items, NEW j \in Items, DeathCreatesUi(i, j) PROVE MakesItem(i, j)
  BY <1>9, <1>t, InstallsMakes DEF DeathCreatesUi
<1>10. ASSUME NEW i \in Items, AcceptorDies(i) PROVE LeavesItems
  BY <1>10 DEF AcceptorDies, LeavesItems
<1>. QED
  BY <1>1, <1>2, <1>3, <1>4, <1>5, <1>6, <1>7, <1>8, <1>9, <1>10, <1>t
     DEF OtherTask, MapperStep, ProviderStep, CaptureStep, DeathStep

LEMMA WalksFromMeans ==
  ASSUME NEW w, NEW todo PROVE WalksFrom(w, todo).pc = "take" /\ WalksFrom(w, todo).todo = todo
<1>. DEFINE mode == w.mode
<1>1. WalksFrom(w, todo) = [Resting EXCEPT !.pc = "take", !.mode = mode, !.todo = todo]
  BY DEF WalksFrom
<1>. HIDE DEF mode
<1>. QED  BY <1>1 DEF Resting

\* Onwards ends a walk or takes it to its next surface.
LEMMA OnwardsLeads ==
  ASSUME NEW t, NEW s PROVE Onwards(t, s).pc \in {"take", "ended"}
BY WalksFromMeans, RestingTyped DEF Onwards

\* How a walk stays with its surface,
Stays == {<<"take", "read">>, <<"read", "send">>, <<"send", "store">>, <<"read", "drop">>,
          <<"drop", "keep">>}

\* and where its steps lead.
WalkLeads(t) ==
  /\ \A u \in Tasks \ {t} : walk'[u] = walk[u]
  /\ \/ <<walk[t].pc, walk'[t].pc>> \in Stays /\ walk'[t].todo = walk[t].todo
     \/ /\ walk[t].pc = "take"
        /\ \E s \in walk[t].todo : walk'[t] = Onwards(t, s)
     \/ walk'[t] = Onwards(t, walk[t].s) /\ walk[t].pc # "take"

LEMMA AdvanceLeads ==
  ASSUME Types, NEW t \in Tasks, Advance(t)
  PROVE  /\ WalkLeads(t) /\ walk[t].pc \in WalkPcs
         /\ UNCHANGED <<toplevelVars, mapped, kind>>
<1>t. walk \in [Tasks -> WalkState] /\ walk[t] \in WalkState
  BY Typed
<1>1. walk[t].pc \in WalkPcs /\ UNCHANGED <<toplevelVars, mapped, kind>>
  BY DEF Advance, Take, TakeFails, Read, Send, SendFails, Store, Drop, Keep, WalkPcs, itemVars
<1>2. PICK w : walk' = [walk EXCEPT ![t] = w]
  BY DEF Advance, Take, TakeFails, Read, Send, SendFails, Store, Drop, Keep
<1>3. walk'[t] = w /\ \A u \in Tasks \ {t} : walk'[u] = walk[u]
  BY <1>t, <1>2
<1>4. ASSUME NEW s, walk' = [walk EXCEPT ![t] = Onwards(t, s)] PROVE walk'[t] = Onwards(t, s)
  BY <1>t, <1>4
<1>5. CASE Take(t)
  <2>1. PICK s \in walk[t].todo :
          \E held : walk' = [walk EXCEPT ![t] = IF held = 0 THEN Onwards(t, s)
                                    ELSE [@ EXCEPT !.pc = "read", !.s = s, !.held = held]]
    BY <1>5 DEF Take
  <2>2. PICK held : walk' = [walk EXCEPT ![t] = IF held = 0 THEN Onwards(t, s)
                                    ELSE [@ EXCEPT !.pc = "read", !.s = s, !.held = held]]
    BY <2>1
  <2>3. walk[t].pc = "take"
    BY <1>5 DEF Take
  <2>4. CASE held = 0
    <3>1. walk'[t] = Onwards(t, s)
      BY <1>4, <2>2, <2>4
    <3>. QED  BY <1>1, <1>3, <2>3, <3>1 DEF WalkLeads
  <2>5. CASE held # 0
    <3>1. walk'[t] = [walk[t] EXCEPT !.pc = "read", !.s = s, !.held = held]
      BY <1>t, <2>2, <2>5
    <3>2. walk'[t].pc = "read" /\ walk'[t].todo = walk[t].todo
      BY <1>t, <3>1 DEF WalkState
    <3>. QED  BY <1>1, <1>3, <2>3, <3>2 DEF WalkLeads, Stays
  <2>. QED  BY <2>4, <2>5
<1>6. CASE TakeFails(t)
  <2>1. PICK s \in walk[t].todo : walk' = [walk EXCEPT ![t] = Onwards(t, s)]
    BY <1>6 DEF TakeFails
  <2>2. walk[t].pc = "take" /\ walk'[t] = Onwards(t, s)
    BY <1>4, <1>6, <2>1 DEF TakeFails
  <2>. QED  BY <1>1, <1>3, <2>2 DEF WalkLeads
<1>7. CASE Read(t)
  <2>0. PICK s, item : s = walk[t].s /\ item = PanelItem(walk[t].s)
    OBVIOUS
  <2>1. /\ walk[t].pc = "read"
        /\ walk' = [walk EXCEPT ![t] =
                    IF item # NoItem THEN [@ EXCEPT !.pc = "send", !.to = item]
                    ELSE IF @.mode = "apply" THEN Onwards(t, s)
                    ELSE [@ EXCEPT !.pc = "drop"]]
    BY <1>7, <2>0 DEF Read
  <2>2. CASE item # NoItem
    <3>1. walk'[t] = [walk[t] EXCEPT !.pc = "send", !.to = item]
      BY <1>t, <2>1, <2>2
    <3>2. walk'[t].pc = "send" /\ walk'[t].todo = walk[t].todo
      BY <1>t, <3>1 DEF WalkState
    <3>. QED  BY <1>1, <1>3, <2>1, <3>2 DEF WalkLeads, Stays
  <2>3. CASE item = NoItem /\ walk[t].mode = "apply"
    <3>1. walk'[t] = Onwards(t, s)
      BY <1>4, <2>1, <2>3
    <3>. QED  BY <1>1, <1>3, <2>0, <2>1, <3>1 DEF WalkLeads
  <2>4. CASE item = NoItem /\ walk[t].mode # "apply"
    <3>1. walk'[t] = [walk[t] EXCEPT !.pc = "drop"]
      BY <1>t, <2>1, <2>4
    <3>2. walk'[t].pc = "drop" /\ walk'[t].todo = walk[t].todo
      BY <1>t, <3>1 DEF WalkState
    <3>. QED  BY <1>1, <1>3, <2>1, <3>2 DEF WalkLeads, Stays
  <2>. QED  BY <2>2, <2>3, <2>4
<1>8. CASE Send(t) \/ SendFails(t) \/ Drop(t)
  <2>1. PICK pc : /\ walk' = [walk EXCEPT ![t].pc = pc]
                  /\ <<walk[t].pc, pc>> \in {<<"send", "store">>, <<"drop", "keep">>}
    BY <1>8 DEF Send, SendFails, Drop
  <2>2. walk'[t].pc = pc /\ walk'[t].todo = walk[t].todo
    BY <1>t, <2>1 DEF WalkState
  <2>. QED  BY <1>1, <1>3, <2>1, <2>2 DEF WalkLeads, Stays
<1>9. CASE Store(t) \/ Keep(t)
  <2>1. walk' = [walk EXCEPT ![t] = Onwards(t, walk[t].s)] /\ walk[t].pc # "take"
    BY <1>9 DEF Store, Keep
  <2>. QED  BY <1>1, <1>3, <1>4, <2>1 DEF WalkLeads
<1>. QED  BY <1>5, <1>6, <1>7, <1>8, <1>9 DEF Advance

\* A walk beyond its install leaves items and the toplevel's item alone.
LEMMA WalkItems ==
  ASSUME Types, NEW t \in Tasks, Advance(t)
  PROVE  LeavesItems /\ UNCHANGED mapped /\ (Unmapped' <=> Unmapped)
<1>t. walk \in [Tasks -> WalkState] /\ "mapper" \in Tasks
  BY Typed
<1>k. WalkLeads(t) /\ walk[t].pc \in WalkPcs /\ kind' = kind /\ mapped' = mapped
  BY AdvanceLeads
<1>1. walk'[t].pc \in WalkPcs \union {"ended"} /\ \A u \in Tasks \ {t} : walk'[u] = walk[u]
  BY <1>k, OnwardsLeads DEF WalkLeads, Stays, WalkPcs
<1>2. LeavesItems
  BY <1>k, <1>1 DEF LeavesItems, WalkPcs
<1>3. Unmapped' <=> Unmapped
  BY <1>t, <1>k, <1>1 DEF Unmapped
<1>. QED  BY <1>k, <1>2, <1>3

\* The client's requests and its commits install nothing: the commit that spawns the
\* mapping task finds it at rest.
LEMMA ClientItems ==
  ASSUME Order, Client \/ CommitStep \/ DropToplevel
  PROVE  LeavesItems /\ (Unmapped' <=> Unmapped)
<1>t. /\ walk \in [Tasks -> WalkState] /\ "mapper" \in Tasks
      /\ handler => walk["mapper"].pc = "idle"
  BY Typed DEF Order, TasksInOrder
<1>1. ASSUME UNCHANGED <<itemVars, walk>> PROVE LeavesItems /\ (Unmapped' <=> Unmapped)
  BY <1>1 DEF LeavesItems, Unmapped, itemVars
<1>2. ASSUME NEW s \in Surfaces, NEW newContent \in BOOLEAN, CommitStart(s, newContent)
      PROVE  LeavesItems /\ (Unmapped' <=> Unmapped)
  <2>1. \/ UNCHANGED <<itemVars, walk>>
        \/ /\ walk' = [walk EXCEPT !["mapper"].pc = "spawn"]
           /\ handler /\ UNCHANGED itemVars
    BY <1>2 DEF CommitStart, SpawnsMapping
  <2>2. CASE walk' = [walk EXCEPT !["mapper"].pc = "spawn"] /\ handler /\ UNCHANGED itemVars
    BY <1>t, <2>2 DEF LeavesItems, Unmapped, WalkState, WalkPcs, itemVars
  <2>. QED  BY <1>1, <2>1, <2>2
<1>. QED
  BY <1>1, <1>2 DEF Client, GetToplevel, AckConfigure, GetSubsurface, DestroyToplevel, CommitStep,
                    CommitRead, CommitMakesNone, CommitSend, CommitSendFails, CommitStore, CommitDrop,
                    CommitBuffer, CommitChild, DropToplevel

\* Installing uses the item up, be it mapped or too late.
LEMMA InstallItems ==
  ASSUME Order, ItemsInOrder, NEW t \in Tasks, Install(t)
  PROVE  /\ ItemsInOrder'
         /\ walk[t].item \in Items \ Spent /\ Spent' = Spent \union {walk[t].item}
<1>t. walk \in [Tasks -> WalkState]
  BY Typed DEF Order
<1>1. PICK i \in Items : i = walk[t].item /\ kind[i] # "free" /\ walk[t].pc = "install"
  BY DEF ItemsInOrder, Install
<1>2. /\ kind' = kind /\ walk'[t].pc = "take"
      /\ \A u \in Tasks \ {t} : walk'[u] = walk[u]
  BY <1>t, Typed, WalksFromTyped DEF Install, itemVars, Order
<1>3. \A u \in Tasks \ {t} : walk[u].pc = "install" => walk[u].item # i
  BY <1>1 DEF ItemsInOrder
<1>4. \A j \in Items : Installing(j)' <=> Installing(j) /\ j # i
  BY <1>1, <1>2, <1>3 DEF Installing
<1>5. Installing(i)
  BY <1>1 DEF Installing
<1>6. i \notin Spent /\ Spent' = Spent \union {i}
  BY <1>1, <1>2, <1>4, <1>5 DEF Spent
<1>7. ItemsInOrder'
  BY <1>2 DEF ItemsInOrder
<1>. QED  BY <1>1, <1>6, <1>7

LEMMA ItemsStep ==
  ASSUME Order, ItemsInOrder, [Next]_vars
  PROVE  ItemsInOrder' /\ [Promise!PromiseNext]_(Promise!promiseVars)
<1>. DEFINE Kept == mapped' = mapped /\ (Unmapped' <=> Unmapped) /\ Spent' = Spent
            Goal == ItemsInOrder' /\ [Promise!PromiseNext]_(Promise!promiseVars)
<1>s. /\ Spent = {i \in Items : kind[i] # "free" /\ ~Installing(i)}
      /\ Spent' = {i \in Items : kind[i] # "free" /\ ~Installing(i)}'
  BY DEF Spent
<1>k. ASSUME Kept PROVE [Promise!PromiseNext]_(Promise!promiseVars)
  BY <1>k, <1>s DEF Promise!promiseVars
<1>1. CASE OtherTask
  <2>1. Types /\ TasksInOrder
    BY DEF Order
  <2>2. mapped' = mapped /\ (Unmapped' <=> Unmapped)
    BY <1>1, <2>1, OtherTaskSteps, TasksFrame DEF TaskStep
  <2>3. CASE LeavesItems
    BY <1>k, <2>2, <2>3, LeavesItemsKeeps
  <2>4. ASSUME NEW t \in Tasks, NEW i \in Items, MakesItem(t, i) PROVE Goal
    BY <1>k, <2>2, <2>4, MakesItemKeeps
  <2>5. ASSUME NEW i \in Items, MakesUnused(i) PROVE Goal
    <3>1. ItemsInOrder' /\ i \notin Spent /\ Spent' = Spent \union {i}
      BY <2>5, MakesUnusedKeeps
    <3>2. Promise!Waste(i)
      BY <1>s, <2>2, <3>1 DEF Promise!Waste, Promise!Uses
    <3>. QED  BY <3>1, <3>2 DEF Promise!PromiseNext
  <2>. QED  BY <1>1, <2>3, <2>4, <2>5, OtherTaskItems
<1>2. ASSUME NEW t \in Tasks, Install(t) PROVE Goal
  <2>t. /\ walk \in [Tasks -> WalkState] /\ "mapper" \in Tasks /\ NoItem \notin Items
        /\ t = "mapper" \/ t \in Items
        /\ mapped # NoItem => ~Unmapped
        /\ t \in Items => walk[t].mode = "reapply"
    BY <1>2, Typed, ItemAssumption DEF Order, TasksInOrder, Install, Tasks
  <2>1. PICK i \in Items : i = walk[t].item
    BY <1>2, InstallItems
  <2>2. ItemsInOrder' /\ i \notin Spent /\ Spent' = Spent \union {i}
    BY <1>2, <2>1, InstallItems
  <2>3. walk[t].pc = "install" /\ walk'[t].pc = "take" /\ \A u \in Tasks \ {t} : walk'[u] = walk[u]
    BY <1>2, <2>t, Typed, WalksFromTyped DEF Install, Order
  <2>4. /\ t = "mapper" => Unmapped /\ ~Unmapped'
        /\ t # "mapper" => UNCHANGED Unmapped
    BY <2>t, <2>3 DEF Unmapped, WalkPcs
  <2>5. CASE t = "mapper" /\ walk[t].mode = "apply"
    <3>1. mapped' = i /\ mapped = NoItem
      BY <1>2, <2>t, <2>1, <2>4, <2>5 DEF Install, Maps
    <3>2. Promise!MapFirst(i)
      BY <1>s, <2>2, <2>4, <2>5, <3>1 DEF Promise!MapFirst, Promise!Uses
    <3>. QED  BY <2>2, <3>2 DEF Promise!PromiseNext
  <2>6. CASE t # "mapper" /\ mapped # NoItem
    <3>1. mapped' = i
      BY <1>2, <2>1, <2>6 DEF Install, Maps
    <3>2. Promise!Replace(i)
      BY <1>s, <2>2, <2>4, <2>6, <3>1 DEF Promise!Replace, Promise!Uses
    <3>. QED  BY <2>2, <3>2 DEF Promise!PromiseNext
  <2>7. CASE t # "mapper" /\ mapped = NoItem
    <3>1. mapped' = mapped
      BY <1>2, <2>t, <2>7 DEF Install
    <3>2. Promise!Waste(i)
      BY <1>s, <2>2, <2>4, <2>7, <3>1 DEF Promise!Waste, Promise!Uses
    <3>. QED  BY <2>2, <3>2 DEF Promise!PromiseNext
  <2>. QED  BY <2>5, <2>6, <2>7 DEF Order, TasksInOrder
<1>3. ASSUME NEW t \in Tasks, Advance(t) PROVE Goal
  BY <1>3, <1>k, WalkItems, LeavesItemsKeeps DEF Order
<1>4. CASE Client \/ CommitStep \/ DropToplevel
  <2>1. LeavesItems /\ (Unmapped' <=> Unmapped) /\ ItemsInOrder' /\ Spent' = Spent
    BY <1>4, ClientItems, LeavesItemsKeeps
  <2>2. mapped' = mapped \/ mapped' = NoItem
    BY <1>4 DEF Client, GetToplevel, AckConfigure, GetSubsurface, DestroyToplevel, CommitStart,
                CommitStep, CommitRead, CommitMakesNone, CommitSend, CommitSendFails,
                CommitStore, CommitDrop, CommitBuffer, CommitChild, DropToplevel
  <2>3. mapped # NoItem => ~Unmapped
    BY DEF Order, TasksInOrder
  <2>4. CASE mapped # NoItem /\ mapped' = NoItem
    <3>1. Promise!Unmap
      BY <1>s, <2>1, <2>3, <2>4 DEF Promise!Unmap
    <3>. QED  BY <2>1, <3>1 DEF Promise!PromiseNext
  <2>. QED  BY <1>k, <2>1, <2>2, <2>4
<1>5. CASE UNCHANGED vars
  <2>1. LeavesItems /\ mapped' = mapped /\ (Unmapped' <=> Unmapped)
    BY <1>5 DEF vars, itemVars, LeavesItems, Unmapped
  <2>. QED  BY <1>k, <2>1, LeavesItemsKeeps
<1>. QED  BY <1>1, <1>2, <1>3, <1>4, <1>5 DEF Next, OtherTask, WalkStep

\* Whatever the tasks do and in whatever order, the toplevel's item is what MappedItem
\* promises: mapped first by the mapping task, from then on only replaced, by items
\* that were never mapped, and lost for good (Toplevel::switch_panel_shell, drop).
THEOREM ItemRefinement == Spec => KeepsItemPromise
<1>1. Init => ItemsInOrder /\ Promise!PromiseInit
  BY DEF Init, ItemsInOrder, Promise!PromiseInit, Resting, Unmapped, WalkPcs, Tasks
<1>2. Invariant => Order
  BY DEF Invariant
<1>3. Order /\ ItemsInOrder /\ [Next]_vars
        => ItemsInOrder' /\ [Promise!PromiseNext]_(Promise!promiseVars)
  BY ItemsStep
<1>. QED
  BY <1>1, <1>2, <1>3, InvariantHolds, PTL DEF Spec, KeepsItemPromise, Promise!PromiseSpec
-----------------------------------------------------------------------------
(* What stands of MapsOrFails and DestroyedUnmaps without fairness *)

LEMMA DroppedStays ==
  ASSUME Invariant, toplevel = "dropped", [Next]_vars PROVE toplevel' = "dropped"
<1>1. UNCHANGED toplevel \/ GetToplevel \/ DestroyToplevel \/ DropToplevel
  <2>1. OtherTask => UNCHANGED toplevel
    BY OtherTaskSteps DEF TaskStep, toplevelVars, Invariant, Order
  <2>. QED
    BY <2>1, AdvanceLeads
    DEF Invariant, Order, Next, Client, AckConfigure, GetSubsurface, CommitStart, CommitStep, CommitRead,
        CommitMakesNone, CommitSend, CommitSendFails, CommitStore, CommitDrop, CommitBuffer,
        CommitChild, OtherTask, WalkStep, Install, vars, toplevelVars
<1>. QED  BY <1>1 DEF GetToplevel, DestroyToplevel, DropToplevel

\* A toplevel whose last Arc was dropped has no item, and no task that comes later
\* gives it one again (Toplevel::drop). DestroyedUnmaps adds that a destroyed one gets
\* there.
THEOREM DroppedForGood ==
  Spec => [](toplevel = "dropped" => [](toplevel = "dropped" /\ mapped = NoItem))
<1>. DEFINE Dropped == toplevel = "dropped"
<1>1. Invariant /\ Dropped => Dropped /\ mapped = NoItem
  BY DEF Invariant, Order, TasksInOrder
<1>2. Invariant /\ Dropped /\ [Next]_vars => Dropped'
  BY DroppedStays
<1>. HIDE DEF Dropped
<1>3. Spec => [](Dropped => [](Dropped /\ mapped = NoItem))
  BY <1>1, <1>2, InvariantHolds, PTL DEF Spec
<1>. QED  BY <1>3 DEF Dropped

\* A walk ends, goes on with the surface it is at, or leaves it behind: from the
\* toplevel's own to the subsurfaces, and from each of them to one it has not visited.
Advances(t) ==
  \/ walk'[t].pc = "ended"
  \/ <<walk[t].pc, walk'[t].pc>> \in Stays /\ walk'[t].todo = walk[t].todo
  \/ /\ walk'[t].pc = "take" /\ walk'[t].todo \subseteq Children
     /\ \/ walk[t].todo = {Root}
        \/ walk'[t].todo \subseteq walk[t].todo /\ walk'[t].todo # walk[t].todo

LEMMA OnwardsAdvances ==
  ASSUME Order, NEW t \in Tasks, Walking(t), NEW s \in walk[t].todo,
         walk'[t] = Onwards(t, s)
  PROVE  Advances(t)
<1>t. /\ walk \in [Tasks -> WalkState] /\ Root \notin Children
      /\ walk[t].todo = {Root} \/ walk[t].todo \subseteq Children
  BY Typed, SurfaceAssumption DEF Order, WalkInOrder
<1>2. CASE Below(t, s) = {}
  BY <1>2, RestingTyped DEF Onwards, Advances
<1>3. CASE Below(t, s) # {}
  <2>1. walk'[t].pc = "take" /\ walk'[t].todo = Below(t, s)
    BY <1>3, WalksFromMeans DEF Onwards
  <2>2. CASE s = Root
    <3>1. walk[t].todo = {Root}
      BY <1>t, <2>2
    <3>2. Below(t, s) \subseteq Children
      BY <2>2 DEF Below, Subsurfaces
    <3>. QED  BY <2>1, <3>1, <3>2 DEF Advances
  <2>3. CASE s # Root
    <3>1. walk[t].todo \subseteq Children
      BY <1>t, <2>3
    <3>2. Below(t, s) = walk[t].todo \ {s}
      BY <2>3 DEF Below
    <3>. QED  BY <2>1, <3>1, <3>2 DEF Advances
  <2>. QED  BY <2>2, <2>3
<1>. QED  BY <1>2, <1>3

LEMMA WalkAdvances ==
  ASSUME Order, NEW t \in Tasks, Advance(t) PROVE Advances(t)
<1>1. WalkLeads(t) /\ Walking(t)
  BY AdvanceLeads DEF Order, Walking
<1>2. walk[t].pc # "take" => walk[t].s \in walk[t].todo
  BY <1>1 DEF Order, WalkInOrder
<1>3. ASSUME NEW s \in walk[t].todo, walk'[t] = Onwards(t, s) PROVE Advances(t)
  BY <1>1, <1>3, OnwardsAdvances
<1>. QED  BY <1>1, <1>2, <1>3 DEF WalkLeads, Advances

\* A walk that has begun never turns back, whatever the client, the shells and the
\* other walks do meanwhile: it visits the toplevel's own surface, then each
\* subsurface at most once, and ends (apply_buffered_surface_update_recursive,
\* reapply_buffer_recursive). So it ends as soon as its steps are taken, which is what
\* MapsOrFails and DestroyedUnmaps need fairness for.
THEOREM WalksAdvance ==
  Spec => [][\A t \in Tasks : Walking(t) => walk'[t] = walk[t] \/ Advances(t)]_vars
<1>. DEFINE Goal == \A t \in Tasks : Walking(t) => walk'[t] = walk[t] \/ Advances(t)
<1>1. ASSUME Invariant, Next PROVE Goal
  <2>t. /\ Order /\ Types /\ TasksInOrder /\ walk \in [Tasks -> WalkState]
        /\ "mapper" \in Tasks /\ (handler => walk["mapper"].pc = "idle")
    BY <1>1, Typed DEF Invariant, Order, TasksInOrder
  <2>1. CASE OtherTask
    BY <2>t, <2>1, OtherTaskSteps, TasksFrame
  <2>2. ASSUME NEW t \in Tasks, Install(t) PROVE Goal
    BY <2>t, <2>2 DEF Install, Walking, WalkPcs
  <2>3. ASSUME NEW t \in Tasks, Advance(t) PROVE Goal
    <3>1. \A u \in Tasks \ {t} : walk'[u] = walk[u]
      BY <2>t, <2>3, AdvanceLeads DEF WalkLeads
    <3>. QED  BY <2>t, <2>3, <3>1, WalkAdvances
  <2>4. ASSUME NEW s \in Surfaces, NEW new \in BOOLEAN, CommitStart(s, new) PROVE Goal
    BY <2>t, <2>4 DEF CommitStart, SpawnsMapping, Walking, WalkPcs
  <2>5. CASE UNCHANGED walk
    BY <2>5
  <2>. QED
    BY <1>1, <2>1, <2>2, <2>3, <2>4, <2>5
       DEF Next, OtherTask, WalkStep, Client, GetToplevel, AckConfigure, GetSubsurface,
           DestroyToplevel, CommitStep, CommitRead, CommitMakesNone, CommitSend,
           CommitSendFails, CommitStore, CommitDrop, CommitBuffer, CommitChild, DropToplevel
<1>2. Invariant /\ [Next]_vars => [Goal]_vars
  BY <1>1
<1>. QED  BY <1>2, InvariantHolds, PTL DEF Spec
=============================================================================
