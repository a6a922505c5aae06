----------------------------- MODULE PanelMapping -----------------------------
(***************************************************************************)
(* How one toplevel and its subsurfaces reach a panel shell: the commits   *)
(* of the client, the task that maps the toplevel, the tasks that switch   *)
(* it to another shell and the destruction of the toplevel                 *)
(* (core/surface.rs, xdg/surface.rs, xdg/toplevel.rs, xdg/backend.rs,      *)
(* panel_item_ui.rs, default_panel_shell.rs).                              *)
(*                                                                         *)
(* The client's dispatch task and the other tasks run on several threads   *)
(* and share, each under a lock of its own, the toplevel's mapped item and *)
(* every surface's buffered_surface_update and current_buffer_submit. A    *)
(* step below is what happens under one of these locks, or one call to a   *)
(* shell. The content of a surface is the number of the commit that last   *)
(* changed it; 0 is no content.                                            *)
(***************************************************************************)
EXTENDS Naturals, FiniteSets

CONSTANTS Root,        \* the toplevel's wl_surface
          Children,    \* its subsurfaces
          Items,       \* panel items that may be created
          NoItem,
          MaxCommits,  \* bound: commits with new content per surface
          Unmade,      \* bound: surfaces for which making a submission may fail
          Unsent       \* bound: surfaces for which a call to a shell may fail

ASSUME ItemAssumption == NoItem \notin Items
ASSUME SurfaceAssumption == Root \notin Children
ASSUME TaskAssumption == "mapper" \notin Items
ASSUME BoundAssumption == MaxCommits \in Nat \ {0}
ASSUME FailingAssumption == Unmade \union Unsent \subseteq {Root} \union Children

Surfaces == {Root} \union Children

\* The tasks that install an item and then walk the surface tree: the mapping
\* task and, for each item, the death task of one that an acceptor took or the
\* input task of a PanelItemUi, which captures it into an acceptor.
Tasks == {"mapper"} \union Items

VARIABLES
  \* toplevel
  toplevel,    \* "none", "live", "destroyed" (some Arc is left) or "dropped"
  configured,  \* the client has acknowledged a configure
  handler,     \* the mapping commit handler is installed
  mapped,      \* the panel item in Toplevel::mapped
  \* panel items
  kind,        \* "free" (not created), "acceptor" or "ui"
  alive,       \* the process behind an acceptor's shell is alive
  provider,    \* the request for the default shell: "none", "asked",
               \* "connecting", "late" (connecting after the timeout) or "gone"
  \* surfaces
  linked,      \* how a subsurface got its toplevel: "none" (no wl_subsurface),
               \* "unlinked", "born" (by set_parent) or "late" (by add_child)
  latest,      \* the surface's current content
  buffered,    \* buffered_surface_update
  submit,      \* current_buffer_submit
  shown,       \* what the shell of the mapped item was last sent for a surface
  \* tasks
  commit,      \* the commit the client's dispatch task works on
  walk,        \* the state of each task of Tasks
  \* history
  disturbed,   \* surfaces that a race, or a late link to the toplevel, may have left
               \* behind; the next commit that no walk overlaps takes one out
  failed       \* what has failed for a surface since its last submission was made:
               \* nothing ("none"), to make one ("update"), the call that sends it
               \* to the installed shell ("call")

toplevelVars == <<toplevel, configured, handler>>
itemVars == <<kind, alive, provider>>
surfaceVars == <<latest, buffered, submit>>
historyVars == <<disturbed, failed>>
vars == <<toplevelVars, mapped, itemVars, surfaceVars, linked, shown, commit,
          walk, historyVars>>

\* No surface has an update: what a new surface stores, and what a new shell was sent.
Nothing == [s \in Surfaces |-> 0]

Idle == [pc |-> "idle", s |-> Root, item |-> NoItem]
Resting == [pc |-> "idle", mode |-> "apply", item |-> NoItem, s |-> Root,
            todo |-> {}, held |-> 0, to |-> NoItem]

Ended == [Resting EXCEPT !.pc = "ended"]

WalkPcs == {"take", "read", "send", "store", "drop", "keep"}
Walking(t) == walk[t].pc \in WalkPcs
SomeWalk == \E t \in Tasks : Walking(t)

\* An Arc of the toplevel is left, so that a Weak of it upgrades: the client's
\* object, a task between its upgrade and its end, or the default shell's provider.
HoldsToplevel(t) == walk[t].pc \notin {"idle", "ended", "failed"}
Upgrades ==
  \/ toplevel = "live"
  \/ /\ toplevel = "destroyed"
     /\ provider \in {"asked", "connecting", "late"} \/ \E t \in Tasks : HoldsToplevel(t)

\* Surface::panel_item: the surface's weak toplevel, then its mapped item.
Subsurfaces == {c \in Children : linked[c] # "none"}
Linked == {Root} \union {c \in Children : linked[c] \in {"born", "late"}}
PanelItem(s) == IF s \in Linked /\ Upgrades THEN mapped ELSE NoItem

\* apply_buffered_surface_update_recursive holds the lock of the buffered update
\* it took until it has stored the submission.
BufferedLocked(s) ==
  \E t \in Tasks : /\ walk[t].mode = "apply" /\ walk[t].s = s
                   /\ walk[t].pc \in {"read", "send", "store"}
-----------------------------------------------------------------------------
Init ==
  /\ toplevel = "none" /\ configured = FALSE
  /\ handler = FALSE /\ mapped = NoItem
  /\ kind = [i \in Items |-> "free"]
  /\ alive = [i \in Items |-> FALSE]
  /\ provider = "none"
  /\ linked = [c \in Children |-> "none"]
  /\ latest = Nothing /\ buffered = Nothing /\ submit = Nothing
  /\ shown = Nothing
  /\ commit = Idle
  /\ walk = [t \in Tasks |-> Resting]
  /\ disturbed = {} /\ failed = [s \in Surfaces |-> "none"]

(* Requests of the client *)

GetToplevel ==
  /\ commit = Idle /\ toplevel = "none"
  /\ toplevel' = "live"
  /\ handler' = TRUE
  /\ UNCHANGED <<configured, mapped, itemVars, surfaceVars, linked,
                 shown, commit, walk, historyVars>>

\* The code does not ask whether it has sent a configure of that serial.
AckConfigure ==
  /\ commit = Idle /\ toplevel = "live"
  /\ configured' = TRUE
  /\ UNCHANGED <<toplevel, handler, mapped, itemVars, surfaceVars,
                 linked, shown, commit, walk, historyVars>>

\* Subsurface::new copies the parent's weak toplevel; setup adds the handlers.
GetSubsurface(c) ==
  /\ commit = Idle /\ linked[c] = "none"
  /\ linked' = [linked EXCEPT ![c] = IF toplevel = "none" THEN "unlinked" ELSE "born"]
  /\ UNCHANGED <<toplevelVars, mapped, itemVars, surfaceVars, shown, commit, walk, historyVars>>

\* destroy removes the object and takes mapped; tasks may still hold the Arc.
DestroyToplevel ==
  /\ commit = Idle /\ toplevel = "live"
  /\ toplevel' = "destroyed"
  /\ mapped' = NoItem /\ shown' = Nothing
  /\ UNCHANGED <<configured, handler, itemVars, surfaceVars, linked, commit,
                 walk, historyVars>>

(* The commit of a surface, from apply to the last updated-state handler *)

\* The toplevel's commit handler spawns the mapping task and is removed.
SpawnsMapping(s, content) ==
  /\ s = Root /\ Upgrades /\ handler
  /\ mapped = NoItem /\ configured /\ content > 0

CommitStart(s, newContent) ==
  /\ commit = Idle
  /\ s \in {Root} \union Subsurfaces
  /\ newContent => latest[s] < MaxCommits
  /\ LET content == IF newContent THEN latest[s] + 1 ELSE latest[s]
     IN  /\ latest' = [latest EXCEPT ![s] = content]
         /\ IF SpawnsMapping(s, content)
            THEN /\ walk' = [walk EXCEPT !["mapper"].pc = "spawn"]
                 /\ handler' = FALSE
            ELSE UNCHANGED <<walk, handler>>
         /\ commit' = IF content = 0 THEN Idle
                      ELSE [pc |-> "read", s |-> s, item |-> NoItem]
  /\ disturbed' = IF SomeWalk THEN disturbed \union {s} ELSE disturbed \ {s}
  /\ UNCHANGED <<toplevel, configured, mapped, itemVars, buffered, submit, linked,
                 shown, failed>>

\* PanelShell::update_surface_dmatex. An item is mapped once, so what reaches the
\* shell of one that was replaced is seen no more.
ShellGets(item, s, content) ==
  shown' = IF item = mapped THEN [shown EXCEPT ![s] = content] ELSE shown

\* A call that fails changes nothing more for content that no submission was made of.
CallFails(item, s) ==
  failed' = IF item = mapped /\ failed[s] = "none" THEN [failed EXCEPT ![s] = "call"] ELSE failed

\* buffer_update makes a submission of the buffer and reads the surface's panel item,
\* once ...
CommitRead ==
  /\ commit.pc = "read"
  /\ commit' = [commit EXCEPT !.pc = "send", !.item = PanelItem(commit.s)]
  /\ failed' = [failed EXCEPT ![commit.s] = "none"]
  /\ UNCHANGED <<toplevelVars, mapped, itemVars, surfaceVars, linked, shown, walk,
                 disturbed>>

\* ... or makes none: the content reaches neither a shell nor a buffered update.
CommitMakesNone ==
  /\ commit.pc = "read" /\ commit.s \in Unmade
  /\ commit' = [commit EXCEPT !.pc = "child"]
  /\ failed' = [failed EXCEPT ![commit.s] = "update"]
  /\ UNCHANGED <<toplevelVars, mapped, itemVars, surfaceVars, linked, shown, walk,
                 disturbed>>

\* With an item, its shell is sent the submission ...
CommitSend ==
  /\ commit.pc = "send" /\ commit.item # NoItem
  /\ ShellGets(commit.item, commit.s, latest[commit.s])
  /\ commit' = [commit EXCEPT !.pc = "store"]
  /\ UNCHANGED <<toplevelVars, mapped, itemVars, surfaceVars, linked, walk, historyVars>>

\* ... or misses it: the call fails, or the item has no panel shell yet;
CommitSendFails ==
  /\ commit.pc = "send" /\ commit.item # NoItem /\ commit.s \in Unsent
  /\ CallFails(commit.item, commit.s)
  /\ commit' = [commit EXCEPT !.pc = "store"]
  /\ UNCHANGED <<toplevelVars, mapped, itemVars, surfaceVars, linked, shown, walk,
                 disturbed>>

\* Mutant: the submission is not kept.
SendsOnly ==
  /\ commit.pc = "store"
  /\ commit' = [commit EXCEPT !.pc = "child", !.item = NoItem]
  /\ UNCHANGED <<toplevelVars, mapped, itemVars, surfaceVars, linked, shown, walk, historyVars>>

\* ... and either way it replaces current_buffer_submit.
CommitStore ==
  /\ commit.pc = "store"
  /\ submit' = [submit EXCEPT ![commit.s] = latest[commit.s]]
  /\ commit' = [commit EXCEPT !.pc = "child", !.item = NoItem]
  /\ UNCHANGED <<toplevelVars, mapped, itemVars, latest, buffered, linked, shown,
                 walk, historyVars>>

\* Without one the current submission is dropped ...
CommitDrop ==
  /\ commit.pc = "send" /\ commit.item = NoItem
  /\ submit' = [submit EXCEPT ![commit.s] = 0]
  /\ commit' = [commit EXCEPT !.pc = "keep"]
  /\ UNCHANGED <<toplevelVars, mapped, itemVars, latest, buffered, linked, shown, walk,
                 historyVars>>

\* ... and the new one buffered for later.
CommitBuffer ==
  /\ commit.pc = "keep"
  /\ ~BufferedLocked(commit.s)
  /\ buffered' = [buffered EXCEPT ![commit.s] = latest[commit.s]]
  /\ commit' = [commit EXCEPT !.pc = "child"]
  /\ UNCHANGED <<toplevelVars, mapped, itemVars, latest, submit, linked, shown, walk,
                 historyVars>>

\* The subsurface's add-child handler, which runs after buffer_update, links the
\* subsurface to the toplevel once its parent has an item.
CommitChild ==
  /\ commit.pc = "child"
  /\ linked' = [c \in Children |->
                  IF c = commit.s /\ linked[c] = "unlinked" /\ PanelItem(Root) # NoItem
                  THEN "late" ELSE linked[c]]
  /\ disturbed' = disturbed \union {c \in Children : linked'[c] # linked[c]}
  /\ commit' = Idle
  /\ UNCHANGED <<toplevelVars, mapped, itemVars, surfaceVars, shown, walk, failed>>
-----------------------------------------------------------------------------
(* Panel items *)

\* XdgBackend::connect: the acceptor took the item; its death task now waits.
Accepts(i) ==
  /\ kind[i] = "free"
  /\ kind' = [kind EXCEPT ![i] = "acceptor"]
  /\ alive' = [alive EXCEPT ![i] = TRUE]

\* PanelItemUi::create.
CreatesUi(i) ==
  /\ kind[i] = "free"
  /\ kind' = [kind EXCEPT ![i] = "ui"]
  /\ UNCHANGED alive

Installs(t, i, mode) ==
  walk' = [walk EXCEPT ![t] = [Resting EXCEPT !.pc = "install", !.item = i, !.mode = mode]]

AcceptorDies(i) ==
  /\ kind[i] = "acceptor" /\ alive[i]
  /\ alive' = [alive EXCEPT ![i] = FALSE]
  /\ UNCHANGED <<toplevelVars, mapped, kind, provider, surfaceVars, linked, shown,
                 commit, walk, historyVars>>

(* The mapping task: the default shell within a second, else a PanelItemUi *)

MapperAsks ==
  /\ walk["mapper"].pc = "spawn"
  /\ provider' = "asked"
  /\ walk' = [walk EXCEPT !["mapper"].pc = "await"]
  /\ UNCHANGED <<toplevelVars, mapped, kind, alive, surfaceVars, linked, shown,
                 commit, historyVars>>

\* get_panel takes the sender and connects.
ShellGetsPanel ==
  /\ provider = "asked"
  /\ provider' = "connecting"
  /\ UNCHANGED <<toplevelVars, mapped, kind, alive, surfaceVars, linked, shown,
                 commit, walk, historyVars>>

ShellAccepts(i) ==
  /\ provider = "connecting"
  /\ Accepts(i)
  /\ provider' = "gone"
  /\ Installs("mapper", i, "apply")
  /\ UNCHANGED <<toplevelVars, mapped, surfaceVars, linked, shown, commit, historyVars>>

\* The receiver is gone: the item lives on without a toplevel that uses it.
ShellAcceptsLate(i) ==
  /\ provider = "late"
  /\ Accepts(i)
  /\ provider' = "gone"
  /\ UNCHANGED <<toplevelVars, mapped, surfaceVars, linked, shown, commit, walk, historyVars>>

\* connect failed: the sender is dropped, which also ends the wait for it.
ShellRefuses ==
  /\ provider \in {"connecting", "late"}
  /\ provider' = "gone"
  /\ walk' = IF provider = "late" THEN walk
             ELSE [walk EXCEPT !["mapper"].pc = "fallback"]
  /\ UNCHANGED <<toplevelVars, mapped, kind, alive, surfaceVars, linked, shown,
                 commit, historyVars>>

\* Mutant: the time is counted from the shell's request on.
TimesOutConnecting ==
  /\ walk["mapper"].pc = "await" /\ provider = "connecting"
  /\ provider' = "late"
  /\ walk' = [walk EXCEPT !["mapper"].pc = "fallback"]
  /\ UNCHANGED <<toplevelVars, mapped, kind, alive, surfaceVars, linked, shown, commit,
                 historyVars>>

\* Mutant: the receiver outlives the timeout, so that the request still stands.
KeepsReceiver ==
  /\ walk["mapper"].pc = "await"
  /\ walk' = [walk EXCEPT !["mapper"].pc = "fallback"]
  /\ UNCHANGED <<toplevelVars, mapped, itemVars, surfaceVars, linked, shown, commit,
                 historyVars>>

MapperTimesOut ==
  /\ walk["mapper"].pc = "await"
  /\ provider' = IF provider = "connecting" THEN "late" ELSE "gone"
  /\ walk' = [walk EXCEPT !["mapper"].pc = "fallback"]
  /\ UNCHANGED <<toplevelVars, mapped, kind, alive, surfaceVars, linked, shown,
                 commit, historyVars>>

MapperCreatesUi(i) ==
  /\ walk["mapper"].pc = "fallback"
  /\ CreatesUi(i)
  /\ Installs("mapper", i, "apply")
  /\ UNCHANGED <<toplevelVars, mapped, provider, surfaceVars, linked, shown, commit,
                 historyVars>>

\* No seat, no spatial or no panel item ui: the task returns, nothing retries.
MapperFails ==
  /\ walk["mapper"].pc \in {"spawn", "fallback"}
  /\ walk' = [walk EXCEPT !["mapper"].pc = "failed"]
  /\ UNCHANGED <<toplevelVars, mapped, itemVars, surfaceVars, linked, shown, commit,
                 historyVars>>

(* ItemHandlerQuery::try_capture of a PanelItemUi *)

Installing(i) == \E t \in Tasks : walk[t].pc = "install" /\ walk[t].item = i

\* The item's node lives while it is mapped or a task is about to install it.
Reachable(i) == mapped = i \/ Installing(i)

CaptureStarts(i) ==
  /\ walk[i].pc = "idle" /\ kind[i] = "ui"
  /\ Upgrades /\ Reachable(i)
  /\ walk' = [walk EXCEPT ![i].pc = "connect"]
  /\ UNCHANGED <<toplevelVars, mapped, itemVars, surfaceVars, linked, shown, commit,
                 historyVars>>

CaptureConnects(i, acceptor) ==
  /\ walk[i].pc = "connect"
  /\ Accepts(acceptor)
  /\ Installs(i, acceptor, "reapply")
  /\ UNCHANGED <<toplevelVars, mapped, provider, surfaceVars, linked, shown, commit,
                 historyVars>>

CaptureFails(i) ==
  /\ walk[i].pc = "connect"
  /\ walk' = [walk EXCEPT ![i] = Resting]
  /\ UNCHANGED <<toplevelVars, mapped, itemVars, surfaceVars, linked, shown, commit,
                 historyVars>>

(* The death task of an accepted item *)

DeathNoticed(i) ==
  /\ walk[i].pc = "idle"
  /\ kind[i] = "acceptor" /\ ~alive[i]
  /\ walk' = [walk EXCEPT ![i].pc = IF Upgrades THEN "create" ELSE "ended"]
  /\ UNCHANGED <<toplevelVars, mapped, itemVars, surfaceVars, linked, shown, commit,
                 historyVars>>

DeathCreatesUi(i, ui) ==
  /\ walk[i].pc = "create"
  /\ CreatesUi(ui)
  /\ Installs(i, ui, "reapply")
  /\ UNCHANGED <<toplevelVars, mapped, provider, surfaceVars, linked, shown, commit,
                 historyVars>>

DeathFails(i) ==
  /\ walk[i].pc = "create"
  /\ walk' = [walk EXCEPT ![i].pc = "ended"]
  /\ UNCHANGED <<toplevelVars, mapped, itemVars, surfaceVars, linked, shown, commit,
                 historyVars>>
-----------------------------------------------------------------------------
(* Installing an item and walking the surface tree *)

WalksFrom(w, todo) == [Resting EXCEPT !.pc = "take", !.mode = w.mode, !.todo = todo]

\* A commit under way and another walk disturb what they overlap.
Overlaps(t) ==
  IF \E u \in Tasks \ {t} : Walking(u) THEN Surfaces
  ELSE IF commit = Idle THEN disturbed
  ELSE disturbed \union {commit.s}

\* A switch brings an item of its own: the calls that failed with the last one are past.
Maps(item) ==
  /\ mapped' = item /\ shown' = Nothing
  /\ failed' = [s \in Surfaces |-> IF failed[s] = "call" THEN "none" ELSE failed[s]]

\* Mutant: the switch maps its item also where there is none to replace.
InstallAnyway(t) ==
  /\ walk[t].pc = "install"
  /\ Maps(walk[t].item)
  /\ walk' = [walk EXCEPT ![t] = WalksFrom(@, {Root})]
  /\ disturbed' = Overlaps(t)
  /\ UNCHANGED <<toplevelVars, itemVars, surfaceVars, linked, commit>>

\* The mapping task sets mapped; switch_panel_shell only replaces an item.
Install(t) ==
  /\ walk[t].pc = "install"
  /\ IF walk[t].mode = "apply" \/ mapped # NoItem
     THEN Maps(walk[t].item)
     ELSE UNCHANGED <<mapped, shown, failed>>
  /\ walk' = [walk EXCEPT ![t] = WalksFrom(@, {Root})]
  /\ disturbed' = Overlaps(t)
  /\ UNCHANGED <<toplevelVars, itemVars, surfaceVars, linked, commit>>

\* Mutant: the walk ends at the toplevel's own surface.
OnlyRoot(t, s) == {}

\* The children a walk goes on to after surface s.
Below(t, s) ==
  IF s = Root THEN Subsurfaces ELSE walk[t].todo \ {s}

Onwards(t, s) ==
  LET todo == Below(t, s)
  IN  IF todo = {} THEN Ended
      ELSE WalksFrom(walk[t], todo)

\* Takes the buffered update (mapping) or the current submission (switching).
Take(t) ==
  /\ walk[t].pc = "take"
  /\ \E s \in walk[t].todo :
       LET applying == walk[t].mode = "apply"
           held == IF applying THEN buffered[s] ELSE submit[s]
       IN  /\ walk' = [walk EXCEPT ![t] =
                         IF held = 0 THEN Onwards(t, s)
                         ELSE [@ EXCEPT !.pc = "read", !.s = s, !.held = held]]
           /\ IF applying THEN /\ buffered' = [buffered EXCEPT ![s] = 0]
                               /\ UNCHANGED submit
              ELSE /\ submit' = [submit EXCEPT ![s] = 0]
                   /\ UNCHANGED buffered
  /\ UNCHANGED <<toplevelVars, mapped, itemVars, latest, linked, shown, commit, historyVars>>

\* BufferSubmit::reapply has no release point to send: the submission it took is gone.
TakeFails(t) ==
  /\ walk[t].pc = "take" /\ walk[t].mode = "reapply"
  /\ \E s \in walk[t].todo \intersect Unmade :
       /\ submit[s] # 0
       /\ submit' = [submit EXCEPT ![s] = 0]
       /\ failed' = [failed EXCEPT ![s] = "update"]
       /\ walk' = [walk EXCEPT ![t] = Onwards(t, s)]
  /\ UNCHANGED <<toplevelVars, mapped, itemVars, latest, buffered, linked, shown, commit,
                 disturbed>>

\* Without an item the mapping walk drops the submission and a switch buffers it.
Read(t) ==
  /\ walk[t].pc = "read"
  /\ LET s == walk[t].s
         item == PanelItem(s)
     IN  walk' = [walk EXCEPT ![t] =
                    IF item # NoItem THEN [@ EXCEPT !.pc = "send", !.to = item]
                    ELSE IF @.mode = "apply" THEN Onwards(t, s)
                    ELSE [@ EXCEPT !.pc = "drop"]]
  /\ UNCHANGED <<toplevelVars, mapped, itemVars, surfaceVars, linked, shown, commit,
                 historyVars>>

\* What replaced the submission the walk took is dropped ...
Drop(t) ==
  /\ walk[t].pc = "drop"
  /\ submit' = [submit EXCEPT ![walk[t].s] = 0]
  /\ walk' = [walk EXCEPT ![t].pc = "keep"]
  /\ UNCHANGED <<toplevelVars, mapped, itemVars, latest, buffered, linked, shown, commit,
                 historyVars>>

\* ... and the one it took buffered.
Keep(t) ==
  /\ walk[t].pc = "keep"
  /\ ~BufferedLocked(walk[t].s)
  /\ buffered' = [buffered EXCEPT ![walk[t].s] = walk[t].held]
  /\ walk' = [walk EXCEPT ![t] = Onwards(t, walk[t].s)]
  /\ UNCHANGED <<toplevelVars, mapped, itemVars, latest, submit, linked, shown, commit,
                 historyVars>>

Send(t) ==
  /\ walk[t].pc = "send"
  /\ ShellGets(walk[t].to, walk[t].s, walk[t].held)
  /\ walk' = [walk EXCEPT ![t].pc = "store"]
  /\ UNCHANGED <<toplevelVars, mapped, itemVars, surfaceVars, linked, commit, historyVars>>

\* The failed call is only logged, as in a commit.
SendFails(t) ==
  /\ walk[t].pc = "send" /\ walk[t].s \in Unsent
  /\ CallFails(walk[t].to, walk[t].s)
  /\ walk' = [walk EXCEPT ![t].pc = "store"]
  /\ UNCHANGED <<toplevelVars, mapped, itemVars, surfaceVars, linked, shown, commit,
                 disturbed>>

Store(t) ==
  /\ walk[t].pc = "store"
  /\ submit' = [submit EXCEPT ![walk[t].s] = walk[t].held]
  /\ walk' = [walk EXCEPT ![t] = Onwards(t, walk[t].s)]
  /\ UNCHANGED <<toplevelVars, mapped, itemVars, latest, buffered, linked, shown,
                 commit, historyVars>>

\* Mutant: no Drop for Toplevel.
DropOnly ==
  /\ toplevel = "destroyed" /\ ~Upgrades
  /\ toplevel' = "dropped"
  /\ UNCHANGED <<configured, handler, mapped, itemVars, surfaceVars, linked,
                 shown, commit, walk, historyVars>>

\* Toplevel::drop, when no Arc is left.
DropToplevel ==
  /\ toplevel = "destroyed" /\ ~Upgrades
  /\ toplevel' = "dropped"
  /\ mapped' = NoItem /\ shown' = Nothing
  /\ UNCHANGED <<configured, handler, itemVars, surfaceVars, linked, commit,
                 walk, historyVars>>
-----------------------------------------------------------------------------
Client ==
  \/ GetToplevel \/ AckConfigure \/ DestroyToplevel
  \/ \E c \in Children : GetSubsurface(c)
  \/ \E s \in Surfaces, newContent \in BOOLEAN : CommitStart(s, newContent)

CommitStep ==
  \/ CommitRead \/ CommitMakesNone
  \/ CommitSend \/ CommitSendFails \/ CommitStore
  \/ CommitDrop \/ CommitBuffer
  \/ CommitChild

MapperStep ==
  \/ MapperAsks \/ MapperTimesOut \/ MapperFails
  \/ \E i \in Items : MapperCreatesUi(i)

ProviderStep ==
  \/ ShellRefuses
  \/ \E i \in Items : ShellAccepts(i) \/ ShellAcceptsLate(i)

CaptureStep(i) == CaptureFails(i) \/ \E acceptor \in Items : CaptureConnects(i, acceptor)

DeathStep(i) ==
  \/ DeathNoticed(i) \/ DeathFails(i)
  \/ \E ui \in Items : DeathCreatesUi(i, ui)

\* Onwards from the install.
Advance(t) ==
  \/ Take(t) \/ TakeFails(t)
  \/ Read(t) \/ Send(t) \/ SendFails(t) \/ Store(t)
  \/ Drop(t) \/ Keep(t)

WalkStep(t) == Install(t) \/ Advance(t)

Next ==
  \/ Client \/ CommitStep
  \/ MapperStep \/ ShellGetsPanel \/ ProviderStep
  \/ \E i \in Items : CaptureStarts(i) \/ CaptureStep(i) \/ AcceptorDies(i) \/ DeathStep(i)
  \/ \E t \in Tasks : WalkStep(t)
  \/ DropToplevel

Spec == Init /\ [][Next]_vars

\* Tasks that are ready run on the runtime's threads, calls to other processes
\* return or fail (a peer that dies ends its call), timers fire and the last Arc
\* drops. The client, the default shell and the acceptors owe nothing.
Fairness ==
  /\ WF_vars(CommitStep) /\ WF_vars(MapperStep) /\ WF_vars(ProviderStep)
  /\ WF_vars(DropToplevel)
  /\ \A i \in Items : WF_vars(CaptureStep(i)) /\ WF_vars(DeathStep(i))
  /\ \A t \in Tasks : WF_vars(WalkStep(t))

FairSpec == Spec /\ Fairness
-----------------------------------------------------------------------------
(* Properties *)

Types ==
  /\ toplevel \in {"none", "live", "destroyed", "dropped"}
  /\ {configured, handler} \subseteq BOOLEAN
  /\ mapped \in Items \union {NoItem}
  /\ kind \in [Items -> {"free", "acceptor", "ui"}]
  /\ alive \in [Items -> BOOLEAN]
  /\ provider \in {"none", "asked", "connecting", "late", "gone"}
  /\ linked \in [Children -> {"none", "unlinked", "born", "late"}]
  /\ latest \in [Surfaces -> 0..MaxCommits]
  /\ buffered \in [Surfaces -> 0..MaxCommits]
  /\ submit \in [Surfaces -> 0..MaxCommits]
  /\ shown \in [Surfaces -> 0..MaxCommits]
  /\ commit \in [pc : {"idle", "read", "send", "store", "keep", "child"}, s : Surfaces,
                 item : Items \union {NoItem}]
  /\ walk \in [Tasks -> [pc : {"idle", "spawn", "await", "fallback", "connect", "create",
                              "install", "ended", "failed"} \union WalkPcs,
                        mode : {"apply", "reapply"}, item : Items \union {NoItem},
                        s : Surfaces, todo : SUBSET Surfaces, held : 0..MaxCommits,
                        to : Items \union {NoItem}]]
  /\ disturbed \subseteq Surfaces
  /\ failed \in [Surfaces -> {"none", "update", "call"}]

\* Every variable keeps its type, and the states of the default shell's request fit
\* those of the mapping task: an answer that would still be used has a task that waits
\* for it (spawn_default_panel_shell).
TypeOK ==
  /\ Types
  /\ provider \in {"asked", "connecting"} => walk["mapper"].pc = "await"

Settled == commit = Idle /\ ~SomeWalk

\* Mapping a toplevel and switching its shell leave the installed shell, without a
\* further commit of the client, with the latest content of every surface of the tree,
\* and current_buffer_submit with the submission that the next switch will take: the
\* updates buffered before the mapping are applied, and every current submission
\* follows the toplevel (apply_buffered_surface_update_recursive,
\* reapply_buffer_recursive). Races come in between: a commit that overlaps a walk, two
\* walks that overlap, a surface linked late. What they left behind lasts only until the
\* surface's next commit that overlaps no walk (buffer_update), however many switches
\* follow that one. Nothing repairs two failures before that commit: a submission that
\* could not be made is with nobody, and a call that failed leaves the submission for
\* the next shell only.
SettledShowsLatest ==
  Settled /\ Upgrades /\ mapped # NoItem =>
    \A s \in Linked \ disturbed :
      latest[s] # 0 /\ failed[s] # "update" =>
        /\ submit[s] = latest[s]
        /\ failed[s] = "call" \/ shown[s] = latest[s]

\* The mapping task has not installed its item yet.
Unmapped == walk["mapper"].pc \notin WalkPcs \union {"ended"}

Promise == INSTANCE MappedItem
             WITH spent <- {i \in Items : kind[i] # "free" /\ ~Installing(i)},
                  fresh <- Unmapped

\* Whichever of the mapping task, the captures, the death tasks and a default shell
\* that answers late install their items in whatever order, the toplevel's item is
\* what MappedItem promises: it is mapped for the first time by the mapping task
\* alone, every other item only replaces one, none is mapped twice, and a toplevel
\* that lost its item does not get another (Toplevel::switch_panel_shell).
KeepsItemPromise == Promise!PromiseSpec

\* The mapping task, once spawned, maps the toplevel or gives up; a default shell
\* that never asks, or answers after the timeout, cannot hold it.
MapsOrFails ==
  walk["mapper"].pc = "spawn"
    ~> (mapped # NoItem \/ walk["mapper"].pc = "failed" \/ toplevel # "live")

\* A destroyed toplevel loses its item for good, also when the mapping task
\* installs one after xdg_toplevel.destroy took mapped: the tasks that hold the
\* toplevel all end, and its drop takes mapped again (Toplevel::destroy, drop).
DestroyedUnmaps ==
  toplevel = "destroyed" ~> [](toplevel = "dropped" /\ mapped = NoItem)

\* surface.rs:123 says of buffered_surface_update: "used to store unapplied surface
\* updates, so they can be applied later". Then once the toplevel is mapped and
\* nothing is under way, none is left unapplied.
BufferedIsApplied ==
  Settled /\ Upgrades /\ mapped # NoItem => \A s \in Linked : buffered[s] = 0
=============================================================================
