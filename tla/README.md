# Verification of the Stardust XR Wayland service

The service accepts Wayland clients and shows their windows as panels in the
Stardust XR scene. This directory holds TLA+ models of its concurrent core, the
TLC configurations that check them and TLAPS proofs of what can be proved for
all sizes. Paths below are relative to the repository; `core/` and `xdg/` stand
for `src/protocols/core/` and `src/protocols/xdg/`.

## The system

**Processes and tasks.** One service process serves many clients. Each client has
a *dispatch task* (`src/socket.rs`, `dispatch_loop`): a biased select that empties
the client's message queue before it reads the next request, and handles one of
either at a time. Besides it run, on several threads,

- a *frame task* per surface (`core/surface.rs`, `Surface::new`), woken by a
  broadcast channel of the XR compositor's frame events,
- a *mapping task* per toplevel (`xdg/surface.rs`, the commit handler of
  `get_toplevel`), a *death task* per item an acceptor took (`xdg/backend.rs`,
  `connect`) and an *input task* per `PanelItemUi` (`src/panel_item_ui.rs`),
- a *release task* per submitted buffer (`core/buffer.rs`) and one upload thread
  (`core/shm_buffer_backing.rs`),
- handlers of calls from panel shells (`xdg/backend.rs`), which queue messages
  for the client.

They share, each under a lock of its own: the state of a surface, its buffered
and current submission, its handlers; the mapped item of a toplevel; the mapping
of a shm pool; the two statics of the clipboard. The state a module of this
project gives to a lock is what that lock guards in the code, and the steps are
the lock's critical sections.

| Component | State | Operations | What must hold |
|---|---|---|---|
| wl_surface (`core/surface.rs`, `util.rs`) | pending, applied, current; frame callbacks | attach, frame, commit, destroy; frame events | every callback answered once, in order, after its commit |
| wl_subsurface (`core/subcompositor.rs`) | role, parent, filter, sync flag, position | get_subsurface, destroy, set_sync, set_desync, set_position | state in sync mode follows the parent; the shell knows child and place |
| Toplevel and panel shells (`xdg/*.rs`, `panel_item_ui.rs`, `default_panel_shell.rs`) | mapped item; buffered and current submission of each surface | commit, map, capture, death of a shell, destroy | the installed shell shows the latest content; mapping ends; a destroyed window leaves no item |
| Shm pools (`core/shm*.rs`) | mapping, buffers cut out of it | create, resize, destroy, update | no copy leaves the mapping |
| Buffer release (`core/buffer.rs`, `signal_on_drop.rs`) | timeline points, release tasks | submit, consume, drop, reapply | a buffer is released, and not while a shell reads it |
| Clipboard (`core/data_device.rs`) | CLIENTS, CLIPBOARD, message queues | get_data_device, set_selection, receive, release | devices agree with the clipboard; the owner is asked for the data |
| Socket and lock file (`src/socket.rs`, `display-socket-finder`) | lock file, socket file | start, end, crash, find | one service per name; a crash does not block the next start |
| Popups and positioner (`xdg/popup.rs`, `positioner.rs`, `surface.rs`) | the popup's geometry, the positioner's data | get_popup, reposition, ack_configure, commit, destroy; set_* | the popup is where its positioner asks for it, on the shell too |
| Panel shell's view (`xdg/backend.rs`, `toplevel.rs`) | children map of each backend, title, app_id, limits | add_child, remove_child, reposition_child, connect, set_* | a shell knows the children and attributes the window has, and finds a surface for each child it knows |
| Seat (`core/seat.rs`, `pointer.rs`, `keyboard.rs`) | focus, pressed keys, message queue | motion, button, scroll, key, reset | enter and leave alternate; no key is stuck; no focus outlives its shell; events fit the client's version |
| dmabuf, wl_drm, registry, touch, output, presentation, viewporter, decoration | small or none | requests | arithmetic and imports |

What is hard here is the concurrency: state read under one lock and used under
another, tasks that outlive what they work for, timeouts that race answers, and
files that other processes unlink. `PROJECT.json` lists these hazards at their
lines with the properties that cover them.

## Modules

Each component has a module with its state as variables and one action per
request, handler or critical section; `MC...` modules and `.cfg` files give it
values; `...Proofs` modules hold its theorems. Mutants of an action stand before
it and are used by no specification: each shows that a property fails when the
code has a plausible bug.

### SurfaceCommit

The surfaces of one client, the tree of subsurfaces and the path of a frame
callback: `Frame` appends it to `pending`, `Commit` moves it on (`Merge` and
`Drained` are `SurfaceState::apply`, `ApplyPending` and `UpdateCurrent` the
buffer of `util.rs`), `FrameEvent` takes the current ones on the surface's task,
`SendDone` is the dispatch loop. `UpdateTree` is
`update_current_state_recursive`: the surfaces of `SyncTree`, found by iterating
over the finite tree with a recursive function. Each surface's state is one lock,
so `Commit` and `FrameEvent` are one step each. The receiver of the broadcast
channel holds `FrameCapacity` events and then loses the oldest (`lagged`); the
first receive after that returns `Lagged`. `asked` is history.

The queued `Message::Frame` values are flattened to the sequence of their
callbacks, which is the order the loop answers them in. Of the roles only
Subsurface is told apart. A surface is dropped when the client's object and the
`wl_subsurface`, which holds an `Arc`, are gone. Clients stay within the protocol
where the code leaves that to them: no surface is its own ancestor, and a surface
has one `wl_subsurface` at a time.

### PanelMapping

One toplevel, its subsurfaces and the panel items. The dispatch task works on one
commit at a time (`commit`), the mapping task and each item's own task have their
program counter in `walk`. A step is a critical section or one call to a peer:
`CommitRead`, `CommitSend`, `CommitStore`, and without an item `CommitDrop` and
`CommitBuffer`, are the reads and writes of `buffer_update`; `Install` sets `mapped`;
`Take`, `Read`, `Send`, `Store`, `Drop` and `Keep` are the two walks,
`apply_buffered_surface_update_recursive` (mode `apply`) and
`reapply_buffer_recursive` (mode `reapply`). `BufferedLocked` is the guard that the
first walk holds from `take()` to the end of its `if let`.

Three things fail. `buffer.update()` may make no submission (`CommitMakesNone`),
`BufferSubmit::reapply` may give none back, so that the one the walk took is lost
(`TakeFails`), and a call to a shell may fail or find no shell, which is only logged
(`CommitSendFails`, `SendFails`). The constants `Unmade` and `Unsent` are the surfaces
to which this may happen. `failed` says which happened to a surface since its last
submission was made: to make one ("update"), or only the call to the installed shell
("call"), which a switch repairs.

`provider` is the default shell's request, which may become `late` after the
timeout. An item is of an acceptor, whose process may die (`AcceptorDies`), or a
`PanelItemUi`, whose input task may capture it into an acceptor. The toplevel is
kept by the `Arc`s of tasks (`Upgrades`), and `DropToplevel` runs when they end.

The content of a surface is the number of the commit that last changed it, and
`shown` what the shell of the mapped item was last sent. The tree is flat; the
children map of a backend, places and titles are PanelWindow's. `disturbed` and `failed`
are history. `disturbed` are the surfaces that a commit overlapping a walk, two walks
that overlap or a late link to the toplevel may have left behind; the surface's next
commit that overlaps no walk takes it out again.

### MappedItem

The abstract promise of a toplevel's item: mapped for the first time once
(`MapFirst`), replaced by items that were never mapped (`Replace`), wasted when one
comes too late (`Waste`), lost for good (`Unmap`). Both models of a toplevel implement
it. In PanelMapping `Promise` maps `spent` to the items that exist and that no task is
about to install, and `fresh` to the time before the mapping task has mapped; the
promise then says that the captures, the death tasks and a late default shell never
map a toplevel that has no item. In PanelWindow, where one item at a time is on its
way, `spent` are the items that exist but for that one.

### Positioner

The requests of an `xdg_positioner` as functions on its data, and
`infinite_geometry` with the widths of its integers (`Wrap`, `Modulus`). An anchor
or gravity is the set of the edges it names. `PlacedBy` is the reference: what a
place must be, by the meaning of anchor, gravity and offset, without the formula of
the code. `set_size` and `set_anchor_rect` clamp negative values, `set_anchor_rect`
forgets the offset, `set_offset` adds to it.

### PanelWindow

One toplevel as its panel shells know it: the children, each with its random id
(`surfaceId`, set once), its place and its entry in the children map of the
item's backend, and the attributes. A child is a surface with a `wl_subsurface` or
an `xdg_popup`; `CommitSubsurface` and `CommitPopup` run the commit handlers that
announce it (`adding` is the handler that has not run to its end yet), `Reposition`
and `SetPosition` move it, `RemoveChild` is `remove_child` with the call to the
shell. `Accepted` is `XdgBackend::connect`, which sends title and app_id, `UiCreated`
the creation of a `PanelItemUi`, and `Install` puts the item that is on its way
(`joining`) into `mapped`, as the mapping task and `switch_panel_shell` do. A
backend's map starts empty, and nothing fills it again after a switch.

`ParentGoes` is the drop of the surface a child was made a subsurface of, after which
`Surface::parent` is None: the add handler adds nothing and the child's destroy tells no
shell (`orphaned`). The toplevel's own surface lives longer than the toplevel, so this
parent is a surface in between, a child itself, and only its drop is modelled. It takes
the whole bound `MaxWork`, since no other change depends on it.

How commits interleave with these tasks is PanelMapping's subject: here requests
are single steps and one item at a time is on its way. An item that is installed after
the toplevel's end is gone at once; the short time until the task drops its Arc is
PanelMapping's (`DestroyedUnmaps`). A toplevel's item is also that of its children. Clients stay within xdg-shell where the code relies on it: a
popup is destroyed before its surface, and a popup's reposition names a positioner
that is complete.

### SeatInput

PanelWindow with the input of its shells: `PointerMotion`, `PointerEvent`, `KeyPress`
and `KeyRelease` are the handlers of `XdgBackend`, which find the surface of a child
in the backend's map (`SurfaceFromId`) and queue a message (`sink`); `HandleMessage` is
the dispatch loop with `Seat::handle_message` and the devices. A message holds an
`Arc` of its surface, the focus a weak reference: `Alive` says which surfaces are
left. `Refocus` is the leave and enter of a focus that moves. `PointerEvents` gives
the events of each message for a version of `wl_pointer`; `Has`, which versions have
an event, is the protocol's and not in the repository. A `PanelItemUi` that replaces
a dead shell queues `Reset` when it is created. `inside`, `keyInside` and `keys` are
what a client concludes from the events; `mover`, `held`, `strayed`, `late` and
`foreign` are history.

A call of a shell that has died may still be served (`Serves`). `late` is set when that
happens while another item is on its way, whose reset is in the queue already
(`Overdue`). Keys come from
living shells only, and a release aims where the shell aims by then.

### FrameCallbacks

The abstract promise of a frame callback: requested, made effective by a commit,
answered once and only then, and at last unless its surface is gone. SurfaceCommit
implements it: `Promise` maps `requested` to the callbacks that were created,
`committed` to those that have left `pending`, `answered` to those the loop has sent,
`waived` to those of surfaces that are gone. `KeepsPromise` is its specification and
`CommittedCallbackIsDone` its liveness property under that mapping.

### ShmPool

The mappings of pools and the shapes of buffers. `Fits` is the check of
`create_buffer`, done in the code in `i64`, which holds every product of `i32`
arguments, so that unbounded integers are faithful. `Update` copies the rows that
`slice::get` finds in the mapping (`drawn`) and sends the upload. If the staging buffer
cannot be written the code sends the upload all the same, and what the buffer held
before is uploaded (`upload` is "stale"). The upload's read of the staging buffer on the
GPU, which may come after a later copy, is not modelled. mmap, mremap and the creation
of textures may fail, and the error ends the connection; an empty mapping is one the
mapping library makes.

### BufferRelease

One buffer with its timeline. Acquire and release points are drawn from one
counter; a submission is named by its release point. `Submits` is `Buffer::update`,
`Places` the part of `buffer_update` that stores and sends a submission, `Apply`
and `Reapply` the walks at one surface. `SignalsDropped` is `SignalOnDrop::drop`:
a step that takes the last reference of a handler signals its point unless a shell
consumed it. `shell` follows what a shell does with a submission, `task` the release
task. The locks between these steps are the subject of PanelMapping; here each step
places one submission at once.

Outside the repository and taken from its use: the value of a timeline is the
highest point that was signalled, and a waiter on a point passes when it is
reached; a handler lives as long as its local part or a shell's proxy.

`commit` names the commit a submission goes back to. `patient` and `again` are history:
whether the client has committed the buffer only with every release it was owed, and
which submissions a switch has made of a commit that was released before. A patient
client may still be told of a release while a shell uses the buffer, in the three ways of
`Excused`: the release task could not wait and released at once; a switch has replaced
the submission, and the shell it went to before still uses it; a switch sends a buffer
again that had been released (`again`), and the client may commit it beside that. The
last is also the only way to a second release of one commit. No other reapplication is
excluded, whether a task waits or the submission is in use.

### Clipboard

Clients with message queues, the selection as a number. `SetSelection` and
`Broadcast` are the two halves of `set_selection`; `HandleMessage` is
`handle_message` with `offer_selection`, and ends the connection when the device
was released. `device` is the one the display keeps; a further one (`second`) is told
the clipboard when it is made, may set the selection, and is never broadcast to, so that
it is none of those the properties call devices. `offers` are all selections a client
has an offer of, older ones included: `Receive` takes any of them. A request may find messages in the queue, those that were sent
since the dispatch task looked at it; the model lets several requests pass them,
which only adds behaviours.

### SocketLock

Processes that start, find and end on one name; a step is a system call. Locks
belong to files, not to paths: `file` is what a process has open, `lockPath` what
the path leads to, so that an unlinked lock file can still be locked. A process
may crash anywhere. `unlinked` is history: a service has ended in order and has
removed the path.

## What the runs check

| Run | Bounds | Shows |
|---|---|---|
| SurfaceCommit | a surface and its subsurface, 2 callbacks, 1 waiting event | `CallbackConservation`, `FramePipeline`, `EffectiveInReach`, `OnlyCommittedFires`, `KeepsPromise` (the refinement of FrameCallbacks), and with fairness `CommittedCallbackIsDone` |
| SyncSubsurface (violated) | 2 surfaces, 1 buffer | content in sync mode changes at the surface's own commit |
| PanelMapping | root and child, 2 items, 1 content each; calls for the root may fail | `SettledShowsLatest`, `KeepsItemPromise` (the refinement of MappedItem) |
| PanelTasks | root, 2 items, 2 contents; submissions may not be made | `SettledShowsLatest`, and with fairness `MapsOrFails`, `DestroyedUnmaps` |
| BufferedUpdate (violated) | root, 2 items, 1 content | a commit that overlaps the mapping leaves its update buffered |
| ShmPool | 2 pools, 1 buffer, arguments around the limits of two rows | `RowsInPool`, `WholeFrames`, `MappingGrows` |
| BufferRelease | 2 surfaces, points 0 to 4 | `NoEarlyRelease`, `OneReleasePerCommit`, `AbortedIsReplaced`, `SomeoneSignals`, and with fairness `LetGoIsReleased` |
| Clipboard | 2 clients, 2 selections, 1 paste | `DevicesAgree`, `OwnersAreAsked`, `SelectionReachesDevices` |
| ClipboardRace (violated) | 2 clients, 2 selections | overlapping `set_selection` leaves devices and `CLIPBOARD` apart |
| SocketLock | 3 services, 1 finder | `OneHolder`, `ServesItsSocket`, `LockMeansStart` |
| SocketRace (violated) | 3 services | a lock on an unlinked file lets a service remove a serving socket |
| WindowInput | a toplevel with 1 child, 2 items, 2 ids, 2 places, 2 positioners, 1 attribute, 1 key, pointer versions 4 and 8, 2 changes or inputs | `ChildrenAgree`, `ChildrenLive`, `PlacesAgree`, `AttributesKnown`, `FocusAgrees`, `NoStuckKey`, `FocusBelongsToShell`, `EventsWithinVersion` |

Why the bounds are enough to be of interest: two surfaces give a parent and a
child with filters in every state; two callbacks give an order that can go wrong,
and pass through all lists at once; one waiting frame event makes the channel
overflow at the second. Two items give every switch: from the mapped item to its
successor, in both kinds, and the late item beside the mapped one; one content
with a child and two contents without, each with one kind of failure, keep either run
within minutes. Three
services are the fewest for the race on an unlinked lock file (one that ends, one
that holds the old file, one that has the new). Five points give two commits of a
buffer, or a commit and its reapplication followed by a commit. Two selections of two
clients overlap or follow one another, and the older one's offer is left for a paste. In
WindowInput
two ids let a surface be announced under a second id, two items give an acceptor and
the `PanelItemUi` that follows it, or the reverse, and two inputs give a press with
its release, a motion of each of two shells or two motions; versions 4 and 8 are on either
side of `frame` (5), and 8 of the discrete scroll axis. A pointer event other than a
motion changes no state of the seat, so that it takes the whole bound `MaxWork`;
requests of the client are followed until the toplevel is destroyed, what is left
then (items on their way, surfaces, messages) to the end. The positioners are built
with the requests, one with odd sizes and gravity to a corner, one centred with the
offset set twice; `Modulus` is 64, which none of them exceeds. Symmetry of items and
ids is sound: no constant distinguishes them, and the runs with symmetry check safety only. The deadlock check is
off where the program may come to rest: a window that is destroyed, services that
have all ended, bounded numbers of requests.

**Fairness.** Clients, shells and other processes owe nothing. Assumed are: the
runtime polls tasks that are ready (`WF` on each task's steps); calls to peers
return or fail, since a peer that dies ends its calls; the timer of the default
shell fires; the XR compositor keeps sending frames. `FrameEvent` is strongly
fair: an overflow disables it until the `Lagged` receive, after which the task
calls `recv` again without suspending, so that the channel cannot overflow
between the two for ever. The dispatch loop prefers messages (biased), so
`SendDone` and `HandleMessage` are weakly fair.

## What is proved

TLAPS proves, for all values of the constants:

- `SurfaceCommitProofs`: `Typing`, `Conservation`, `AfterCommit`, `InOrder`,
  `Refinement` and `AnswerInReach`. The
  invariant of the second is `CallbackConservation` itself with the types: each
  callback is in one list of one surface, in the queue, or answered. It is inductive
  because every operation moves whole lists; the lemmas say so of `Merge`,
  `UpdateCurrent` and `ApplyPending`, and of `UpdateTree` for any set of surfaces, so
  that nothing about the shape of the tree is needed. `AfterCommit`
  (`OnlyCommittedFires`) and `Refinement` (`KeepsPromise`) follow from it: a step either
  leaves the abstract variables alone or is one of `Ask`, `TakeEffect`, `Answer` and
  `SurfaceGoes`. The refinement also needs that a surface with an object is alive
  (`ObjectsLive`). `InOrder` (`FramePipeline`) says that no step reorders what a
  surface was asked: a callback on its way precedes a later one in `Pipeline`, the
  sequence of what is answered, queued, current, applied and pending; the lemmas
  show that appending and cutting a sequence keeps who precedes whom, and that each
  step of `state` moves callbacks along `Pipeline` in order. `AnswerInReach`
  (`EffectiveInReach`) is what is left of `CommittedCallbackIsDone` without fairness;
  its invariant (`InReach`) says that nothing stays in the applied state, whatever the
  tree, and that the frame task of a live surface runs.
- `ShmPoolProofs`: `Typing`, `InBounds` (`RowsInPool`), `Whole` (`WholeFrames`: what a
  commit sends to the upload is a whole frame, its own or after a failed write the one
  before, or nothing was drawn at all) and `Grows` (`MappingGrows`). The arithmetic is
  the lemma that `Fits` bounds every row; that it stays true needs only that mappings
  never shrink.
- `SocketLockProofs`: `Typing`, `Exclusion`, `Serving`, `Starting`. The
  strengthening says that, until a service ends in order, every open lock file is
  the one at the path (`OneFile`), so that the lock excludes across processes, and
  that what a service has learnt of the socket path under the lock stays true
  (`SocketKnown`).
- `PanelMappingProofs`: `Typing` and `LatestShown` (`SettledShowsLatest`), for any
  subsurfaces, items and contents and whichever surfaces fail. The strengthening has
  three parts. `Order`: the mapping task alone applies, the tasks of items alone reapply,
  tasks that hold the toplevel find it there (`TasksInOrder`), and a walk is at the root
  or below it (`WalkInOrder`). `BeforeMapping`: until the mapping task has installed its
  item there is no submission a walk could take. `InStep`: every surface outside
  `disturbed` is `Sound`: at most one task walks, and none while the surface is committed;
  before the mapping its latest content is its buffered update (`Stored`); after it, the
  content is with the shell and in `current_buffer_submit` (`OnShell`), or the one commit
  or walk at work brings it there (`CommitBrings`, `WalkBrings`), unless a failure took
  it. Steps of tasks that neither commit nor walk change none of this (`Frame`), and the
  steps of a walk are cases of `WalkGoes`.
  `ItemRefinement` (`KeepsItemPromise`): PanelMapping implements
  MappedItem. Its invariant (`ItemsInOrder`) says that an item a task is about to install
  was made for that task alone; a step then leaves the items alone, makes one, or
  installs. Two theorems are what the liveness properties owe to the steps and not to
  fairness: `DroppedForGood`, that a dropped toplevel has no item and never gets one
  (`DestroyedUnmaps` adds that it is dropped), and `WalksAdvance`, that no step of
  anybody turns a walk back, so that it ends when its task is run (`MapsOrFails`).
- `PanelWindowProofs`: `WindowInvariant` and what follows from it, `WindowTyping`,
  `ChildrenAgreement`, `NoGhostChild`, `AttributesKnowledge`, `PlacesAgreement`,
  and `WindowItemRefinement`, that PanelWindow implements MappedItem too. The
  strengthening (`Order`) says that an item is used once and knows nothing before it is
  mapped, that an id is drawn once and belongs to one surface, and that role objects
  agree with their roles. With it each child can be treated alone (`Kids`), an orphaned
  one included, whose entry at the shell nobody removes. Attributes
  need the item on its way as well as the mapped one (`AttributesFollow`). That popups
  are in their place is `Placement`: for every positioner whose sums do not leave the
  integer type (`NoOverflow`), `infinite_geometry` is the place `PlacedBy` describes,
  which is shown for one axis (`AxisPlaced`) from the lemmas on halves and on `Wrap`.
- `SeatInputProofs`: `SeatTakesPart`, that SeatInput implements PanelWindow, so that
  the theorems of the window hold of it (`ChildrenOfSeat`, `LiveChildrenOfSeat`,
  `AttributesOfSeat`, `PlacesOfSeat`, the last if no positioner overflows); `Typing`;
  `FocusAgreement`, whose invariant is the property itself; `FocusOfShell`
  (`FocusBelongsToShell`): each queued motion is of the mapped item or the one on its
  way, or has a `Reset` after it (`MotionsReset`), and all have one while a
  `PanelItemUi` is on its way (`UiResets`); `NoKeyStuck`: what the keyboard keeps as
  pressed on a surface is held there or has its release in the queue, which names
  positions in the queue because a press may follow its own release; `VersionsKept`.
- `BufferReleaseProofs`: `Typing`, `ReleasedUnused` (`NoEarlyRelease`), `ReleasedOnce`
  (`OneReleasePerCommit`), `Replacement` (`AbortedIsReplaced`), `SignalledByWhom`
  (`SomeoneSignals`). A point that was not
  drawn is unused, a buffered submission is on one surface and no shell has had it
  (`Order`). Whatever the client does, the service keeps only the latest submission of a
  commit, the earlier ones are aborted or were followed by one of `again`, and an aborted
  one has a later one that stands for it (`Chains`). Of a patient client, a submission
  that may be used and is not `Excused` is the latest of all, is not released and has been
  passed by no signal, and earlier ones have come back (`Patience`). `SignalledByWhom` is
  the part of `LetGoIsReleased` that needs no fairness, for any client: each step that
  ends a reference or a shell's use of a submission hands the point to somebody or
  signals it (`Signals`).
- `ClipboardProofs`: `Typing`, `MakerIsAsked` (`OwnersAreAsked`), `Agreement`
  (`DevicesAgree`). As long as `set_selection` requests do not overlap, only what
  `CLIPBOARD` holds is on its way to the queues, and a queue that holds a selection
  ends, of its selections, with that one (`InStep`). `SelectionsAdvance` holds with
  overlaps too: an announced selection goes to every open queue and keeps its turn
  there until the device is offered it, so that `SelectionReachesDevices` owes to
  fairness only that the steps are taken.

The assumptions are the named `ASSUME`s of the modules, which say that the null
values are not members of the sets, that bounds are positive and that the data given
to TLC is of its type. The strengthenings were checked with TLC on the instances of
the runs before they were proved.

Only model-checked: liveness under fairness (`CommittedCallbackIsDone`,
`LetGoIsReleased`, `MapsOrFails`, `DestroyedUnmaps`, `SelectionReachesDevices`), which
TLAPS does not prove; the theorems above state of each the part that needs no
fairness. Every invariant and action property of the passing runs is proved for all
values of the constants. Not proved either is that `SyncTree` and the ancestors of a
surface, which are found by iterating over the tree, are the least sets closed under
the step: that is an induction over data. No theorem depends on it, since what they
say of `UpdateTree` holds for any set of surfaces.

## Findings

The four violated runs show what the code does against what its comments say:
subsurface state in sync mode is not deferred (`core/surface.rs:239`), a buffered
update may never be applied (`core/surface.rs:123`), clipboard devices may differ
from `CLIPBOARD` (`core/data_device.rs:45`), and holding the lock does not mean
that the socket is free (`src/socket.rs:102`). The properties that hold are stated
beside them under the condition that excludes the race: `disturbed`, `serial`,
`unlinked`.

The properties of WindowInput hold with exceptions, each named by a history variable
and each necessary: without it TLC finds the case.

| Exception | What the code does |
|---|---|
| `redrawn`, `SecondIds` | a second `wl_subsurface` of a surface announces a new id, while moves and the removal go on under the first, so that the shell keeps the new one (`core/subcompositor.rs:105`). `ChildrenAgree` and `PlacesAgree` except these surfaces, `ChildrenLive` the ids |
| `orphaned` | a child whose parent surface went first is not removed from the shell (`core/subcompositor.rs:273`) |
| `shifted` | a popup repositioned before the shell had it is announced where it was made (`xdg/surface.rs:244`) |
| `missed` | title or app_id set between the accept and the mapping do not reach the shell that accepted (`xdg/backend.rs:141`) |
| `strayed` | a key whose release goes to another surface, or is lost with its shell, stays pressed (`core/keyboard.rs:179`) |
| `late` | a dead shell's motion, handled after the reset of its successor, moves the focus back (`xdg/backend.rs:75`) |
| `frame` in `foreign` | `frame` is sent to pointers below version 5 by a button and by the reset (`core/pointer.rs:140`, `311`) |

The model states as the code has it, without a property against it: after a switch
the new shell is not told of the children there are (`xdg/backend.rs:198`), sizes and
fullscreen are not sent to a new shell, pixel scrolling is queued as discrete
scrolling (`xdg/backend.rs:337`), a client's second `wl_pointer` or `wl_keyboard` is
never served (`core/seat.rs:208`), nor is a second `wl_data_device` told of a later
selection (`core/data_device.rs:89`), and a submission that cannot be made or sent again
is lost with a log entry at most (`core/surface.rs:421`, `466`).

## Not modelled

- Formats, imports, rendering and the upload of textures are calls to Vulkan; so are
  the batches of the upload thread and what happens when one fails.
- `configure` and resize messages to a toplevel, closing, activation and
  `set_parent`: they are forwarded and keep no state the properties read.
- Touch keeps no state, cursor surfaces and relative motion have no effect on focus.
- `place_above` and `place_below` set an order that no shell is told; the
  constraint adjustment of a positioner is stored and never read; a popup's `grab` does
  nothing.
- Geometry of panels, grabbing and queries of `PanelItemUi`.
- Globals and the registry are a table; output, presentation (whose feedback this code
  never sends), viewporter and decoration keep next to nothing.
- Drag and drop, which the code does not implement; the x11 branch of the finder,
  whose peer is not in the repository (it takes no lock, `main.rs:85`).

## Plan

1. The life of a `zwp_linux_buffer_params`: planes added once, used once, and the
   late answer of an import.
2. The composition of PanelMapping and PanelWindow: the walks of a switch beside the
   requests that add and remove children.
