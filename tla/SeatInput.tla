------------------------------ MODULE SeatInput ------------------------------
(***************************************************************************)
(* Input on its way from the panel shells to one client: the handlers of   *)
(* XdgBackend queue seat messages on the client's message sink, the        *)
(* client's dispatch loop has the seat's devices send the wl_pointer and   *)
(* wl_keyboard events (xdg/backend.rs, core/seat.rs, core/pointer.rs,      *)
(* core/keyboard.rs). PanelWindow gives the window the input is aimed at.  *)
(*                                                                         *)
(* The calls of a shell come on a task of their own: surfaces, children    *)
(* and shells may go between the lookup of a target and the handling of    *)
(* the message, which holds an Arc of the surface it names. A call that a  *)
(* shell made before it died may still be handled after.                   *)
(***************************************************************************)
EXTENDS PanelWindow, Sequences, SequencesExt

CONSTANTS Keys, Versions, Toplevel

ASSUME VersionAssumption == Versions \subseteq Nat
ASSUME TargetAssumption == Toplevel \notin Ids

VARIABLES
  sink,       \* seat messages on their way to the dispatch loop
  bound,      \* the seat's devices: each OnceLock keeps the first object
  focused,    \* Pointer::focused_surface
  keyFocused, \* Keyboard::focused_surface
  pressed,    \* Keyboard::pressed_keys
  \* the client, as the events tell it
  inside,     \* surfaces its pointer entered and has not left
  keyInside,  \* surfaces its keyboard focus entered and has not left
  keys,       \* keys it takes to be down
  \* history
  mover,      \* the item of the motion handled last
  held,       \* the keys the user holds, by the surface their press was queued for
  strayed,    \* keys whose release did not come to that surface
  late,       \* a dead shell's call was handled after its successor's Reset
  foreign     \* events sent to a pointer of a version that has no such event

deviceVars == <<bound, focused, keyFocused, pressed>>
clientVars == <<inside, keyInside, keys>>
seatVars == <<sink, deviceVars, clientVars, mover, held, strayed, late, foreign>>
vars == <<windowVars, seatVars>>

Devices == {"pointer", "keyboard"}

\* The surface's Arc is held by an object or by a message.
Alive(s) == s \in Surfaces /\ (Held(s) \/ \E m \in ToSet(sink) : m.surface = s)

Reset == [type |-> "reset", surface |-> NoSurface]
Queue(m) == sink' = Append(sink, m)

(* The panel shell's calls *)

\* The item's node serves calls as long as the toplevel or a task holds it.
Serves(i) == kind[i] = "acceptor" /\ i \in {mapped, joining}

\* A shell aims at the toplevel and at the children it was told of.
Targets(i) == {Toplevel} \union {id \in Ids : shown[i][id] # Unknown}

\* XdgBackend::surface_from_id, and the upgrade of the toplevel before the send.
SurfaceFromId(i, t) ==
  IF ~open THEN NoSurface
  ELSE IF t = Toplevel THEN Root
  ELSE IF Alive(children[i][t]) THEN children[i][t] ELSE NoSurface

Finds(i, t) == SurfaceFromId(i, t) # NoSurface

\* i is dead, and who follows it has queued the reset.
Overdue(i) == ~alive[i] /\ joining \notin {NoItem, i}

PointerMotion(i, t) ==
  /\ Serves(i) /\ t \in Targets(i) /\ Finds(i, t)
  /\ Queue([type |-> "motion", surface |-> SurfaceFromId(i, t), from |-> i])
  /\ late' = (late \/ Overdue(i))
  /\ Works(1)
  /\ UNCHANGED <<stateVars, deviceVars, clientVars, mover, held, strayed, foreign>>

\* pointer_scroll_pixels queues the message of pointer_scroll_discrete. As no other
\* step depends on these, they take all of the bound.
PointerEvent(i, t, type) ==
  /\ Serves(i) /\ t \in Targets(i) /\ Finds(i, t)
  /\ Queue([type |-> type, surface |-> SurfaceFromId(i, t)])
  /\ Works(MaxWork)
  /\ UNCHANGED <<stateVars, deviceVars, clientVars, mover, held, strayed, late, foreign>>

KeyPress(i, t, k) ==
  /\ alive[i] /\ Serves(i) /\ t \in Targets(i) /\ Finds(i, t) /\ held[k] = NoSurface
  /\ Queue([type |-> "press", surface |-> SurfaceFromId(i, t), key |-> k])
  /\ held' = [held EXCEPT ![k] = SurfaceFromId(i, t)]
  /\ Works(1)
  /\ UNCHANGED <<stateVars, deviceVars, clientVars, mover, strayed, late, foreign>>

\* The shell may by now aim elsewhere, or at a surface that is not found.
KeyRelease(i, t, k) ==
  /\ alive[i] /\ Serves(i) /\ t \in Targets(i) /\ held[k] # NoSurface
  /\ IF Finds(i, t)
     THEN Queue([type |-> "release", surface |-> SurfaceFromId(i, t), key |-> k])
     ELSE UNCHANGED sink
  /\ strayed' = IF SurfaceFromId(i, t) = held[k] THEN strayed ELSE strayed \union {k}
  /\ held' = [held EXCEPT ![k] = NoSurface]
  /\ UNCHANGED <<windowVars, deviceVars, clientVars, mover, late, foreign>>
-----------------------------------------------------------------------------
(* The pointer *)

\* The versions of wl_pointer that have the event (external: the protocol).
Has(version, event) ==
  CASE event \in {"axis_source", "axis_stop", "frame"} -> version >= 5
    [] event = "axis_discrete" -> version \in 5..7
    [] event = "axis_value120" -> version >= 8
    [] event = "axis_relative_direction" -> version >= 9
    [] OTHER -> TRUE

Since(n, version, events) == IF version >= n THEN events ELSE {}

MotionEvents(version) == {"leave", "enter", "motion"} \union Since(5, version, {"frame"})

ButtonEvents(version) == {"button", "frame"}

\* Mutant: the discrete axis events go on beside the high-resolution ones.
BothScales(version) ==
  {"axis"} \union Since(5, version, {"axis_source", "axis_discrete", "frame"})
           \union Since(8, version, {"axis_value120"})
           \union Since(9, version, {"axis_relative_direction"})

ScrollDiscreteEvents(version) ==
  {"axis"} \union Since(5, version, {"axis_source", "frame"})
           \union (IF version < 8 THEN Since(5, version, {"axis_discrete"})
                   ELSE {"axis_value120"})
           \union Since(9, version, {"axis_relative_direction"})

ScrollStopEvents(version) == Since(5, version, {"axis_stop", "frame"})

PointerEvents(type, version) ==
  CASE type = "button" -> ButtonEvents(version)
    [] type = "scroll" -> ScrollDiscreteEvents(version)
    [] type = "stop" -> ScrollStopEvents(version)

SendPointer(version, events) ==
  foreign' = foreign \union {e \in events : ~Has(version, e)}

\* What the client takes to be entered after leave, if the old surface is alive,
\* and enter, if the client still has the new one.
Left(view, old) == IF Alive(old) THEN view \ {old} ELSE view
Entered(view, new) == IF object[new] THEN view \union {new} ELSE view

\* Mutant: the pointer enters the new surface before it left the old one.
EnterOnly(view, old, new) == IF old = new THEN view ELSE Entered(view, new)

Refocus(view, old, new) ==
  IF old = new THEN view ELSE Entered(Left(view, old), new)

HandleMotion(m, version) ==
  /\ focused' = m.surface
  /\ inside' = Refocus(inside, focused, m.surface)
  /\ mover' = m.from
  /\ SendPointer(version, MotionEvents(version))
  /\ UNCHANGED <<bound, keyFocused, pressed, keyInside, keys, held, strayed, late>>

\* Button and scroll events carry no surface: they go where the pointer is.
HandlePointerEvent(m, version) ==
  /\ SendPointer(version, PointerEvents(m.type, version))
  /\ UNCHANGED <<deviceVars, clientVars, mover, held, strayed, late>>

(* The keyboard *)

Toggle(set, down, k) == IF down THEN set \union {k} ELSE set \ {k}

\* Mutant: a key that was pressed once stays in pressed_keys.
NeverReleased(s, down, k) == IF down THEN pressed[s] \union {k} ELSE pressed[s]

PressedAfter(s, down, k) == Toggle(pressed[s], down, k)

\* A message whose keymap is not found is dropped. The set of pressed keys is
\* updated first, so that enter names the key, and the key event follows.
HandleKey(m, keymapFound) ==
  LET down == m.type = "press"
      now == PressedAfter(m.surface, down, m.key)
      sees == m.surface \in keyInside'
      \* of the surface the focus is on
      before == IF keyFocused = m.surface THEN keys ELSE now
  IN  IF keymapFound
      THEN /\ pressed' = [pressed EXCEPT ![m.surface] = now]
           /\ keyFocused' = m.surface
           /\ keyInside' = Refocus(keyInside, keyFocused, m.surface)
           /\ keys' = IF sees THEN Toggle(before, down, m.key) ELSE {}
           /\ UNCHANGED <<strayed, bound, focused, inside, mover, held, late, foreign>>
      ELSE /\ strayed' = IF down THEN strayed ELSE strayed \union {m.key}
           /\ UNCHANGED <<deviceVars, clientVars, mover, held, late, foreign>>

\* Of the keyboard only the modifiers are reset.
HandleReset(version) ==
  /\ focused' = NoSurface
  /\ inside' = Left(inside, focused)
  /\ SendPointer(version, IF Alive(focused) THEN {"leave", "frame"} ELSE {})
  /\ UNCHANGED <<bound, keyFocused, pressed, keyInside, keys, mover, held, strayed, late>>

\* Seat::handle_message, called by the dispatch loop; a device that the client has
\* not bound yet drops its messages.
HandleMessage(version, keymapFound) ==
  /\ sink # <<>>
  /\ sink' = Tail(sink)
  /\ LET m == Head(sink)
         device == IF m.type \in {"press", "release"} THEN "keyboard" ELSE "pointer"
     IN  IF device \notin bound
         THEN UNCHANGED <<deviceVars, clientVars, mover, held, strayed, late, foreign>>
         ELSE CASE m.type = "motion" -> HandleMotion(m, version)
                [] m.type \in {"press", "release"} -> HandleKey(m, keymapFound)
                [] m.type = "reset" -> HandleReset(version)
                [] OTHER -> HandlePointerEvent(m, version)
  /\ UNCHANGED windowVars

\* get_pointer and get_keyboard: a second object is never served.
GetDevice(d) ==
  /\ d \notin bound /\ open
  /\ bound' = bound \union {d}
  /\ UNCHANGED <<windowVars, sink, focused, keyFocused, pressed, clientVars, mover, held,
                 strayed, late, foreign>>
-----------------------------------------------------------------------------
(* Steps of the window the seat takes part in *)

\* The client forgets what it was told of a surface it destroys.
DestroysSurface(s) ==
  /\ DestroySurface(s)
  /\ inside' = inside \ {s}
  /\ keyInside' = keyInside \ {s}
  /\ keys' = IF s \in keyInside THEN {} ELSE keys
  /\ UNCHANGED <<sink, deviceVars, mover, held, strayed, late, foreign>>

\* Mutant: XdgBackend::new does not reset the input.
CreatesUiOnly(i) ==
  /\ UiCreated(i)
  /\ UNCHANGED seatVars

CreatesUi(i) ==
  /\ UiCreated(i)
  /\ Queue(Reset)
  /\ UNCHANGED <<deviceVars, clientVars, mover, held, strayed, late, foreign>>

\* With the shell goes what it knew of the keys the user holds.
ShellDies(i) ==
  /\ AcceptorDies(i)
  /\ strayed' = strayed \union {k \in Keys : held[k] # NoSurface}
  /\ held' = [k \in Keys |-> NoSurface]
  /\ UNCHANGED <<sink, deviceVars, clientVars, mover, late, foreign>>

Init ==
  /\ WindowInit
  /\ sink = <<>> /\ bound = {}
  /\ focused = NoSurface /\ keyFocused = NoSurface
  /\ pressed = [s \in Surfaces |-> {}]
  /\ inside = {} /\ keyInside = {} /\ keys = {}
  /\ mover = NoItem
  /\ held = [k \in Keys |-> NoSurface]
  /\ strayed = {} /\ late = FALSE /\ foreign = {}

Call(i) ==
  \E t \in Targets(i) :
    \/ PointerMotion(i, t)
    \/ \E type \in {"button", "scroll", "stop"} : PointerEvent(i, t, type)
    \/ \E k \in Keys : KeyPress(i, t, k) \/ KeyRelease(i, t, k)

\* Bound: the client's requests are followed until the toplevel's end. What is left
\* after it, an item on its way, surfaces and messages, goes on.
Next ==
  \/ open /\ WindowStep /\ UNCHANGED seatVars
  \/ Install /\ UNCHANGED seatVars
  \/ \E s \in Surfaces : DestroysSurface(s)
  \/ \E i \in Items : CreatesUi(i) \/ ShellDies(i) \/ Call(i)
  \/ \E d \in Devices : GetDevice(d)
  \/ \E version \in Versions, found \in BOOLEAN : HandleMessage(version, found)

Spec == Init /\ [][Next]_vars
-----------------------------------------------------------------------------
(* Properties *)

Messages ==
  [type : {"motion"}, surface : Surfaces, from : Items]
  \union [type : {"button", "scroll", "stop"}, surface : Surfaces]
  \union [type : {"press", "release"}, surface : Surfaces, key : Keys]
  \union {Reset}

TypeOK ==
  /\ WindowTypeOK
  /\ sink \in Seq(Messages)
  /\ bound \subseteq Devices
  /\ focused \in Surfaces \union {NoSurface}
  /\ keyFocused \in Surfaces \union {NoSurface}
  /\ pressed \in [Surfaces -> SUBSET Keys]
  /\ inside \subseteq Surfaces /\ keyInside \subseteq Surfaces
  /\ keys \subseteq Keys
  /\ mover \in Items \union {NoItem}
  /\ held \in [Keys -> Surfaces \union {NoSurface}]
  /\ strayed \subseteq Keys
  /\ late \in BOOLEAN
  /\ foreign \subseteq {"frame", "axis_source", "axis_stop", "axis_discrete",
                       "axis_value120", "axis_relative_direction"}

Existing(s) == {x \in {s} \ {NoSurface} : object[x]}

\* The client takes the pointer and the keyboard focus to be exactly where the
\* devices hold them, on one surface at most: an enter without a leave before it,
\* or a leave without a new enter, would leave a client with two focused surfaces
\* or deaf on the one the user points at, whatever surfaces go in between (the
\* focus is a weak reference: no leave is sent for a surface that is gone).
FocusAgrees == inside = Existing(focused) /\ keyInside = Existing(keyFocused)

\* The keys the client takes to be down are those the keyboard keeps for the
\* surface with the focus.
KeysAgree == keyInside # {} => keys = pressed[keyFocused]

\* The client takes no key to be down that the user released: what is down is
\* held, or its release is queued. Excepted are keys whose release the shell aimed
\* at another surface or at none, came with an unknown keymap, or was lost with
\* the shell: nothing clears those, Reset included (keyboard.rs:179).
NoStuckKey ==
  /\ KeysAgree
  /\ \A k \in keys \ strayed :
       held[k] # NoSurface \/ \E m \in ToSet(sink) : m.type = "release" /\ m.key = k

\* A pointer that a shell left on a surface does not outlive the shell: once
\* another item is mapped in its place the client was sent leave, or the reset
\* that sends it is queued. Excepted is a call of the dead shell that is handled
\* after its successor was created.
FocusBelongsToShell ==
  open /\ inside # {} /\ ~late /\ mover \notin {mapped, joining} => Reset \in ToSet(sink)

\* A pointer is sent the events its version has: one it does not know is an error
\* that ends the client. frame alone is sent to versions below 5, by a button and
\* by Reset, where the guard of the other handlers is missing (pointer.rs:140, 311).
EventsWithinVersion == foreign \subseteq {"frame"}
=============================================================================
