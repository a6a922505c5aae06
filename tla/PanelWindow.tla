----------------------------- MODULE PanelWindow -----------------------------
(***************************************************************************)
(* What the panel shells know of one window: its attributes and its        *)
(* children, which are subsurfaces and popups (xdg/backend.rs,             *)
(* xdg/toplevel.rs, xdg/surface.rs, xdg/popup.rs, core/subcompositor.rs).  *)
(*                                                                         *)
(* A child is known to a shell by a random id and to the backend of that   *)
(* shell by an entry of its children map, from the id to the surface.      *)
(* Requests run on the client's dispatch task, the tasks that connect and  *)
(* install items on others.  How these interleave with commits, and the    *)
(* content of surfaces, is PanelMapping's subject: here one task at a time *)
(* brings a new item.                                                      *)
(***************************************************************************)
EXTENDS Positioner, FiniteSets

CONSTANTS Root,        \* the toplevel's wl_surface
          Children,    \* wl_surfaces that may become subsurfaces or popups
          Items,       \* panel items
          Ids,         \* values that random() may return, each drawn once
          Places,      \* positions of subsurfaces, one of them Origin
          Origin,
          Data,        \* positioner data the client may use
          Attributes,  \* of the toplevel: title, app_id, min_size, ...
          Resent,      \* those that connect sends to a shell that accepts
          NoItem, NoId, NoSurface, Unknown,
          MaxWork      \* bound: changes of attributes and places, and inputs

ASSUME SurfaceAssumption == Root \notin Children /\ NoSurface \notin {Root} \union Children
ASSUME NullAssumption == NoItem \notin Items /\ NoId \notin Ids
ASSUME PlaceAssumption == Origin \in Places /\ Data \subseteq PositionerData
ASSUME UnknownAssumption ==
  Unknown \notin Places \union {InfiniteGeometry(d) : d \in Data}
ASSUME AttributeAssumption == Resent \subseteq Attributes
ASSUME WorkAssumption == MaxWork \in Nat

Surfaces == {Root} \union Children
Geometries == Places \union {InfiniteGeometry(d) : d \in Data}

VARIABLES
  \* the client's objects
  open,        \* the xdg_toplevel exists
  object,      \* the wl_surface is in the client's object map
  valid,       \* its current state has a valid buffer
  role,        \* "none", "Subsurface" or "XdgPopup"
  surfaceId,   \* Surface::surface_id, set once
  orphaned,    \* subsurfaces whose parent surface is gone (Surface::parent is None)
  subsurface,  \* the wl_subsurface of a surface
  popup,       \* its xdg_popup
  acked,       \* its xdg_surface has acknowledged a configure
  attribute,   \* the toplevel's attributes, by the number of their change
  \* panel items
  kind,        \* "free", "acceptor" or "ui"
  alive,       \* the process behind an acceptor's shell is alive
  mapped,      \* the item of Toplevel::mapped
  joining,     \* an item that was connected or created, and is to be mapped
  children,    \* XdgBackend::children
  \* shells
  shown,       \* the children a shell was told of, with their geometry
  knows,       \* the attributes it was told, 0 if it was not
  \* history
  drawn,       \* ids that were drawn
  redrawn,     \* surfaces whose subsurface was made a second time
  shifted,     \* popups that were repositioned before the shell had them
  missed,      \* attributes changed between the accept and the mapping of an item
  work         \* changes and inputs so far

objectVars == <<open, object, valid, role, surfaceId, orphaned, acked>>
kidVars == <<subsurface, popup>>
itemVars == <<kind, alive, mapped, joining>>
attributeVars == <<attribute, knows, missed>>
shellVars == <<children, shown>>
historyVars == <<drawn, redrawn, shifted>>
stateVars == <<objectVars, kidVars, itemVars, attributeVars, shellVars, historyVars>>
windowVars == <<stateVars, work>>

NoSubsurface == [live |-> FALSE, id |-> NoId, pending |-> Origin, place |-> Origin,
                 adding |-> FALSE]
NoPopup == [live |-> FALSE, data |-> DefaultData, info |-> Unknown, adding |-> FALSE]

\* Some Arc of the surface is left beside those of messages: an object's.
Held(s) == object[s] \/ (s \in Children /\ subsurface[s].live)

\* Toplevel and child surfaces share the toplevel's item.
PanelItem == IF open THEN mapped ELSE NoItem

Works(n) == work' = work + n /\ work + n <= MaxWork
-----------------------------------------------------------------------------
(* XdgBackend: the children map and what it tells its shell. These work on *)
(* the map and the shell's view of one item.                               *)

\* Mutant: add_child tells the shell without noting the surface.
NotAdded(map, id, c) == map

Added(map, id, c) == [map EXCEPT ![id] = c]
Removed(map, id) == [map EXCEPT ![id] = NoSurface]

\* Mutant: the child is created with the size of a surface without a buffer.
CreatedEmpty(view, id, geometry) ==
  [view EXCEPT ![id] = [geometry EXCEPT !.size = [x |-> 0, y |-> 0]]]

Created(view, id, geometry) == [view EXCEPT ![id] = geometry]

\* A shell that does not know the child ignores its move.
Moved(view, id, geometry) ==
  [view EXCEPT ![id] = IF @ = Unknown THEN Unknown ELSE geometry]
Destroyed(view, id) == [view EXCEPT ![id] = Unknown]

\* Mutant: the map forgets the child, the shell is not told.
RemoveFromMap(c) ==
  /\ children' = IF PanelItem = NoItem THEN children
                 ELSE [children EXCEPT ![PanelItem] = Removed(@, surfaceId[c])]
  /\ UNCHANGED shown

RemoveChild(c) ==
  IF PanelItem = NoItem THEN UNCHANGED shellVars
  ELSE /\ children' = [children EXCEPT ![PanelItem] = Removed(@, surfaceId[c])]
       /\ shown' = [shown EXCEPT ![PanelItem] = Destroyed(@, surfaceId[c])]
-----------------------------------------------------------------------------
WindowInit ==
  /\ open = TRUE
  /\ object = [s \in Surfaces |-> TRUE]
  /\ valid = [c \in Children |-> FALSE]
  /\ role = [c \in Children |-> "none"]
  /\ surfaceId = [c \in Children |-> NoId] /\ orphaned = {}
  /\ subsurface = [c \in Children |-> NoSubsurface]
  /\ popup = [c \in Children |-> NoPopup]
  /\ acked = [c \in Children |-> FALSE]
  /\ attribute = [a \in Attributes |-> 0]
  /\ kind = [i \in Items |-> "free"]
  /\ alive = [i \in Items |-> FALSE]
  /\ mapped = NoItem /\ joining = NoItem
  /\ children = [i \in Items |-> [id \in Ids |-> NoSurface]]
  /\ shown = [i \in Items |-> [id \in Ids |-> Unknown]]
  /\ knows = [i \in Items |-> [a \in Attributes |-> 0]]
  /\ drawn = {} /\ redrawn = {} /\ shifted = {} /\ missed = {}
  /\ work = 0

(* Subsurfaces *)

\* Subsurface::new draws an id each time; the surface keeps the first one.
GetSubsurface(c, id) ==
  /\ object[c] /\ role[c] \in {"none", "Subsurface"} /\ ~subsurface[c].live
  /\ id \notin drawn
  /\ role' = [role EXCEPT ![c] = "Subsurface"]
  /\ surfaceId' = [surfaceId EXCEPT ![c] = IF @ = NoId THEN id ELSE @]
  /\ subsurface' = [subsurface EXCEPT ![c] = [NoSubsurface EXCEPT !.live = TRUE, !.id = id,
                                                                  !.adding = TRUE]]
  /\ drawn' = drawn \union {id}
  /\ redrawn' = IF surfaceId[c] = NoId THEN redrawn ELSE redrawn \union {c}
  /\ UNCHANGED <<open, object, valid, orphaned, acked, popup, itemVars, attributeVars,
                 shellVars, shifted, work>>

SetPosition(c, place) ==
  /\ subsurface[c].live /\ subsurface[c].pending # place
  /\ subsurface' = [subsurface EXCEPT ![c].pending = place]
  /\ Works(1)
  /\ UNCHANGED <<objectVars, popup, itemVars, attributeVars, shellVars, historyVars>>

\* The surface c was made a subsurface of is dropped. The toplevel's own surface goes
\* after the toplevel: this parent is a surface in between, which is a child itself.
\* Bound: as no other change or input depends on it, it takes all of MaxWork.
ParentGoes(c) ==
  /\ role[c] = "Subsurface" /\ c \notin orphaned
  /\ orphaned' = orphaned \union {c}
  /\ Works(MaxWork)
  /\ UNCHANGED <<open, object, valid, role, surfaceId, acked, kidVars, itemVars,
                 attributeVars, shellVars, historyVars>>

\* The updated-state handlers of a subsurface: add the child once there is an
\* item and a buffer, unless the parent is gone, then move it to its place.
SubsurfaceUpdates(c, place, hasBuffer) ==
  LET sub == subsurface[c]
      item == PanelItem
      reaches == sub.live /\ item # NoItem /\ hasBuffer
      adds == reaches /\ sub.adding /\ c \notin orphaned
      view == IF adds THEN Created(shown[item], sub.id, place) ELSE shown[item]
  IN  /\ subsurface' = [subsurface EXCEPT ![c].place = IF sub.live THEN place ELSE @,
                                          ![c].adding = @ /\ ~adds]
      /\ children' = IF adds THEN [children EXCEPT ![item] = Added(@, surfaceId[c], c)]
                     ELSE children
      /\ shown' = IF reaches
                  THEN [shown EXCEPT ![item] = Moved(view, surfaceId[c], place)]
                  ELSE shown

\* The commit handler applies the pending position before the other handlers run.
CommitSubsurface(c, hasBuffer) ==
  /\ object[c] /\ role[c] = "Subsurface"
  /\ valid' = [valid EXCEPT ![c] = hasBuffer]
  /\ SubsurfaceUpdates(c, subsurface[c].pending, hasBuffer)
  /\ UNCHANGED <<open, object, role, surfaceId, orphaned, acked, popup, itemVars,
                 attributeVars, historyVars, work>>

\* set_desync of a subsurface in sync mode runs the updated-state handlers.
SetDesync(c) ==
  /\ subsurface[c].live
  /\ SubsurfaceUpdates(c, subsurface[c].place, valid[c])
  /\ UNCHANGED <<objectVars, popup, itemVars, attributeVars, historyVars, work>>

\* Without the parent surface nobody is told.
DestroySubsurface(c) ==
  /\ subsurface[c].live
  /\ subsurface' = [subsurface EXCEPT ![c] = NoSubsurface]
  /\ IF c \in orphaned THEN UNCHANGED shellVars ELSE RemoveChild(c)
  /\ UNCHANGED <<objectVars, popup, itemVars, attributeVars, historyVars, work>>

(* Popups *)

\* The client is sent the geometry that follows from data; create_child gets info.
GetPopup(c, d, id) ==
  /\ object[c] /\ role[c] \in {"none", "XdgPopup"} /\ ~popup[c].live
  /\ id \notin drawn
  /\ role' = [role EXCEPT ![c] = "XdgPopup"]
  /\ surfaceId' = [surfaceId EXCEPT ![c] = IF @ = NoId THEN id ELSE @]
  /\ popup' = [popup EXCEPT ![c] = [live |-> TRUE, data |-> d, info |-> InfiniteGeometry(d),
                                    adding |-> TRUE]]
  /\ drawn' = IF surfaceId[c] = NoId THEN drawn \union {id} ELSE drawn
  /\ shifted' = shifted \ {c}
  /\ UNCHANGED <<open, object, valid, orphaned, acked, subsurface, itemVars, attributeVars,
                 shellVars, redrawn, work>>

AckConfigure(c) ==
  /\ popup[c].live
  /\ acked' = [acked EXCEPT ![c] = TRUE]
  /\ UNCHANGED <<open, object, valid, role, surfaceId, orphaned, kidVars, itemVars,
                 attributeVars, shellVars, historyVars, work>>

\* The commit handler adds the child with the geometry it was made with.
CommitPopup(c, hasBuffer) ==
  LET adds == popup[c].live /\ popup[c].adding /\ PanelItem # NoItem
              /\ acked[c] /\ hasBuffer
  IN  /\ object[c] /\ role[c] = "XdgPopup"
      /\ valid' = [valid EXCEPT ![c] = hasBuffer]
      /\ popup' = [popup EXCEPT ![c].adding = @ /\ ~adds]
      /\ IF adds
         THEN /\ children' = [children EXCEPT ![PanelItem] = Added(@, surfaceId[c], c)]
              /\ shown' = [shown EXCEPT ![PanelItem] =
                             Created(@, surfaceId[c], popup[c].info)]
         ELSE UNCHANGED shellVars
      /\ UNCHANGED <<open, object, role, surfaceId, orphaned, acked, subsurface, itemVars,
                     attributeVars, historyVars, work>>

\* Mutant: the client is told the new geometry, the shell is not.
ConfigureOnly(c, d) ==
  /\ popup[c].live
  /\ popup' = [popup EXCEPT ![c].data = d]
  /\ shifted' = IF popup[c].adding THEN shifted \union {c} ELSE shifted
  /\ Works(1)
  /\ UNCHANGED <<objectVars, subsurface, itemVars, attributeVars, shellVars, drawn, redrawn>>

Reposition(c, d) ==
  /\ popup[c].live
  /\ popup' = [popup EXCEPT ![c].data = d]
  /\ shown' = IF PanelItem = NoItem THEN shown
              ELSE [shown EXCEPT ![PanelItem] = Moved(@, surfaceId[c], InfiniteGeometry(d))]
  /\ shifted' = IF popup[c].adding THEN shifted \union {c} ELSE shifted
  /\ Works(1)
  /\ UNCHANGED <<objectVars, subsurface, itemVars, attributeVars, children, drawn, redrawn>>

\* The client's object is the popup's last Arc, and its drop removes the child.
DestroyPopup(c) ==
  /\ popup[c].live
  /\ popup' = [popup EXCEPT ![c] = NoPopup]
  /\ RemoveChild(c)
  /\ UNCHANGED <<objectVars, subsurface, itemVars, attributeVars, historyVars, work>>

(* Surfaces and the toplevel *)

\* xdg-shell has the client destroy popup and toplevel before their surface.
DestroySurface(s) ==
  /\ object[s]
  /\ s = Root => ~open
  /\ s \in Children => ~popup[s].live
  /\ object' = [object EXCEPT ![s] = FALSE]
  /\ UNCHANGED <<open, valid, role, surfaceId, orphaned, acked, kidVars, itemVars,
                 attributeVars, shellVars, historyVars, work>>

DestroyToplevel ==
  /\ open
  /\ open' = FALSE /\ mapped' = NoItem
  /\ UNCHANGED <<object, valid, role, surfaceId, orphaned, acked, kidVars, kind, alive,
                 joining, attributeVars, shellVars, historyVars, work>>

\* set_title, set_app_id, set_min_size, set_max_size, set_fullscreen: the shell is
\* told first.
SetAttribute(a) ==
  /\ open
  /\ attribute' = [attribute EXCEPT ![a] = @ + 1]
  /\ knows' = IF mapped = NoItem THEN knows
              ELSE [knows EXCEPT ![mapped][a] = attribute[a] + 1]
  /\ missed' = IF joining # NoItem /\ kind[joining] = "acceptor"
               THEN missed \union {a} ELSE missed \ {a}
  /\ Works(1)
  /\ UNCHANGED <<objectVars, kidVars, itemVars, shellVars, historyVars>>
-----------------------------------------------------------------------------
(* Panel items *)

\* Mutant: connect sends nothing.
KnowsNothing(a) == 0

\* The shell that accepts is sent title and app_id before the item is mapped.
Knows(a) == IF a \in Resent THEN attribute[a] ELSE 0

\* XdgBackend::connect, for a toplevel that has no item yet or a PanelItemUi.
Accepted(i) ==
  /\ open /\ joining = NoItem /\ kind[i] = "free"
  /\ mapped # NoItem => kind[mapped] = "ui"
  /\ kind' = [kind EXCEPT ![i] = "acceptor"]
  /\ alive' = [alive EXCEPT ![i] = TRUE]
  /\ joining' = i
  /\ knows' = [knows EXCEPT ![i] = [a \in Attributes |-> Knows(a)]]
  /\ missed' = {}
  /\ UNCHANGED <<mapped, attribute, objectVars, kidVars, shellVars, historyVars, work>>

\* PanelItemUi::create, for a toplevel that has no item yet or a dead acceptor's.
UiCreated(i) ==
  /\ open /\ joining = NoItem /\ kind[i] = "free"
  /\ mapped # NoItem => kind[mapped] = "acceptor" /\ ~alive[mapped]
  /\ kind' = [kind EXCEPT ![i] = "ui"]
  /\ joining' = i
  /\ UNCHANGED <<alive, mapped, attributeVars, objectVars, kidVars, shellVars,
                 historyVars, work>>

\* The mapping task sets mapped, switch_panel_shell replaces it. An item that comes after
\* the toplevel's end goes with the task's Arc, which was the last (PanelMapping follows
\* it until then): no item is left.
Install ==
  /\ joining # NoItem
  /\ mapped' = IF open THEN joining ELSE NoItem
  /\ joining' = NoItem
  /\ UNCHANGED <<kind, alive, attributeVars, objectVars, kidVars, shellVars, historyVars,
                 work>>

AcceptorDies(i) ==
  /\ alive[i]
  /\ alive' = [alive EXCEPT ![i] = FALSE]
  /\ UNCHANGED <<kind, mapped, joining, attributeVars, objectVars, kidVars, shellVars,
                 historyVars, work>>
-----------------------------------------------------------------------------
ChildRequest(c) ==
  \/ \E id \in Ids : GetSubsurface(c, id)
  \/ \E place \in Places : SetPosition(c, place)
  \/ \E hasBuffer \in BOOLEAN : CommitSubsurface(c, hasBuffer)
  \/ SetDesync(c) \/ ParentGoes(c) \/ DestroySubsurface(c)
  \/ \E d \in Data : Reposition(c, d)
  \/ \E d \in Data, id \in Ids : GetPopup(c, d, id)
  \/ AckConfigure(c)
  \/ \E hasBuffer \in BOOLEAN : CommitPopup(c, hasBuffer)
  \/ DestroyPopup(c)

\* The steps that matter to the window alone, and those the seat takes part in.
WindowStep ==
  \/ \E c \in Children : ChildRequest(c)
  \/ DestroyToplevel
  \/ \E a \in Attributes : SetAttribute(a)
  \/ Install
  \/ \E i \in Items : Accepted(i)

WindowNext ==
  \/ WindowStep
  \/ \E s \in Surfaces : DestroySurface(s)
  \/ \E i \in Items : UiCreated(i) \/ AcceptorDies(i)
  \/ UNCHANGED stateVars /\ \E n \in 0..MaxWork : Works(n)

WindowSpec == WindowInit /\ [][WindowNext]_windowVars
-----------------------------------------------------------------------------
(* Properties *)

SubsurfaceType == [live : BOOLEAN, id : Ids \union {NoId}, pending : Places,
                   place : Places, adding : BOOLEAN]
PopupType == [live : BOOLEAN, data : Data \union {DefaultData},
              info : Geometries \union {Unknown}, adding : BOOLEAN]

WindowTypeOK ==
  /\ open \in BOOLEAN
  /\ object \in [Surfaces -> BOOLEAN]
  /\ valid \in [Children -> BOOLEAN]
  /\ role \in [Children -> {"none", "Subsurface", "XdgPopup"}]
  /\ surfaceId \in [Children -> Ids \union {NoId}]
  /\ orphaned \subseteq Children
  /\ subsurface \in [Children -> SubsurfaceType]
  /\ popup \in [Children -> PopupType]
  /\ acked \in [Children -> BOOLEAN]
  /\ attribute \in [Attributes -> Nat]
  /\ kind \in [Items -> {"free", "acceptor", "ui"}]
  /\ alive \in [Items -> BOOLEAN]
  /\ mapped \in Items \union {NoItem} /\ joining \in Items \union {NoItem}
  /\ children \in [Items -> [Ids -> Children \union {NoSurface}]]
  /\ shown \in [Items -> [Ids -> Geometries \union {Unknown}]]
  /\ knows \in [Items -> [Attributes -> Nat]]
  /\ drawn \subseteq Ids /\ redrawn \subseteq Children /\ shifted \subseteq Children
  /\ missed \subseteq Attributes
  /\ work \in 0..MaxWork

RoleObject(c) == subsurface[c].live \/ popup[c].live

\* What a shell can draw it can also aim input at: on every item, now or formerly
\* mapped, the shell was told of a child and not of its end exactly when the
\* item's children map finds the surface for the child's id. A surface that got
\* its wl_subsurface a second time is excepted: the shell is told the id drawn
\* last, the map keeps the first (subcompositor.rs:105, xdg/backend.rs:198).
ChildrenAgree ==
  \A c \in Children \ redrawn, i \in Items :
    surfaceId[c] # NoId =>
      (shown[i][surfaceId[c]] # Unknown <=> children[i][surfaceId[c]] = c)

\* The ids drawn by a wl_subsurface of a surface that had an id already.
SecondIds == drawn \ {surfaceId[c] : c \in Children}

\* What the shell of the mapped item shows under any id is a child whose wl_subsurface
\* or xdg_popup exists, and a child that was added is still in the map of the item that
\* was mapped then, where a switch of the shell leaves it behind. Two ways to a ghost are
\* excepted, as the code has them: an id announced by a second wl_subsurface, since
\* destroy_child names the first one (subcompositor.rs:105), and a child whose parent
\* surface went before its wl_subsurface did (subcompositor.rs:273).
ChildrenLive ==
  /\ mapped # NoItem =>
       \A id \in Ids \ SecondIds :
         shown[mapped][id] # Unknown =>
           \E c \in Children : surfaceId[c] = id /\ (RoleObject(c) \/ c \in orphaned)
  /\ \A c \in Children :
       RoleObject(c) /\ ~subsurface[c].adding /\ ~popup[c].adding =>
         \E i \in Items : children[i][surfaceId[c]] = c

\* The place the mapped item's shell has for a child is the committed position of
\* a subsurface, and for a popup the place that follows, by the meaning of
\* anchor, gravity and offset, from the positioner the client used last. Excepted
\* are a popup repositioned before the shell was told of it, whose create_child
\* sends the place it was made with (xdg/surface.rs:244), a subsurface that shows no
\* buffer, and a surface that got its wl_subsurface a second time, whose moves name
\* another id than its announcement did (subcompositor.rs:105).
PlacesAgree ==
  mapped # NoItem =>
    \A c \in Children :
      surfaceId[c] # NoId /\ shown[mapped][surfaceId[c]] # Unknown =>
        /\ subsurface[c].live /\ valid[c] /\ c \notin redrawn =>
             shown[mapped][surfaceId[c]] = subsurface[c].place
        /\ popup[c].live /\ c \notin shifted =>
             PlacedBy(popup[c].data, shown[mapped][surfaceId[c]])

\* The shell of a mapped acceptor knows the title and app_id the client set last,
\* however often the toplevel changed hands, unless they changed between the
\* accept and the mapping (xdg/backend.rs connect, xdg/toplevel.rs set_title).
AttributesKnown ==
  mapped # NoItem /\ kind[mapped] = "acceptor" =>
    \A a \in Resent \ missed : knows[mapped][a] = attribute[a]
=============================================================================
