-------------------------- MODULE PanelWindowProofs --------------------------
(***************************************************************************)
(* What the panel shells know of a window, for any surfaces, items, ids,   *)
(* places, positioners and attributes: where InfiniteGeometry puts a       *)
(* popup, the types, and the four invariants of PanelWindow that relate    *)
(* the client's objects to the shells' views.                              *)
(***************************************************************************)
EXTENDS PanelWindow, TLAPS

(* The place of a popup, without overflow *)

\* The numbers of the code's i32 type.
Fits(n) == -(Modulus \div 2) <= n /\ n < Modulus \div 2

\* The popup's coordinate on an axis, without overflow.
Exact(anchor, gravity, low, high, start, length, offset, size) ==
  AnchorOn(anchor, low, high, start, length) + offset
  - GravityShift(gravity, low, high, size)

NoOverflow(d) ==
  /\ Fits(Exact(d.anchor, d.gravity, "left", "right", d.rect.origin.x, d.rect.size.x,
                d.offset.x, d.size.x))
  /\ Fits(Exact(d.anchor, d.gravity, "top", "bottom", d.rect.origin.y, d.rect.size.y,
                d.offset.y, d.size.y))

LEMMA WrapIdentity ==
  ASSUME NEW n \in Int, Fits(n)
  PROVE  Wrap(n) = n
<1>. DEFINE half == Modulus \div 2
<1>1. half \in Nat /\ 2 * half = Modulus /\ Modulus > 0
  BY ModulusAssumption
<1>2. n + half \in 0 .. Modulus - 1
  BY <1>1 DEF Fits
<1>3. (n + half) % Modulus = n + half
  BY <1>1, <1>2
<1>. QED  BY <1>1, <1>3 DEF Wrap

LEMMA Halves ==
  ASSUME NEW n \in Nat
  PROVE  n \div 2 \in Nat /\ 2 * (n \div 2) \in {n - 1, n} /\ n \div 2 <= n
OBVIOUS

\* The anchor point lies on the anchor rectangle, where the anchor says.
LEMMA AnchorOnAxis ==
  ASSUME NEW edges, NEW low, NEW high, ~({low, high} \subseteq edges),
         NEW start \in Int, NEW length \in Nat,
         NEW a, a = AnchorOn(edges, low, high, start, length)
  PROVE  a \in start .. start + length /\ AnchorsAt(edges, low, high, start, length, a)
<1>1. length \div 2 \in Nat /\ 2 * (length \div 2) \in {length - 1, length}
      /\ length \div 2 <= length
  BY Halves
<1>2. CASE low \in edges
  BY <1>2 DEF AnchorOn, AnchorsAt
<1>3. CASE high \in edges /\ low \notin edges
  BY <1>3 DEF AnchorOn, AnchorsAt
<1>4. CASE low \notin edges /\ high \notin edges
  <2>1. a = start + length \div 2
    BY <1>4 DEF AnchorOn
  <2>2. a - start = length \div 2
    BY <2>1, <1>1
  <2>. QED  BY <1>1, <1>4, <2>1, <2>2 DEF AnchorsAt
<1>. QED  BY <1>2, <1>3, <1>4

\* The popup hangs from the anchor point, moved by the offset, as gravity says.
LEMMA HangsOnAxis ==
  ASSUME NEW edges, NEW low, NEW high, ~({low, high} \subseteq edges),
         NEW anchor \in Int, NEW size \in Nat,
         NEW place, place = anchor - GravityShift(edges, low, high, size)
  PROVE  Hangs(edges, low, high, anchor, place, size)
<1>1. size \div 2 \in Nat /\ 2 * (size \div 2) \in {size - 1, size}
  BY Halves
<1>2. CASE low \in edges
  BY <1>2 DEF GravityShift, Hangs
<1>3. CASE high \in edges /\ low \notin edges
  BY <1>3 DEF GravityShift, Hangs
<1>4. CASE low \notin edges /\ high \notin edges
  <2>1. place = anchor - size \div 2 /\ anchor - place = size \div 2
    BY <1>1, <1>4 DEF GravityShift
  <2>. QED  BY <1>1, <1>4, <2>1 DEF GravityShift, Hangs
<1>. QED  BY <1>2, <1>3, <1>4

LEMMA AxisPlaced ==
  ASSUME NEW anchor, NEW gravity, NEW low, NEW high,
         ~({low, high} \subseteq anchor), ~({low, high} \subseteq gravity),
         NEW start \in Int, NEW length \in Nat, NEW offset \in Int, NEW size \in Nat,
         NEW a, a = AnchorOn(anchor, low, high, start, length),
         NEW shift, shift = GravityShift(gravity, low, high, size),
         NEW place, place = Wrap(a + offset - shift), Fits(a + offset - shift)
  PROVE  /\ place \in Int
         /\ a \in start .. start + length
         /\ AnchorsAt(anchor, low, high, start, length, a)
         /\ Hangs(gravity, low, high, a + offset, place, size)
<1>1. a \in start .. start + length /\ AnchorsAt(anchor, low, high, start, length, a)
  BY AnchorOnAxis
<1>2. a \in Int /\ a + offset \in Int
  BY <1>1
<1>3. shift \in Nat
  BY Halves DEF GravityShift
<1>4. place = a + offset - shift
  BY <1>2, <1>3, WrapIdentity
<1>5. Hangs(gravity, low, high, a + offset, place, size)
  <2>1. PICK p \in Int : p = a + offset
    BY <1>2
  <2>2. place = p - GravityShift(gravity, low, high, size)
    BY <1>2, <1>3, <1>4, <2>1
  <2>. QED  BY <2>1, <2>2, HangsOnAxis
<1>. QED  BY <1>1, <1>2, <1>3, <1>4, <1>5

\* A popup is where its positioner asks for it: it hangs, as gravity says, from the
\* point of the anchor rectangle that the anchor names, moved by the offset. For every
\* anchor, gravity, rectangle, size and offset whose sums stay in the integer type
\* (PositionerData::infinite_geometry).
THEOREM Placement ==
  ASSUME NEW d \in PositionerData, NoOverflow(d)
  PROVE  /\ PlacedBy(d, InfiniteGeometry(d))
         /\ InfiniteGeometry(d) \in Geometry
<1>. DEFINE g == InfiniteGeometry(d)
<1>1. /\ d.anchor \in Directions /\ d.gravity \in Directions
      /\ d.rect.origin.x \in Int /\ d.rect.origin.y \in Int
      /\ d.rect.size.x \in Nat /\ d.rect.size.y \in Nat
      /\ d.offset.x \in Int /\ d.offset.y \in Int
      /\ d.size \in Extent /\ d.size.x \in Nat /\ d.size.y \in Nat
  BY DEF PositionerData, Geometry, Point, Extent
<1>2. /\ ~({"left", "right"} \subseteq d.anchor) /\ ~({"top", "bottom"} \subseteq d.anchor)
      /\ ~({"left", "right"} \subseteq d.gravity) /\ ~({"top", "bottom"} \subseteq d.gravity)
  BY <1>1 DEF Directions
<1>3. /\ g.origin.x \in Int
      /\ \E a \in d.rect.origin.x .. d.rect.origin.x + d.rect.size.x :
           /\ AnchorsAt(d.anchor, "left", "right", d.rect.origin.x, d.rect.size.x, a)
           /\ Hangs(d.gravity, "left", "right", a + d.offset.x, g.origin.x, g.size.x)
  <2>. DEFINE a == AnchorOn(d.anchor, "left", "right", d.rect.origin.x, d.rect.size.x)
              shift == GravityShift(d.gravity, "left", "right", d.size.x)
              place == g.origin.x
  <2>1. place = Wrap(a + d.offset.x - shift) /\ g.size.x = d.size.x
    BY DEF InfiniteGeometry
  <2>2. Fits(a + d.offset.x - shift)
    BY DEF NoOverflow, Exact
  <2>3. /\ a = AnchorOn(d.anchor, "left", "right", d.rect.origin.x, d.rect.size.x)
        /\ shift = GravityShift(d.gravity, "left", "right", d.size.x)
    OBVIOUS
  <2>. HIDE DEF a, shift, place
  <2>4. /\ place \in Int
        /\ a \in d.rect.origin.x .. d.rect.origin.x + d.rect.size.x
        /\ AnchorsAt(d.anchor, "left", "right", d.rect.origin.x, d.rect.size.x, a)
        /\ Hangs(d.gravity, "left", "right", a + d.offset.x, place, d.size.x)
    BY <1>1, <1>2, <2>1, <2>2, <2>3, AxisPlaced
  <2>. QED  BY <2>1, <2>4 DEF place
<1>4. /\ g.origin.y \in Int
      /\ \E a \in d.rect.origin.y .. d.rect.origin.y + d.rect.size.y :
           /\ AnchorsAt(d.anchor, "top", "bottom", d.rect.origin.y, d.rect.size.y, a)
           /\ Hangs(d.gravity, "top", "bottom", a + d.offset.y, g.origin.y, g.size.y)
  <2>. DEFINE a == AnchorOn(d.anchor, "top", "bottom", d.rect.origin.y, d.rect.size.y)
              shift == GravityShift(d.gravity, "top", "bottom", d.size.y)
              place == g.origin.y
  <2>1. place = Wrap(a + d.offset.y - shift) /\ g.size.y = d.size.y
    BY DEF InfiniteGeometry
  <2>2. Fits(a + d.offset.y - shift)
    BY DEF NoOverflow, Exact
  <2>3. /\ a = AnchorOn(d.anchor, "top", "bottom", d.rect.origin.y, d.rect.size.y)
        /\ shift = GravityShift(d.gravity, "top", "bottom", d.size.y)
    OBVIOUS
  <2>. HIDE DEF a, shift, place
  <2>4. /\ place \in Int
        /\ a \in d.rect.origin.y .. d.rect.origin.y + d.rect.size.y
        /\ AnchorsAt(d.anchor, "top", "bottom", d.rect.origin.y, d.rect.size.y, a)
        /\ Hangs(d.gravity, "top", "bottom", a + d.offset.y, place, d.size.y)
    BY <1>1, <1>2, <2>1, <2>2, <2>3, AxisPlaced
  <2>. QED  BY <2>1, <2>4 DEF place
<1>5. g.size = d.size
  BY DEF InfiniteGeometry
<1>6. PlacedBy(d, g)
  <2>. HIDE DEF g
  <2>. QED  BY <1>3, <1>4, <1>5 DEF PlacedBy
<1>7. g = [origin |-> [x |-> g.origin.x, y |-> g.origin.y], size |-> d.size]
  BY DEF InfiniteGeometry
<1>8. g \in Geometry
  <2>. HIDE DEF g
  <2>. QED  BY <1>1, <1>3, <1>4, <1>7 DEF Geometry, Point
<1>. QED  BY <1>6, <1>8
-----------------------------------------------------------------------------
(* The parts of the inductive invariant *)

\* An item is used once: those that are free, or only on their way, know no child.
Fresh(i) == /\ children[i] = [id \in Ids |-> NoSurface]
            /\ shown[i] = [id \in Ids |-> Unknown]

ItemsInOrder ==
  /\ \A i \in Items : kind[i] = "free" \/ i = joining => Fresh(i)
  /\ joining # NoItem => kind[joining] # "free"
  /\ mapped # NoItem => kind[mapped] # "free" /\ open
  /\ joining # NoItem /\ mapped # NoItem =>
       \/ kind[joining] = "acceptor" /\ kind[mapped] = "ui"
       \/ kind[joining] = "ui" /\ kind[mapped] = "acceptor" /\ ~alive[mapped]

\* An id is drawn once, and no two surfaces have the same.
IdsInOrder ==
  /\ \A c \in Children : surfaceId[c] # NoId => surfaceId[c] \in drawn
  /\ \A c, d \in Children : surfaceId[c] # NoId /\ surfaceId[c] = surfaceId[d] => c = d
  /\ \A i \in Items, id \in Ids \ drawn :
       children[i][id] = NoSurface /\ shown[i][id] = Unknown

\* The id that a wl_subsurface announces is its surface's, or nobody's. A surface
\* whose parent is gone was a subsurface, and can be nothing else.
SubsurfaceInOrder(c) ==
  /\ c \in orphaned => role[c] = "Subsurface"
  /\ role[c] = "Subsurface" => surfaceId[c] # NoId
  /\ subsurface[c].live =>
       /\ role[c] = "Subsurface" /\ surfaceId[c] # NoId
       /\ subsurface[c].id \in drawn
       /\ \A d \in Children : surfaceId[d] = subsurface[c].id => d = c
       /\ c \notin redrawn => subsurface[c].id = surfaceId[c]

PopupInOrder(c) ==
  popup[c].live =>
    /\ role[c] = "XdgPopup" /\ surfaceId[c] # NoId
    /\ popup[c].data \in Data
    /\ popup[c].info \in {InfiniteGeometry(d) : d \in Data}
    /\ popup[c].adding /\ c \notin shifted => popup[c].info = InfiniteGeometry(popup[c].data)

ObjectsInOrder == \A c \in Children : SubsurfaceInOrder(c) /\ PopupInOrder(c)

Order == WindowTypeOK /\ ItemsInOrder /\ IdsInOrder /\ ObjectsInOrder

\* PlacesAgree, without the meaning of the place of a popup.
PlacesFollow ==
  mapped # NoItem =>
    \A c \in Children :
      surfaceId[c] # NoId /\ shown[mapped][surfaceId[c]] # Unknown =>
        /\ subsurface[c].live /\ valid[c] /\ c \notin redrawn =>
             shown[mapped][surfaceId[c]] = subsurface[c].place
        /\ popup[c].live /\ c \notin shifted =>
             shown[mapped][surfaceId[c]] = InfiniteGeometry(popup[c].data)

\* AttributesKnown, for the item on its way too.
AttributesFollow ==
  \A i \in {mapped, joining} \ {NoItem} :
    kind[i] = "acceptor" =>
      \A a \in Resent \ missed : knows[i][a] = attribute[a]
-----------------------------------------------------------------------------
(* Types *)

\* The values of the children maps and of the shells' views.
ShellsTyped == /\ children \in [Items -> [Ids -> Children \union {NoSurface}]]
               /\ shown \in [Items -> [Ids -> Geometries \union {Unknown}]]

LEMMA GeometryKnown ==
  /\ \A g \in Places : g \in Geometries /\ g # Unknown
  /\ \A d \in Data : InfiniteGeometry(d) \in Geometries /\ InfiniteGeometry(d) # Unknown
BY UnknownAssumption DEF Geometries

LEMMA PanelItemTyped ==
  ASSUME WindowTypeOK, PanelItem # NoItem
  PROVE  PanelItem \in Items /\ PanelItem = mapped /\ open
BY DEF PanelItem, WindowTypeOK

LEMMA WorksTyped ==
  ASSUME WindowTypeOK, NEW n \in Nat, Works(n)
  PROVE  work' \in 0..MaxWork
BY WorkAssumption DEF WindowTypeOK, Works

LEMMA RemoveChildTyped ==
  ASSUME WindowTypeOK, NEW c \in Children, RemoveChild(c)
  PROVE  ShellsTyped'
<1>1. ShellsTyped
  BY DEF WindowTypeOK, ShellsTyped
<1>2. CASE PanelItem = NoItem
  BY <1>1, <1>2 DEF RemoveChild, shellVars, ShellsTyped
<1>3. CASE PanelItem # NoItem
  <2>1. children' = [children EXCEPT ![PanelItem] = Removed(@, surfaceId[c])]
        /\ shown' = [shown EXCEPT ![PanelItem] = Destroyed(@, surfaceId[c])]
    BY <1>3 DEF RemoveChild
  <2>2. PanelItem \in Items
    BY <1>3, PanelItemTyped
  <2>3. Removed(children[PanelItem], surfaceId[c]) \in [Ids -> Children \union {NoSurface}]
    BY <1>1, <2>2 DEF ShellsTyped, Removed
  <2>4. Destroyed(shown[PanelItem], surfaceId[c]) \in [Ids -> Geometries \union {Unknown}]
    BY <1>1, <2>2 DEF ShellsTyped, Destroyed
  <2>. QED  BY <1>1, <2>1, <2>2, <2>3, <2>4 DEF ShellsTyped
<1>. QED  BY <1>2, <1>3

LEMMA SubsurfaceUpdatesTyped ==
  ASSUME WindowTypeOK, NEW c \in Children, NEW place \in Places, NEW hasBuffer \in BOOLEAN,
         SubsurfaceUpdates(c, place, hasBuffer)
  PROVE  ShellsTyped' /\ subsurface' \in [Children -> SubsurfaceType]
<1>. DEFINE item == PanelItem
            adds == /\ subsurface[c].live /\ item # NoItem /\ hasBuffer /\ subsurface[c].adding
                    /\ c \notin orphaned
            view == IF adds THEN Created(shown[item], subsurface[c].id, place) ELSE shown[item]
<1>1. subsurface' \in [Children -> SubsurfaceType]
  <2>1. subsurface \in [Children -> SubsurfaceType] /\ adds \in BOOLEAN
    BY DEF WindowTypeOK, SubsurfaceType
  <2>2. PICK q \in Places : subsurface' = [subsurface EXCEPT ![c].place = q,
                                                           ![c].adding = @ /\ ~adds]
    BY DEF SubsurfaceUpdates, WindowTypeOK, SubsurfaceType
  <2>3. /\ subsurface[c] \in SubsurfaceType
        /\ [subsurface[c] EXCEPT !.place = q, !.adding = @ /\ ~adds] \in SubsurfaceType
    <3>. HIDE DEF adds
    <3>. QED  BY <2>1 DEF SubsurfaceType
  <2>. HIDE DEF adds
  <2>. QED  BY <2>1, <2>2, <2>3
<1>2. children' \in [Items -> [Ids -> Children \union {NoSurface}]]
  <2>1. children \in [Items -> [Ids -> Children \union {NoSurface}]]
    BY DEF WindowTypeOK
  <2>2. \/ children' = children
        \/ item # NoItem /\ children' = [children EXCEPT ![item] = Added(@, surfaceId[c], c)]
    BY DEF SubsurfaceUpdates
  <2>3. item # NoItem => Added(children[item], surfaceId[c], c)
                           \in [Ids -> Children \union {NoSurface}]
    BY <2>1, PanelItemTyped DEF Added
  <2>. HIDE DEF item
  <2>. QED  BY <2>1, <2>2, <2>3
<1>3. item # NoItem => view \in [Ids -> Geometries \union {Unknown}]
  BY PanelItemTyped, GeometryKnown DEF Created, WindowTypeOK
<1>4. item # NoItem =>
        Moved(view, surfaceId[c], place) \in [Ids -> Geometries \union {Unknown}]
  <2>. HIDE DEF view
  <2>. QED  BY <1>3, GeometryKnown DEF Moved
<1>5. shown' \in [Items -> [Ids -> Geometries \union {Unknown}]]
  <2>1. \/ shown' = shown
        \/ item # NoItem
           /\ shown' = [shown EXCEPT ![item] = Moved(view, surfaceId[c], place)]
    BY DEF SubsurfaceUpdates
  <2>. HIDE DEF view, item
  <2>. QED  BY <1>4, <2>1 DEF WindowTypeOK, item
<1>. QED  BY <1>1, <1>2, <1>5 DEF ShellsTyped

LEMMA CommitPopupTyped ==
  ASSUME WindowTypeOK, NEW c \in Children, NEW hasBuffer \in BOOLEAN,
         CommitPopup(c, hasBuffer)
  PROVE  ShellsTyped' /\ popup' \in [Children -> PopupType]
<1>1. popup' \in [Children -> PopupType]
  <2>1. popup \in [Children -> PopupType]
    BY DEF WindowTypeOK
  <2>2. PICK b \in BOOLEAN : popup' = [popup EXCEPT ![c].adding = b]
    BY DEF CommitPopup
  <2>. QED  BY <2>1, <2>2 DEF PopupType
<1>2. popup[c].info \in Geometries \union {Unknown}
  BY DEF WindowTypeOK, PopupType
<1>3. ShellsTyped'
  <2>1. ShellsTyped
    BY DEF WindowTypeOK, ShellsTyped
  <2>2. CASE /\ PanelItem # NoItem
             /\ children' = [children EXCEPT ![PanelItem] = Added(@, surfaceId[c], c)]
             /\ shown' = [shown EXCEPT ![PanelItem] =
                            Created(@, surfaceId[c], popup[c].info)]
    <3>1. PanelItem \in Items
      BY <2>2, PanelItemTyped
    <3>2. Added(children[PanelItem], surfaceId[c], c) \in [Ids -> Children \union {NoSurface}]
      BY <2>1, <3>1 DEF ShellsTyped, Added
    <3>3. Created(shown[PanelItem], surfaceId[c], popup[c].info)
            \in [Ids -> Geometries \union {Unknown}]
      BY <1>2, <2>1, <3>1 DEF ShellsTyped, Created
    <3>. QED  BY <2>1, <2>2, <3>1, <3>2, <3>3 DEF ShellsTyped
  <2>3. CASE UNCHANGED shellVars
    BY <2>1, <2>3 DEF ShellsTyped, shellVars
  <2>. QED  BY <2>2, <2>3 DEF CommitPopup
<1>. QED  BY <1>1, <1>3

LEMMA ChildRequestTyped ==
  ASSUME WindowTypeOK, NEW c \in Children, ChildRequest(c)
  PROVE  WindowTypeOK'
<1>. USE DEF objectVars, kidVars, itemVars, attributeVars, shellVars, historyVars
<1>1. ASSUME NEW id \in Ids, GetSubsurface(c, id) PROVE WindowTypeOK'
  <2>1. [NoSubsurface EXCEPT !.live = TRUE, !.id = id, !.adding = TRUE] \in SubsurfaceType
    BY PlaceAssumption DEF SubsurfaceType, NoSubsurface
  <2>2. subsurface' \in [Children -> SubsurfaceType]
    BY <1>1, <2>1 DEF GetSubsurface, WindowTypeOK
  <2>. QED  BY <1>1, <2>2 DEF GetSubsurface, WindowTypeOK
<1>2. ASSUME NEW place \in Places, SetPosition(c, place) PROVE WindowTypeOK'
  <2>1. work' \in 0..MaxWork
    BY <1>2, WorksTyped DEF SetPosition
  <2>2. subsurface' \in [Children -> SubsurfaceType]
    <3>1. subsurface \in [Children -> SubsurfaceType]
          /\ subsurface' = [subsurface EXCEPT ![c].pending = place]
      BY <1>2 DEF SetPosition, WindowTypeOK
    <3>. QED  BY <3>1 DEF SubsurfaceType
  <2>. QED  BY <1>2, <2>1, <2>2 DEF SetPosition, WindowTypeOK
<1>3. ASSUME NEW hasBuffer \in BOOLEAN, CommitSubsurface(c, hasBuffer) PROVE WindowTypeOK'
  <2>1. subsurface[c].pending \in Places
    BY DEF WindowTypeOK, SubsurfaceType
  <2>2. ShellsTyped' /\ subsurface' \in [Children -> SubsurfaceType]
    BY <1>3, <2>1, SubsurfaceUpdatesTyped DEF CommitSubsurface
  <2>. QED  BY <1>3, <2>2 DEF CommitSubsurface, WindowTypeOK, ShellsTyped
<1>4. ASSUME SetDesync(c) PROVE WindowTypeOK'
  <2>1. subsurface[c].place \in Places /\ valid[c] \in BOOLEAN
    BY DEF WindowTypeOK, SubsurfaceType
  <2>2. ShellsTyped' /\ subsurface' \in [Children -> SubsurfaceType]
    BY <1>4, <2>1, SubsurfaceUpdatesTyped DEF SetDesync
  <2>. QED  BY <1>4, <2>2 DEF SetDesync, WindowTypeOK, ShellsTyped
<1>5. ASSUME DestroySubsurface(c) PROVE WindowTypeOK'
  <2>1. ShellsTyped'
    BY <1>5, RemoveChildTyped DEF DestroySubsurface, WindowTypeOK, ShellsTyped
  <2>2. NoSubsurface \in SubsurfaceType
    BY PlaceAssumption DEF SubsurfaceType, NoSubsurface
  <2>. QED  BY <1>5, <2>1, <2>2 DEF DestroySubsurface, WindowTypeOK, ShellsTyped
<1>6. ASSUME NEW d \in Data, Reposition(c, d) PROVE WindowTypeOK'
  <2>1. shown' \in [Items -> [Ids -> Geometries \union {Unknown}]]
    BY <1>6, PanelItemTyped, GeometryKnown DEF Reposition, Moved, WindowTypeOK
  <2>2. work' \in 0..MaxWork
    BY <1>6, WorksTyped DEF Reposition
  <2>3. popup' \in [Children -> PopupType]
    <3>1. popup \in [Children -> PopupType] /\ popup' = [popup EXCEPT ![c].data = d]
      BY <1>6 DEF Reposition, WindowTypeOK
    <3>. QED  BY <3>1 DEF PopupType
  <2>. QED  BY <1>6, <2>1, <2>2, <2>3 DEF Reposition, WindowTypeOK
<1>7. ASSUME NEW d \in Data, NEW id \in Ids, GetPopup(c, d, id) PROVE WindowTypeOK'
  BY <1>7, GeometryKnown DEF GetPopup, WindowTypeOK, PopupType
<1>8. ASSUME AckConfigure(c) PROVE WindowTypeOK'
  BY <1>8 DEF AckConfigure, WindowTypeOK
<1>9. ASSUME NEW hasBuffer \in BOOLEAN, CommitPopup(c, hasBuffer) PROVE WindowTypeOK'
  <2>1. ShellsTyped' /\ popup' \in [Children -> PopupType]
    BY <1>9, CommitPopupTyped
  <2>. QED  BY <1>9, <2>1 DEF CommitPopup, WindowTypeOK, ShellsTyped
<1>10. ASSUME DestroyPopup(c) PROVE WindowTypeOK'
  <2>1. ShellsTyped'
    BY <1>10, RemoveChildTyped DEF DestroyPopup
  <2>. QED  BY <1>10, <2>1 DEF DestroyPopup, WindowTypeOK, ShellsTyped, PopupType, NoPopup
<1>11. ASSUME ParentGoes(c) PROVE WindowTypeOK'
  <2>1. work' \in 0..MaxWork
    BY <1>11, WorksTyped, WorkAssumption DEF ParentGoes
  <2>. QED  BY <1>11, <2>1 DEF ParentGoes, WindowTypeOK
<1>. QED
  BY <1>1, <1>2, <1>3, <1>4, <1>5, <1>6, <1>7, <1>8, <1>9, <1>10, <1>11 DEF ChildRequest

LEMMA TypingStep == WindowTypeOK /\ [WindowNext]_windowVars => WindowTypeOK'
<1>. SUFFICES ASSUME WindowTypeOK, [WindowNext]_windowVars PROVE WindowTypeOK'
  OBVIOUS
<1>. USE DEF objectVars, kidVars, itemVars, attributeVars, shellVars, historyVars
<1>1. ASSUME NEW c \in Children, ChildRequest(c) PROVE WindowTypeOK'
  BY <1>1, ChildRequestTyped
<1>2. CASE DestroyToplevel
  BY <1>2 DEF DestroyToplevel, WindowTypeOK
<1>3. ASSUME NEW a \in Attributes, SetAttribute(a) PROVE WindowTypeOK'
  BY <1>3, WorkAssumption DEF SetAttribute, WindowTypeOK, Works
<1>4. CASE Install
  BY <1>4 DEF Install, WindowTypeOK
<1>5. ASSUME NEW i \in Items, Accepted(i) PROVE WindowTypeOK'
  BY <1>5 DEF Accepted, WindowTypeOK, Knows
<1>6. ASSUME NEW s \in Surfaces, DestroySurface(s) PROVE WindowTypeOK'
  BY <1>6 DEF DestroySurface, WindowTypeOK
<1>7. ASSUME NEW i \in Items, UiCreated(i) \/ AcceptorDies(i) PROVE WindowTypeOK'
  BY <1>7 DEF UiCreated, AcceptorDies, WindowTypeOK
<1>8. ASSUME NEW n \in 0..MaxWork, UNCHANGED stateVars, Works(n) PROVE WindowTypeOK'
  BY <1>8, WorkAssumption DEF stateVars, WindowTypeOK, Works
<1>9. CASE UNCHANGED windowVars
  BY <1>9 DEF windowVars, stateVars, WindowTypeOK
<1>. QED
  BY <1>1, <1>2, <1>3, <1>4, <1>5, <1>6, <1>7, <1>8, <1>9 DEF WindowNext, WindowStep
-----------------------------------------------------------------------------
(* What the operations do to the maps and the views, point by point *)

\* Item i and id are those of surface c's entry with the mapped item.
EntryOf(c, i, id) == PanelItem # NoItem /\ i = PanelItem /\ id = surfaceId[c]

LEMMA RemoveChildEffect ==
  ASSUME WindowTypeOK, NEW c \in Children, RemoveChild(c), NEW i \in Items, NEW id \in Ids
  PROVE  /\ children'[i][id] = IF EntryOf(c, i, id) THEN NoSurface ELSE children[i][id]
         /\ shown'[i][id] = IF EntryOf(c, i, id) THEN Unknown ELSE shown[i][id]
<1>1. ShellsTyped
  BY DEF WindowTypeOK, ShellsTyped
<1>2. CASE PanelItem = NoItem
  BY <1>2 DEF RemoveChild, shellVars, EntryOf
<1>3. CASE PanelItem # NoItem
  <2>1. children' = [children EXCEPT ![PanelItem] = Removed(@, surfaceId[c])]
        /\ shown' = [shown EXCEPT ![PanelItem] = Destroyed(@, surfaceId[c])]
    BY <1>3 DEF RemoveChild
  <2>. QED  BY <1>1, <1>3, <2>1 DEF ShellsTyped, Removed, Destroyed, EntryOf
<1>. QED  BY <1>2, <1>3

LEMMA CommitPopupEffect ==
  ASSUME WindowTypeOK, NEW c \in Children, NEW hasBuffer \in BOOLEAN,
         CommitPopup(c, hasBuffer)
  PROVE  \/ /\ popup[c].live /\ popup[c].adding /\ PanelItem # NoItem
            /\ popup' = [popup EXCEPT ![c].adding = FALSE]
            /\ \A i \in Items, id \in Ids :
                 /\ children'[i][id] = IF EntryOf(c, i, id) THEN c ELSE children[i][id]
                 /\ shown'[i][id] = IF EntryOf(c, i, id) THEN popup[c].info
                                    ELSE shown[i][id]
         \/ UNCHANGED <<children, shown, popup>>
<1>. DEFINE adds == popup[c].live /\ popup[c].adding /\ PanelItem # NoItem
                    /\ acked[c] /\ hasBuffer
<1>1. ShellsTyped /\ popup \in [Children -> PopupType]
  BY DEF WindowTypeOK, ShellsTyped
<1>2. CASE adds
  <2>1. /\ children' = [children EXCEPT ![PanelItem] = Added(@, surfaceId[c], c)]
        /\ shown' = [shown EXCEPT ![PanelItem] = Created(@, surfaceId[c], popup[c].info)]
        /\ popup' = [popup EXCEPT ![c].adding = @ /\ ~adds]
    BY <1>2 DEF CommitPopup
  <2>2. popup' = [popup EXCEPT ![c].adding = FALSE]
    <3>. HIDE DEF adds
    <3>. QED  BY <1>2, <2>1
  <2>3. \A i \in Items, id \in Ids :
          /\ children'[i][id] = IF EntryOf(c, i, id) THEN c ELSE children[i][id]
          /\ shown'[i][id] = IF EntryOf(c, i, id) THEN popup[c].info ELSE shown[i][id]
    BY <1>1, <1>2, <2>1 DEF ShellsTyped, Added, Created, EntryOf
  <2>. QED  BY <1>2, <2>2, <2>3
<1>3. CASE ~adds
  <2>1. UNCHANGED <<children, shown>> /\ popup' = [popup EXCEPT ![c].adding = @ /\ ~adds]
    BY <1>3 DEF CommitPopup, shellVars
  <2>2. popup' = popup
    <3>1. popup[c] \in PopupType
      BY <1>1
    <3>2. popup[c].adding \in BOOLEAN
      BY <3>1 DEF PopupType
    <3>3. (popup[c].adding /\ ~adds) = popup[c].adding
      BY <1>3, <3>2
    <3>4. [popup[c] EXCEPT !.adding = popup[c].adding] = popup[c]
      BY <3>1 DEF PopupType
    <3>. HIDE DEF adds
    <3>. QED  BY <1>1, <2>1, <3>3, <3>4
  <2>. QED  BY <2>1, <2>2
<1>. QED  BY <1>2, <1>3

LEMMA RepositionEffect ==
  ASSUME WindowTypeOK, NEW c \in Children, NEW d \in Data, Reposition(c, d)
  PROVE  /\ children' = children
         /\ \A i \in Items, id \in Ids :
              shown'[i][id] = IF EntryOf(c, i, id) /\ shown[i][id] # Unknown
                              THEN InfiniteGeometry(d) ELSE shown[i][id]
<1>1. ShellsTyped
  BY DEF WindowTypeOK, ShellsTyped
<1>2. CASE PanelItem = NoItem
  BY <1>2 DEF Reposition, EntryOf
<1>3. CASE PanelItem # NoItem
  <2>1. shown' = [shown EXCEPT ![PanelItem] =
                    Moved(@, surfaceId[c], InfiniteGeometry(d))] /\ children' = children
    BY <1>3 DEF Reposition
  <2>. QED  BY <1>1, <1>3, <2>1 DEF ShellsTyped, Moved, EntryOf
<1>. QED  BY <1>2, <1>3

\* When the handlers of a wl_subsurface reach its item, and add it there.
Reaches(hasBuffer) == PanelItem # NoItem /\ hasBuffer
Adds(c, hasBuffer) == Reaches(hasBuffer) /\ subsurface[c].adding /\ c \notin orphaned

LEMMA SubsurfaceUpdatesEffect ==
  ASSUME WindowTypeOK, NEW c \in Children, NEW place \in Places, NEW hasBuffer \in BOOLEAN,
         SubsurfaceUpdates(c, place, hasBuffer), subsurface[c].live
  PROVE  /\ subsurface'[c].live /\ subsurface'[c].place = place
         /\ subsurface'[c].adding <=> subsurface[c].adding /\ ~Adds(c, hasBuffer)
         /\ \A d \in Children \ {c} : subsurface'[d] = subsurface[d]
         /\ \A i \in Items, id \in Ids :
              /\ children'[i][id] = IF Adds(c, hasBuffer) /\ EntryOf(c, i, id) THEN c ELSE children[i][id]
              /\ ~Reaches(hasBuffer) \/ i # PanelItem => shown'[i][id] = shown[i][id]
              /\ Reaches(hasBuffer) /\ i = PanelItem =>
                   shown'[i][id] =
                     IF Adds(c, hasBuffer) /\ id = subsurface[c].id THEN place
                     ELSE IF id = surfaceId[c] /\ shown[i][id] # Unknown THEN place
                     ELSE shown[i][id]
<1>. DEFINE item == PanelItem
            reaches == Reaches(hasBuffer)
            adds == Adds(c, hasBuffer)
            view == IF adds THEN Created(shown[item], subsurface[c].id, place) ELSE shown[item]
<1>1. ShellsTyped /\ subsurface \in [Children -> SubsurfaceType]
  BY DEF WindowTypeOK, ShellsTyped
<1>2. /\ adds \in BOOLEAN /\ reaches \in BOOLEAN
      /\ reaches => item # NoItem
      /\ adds => reaches
  BY <1>1 DEF SubsurfaceType, Reaches, Adds
<1>3. /\ subsurface' = [subsurface EXCEPT ![c].place = place, ![c].adding = @ /\ ~adds]
      /\ children' = IF adds THEN [children EXCEPT ![item] = Added(@, surfaceId[c], c)]
                     ELSE children
      /\ shown' = IF reaches
                  THEN [shown EXCEPT ![item] = Moved(view, surfaceId[c], place)]
                  ELSE shown
  BY DEF SubsurfaceUpdates, Reaches, Adds
<1>4. /\ subsurface'[c].live /\ subsurface'[c].place = place
      /\ subsurface'[c].adding <=> subsurface[c].adding /\ ~adds
      /\ \A d \in Children \ {c} : subsurface'[d] = subsurface[d]
  BY <1>1, <1>3 DEF SubsurfaceType
<1>5. \A i \in Items, id \in Ids :
        children'[i][id] = IF adds /\ EntryOf(c, i, id) THEN c ELSE children[i][id]
  <2>1. CASE adds
    <3>1. children' = [children EXCEPT ![item] = Added(@, surfaceId[c], c)]
      BY <1>3, <2>1
    <3>. QED  BY <1>1, <1>2, <2>1, <3>1 DEF ShellsTyped, Added, EntryOf
  <2>2. CASE ~adds
    BY <1>3, <2>2
  <2>. QED  BY <2>1, <2>2
<1>6. \A i \in Items, id \in Ids : ~reaches \/ i # item => shown'[i][id] = shown[i][id]
  BY <1>1, <1>3 DEF ShellsTyped
<1>7. ASSUME NEW id \in Ids, reaches
      PROVE  shown'[item][id] = IF adds /\ id = subsurface[c].id THEN place
                                ELSE IF id = surfaceId[c] /\ shown[item][id] # Unknown
                                THEN place ELSE shown[item][id]
  <2>1. item \in Items /\ shown[item] \in [Ids -> Geometries \union {Unknown}]
    BY <1>1, <1>2, <1>7, PanelItemTyped DEF ShellsTyped
  <2>2. view \in [Ids -> Geometries \union {Unknown}]
    BY <2>1, GeometryKnown DEF Created
  <2>3. view[id] = IF adds /\ id = subsurface[c].id THEN place ELSE shown[item][id]
    BY <2>1 DEF Created
  <2>4. shown'[item][id] = IF id = surfaceId[c] /\ view[id] # Unknown THEN place ELSE view[id]
    <3>. HIDE DEF view
    <3>. QED  BY <1>1, <1>3, <1>7, <2>1, <2>2 DEF ShellsTyped, Moved
  <2>. HIDE DEF view, item
  <2>. QED  BY <2>3, <2>4, GeometryKnown
<1>. QED  BY <1>4, <1>5, <1>6, <1>7

LEMMA SubsurfaceUpdatesNothing ==
  ASSUME WindowTypeOK, NEW c \in Children, NEW place \in Places, NEW hasBuffer \in BOOLEAN,
         SubsurfaceUpdates(c, place, hasBuffer), ~subsurface[c].live
  PROVE  children' = children /\ shown' = shown /\ ~subsurface'[c].live
BY DEF SubsurfaceUpdates, WindowTypeOK, SubsurfaceType
-----------------------------------------------------------------------------
(* What a request on one child leaves alone *)

\* Of the other children it changes nothing,
ObjectsKept(c) ==
  /\ UNCHANGED <<open, object, kind, alive, mapped, joining, attribute, knows, missed>>
  /\ drawn \subseteq drawn' /\ redrawn \subseteq redrawn' /\ redrawn' \subseteq redrawn \union {c}
  /\ orphaned \subseteq orphaned' /\ orphaned' \subseteq orphaned \union {c}
  /\ shifted \subseteq shifted' \union {c}
  /\ \A d \in Children \ {c} :
       /\ surfaceId'[d] = surfaceId[d] /\ role'[d] = role[d] /\ valid'[d] = valid[d]
       /\ subsurface'[d] = subsurface[d] /\ popup'[d] = popup[d]
       /\ d \in shifted' => d \in shifted

\* and of the items only the mapped one, at an id that is known to be c's or nobody's.
ShellsKept(c) ==
  \A i \in Items, id \in Ids :
    i # PanelItem \/ id \notin drawn \/ (\E d \in Children \ {c} : surfaceId[d] = id) =>
      children'[i][id] = children[i][id] /\ shown'[i][id] = shown[i][id]

LEMMA ObjectsKeptByRequests ==
  ASSUME Order, NEW c \in Children, ChildRequest(c)
  PROVE  ObjectsKept(c)
<1>. USE DEF objectVars, kidVars, itemVars, attributeVars, shellVars, historyVars, ObjectsKept
<1>. WindowTypeOK
  BY DEF Order
<1>1. ASSUME NEW id \in Ids, GetSubsurface(c, id) PROVE ObjectsKept(c)
  BY <1>1 DEF GetSubsurface, WindowTypeOK
<1>2. ASSUME NEW place \in Places, SetPosition(c, place) PROVE ObjectsKept(c)
  BY <1>2 DEF SetPosition, WindowTypeOK
<1>3. ASSUME NEW hasBuffer \in BOOLEAN, CommitSubsurface(c, hasBuffer) PROVE ObjectsKept(c)
  BY <1>3 DEF CommitSubsurface, SubsurfaceUpdates, WindowTypeOK
<1>4. ASSUME SetDesync(c) PROVE ObjectsKept(c)
  BY <1>4 DEF SetDesync, SubsurfaceUpdates, WindowTypeOK
<1>5. ASSUME DestroySubsurface(c) PROVE ObjectsKept(c)
  BY <1>5 DEF DestroySubsurface, WindowTypeOK
<1>6. ASSUME NEW d \in Data, Reposition(c, d) PROVE ObjectsKept(c)
  BY <1>6 DEF Reposition, WindowTypeOK
<1>7. ASSUME NEW d \in Data, NEW id \in Ids, GetPopup(c, d, id) PROVE ObjectsKept(c)
  BY <1>7 DEF GetPopup, WindowTypeOK
<1>8. ASSUME AckConfigure(c) PROVE ObjectsKept(c)
  BY <1>8 DEF AckConfigure
<1>9. ASSUME NEW hasBuffer \in BOOLEAN, CommitPopup(c, hasBuffer) PROVE ObjectsKept(c)
  BY <1>9 DEF CommitPopup, WindowTypeOK
<1>10. ASSUME DestroyPopup(c) PROVE ObjectsKept(c)
  BY <1>10 DEF DestroyPopup, WindowTypeOK
<1>11. ASSUME ParentGoes(c) PROVE ObjectsKept(c)
  BY <1>11 DEF ParentGoes
<1>. QED
  BY <1>1, <1>2, <1>3, <1>4, <1>5, <1>6, <1>7, <1>8, <1>9, <1>10, <1>11 DEF ChildRequest

LEMMA ShellsKeptByRequests ==
  ASSUME Order, NEW c \in Children, ChildRequest(c)
  PROVE  ShellsKept(c)
<1>. USE DEF objectVars, kidVars, itemVars, attributeVars, shellVars, historyVars
<1>. WindowTypeOK /\ IdsInOrder /\ SubsurfaceInOrder(c) /\ PopupInOrder(c)
  BY DEF Order, ObjectsInOrder
<1>0. /\ surfaceId[c] # NoId => surfaceId[c] \in drawn
      /\ \A d \in Children \ {c} : surfaceId[d] # NoId => surfaceId[d] # surfaceId[c]
      /\ NoId \notin Ids
  BY NullAssumption DEF IdsInOrder
<1>1. ASSUME UNCHANGED shellVars PROVE ShellsKept(c)
  BY <1>1 DEF ShellsKept
<1>2. ASSUME RemoveChild(c) PROVE ShellsKept(c)
  <2>. SUFFICES ASSUME NEW i \in Items, NEW id \in Ids,
                       i # PanelItem \/ id \notin drawn
                         \/ (\E d \in Children \ {c} : surfaceId[d] = id)
                PROVE  children'[i][id] = children[i][id] /\ shown'[i][id] = shown[i][id]
    BY DEF ShellsKept
  <2>1. ~EntryOf(c, i, id)
    BY <1>0 DEF EntryOf
  <2>. QED  BY <1>2, <2>1, RemoveChildEffect
<1>3. ASSUME NEW place \in Places, NEW hasBuffer \in BOOLEAN,
             SubsurfaceUpdates(c, place, hasBuffer)
      PROVE  ShellsKept(c)
  <2>1. CASE subsurface[c].live
    <3>. SUFFICES ASSUME NEW i \in Items, NEW id \in Ids,
                         i # PanelItem \/ id \notin drawn
                           \/ (\E d \in Children \ {c} : surfaceId[d] = id)
                  PROVE  children'[i][id] = children[i][id] /\ shown'[i][id] = shown[i][id]
      BY DEF ShellsKept
    <3>1. ~EntryOf(c, i, id) /\ (i # PanelItem \/ (id # subsurface[c].id /\ id # surfaceId[c]))
      BY <1>0, <2>1 DEF EntryOf, SubsurfaceInOrder
    <3>2. \A j \in Items, e \in Ids :
            /\ children'[j][e] = IF Adds(c, hasBuffer) /\ EntryOf(c, j, e) THEN c ELSE children[j][e]
            /\ ~Reaches(hasBuffer) \/ j # PanelItem => shown'[j][e] = shown[j][e]
            /\ Reaches(hasBuffer) /\ j = PanelItem =>
                 shown'[j][e] =
                   IF Adds(c, hasBuffer) /\ e = subsurface[c].id THEN place
                   ELSE IF e = surfaceId[c] /\ shown[j][e] # Unknown THEN place
                   ELSE shown[j][e]
      BY <1>3, <2>1, SubsurfaceUpdatesEffect
    <3>. QED  BY <3>1, <3>2
  <2>2. CASE ~subsurface[c].live
    BY <1>3, <2>2, SubsurfaceUpdatesNothing DEF ShellsKept
  <2>. QED  BY <2>1, <2>2
<1>4. ASSUME NEW hasBuffer \in BOOLEAN, CommitSubsurface(c, hasBuffer) PROVE ShellsKept(c)
  <2>1. subsurface[c].pending \in Places
    BY DEF WindowTypeOK, SubsurfaceType
  <2>. QED  BY <1>3, <1>4, <2>1 DEF CommitSubsurface
<1>5. ASSUME SetDesync(c) PROVE ShellsKept(c)
  <2>1. subsurface[c].place \in Places /\ valid[c] \in BOOLEAN
    BY DEF WindowTypeOK, SubsurfaceType
  <2>. QED  BY <1>3, <1>5, <2>1 DEF SetDesync
<1>6. ASSUME NEW d \in Data, Reposition(c, d) PROVE ShellsKept(c)
  <2>. SUFFICES ASSUME NEW i \in Items, NEW id \in Ids,
                       i # PanelItem \/ id \notin drawn
                         \/ (\E e \in Children \ {c} : surfaceId[e] = id)
                PROVE  children'[i][id] = children[i][id] /\ shown'[i][id] = shown[i][id]
    BY DEF ShellsKept
  <2>1. ~EntryOf(c, i, id)
    BY <1>0 DEF EntryOf
  <2>. QED  BY <1>6, <2>1, RepositionEffect
<1>7. ASSUME NEW hasBuffer \in BOOLEAN, CommitPopup(c, hasBuffer) PROVE ShellsKept(c)
  <2>. SUFFICES ASSUME NEW i \in Items, NEW id \in Ids,
                       i # PanelItem \/ id \notin drawn
                         \/ (\E e \in Children \ {c} : surfaceId[e] = id)
                PROVE  children'[i][id] = children[i][id] /\ shown'[i][id] = shown[i][id]
    BY DEF ShellsKept
  <2>1. ~EntryOf(c, i, id)
    BY <1>0 DEF EntryOf
  <2>. QED  BY <1>7, <2>1, CommitPopupEffect
<1>. QED
  BY <1>1, <1>2, <1>4, <1>5, <1>6, <1>7
     DEF ChildRequest, GetSubsurface, SetPosition, ParentGoes, DestroySubsurface, GetPopup,
         AckConfigure, DestroyPopup
-----------------------------------------------------------------------------
(* Order is inductive *)

LEMMA ItemsStep == Order /\ [WindowNext]_windowVars => ItemsInOrder'
<1>. SUFFICES ASSUME Order, [WindowNext]_windowVars PROVE ItemsInOrder'
  OBVIOUS
<1>. USE DEF objectVars, kidVars, itemVars, attributeVars, shellVars, historyVars
<1>. WindowTypeOK /\ WindowTypeOK' /\ ItemsInOrder
  BY TypingStep DEF Order
<1>1. ASSUME NEW c \in Children, ChildRequest(c) PROVE ItemsInOrder'
  <2>1. UNCHANGED <<open, kind, alive, mapped, joining>>
    BY <1>1, ObjectsKeptByRequests DEF ObjectsKept
  <2>2. \A i \in Items : (kind[i] = "free" \/ i = joining) => Fresh(i)'
    <3>. SUFFICES ASSUME NEW i \in Items, kind[i] = "free" \/ i = joining PROVE Fresh(i)'
      OBVIOUS
    <3>1. i # PanelItem
      BY PanelItemTyped, NullAssumption DEF ItemsInOrder
    <3>2. \A id \in Ids : children'[i][id] = children[i][id] /\ shown'[i][id] = shown[i][id]
      BY <1>1, <3>1, ShellsKeptByRequests DEF ShellsKept
    <3>3. Fresh(i)
      BY DEF ItemsInOrder
    <3>4. children'[i] \in [Ids -> Children \union {NoSurface}]
          /\ shown'[i] \in [Ids -> Geometries \union {Unknown}]
      BY DEF WindowTypeOK
    <3>. QED  BY <3>2, <3>3, <3>4 DEF Fresh
  <2>. QED  BY <2>1, <2>2 DEF ItemsInOrder
<1>2. ASSUME UNCHANGED <<open, itemVars, shellVars>> PROVE ItemsInOrder'
  BY <1>2 DEF ItemsInOrder, Fresh
<1>3. CASE DestroyToplevel
  BY <1>3, NullAssumption DEF DestroyToplevel, ItemsInOrder, Fresh
<1>4. ASSUME NEW a \in Attributes, SetAttribute(a) PROVE ItemsInOrder'
  BY <1>2, <1>4 DEF SetAttribute
<1>5. CASE Install
  BY <1>5, NullAssumption DEF Install, ItemsInOrder, Fresh
<1>6. ASSUME NEW i \in Items, Accepted(i) PROVE ItemsInOrder'
  BY <1>6, NullAssumption DEF Accepted, ItemsInOrder, Fresh, WindowTypeOK
<1>7. ASSUME NEW s \in Surfaces, DestroySurface(s) PROVE ItemsInOrder'
  BY <1>2, <1>7 DEF DestroySurface
<1>8. ASSUME NEW i \in Items, UiCreated(i) PROVE ItemsInOrder'
  BY <1>8, NullAssumption DEF UiCreated, ItemsInOrder, Fresh, WindowTypeOK
<1>9. ASSUME NEW i \in Items, AcceptorDies(i) PROVE ItemsInOrder'
  BY <1>9 DEF AcceptorDies, ItemsInOrder, Fresh, WindowTypeOK
<1>10. CASE UNCHANGED stateVars
  BY <1>2, <1>10 DEF stateVars
<1>. QED
  BY <1>1, <1>3, <1>4, <1>5, <1>6, <1>7, <1>8, <1>9, <1>10
     DEF WindowNext, WindowStep, windowVars

\* The steps that are no child's request, as far as ids and child objects go.
LEMMA OtherSteps ==
  ASSUME [WindowNext]_windowVars, \A c \in Children : ~ChildRequest(c)
  PROVE  UNCHANGED <<role, surfaceId, orphaned, valid, subsurface, popup, children, shown,
                     historyVars>>
BY DEF WindowNext, WindowStep, windowVars, stateVars, objectVars, kidVars, itemVars,
       attributeVars, shellVars, historyVars, DestroyToplevel, SetAttribute, Install, Accepted,
       DestroySurface, UiCreated, AcceptorDies

LEMMA IdDrawn ==
  ASSUME WindowTypeOK, NEW c \in Children, ChildRequest(c)
  PROVE  \/ surfaceId'[c] = surfaceId[c]
         \/ surfaceId[c] = NoId /\ surfaceId'[c] \in Ids \ drawn /\ surfaceId'[c] \in drawn'
<1>. USE DEF objectVars, historyVars
<1>1. ASSUME NEW id \in Ids, GetSubsurface(c, id) \/ \E d \in Data : GetPopup(c, d, id)
      PROVE  \/ surfaceId'[c] = surfaceId[c]
             \/ surfaceId[c] = NoId /\ surfaceId'[c] = id /\ id \notin drawn /\ id \in drawn'
  BY <1>1 DEF GetSubsurface, GetPopup, WindowTypeOK
<1>2. ASSUME UNCHANGED surfaceId PROVE surfaceId'[c] = surfaceId[c]
  BY <1>2
<1>. QED
  BY <1>1, <1>2 DEF ChildRequest, SetPosition, CommitSubsurface, SetDesync, ParentGoes,
                    DestroySubsurface, Reposition, AckConfigure, CommitPopup, DestroyPopup

LEMMA IdsStep == Order /\ [WindowNext]_windowVars => IdsInOrder'
<1>. SUFFICES ASSUME Order, [WindowNext]_windowVars PROVE IdsInOrder'
  OBVIOUS
<1>. USE DEF objectVars, kidVars, itemVars, attributeVars, shellVars, historyVars
<1>. WindowTypeOK /\ IdsInOrder /\ NoId \notin Ids
  BY NullAssumption DEF Order
<1>1. ASSUME NEW c \in Children, ChildRequest(c) PROVE IdsInOrder'
  <2>1. \/ surfaceId'[c] = surfaceId[c]
        \/ surfaceId[c] = NoId /\ surfaceId'[c] \in Ids \ drawn /\ surfaceId'[c] \in drawn'
    BY <1>1, IdDrawn
  <2>2. drawn \subseteq drawn' /\ \A d \in Children \ {c} : surfaceId'[d] = surfaceId[d]
    BY <1>1, ObjectsKeptByRequests DEF ObjectsKept
  <2>3. \A i \in Items, id \in Ids \ drawn' :
          children'[i][id] = NoSurface /\ shown'[i][id] = Unknown
    BY <1>1, <2>2, ShellsKeptByRequests DEF ShellsKept, IdsInOrder
  <2>4. \A e \in Children : surfaceId'[e] # NoId => surfaceId'[e] \in drawn'
    BY <2>1, <2>2 DEF IdsInOrder
  <2>5. \A d, e \in Children : surfaceId'[d] # NoId /\ surfaceId'[d] = surfaceId'[e] => d = e
    BY <2>1, <2>2 DEF IdsInOrder
  <2>. QED  BY <2>3, <2>4, <2>5 DEF IdsInOrder
<1>2. CASE \A c \in Children : ~ChildRequest(c)
  BY <1>2, OtherSteps DEF IdsInOrder
<1>. QED  BY <1>1, <1>2

LEMMA ObjectsStep == Order /\ [WindowNext]_windowVars => ObjectsInOrder'
<1>. SUFFICES ASSUME Order, [WindowNext]_windowVars PROVE ObjectsInOrder'
  OBVIOUS
<1>. USE DEF objectVars, kidVars, itemVars, attributeVars, shellVars, historyVars
<1>. WindowTypeOK /\ WindowTypeOK' /\ IdsInOrder /\ IdsInOrder' /\ NoId \notin Ids
  BY NullAssumption, TypingStep, IdsStep DEF Order
<1>. \A d \in Children : SubsurfaceInOrder(d) /\ PopupInOrder(d)
  BY DEF Order, ObjectsInOrder
<1>1. ASSUME NEW c \in Children, ChildRequest(c) PROVE ObjectsInOrder'
  <2>0. ObjectsKept(c)
    BY <1>1, ObjectsKeptByRequests
  <2>1. \/ surfaceId'[c] = surfaceId[c]
        \/ surfaceId[c] = NoId /\ surfaceId'[c] \in Ids \ drawn /\ surfaceId'[c] \in drawn'
    BY <1>1, IdDrawn
  <2>2. \A d \in Children \ {c} : (SubsurfaceInOrder(d) /\ PopupInOrder(d))'
    <3>. SUFFICES ASSUME NEW d \in Children \ {c}
                  PROVE  (SubsurfaceInOrder(d) /\ PopupInOrder(d))'
      OBVIOUS
    <3>1. SubsurfaceInOrder(d)'
      BY <2>0, <2>1 DEF SubsurfaceInOrder, ObjectsKept
    <3>2. PopupInOrder(d)'
      BY <2>0, <2>1 DEF PopupInOrder, ObjectsKept
    <3>. QED  BY <3>1, <3>2
  <2>3. (SubsurfaceInOrder(c) /\ PopupInOrder(c))'
    <3>1. ASSUME NEW id \in Ids, GetSubsurface(c, id)
          PROVE  (SubsurfaceInOrder(c) /\ PopupInOrder(c))'
      <4>1. ~popup'[c].live
        BY <3>1 DEF GetSubsurface, PopupInOrder
      <4>2. subsurface'[c].id = id
        BY <3>1 DEF GetSubsurface, WindowTypeOK, NoSubsurface
      <4>3. /\ role'[c] = "Subsurface" /\ id \in drawn' /\ id \notin drawn
            /\ surfaceId' = [surfaceId EXCEPT ![c] = IF @ = NoId THEN id ELSE @]
            /\ redrawn' = IF surfaceId[c] = NoId THEN redrawn ELSE redrawn \union {c}
        BY <3>1 DEF GetSubsurface, WindowTypeOK
      <4>4. \A d \in Children : surfaceId'[d] = id => d = c
        BY <4>3 DEF IdsInOrder, WindowTypeOK
      <4>5. surfaceId'[c] # NoId /\ (c \notin redrawn' => id = surfaceId'[c])
        BY <4>3 DEF WindowTypeOK
      <4>6. SubsurfaceInOrder(c)'
        BY <4>2, <4>3, <4>4, <4>5 DEF SubsurfaceInOrder
      <4>. QED  BY <4>1, <4>6 DEF PopupInOrder
    <3>2. ASSUME NEW place \in Places, SetPosition(c, place)
          PROVE  (SubsurfaceInOrder(c) /\ PopupInOrder(c))'
      BY <3>2 DEF SetPosition, SubsurfaceInOrder, PopupInOrder, WindowTypeOK, SubsurfaceType
    <3>3. ASSUME NEW place \in Places, NEW hasBuffer \in BOOLEAN,
                 SubsurfaceUpdates(c, place, hasBuffer),
                 UNCHANGED <<role, surfaceId, orphaned, popup, historyVars>>
          PROVE  (SubsurfaceInOrder(c) /\ PopupInOrder(c))'
      <4>1. subsurface'[c].live = subsurface[c].live /\ subsurface'[c].id = subsurface[c].id
        BY <3>3 DEF SubsurfaceUpdates, WindowTypeOK, SubsurfaceType
      <4>. QED  BY <3>3, <4>1 DEF SubsurfaceInOrder, PopupInOrder
    <3>4. ASSUME NEW hasBuffer \in BOOLEAN, CommitSubsurface(c, hasBuffer)
          PROVE  (SubsurfaceInOrder(c) /\ PopupInOrder(c))'
      <4>1. subsurface[c].pending \in Places
        BY DEF WindowTypeOK, SubsurfaceType
      <4>. QED  BY <3>3, <3>4, <4>1 DEF CommitSubsurface
    <3>5. ASSUME SetDesync(c) PROVE (SubsurfaceInOrder(c) /\ PopupInOrder(c))'
      <4>1. subsurface[c].place \in Places /\ valid[c] \in BOOLEAN
        BY DEF WindowTypeOK, SubsurfaceType
      <4>. QED  BY <3>3, <3>5, <4>1 DEF SetDesync
    <3>6. ASSUME DestroySubsurface(c) PROVE (SubsurfaceInOrder(c) /\ PopupInOrder(c))'
      BY <3>6 DEF DestroySubsurface, SubsurfaceInOrder, PopupInOrder, WindowTypeOK,
                  NoSubsurface
    <3>7. ASSUME NEW d \in Data, Reposition(c, d)
          PROVE  (SubsurfaceInOrder(c) /\ PopupInOrder(c))'
      <4>1. /\ popup'[c].live /\ popup'[c].data = d /\ popup'[c].info = popup[c].info
            /\ popup'[c].adding = popup[c].adding /\ popup[c].live
        BY <3>7 DEF Reposition, WindowTypeOK, PopupType
      <4>2. /\ UNCHANGED <<role, surfaceId, orphaned, subsurface, drawn, redrawn>>
            /\ popup[c].adding => c \in shifted'
        BY <3>7 DEF Reposition
      <4>. QED  BY <4>1, <4>2 DEF SubsurfaceInOrder, PopupInOrder
    <3>8. ASSUME NEW d \in Data, NEW id \in Ids, GetPopup(c, d, id)
          PROVE  (SubsurfaceInOrder(c) /\ PopupInOrder(c))'
      <4>1. ~subsurface'[c].live
        BY <3>8 DEF GetPopup, SubsurfaceInOrder
      <4>2. popup'[c] = [live |-> TRUE, data |-> d, info |-> InfiniteGeometry(d),
                         adding |-> TRUE]
        BY <3>8 DEF GetPopup, WindowTypeOK
      <4>3. role'[c] = "XdgPopup" /\ surfaceId'[c] # NoId
        BY <3>8 DEF GetPopup, WindowTypeOK
      <4>4. PopupInOrder(c)'
        BY <4>2, <4>3 DEF PopupInOrder
      <4>5. c \notin orphaned'
        BY <3>8 DEF GetPopup, SubsurfaceInOrder
      <4>. QED  BY <4>1, <4>3, <4>4, <4>5 DEF SubsurfaceInOrder
    <3>9. ASSUME AckConfigure(c) PROVE (SubsurfaceInOrder(c) /\ PopupInOrder(c))'
      BY <3>9 DEF AckConfigure, SubsurfaceInOrder, PopupInOrder
    <3>10. ASSUME NEW hasBuffer \in BOOLEAN, CommitPopup(c, hasBuffer)
           PROVE  (SubsurfaceInOrder(c) /\ PopupInOrder(c))'
      <4>1. /\ popup'[c].live = popup[c].live /\ popup'[c].data = popup[c].data
            /\ popup'[c].info = popup[c].info
            /\ popup'[c].adding => popup[c].adding
        BY <3>10, CommitPopupEffect DEF WindowTypeOK, PopupType
      <4>2. UNCHANGED <<role, surfaceId, orphaned, subsurface, historyVars>>
        BY <3>10 DEF CommitPopup
      <4>. QED  BY <4>1, <4>2 DEF SubsurfaceInOrder, PopupInOrder
    <3>11. ASSUME DestroyPopup(c) PROVE (SubsurfaceInOrder(c) /\ PopupInOrder(c))'
      BY <3>11 DEF DestroyPopup, SubsurfaceInOrder, PopupInOrder, WindowTypeOK, NoPopup
    <3>12. ASSUME ParentGoes(c) PROVE (SubsurfaceInOrder(c) /\ PopupInOrder(c))'
      BY <3>12 DEF ParentGoes, SubsurfaceInOrder, PopupInOrder
    <3>. QED
      BY <1>1, <3>1, <3>2, <3>4, <3>5, <3>6, <3>7, <3>8, <3>9, <3>10, <3>11, <3>12
         DEF ChildRequest
  <2>. QED  BY <2>2, <2>3 DEF ObjectsInOrder
<1>2. CASE \A c \in Children : ~ChildRequest(c)
  BY <1>2, OtherSteps DEF ObjectsInOrder, SubsurfaceInOrder, PopupInOrder
<1>. QED  BY <1>1, <1>2

LEMMA OrderStep == Order /\ [WindowNext]_windowVars => Order'
BY TypingStep, ItemsStep, IdsStep, ObjectsStep DEF Order
-----------------------------------------------------------------------------
(* The children of a shell *)

\* ChildrenAgree, ChildrenLive and PlacesFollow, for one child.
Agrees(c) ==
  surfaceId[c] # NoId =>
    \A i \in Items : shown[i][surfaceId[c]] # Unknown <=> children[i][surfaceId[c]] = c

ShowsLive(c) ==
  surfaceId[c] # NoId /\ mapped # NoItem /\ shown[mapped][surfaceId[c]] # Unknown =>
    RoleObject(c) \/ c \in orphaned

KeepsLive(c) ==
  surfaceId[c] # NoId /\ RoleObject(c) /\ ~subsurface[c].adding /\ ~popup[c].adding =>
    \E i \in Items : children[i][surfaceId[c]] = c

Follows(c) ==
  surfaceId[c] # NoId /\ mapped # NoItem /\ shown[mapped][surfaceId[c]] # Unknown =>
    /\ subsurface[c].live /\ valid[c] /\ c \notin redrawn =>
         shown[mapped][surfaceId[c]] = subsurface[c].place
    /\ popup[c].live /\ c \notin shifted =>
         shown[mapped][surfaceId[c]] = InfiniteGeometry(popup[c].data)

Child(c) == /\ c \notin redrawn => Agrees(c)
            /\ ShowsLive(c) /\ KeepsLive(c) /\ Follows(c)

Kids == \A c \in Children : Child(c)

LEMMA KidsMean == Order /\ Kids => ChildrenAgree /\ ChildrenLive /\ PlacesFollow
<1>. SUFFICES ASSUME Order, Kids PROVE ChildrenAgree /\ ChildrenLive /\ PlacesFollow
  OBVIOUS
<1>1. ChildrenAgree /\ PlacesFollow
  BY DEF Kids, Child, Agrees, Follows, ChildrenAgree, PlacesFollow
<1>2. ASSUME mapped # NoItem, NEW id \in Ids \ SecondIds, shown[mapped][id] # Unknown
      PROVE  \E c \in Children : surfaceId[c] = id /\ (RoleObject(c) \/ c \in orphaned)
  <2>1. id \in drawn
    BY <1>2 DEF Order, WindowTypeOK, IdsInOrder
  <2>2. PICK c \in Children : surfaceId[c] = id
    BY <1>2, <2>1 DEF SecondIds
  <2>. QED  BY <1>2, <2>2, NullAssumption DEF Kids, Child, ShowsLive
<1>3. \A c \in Children : RoleObject(c) => surfaceId[c] # NoId
  BY DEF Order, ObjectsInOrder, SubsurfaceInOrder, PopupInOrder, RoleObject
<1>4. ChildrenLive
  BY <1>2, <1>3 DEF ChildrenLive, Kids, Child, KeepsLive
<1>. QED  BY <1>1, <1>4

\* What holds of a child holds after a request on another.
LEMMA OthersKept ==
  ASSUME Order, NEW c \in Children, ChildRequest(c), NEW d \in Children \ {c}, Child(d)
  PROVE  Child(d)'
<1>1. ObjectsKept(c) /\ ShellsKept(c)
  BY ObjectsKeptByRequests, ShellsKeptByRequests
<1>2. surfaceId[d] \in Ids \union {NoId} /\ mapped \in Items \union {NoItem}
  BY DEF Order, WindowTypeOK
<1>3. /\ surfaceId'[d] = surfaceId[d] /\ subsurface'[d] = subsurface[d]
      /\ popup'[d] = popup[d] /\ valid'[d] = valid[d] /\ mapped' = mapped
      /\ (d \in redrawn <=> d \in redrawn') /\ (d \in orphaned => d \in orphaned')
      /\ d \in shifted => d \in shifted'
  BY <1>1 DEF ObjectsKept
<1>4. surfaceId[d] # NoId =>
        \A i \in Items : /\ children'[i][surfaceId[d]] = children[i][surfaceId[d]]
                         /\ shown'[i][surfaceId[d]] = shown[i][surfaceId[d]]
  BY <1>1, <1>2 DEF ShellsKept
<1>5. (d \notin redrawn => Agrees(d))'
  BY <1>3, <1>4 DEF Agrees, Child
<1>6. ShowsLive(d)'
  BY <1>2, <1>3, <1>4 DEF ShowsLive, Child, RoleObject
<1>7. KeepsLive(d)'
  BY <1>3, <1>4 DEF KeepsLive, Child, RoleObject
<1>8. Follows(d)'
  BY <1>2, <1>3, <1>4 DEF Follows, Child
<1>. QED  BY <1>5, <1>6, <1>7, <1>8 DEF Child

\* A role object's end takes the child from the shell and from the map.
LEMMA RemovedChild ==
  ASSUME Order, NEW c \in Children, RemoveChild(c), Child(c), ~RoleObject(c)',
         UNCHANGED <<surfaceId, mapped, open, redrawn>>
  PROVE  Child(c)'
<1>1. WindowTypeOK /\ (mapped # NoItem => open) /\ surfaceId[c] \in Ids \union {NoId}
  BY DEF Order, ItemsInOrder, WindowTypeOK
<1>2. surfaceId[c] # NoId =>
        \A i \in Items :
          /\ children'[i][surfaceId[c]] =
               IF mapped # NoItem /\ i = mapped THEN NoSurface ELSE children[i][surfaceId[c]]
          /\ shown'[i][surfaceId[c]] =
               IF mapped # NoItem /\ i = mapped THEN Unknown ELSE shown[i][surfaceId[c]]
  BY <1>1, RemoveChildEffect DEF EntryOf, PanelItem
<1>3. (c \notin redrawn => Agrees(c))'
  BY <1>2, SurfaceAssumption DEF Agrees, Child
<1>4. mapped # NoItem => mapped \in Items
  BY <1>1 DEF WindowTypeOK
<1>5. ShowsLive(c)'
  BY <1>2, <1>4 DEF ShowsLive
<1>6. Follows(c)'
  BY DEF Follows, RoleObject
<1>. QED  BY <1>3, <1>5, <1>6 DEF KeepsLive, Child

\* Unless its parent is gone: then all stay as they are, with the shell's view.
LEMMA LeftChild ==
  ASSUME NEW c \in Children, Child(c), c \in orphaned, ~RoleObject(c)',
         UNCHANGED <<surfaceId, mapped, redrawn, orphaned, children, shown>>
  PROVE  Child(c)'
BY DEF Child, Agrees, ShowsLive, KeepsLive, Follows, RoleObject

\* The first id of a surface: no shell and no map has it yet.
LEMMA UnknownChild ==
  ASSUME Order, NEW c \in Children, surfaceId'[c] \in Ids \ drawn,
         UNCHANGED <<children, shown, mapped>>, subsurface'[c].adding \/ popup'[c].adding
  PROVE  Child(c)'
<1>1. \A i \in Items : children[i][surfaceId'[c]] = NoSurface /\ shown[i][surfaceId'[c]] = Unknown
  BY DEF Order, IdsInOrder
<1>2. mapped # NoItem => mapped \in Items
  BY DEF Order, WindowTypeOK
<1>. QED
  BY <1>1, <1>2, SurfaceAssumption DEF Child, Agrees, ShowsLive, KeepsLive, Follows

\* A surface without role object that gets one: no shell shows it, or its parent is
\* gone and it gets its wl_subsurface again.
LEMMA AnewChild ==
  ASSUME Order, NEW c \in Children, Child(c), ~RoleObject(c), redrawn \subseteq redrawn',
         UNCHANGED <<surfaceId, children, shown, mapped, orphaned>>,
         c \in orphaned => c \in redrawn' /\ ~popup'[c].live,
         RoleObject(c)', subsurface'[c].adding \/ popup'[c].adding
  PROVE  Child(c)'
BY DEF Child, Agrees, ShowsLive, KeepsLive, Follows

LEMMA SubsurfaceChild ==
  ASSUME Order, NEW c \in Children, Child(c), NEW place \in Places, NEW hasBuffer \in BOOLEAN,
         role[c] = "Subsurface", SubsurfaceUpdates(c, place, hasBuffer),
         valid'[c] = hasBuffer,
         UNCHANGED <<open, mapped, surfaceId, orphaned, popup, redrawn, shifted>>
  PROVE  Child(c)'
<1>0. /\ WindowTypeOK /\ surfaceId[c] \in Ids \union {NoId} /\ ~popup[c].live
      /\ mapped # NoItem => mapped \in Items /\ open
      /\ SubsurfaceInOrder(c)
  BY DEF Order, ObjectsInOrder, WindowTypeOK, PopupInOrder, ItemsInOrder
<1>1. CASE ~subsurface[c].live
  <2>1. children' = children /\ shown' = shown /\ ~subsurface'[c].live
    BY <1>0, <1>1, SubsurfaceUpdatesNothing
  <2>. QED
    BY <1>0, <1>1, <2>1 DEF Child, Agrees, ShowsLive, KeepsLive, Follows, RoleObject
<1>2. CASE subsurface[c].live
  <2>1. /\ subsurface'[c].live /\ subsurface'[c].place = place
        /\ subsurface'[c].adding <=> subsurface[c].adding /\ ~Adds(c, hasBuffer)
    BY <1>0, <1>2, SubsurfaceUpdatesEffect
  <2>2. /\ surfaceId[c] \in Ids /\ mapped = PanelItem
        /\ c \notin redrawn => subsurface[c].id = surfaceId[c]
    BY <1>0, <1>2 DEF SubsurfaceInOrder, PanelItem
  <2>3. \A i \in Items :
          /\ children'[i][surfaceId[c]] =
               IF Adds(c, hasBuffer) /\ EntryOf(c, i, surfaceId[c]) THEN c
               ELSE children[i][surfaceId[c]]
          /\ ~Reaches(hasBuffer) \/ i # PanelItem =>
               shown'[i][surfaceId[c]] = shown[i][surfaceId[c]]
          /\ Reaches(hasBuffer) /\ i = PanelItem =>
               shown'[i][surfaceId[c]] =
                 IF Adds(c, hasBuffer) /\ surfaceId[c] = subsurface[c].id THEN place
                 ELSE IF shown[i][surfaceId[c]] # Unknown THEN place
                 ELSE shown[i][surfaceId[c]]
    BY <1>0, <1>2, <2>2, SubsurfaceUpdatesEffect
  <2>4. Adds(c, hasBuffer) => Reaches(hasBuffer)
    BY DEF Adds
  <2>5. (c \notin redrawn => Agrees(c))'
    <3>. SUFFICES ASSUME c \notin redrawn, NEW i \in Items
                  PROVE  shown'[i][surfaceId[c]] # Unknown <=> children'[i][surfaceId[c]] = c
      BY DEF Agrees
    <3>1. shown[i][surfaceId[c]] # Unknown <=> children[i][surfaceId[c]] = c
      BY <2>2, NullAssumption DEF Child, Agrees
    <3>2. CASE Reaches(hasBuffer) /\ i = PanelItem
      <4>1. PanelItem # NoItem
        BY <3>2 DEF Reaches
      <4>. QED  BY <2>2, <2>3, <3>1, <3>2, <4>1, GeometryKnown DEF EntryOf
    <3>3. CASE ~(Reaches(hasBuffer) /\ i = PanelItem)
      BY <2>3, <2>4, <3>1, <3>3 DEF EntryOf
    <3>. QED  BY <3>2, <3>3
  <2>6. ShowsLive(c)'
    BY <2>1 DEF ShowsLive, RoleObject
  <2>7. KeepsLive(c)'
    <3>1. CASE Adds(c, hasBuffer)
      <4>1. EntryOf(c, mapped, surfaceId[c]) /\ mapped \in Items
        BY <1>0, <2>2, <3>1 DEF Adds, Reaches, EntryOf
      <4>. QED  BY <2>3, <3>1, <4>1 DEF KeepsLive
    <3>2. CASE ~Adds(c, hasBuffer)
      BY <1>2, <2>1, <2>3, <3>2 DEF KeepsLive, Child, RoleObject
    <3>. QED  BY <3>1, <3>2
  <2>8. Follows(c)'
    <3>. SUFFICES ASSUME mapped # NoItem, shown'[mapped][surfaceId[c]] # Unknown, hasBuffer,
                         c \notin redrawn
                  PROVE  shown'[mapped][surfaceId[c]] = place
      BY <1>0, <2>1 DEF Follows
    <3>1. Reaches(hasBuffer) /\ mapped \in Items
      BY <1>0, <2>2 DEF Reaches
    <3>. QED  BY <2>2, <2>3, <3>1
  <2>. QED  BY <2>5, <2>6, <2>7, <2>8 DEF Child
<1>. QED  BY <1>1, <1>2

LEMMA CommittedPopup ==
  ASSUME Order, NEW c \in Children, Child(c), NEW hasBuffer \in BOOLEAN,
         CommitPopup(c, hasBuffer)
  PROVE  Child(c)'
<1>0. /\ WindowTypeOK /\ surfaceId[c] \in Ids \union {NoId} /\ PopupInOrder(c)
      /\ mapped # NoItem => mapped \in Items /\ open
      /\ SubsurfaceInOrder(c)
  BY DEF Order, ObjectsInOrder, WindowTypeOK, ItemsInOrder
<1>1. /\ UNCHANGED <<open, mapped, surfaceId, orphaned, subsurface, redrawn, shifted>>
      /\ ~subsurface[c].live
  BY <1>0 DEF CommitPopup, itemVars, historyVars, SubsurfaceInOrder
<1>2. CASE UNCHANGED <<children, shown, popup>>
  BY <1>1, <1>2 DEF Child, Agrees, ShowsLive, KeepsLive, Follows, RoleObject
<1>3. CASE /\ popup[c].live /\ popup[c].adding /\ PanelItem # NoItem
           /\ popup' = [popup EXCEPT ![c].adding = FALSE]
           /\ \A i \in Items, id \in Ids :
                /\ children'[i][id] = IF EntryOf(c, i, id) THEN c ELSE children[i][id]
                /\ shown'[i][id] = IF EntryOf(c, i, id) THEN popup[c].info ELSE shown[i][id]
  <2>1. /\ surfaceId[c] \in Ids /\ mapped = PanelItem /\ mapped \in Items
        /\ popup[c].info # Unknown
        /\ c \notin shifted => popup[c].info = InfiniteGeometry(popup[c].data)
    BY <1>0, <1>3, GeometryKnown DEF PopupInOrder, PanelItem
  <2>2. /\ popup'[c].live /\ popup'[c].data = popup[c].data
    BY <1>0, <1>3 DEF WindowTypeOK, PopupType
  <2>3. \A i \in Items :
          /\ children'[i][surfaceId[c]] = IF i = mapped THEN c ELSE children[i][surfaceId[c]]
          /\ shown'[i][surfaceId[c]] = IF i = mapped THEN popup[c].info
                                       ELSE shown[i][surfaceId[c]]
    BY <1>3, <2>1 DEF EntryOf
  <2>4. (c \notin redrawn => Agrees(c))'
    BY <1>1, <2>1, <2>3 DEF Agrees, Child
  <2>5. ShowsLive(c)' /\ KeepsLive(c)'
    BY <1>1, <2>1, <2>2, <2>3 DEF ShowsLive, KeepsLive, RoleObject
  <2>6. Follows(c)'
    BY <1>1, <2>1, <2>2, <2>3 DEF Follows
  <2>. QED  BY <2>4, <2>5, <2>6 DEF Child
<1>. QED  BY <1>0, <1>2, <1>3, CommitPopupEffect

LEMMA RepositionedPopup ==
  ASSUME Order, NEW c \in Children, Child(c), NEW d \in Data, Reposition(c, d)
  PROVE  Child(c)'
<1>0. /\ WindowTypeOK /\ surfaceId[c] \in Ids \union {NoId} /\ PopupInOrder(c)
      /\ mapped # NoItem => mapped \in Items /\ open
      /\ SubsurfaceInOrder(c)
  BY DEF Order, ObjectsInOrder, WindowTypeOK, ItemsInOrder
<1>1. /\ UNCHANGED <<open, mapped, surfaceId, orphaned, subsurface, redrawn>>
      /\ children' = children
      /\ c \in shifted => c \in shifted'
      /\ popup[c].live
  BY DEF Reposition, objectVars, itemVars
<1>2. popup'[c].live /\ popup'[c].data = d /\ popup'[c].adding = popup[c].adding
  BY <1>0 DEF Reposition, WindowTypeOK, PopupType
<1>3. /\ surfaceId[c] \in Ids /\ mapped = PanelItem /\ ~subsurface[c].live
  BY <1>0, <1>1 DEF PopupInOrder, SubsurfaceInOrder, PanelItem
<1>4. \A i \in Items :
        shown'[i][surfaceId[c]] =
          IF mapped # NoItem /\ i = mapped /\ shown[i][surfaceId[c]] # Unknown
          THEN InfiniteGeometry(d) ELSE shown[i][surfaceId[c]]
  BY <1>0, <1>3, RepositionEffect DEF EntryOf
<1>5. InfiniteGeometry(d) # Unknown
  BY GeometryKnown
<1>6. (c \notin redrawn => Agrees(c))'
  BY <1>1, <1>4, <1>5 DEF Agrees, Child
<1>7. ShowsLive(c)'
  BY <1>2 DEF ShowsLive, RoleObject
<1>8. KeepsLive(c)'
  BY <1>1, <1>2 DEF KeepsLive, RoleObject, Child
<1>9. Follows(c)'
  BY <1>0, <1>1, <1>2, <1>3, <1>4 DEF Follows
<1>. QED  BY <1>6, <1>7, <1>8, <1>9 DEF Child

LEMMA RequestedChild ==
  ASSUME Order, NEW c \in Children, Child(c), ChildRequest(c)
  PROVE  Child(c)'
<1>. USE DEF objectVars, kidVars, itemVars, shellVars, historyVars
<1>0. /\ WindowTypeOK /\ SubsurfaceInOrder(c) /\ PopupInOrder(c)
      /\ redrawn \subseteq redrawn'
  BY ObjectsKeptByRequests DEF Order, ObjectsInOrder, ObjectsKept
<1>1. ASSUME NEW id \in Ids, GetSubsurface(c, id) PROVE Child(c)'
  <2>1. /\ ~RoleObject(c) /\ subsurface'[c].live /\ subsurface'[c].adding
        /\ c \in orphaned => c \in redrawn' /\ ~popup'[c].live
        /\ UNCHANGED <<children, shown, mapped, orphaned>>
    BY <1>0, <1>1 DEF GetSubsurface, SubsurfaceInOrder, PopupInOrder, RoleObject,
                      WindowTypeOK, NoSubsurface
  <2>2. surfaceId'[c] \in Ids \drawn \/ UNCHANGED surfaceId
    BY <1>0, <1>1 DEF GetSubsurface, WindowTypeOK
  <2>. QED  BY <1>0, <2>1, <2>2, UnknownChild, AnewChild DEF RoleObject
<1>2. ASSUME NEW place \in Places, SetPosition(c, place) PROVE Child(c)'
  <2>1. /\ subsurface'[c].live = subsurface[c].live
        /\ subsurface'[c].adding = subsurface[c].adding
        /\ subsurface'[c].place = subsurface[c].place
    BY <1>0, <1>2 DEF SetPosition, WindowTypeOK, SubsurfaceType
  <2>2. UNCHANGED <<surfaceId, orphaned, valid, popup, children, shown, mapped, redrawn,
                    shifted>>
    BY <1>2 DEF SetPosition
  <2>. QED  BY <2>1, <2>2 DEF Child, Agrees, ShowsLive, KeepsLive, Follows, RoleObject
<1>3. ASSUME NEW hasBuffer \in BOOLEAN, CommitSubsurface(c, hasBuffer) PROVE Child(c)'
  <2>1. subsurface[c].pending \in Places
    BY <1>0 DEF WindowTypeOK, SubsurfaceType
  <2>2. role[c] = "Subsurface" /\ SubsurfaceUpdates(c, subsurface[c].pending, hasBuffer)
        /\ valid'[c] = hasBuffer
        /\ UNCHANGED <<open, mapped, surfaceId, orphaned, popup, redrawn, shifted>>
    BY <1>0, <1>3 DEF CommitSubsurface, WindowTypeOK
  <2>. QED  BY <2>1, <2>2, SubsurfaceChild
<1>4. ASSUME SetDesync(c) PROVE Child(c)'
  <2>1. subsurface[c].place \in Places /\ valid[c] \in BOOLEAN
    BY <1>0 DEF WindowTypeOK, SubsurfaceType
  <2>2. role[c] = "Subsurface" /\ SubsurfaceUpdates(c, subsurface[c].place, valid[c])
        /\ valid'[c] = valid[c]
        /\ UNCHANGED <<open, mapped, surfaceId, orphaned, popup, redrawn, shifted>>
    BY <1>0, <1>4 DEF SetDesync, SubsurfaceInOrder
  <2>. QED  BY <2>1, <2>2, SubsurfaceChild
<1>5. ASSUME DestroySubsurface(c) \/ DestroyPopup(c) PROVE Child(c)'
  <2>1. ~RoleObject(c)'
    BY <1>0, <1>5 DEF DestroySubsurface, DestroyPopup, RoleObject, SubsurfaceInOrder,
                      PopupInOrder, WindowTypeOK, NoSubsurface, NoPopup
  <2>2. /\ UNCHANGED <<surfaceId, mapped, open, redrawn, orphaned>>
        /\ RemoveChild(c) \/ (c \in orphaned /\ UNCHANGED <<children, shown>>)
    BY <1>5 DEF DestroySubsurface, DestroyPopup
  <2>. QED  BY <2>1, <2>2, RemovedChild, LeftChild
<1>6. ASSUME NEW d \in Data, NEW id \in Ids, GetPopup(c, d, id) PROVE Child(c)'
  <2>1. /\ ~RoleObject(c) /\ popup'[c].live /\ popup'[c].adding
        /\ c \notin orphaned /\ UNCHANGED <<children, shown, mapped, orphaned>>
    BY <1>0, <1>6 DEF GetPopup, SubsurfaceInOrder, RoleObject, WindowTypeOK
  <2>2. surfaceId'[c] \in Ids \drawn \/ UNCHANGED surfaceId
    BY <1>0, <1>6 DEF GetPopup, WindowTypeOK
  <2>. QED  BY <1>0, <2>1, <2>2, UnknownChild, AnewChild DEF RoleObject
<1>7. ASSUME AckConfigure(c) PROVE Child(c)'
  BY <1>7 DEF AckConfigure, Child, Agrees, ShowsLive, KeepsLive, Follows, RoleObject
<1>8. ASSUME ParentGoes(c) PROVE Child(c)'
  <2>1. /\ orphaned \subseteq orphaned'
        /\ UNCHANGED <<surfaceId, valid, subsurface, popup, children, shown, mapped, redrawn,
                       shifted>>
    BY <1>8 DEF ParentGoes
  <2>. QED  BY <2>1 DEF Child, Agrees, ShowsLive, KeepsLive, Follows, RoleObject
<1>. QED
  BY <1>1, <1>2, <1>3, <1>4, <1>5, <1>6, <1>7, <1>8, CommittedPopup, RepositionedPopup
     DEF ChildRequest

LEMMA KidsStep == Order /\ Kids /\ [WindowNext]_windowVars => Kids'
<1>. SUFFICES ASSUME Order, Kids, [WindowNext]_windowVars PROVE Kids'
  OBVIOUS
<1>1. ASSUME NEW c \in Children, ChildRequest(c) PROVE Kids'
  BY <1>1, RequestedChild, OthersKept DEF Kids
<1>2. CASE \A c \in Children : ~ChildRequest(c)
  <2>1. UNCHANGED <<surfaceId, orphaned, valid, subsurface, popup, children, shown,
                    historyVars>>
    BY <1>2, OtherSteps
  <2>2. \/ mapped' = mapped \/ mapped' = NoItem
        \/ mapped' = joining /\ joining # NoItem
    BY <1>2 DEF WindowNext, WindowStep, windowVars, stateVars, objectVars, kidVars, itemVars,
       attributeVars, shellVars, historyVars, DestroyToplevel, SetAttribute, Install, Accepted,
       DestroySurface, UiCreated, AcceptorDies
  <2>3. \A c \in Children :
          surfaceId[c] # NoId /\ mapped' # NoItem /\ shown[mapped'][surfaceId[c]] # Unknown =>
            mapped' = mapped
    <3>. SUFFICES ASSUME NEW c \in Children, surfaceId[c] # NoId, mapped' = joining,
                         joining # NoItem
                  PROVE  shown[joining][surfaceId[c]] = Unknown
      BY <2>2
    <3>. QED  BY DEF Order, ItemsInOrder, Fresh, WindowTypeOK
  <2>. QED
    BY <2>1, <2>3 DEF historyVars, Kids, Child, Agrees, ShowsLive, KeepsLive, Follows, RoleObject
<1>. QED  BY <1>1, <1>2
-----------------------------------------------------------------------------
(* Attributes *)

LEMMA AttributesStep ==
  Order /\ AttributesFollow /\ [WindowNext]_windowVars => AttributesFollow'
<1>. SUFFICES ASSUME Order, AttributesFollow, [WindowNext]_windowVars PROVE AttributesFollow'
  OBVIOUS
<1>. USE DEF objectVars, kidVars, itemVars, attributeVars, shellVars, historyVars
<1>. WindowTypeOK /\ ItemsInOrder
  BY DEF Order
<1>1. ASSUME UNCHANGED <<mapped, joining, kind, attributeVars>> PROVE AttributesFollow'
  BY <1>1 DEF AttributesFollow
<1>2. ASSUME NEW c \in Children, ChildRequest(c) PROVE AttributesFollow'
  BY <1>1, <1>2, ObjectsKeptByRequests DEF ObjectsKept
<1>3. CASE DestroyToplevel
  BY <1>3 DEF DestroyToplevel, AttributesFollow
<1>4. ASSUME NEW a \in Attributes, SetAttribute(a) PROVE AttributesFollow'
  <2>. SUFFICES ASSUME NEW i \in {mapped, joining} \ {NoItem}, kind[i] = "acceptor",
                       NEW b \in Resent \ missed'
                PROVE  knows'[i][b] = attribute'[b]
    BY <1>4 DEF SetAttribute, AttributesFollow
  <2>1. i \in Items /\ b \in Attributes /\ attribute \in [Attributes -> Nat]
        /\ knows \in [Items -> [Attributes -> Nat]]
    BY AttributeAssumption DEF WindowTypeOK
  <2>2. CASE joining # NoItem /\ kind[joining] = "acceptor"
    <3>1. b # a /\ b \notin missed
      BY <1>4, <2>2 DEF SetAttribute
    <3>2. knows[i][b] = attribute[b]
      BY <3>1 DEF AttributesFollow
    <3>3. attribute'[b] = attribute[b] /\ knows'[i][b] = knows[i][b]
      BY <1>4, <2>1, <3>1 DEF SetAttribute
    <3>. QED  BY <3>2, <3>3
  <2>3. CASE ~(joining # NoItem /\ kind[joining] = "acceptor")
    <3>1. i = mapped
      BY <2>3
    <3>2. CASE b = a
      BY <1>4, <2>1, <3>1, <3>2 DEF SetAttribute
    <3>3. CASE b # a
      <4>1. b \notin missed
        BY <1>4, <2>3, <3>3 DEF SetAttribute
      <4>2. knows[i][b] = attribute[b]
        BY <4>1 DEF AttributesFollow
      <4>3. attribute'[b] = attribute[b] /\ knows'[i][b] = knows[i][b]
        BY <1>4, <2>1, <3>3 DEF SetAttribute
      <4>. QED  BY <4>2, <4>3
    <3>. QED  BY <3>2, <3>3
  <2>. QED  BY <2>2, <2>3
<1>5. CASE Install
  BY <1>5 DEF Install, AttributesFollow
<1>6. ASSUME NEW i \in Items, Accepted(i) PROVE AttributesFollow'
  <2>1. kind' = [kind EXCEPT ![i] = "acceptor"] /\ mapped' = mapped /\ joining' = i
        /\ (mapped # NoItem => kind[mapped] = "ui" /\ kind[i] = "free")
    BY <1>6 DEF Accepted
  <2>2. \A a \in Resent : knows'[i][a] = attribute[a] /\ attribute' = attribute
    BY <1>6, AttributeAssumption DEF Accepted, Knows, WindowTypeOK
  <2>3. mapped # NoItem => kind'[mapped] = "ui"
    BY <2>1 DEF WindowTypeOK
  <2>. QED  BY <2>1, <2>2, <2>3 DEF AttributesFollow
<1>7. ASSUME NEW s \in Surfaces, DestroySurface(s) PROVE AttributesFollow'
  BY <1>1, <1>7 DEF DestroySurface
<1>8. ASSUME NEW i \in Items, UiCreated(i) PROVE AttributesFollow'
  BY <1>8, NullAssumption DEF UiCreated, AttributesFollow, WindowTypeOK
<1>9. ASSUME NEW i \in Items, AcceptorDies(i) PROVE AttributesFollow'
  BY <1>1, <1>9 DEF AcceptorDies
<1>10. CASE UNCHANGED stateVars
  BY <1>1, <1>10 DEF stateVars
<1>. QED
  BY <1>2, <1>3, <1>4, <1>5, <1>6, <1>7, <1>8, <1>9, <1>10 DEF WindowNext, WindowStep, windowVars
-----------------------------------------------------------------------------
(* The theorems *)

LEMMA AtFirst == WindowInit => Order /\ Kids /\ AttributesFollow
<1>. SUFFICES ASSUME WindowInit PROVE Order /\ Kids /\ AttributesFollow
  OBVIOUS
<1>1. WindowTypeOK
  BY PlaceAssumption, WorkAssumption
     DEF WindowInit, WindowTypeOK, SubsurfaceType, PopupType, NoSubsurface, NoPopup
<1>2. ItemsInOrder /\ IdsInOrder
  BY DEF WindowInit, ItemsInOrder, Fresh, IdsInOrder
<1>3. ObjectsInOrder
  BY DEF WindowInit, ObjectsInOrder, SubsurfaceInOrder, PopupInOrder, NoSubsurface, NoPopup
<1>4. Kids /\ AttributesFollow
  BY DEF WindowInit, Kids, Child, Agrees, ShowsLive, KeepsLive, Follows, AttributesFollow
<1>. QED  BY <1>1, <1>2, <1>3, <1>4 DEF Order

\* Everything above, at every moment.
THEOREM WindowInvariant == WindowSpec => [](Order /\ Kids /\ AttributesFollow)
<1>1. Order /\ Kids /\ AttributesFollow /\ [WindowNext]_windowVars
        => (Order /\ Kids /\ AttributesFollow)'
  BY OrderStep, KidsStep, AttributesStep
<1>. QED  BY AtFirst, <1>1, PTL DEF WindowSpec

\* What the client's objects, the items and the shells' views are made of.
THEOREM WindowTyping == WindowSpec => []WindowTypeOK
<1>1. Order => WindowTypeOK
  BY DEF Order
<1>. QED  BY WindowInvariant, <1>1, PTL

\* Input finds the surface of a child exactly as long as the shell knows it.
THEOREM ChildrenAgreement == WindowSpec => []ChildrenAgree
BY WindowInvariant, KidsMean, PTL

\* The mapped shell shows no child whose role object is gone, and none is lost. Ids of a
\* second wl_subsurface and surfaces that lost their parent surface are not covered.
THEOREM NoGhostChild == WindowSpec => []ChildrenLive
BY WindowInvariant, KidsMean, PTL

\* The title and app_id of the toplevel reach the shell that accepts it.
THEOREM AttributesKnowledge == WindowSpec => []AttributesKnown
<1>1. AttributesFollow => AttributesKnown
  BY DEF AttributesFollow, AttributesKnown
<1>. QED  BY WindowInvariant, <1>1, PTL

\* Children are where the client put them, as long as the positioners it uses do
\* not leave the width of an i32.
THEOREM PlacesAgreement ==
  ASSUME \A d \in Data : NoOverflow(d)
  PROVE  WindowSpec => []PlacesAgree
<1>1. Order /\ PlacesFollow => PlacesAgree
  <2>. SUFFICES ASSUME Order, PlacesFollow, mapped # NoItem, NEW c \in Children,
                       surfaceId[c] # NoId, shown[mapped][surfaceId[c]] # Unknown,
                       popup[c].live, c \notin shifted
                PROVE  PlacedBy(popup[c].data, shown[mapped][surfaceId[c]])
    BY DEF PlacesAgree, PlacesFollow
  <2>1. popup[c].data \in Data
    BY DEF Order, ObjectsInOrder, PopupInOrder
  <2>2. shown[mapped][surfaceId[c]] = InfiniteGeometry(popup[c].data)
    BY DEF PlacesFollow
  <2>. QED  BY <2>1, <2>2, Placement, PlaceAssumption
<1>. QED  BY WindowInvariant, KidsMean, <1>1, PTL
-----------------------------------------------------------------------------
(* The item of the toplevel, as MappedItem promises it. PanelMapping, where the  *)
(* tasks race for it, keeps the same promise: what is said here of one item that *)
(* joins at a time is said of the items that get to be mapped there.             *)

Promise == INSTANCE MappedItem
             WITH spent <- {i \in Items : kind[i] # "free" /\ joining # i},
                  fresh <- open /\ mapped = NoItem

LEMMA ItemPromiseStep ==
  ASSUME Order, [WindowNext]_windowVars
  PROVE  [Promise!PromiseNext]_(Promise!promiseVars)
<1>. DEFINE Spent == {i \in Items : kind[i] # "free" /\ joining # i}
            Goal == [Promise!PromiseNext]_(Promise!promiseVars)
<1>t. /\ WindowTypeOK /\ ItemsInOrder /\ NoItem \notin Items
      /\ mapped \in Items \union {NoItem}
  BY NullAssumption DEF Order, WindowTypeOK
<1>1. ASSUME UNCHANGED <<open, mapped>>, Spent' = Spent PROVE Goal
  BY <1>1 DEF Promise!promiseVars
<1>2. ASSUME UNCHANGED <<open, mapped, kind, joining>> PROVE Goal
  BY <1>1, <1>2
<1>3. CASE DestroyToplevel
  <2>1. mapped' = NoItem /\ open' = FALSE /\ Spent' = Spent
    BY <1>3 DEF DestroyToplevel
  <2>2. Promise!Unmap
    BY <2>1 DEF Promise!Unmap
  <2>. QED  BY <2>2 DEF Promise!PromiseNext
<1>4. CASE Install
  <2>1. PICK i \in Items : i = joining
    BY <1>4, <1>t DEF Install, WindowTypeOK
  <2>2. /\ mapped' = (IF open THEN i ELSE NoItem)
        /\ joining' = NoItem /\ kind' = kind /\ open' = open
    BY <1>4, <2>1 DEF Install, objectVars
  <2>3. i \notin Spent /\ Spent' = Spent \union {i}
    BY <1>t, <2>1, <2>2 DEF ItemsInOrder
  <2>4. Promise!Uses(i)
    BY <2>3 DEF Promise!Uses
  <2>5. CASE open /\ mapped = NoItem
    <3>1. Promise!MapFirst(i)
      BY <1>t, <2>2, <2>4, <2>5 DEF Promise!MapFirst
    <3>. QED  BY <3>1 DEF Promise!PromiseNext
  <2>6. CASE mapped # NoItem
    <3>1. open
      BY <1>t, <2>6 DEF ItemsInOrder
    <3>2. UNCHANGED (open /\ mapped = NoItem)
      BY <1>t, <2>2, <2>6, <3>1
    <3>3. Promise!Replace(i)
      BY <2>2, <2>4, <2>6, <3>1, <3>2 DEF Promise!Replace
    <3>. QED  BY <3>3 DEF Promise!PromiseNext
  <2>7. CASE ~open
    <3>1. mapped' = mapped /\ UNCHANGED (open /\ mapped = NoItem)
      BY <1>t, <2>2, <2>7 DEF ItemsInOrder
    <3>2. Promise!Waste(i)
      BY <2>4, <3>1 DEF Promise!Waste
    <3>. QED  BY <3>2 DEF Promise!PromiseNext
  <2>. QED  BY <2>5, <2>6, <2>7
<1>5. ASSUME NEW i \in Items, Accepted(i) \/ UiCreated(i) PROVE Goal
  <2>1. /\ kind[i] = "free" /\ joining = NoItem /\ joining' = i
        /\ \A j \in Items \ {i} : kind'[j] = kind[j]
        /\ UNCHANGED <<open, mapped>>
    BY <1>5, <1>t DEF Accepted, UiCreated, objectVars, WindowTypeOK
  <2>2. Spent' = Spent
    BY <1>t, <2>1
  <2>. QED  BY <1>1, <2>1, <2>2
<1>6. ASSUME NEW c \in Children, ChildRequest(c) PROVE Goal
  <2>1. UNCHANGED <<open, itemVars>>
    BY <1>6 DEF ChildRequest, GetSubsurface, SetPosition, CommitSubsurface, SetDesync,
                ParentGoes, DestroySubsurface, Reposition, GetPopup, AckConfigure, CommitPopup,
                DestroyPopup, objectVars
  <2>. QED  BY <1>2, <2>1 DEF itemVars
<1>7. CASE UNCHANGED stateVars
  BY <1>2, <1>7 DEF stateVars, objectVars, itemVars
<1>8. ASSUME NEW a \in Attributes, SetAttribute(a) PROVE Goal
  BY <1>2, <1>8 DEF SetAttribute, objectVars, itemVars
<1>9. ASSUME NEW s \in Surfaces, DestroySurface(s) PROVE Goal
  BY <1>2, <1>9 DEF DestroySurface, itemVars
<1>10. ASSUME NEW i \in Items, AcceptorDies(i) PROVE Goal
  BY <1>2, <1>10 DEF AcceptorDies, objectVars
<1>. QED
  BY <1>3, <1>4, <1>5, <1>6, <1>7, <1>8, <1>9, <1>10 DEF WindowNext, WindowStep, windowVars

\* The window's item is mapped, replaced and lost as the tasks of PanelMapping do it
\* (Toplevel::switch_panel_shell, XdgToplevel::destroy).
THEOREM WindowItemRefinement == WindowSpec => Promise!PromiseSpec
<1>1. WindowInit => Promise!PromiseInit
  BY NullAssumption DEF WindowInit, Promise!PromiseInit
<1>2. Order /\ [WindowNext]_windowVars => [Promise!PromiseNext]_(Promise!promiseVars)
  BY ItemPromiseStep
<1>. QED  BY <1>1, <1>2, WindowInvariant, PTL DEF WindowSpec, Promise!PromiseSpec
===============================================================================
