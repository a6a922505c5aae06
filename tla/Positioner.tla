------------------------------ MODULE Positioner ------------------------------
(***************************************************************************)
(* The data of an xdg_positioner: the requests that set it, and the place  *)
(* of a popup, relative to its parent, that follows from it                *)
(* (xdg/positioner.rs).                                                    *)
(*                                                                         *)
(* An anchor or a gravity is the set of the edges it names: TopLeft is     *)
(* {"top", "left"}, None the empty set.  The code computes with 32-bit     *)
(* integers, which wrap in a release build: here their number is Modulus.  *)
(***************************************************************************)
EXTENDS Integers

CONSTANT Modulus   \* 2^32 in the code

ASSUME ModulusAssumption == Modulus \in Nat /\ Modulus > 0 /\ Modulus % 2 = 0

Edges == {"left", "right", "top", "bottom"}

\* The anchors and gravities of the protocol: opposite edges exclude each other.
Directions == {d \in SUBSET Edges : ~({"left", "right"} \subseteq d)
                                    /\ ~({"top", "bottom"} \subseteq d)}

Point == [x : Int, y : Int]
Extent == [x : Nat, y : Nat]
Geometry == [origin : Point, size : Extent]

PositionerData == [size : Extent, rect : Geometry, offset : Point,
                   anchor : Directions, gravity : Directions]

DefaultData ==
  [size |-> [x |-> 0, y |-> 0],
   rect |-> [origin |-> [x |-> 0, y |-> 0], size |-> [x |-> 0, y |-> 0]],
   offset |-> [x |-> 0, y |-> 0],
   anchor |-> {"top", "left"}, gravity |-> {"top", "left"}]

Wrap(n) == ((n + Modulus \div 2) % Modulus) - Modulus \div 2
Clamp(n) == IF n < 0 THEN 0 ELSE n
-----------------------------------------------------------------------------
(* Requests *)

SetSize(d, w, h) == [d EXCEPT !.size = [x |-> Clamp(w), y |-> Clamp(h)]]

\* Also forgets the offset.
SetAnchorRect(d, x, y, w, h) ==
  [d EXCEPT !.rect = [origin |-> [x |-> x, y |-> y],
                      size |-> [x |-> Clamp(w), y |-> Clamp(h)]],
            !.offset = [x |-> 0, y |-> 0]]

SetAnchor(d, edges) == [d EXCEPT !.anchor = edges]
SetGravity(d, edges) == [d EXCEPT !.gravity = edges]

\* Adds to the offset there is.
SetOffset(d, x, y) ==
  [d EXCEPT !.offset = [x |-> Wrap(d.offset.x + x), y |-> Wrap(d.offset.y + y)]]
-----------------------------------------------------------------------------
(* PositionerData::infinite_geometry, which ignores the constraints *)

\* The anchor's coordinate on an axis whose edges are low and high.
AnchorOn(edges, low, high, start, length) ==
  IF low \in edges THEN start
  ELSE IF high \in edges THEN start + length ELSE start + length \div 2

\* How far gravity moves the popup towards the low edge.
GravityShift(edges, low, high, length) ==
  IF low \in edges THEN length
  ELSE IF high \in edges THEN 0 ELSE length \div 2

\* The additions wrap one by one: the result is their exact sum, wrapped.
InfiniteGeometry(d) ==
  [origin |->
     [x |-> Wrap(AnchorOn(d.anchor, "left", "right", d.rect.origin.x, d.rect.size.x)
                 + d.offset.x - GravityShift(d.gravity, "left", "right", d.size.x)),
      y |-> Wrap(AnchorOn(d.anchor, "top", "bottom", d.rect.origin.y, d.rect.size.y)
                 + d.offset.y - GravityShift(d.gravity, "top", "bottom", d.size.y))],
   size |-> d.size]
-----------------------------------------------------------------------------
(* What a place means *)

\* On one axis: a popup pulled to the low (high) edge ends (starts) at the anchor
\* point, and one that is not pulled has it in its middle, rounded down.
Hangs(edges, low, high, anchor, start, length) ==
  /\ low \in edges => start + length = anchor
  /\ high \in edges => start = anchor
  /\ edges \intersect {low, high} = {} => 2 * (anchor - start) \in {length - 1, length}

\* The anchor point itself: on the named edge of the rectangle, or in its middle.
AnchorsAt(edges, low, high, start, length, anchor) ==
  /\ low \in edges => anchor = start
  /\ high \in edges => anchor = start + length
  /\ edges \intersect {low, high} = {} => 2 * (anchor - start) \in {length - 1, length}

\* Geometry g is the place positioner data d asks for: moved back by the offset,
\* the popup hangs from the point of the anchor rectangle that the anchor names.
PlacedBy(d, g) ==
  /\ g.size = d.size
  /\ \E a \in d.rect.origin.x .. d.rect.origin.x + d.rect.size.x :
       /\ AnchorsAt(d.anchor, "left", "right", d.rect.origin.x, d.rect.size.x, a)
       /\ Hangs(d.gravity, "left", "right", a + d.offset.x, g.origin.x, g.size.x)
  /\ \E a \in d.rect.origin.y .. d.rect.origin.y + d.rect.size.y :
       /\ AnchorsAt(d.anchor, "top", "bottom", d.rect.origin.y, d.rect.size.y, a)
       /\ Hangs(d.gravity, "top", "bottom", a + d.offset.y, g.origin.y, g.size.y)
=============================================================================
