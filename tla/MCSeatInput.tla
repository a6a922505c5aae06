----------------------------- MODULE MCSeatInput -----------------------------
(* Instance of SeatInput for TLC: a toplevel with one child surface, which is *)
(* a subsurface or a popup, and the items that come and go as its shells.     *)
EXTENDS SeatInput

At(x) == [origin |-> [x |-> x, y |-> 0], size |-> [x |-> 2, y |-> 2]]
MCOrigin == At(0)
MCPlaces == {At(0), At(3)}

\* Positioners as a client sets them: one below its anchor rectangle and to the
\* right, one centred at the rectangle's right edge with an offset set twice.
AnchorRect == SetAnchorRect(SetSize(DefaultData, 3, 2), 4, -5, 6, -1)
MCData == {SetGravity(SetAnchor(AnchorRect, {"bottom"}), {"bottom", "right"}),
           SetOffset(SetOffset(SetGravity(SetAnchor(AnchorRect, {"right"}), {}), 1, -2), 3, 0)}

Symmetry == Permutations(Items) \union Permutations(Ids)
==============================================================================
