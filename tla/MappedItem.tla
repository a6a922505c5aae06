------------------------------ MODULE MappedItem ------------------------------
(***************************************************************************)
(* What holds of the panel item of one toplevel, whichever tasks map it,   *)
(* switch its shell or come too late: the toplevel is mapped for the first *)
(* time once, from then on an item is only replaced by another, an item    *)
(* that was replaced or came to nothing is never mapped again, and a       *)
(* toplevel that lost its item stays without one (xdg/toplevel.rs mapped,  *)
(* xdg/backend.rs switch_panel_shell).                                     *)
(***************************************************************************)
CONSTANTS Items, NoItem

VARIABLES
  mapped,  \* the item of the toplevel
  spent,   \* items that are or were mapped, or never will be
  fresh    \* the toplevel may still be mapped for the first time

promiseVars == <<mapped, spent, fresh>>

PromiseInit == mapped = NoItem /\ spent = {} /\ fresh = TRUE

Uses(i) == i \notin spent /\ spent' = spent \union {i}

MapFirst(i) ==
  /\ fresh /\ mapped = NoItem
  /\ Uses(i)
  /\ mapped' = i /\ fresh' = FALSE

Replace(i) ==
  /\ mapped # NoItem
  /\ Uses(i)
  /\ mapped' = i
  /\ UNCHANGED fresh

\* The item came when it could neither be the first nor replace one.
Waste(i) == Uses(i) /\ UNCHANGED <<mapped, fresh>>

Unmap ==
  /\ mapped' = NoItem /\ fresh' = FALSE
  /\ UNCHANGED spent

PromiseNext == Unmap \/ \E i \in Items : MapFirst(i) \/ Replace(i) \/ Waste(i)

PromiseSpec == PromiseInit /\ [][PromiseNext]_promiseVars
===============================================================================
