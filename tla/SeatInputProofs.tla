--------------------------- MODULE SeatInputProofs ---------------------------
(***************************************************************************)
(* What reaches a client of the input that the shells of its window send,  *)
(* for any number of shells, surfaces and keys: SeatInput implements       *)
(* PanelWindow, whose invariants it inherits, and keeps its own.           *)
(***************************************************************************)
EXTENDS SeatInput, PanelWindowProofs

(* The message queue *)

\* One of the messages of the queue at p or later.
After(p, m) == \E q \in p..Len(sink) : sink[q] = m

LEMMA Appended ==
  ASSUME NEW T, NEW s \in Seq(T), NEW m \in T
  PROVE  /\ Append(s, m) \in Seq(T) /\ Len(Append(s, m)) = Len(s) + 1
         /\ \A n \in 1..Len(s) : Append(s, m)[n] = s[n]
         /\ Append(s, m)[Len(s) + 1] = m
         /\ ToSet(Append(s, m)) = ToSet(s) \union {m}
<1>1. /\ Append(s, m) \in Seq(T) /\ Len(Append(s, m)) = Len(s) + 1 /\ Len(s) \in Nat
      /\ \A n \in 1..Len(s) : Append(s, m)[n] = s[n]
      /\ Append(s, m)[Len(s) + 1] = m
      /\ DOMAIN s = 1..Len(s) /\ DOMAIN Append(s, m) = 1..Len(s) + 1
  OBVIOUS
<1>. DEFINE t == Append(s, m)
<1>2. \A x : x \in ToSet(t) <=> x \in ToSet(s) \/ x = m
  <2>. HIDE DEF t
  <2>1. \A x : x \in ToSet(t) <=> \E n \in 1..Len(s) + 1 : t[n] = x
    BY <1>1 DEF ToSet, t
  <2>2. \A x : x \in ToSet(s) <=> \E n \in 1..Len(s) : s[n] = x
    BY <1>1 DEF ToSet
  <2>3. \A n : n \in 1..Len(s) + 1 <=> n \in 1..Len(s) \/ n = Len(s) + 1
    BY <1>1
  <2>. QED  BY <1>1, <2>1, <2>2, <2>3 DEF t
<1>. QED  BY <1>1, <1>2

LEMMA Tailed ==
  ASSUME NEW T, NEW s \in Seq(T), s # <<>>
  PROVE  /\ Tail(s) \in Seq(T) /\ Len(Tail(s)) = Len(s) - 1 /\ Len(s) \in Nat \ {0}
         /\ Head(s) = s[1] /\ Head(s) \in T
         /\ \A n \in 1..Len(s) - 1 : Tail(s)[n] = s[n + 1]
         /\ ToSet(Tail(s)) \subseteq ToSet(s)
         /\ ToSet(s) \subseteq ToSet(Tail(s)) \union {Head(s)}
<1>1. /\ Tail(s) \in Seq(T) /\ Len(Tail(s)) = Len(s) - 1 /\ Len(s) \in Nat \ {0}
      /\ Head(s) = s[1] /\ Head(s) \in T
      /\ \A n \in 1..Len(s) - 1 : Tail(s)[n] = s[n + 1]
      /\ DOMAIN s = 1..Len(s) /\ DOMAIN Tail(s) = 1..Len(s) - 1
  OBVIOUS
<1>. DEFINE t == Tail(s)
<1>2. \A x : x \in ToSet(s) <=> \E n \in 1..Len(s) : s[n] = x
  BY <1>1 DEF ToSet
<1>3. \A x : x \in ToSet(t) <=> \E n \in 1..Len(s) - 1 : s[n + 1] = x
  BY <1>1 DEF ToSet
<1>4. \A x \in ToSet(t) : x \in ToSet(s)
  BY <1>1, <1>2, <1>3
<1>5. ASSUME NEW x \in ToSet(s), x # Head(s) PROVE x \in ToSet(t)
  <2>1. PICK n \in 1..Len(s) : s[n] = x
    BY <1>2
  <2>2. n - 1 \in 1..Len(s) - 1 /\ s[(n - 1) + 1] = x
    BY <1>1, <1>5, <2>1
  <2>. HIDE DEF t
  <2>. QED  BY <1>3, <2>2
<1>. QED  BY <1>1, <1>4, <1>5
-----------------------------------------------------------------------------
(* The seat's state *)

SeatTyped ==
  /\ sink \in Seq(Messages)
  /\ bound \subseteq Devices
  /\ focused \in Surfaces \union {NoSurface}
  /\ keyFocused \in Surfaces \union {NoSurface}
  /\ pressed \in [Surfaces -> SUBSET Keys]
  /\ inside \subseteq Surfaces /\ keyInside \subseteq Surfaces
  /\ keys \subseteq Keys
  /\ mover \in Items \union {NoItem}
  /\ held \in [Keys -> Surfaces \union {NoSurface}]
  /\ strayed \subseteq Keys
  /\ late \in BOOLEAN
  /\ foreign \subseteq {"frame", "axis_source", "axis_stop", "axis_discrete",
                       "axis_value120", "axis_relative_direction"}

LEMMA MessageTyped ==
  ASSUME NEW m \in Messages
  PROVE  /\ m.type \in {"motion", "button", "scroll", "stop", "press", "release", "reset"}
         /\ m.type = "reset" <=> m = Reset
         /\ m.type # "reset" => m.surface \in Surfaces
         /\ m.type = "motion" => m.from \in Items
         /\ m.type \in {"press", "release"} =>
              m.key \in Keys /\ m = [type |-> m.type, surface |-> m.surface, key |-> m.key]
BY DEF Messages, Reset

LEMMA Found ==
  ASSUME NEW i, NEW t, Finds(i, t)
  PROVE  SurfaceFromId(i, t) \in Surfaces
BY DEF Finds, SurfaceFromId, Alive, Surfaces

LEMMA EventsTyped ==
  ASSUME NEW version \in Versions,
         NEW type \in {"button", "scroll", "stop"}
  PROVE  /\ {e \in MotionEvents(version) : ~Has(version, e)} \subseteq {"frame"}
         /\ {e \in PointerEvents(type, version) : ~Has(version, e)} \subseteq {"frame"}
         /\ {e \in {"leave", "frame"} : ~Has(version, e)} \subseteq {"frame"}
<1>. version \in Nat
  BY VersionAssumption
<1>1. \A e \in MotionEvents(version) : Has(version, e)
  BY DEF MotionEvents, Since, Has
<1>2. \A e \in ButtonEvents(version) : Has(version, e) \/ e = "frame"
  BY DEF ButtonEvents, Has
<1>3. \A e \in ScrollDiscreteEvents(version) : Has(version, e)
  BY DEF ScrollDiscreteEvents, Since, Has
<1>4. \A e \in ScrollStopEvents(version) : Has(version, e)
  BY DEF ScrollStopEvents, Since, Has
<1>5. PointerEvents(type, version) \in {ButtonEvents(version), ScrollDiscreteEvents(version),
                                       ScrollStopEvents(version)}
  BY DEF PointerEvents
<1>6. Has(version, "leave")
  BY DEF Has
<1>. QED  BY <1>1, <1>2, <1>3, <1>4, <1>5, <1>6

\* Every step of the seat is one of the window, or leaves the window alone.
LEMMA WindowTakesPart == WindowTypeOK /\ [Next]_vars => [WindowNext]_windowVars
<1>. SUFFICES ASSUME WindowTypeOK, [Next]_vars PROVE [WindowNext]_windowVars
  OBVIOUS
<1>1. ASSUME NEW n \in Nat, UNCHANGED stateVars, Works(n) PROVE WindowNext
  <2>1. n \in 0..MaxWork
    BY <1>1, WorkAssumption DEF Works, WindowTypeOK
  <2>. QED  BY <1>1, <2>1 DEF WindowNext
<1>2. ASSUME NEW i \in Items, NEW t, PointerMotion(i, t) PROVE WindowNext
  BY <1>1, <1>2 DEF PointerMotion
<1>3. ASSUME NEW i \in Items, NEW t, NEW type, PointerEvent(i, t, type) PROVE WindowNext
  BY <1>1, <1>3, WorkAssumption DEF PointerEvent
<1>4. ASSUME NEW i \in Items, NEW t, NEW k \in Keys, KeyPress(i, t, k) PROVE WindowNext
  BY <1>1, <1>4 DEF KeyPress
<1>5. ASSUME NEW i \in Items, NEW t, NEW k \in Keys, KeyRelease(i, t, k)
      PROVE  UNCHANGED windowVars
  BY <1>5 DEF KeyRelease
<1>6. ASSUME NEW i \in Items, Call(i) PROVE WindowNext \/ UNCHANGED windowVars
  BY <1>2, <1>3, <1>4, <1>5, <1>6 DEF Call
<1>7. CASE UNCHANGED vars
  BY <1>7 DEF vars
<1>8. ASSUME NEW d \in Devices, GetDevice(d) PROVE UNCHANGED windowVars
  BY <1>8 DEF GetDevice
<1>9. ASSUME NEW version \in Versions, NEW found \in BOOLEAN, HandleMessage(version, found)
      PROVE  UNCHANGED windowVars
  BY <1>9 DEF HandleMessage
<1>. QED
  BY <1>6, <1>7, <1>8, <1>9
     DEF Next, WindowNext, WindowStep, DestroysSurface, CreatesUi, ShellDies

LEMMA CallTyped ==
  ASSUME SeatTyped, NEW i \in Items, Call(i)
  PROVE  SeatTyped'
<1>. USE DEF seatVars, deviceVars, clientVars
<1>1. ASSUME NEW m \in Messages, Queue(m) PROVE sink' \in Seq(Messages)
  BY <1>1, Appended DEF Queue, SeatTyped
<1>2. ASSUME NEW t \in Targets(i), PointerMotion(i, t) PROVE SeatTyped'
  <2>1. [type |-> "motion", surface |-> SurfaceFromId(i, t), from |-> i] \in Messages
    BY <1>2, Found DEF PointerMotion, Messages
  <2>2. late' \in BOOLEAN
    BY <1>2 DEF PointerMotion, SeatTyped, Overdue
  <2>3. sink' \in Seq(Messages)
    BY <1>1, <1>2, <2>1 DEF PointerMotion
  <2>. QED  BY <1>2, <2>2, <2>3 DEF PointerMotion, SeatTyped
<1>3. ASSUME NEW t \in Targets(i), NEW type \in {"button", "scroll", "stop"},
             PointerEvent(i, t, type)
      PROVE  SeatTyped'
  <2>1. [type |-> type, surface |-> SurfaceFromId(i, t)] \in Messages
    BY <1>3, Found DEF PointerEvent, Messages
  <2>2. sink' \in Seq(Messages)
    BY <1>1, <1>3, <2>1 DEF PointerEvent
  <2>. QED  BY <1>3, <2>2 DEF PointerEvent, SeatTyped
<1>4. ASSUME NEW t \in Targets(i), NEW k \in Keys, KeyPress(i, t, k) PROVE SeatTyped'
  <2>1. /\ [type |-> "press", surface |-> SurfaceFromId(i, t), key |-> k] \in Messages
        /\ SurfaceFromId(i, t) \in Surfaces
    BY <1>4, Found DEF KeyPress, Messages
  <2>2. sink' \in Seq(Messages)
    BY <1>1, <1>4, <2>1 DEF KeyPress
  <2>. QED  BY <1>4, <2>1, <2>2 DEF KeyPress, SeatTyped
<1>5. ASSUME NEW t \in Targets(i), NEW k \in Keys, KeyRelease(i, t, k) PROVE SeatTyped'
  <2>1. Finds(i, t) =>
          [type |-> "release", surface |-> SurfaceFromId(i, t), key |-> k] \in Messages
    BY Found DEF Messages
  <2>2. sink' \in Seq(Messages)
    BY <1>1, <1>5, <2>1 DEF KeyRelease, SeatTyped
  <2>. QED  BY <1>5, <2>2 DEF KeyRelease, SeatTyped
<1>. QED  BY <1>2, <1>3, <1>4, <1>5 DEF Call

LEMMA Refocused ==
  ASSUME NEW view \in SUBSET Surfaces, NEW old, NEW new \in Surfaces
  PROVE  Refocus(view, old, new) \subseteq Surfaces
BY DEF Refocus, Entered, Left

LEMMA HandleTyped ==
  ASSUME SeatTyped, NEW version \in Versions, NEW found \in BOOLEAN,
         HandleMessage(version, found)
  PROVE  SeatTyped'
<1>. DEFINE m == Head(sink)
<1>1. sink' \in Seq(Messages) /\ m \in Messages
  BY Tailed DEF HandleMessage, SeatTyped
<1>2. CASE UNCHANGED <<deviceVars, clientVars, mover, held, strayed, late, foreign>>
  BY <1>1, <1>2 DEF SeatTyped, deviceVars, clientVars
<1>3. CASE m.type = "motion" /\ HandleMotion(m, version)
  <2>1. m.surface \in Surfaces /\ m.from \in Items
    BY <1>1, <1>3, MessageTyped
  <2>2. inside' \subseteq Surfaces
    BY <1>3, <2>1, Refocused DEF HandleMotion, SeatTyped
  <2>3. foreign' \subseteq foreign \union {"frame"}
    BY <1>3, EventsTyped DEF HandleMotion, SendPointer
  <2>. QED  BY <1>1, <1>3, <2>1, <2>2, <2>3 DEF HandleMotion, SeatTyped
<1>4. CASE m.type \in {"press", "release"} /\ HandleKey(m, found)
  <2>1. m.surface \in Surfaces /\ m.key \in Keys
    BY <1>1, <1>4, MessageTyped
  <2>. DEFINE now == PressedAfter(m.surface, m.type = "press", m.key)
  <2>2. now \subseteq Keys
    BY <2>1 DEF PressedAfter, Toggle, SeatTyped
  <2>3. keyInside' \subseteq Surfaces
    BY <1>4, <2>1, Refocused DEF HandleKey, SeatTyped, clientVars
  <2>4. keys' \subseteq Keys
    BY <1>4, <2>1, <2>2 DEF HandleKey, Toggle, SeatTyped, clientVars
  <2>5. pressed' \in [Surfaces -> SUBSET Keys]
    BY <1>4, <2>1, <2>2 DEF HandleKey, SeatTyped, deviceVars
  <2>6. keyFocused' \in Surfaces \union {NoSurface} /\ strayed' \subseteq Keys
        /\ UNCHANGED <<bound, focused, inside, mover, held, late, foreign>>
    BY <1>4, <2>1 DEF HandleKey, SeatTyped, deviceVars, clientVars
  <2>. QED  BY <1>1, <2>3, <2>4, <2>5, <2>6 DEF SeatTyped
<1>5. CASE m.type = "reset" /\ HandleReset(version)
  <2>1. foreign' \subseteq foreign \union {"frame"}
    BY <1>5, EventsTyped DEF HandleReset, SendPointer
  <2>. QED  BY <1>1, <1>5, <2>1 DEF HandleReset, SeatTyped, Left
<1>6. CASE m.type \in {"button", "scroll", "stop"} /\ HandlePointerEvent(m, version)
  <2>1. foreign' \subseteq foreign \union {"frame"}
    BY <1>6, EventsTyped DEF HandlePointerEvent, SendPointer
  <2>. QED  BY <1>1, <1>6, <2>1 DEF HandlePointerEvent, SeatTyped, deviceVars, clientVars
<1>. QED
  BY <1>1, <1>2, <1>3, <1>4, <1>5, <1>6, MessageTyped DEF HandleMessage

LEMMA SeatTypedStep == SeatTyped /\ [Next]_vars => SeatTyped'
<1>. SUFFICES ASSUME SeatTyped, [Next]_vars PROVE SeatTyped'
  OBVIOUS
<1>. USE DEF seatVars, deviceVars, clientVars
<1>1. CASE UNCHANGED seatVars
  BY <1>1 DEF SeatTyped
<1>2. ASSUME NEW s \in Surfaces, DestroysSurface(s) PROVE SeatTyped'
  BY <1>2 DEF DestroysSurface, SeatTyped
<1>3. ASSUME NEW i \in Items, CreatesUi(i) PROVE SeatTyped'
  <2>1. sink' \in Seq(Messages)
    BY <1>3, Appended DEF CreatesUi, Queue, Messages, SeatTyped
  <2>. QED  BY <1>3, <2>1 DEF CreatesUi, SeatTyped
<1>4. ASSUME NEW i \in Items, ShellDies(i) PROVE SeatTyped'
  BY <1>4 DEF ShellDies, SeatTyped
<1>5. ASSUME NEW d \in Devices, GetDevice(d) PROVE SeatTyped'
  BY <1>5 DEF GetDevice, SeatTyped
<1>. QED
  BY <1>1, <1>2, <1>3, <1>4, <1>5, CallTyped, HandleTyped DEF Next, vars
-----------------------------------------------------------------------------
(* The focus *)

\* The window's steps keep the surfaces, but for the destruction of one.
LEMMA SurfacesKept ==
  ASSUME Order, WindowStep
  PROVE  UNCHANGED object
<1>1. ASSUME NEW c \in Children, ChildRequest(c) PROVE UNCHANGED object
  BY <1>1, ObjectsKeptByRequests DEF ObjectsKept
<1>. QED
  BY <1>1 DEF WindowStep, DestroyToplevel, SetAttribute, Install, Accepted, objectVars

\* A view that agrees with the old focus agrees with the new one.
LEMMA RefocusAgrees ==
  ASSUME WindowTypeOK, NEW old \in Surfaces \union {NoSurface}, NEW new \in Surfaces
  PROVE  Refocus(Existing(old), old, new) = Existing(new)
<1>1. CASE old = new
  BY <1>1 DEF Refocus
<1>2. CASE old # new
  <2>1. old # NoSurface /\ object[old] => Alive(old)
    BY DEF Alive, Held
  <2>2. Left(Existing(old), old) = {}
    BY <2>1 DEF Left, Existing
  <2>3. new # NoSurface
    BY SurfaceAssumption DEF Surfaces
  <2>. QED  BY <1>2, <2>2, <2>3 DEF Refocus, Entered, Existing
<1>. QED  BY <1>1, <1>2

LEMMA FocusStep == Order /\ SeatTyped /\ FocusAgrees /\ [Next]_vars => FocusAgrees'
<1>. SUFFICES ASSUME Order, SeatTyped, FocusAgrees, [Next]_vars PROVE FocusAgrees'
  OBVIOUS
<1>. USE DEF seatVars, deviceVars, clientVars
<1>. WindowTypeOK
  BY DEF Order
<1>1. ASSUME UNCHANGED <<object, focused, keyFocused, inside, keyInside>> PROVE FocusAgrees'
  BY <1>1 DEF FocusAgrees, Existing
<1>2. ASSUME NEW s \in Surfaces, DestroysSurface(s) PROVE FocusAgrees'
  <2>1. object' = [object EXCEPT ![s] = FALSE] /\ object \in [Surfaces -> BOOLEAN]
    BY <1>2 DEF DestroysSurface, DestroySurface, WindowTypeOK
  <2>2. \A x \in Surfaces \union {NoSurface} : Existing(x)' = Existing(x) \ {s}
    BY <2>1 DEF Existing, Surfaces
  <2>. QED  BY <1>2, <2>2 DEF DestroysSurface, FocusAgrees, SeatTyped
<1>3. ASSUME NEW version \in Versions, NEW found \in BOOLEAN, HandleMessage(version, found)
      PROVE  FocusAgrees'
  <2>. DEFINE m == Head(sink)
  <2>1. m \in Messages /\ object' = object
    BY <1>3, Tailed DEF HandleMessage, SeatTyped, windowVars, stateVars, objectVars
  <2>2. \A x : Existing(x)' = Existing(x)
    BY <2>1 DEF Existing
  <2>3. CASE UNCHANGED <<focused, keyFocused, inside, keyInside>>
    BY <1>1, <2>1, <2>3
  <2>4. CASE m.type = "motion" /\ HandleMotion(m, version)
    <3>1. m.surface \in Surfaces /\ focused \in Surfaces \union {NoSurface}
      BY <2>1, <2>4, MessageTyped DEF SeatTyped
    <3>2. inside' = Existing(m.surface)
      BY <2>4, <3>1, RefocusAgrees DEF HandleMotion, FocusAgrees
    <3>. QED  BY <2>2, <2>4, <3>2 DEF HandleMotion, FocusAgrees
  <2>5. CASE m.type \in {"press", "release"} /\ HandleKey(m, found)
    <3>1. m.surface \in Surfaces /\ keyFocused \in Surfaces \union {NoSurface}
      BY <2>1, <2>5, MessageTyped DEF SeatTyped
    <3>2. CASE found
      <4>1. keyFocused' = m.surface /\ keyInside' = Refocus(keyInside, keyFocused, m.surface)
            /\ UNCHANGED <<focused, inside>>
        BY <2>5, <3>2 DEF HandleKey
      <4>2. keyInside' = Existing(m.surface)
        BY <3>1, <4>1, RefocusAgrees DEF FocusAgrees
      <4>. QED  BY <2>2, <4>1, <4>2 DEF FocusAgrees
    <3>3. CASE ~found
      BY <2>3, <2>5, <3>3 DEF HandleKey
    <3>. QED  BY <3>2, <3>3
  <2>6. CASE m.type = "reset" /\ HandleReset(version)
    <3>1. Left(inside, focused) = {}
      BY SurfaceAssumption DEF FocusAgrees, Existing, Left, Alive, Held, SeatTyped
    <3>. QED  BY <2>2, <2>6, <3>1 DEF HandleReset, FocusAgrees, Existing
  <2>7. CASE HandlePointerEvent(m, version)
    BY <2>3, <2>7 DEF HandlePointerEvent
  <2>. QED  BY <1>3, <2>1, <2>3, <2>4, <2>5, <2>6, <2>7, MessageTyped DEF HandleMessage
<1>4. ASSUME NEW i \in Items, Call(i) PROVE FocusAgrees'
  <2>1. UNCHANGED <<object, focused, keyFocused, inside, keyInside>>
    BY <1>4 DEF Call, PointerMotion, PointerEvent, KeyPress, KeyRelease, windowVars, stateVars,
                objectVars
  <2>. QED  BY <1>1, <2>1
<1>5. ASSUME NEW i \in Items, CreatesUi(i) \/ ShellDies(i) PROVE FocusAgrees'
  BY <1>1, <1>5 DEF CreatesUi, ShellDies, UiCreated, AcceptorDies, objectVars
<1>6. ASSUME NEW d \in Devices, GetDevice(d) PROVE FocusAgrees'
  BY <1>1, <1>6 DEF GetDevice, windowVars, stateVars, objectVars
<1>7. CASE WindowStep /\ UNCHANGED seatVars
  BY <1>1, <1>7, SurfacesKept
<1>8. CASE Install /\ UNCHANGED seatVars
  BY <1>1, <1>8 DEF Install, objectVars
<1>9. CASE UNCHANGED vars
  BY <1>1, <1>9 DEF vars, windowVars, stateVars, objectVars
<1>. QED  BY <1>2, <1>3, <1>4, <1>5, <1>6, <1>7, <1>8, <1>9 DEF Next
-----------------------------------------------------------------------------
(* The pointer that a shell left behind *)

\* A motion is some acceptor's,
MotionsFromShells ==
  \A p \in 1..Len(sink) :
    sink[p].type = "motion" => sink[p].from \in Items /\ kind[sink[p].from] = "acceptor"

\* of one that is mapped or on its way, or has a Reset after it;
MotionsReset ==
  open /\ ~late =>
    \A p \in 1..Len(sink) :
      sink[p].type = "motion" /\ sink[p].from \notin {mapped, joining} => After(p, Reset)

\* whoever it is from, if a PanelItemUi is on its way.
UiResets ==
  open /\ ~late /\ joining # NoItem /\ kind[joining] = "ui" =>
    /\ \A p \in 1..Len(sink) : sink[p].type = "motion" => After(p, Reset)
    /\ inside # {} => Reset \in ToSet(sink)

MoverIsShell ==
  inside # {} => mover \in Items /\ kind[mover] = "acceptor" /\ "pointer" \in bound

PointerInOrder == MotionsFromShells /\ MotionsReset /\ UiResets /\ MoverIsShell
                  /\ FocusBelongsToShell

LEMMA Queued ==
  ASSUME SeatTyped, NEW m \in Messages, Queue(m)
  PROVE  /\ Len(sink') = Len(sink) + 1 /\ Len(sink) \in Nat
         /\ \A p \in 1..Len(sink) : sink'[p] = sink[p]
         /\ sink'[Len(sink) + 1] = m
         /\ ToSet(sink') = ToSet(sink) \union {m}
         /\ \A p \in 1..Len(sink) : \A x : After(p, x) => After(p, x)'
         /\ \A p \in 1..Len(sink') : After(p, m)'
<1>1. /\ Len(sink') = Len(sink) + 1 /\ Len(sink) \in Nat
      /\ \A p \in 1..Len(sink) : sink'[p] = sink[p]
      /\ sink'[Len(sink) + 1] = m
      /\ ToSet(sink') = ToSet(sink) \union {m}
  BY Appended DEF Queue, SeatTyped
<1>2. \A p \in 1..Len(sink) : \A x : After(p, x) => After(p, x)'
  BY <1>1 DEF After
<1>3. \A p \in 1..Len(sink') : After(p, m)'
  BY <1>1 DEF After
<1>. QED  BY <1>1, <1>2, <1>3

LEMMA Taken ==
  ASSUME SeatTyped, sink # <<>>, sink' = Tail(sink)
  PROVE  /\ Len(sink') = Len(sink) - 1 /\ Len(sink) \in Nat \ {0}
         /\ \A p \in 1..Len(sink') : sink'[p] = sink[p + 1] /\ p + 1 \in 1..Len(sink)
         /\ Head(sink) = sink[1] /\ Head(sink) \in Messages /\ 1 \in 1..Len(sink)
         /\ ToSet(sink) \subseteq ToSet(sink') \union {Head(sink)}
         /\ \A p \in 1..Len(sink') : \A x : After(p + 1, x) => After(p, x)'
         /\ \A x : After(1, x) /\ x # Head(sink) => x \in ToSet(sink')
<1>1. /\ Len(sink') = Len(sink) - 1 /\ Len(sink) \in Nat \ {0}
      /\ \A p \in 1..Len(sink') : sink'[p] = sink[p + 1] /\ p + 1 \in 1..Len(sink)
      /\ Head(sink) = sink[1] /\ Head(sink) \in Messages /\ 1 \in 1..Len(sink)
      /\ ToSet(sink) \subseteq ToSet(sink') \union {Head(sink)}
  BY Tailed DEF SeatTyped
<1>2. ASSUME NEW p \in 1..Len(sink'), NEW x, After(p + 1, x) PROVE After(p, x)'
  <2>1. PICK q \in p + 1..Len(sink) : sink[q] = x
    BY <1>2 DEF After
  <2>2. q - 1 \in p..Len(sink') /\ q - 1 \in 1..Len(sink') /\ sink[(q - 1) + 1] = x
    BY <1>1, <2>1
  <2>. QED  BY <1>1, <2>2 DEF After
<1>3. ASSUME NEW x, After(1, x), x # Head(sink) PROVE x \in ToSet(sink')
  <2>1. x \in ToSet(sink)
    BY <1>3 DEF After, ToSet, SeatTyped
  <2>. QED  BY <1>1, <1>3, <2>1
<1>. QED  BY <1>1, <1>2, <1>3

\* Steps that leave the queue, the items and the pointer as they are.
LEMMA PointerKept ==
  ASSUME PointerInOrder, UNCHANGED <<open, kind, alive, mapped, joining, sink, late, mover>>,
         inside' \subseteq inside, bound \subseteq bound'
  PROVE  PointerInOrder'
<1>1. UNCHANGED sink
  OBVIOUS
<1>2. \A p, x : After(p, x)' = After(p, x)
  BY <1>1 DEF After
<1>. QED
  BY <1>2 DEF PointerInOrder, MotionsFromShells, MotionsReset, UiResets, MoverIsShell,
              FocusBelongsToShell

\* A message that is not a motion.
LEMMA PointerQueues ==
  ASSUME SeatTyped, PointerInOrder, NEW m \in Messages, Queue(m), m.type # "motion",
         UNCHANGED <<open, kind, alive, mapped, joining, late, mover, inside, bound>>
  PROVE  PointerInOrder'
<1>1. \A p \in 1..Len(sink') : sink'[p].type = "motion" =>
        p \in 1..Len(sink) /\ sink'[p] = sink[p] /\ \A x : After(p, x) => After(p, x)'
  BY Queued
<1>2. ToSet(sink) \subseteq ToSet(sink')
  BY Queued
<1>3. MotionsFromShells' /\ MotionsReset' /\ MoverIsShell' /\ FocusBelongsToShell'
  BY <1>1, <1>2 DEF PointerInOrder, MotionsFromShells, MotionsReset, MoverIsShell,
                    FocusBelongsToShell
<1>4. UiResets'
  BY <1>1, <1>2 DEF PointerInOrder, UiResets
<1>. QED  BY <1>3, <1>4 DEF PointerInOrder

LEMMA MotionQueues ==
  ASSUME Order, SeatTyped, PointerInOrder, NEW i \in Items, NEW t \in Targets(i),
         PointerMotion(i, t)
  PROVE  PointerInOrder'
<1>. DEFINE m == [type |-> "motion", surface |-> SurfaceFromId(i, t), from |-> i]
<1>0. /\ UNCHANGED <<open, kind, alive, mapped, joining, mover, inside, bound>>
      /\ Queue(m) /\ late' = (late \/ Overdue(i)) /\ late \in BOOLEAN
      /\ kind[i] = "acceptor" /\ i \in {mapped, joining}
  BY DEF PointerMotion, SeatTyped, Serves, stateVars, objectVars, itemVars, deviceVars,
         clientVars
<1>1. m \in Messages
  BY Found DEF PointerMotion, Messages
<1>2. /\ \A p \in 1..Len(sink') :
           \/ p \in 1..Len(sink) /\ sink'[p] = sink[p] /\ \A x : After(p, x) => After(p, x)'
           \/ sink'[p] = m
      /\ ToSet(sink) \subseteq ToSet(sink')
  BY <1>0, <1>1, Queued
<1>3. m.type = "motion" /\ m.from = i
  OBVIOUS
<1>. HIDE DEF m
<1>4. MotionsFromShells' /\ MoverIsShell' /\ FocusBelongsToShell'
  BY <1>0, <1>2, <1>3 DEF PointerInOrder, MotionsFromShells, MoverIsShell, FocusBelongsToShell
<1>5. MotionsReset'
  BY <1>0, <1>2, <1>3 DEF PointerInOrder, MotionsReset
<1>6. UiResets'
  <2>. SUFFICES ASSUME ~late', joining # NoItem, kind[joining] = "ui" PROVE FALSE
    BY <1>0 DEF UiResets
  <2>1. i = mapped /\ i # NoItem
    BY <1>0, NullAssumption
  <2>2. ~alive[mapped]
    BY <1>0, <2>1 DEF Order, ItemsInOrder
  <2>. QED  BY <1>0, <2>1, <2>2 DEF Overdue
<1>. QED  BY <1>4, <1>5, <1>6 DEF PointerInOrder

LEMMA MessageTaken ==
  ASSUME Order, SeatTyped, FocusAgrees, PointerInOrder, NEW version \in Versions,
         NEW found \in BOOLEAN, HandleMessage(version, found)
  PROVE  PointerInOrder'
<1>. DEFINE m == Head(sink)
<1>. USE DEF deviceVars, clientVars
<1>0. UNCHANGED <<open, kind, alive, mapped, joining, late, bound>>
  BY DEF HandleMessage, HandleMotion, HandleKey, HandleReset, HandlePointerEvent, windowVars,
         stateVars, objectVars, itemVars
<1>1. /\ \A p \in 1..Len(sink') :
           /\ sink'[p] = sink[p + 1] /\ p + 1 \in 1..Len(sink)
           /\ \A x : After(p + 1, x) => After(p, x)'
      /\ m \in Messages /\ m = sink[1] /\ 1 \in 1..Len(sink)
      /\ ToSet(sink) \subseteq ToSet(sink') \union {m}
      /\ \A x : After(1, x) /\ x # m => x \in ToSet(sink')
  BY Taken DEF HandleMessage
<1>2. MotionsFromShells' /\ MotionsReset'
  BY <1>0, <1>1 DEF PointerInOrder, MotionsFromShells, MotionsReset
<1>3. open /\ ~late /\ joining # NoItem /\ kind[joining] = "ui" =>
        \A p \in 1..Len(sink') : sink'[p].type = "motion" => After(p, Reset)'
  BY <1>1 DEF PointerInOrder, UiResets
<1>4. CASE inside' = {}
  BY <1>0, <1>2, <1>3, <1>4 DEF PointerInOrder, UiResets, MoverIsShell, FocusBelongsToShell
<1>5. CASE m # Reset /\ UNCHANGED <<inside, mover>>
  BY <1>0, <1>1, <1>2, <1>3, <1>5
     DEF PointerInOrder, UiResets, MoverIsShell, FocusBelongsToShell
<1>6. CASE "pointer" \in bound /\ m.type = "motion" /\ HandleMotion(m, version)
  <2>1. mover' = m.from /\ m # Reset
    BY <1>1, <1>6, MessageTyped DEF HandleMotion
  <2>2. MoverIsShell'
    BY <1>0, <1>1, <1>6, <2>1 DEF PointerInOrder, MotionsFromShells, MoverIsShell
  <2>3. FocusBelongsToShell'
    BY <1>0, <1>1, <1>6, <2>1 DEF PointerInOrder, MotionsReset, FocusBelongsToShell
  <2>4. UiResets'
    BY <1>0, <1>1, <1>3, <1>6, <2>1 DEF PointerInOrder, UiResets
  <2>. QED  BY <1>2, <2>2, <2>3, <2>4 DEF PointerInOrder
<1>7. CASE "pointer" \notin bound
  <2>1. inside' = inside
    BY <1>7 DEF HandleMessage, HandleKey
  <2>2. inside' = {}
    BY <1>7, <2>1 DEF PointerInOrder, MoverIsShell
  <2>. QED  BY <1>4, <2>2
<1>8. CASE m.type = "reset" /\ HandleReset(version)
  <2>1. Left(inside, focused) = {}
    BY SurfaceAssumption DEF FocusAgrees, Existing, Left, Alive, Held, SeatTyped, Surfaces
  <2>. QED  BY <1>4, <1>8, <2>1 DEF HandleReset
<1>9. CASE m.type \in {"press", "release"} /\ UNCHANGED <<inside, mover>>
  BY <1>1, <1>5, <1>9, MessageTyped
<1>10. CASE m.type \in {"button", "scroll", "stop"} /\ UNCHANGED <<inside, mover>>
  BY <1>1, <1>5, <1>10, MessageTyped
<1>11. CASE "pointer" \in bound
  <2>1. \/ m.type = "motion" /\ HandleMotion(m, version)
        \/ m.type = "reset" /\ HandleReset(version)
        \/ m.type \in {"press", "release"} /\ UNCHANGED <<inside, mover>>
        \/ m.type \in {"button", "scroll", "stop"} /\ UNCHANGED <<inside, mover>>
    BY <1>1, <1>11, MessageTyped DEF HandleMessage, HandleKey, HandlePointerEvent
  <2>. QED  BY <1>6, <1>8, <1>9, <1>10, <1>11, <2>1
<1>. QED  BY <1>7, <1>11

\* Who comes next: an acceptor, a PanelItemUi with its Reset, the one on its way.
LEMMA PointerOfNextShell ==
  ASSUME Order, SeatTyped, PointerInOrder, NEW i \in Items,
         ((Accepted(i) \/ Install) /\ UNCHANGED seatVars) \/ CreatesUi(i)
  PROVE  PointerInOrder'
<1>. USE DEF seatVars, deviceVars, clientVars, objectVars
<1>. WindowTypeOK /\ ItemsInOrder
  BY DEF Order
<1>1. CASE Accepted(i) /\ UNCHANGED seatVars
  <2>1. /\ UNCHANGED <<open, mapped, sink, late, mover, inside, bound>>
        /\ joining = NoItem /\ joining' = i /\ kind'[i] = "acceptor"
        /\ \A j \in Items : kind[j] = "acceptor" => kind'[j] = "acceptor"
    BY <1>1 DEF Accepted, WindowTypeOK
  <2>2. \A p, x : After(p, x)' = After(p, x)
    BY <2>1 DEF After
  <2>3. MotionsFromShells' /\ MoverIsShell' /\ UiResets'
    BY <2>1 DEF PointerInOrder, MotionsFromShells, MoverIsShell, UiResets
  <2>4. MotionsReset' /\ FocusBelongsToShell'
    BY <2>1, <2>2, NullAssumption
       DEF PointerInOrder, MotionsFromShells, MotionsReset, MoverIsShell, FocusBelongsToShell
  <2>. QED  BY <2>3, <2>4 DEF PointerInOrder
<1>2. CASE Install /\ UNCHANGED seatVars
  <2>1. /\ UNCHANGED <<open, kind, sink, late, mover, inside, bound>>
        /\ joining # NoItem /\ joining' = NoItem /\ (open => mapped' = joining)
    BY <1>2 DEF Install
  <2>2. \A p, x : After(p, x)' = After(p, x)
    BY <2>1 DEF After
  <2>3. MotionsFromShells' /\ MoverIsShell' /\ UiResets'
    BY <2>1 DEF PointerInOrder, MotionsFromShells, MoverIsShell, UiResets
  <2>4. joining \in Items /\ kind[joining] \in {"ui", "acceptor"}
    BY <2>1 DEF ItemsInOrder, WindowTypeOK
  <2>5. kind[joining] = "acceptor" /\ mapped # NoItem => kind[mapped] = "ui"
    BY <2>1 DEF ItemsInOrder
  <2>6. MotionsReset'
    <3>. SUFFICES ASSUME open, ~late, NEW p \in 1..Len(sink), sink[p].type = "motion",
                         sink[p].from # joining
                  PROVE  After(p, Reset)
      BY <2>1, <2>2 DEF MotionsReset
    <3>1. CASE kind[joining] = "ui"
      BY <2>1, <3>1 DEF PointerInOrder, UiResets
    <3>2. CASE kind[joining] = "acceptor"
      <4>1. sink[p].from # mapped
        BY <2>5, <3>2, NullAssumption DEF PointerInOrder, MotionsFromShells
      <4>. QED  BY <4>1 DEF PointerInOrder, MotionsReset
    <3>. QED  BY <2>4, <3>1, <3>2
  <2>7. FocusBelongsToShell'
    <3>. SUFFICES ASSUME open, ~late, inside # {}, mover # joining
                  PROVE  Reset \in ToSet(sink)
      BY <2>1 DEF FocusBelongsToShell
    <3>1. CASE kind[joining] = "ui"
      BY <2>1, <3>1 DEF PointerInOrder, UiResets
    <3>2. CASE kind[joining] = "acceptor"
      <4>1. mover # mapped
        BY <2>5, <3>2, NullAssumption DEF PointerInOrder, MoverIsShell
      <4>. QED  BY <4>1 DEF PointerInOrder, FocusBelongsToShell
    <3>. QED  BY <2>4, <3>1, <3>2
  <2>. QED  BY <2>3, <2>6, <2>7 DEF PointerInOrder
<1>3. CASE CreatesUi(i)
  <2>1. /\ UNCHANGED <<open, mapped, late, mover, inside, bound>> /\ Queue(Reset)
        /\ \A j \in Items : kind[j] = "acceptor" => kind'[j] = "acceptor"
    BY <1>3 DEF CreatesUi, UiCreated, WindowTypeOK, itemVars
  <2>2. Reset \in Messages /\ Reset.type # "motion"
    BY DEF Messages, Reset
  <2>3. /\ \A p \in 1..Len(sink') : sink'[p].type = "motion" =>
             p \in 1..Len(sink) /\ sink'[p] = sink[p]
        /\ \A p \in 1..Len(sink') : After(p, Reset)'
        /\ Reset \in ToSet(sink')
    BY <2>1, <2>2, Queued
  <2>4. Reset' = Reset
    BY DEF Reset
  <2>5. MotionsFromShells' /\ MoverIsShell'
    BY <2>1, <2>3 DEF PointerInOrder, MotionsFromShells, MoverIsShell
  <2>6. MotionsReset' /\ UiResets' /\ FocusBelongsToShell'
    BY <2>3, <2>4 DEF MotionsReset, UiResets, FocusBelongsToShell
  <2>. QED  BY <2>5, <2>6 DEF PointerInOrder
<1>. QED  BY <1>1, <1>2, <1>3

LEMMA PointerStep ==
  Order /\ SeatTyped /\ FocusAgrees /\ PointerInOrder /\ [Next]_vars => PointerInOrder'
<1>. SUFFICES ASSUME Order, SeatTyped, FocusAgrees, PointerInOrder, [Next]_vars
              PROVE  PointerInOrder'
  OBVIOUS
<1>. USE DEF seatVars, deviceVars, clientVars, objectVars, itemVars
<1>1. CASE WindowStep /\ UNCHANGED seatVars
  <2>1. ASSUME NEW c \in Children, ChildRequest(c) PROVE PointerInOrder'
    BY <1>1, <2>1, ObjectsKeptByRequests, PointerKept DEF ObjectsKept
  <2>2. CASE DestroyToplevel
    <3>1. /\ UNCHANGED <<kind, sink, inside, bound, mover>> /\ ~open'
      BY <1>1, <2>2 DEF DestroyToplevel
    <3>2. MotionsFromShells' /\ MoverIsShell'
      BY <3>1 DEF PointerInOrder, MotionsFromShells, MoverIsShell
    <3>. QED  BY <3>1, <3>2 DEF PointerInOrder, MotionsReset, UiResets, FocusBelongsToShell
  <2>3. ASSUME NEW a \in Attributes, SetAttribute(a) PROVE PointerInOrder'
    BY <1>1, <2>3, PointerKept DEF SetAttribute
  <2>4. CASE Install
    <3>1. joining \in Items
      BY <2>4 DEF Install, Order, WindowTypeOK
    <3>. QED  BY <1>1, <2>4, <3>1, PointerOfNextShell
  <2>5. ASSUME NEW i \in Items, Accepted(i) PROVE PointerInOrder'
    BY <1>1, <2>5, PointerOfNextShell
  <2>. QED  BY <1>1, <2>1, <2>2, <2>3, <2>4, <2>5 DEF WindowStep
<1>2. CASE Install /\ UNCHANGED seatVars
  BY <1>1, <1>2 DEF WindowStep
<1>3. ASSUME NEW s \in Surfaces, DestroysSurface(s) PROVE PointerInOrder'
  BY <1>3, PointerKept DEF DestroysSurface, DestroySurface
<1>4. ASSUME NEW i \in Items, CreatesUi(i) PROVE PointerInOrder'
  BY <1>4, PointerOfNextShell
<1>5. ASSUME NEW i \in Items, ShellDies(i) PROVE PointerInOrder'
  <2>1. UNCHANGED <<open, kind, mapped, joining, sink, late, mover, inside, bound>>
    BY <1>5 DEF ShellDies, AcceptorDies
  <2>2. \A p, x : After(p, x)' = After(p, x)
    BY <2>1 DEF After
  <2>. QED
    BY <2>1, <2>2 DEF PointerInOrder, MotionsFromShells, MotionsReset, UiResets, MoverIsShell,
                      FocusBelongsToShell
<1>6. ASSUME NEW i \in Items, NEW t \in Targets(i), PointerMotion(i, t) PROVE PointerInOrder'
  BY <1>6, MotionQueues
<1>7. ASSUME NEW i \in Items, NEW t \in Targets(i), NEW type \in {"button", "scroll", "stop"},
             PointerEvent(i, t, type)
      PROVE  PointerInOrder'
  <2>. DEFINE m == [type |-> type, surface |-> SurfaceFromId(i, t)]
  <2>1. m \in Messages /\ m.type # "motion" /\ Queue(m)
    BY <1>7, Found DEF PointerEvent, Messages
  <2>2. UNCHANGED <<open, kind, alive, mapped, joining, late, mover, inside, bound>>
    BY <1>7 DEF PointerEvent, stateVars
  <2>. HIDE DEF m
  <2>. QED  BY <2>1, <2>2, PointerQueues
<1>8. ASSUME NEW i \in Items, NEW t \in Targets(i), NEW k \in Keys,
             KeyPress(i, t, k) \/ KeyRelease(i, t, k)
      PROVE  PointerInOrder'
  <2>1. UNCHANGED <<open, kind, alive, mapped, joining, late, mover, inside, bound>>
    BY <1>8 DEF KeyPress, KeyRelease, windowVars, stateVars
  <2>2. CASE UNCHANGED sink
    BY <2>1, <2>2, PointerKept
  <2>3. CASE \E type \in {"press", "release"} :
               Queue([type |-> type, surface |-> SurfaceFromId(i, t), key |-> k])
             /\ Finds(i, t)
    <3>1. PICK type \in {"press", "release"} :
               Queue([type |-> type, surface |-> SurfaceFromId(i, t), key |-> k])
             /\ Finds(i, t)
      BY <2>3
    <3>. DEFINE m == [type |-> type, surface |-> SurfaceFromId(i, t), key |-> k]
    <3>2. m \in Messages /\ m.type # "motion"
      BY <3>1, Found DEF Messages
    <3>. HIDE DEF m
    <3>. QED  BY <2>1, <3>1, <3>2, PointerQueues DEF m
  <2>. QED  BY <1>8, <2>2, <2>3 DEF KeyPress, KeyRelease
<1>9. ASSUME NEW d \in Devices, GetDevice(d) PROVE PointerInOrder'
  BY <1>9, PointerKept DEF GetDevice, windowVars, stateVars
<1>10. CASE UNCHANGED vars
  BY <1>10, PointerKept DEF vars, windowVars, stateVars
<1>. QED
  BY <1>1, <1>2, <1>3, <1>4, <1>5, <1>6, <1>7, <1>8, <1>9, <1>10, MessageTaken DEF Next, Call
-----------------------------------------------------------------------------
(* The keys *)

ReleaseOf(s, k) == [type |-> "release", surface |-> s, key |-> k]

\* What the keyboard keeps as pressed on a surface is held there, or its release
\* is queued,
PressedReleased ==
  \A s \in Surfaces, k \in Keys \ strayed :
    k \in pressed[s] => held[k] = s \/ After(1, ReleaseOf(s, k))

\* after the press, if that still is,
PressesReleased ==
  \A p \in 1..Len(sink) :
    sink[p].type = "press" /\ sink[p].key \notin strayed =>
      held[sink[p].key] = sink[p].surface
      \/ After(p, ReleaseOf(sink[p].surface, sink[p].key))

\* and nothing is pressed on a keyboard that the client has not bound.
UnboundPressesNothing == "keyboard" \notin bound => \A s \in Surfaces : pressed[s] = {}

NoFocusNoKeys == keyInside = {} => keys = {}

KeysInOrder == PressedReleased /\ PressesReleased /\ UnboundPressesNothing /\ NoFocusNoKeys
               /\ KeysAgree

LEMMA KeysMean == SeatTyped /\ FocusAgrees /\ KeysInOrder => NoStuckKey
<1>. SUFFICES ASSUME SeatTyped, FocusAgrees, KeysInOrder, NEW k \in keys \ strayed
              PROVE  held[k] # NoSurface
                     \/ \E m \in ToSet(sink) : m.type = "release" /\ m.key = k
  BY DEF NoStuckKey, KeysInOrder
<1>1. keyInside # {}
  BY DEF KeysInOrder, NoFocusNoKeys
<1>2. keyFocused \in Surfaces /\ k \in Keys
  BY <1>1 DEF FocusAgrees, Existing, SeatTyped
<1>3. k \in pressed[keyFocused]
  BY <1>1 DEF KeysInOrder, KeysAgree
<1>4. CASE held[k] = keyFocused
  BY <1>2, <1>4, SurfaceAssumption DEF Surfaces
<1>5. CASE After(1, ReleaseOf(keyFocused, k))
  BY <1>5 DEF After, ReleaseOf, ToSet, SeatTyped
<1>. QED  BY <1>2, <1>3, <1>4, <1>5 DEF KeysInOrder, PressedReleased

LEMMA KeysKept ==
  ASSUME KeysInOrder, UNCHANGED <<sink, held, strayed, pressed, keyFocused, keyInside, keys>>,
         bound \subseteq bound'
  PROVE  KeysInOrder'
<1>1. UNCHANGED sink
  OBVIOUS
<1>2. \A p, x : After(p, x)' = After(p, x)
  BY <1>1 DEF After
<1>3. \A s, k : ReleaseOf(s, k)' = ReleaseOf(s, k)
  BY DEF ReleaseOf
<1>. QED
  BY <1>2, <1>3 DEF KeysInOrder, PressedReleased, PressesReleased, UnboundPressesNothing,
                    NoFocusNoKeys, KeysAgree

\* A message other than a press, and a release that the user does.
LEMMA KeysQueue ==
  ASSUME SeatTyped, KeysInOrder, NEW m \in Messages, Queue(m), m.type # "press",
         UNCHANGED <<pressed, keyFocused, keyInside, keys, bound>>, strayed \subseteq strayed',
         \A k \in Keys \ strayed' :
           held'[k] = held[k] \/ held[k] = NoSurface \/ m = ReleaseOf(held[k], k)
  PROVE  KeysInOrder'
<1>1. /\ \A p \in 1..Len(sink') : sink'[p].type = "press" => p \in 1..Len(sink)
      /\ \A p \in 1..Len(sink) : /\ sink'[p] = sink[p]
                                 /\ \A x : After(p, x) => After(p, x)'
                                 /\ p \in 1..Len(sink')
      /\ \A p \in 1..Len(sink') : After(p, m)'
      /\ 1 \in 1..Len(sink')
  BY Queued
<1>2. \A x : After(1, x) => After(1, x)'
  BY <1>1 DEF After, SeatTyped
<1>3. \A s, k : ReleaseOf(s, k)' = ReleaseOf(s, k)
  BY DEF ReleaseOf
<1>4. NoSurface \notin Surfaces
  BY SurfaceAssumption DEF Surfaces
<1>5. PressedReleased'
  <2>. SUFFICES ASSUME NEW s \in Surfaces, NEW k \in Keys \ strayed', k \in pressed[s]
                PROVE  held'[k] = s \/ After(1, ReleaseOf(s, k))'
    BY <1>3 DEF PressedReleased
  <2>1. held[k] = s \/ After(1, ReleaseOf(s, k))
    BY DEF KeysInOrder, PressedReleased
  <2>. QED  BY <1>1, <1>2, <1>3, <1>4, <2>1
<1>6. PressesReleased'
  <2>. SUFFICES ASSUME NEW p \in 1..Len(sink), sink[p].type = "press", sink[p].key \notin strayed'
                PROVE  held'[sink[p].key] = sink[p].surface
                       \/ After(p, ReleaseOf(sink[p].surface, sink[p].key))'
    BY <1>1, <1>3 DEF PressesReleased
  <2>1. sink[p].surface \in Surfaces /\ sink[p].key \in Keys
    <3>1. sink[p] \in Messages
      BY DEF SeatTyped
    <3>. QED  BY <3>1, MessageTyped
  <2>2. held[sink[p].key] = sink[p].surface
        \/ After(p, ReleaseOf(sink[p].surface, sink[p].key))
    BY DEF KeysInOrder, PressesReleased
  <2>. QED  BY <1>1, <1>3, <1>4, <2>1, <2>2
<1>7. UnboundPressesNothing' /\ NoFocusNoKeys' /\ KeysAgree'
  BY DEF KeysInOrder, UnboundPressesNothing, NoFocusNoKeys, KeysAgree
<1>. QED  BY <1>5, <1>6, <1>7 DEF KeysInOrder

LEMMA KeyPressQueues ==
  ASSUME SeatTyped, KeysInOrder, NEW i \in Items, NEW t \in Targets(i), NEW k \in Keys,
         KeyPress(i, t, k)
  PROVE  KeysInOrder'
<1>. DEFINE s == SurfaceFromId(i, t)
            m == [type |-> "press", surface |-> s, key |-> k]
<1>1. /\ m \in Messages /\ m.type = "press" /\ m.surface = s /\ m.key = k /\ s \in Surfaces
      /\ Queue(m) /\ held[k] = NoSurface /\ held' = [held EXCEPT ![k] = s]
      /\ UNCHANGED <<strayed, pressed, keyFocused, keyInside, keys, bound>>
  BY Found DEF KeyPress, Messages, deviceVars, clientVars
<1>. HIDE DEF m, s
<1>2. /\ \A p \in 1..Len(sink') :
           \/ p \in 1..Len(sink) /\ sink'[p] = sink[p] /\ \A x : After(p, x) => After(p, x)'
           \/ sink'[p] = m
  BY <1>1, Queued
<1>3. ASSUME NEW x, After(1, x) PROVE After(1, x)'
  <2>1. 1 \in 1..Len(sink)
    BY <1>3 DEF After, SeatTyped
  <2>. QED  BY <1>1, <1>3, <2>1, Queued
<1>4. \A e, j : ReleaseOf(e, j)' = ReleaseOf(e, j)
  BY DEF ReleaseOf
<1>5. NoSurface \notin Surfaces /\ \A j \in Keys : held'[j] = IF j = k THEN s ELSE held[j]
  BY <1>1, SurfaceAssumption DEF Surfaces, SeatTyped
<1>6. PressedReleased'
  BY <1>1, <1>3, <1>4, <1>5 DEF KeysInOrder, PressedReleased
<1>7. PressesReleased'
  <2>. SUFFICES ASSUME NEW p \in 1..Len(sink'), sink'[p].type = "press",
                       sink'[p].key \notin strayed
                PROVE  held'[sink'[p].key] = sink'[p].surface
                       \/ After(p, ReleaseOf(sink[p].surface, sink[p].key))'
    BY <1>1, <1>4 DEF PressesReleased
  <2>1. CASE sink'[p] = m
    BY <1>1, <1>5, <2>1
  <2>2. CASE p \in 1..Len(sink) /\ sink'[p] = sink[p] /\ \A x : After(p, x) => After(p, x)'
    <3>1. sink[p] \in Messages
      BY <2>2 DEF SeatTyped
    <3>2. sink[p].surface \in Surfaces /\ sink[p].key \in Keys
      BY <2>2, <3>1, MessageTyped
    <3>3. held[sink[p].key] = sink[p].surface
          \/ After(p, ReleaseOf(sink[p].surface, sink[p].key))
      BY <2>2 DEF KeysInOrder, PressesReleased
    <3>. QED  BY <1>1, <1>4, <1>5, <2>2, <3>2, <3>3
  <2>. QED  BY <1>2, <2>1, <2>2
<1>8. UnboundPressesNothing' /\ NoFocusNoKeys' /\ KeysAgree'
  BY <1>1 DEF KeysInOrder, UnboundPressesNothing, NoFocusNoKeys, KeysAgree
<1>. QED  BY <1>6, <1>7, <1>8 DEF KeysInOrder

\* What is queued stays queued until its turn.
LEMMA KeysTaken ==
  ASSUME SeatTyped, KeysInOrder, sink # <<>>, sink' = Tail(sink), UNCHANGED held,
         strayed \subseteq strayed'
  PROVE  /\ PressesReleased'
         /\ \A x : After(1, x) /\ x # Head(sink) => After(1, x)'
<1>1. /\ Len(sink') = Len(sink) - 1 /\ Len(sink) \in Nat \ {0}
      /\ \A p \in 1..Len(sink') : /\ sink'[p] = sink[p + 1] /\ p + 1 \in 1..Len(sink)
                                  /\ \A x : After(p + 1, x) => After(p, x)'
      /\ Head(sink) = sink[1]
  BY Taken
<1>2. \A s, k : ReleaseOf(s, k)' = ReleaseOf(s, k)
  BY DEF ReleaseOf
<1>3. PressesReleased'
  <2>. SUFFICES ASSUME NEW p \in 1..Len(sink'), sink[p + 1].type = "press",
                       sink[p + 1].key \notin strayed
                PROVE  held[sink[p + 1].key] = sink[p + 1].surface
                       \/ After(p, ReleaseOf(sink[p].surface, sink[p].key))'
    BY <1>1, <1>2 DEF PressesReleased
  <2>1. held[sink[p + 1].key] = sink[p + 1].surface
        \/ After(p + 1, ReleaseOf(sink[p + 1].surface, sink[p + 1].key))
    BY <1>1 DEF KeysInOrder, PressesReleased
  <2>. QED  BY <1>1, <1>2, <2>1
<1>4. ASSUME NEW x, After(1, x), x # Head(sink) PROVE After(1, x)'
  <2>1. PICK q \in 1..Len(sink) : sink[q] = x
    BY <1>4 DEF After
  <2>2. q # 1
    BY <1>1, <1>4, <2>1
  <2>3. q - 1 \in 1..Len(sink') /\ sink[(q - 1) + 1] = x
    BY <1>1, <2>1, <2>2
  <2>. QED  BY <1>1, <2>3 DEF After
<1>. QED  BY <1>3, <1>4

LEMMA KeyHandled ==
  ASSUME WindowTypeOK, SeatTyped, FocusAgrees, KeysInOrder, NEW found \in BOOLEAN,
         NEW m \in Messages, m = Head(sink), m.type \in {"press", "release"},
         HandleKey(m, found), sink # <<>>, sink' = Tail(sink), "keyboard" \in bound,
         UNCHANGED object
  PROVE  KeysInOrder'
<1>. USE DEF deviceVars, clientVars
<1>0. /\ m.surface \in Surfaces /\ m.key \in Keys
      /\ m = [type |-> m.type, surface |-> m.surface, key |-> m.key]
      /\ UNCHANGED <<held, bound>> /\ strayed \subseteq strayed'
  BY MessageTyped DEF HandleKey
<1>1. /\ PressesReleased'
      /\ \A x : After(1, x) /\ x # m => After(1, x)'
  BY <1>0, KeysTaken
<1>2. \A s, k : ReleaseOf(s, k)' = ReleaseOf(s, k)
  BY DEF ReleaseOf
<1>3. CASE ~found
  <2>1. /\ UNCHANGED <<pressed, keyFocused, keyInside, keys>>
        /\ m.type = "release" => m.key \in strayed'
    BY <1>0, <1>3 DEF HandleKey
  <2>2. \A s \in Surfaces, k \in Keys \ strayed' : ReleaseOf(s, k) # m
    BY <1>0, <2>1 DEF ReleaseOf
  <2>3. PressedReleased'
    BY <1>0, <1>1, <1>2, <2>1, <2>2 DEF KeysInOrder, PressedReleased
  <2>. QED
    BY <1>0, <1>1, <2>1, <2>3 DEF KeysInOrder, UnboundPressesNothing, NoFocusNoKeys, KeysAgree
<1>4. CASE found
  <2>. DEFINE down == m.type = "press"
              now == PressedAfter(m.surface, down, m.key)
              before == IF keyFocused = m.surface THEN keys ELSE now
  <2>1. /\ pressed' = [pressed EXCEPT ![m.surface] = now]
        /\ keyFocused' = m.surface
        /\ keyInside' = Refocus(keyInside, keyFocused, m.surface)
        /\ keys' = IF m.surface \in keyInside' THEN Toggle(before, down, m.key) ELSE {}
        /\ strayed' = strayed
    BY <1>4 DEF HandleKey
  <2>2. now = IF down THEN pressed[m.surface] \union {m.key} ELSE pressed[m.surface] \ {m.key}
    BY DEF PressedAfter, Toggle
  <2>3. /\ pressed'[m.surface] = now
        /\ \A s \in Surfaces \ {m.surface} : pressed'[s] = pressed[s]
    BY <1>0, <2>1 DEF SeatTyped
  <2>4. keyInside' = Existing(m.surface)
    BY <1>0, <2>1, RefocusAgrees DEF FocusAgrees, SeatTyped
  <2>5. KeysAgree' /\ NoFocusNoKeys'
    <3>1. keyInside' # {} => m.surface \in keyInside'
      BY <2>4 DEF Existing
    <3>2. keyInside' = {} => keys' = {}
      BY <2>1
    <3>3. CASE m.surface \in keyInside' /\ keyFocused = m.surface
      <4>1. keyInside # {}
        BY <2>4, <3>3 DEF FocusAgrees
      <4>2. keys = pressed[m.surface]
        BY <3>3, <4>1 DEF KeysInOrder, KeysAgree
      <4>3. keys' = now
        BY <2>1, <3>3, <4>2 DEF PressedAfter
      <4>. QED  BY <2>1, <2>3, <3>3, <4>3 DEF KeysAgree, NoFocusNoKeys
    <3>4. CASE m.surface \in keyInside' /\ keyFocused # m.surface
      <4>1. Toggle(now, down, m.key) = now
        BY <2>2 DEF Toggle
      <4>. HIDE DEF now
      <4>2. keys' = now
        BY <2>1, <3>4, <4>1
      <4>. QED  BY <2>1, <2>3, <3>4, <4>2 DEF KeysAgree, NoFocusNoKeys
    <3>. QED  BY <3>1, <3>2, <3>3, <3>4 DEF KeysAgree, NoFocusNoKeys
  <2>6. PressedReleased'
    <3>. SUFFICES ASSUME NEW s \in Surfaces, NEW k \in Keys \ strayed, k \in pressed'[s]
                  PROVE  held[k] = s \/ After(1, ReleaseOf(s, k))'
      BY <1>0, <1>2, <2>1 DEF PressedReleased
    <3>1. CASE s = m.surface /\ k = m.key
      <4>1. down
        BY <1>0, <2>2, <2>3, <3>1
      <4>2. m = sink[1] /\ 1 \in 1..Len(sink)
        BY Taken
      <4>3. held[k] = s \/ After(1, ReleaseOf(s, k))
        BY <3>1, <4>1, <4>2 DEF KeysInOrder, PressesReleased
      <4>4. ReleaseOf(s, k) # m
        BY <4>1 DEF ReleaseOf
      <4>. QED  BY <1>1, <1>2, <4>3, <4>4
    <3>2. CASE ~(s = m.surface /\ k = m.key)
      <4>1. k \in pressed[s]
        BY <2>2, <2>3, <3>2
      <4>2. held[k] = s \/ After(1, ReleaseOf(s, k))
        BY <4>1 DEF KeysInOrder, PressedReleased
      <4>3. ReleaseOf(s, k) # m
        BY <3>2 DEF ReleaseOf
      <4>. QED  BY <1>1, <1>2, <4>2, <4>3
    <3>. QED  BY <3>1, <3>2
  <2>. QED
    BY <1>0, <1>1, <2>5, <2>6 DEF KeysInOrder, UnboundPressesNothing
<1>. QED  BY <1>3, <1>4

LEMMA KeysMessageTaken ==
  ASSUME WindowTypeOK, SeatTyped, FocusAgrees, KeysInOrder, NEW version \in Versions,
         NEW found \in BOOLEAN, HandleMessage(version, found)
  PROVE  KeysInOrder'
<1>. DEFINE m == Head(sink)
<1>. USE DEF deviceVars, clientVars
<1>0. /\ sink # <<>> /\ sink' = Tail(sink) /\ m \in Messages /\ UNCHANGED object
  BY Taken DEF HandleMessage, windowVars, stateVars, objectVars
<1>1. CASE m.type \in {"press", "release"} /\ "keyboard" \in bound
  <2>1. HandleKey(m, found)
    BY <1>1 DEF HandleMessage
  <2>. HIDE DEF m
  <2>. QED  BY <1>0, <1>1, <2>1, KeyHandled DEF m
<1>2. CASE m.type \in {"press", "release"} /\ "keyboard" \notin bound
  <2>1. UNCHANGED <<pressed, keyFocused, keyInside, keys, held, strayed, bound>>
    BY <1>2 DEF HandleMessage
  <2>2. PressesReleased'
    BY <1>0, <2>1, KeysTaken
  <2>3. \A s \in Surfaces : pressed[s] = {}
    BY <1>2 DEF KeysInOrder, UnboundPressesNothing
  <2>. QED
    BY <2>1, <2>2, <2>3 DEF KeysInOrder, PressedReleased, UnboundPressesNothing,
                            NoFocusNoKeys, KeysAgree
<1>3. CASE m.type \notin {"press", "release"}
  <2>1. UNCHANGED <<pressed, keyFocused, keyInside, keys, held, strayed, bound>>
    BY <1>0, <1>3, MessageTyped
       DEF HandleMessage, HandleMotion, HandleReset, HandlePointerEvent
  <2>2. PressesReleased' /\ \A x : After(1, x) /\ x # m => After(1, x)'
    BY <1>0, <2>1, KeysTaken
  <2>3. \A s, k : ReleaseOf(s, k) # m /\ ReleaseOf(s, k)' = ReleaseOf(s, k)
    BY <1>3 DEF ReleaseOf
  <2>4. PressedReleased'
    BY <2>1, <2>2, <2>3 DEF KeysInOrder, PressedReleased
  <2>. QED
    BY <2>1, <2>2, <2>4 DEF KeysInOrder, UnboundPressesNothing, NoFocusNoKeys, KeysAgree
<1>. QED  BY <1>1, <1>2, <1>3

LEMMA KeysStep ==
  Order /\ SeatTyped /\ FocusAgrees /\ KeysInOrder /\ [Next]_vars => KeysInOrder'
<1>. SUFFICES ASSUME Order, SeatTyped, FocusAgrees, KeysInOrder, [Next]_vars
              PROVE  KeysInOrder'
  OBVIOUS
<1>. USE DEF seatVars, deviceVars, clientVars
<1>. WindowTypeOK
  BY DEF Order
<1>1. CASE UNCHANGED seatVars
  BY <1>1, KeysKept
<1>2. ASSUME NEW s \in Surfaces, DestroysSurface(s) PROVE KeysInOrder'
  <2>1. /\ UNCHANGED <<sink, held, strayed, pressed, keyFocused, bound>>
        /\ keyInside' = keyInside \ {s}
        /\ keys' = IF s \in keyInside THEN {} ELSE keys
    BY <1>2 DEF DestroysSurface
  <2>2. keyInside \subseteq {keyFocused}
    BY DEF FocusAgrees, Existing
  <2>3. KeysAgree' /\ NoFocusNoKeys'
    BY <2>1, <2>2 DEF KeysInOrder, KeysAgree, NoFocusNoKeys
  <2>4. \A p, x : After(p, x)' = After(p, x)
    BY <2>1 DEF After
  <2>5. \A e, k : ReleaseOf(e, k)' = ReleaseOf(e, k)
    BY DEF ReleaseOf
  <2>. QED
    BY <2>1, <2>3, <2>4, <2>5
       DEF KeysInOrder, PressedReleased, PressesReleased, UnboundPressesNothing
<1>3. ASSUME NEW i \in Items, CreatesUi(i) PROVE KeysInOrder'
  <2>1. Reset \in Messages /\ Reset.type # "press"
    BY DEF Reset, Messages
  <2>. QED  BY <1>3, <2>1, KeysQueue DEF CreatesUi
<1>4. ASSUME NEW i \in Items, ShellDies(i) PROVE KeysInOrder'
  <2>1. /\ UNCHANGED <<sink, pressed, keyFocused, keyInside, keys, bound>>
        /\ strayed' = strayed \union {k \in Keys : held[k] # NoSurface}
        /\ \A k \in Keys : held'[k] = NoSurface
    BY <1>4 DEF ShellDies
  <2>2. \A p, x : After(p, x)' = After(p, x)
    BY <2>1 DEF After
  <2>3. \A e, k : ReleaseOf(e, k)' = ReleaseOf(e, k)
    BY DEF ReleaseOf
  <2>4. \A k \in Keys \ strayed' : held'[k] = held[k]
    BY <2>1
  <2>5. PressedReleased'
    BY <2>1, <2>2, <2>3, <2>4 DEF KeysInOrder, PressedReleased
  <2>6. PressesReleased'
    <3>1. \A p \in 1..Len(sink) : sink[p].type = "press" => sink[p].key \in Keys
      BY MessageTyped DEF SeatTyped
    <3>. QED  BY <2>1, <2>2, <2>3, <2>4, <3>1 DEF KeysInOrder, PressesReleased
  <2>. QED
    BY <2>1, <2>5, <2>6 DEF KeysInOrder, UnboundPressesNothing, NoFocusNoKeys, KeysAgree
<1>5. ASSUME NEW i \in Items, NEW t \in Targets(i), PointerMotion(i, t) PROVE KeysInOrder'
  <2>. DEFINE m == [type |-> "motion", surface |-> SurfaceFromId(i, t), from |-> i]
  <2>1. m \in Messages /\ m.type # "press" /\ Queue(m)
    BY <1>5, Found DEF PointerMotion, Messages
  <2>. HIDE DEF m
  <2>. QED  BY <1>5, <2>1, KeysQueue DEF PointerMotion
<1>6. ASSUME NEW i \in Items, NEW t \in Targets(i), NEW type \in {"button", "scroll", "stop"},
             PointerEvent(i, t, type)
      PROVE  KeysInOrder'
  <2>. DEFINE m == [type |-> type, surface |-> SurfaceFromId(i, t)]
  <2>1. m \in Messages /\ m.type # "press" /\ Queue(m)
    BY <1>6, Found DEF PointerEvent, Messages
  <2>. HIDE DEF m
  <2>. QED  BY <1>6, <2>1, KeysQueue DEF PointerEvent
<1>7. ASSUME NEW i \in Items, NEW t \in Targets(i), NEW k \in Keys, KeyRelease(i, t, k)
      PROVE  KeysInOrder'
  <2>. DEFINE s == SurfaceFromId(i, t)
              m == [type |-> "release", surface |-> s, key |-> k]
  <2>1. /\ UNCHANGED <<pressed, keyFocused, keyInside, keys, bound>>
        /\ strayed' = IF s = held[k] THEN strayed ELSE strayed \union {k}
        /\ held' = [held EXCEPT ![k] = NoSurface] /\ held[k] # NoSurface
        /\ IF Finds(i, t) THEN Queue(m) ELSE UNCHANGED sink
    BY <1>7 DEF KeyRelease
  <2>2. Finds(i, t) <=> s # NoSurface
    BY DEF Finds
  <2>3. \A j \in Keys \ {k} : held'[j] = held[j]
    BY <2>1 DEF SeatTyped
  <2>4. CASE Finds(i, t)
    <3>1. m \in Messages /\ m.type # "press"
      BY <2>4, Found DEF Messages
    <3>2. s = held[k] => m = ReleaseOf(held[k], k)
      BY DEF ReleaseOf
    <3>. HIDE DEF m, s
    <3>3. \A j \in Keys \ strayed' : held'[j] = held[j] \/ m = ReleaseOf(held[j], j)
      BY <2>1, <2>3, <3>2
    <3>. QED  BY <2>1, <2>4, <3>1, <3>3, KeysQueue
  <2>5. CASE ~Finds(i, t)
    <3>1. UNCHANGED sink /\ strayed' = strayed \union {k}
      BY <2>1, <2>2, <2>5
    <3>2. \A p, x : After(p, x)' = After(p, x)
      BY <3>1 DEF After
    <3>3. \A e, j : ReleaseOf(e, j)' = ReleaseOf(e, j)
      BY DEF ReleaseOf
    <3>. HIDE DEF s
    <3>4. \A j \in Keys \ strayed' : held'[j] = held[j]
      BY <2>3, <3>1
    <3>5. PressedReleased'
      BY <2>1, <3>1, <3>2, <3>3, <3>4 DEF KeysInOrder, PressedReleased
    <3>6. PressesReleased'
      <4>1. \A p \in 1..Len(sink) : sink[p].type = "press" => sink[p].key \in Keys
        BY MessageTyped DEF SeatTyped
      <4>. QED  BY <3>1, <3>2, <3>3, <3>4, <4>1 DEF KeysInOrder, PressesReleased
    <3>. QED
      BY <2>1, <3>5, <3>6 DEF KeysInOrder, UnboundPressesNothing, NoFocusNoKeys, KeysAgree
  <2>. QED  BY <2>4, <2>5
<1>8. ASSUME NEW i \in Items, Call(i) PROVE KeysInOrder'
  BY <1>5, <1>6, <1>7, <1>8, KeyPressQueues DEF Call
<1>9. ASSUME NEW d \in Devices, GetDevice(d) PROVE KeysInOrder'
  BY <1>9, KeysKept DEF GetDevice
<1>. QED
  BY <1>1, <1>2, <1>3, <1>4, <1>8, <1>9, KeysMessageTaken DEF Next, vars
-----------------------------------------------------------------------------
(* The theorems *)

SeatInvariant ==
  /\ Order /\ Kids /\ AttributesFollow
  /\ SeatTyped /\ FocusAgrees /\ PointerInOrder /\ KeysInOrder /\ EventsWithinVersion

LEMMA EventsStep == SeatTyped /\ EventsWithinVersion /\ [Next]_vars => EventsWithinVersion'
<1>. SUFFICES ASSUME SeatTyped, EventsWithinVersion, [Next]_vars PROVE foreign' \subseteq {"frame"}
  BY DEF EventsWithinVersion
<1>. USE DEF seatVars, deviceVars, clientVars
<1>1. CASE UNCHANGED foreign
  BY <1>1 DEF EventsWithinVersion
<1>2. ASSUME NEW version \in Versions, NEW found \in BOOLEAN, HandleMessage(version, found)
      PROVE  foreign' \subseteq foreign \union {"frame"}
  <2>. DEFINE m == Head(sink)
  <2>1. m \in Messages
    BY <1>2, Tailed DEF HandleMessage, SeatTyped
  <2>2. CASE HandleMotion(m, version) \/ HandleReset(version)
    BY <2>2, EventsTyped DEF HandleMotion, HandleReset, SendPointer
  <2>3. CASE m.type \in {"button", "scroll", "stop"} /\ HandlePointerEvent(m, version)
    BY <2>3, EventsTyped DEF HandlePointerEvent, SendPointer
  <2>. QED
    BY <1>1, <1>2, <2>1, <2>2, <2>3, MessageTyped DEF HandleMessage, HandleKey
<1>3. ASSUME NEW i \in Items, CreatesUi(i) \/ ShellDies(i) PROVE UNCHANGED foreign
  BY <1>3 DEF CreatesUi, ShellDies
<1>4. ASSUME NEW i \in Items, Call(i) PROVE UNCHANGED foreign
  BY <1>4 DEF Call, PointerMotion, PointerEvent, KeyPress, KeyRelease
<1>5. ASSUME NEW s \in Surfaces, DestroysSurface(s) PROVE UNCHANGED foreign
  BY <1>5 DEF DestroysSurface
<1>6. ASSUME NEW d \in Devices, GetDevice(d) PROVE UNCHANGED foreign
  BY <1>6 DEF GetDevice
<1>7. (\E version \in Versions, found \in BOOLEAN : HandleMessage(version, found))
        \/ UNCHANGED foreign
  BY <1>3, <1>4, <1>5, <1>6 DEF Next, vars
<1>. QED  BY <1>1, <1>2, <1>7 DEF EventsWithinVersion

\* The seat implements the window, so that all of its theorems hold here too.
THEOREM SeatTakesPart == Spec => WindowSpec /\ []SeatInvariant
<1>1. Init => WindowInit /\ SeatInvariant
  <2>. SUFFICES ASSUME Init PROVE SeatInvariant
    BY DEF Init
  <2>1. SeatTyped
    <3>1. sink \in Seq(Messages)
      BY DEF Init
    <3>2. pressed \in [Surfaces -> SUBSET Keys] /\ held \in [Keys -> Surfaces \union {NoSurface}]
      BY DEF Init
    <3>. QED  BY <3>1, <3>2 DEF Init, SeatTyped
  <2>2. FocusAgrees /\ PointerInOrder /\ KeysInOrder /\ EventsWithinVersion
    BY DEF Init, FocusAgrees, Existing, PointerInOrder, MotionsFromShells, MotionsReset, UiResets,
           MoverIsShell, FocusBelongsToShell, KeysInOrder, PressedReleased, PressesReleased,
           UnboundPressesNothing, NoFocusNoKeys, KeysAgree, EventsWithinVersion
  <2>. QED  BY <2>1, <2>2, AtFirst DEF Init, SeatInvariant
<1>2. SeatInvariant /\ [Next]_vars => [WindowNext]_windowVars
  BY WindowTakesPart DEF SeatInvariant, Order
<1>3. SeatInvariant /\ [Next]_vars => SeatInvariant'
  BY <1>2, OrderStep, KidsStep, AttributesStep, SeatTypedStep, FocusStep, PointerStep, KeysStep,
     EventsStep DEF SeatInvariant
<1>. QED  BY <1>1, <1>2, <1>3, PTL DEF Spec, WindowSpec

\* What the devices, the queue and the client's view are made of.
THEOREM Typing == Spec => []TypeOK
<1>1. SeatInvariant => TypeOK
  BY DEF SeatInvariant, Order, SeatTyped, TypeOK
<1>. QED  BY SeatTakesPart, <1>1, PTL

\* A client's view of the focus is the devices': one surface at most is focused.
THEOREM FocusAgreement == Spec => []FocusAgrees
<1>1. SeatInvariant => FocusAgrees
  BY DEF SeatInvariant
<1>. QED  BY SeatTakesPart, <1>1, PTL

\* A key that is down for the client is held by the user or about to be released.
THEOREM NoKeyStuck == Spec => []NoStuckKey
<1>1. SeatInvariant => NoStuckKey
  BY KeysMean DEF SeatInvariant
<1>. QED  BY SeatTakesPart, <1>1, PTL

\* A pointer focus does not outlive the shell that moved it there.
THEOREM FocusOfShell == Spec => []FocusBelongsToShell
<1>1. SeatInvariant => FocusBelongsToShell
  BY DEF SeatInvariant, PointerInOrder
<1>. QED  BY SeatTakesPart, <1>1, PTL

\* No pointer gets an event newer than its version, but for frame.
THEOREM VersionsKept == Spec => []EventsWithinVersion
<1>1. SeatInvariant => EventsWithinVersion
  BY DEF SeatInvariant
<1>. QED  BY SeatTakesPart, <1>1, PTL

\* The invariants of the window, with the seat taking part: the children that a
\* shell shows and those its input finds,
THEOREM ChildrenOfSeat == Spec => []ChildrenAgree
BY SeatTakesPart, ChildrenAgreement, PTL

\* that none of them is a ghost, and none is lost, but for ids of a second
\* wl_subsurface and for surfaces that lost their parent surface,
THEOREM LiveChildrenOfSeat == Spec => []ChildrenLive
BY SeatTakesPart, NoGhostChild, PTL

\* what an acceptor knows of the title and app_id,
THEOREM AttributesOfSeat == Spec => []AttributesKnown
BY SeatTakesPart, AttributesKnowledge, PTL

\* and where the children that were made once are, unless a positioner overflows.
THEOREM PlacesOfSeat ==
  ASSUME \A d \in Data : NoOverflow(d)
  PROVE  Spec => []PlacesAgree
BY SeatTakesPart, PlacesAgreement, PTL
=============================================================================
