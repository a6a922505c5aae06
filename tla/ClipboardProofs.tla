---------------------------- MODULE ClipboardProofs ----------------------------
(***************************************************************************)
(* The clipboard for any clients and any number of selections and pastes:  *)
(* who is asked for the data, and what the devices are told.               *)
(***************************************************************************)
EXTENDS Clipboard, TLAPS

(* The parts of the inductive invariant *)

\* Selections that are known anywhere were made before.
Known ==
  /\ clipboard <= made
  /\ \A c \in Clients : /\ announcing[c] <= made /\ told[c] <= made
                        /\ \A n \in offers[c] : n <= made
                        /\ \A i \in DOMAIN inbox[c] : inbox[c][i].n <= made

\* Only connections that are open have a queue, and their sinks are registered.
QueuesOpen ==
  \A c \in Clients : /\ conn[c] # "connected" => inbox[c] = <<>>
                     /\ conn[c] = "connected" => c \in registered
                     /\ conn[c] = "new" => device[c] = "none"

AsksMaker(c, m) == m.kind = "send" => owner[m.n] = c
MakersAsked == \A c \in Clients : \A i \in DOMAIN inbox[c] : AsksMaker(c, inbox[c][i])

\* Queue q ends, of its selections, with the one in CLIPBOARD.
EndsWithClipboard(q) ==
  \A i \in DOMAIN q : q[i].kind = "selection" /\ q[i].n # clipboard =>
    \E j \in DOMAIN q : i < j /\ q[j] = Selection(clipboard)
NoneIn(q) == \A i \in DOMAIN q : q[i].kind # "selection"

\* As long as requests do not overlap: only what CLIPBOARD holds is on its way to the
\* queues, and what is there already ends with it.
Follows(c) ==
  /\ EndsWithClipboard(inbox[c])
  /\ device[c] = "live" /\ NoneIn(inbox[c]) => told[c] = clipboard
Announces == \E c \in Clients : announcing[c] # NoSelection
InStep ==
  serial /\ clipboard # NoSelection =>
    /\ \A c \in Clients : announcing[c] \in {NoSelection, clipboard}
    /\ ~Announces => \A c \in Clients : conn[c] = "connected" => Follows(c)

Invariant == TypeOK /\ Known /\ QueuesOpen /\ MakersAsked /\ InStep
-----------------------------------------------------------------------------
(* Queues *)

LEMMA Appended ==
  ASSUME NEW q \in Seq(Messages), NEW m \in Messages
  PROVE  /\ Append(q, m) \in Seq(Messages)
         /\ DOMAIN q \subseteq Nat /\ Len(q) \in Nat
         /\ DOMAIN Append(q, m) = DOMAIN q \union {Len(q) + 1}
         /\ \A i \in DOMAIN q : Append(q, m)[i] = q[i] /\ i < Len(q) + 1
         /\ Append(q, m)[Len(q) + 1] = m
OBVIOUS

LEMMA Shortened ==
  ASSUME NEW q \in Seq(Messages), q # <<>>
  PROVE  /\ Tail(q) \in Seq(Messages) /\ Head(q) \in Messages
         /\ Head(q) = q[1] /\ 1 \in DOMAIN q
         /\ DOMAIN q \subseteq Nat \ {0} /\ DOMAIN Tail(q) \subseteq Nat
         /\ \A i \in DOMAIN Tail(q) : i + 1 \in DOMAIN q /\ Tail(q)[i] = q[i + 1]
         /\ \A i \in DOMAIN q : i # 1 => i - 1 \in DOMAIN Tail(q) /\ Tail(q)[i - 1] = q[i]
OBVIOUS

\* A selection that is announced comes last.
LEMMA EndsAfterAppend ==
  ASSUME NEW q \in Seq(Messages), NEW m \in Messages, m.kind = "selection" => m.n = clipboard,
         clipboard \in Selections
  PROVE  /\ m.kind = "selection" => EndsWithClipboard(Append(q, m)) /\ ~NoneIn(Append(q, m))
         /\ EndsWithClipboard(q) => EndsWithClipboard(Append(q, m))
         /\ NoneIn(Append(q, m)) => NoneIn(q)
<1>. DEFINE r == Append(q, m)
            e == Len(q) + 1
<1>1. /\ DOMAIN r = DOMAIN q \union {e} /\ e \in DOMAIN r /\ r[e] = m
      /\ \A i \in DOMAIN q : r[i] = q[i] /\ i < e
  BY Appended
<1>. HIDE DEF r, e
<1>2. m.kind = "selection" => m = Selection(clipboard)
  BY DEF Messages, Selection
<1>3. m.kind = "selection" => EndsWithClipboard(r) /\ ~NoneIn(r)
  BY <1>1, <1>2 DEF EndsWithClipboard, NoneIn
<1>4. ASSUME EndsWithClipboard(q) PROVE EndsWithClipboard(r)
  BY <1>1, <1>4 DEF EndsWithClipboard
<1>5. NoneIn(r) => NoneIn(q)
  BY <1>1 DEF NoneIn
<1>. QED  BY <1>3, <1>4, <1>5 DEF r

\* What is left ends as the queue did; if nothing is left, the head was the one.
LEMMA EndsAfterTail ==
  ASSUME NEW q \in Seq(Messages), q # <<>>, EndsWithClipboard(q), clipboard \in Selections
  PROVE  /\ EndsWithClipboard(Tail(q))
         /\ NoneIn(Tail(q)) =>
              IF Head(q).kind = "selection" THEN Head(q).n = clipboard ELSE NoneIn(q)
<1>. DEFINE r == Tail(q)
<1>1. /\ Head(q) = q[1] /\ 1 \in DOMAIN q
      /\ DOMAIN q \subseteq Nat \ {0} /\ DOMAIN r \subseteq Nat
      /\ \A i \in DOMAIN r : i + 1 \in DOMAIN q /\ r[i] = q[i + 1]
      /\ \A i \in DOMAIN q : i # 1 => i - 1 \in DOMAIN r /\ r[i - 1] = q[i]
  BY Shortened
<1>. HIDE DEF r
<1>2. EndsWithClipboard(r)
  <2>. SUFFICES ASSUME NEW i \in DOMAIN r, r[i].kind = "selection", r[i].n # clipboard
                PROVE  \E j \in DOMAIN r : i < j /\ r[j] = Selection(clipboard)
    BY DEF EndsWithClipboard
  <2>1. PICK j \in DOMAIN q : i + 1 < j /\ q[j] = Selection(clipboard)
    BY <1>1 DEF EndsWithClipboard
  <2>2. j - 1 \in DOMAIN r /\ i < j - 1 /\ r[j - 1] = Selection(clipboard)
    BY <1>1, <2>1
  <2>. QED  BY <2>2
<1>3. ASSUME NoneIn(r), Head(q).kind = "selection" PROVE Head(q).n = clipboard
  <2>. SUFFICES ASSUME q[1].n # clipboard PROVE FALSE
    BY <1>1
  <2>1. PICK j \in DOMAIN q : 1 < j /\ q[j] = Selection(clipboard)
    BY <1>1, <1>3 DEF EndsWithClipboard
  <2>2. j - 1 \in DOMAIN r /\ r[j - 1].kind = "selection"
    BY <1>1, <2>1 DEF Selection
  <2>. QED  BY <1>3, <2>2 DEF NoneIn
<1>4. ASSUME NoneIn(r), Head(q).kind # "selection" PROVE NoneIn(q)
  BY <1>1, <1>4 DEF NoneIn
<1>. QED  BY <1>2, <1>3, <1>4 DEF r
LEMMA MadeTyped == TypeOK => made \in Nat /\ 0 <= made
BY BoundAssumption DEF TypeOK

LEMMA MessageTyped ==
  ASSUME TypeOK, NEW c \in Clients, NEW i \in DOMAIN inbox[c]
  PROVE  /\ inbox[c] \in Seq(Messages) /\ inbox[c][i] \in Messages
         /\ inbox[c][i].n \in Selections /\ inbox[c][i].n \in Nat
<1>1. inbox[c] \in Seq(Messages)
  BY DEF TypeOK
<1>2. inbox[c][i] \in Messages
  BY <1>1
<1>. QED  BY <1>1, <1>2 DEF Messages, Selections
-----------------------------------------------------------------------------
(* The steps *)

\* What offer_selection leaves a client with.
LEMMA OffersMore ==
  ASSUME TypeOK, NEW c \in Clients, NEW n \in Selections \union {NoSelection}, Offers(c, n)
  PROVE  /\ offers' \in [Clients -> SUBSET Selections]
         /\ \A d \in Clients : offers'[d] \subseteq offers[d] \union ({n} \ {NoSelection})
BY DEF Offers, TypeOK

\* Steps that change no queue, or empty one that is closed.
LEMMA OthersKeep ==
  ASSUME Invariant, NEW c \in Clients,
         Connect(c) \/ Disconnect(c) \/ GetDataDevice(c) \/ ReleaseDevice(c) \/ ClearSelection(c)
  PROVE  Invariant'
<1>. USE DEF Invariant, TypeOK
<1>1. UNCHANGED <<made, owner, announcing, serial, pastes>>
  BY DEF Connect, Disconnect, GetDataDevice, ReleaseDevice, ClearSelection, deviceVars
<1>o. /\ offers' \in [Clients -> SUBSET Selections]
      /\ \A d \in Clients : offers'[d] \subseteq offers[d] \union ({clipboard} \ {NoSelection})
  <2>1. CASE GetDataDevice(c)
    BY <2>1, OffersMore DEF GetDataDevice
  <2>2. CASE UNCHANGED offers
    BY <2>2
  <2>. QED
    BY <2>1, <2>2 DEF Connect, Disconnect, ReleaseDevice, ClearSelection, deviceVars
<1>2. /\ inbox' \in [Clients -> Seq(Messages)]
      /\ \A d \in Clients : inbox'[d] = inbox[d] \/ (inbox'[d] = <<>> /\ conn'[d] = "gone")
  <2>1. CASE Disconnect(c)
    BY <2>1 DEF Disconnect, Ready
  <2>2. CASE UNCHANGED inbox
    BY <2>2
  <2>. QED
    BY <2>1, <2>2 DEF Connect, GetDataDevice, ReleaseDevice, ClearSelection
<1>3. TypeOK'
  <2>1. conn' \in [Clients -> {"new", "connected", "gone"}] /\ registered' \subseteq Clients
    BY DEF Connect, Disconnect, GetDataDevice, ReleaseDevice, ClearSelection, deviceVars
  <2>2. device' \in [Clients -> {"none", "live", "released"}]
    BY DEF Connect, Disconnect, GetDataDevice, ReleaseDevice, ClearSelection, deviceVars
  <2>3. /\ clipboard' \in Selections \union {NoSelection}
        /\ told' \in [Clients -> Selections \union {NoSelection}]
    BY DEF Connect, Disconnect, GetDataDevice, ReleaseDevice, ClearSelection, deviceVars
  <2>4. second' \subseteq Clients
    BY DEF Connect, Disconnect, GetDataDevice, ReleaseDevice, ClearSelection, deviceVars
  <2>. QED  BY <1>o, <1>1, <1>2, <2>1, <2>2, <2>3, <2>4
<1>4. Known'
  <2>1. /\ clipboard' \in {clipboard, NoSelection}
        /\ \A d \in Clients : told'[d] \in {told[d], clipboard}
    BY DEF Connect, Disconnect, GetDataDevice, ReleaseDevice, ClearSelection, deviceVars
  <2>2. \A d \in Clients : \A i \in DOMAIN inbox'[d] : inbox'[d][i].n <= made
    BY <1>2 DEF Known
  <2>3. \A d \in Clients : \A n \in offers'[d] : n <= made
    BY <1>o, MadeTyped DEF Known
  <2>. QED  BY <1>1, <2>1, <2>2, <2>3, MadeTyped DEF Known, NoSelection
<1>5. QueuesOpen'
  <2>1. CASE Connect(c)
    BY <2>1 DEF QueuesOpen, Connect, deviceVars
  <2>2. CASE Disconnect(c)
    BY <2>2 DEF QueuesOpen, Disconnect, Ready, deviceVars
  <2>3. CASE GetDataDevice(c) \/ ReleaseDevice(c) \/ ClearSelection(c)
    BY <2>3 DEF QueuesOpen, Ready, GetDataDevice, ReleaseDevice, ClearSelection, deviceVars
  <2>. QED  BY <2>1, <2>2, <2>3
<1>6. MakersAsked'
  BY <1>1, <1>2 DEF MakersAsked, AsksMaker
<1>7. InStep'
  <2>. SUFFICES ASSUME serial, clipboard' # NoSelection
                PROVE  /\ \A d \in Clients : announcing[d] \in {NoSelection, clipboard'}
                       /\ ~Announces => \A d \in Clients : conn'[d] = "connected" => Follows(d)'
    BY <1>1 DEF InStep, Announces
  <2>1. clipboard' = clipboard
    BY DEF Connect, Disconnect, GetDataDevice, ReleaseDevice, ClearSelection, deviceVars
  <2>2. ASSUME ~Announces, NEW d \in Clients, conn'[d] = "connected" PROVE Follows(d)'
    <3>1. conn[d] = "connected" => Follows(d)
      BY <2>1, <2>2 DEF InStep
    <3>2. inbox'[d] = inbox[d]
      BY <1>2, <2>2
    <3>3. CASE conn[d] = "connected"
      <4>1. EndsWithClipboard(inbox[d])' /\ (NoneIn(inbox[d])' <=> NoneIn(inbox[d]))
        BY <2>1, <3>1, <3>2, <3>3 DEF Follows, EndsWithClipboard, NoneIn
      <4>2. device'[d] = "live" => \/ device[d] = "live" /\ told'[d] = told[d]
                                   \/ told'[d] = clipboard
        BY DEF Connect, Disconnect, GetDataDevice, ReleaseDevice, ClearSelection, deviceVars
      <4>. QED  BY <2>1, <3>1, <3>3, <4>1, <4>2 DEF Follows
    <3>4. CASE conn[d] # "connected"
      <4>1. Connect(c) /\ d = c
        BY <2>2, <3>4 DEF Connect, Disconnect, GetDataDevice, ReleaseDevice, ClearSelection, deviceVars
      <4>2. inbox[d] = <<>> /\ device[d] = "none"
        BY <4>1 DEF Connect, QueuesOpen
      <4>. QED  BY <3>2, <4>1, <4>2 DEF Follows, EndsWithClipboard, Connect, deviceVars
    <3>. QED  BY <3>3, <3>4
  <2>. QED  BY <2>1, <2>2 DEF InStep
<1>. QED  BY <1>3, <1>4, <1>5, <1>6, <1>7

\* The new selection is the only one on its way.
LEMMA SetKeeps == ASSUME Invariant, NEW c \in Clients, SetSelection(c) PROVE Invariant'
<1>. USE DEF Invariant, TypeOK
<1>1. /\ made' = made + 1 /\ made \in Nat /\ made' \in Selections /\ clipboard' = made + 1
      /\ announcing' = [announcing EXCEPT ![c] = made + 1] /\ owner' = Append(owner, c)
      /\ serial' = (serial /\ \A d \in Clients : announcing[d] = NoSelection)
      /\ UNCHANGED <<conn, registered, deviceVars, inbox, pastes>>
  BY BoundAssumption DEF SetSelection, Selections
<1>2. TypeOK'
  BY <1>1 DEF Selections, deviceVars
<1>3. Known'
  <2>1. \A d \in Clients : announcing'[d] \in {announcing[d], made + 1}
    BY <1>1
  <2>2. \A d \in Clients : announcing[d] \in Nat /\ told[d] \in Nat
    BY DEF Selections, NoSelection
  <2>3. /\ \A d \in Clients : \A i \in DOMAIN inbox[d] : inbox[d][i].n <= made'
        /\ \A d \in Clients : \A n \in offers[d] : n <= made'
    BY <1>1, MessageTyped DEF Known, Selections
  <2>4. \A d \in Clients : announcing'[d] <= made' /\ told[d] <= made'
    <3>1. \A d \in Clients : announcing[d] <= made /\ told[d] <= made
      BY DEF Known
    <3>2. \A n \in Nat : n <= made => n <= made'
      BY <1>1
    <3>3. made + 1 <= made'
      BY <1>1
    <3>. QED  BY <2>1, <2>2, <3>1, <3>2, <3>3
  <2>. QED  BY <1>1, <2>3, <2>4 DEF Known, deviceVars
<1>4. QueuesOpen'
  BY <1>1 DEF QueuesOpen, deviceVars
<1>5. MakersAsked'
  <2>1. \A n \in Selections : n <= made => owner'[n] = owner[n]
    BY <1>1 DEF Selections
  <2>2. ASSUME NEW d \in Clients, NEW i \in DOMAIN inbox[d]
        PROVE  inbox[d][i].n \in Selections /\ inbox[d][i].n <= made
    BY <2>2, MessageTyped DEF Known
  <2>. QED  BY <1>1, <2>1, <2>2 DEF MakersAsked, AsksMaker, deviceVars
<1>6. InStep'
  <2>1. announcing'[c] # NoSelection
    BY <1>1 DEF NoSelection
  <2>2. Announces'
    BY <2>1 DEF Announces
  <2>. QED  BY <1>1, <2>2 DEF InStep
<1>. QED  BY <1>2, <1>3, <1>4, <1>5, <1>6

\* Messages that are added to queues that are open.
LEMMA QueuedKeeps ==
  ASSUME Invariant, UNCHANGED <<conn, registered, deviceVars, made, owner, clipboard, serial>>,
         NEW m \in Messages, m.n <= made,
         \A d \in Clients : \/ inbox'[d] = inbox[d]
                            \/ /\ inbox'[d] = Append(inbox[d], m) /\ conn[d] = "connected"
                               /\ AsksMaker(d, m),
         inbox' \in [Clients -> Seq(Messages)],
         announcing' \in [Clients -> Selections \union {NoSelection}],
         \A d \in Clients : announcing'[d] \in {announcing[d], NoSelection},
         pastes' \in 0..MaxPastes
  PROVE  TypeOK' /\ Known' /\ QueuesOpen' /\ MakersAsked'
<1>. USE DEF Invariant, TypeOK
<1>1. TypeOK'
  BY DEF deviceVars
<1>2. ASSUME NEW d \in Clients, NEW i \in DOMAIN inbox'[d]
      PROVE  \/ i \in DOMAIN inbox[d] /\ inbox'[d][i] = inbox[d][i]
             \/ inbox'[d][i] = m /\ AsksMaker(d, m)
  <2>1. CASE inbox'[d] = inbox[d]
    BY <1>2, <2>1
  <2>2. CASE inbox'[d] = Append(inbox[d], m) /\ AsksMaker(d, m)
    <3>1. inbox[d] \in Seq(Messages)
      OBVIOUS
    <3>. QED  BY <1>2, <2>2, <3>1, Appended
  <2>. QED  BY <2>1, <2>2
<1>3. Known'
  <2>1. \A d \in Clients : \A i \in DOMAIN inbox'[d] : inbox'[d][i].n <= made
    BY <1>2 DEF Known
  <2>2. \A d \in Clients : announcing'[d] <= made
    <3>1. \A d \in Clients : announcing[d] <= made
      BY DEF Known
    <3>. QED  BY <3>1, MadeTyped DEF NoSelection
  <2>. QED  BY <2>1, <2>2 DEF Known, deviceVars
<1>4. QueuesOpen'
  BY DEF QueuesOpen, deviceVars
<1>5. MakersAsked'
  <2>1. \A d \in Clients : \A i \in DOMAIN inbox'[d] : AsksMaker(d, inbox'[d][i])
    BY <1>2 DEF MakersAsked
  <2>. QED  BY <2>1 DEF MakersAsked, AsksMaker
<1>. QED  BY <1>1, <1>3, <1>4, <1>5

\* What CLIPBOARD holds becomes the last selection of every open queue.
LEMMA BroadcastKeeps == ASSUME Invariant, NEW c \in Clients, Broadcast(c) PROVE Invariant'
<1>. DEFINE n == announcing[c]
            m == Selection(n)
<1>. TypeOK
  BY DEF Invariant
<1>1. /\ n \in Selections /\ n <= made
      /\ announcing' = [announcing EXCEPT ![c] = NoSelection]
      /\ UNCHANGED <<conn, registered, deviceVars, made, owner, clipboard, pastes, serial>>
      /\ inbox' = [d \in Clients |-> IF d \in registered /\ conn[d] = "connected"
                                     THEN Append(inbox[d], m) ELSE inbox[d]]
  BY DEF Broadcast, TypeOK, Invariant, Known
<1>2. m \in Messages /\ m.n = n /\ m.kind = "selection"
  BY <1>1 DEF Selection, Messages
<1>. HIDE DEF n, m
<1>3. \A d \in Clients : \/ inbox'[d] = inbox[d]
                         \/ /\ inbox'[d] = Append(inbox[d], m) /\ conn[d] = "connected"
                            /\ AsksMaker(d, m)
  BY <1>1, <1>2 DEF AsksMaker
<1>4. inbox' \in [Clients -> Seq(Messages)]
  <2>1. \A d \in Clients : inbox[d] \in Seq(Messages) /\ Append(inbox[d], m) \in Seq(Messages)
    BY <1>2 DEF TypeOK
  <2>. QED  BY <1>1, <2>1
<1>5. /\ announcing' \in [Clients -> Selections \union {NoSelection}]
      /\ \A d \in Clients : announcing'[d] \in {announcing[d], NoSelection}
  BY <1>1 DEF TypeOK
<1>6. pastes' \in 0..MaxPastes
  BY <1>1 DEF TypeOK
<1>7. InStep'
  <2>. SUFFICES ASSUME serial, clipboard # NoSelection
                PROVE  /\ \A d \in Clients : announcing'[d] \in {NoSelection, clipboard}
                       /\ \A d \in Clients : conn[d] = "connected" => Follows(d)'
    BY <1>1 DEF InStep
  <2>1. \A d \in Clients : announcing[d] \in {NoSelection, clipboard}
    BY DEF Invariant, InStep
  <2>2. n = clipboard /\ clipboard \in Selections
    BY <1>1, <2>1 DEF n, NoSelection, Selections
  <2>3. ASSUME NEW d \in Clients, conn[d] = "connected" PROVE Follows(d)'
    <3>1. inbox'[d] = Append(inbox[d], m) /\ inbox[d] \in Seq(Messages)
      BY <1>1, <2>3 DEF Invariant, QueuesOpen, TypeOK
    <3>2. EndsWithClipboard(inbox'[d]) /\ ~NoneIn(inbox'[d])
      BY <1>2, <2>2, <3>1, EndsAfterAppend
    <3>. QED  BY <1>1, <3>2 DEF Follows, EndsWithClipboard, NoneIn, deviceVars
  <2>. QED  BY <1>5, <2>1, <2>3
<1>8. m.n <= made
  BY <1>1, <1>2
<1>. QED  BY <1>1, <1>2, <1>3, <1>4, <1>5, <1>6, <1>7, <1>8, QueuedKeeps DEF Invariant

\* The client that is asked made the selection.
LEMMA ReceiveKeeps == ASSUME Invariant, NEW c \in Clients, Receive(c) PROVE Invariant'
<1>. TypeOK
  BY DEF Invariant
<1>0. PICK n \in offers[c] : Asks(owner[n], n)
  BY DEF Receive
<1>. DEFINE m == SendRequest(n)
            o == owner[n]
<1>1. n \in Selections /\ n <= made /\ o \in Clients
  <2>1. n \in Selections /\ n <= made
    BY DEF TypeOK, Invariant, Known
  <2>. QED  BY <2>1, BoundAssumption DEF TypeOK, Selections
<1>2. m \in Messages /\ m.n = n /\ m.kind = "send"
  BY <1>1 DEF SendRequest, Messages
<1>3. /\ UNCHANGED <<conn, registered, deviceVars, made, owner, clipboard, announcing, serial>>
      /\ pastes' \in 0..MaxPastes
  BY BoundAssumption DEF Receive, TypeOK
<1>4. inbox' = IF conn[o] = "connected" THEN [inbox EXCEPT ![o] = Append(@, m)] ELSE inbox
  BY <1>0 DEF Asks
<1>5. AsksMaker(o, m)
  BY <1>2 DEF AsksMaker
<1>. HIDE DEF m, o
<1>6. inbox' \in [Clients -> Seq(Messages)]
  <2>1. inbox[o] \in Seq(Messages) /\ Append(inbox[o], m) \in Seq(Messages)
    BY <1>1, <1>2 DEF TypeOK
  <2>. QED  BY <1>4, <2>1 DEF TypeOK
<1>7. \A d \in Clients : \/ inbox'[d] = inbox[d]
                         \/ /\ inbox'[d] = Append(inbox[d], m) /\ conn[d] = "connected"
                            /\ AsksMaker(d, m)
  BY <1>1, <1>4, <1>5 DEF TypeOK
<1>8. InStep'
  <2>. SUFFICES ASSUME serial, clipboard # NoSelection, ~Announces, NEW d \in Clients,
                       conn[d] = "connected"
                PROVE  Follows(d)'
    BY <1>3 DEF InStep, Invariant, Announces
  <2>1. Follows(d)
    BY DEF Invariant, InStep
  <2>2. inbox[d] \in Seq(Messages) /\ clipboard \in Selections
    BY DEF TypeOK
  <2>3. EndsWithClipboard(inbox'[d]) /\ (NoneIn(inbox'[d]) => NoneIn(inbox[d]))
    BY <1>2, <1>7, <2>1, <2>2, EndsAfterAppend DEF Follows
  <2>. QED  BY <1>3, <2>1, <2>3 DEF Follows, EndsWithClipboard, NoneIn, deviceVars
<1>9. \A d \in Clients : announcing'[d] \in {announcing[d], NoSelection}
  BY <1>3
<1>10. announcing' \in [Clients -> Selections \union {NoSelection}] /\ m.n <= made
  BY <1>1, <1>2, <1>3 DEF TypeOK
<1>. QED
  BY <1>2, <1>3, <1>6, <1>7, <1>8, <1>9, <1>10, QueuedKeeps DEF Invariant

\* The first message of a queue is handled, or ends the connection.
LEMMA MessageKeeps == ASSUME Invariant, NEW c \in Clients, HandleMessage(c) PROVE Invariant'
<1>. DEFINE q == inbox[c]
            m == Head(q)
<1>. TypeOK
  BY DEF Invariant
<1>1. q \in Seq(Messages) /\ q # <<>> /\ conn[c] = "connected"
  BY DEF HandleMessage, Ready, TypeOK
<1>2. /\ Tail(q) \in Seq(Messages) /\ m \in Messages
      /\ m = q[1] /\ 1 \in DOMAIN q
      /\ \A i \in DOMAIN Tail(q) : i + 1 \in DOMAIN q /\ Tail(q)[i] = q[i + 1]
  BY <1>1, Shortened
<1>3. /\ UNCHANGED <<registered, device, second, made, owner, clipboard, announcing, pastes,
                     serial>>
      /\ \/ /\ m.kind = "selection" /\ device[c] = "released" /\ told' = told
            /\ conn' = [conn EXCEPT ![c] = "gone"] /\ inbox' = [inbox EXCEPT ![c] = <<>>]
         \/ /\ ~(m.kind = "selection" /\ device[c] = "released") /\ conn' = conn
            /\ inbox' = [inbox EXCEPT ![c] = Tail(@)]
            /\ told' = IF m.kind = "selection" /\ device[c] = "live"
                       THEN [told EXCEPT ![c] = m.n] ELSE told
  BY DEF HandleMessage
<1>4. m.n \in Selections /\ m.n <= made
  BY <1>2, MessageTyped DEF Invariant, Known
<1>o. /\ offers' \in [Clients -> SUBSET Selections]
      /\ \A d \in Clients : offers'[d] \subseteq offers[d] \union {m.n}
  <2>1. CASE UNCHANGED offers
    BY <2>1 DEF TypeOK
  <2>2. CASE Offers(c, m.n)
    BY <2>2, <1>4, OffersMore
  <2>. QED  BY <2>1, <2>2 DEF HandleMessage
<1>. HIDE DEF q, m
<1>5. TypeOK'
  <2>1. inbox' \in [Clients -> Seq(Messages)]
    <3>1. inbox' = [inbox EXCEPT ![c] = <<>>] \/ inbox' = [inbox EXCEPT ![c] = Tail(q)]
      BY <1>3 DEF q
    <3>2. inbox \in [Clients -> Seq(Messages)] /\ <<>> \in Seq(Messages)
      BY DEF TypeOK
    <3>. QED  BY <1>2, <3>1, <3>2
  <2>2. told' \in [Clients -> Selections \union {NoSelection}]
    BY <1>3, <1>4 DEF TypeOK
  <2>3. conn' \in [Clients -> {"new", "connected", "gone"}]
    BY <1>3 DEF TypeOK
  <2>. QED  BY <1>o, <1>3, <2>1, <2>2, <2>3 DEF TypeOK
<1>6. ASSUME NEW d \in Clients, NEW i \in DOMAIN inbox'[d]
      PROVE  \E j \in DOMAIN inbox[d] : inbox'[d][i] = inbox[d][j]
  <2>1. CASE d # c
    BY <1>3, <1>6, <2>1 DEF TypeOK
  <2>2. CASE d = c
    <3>1. inbox'[c] \in {<<>>, Tail(q)}
      BY <1>3 DEF TypeOK, q
    <3>2. inbox'[c] = Tail(q)
      BY <1>6, <2>2, <3>1
    <3>. QED  BY <1>2, <1>6, <2>2, <3>2 DEF q
  <2>. QED  BY <2>1, <2>2
<1>7. Known'
  <2>1. \A d \in Clients : \A i \in DOMAIN inbox'[d] : inbox'[d][i].n <= made
    BY <1>6 DEF Invariant, Known
  <2>2. \A d \in Clients : told'[d] <= made
    BY <1>3, <1>4 DEF Invariant, Known, TypeOK
  <2>3. \A d \in Clients : \A n \in offers'[d] : n <= made
    BY <1>o, <1>4 DEF Invariant, Known
  <2>. QED  BY <1>3, <2>1, <2>2, <2>3 DEF Invariant, Known
<1>8. QueuesOpen'
  BY <1>1, <1>3 DEF Invariant, QueuesOpen, TypeOK
<1>9. MakersAsked'
  <2>1. \A d \in Clients : \A i \in DOMAIN inbox'[d] : AsksMaker(d, inbox'[d][i])
    BY <1>6 DEF Invariant, MakersAsked
  <2>. QED  BY <1>3, <2>1 DEF MakersAsked, AsksMaker
<1>10. InStep'
  <2>. SUFFICES ASSUME serial, clipboard # NoSelection, ~Announces, NEW d \in Clients,
                       conn'[d] = "connected"
                PROVE  Follows(d)'
    BY <1>3 DEF InStep, Invariant, Announces
  <2>1. conn[d] = "connected" /\ Follows(d)
    BY <1>3 DEF Invariant, InStep, TypeOK
  <2>2. CASE d # c
    <3>1. inbox'[d] = inbox[d] /\ told'[d] = told[d]
      BY <1>3, <2>2 DEF TypeOK
    <3>. QED  BY <1>3, <2>1, <3>1 DEF Follows, EndsWithClipboard, NoneIn
  <2>3. CASE d = c
    <3>1. /\ inbox'[c] = Tail(q) /\ clipboard \in Selections
          /\ told'[c] = IF m.kind = "selection" /\ device[c] = "live" THEN m.n ELSE told[c]
      BY <1>3, <2>3 DEF TypeOK, q
    <3>2. /\ EndsWithClipboard(Tail(q))
          /\ NoneIn(Tail(q)) => IF m.kind = "selection" THEN m.n = clipboard ELSE NoneIn(q)
      BY <1>1, <2>1, <2>3, <3>1, EndsAfterTail DEF Follows, q, m
    <3>3. EndsWithClipboard(inbox[c])' /\ (NoneIn(inbox[c])' => NoneIn(Tail(q)))
      BY <1>3, <3>1, <3>2 DEF EndsWithClipboard, NoneIn
    <3>4. device[c] = "live" /\ NoneIn(Tail(q)) => told'[c] = clipboard
      BY <2>1, <2>3, <3>1, <3>2 DEF Follows, q
    <3>. QED  BY <1>3, <2>3, <3>3, <3>4 DEF Follows
  <2>. QED  BY <2>2, <2>3
<1>. QED  BY <1>5, <1>7, <1>8, <1>9, <1>10 DEF Invariant
-----------------------------------------------------------------------------
(* The theorems *)

LEMMA InvariantHolds == Spec => []Invariant
<1>1. Init => Invariant
  BY BoundAssumption DEF Init, Invariant, TypeOK, Known, QueuesOpen, MakersAsked, AsksMaker,
     InStep, NoSelection, Selections
<1>2. Invariant /\ UNCHANGED vars => Invariant'
  BY DEF vars, Invariant, TypeOK, Known, QueuesOpen, MakersAsked, AsksMaker, InStep, Announces,
     Follows, EndsWithClipboard, NoneIn, deviceVars
<1>3. Invariant /\ Next => Invariant'
  BY OthersKeep, SetKeeps, BroadcastKeeps, ReceiveKeeps, MessageKeeps DEF Next, Request
<1>. QED  BY <1>1, <1>2, <1>3, PTL DEF Spec

\* The variables have their types, so nothing is queued but selections and requests
\* to send one that was made.
THEOREM Typing == Spec => []TypeOK
<1>1. Invariant => TypeOK
  BY DEF Invariant
<1>. QED  BY <1>1, InvariantHolds, PTL

\* For any clients, the one that is asked for data is the one whose selection the
\* asking client was told of (data_device.rs receive, Message::ClipboardSend).
THEOREM MakerIsAsked == Spec => []OwnersAreAsked
<1>1. Invariant => OwnersAreAsked
  BY DEF Invariant, Known, MakersAsked, AsksMaker, OwnersAreAsked
<1>. QED  BY <1>1, InvariantHolds, PTL

\* When the queues are empty all devices were told what CLIPBOARD holds, unless two
\* set_selection requests overlapped (data_device.rs:183-195).
THEOREM Agreement == Spec => []DevicesAgree
<1>1. Invariant => DevicesAgree
  <2>. SUFFICES ASSUME Invariant, serial, Quiet, clipboard # NoSelection, NEW c \in Clients,
                       Served(c)
                PROVE  told[c] = clipboard
    BY DEF DevicesAgree
  <2>1. Follows(c)
    BY DEF Invariant, InStep, Announces, Quiet, Served
  <2>2. NoneIn(inbox[c])
    BY DEF NoneIn, Quiet, Served
  <2>. QED  BY <2>1, <2>2 DEF Follows, Served
<1>. QED  BY <1>1, InvariantHolds, PTL
-----------------------------------------------------------------------------
(* What SelectionReachesDevices owes to the steps: none of them loses a selection *)

Queued(c, i, n) == i \in DOMAIN inbox[c] /\ inbox[c][i] = Selection(n)

\* A selection that is announced is queued or still announced; one in a queue stays
\* in its place, moves up, or from the first place to the device.
Advances(c, n) ==
  /\ \A d \in Clients :
       announcing[d] = n => announcing'[d] = n \/ \E i \in Nat : Queued(c, i, n)'
  /\ \A i \in Nat :
       Queued(c, i, n) => Queued(c, i, n)' \/ IF i = 1 THEN told'[c] = n ELSE Queued(c, i - 1, n)'

\* Whatever is appended, what was queued keeps its place.
LEMMA PlacesKept ==
  ASSUME TypeOK, NEW c \in Clients, NEW m \in Messages,
         inbox'[c] = inbox[c] \/ inbox'[c] = Append(inbox[c], m), NEW i \in Nat, NEW n,
         Queued(c, i, n)
  PROVE  Queued(c, i, n)'
<1>. inbox[c] \in Seq(Messages)
  BY DEF TypeOK
<1>. QED  BY Appended DEF Queued

LEMMA AnnouncedAdvance ==
  ASSUME Invariant, NEW c \in Clients, Served(c), NEW n \in Selections,
         NEW e \in Clients, Broadcast(e)
  PROVE  Advances(c, n)
<1>. DEFINE m == Selection(announcing[e])
<1>1. /\ m \in Messages
      /\ inbox'[c] = Append(inbox[c], m) /\ inbox[c] \in Seq(Messages)
  BY DEF Broadcast, Invariant, TypeOK, QueuesOpen, Served, Selection, Messages
<1>2. announcing[e] = n => \E i \in Nat : Queued(c, i, n)'
  <2>. DEFINE l == Len(inbox[c]) + 1
  <2>1. l \in DOMAIN inbox'[c] /\ inbox'[c][l] = m /\ l \in Nat
    BY <1>1, Appended
  <2>. QED  BY <2>1 DEF Queued
<1>3. \A d \in Clients : d # e => announcing'[d] = announcing[d]
  BY DEF Broadcast, Invariant, TypeOK
<1>4. \A i \in Nat : Queued(c, i, n) => Queued(c, i, n)'
  BY <1>1, PlacesKept DEF Invariant
<1>5. ASSUME NEW d \in Clients, announcing[d] = n
      PROVE  announcing'[d] = n \/ \E i \in Nat : Queued(c, i, n)'
  BY <1>2, <1>3, <1>5
<1>. QED  BY <1>4, <1>5 DEF Advances

LEMMA HandledAdvance ==
  ASSUME Invariant, NEW c \in Clients, Served(c), Served(c)', NEW n \in Selections,
         NEW e \in Clients, HandleMessage(e)
  PROVE  Advances(c, n)
<1>1. announcing' = announcing /\ inbox[c] \in Seq(Messages)
  BY DEF HandleMessage, Invariant, TypeOK
<1>2. CASE e # c
  <2>1. inbox'[c] = inbox[c]
    BY <1>2 DEF HandleMessage, Invariant, TypeOK
  <2>. QED  BY <1>1, <2>1 DEF Advances, Queued
<1>3. CASE e = c
  <2>1. /\ inbox'[c] = Tail(inbox[c]) /\ inbox[c] # <<>>
        /\ Head(inbox[c]).kind = "selection" => told'[c] = Head(inbox[c]).n
    BY <1>3 DEF HandleMessage, Invariant, TypeOK, Served
  <2>2. ASSUME NEW i \in Nat, Queued(c, i, n), i # 1 PROVE Queued(c, i - 1, n)'
    BY <1>1, <2>1, <2>2, Shortened DEF Queued
  <2>3. Queued(c, 1, n) => told'[c] = n
    BY <1>1, <2>1, Shortened DEF Queued, Selection
  <2>. QED  BY <1>1, <2>2, <2>3 DEF Advances
<1>. QED  BY <1>2, <1>3

LEMMA OthersAdvance ==
  ASSUME Invariant, NEW c \in Clients, Served(c), Served(c)', NEW n \in Selections,
         \/ UNCHANGED vars
         \/ \E e \in Clients : Connect(e) \/ Request(e)
  PROVE  Advances(c, n)
<1>1. \A d \in Clients : announcing[d] = n => announcing'[d] = n
  <2>. n # NoSelection /\ announcing \in [Clients -> Selections \union {NoSelection}]
    BY BoundAssumption DEF Selections, NoSelection, Invariant, TypeOK
  <2>1. \/ announcing' = announcing
        \/ \E e \in Clients : announcing[e] = NoSelection
                             /\ announcing' = [announcing EXCEPT ![e] = made + 1]
    BY DEF vars, Connect, Request, Disconnect, GetDataDevice, ReleaseDevice, SetSelection,
           ClearSelection, Receive, Ready
  <2>. QED  BY <2>1
<1>2. \E m \in Messages : inbox'[c] = inbox[c] \/ inbox'[c] = Append(inbox[c], m)
  <2>0. Selection(n) \in Messages
    BY DEF Selection, Messages
  <2>1. ASSUME NEW e \in Clients, Receive(e)
        PROVE  \E m \in Messages : inbox'[c] = inbox[c] \/ inbox'[c] = Append(inbox[c], m)
    <3>0. PICK k \in offers[e] : Asks(owner[k], k)
      BY <2>1 DEF Receive
    <3>. DEFINE m == SendRequest(k)
    <3>1. m \in Messages
      BY DEF Invariant, TypeOK, SendRequest, Messages
    <3>2. inbox'[c] = inbox[c] \/ inbox'[c] = Append(inbox[c], m)
      BY <3>0 DEF Asks, Invariant, TypeOK
    <3>. QED  BY <3>1, <3>2
  <2>2. ASSUME NEW e \in Clients, Disconnect(e) PROVE inbox'[c] = inbox[c]
    BY <2>2 DEF Disconnect, Served, Invariant, TypeOK
  <2>3. \/ \E e \in Clients : Receive(e) \/ Disconnect(e)
        \/ inbox' = inbox
    BY DEF vars, Connect, Request, GetDataDevice, ReleaseDevice, SetSelection, ClearSelection
  <2>. QED  BY <2>0, <2>1, <2>2, <2>3
<1>3. \A i \in Nat : Queued(c, i, n) => Queued(c, i, n)'
  BY <1>2, PlacesKept DEF Invariant
<1>. QED  BY <1>1, <1>3 DEF Advances

\* A new selection is never lost, overtaken or held up on its way to a device that is
\* still served, overlapping set_selection requests included: it is broadcast to the
\* queue, moves up there as messages are handled and is offered when it is first
\* (set_selection, handle_message). SelectionReachesDevices adds that the steps are taken.
THEOREM SelectionsAdvance ==
  Spec => [][\A c \in Clients, n \in Selections :
               Served(c) /\ Served(c)' => Advances(c, n)]_vars
<1>. DEFINE Goal == \A c \in Clients, n \in Selections :
                      Served(c) /\ Served(c)' => Advances(c, n)
<1>1. Invariant /\ [Next]_vars => Goal
  <2>. SUFFICES ASSUME Invariant, [Next]_vars, NEW c \in Clients, NEW n \in Selections,
                       Served(c), Served(c)'
                PROVE  Advances(c, n)
    OBVIOUS
  <2>1. \/ \E e \in Clients : Broadcast(e)
        \/ \E e \in Clients : HandleMessage(e)
        \/ UNCHANGED vars \/ \E e \in Clients : Connect(e) \/ Request(e)
    BY DEF Next
  <2>. QED  BY <2>1, AnnouncedAdvance, HandledAdvance, OthersAdvance
<1>. QED  BY <1>1, InvariantHolds, PTL DEF Spec
================================================================================
