------------------------------- MODULE Clipboard -------------------------------
(***************************************************************************)
(* The clipboard shared by the clients: one global selection, broadcast to *)
(* the message queues of all clients, and the paste that goes back to the  *)
(* client that owns it (core/data_device.rs, socket.rs, client.rs).        *)
(*                                                                         *)
(* Each client has a dispatch task that handles its queued messages before *)
(* its next request. CLIPBOARD and CLIENTS are two locks: set_selection    *)
(* takes one after the other, so another client may come between.          *)
(***************************************************************************)
EXTENDS Naturals, Sequences

CONSTANTS Clients,
          MaxSelections,  \* bound: set_selection requests that name a source
          MaxPastes       \* bound: receive requests

ASSUME BoundAssumption == MaxSelections \in Nat /\ MaxPastes \in Nat

NoSelection == 0
Selections == 1..MaxSelections

VARIABLES
  conn,        \* "new", "connected" or "gone", of each client
  registered,  \* CLIENTS: clients whose sink was pushed, never removed
  device,      \* "none", "live" or "released": the device of Display::data_device
  second,      \* clients with a further device, which Display::data_device does not hold
  told,        \* the last selection event of each client's device
  offers,      \* the selections each client has a wl_data_offer of
  made,        \* selections made so far; each has the next number
  owner,       \* the client that made each selection
  clipboard,   \* CLIPBOARD
  announcing,  \* selection each client has stored and not yet broadcast
  inbox,       \* messages queued for each client's dispatch task
  pastes,      \* receive requests so far
  serial       \* history: no two set_selection requests have overlapped

deviceVars == <<device, second, told, offers>>
vars == <<conn, registered, deviceVars, made, owner, clipboard, announcing, inbox, pastes,
          serial>>

Selection(n) == [kind |-> "selection", n |-> n]
SendRequest(n) == [kind |-> "send", n |-> n]

\* The dispatch task of client c is between two handlers. A request may find messages
\* in the queue: those sent since the task last looked at it.
Ready(c) == conn[c] = "connected" /\ announcing[c] = NoSelection

Init ==
  /\ conn = [c \in Clients |-> "new"]
  /\ registered = {}
  /\ device = [c \in Clients |-> "none"]
  /\ made = 0
  /\ owner = <<>>
  /\ clipboard = NoSelection
  /\ announcing = [c \in Clients |-> NoSelection]
  /\ inbox = [c \in Clients |-> <<>>]
  /\ told = [c \in Clients |-> NoSelection]
  /\ second = {} /\ offers = [c \in Clients |-> {}]
  /\ pastes = 0
  /\ serial = TRUE

\* from_stream registers the sink before the client can send a request.
Connect(c) ==
  /\ conn[c] = "new"
  /\ conn' = [conn EXCEPT ![c] = "connected"]
  /\ registered' = registered \union {c}
  /\ UNCHANGED <<deviceVars, made, owner, clipboard, announcing, inbox, pastes, serial>>

\* The connection is closed by the client; its sink stays in CLIENTS, without a
\* receiver.
Disconnect(c) ==
  /\ Ready(c)
  /\ conn' = [conn EXCEPT ![c] = "gone"]
  /\ inbox' = [inbox EXCEPT ![c] = <<>>]
  /\ UNCHANGED <<registered, deviceVars, made, owner, clipboard, announcing, pastes, serial>>

\* offer_selection: a new wl_data_offer, if there is a selection.
Offers(c, n) == offers' = [offers EXCEPT ![c] = @ \union ({n} \ {NoSelection})]

\* Mutant: a new device waits for the next broadcast.
GetDeviceOnly(c) ==
  /\ Ready(c) /\ device[c] = "none"
  /\ device' = [device EXCEPT ![c] = "live"]
  /\ UNCHANGED <<conn, registered, second, told, offers, made, owner, clipboard, announcing,
                 inbox, pastes, serial>>

\* A new device is offered the selection that exists. Display::data_device keeps the
\* client's first, so that no broadcast is for a further one.
GetDataDevice(c) ==
  /\ Ready(c)
  /\ \/ /\ device[c] = "none"
        /\ device' = [device EXCEPT ![c] = "live"]
        /\ told' = [told EXCEPT ![c] = clipboard]
        /\ UNCHANGED second
     \/ /\ device[c] # "none" /\ c \notin second
        /\ second' = second \union {c}
        /\ UNCHANGED <<device, told>>
  /\ Offers(c, clipboard)
  /\ UNCHANGED <<conn, registered, made, owner, clipboard, announcing, inbox, pastes, serial>>

\* The id of the first stays in Display::data_device.
ReleaseDevice(c) ==
  /\ Ready(c)
  /\ \/ /\ device[c] = "live"
        /\ device' = [device EXCEPT ![c] = "released"]
        /\ UNCHANGED second
     \/ /\ c \in second
        /\ second' = second \ {c}
        /\ UNCHANGED device
  /\ UNCHANGED <<conn, registered, told, offers, made, owner, clipboard, announcing, inbox,
                 pastes, serial>>

HasDevice(c) == device[c] = "live" \/ c \in second

\* set_selection, first half: the selection is stored under the lock of CLIPBOARD.
SetSelection(c) ==
  /\ Ready(c) /\ HasDevice(c) /\ made < MaxSelections
  /\ made' = made + 1
  /\ owner' = Append(owner, c)
  /\ clipboard' = made + 1
  /\ announcing' = [announcing EXCEPT ![c] = made + 1]
  /\ serial' = (serial /\ \A d \in Clients : announcing[d] = NoSelection)
  /\ UNCHANGED <<conn, registered, deviceVars, inbox, pastes>>

\* ... second half: it is queued for every registered client, under the lock of
\* CLIENTS; the send to a client that is gone fails and is ignored.
Broadcast(c) ==
  /\ announcing[c] # NoSelection
  /\ inbox' = [d \in Clients |->
                 IF d \in registered /\ conn[d] = "connected"
                 THEN Append(inbox[d], Selection(announcing[c])) ELSE inbox[d]]
  /\ announcing' = [announcing EXCEPT ![c] = NoSelection]
  /\ UNCHANGED <<conn, registered, deviceVars, made, owner, clipboard, pastes, serial>>

\* Mutant: clearing the selection is queued like a selection.
ClearBroadcasts(c) ==
  /\ Ready(c) /\ HasDevice(c)
  /\ clipboard' = NoSelection
  /\ inbox' = [d \in Clients |-> IF conn[d] = "connected"
                                 THEN Append(inbox[d], Selection(NoSelection)) ELSE inbox[d]]
  /\ UNCHANGED <<conn, registered, deviceVars, made, owner, announcing, pastes, serial>>

\* set_selection without a source: nobody is told.
ClearSelection(c) ==
  /\ Ready(c) /\ HasDevice(c)
  /\ clipboard' = NoSelection
  /\ UNCHANGED <<conn, registered, deviceVars, made, owner, announcing, inbox, pastes, serial>>

\* The client that o names is asked to send the data of selection n.
Asks(o, n) ==
  inbox' = IF conn[o] = "connected"
           THEN [inbox EXCEPT ![o] = Append(@, SendRequest(n))] ELSE inbox

\* Mutant: whoever owns the clipboard now is asked.
AsksCurrentOwner(c) ==
  /\ Ready(c) /\ clipboard # NoSelection /\ pastes < MaxPastes
  /\ pastes' = pastes + 1
  /\ \E n \in offers[c] : Asks(owner[clipboard], n)
  /\ UNCHANGED <<conn, registered, deviceVars, made, owner, clipboard, announcing, serial>>

\* receive on an offer, which may be an older one: the owner of its selection is asked
\* to send.
Receive(c) ==
  /\ Ready(c) /\ pastes < MaxPastes
  /\ pastes' = pastes + 1
  /\ \E n \in offers[c] : Asks(owner[n], n)
  /\ UNCHANGED <<conn, registered, deviceVars, made, owner, clipboard, announcing, serial>>

\* Mutant: the newest message is handled first and the older ones are dropped.
HandlesNewest(c) ==
  /\ Ready(c) /\ inbox[c] # <<>>
  /\ LET m == inbox[c][Len(inbox[c])]
         offered == m.kind = "selection" /\ device[c] = "live"
     IN  /\ told' = IF offered THEN [told EXCEPT ![c] = m.n] ELSE told
         /\ IF offered THEN Offers(c, m.n) ELSE UNCHANGED offers
  /\ inbox' = [inbox EXCEPT ![c] = <<>>]
  /\ UNCHANGED <<conn, registered, device, second, made, owner, clipboard, announcing, pastes,
                 serial>>

\* handle_message: a selection makes a new offer on the client's device; the lookup
\* of a released one fails and that error ends the connection. A send request is
\* passed on to the source.
HandleMessage(c) ==
  /\ Ready(c) /\ inbox[c] # <<>>
  /\ LET m == Head(inbox[c])
         offered == m.kind = "selection" /\ device[c] = "live"
         fails == m.kind = "selection" /\ device[c] = "released"
     IN  /\ told' = IF offered THEN [told EXCEPT ![c] = m.n] ELSE told
         /\ IF offered THEN Offers(c, m.n) ELSE UNCHANGED offers
         /\ conn' = IF fails THEN [conn EXCEPT ![c] = "gone"] ELSE conn
         /\ inbox' = [inbox EXCEPT ![c] = IF fails THEN <<>> ELSE Tail(@)]
  /\ UNCHANGED <<registered, device, second, made, owner, clipboard, announcing, pastes, serial>>

Request(c) ==
  \/ Disconnect(c) \/ GetDataDevice(c) \/ ReleaseDevice(c)
  \/ SetSelection(c) \/ ClearSelection(c) \/ Receive(c)

Next == \E c \in Clients : Connect(c) \/ Request(c) \/ Broadcast(c) \/ HandleMessage(c)

Spec == Init /\ [][Next]_vars

\* set_selection does not suspend between its halves, and a dispatch task whose
\* queue is not empty is woken and polls it first (biased select).
Fairness == \A c \in Clients : WF_vars(Broadcast(c)) /\ WF_vars(HandleMessage(c))

FairSpec == Spec /\ Fairness
-----------------------------------------------------------------------------
(* Properties *)

Messages == [kind : {"selection", "send"}, n : Selections]

TypeOK ==
  /\ conn \in [Clients -> {"new", "connected", "gone"}]
  /\ registered \subseteq Clients
  /\ device \in [Clients -> {"none", "live", "released"}]
  /\ made \in 0..MaxSelections
  /\ owner \in Seq(Clients) /\ Len(owner) = made
  /\ second \subseteq Clients /\ offers \in [Clients -> SUBSET Selections]
  /\ clipboard \in Selections \union {NoSelection}
  /\ announcing \in [Clients -> Selections \union {NoSelection}]
  /\ inbox \in [Clients -> Seq(Messages)]
  /\ told \in [Clients -> Selections \union {NoSelection}]
  /\ pastes \in 0..MaxPastes
  /\ serial \in BOOLEAN

Served(c) == conn[c] = "connected" /\ device[c] = "live"
Quiet == \A c \in Clients : announcing[c] = NoSelection
                            /\ (conn[c] = "connected" => inbox[c] = <<>>)

\* If no two set_selection requests overlap, then whenever the queues are empty
\* every client's device was last told the selection that CLIPBOARD holds, however the
\* connections, the creation of the devices and the broadcasts interleave: a client
\* that connects between the two halves of set_selection, or makes its device after
\* its queue dropped the broadcast, misses nothing. A client's further device is
\* excepted, since only the first is broadcast to (data_device.rs:89).
DevicesAgree ==
  serial /\ Quiet /\ clipboard # NoSelection =>
    \A c \in Clients : Served(c) => told[c] = clipboard

\* The client asked to send the data of a selection is the one that made it, also for an
\* offer that newer selections have followed, and it made it before any client had an
\* offer of it.
OwnersAreAsked ==
  \A c \in Clients :
    /\ \A n \in offers[c] : n <= made
    /\ \A i \in DOMAIN inbox[c] : inbox[c][i].kind = "send" => owner[inbox[c][i].n] = c

\* A new selection reaches every client's device, as an offer of it or of a later one.
SelectionReachesDevices ==
  \A n \in Selections, c \in Clients :
    (Served(c) /\ \E d \in Clients : announcing[d] = n)
      ~> (~Served(c) \/ told[c] >= n)

\* data_device.rs:45 says of CLIPBOARD "The current clipboard contents, set by the
\* last client to call set_selection", and data_device.rs:36 that a new selection is
\* broadcast "to every wl_data_device that exists". So once the queues are empty
\* every device is offered what CLIPBOARD holds.
DevicesSeeClipboard ==
  Quiet /\ clipboard # NoSelection => \A c \in Clients : Served(c) => told[c] = clipboard
=============================================================================
