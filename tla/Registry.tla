------------------------------- MODULE Registry -------------------------------
(***************************************************************************)
(* The registry of USB devices and the WebSocket sessions that select them *)
(* (device.rs ServerState, usb/mod.rs start, ws.rs WsConn, net.rs          *)
(* handle_socket).                                                         *)
(*                                                                         *)
(* The hotplug task and the task of each connection run side by side.  The *)
(* registry has a mutex, every device has its own, the change notification *)
(* is a broadcast channel: one step is what happens under one lock or in   *)
(* one call on the channel.  A device is one DevicePtr: the same hardware  *)
(* plugged in again is another device, usually with the same id.           *)
(***************************************************************************)
EXTENDS Integers

CONSTANTS
  Devices, Clients,
  NoDevice,   \* Option::None
  Ids,        \* <model>~<serial>
  IdOf,       \* the id of each device
  Capacity    \* of the broadcast channel

ASSUME RegistryAssumption ==
  /\ NoDevice \notin Devices
  /\ IdOf \in [Devices -> Ids]
  /\ Capacity \in Nat \ {0}

VARIABLES
  devices,      \* ServerState::devices
  unplugged,    \* history: devices that remove_device took out
  hotplug,      \* what the hotplug task has yet to do
  connections, listeners,   \* of each device: attached clients, listening clients
  session,      \* where each connection is
  found,        \* the device it looked up and has yet to attach to
  device,       \* WsConn::device
  pending, lagged,          \* its receiver of the change notification
  list,         \* the device list it was last sent
  missed,       \* history: a change was notified before it subscribed
  told          \* history: devices whose deviceDisconnected it was sent

usbVars    == <<devices, unplugged, hotplug>>
attachVars == <<connections, listeners, device>>
notifyVars == <<pending, lagged, list, missed>>
vars       == <<usbVars, attachVars, notifyVars, session, found, told>>

\* "hello": serverHello and the device list were sent, not yet subscribed.
\* "select": a selectDevice message has looked its device up.
Sessions == {"closed", "hello", "open", "select", "detached"}
Subscribed(c) == session[c] \in {"open", "select", "detached"}

\* devices_json: keyed by id.
Listed(ds) == {IdOf[d] : d \in ds}

Init ==
  /\ devices = {} /\ unplugged = {}
  /\ hotplug = [todo |-> "wait", dev |-> NoDevice]
  /\ connections = [d \in Devices |-> {}]
  /\ listeners = [d \in Devices |-> {}]
  /\ session = [c \in Clients |-> "closed"]
  /\ found = [c \in Clients |-> NoDevice]
  /\ device = [c \in Clients |-> NoDevice]
  /\ pending = [c \in Clients |-> 0]
  /\ lagged = [c \in Clients |-> FALSE]
  /\ list = [c \in Clients |-> {}]
  /\ missed = [c \in Clients |-> FALSE]
  /\ told = [c \in Clients |-> {}]

-----------------------------------------------------------------------------
(* The hotplug task: add_device and remove_device.                          *)

AddDevice(d) ==
  /\ hotplug.todo = "wait"
  /\ d \notin devices \cup unplugged
  /\ devices' = devices \cup {d}
  /\ hotplug' = [todo |-> "notify", dev |-> NoDevice]
  /\ UNCHANGED <<unplugged, attachVars, notifyVars, session, found, told>>

\* Seeded fault: the entry stays in the registry.
RemoveKeepsEntry(d) ==
  /\ hotplug.todo = "wait"
  /\ d \in devices \ unplugged
  /\ unplugged' = unplugged \cup {d}
  /\ hotplug' = [todo |-> "notify", dev |-> d]
  /\ UNCHANGED <<devices, attachVars, notifyVars, session, found, told>>

RemoveDevice(d) ==
  /\ hotplug.todo = "wait"
  /\ d \in devices
  /\ devices' = devices \ {d}
  /\ unplugged' = unplugged \cup {d}
  /\ hotplug' = [todo |-> "notify", dev |-> d]
  /\ UNCHANGED <<attachVars, notifyVars, session, found, told>>

\* Seeded fault: the channel has no bound.
NotifyUnbounded ==
  /\ hotplug.todo = "notify"
  /\ pending' = [c \in Clients |-> IF Subscribed(c) THEN pending[c] + 1 ELSE pending[c]]
  /\ missed' = [c \in Clients |-> missed[c] \/ session[c] = "hello"]
  /\ hotplug' = [hotplug EXCEPT !.todo = IF hotplug.dev = NoDevice THEN "wait" ELSE "disconnect"]
  /\ UNCHANGED <<devices, unplugged, attachVars, lagged, list, session, found, told>>

\* device_list_changed.send: a receiver that is full loses its oldest value
\* and will be told that it lagged.
NotifyListChanged ==
  /\ hotplug.todo = "notify"
  /\ pending' = [c \in Clients |->
       IF Subscribed(c) /\ pending[c] < Capacity THEN pending[c] + 1 ELSE pending[c]]
  /\ lagged' = [c \in Clients |-> lagged[c] \/ (Subscribed(c) /\ pending[c] = Capacity)]
  /\ missed' = [c \in Clients |-> missed[c] \/ session[c] = "hello"]
  /\ hotplug' = [hotplug EXCEPT !.todo = IF hotplug.dev = NoDevice THEN "wait" ELSE "disconnect"]
  /\ UNCHANGED <<devices, unplugged, attachVars, list, session, found, told>>

\* on_disconnect: deviceDisconnected to whoever is attached, and no more
\* listeners.
OnDisconnect ==
  LET d == hotplug.dev IN
  /\ hotplug.todo = "disconnect"
  /\ told' = [c \in Clients |-> IF c \in connections[d] THEN told[c] \cup {d} ELSE told[c]]
  /\ listeners' = [listeners EXCEPT ![d] = {}]
  /\ hotplug' = [todo |-> "wait", dev |-> NoDevice]
  /\ UNCHANGED <<devices, unplugged, connections, device, notifyVars, session, found>>

-----------------------------------------------------------------------------
(* The task of a connection.                                                *)

\* WsConn::new.
Hello(c) ==
  /\ session[c] = "closed"
  /\ session' = [session EXCEPT ![c] = "hello"]
  /\ list' = [list EXCEPT ![c] = Listed(devices)]
  /\ missed' = [missed EXCEPT ![c] = FALSE]
  /\ told' = [told EXCEPT ![c] = {}]
  /\ UNCHANGED <<usbVars, attachVars, pending, lagged, found>>

Subscribe(c) ==
  /\ session[c] = "hello"
  /\ session' = [session EXCEPT ![c] = "open"]
  /\ UNCHANGED <<usbVars, attachVars, notifyVars, found, told>>

\* Seeded fault: a receiver that lagged starts over with an empty queue.
LaggedStartsOver(c) ==
  /\ session[c] = "open" /\ lagged[c]
  /\ lagged' = [lagged EXCEPT ![c] = FALSE]
  /\ pending' = [pending EXCEPT ![c] = 0]
  /\ UNCHANGED <<usbVars, attachVars, list, missed, session, found, told>>

\* dlc.recv() is an error after a lag, and nothing is sent; the values that
\* are left come next.
ReceiveLagged(c) ==
  /\ session[c] = "open" /\ lagged[c]
  /\ lagged' = [lagged EXCEPT ![c] = FALSE]
  /\ UNCHANGED <<usbVars, attachVars, pending, list, missed, session, found, told>>

ReceiveListChange(c) ==
  /\ session[c] = "open" /\ ~lagged[c] /\ pending[c] > 0
  /\ pending' = [pending EXCEPT ![c] = @ - 1]
  /\ list' = [list EXCEPT ![c] = Listed(devices)]
  /\ missed' = [missed EXCEPT ![c] = FALSE]
  /\ UNCHANGED <<usbVars, attachVars, lagged, session, found, told>>

\* selectDevice: device_by_id.
LookUp(c, id) ==
  /\ session[c] = "open"
  /\ \E d \in devices :
       /\ IdOf[d] = id
       /\ found' = [found EXCEPT ![c] = d]
  /\ session' = [session EXCEPT ![c] = "select"]
  /\ UNCHANGED <<usbVars, attachVars, notifyVars, told>>

\* Seeded fault: listeners stay behind.
DetachOnly(c, d) ==
  /\ connections' = [e \in Devices |-> IF e = d THEN connections[e] \ {c} ELSE connections[e]]
  /\ device' = [device EXCEPT ![c] = NoDevice]
  /\ UNCHANGED listeners

\* on_client_detach.
DetachFrom(c, d) ==
  /\ connections' = [e \in Devices |-> IF e = d THEN connections[e] \ {c} ELSE connections[e]]
  /\ listeners' = [e \in Devices |-> IF e = d THEN listeners[e] \ {c} ELSE listeners[e]]
  /\ device' = [device EXCEPT ![c] = NoDevice]

\* Seeded fault: the old device is not told.
SelectWithoutDetach(c) ==
  /\ session[c] = "select"
  /\ session' = [session EXCEPT ![c] = "detached"]
  /\ UNCHANGED <<usbVars, attachVars, notifyVars, found, told>>

\* select_device, first half: leave the device that was selected before.
Detach(c) ==
  /\ session[c] = "select"
  /\ session' = [session EXCEPT ![c] = "detached"]
  /\ DetachFrom(c, device[c])
  /\ UNCHANGED <<usbVars, notifyVars, found, told>>

\* ... second half: attach to the new one.
Attach(c) ==
  LET d == found[c] IN
  /\ session[c] = "detached"
  /\ session' = [session EXCEPT ![c] = "open"]
  /\ connections' = [connections EXCEPT ![d] = @ \cup {c}]
  /\ device' = [device EXCEPT ![c] = d]
  /\ found' = [found EXCEPT ![c] = NoDevice]
  /\ UNCHANGED <<usbVars, listeners, notifyVars, told>>

\* listen and cancelListen on the selected device.
Listen(c) ==
  /\ session[c] = "open" /\ device[c] # NoDevice
  /\ listeners' = [listeners EXCEPT ![device[c]] = @ \cup {c}]
  /\ UNCHANGED <<usbVars, connections, device, notifyVars, session, found, told>>

CancelListen(c) ==
  /\ session[c] = "open" /\ device[c] # NoDevice
  /\ listeners' = [listeners EXCEPT ![device[c]] = @ \ {c}]
  /\ UNCHANGED <<usbVars, connections, device, notifyVars, session, found, told>>

\* The socket closes: on_close, and the receiver is dropped.
Close(c) ==
  /\ session[c] = "open"
  /\ session' = [session EXCEPT ![c] = "closed"]
  /\ DetachFrom(c, device[c])
  /\ pending' = [pending EXCEPT ![c] = 0]
  /\ lagged' = [lagged EXCEPT ![c] = FALSE]
  /\ UNCHANGED <<usbVars, list, missed, found, told>>

Hotplug ==
  \/ \E d \in Devices : AddDevice(d) \/ RemoveDevice(d)
  \/ NotifyListChanged
  \/ OnDisconnect

Connection(c) ==
  \/ Hello(c) \/ Subscribe(c)
  \/ ReceiveLagged(c) \/ ReceiveListChange(c)
  \/ \E id \in Ids : LookUp(c, id)
  \/ Detach(c) \/ Attach(c)
  \/ Listen(c) \/ CancelListen(c)
  \/ Close(c)

Next == Hotplug \/ \E c \in Clients : Connection(c)

Spec == Init /\ [][Next]_vars

-----------------------------------------------------------------------------
(* Properties.                                                              *)

Options == Devices \cup {NoDevice}

TypeOK ==
  /\ devices \subseteq Devices /\ unplugged \subseteq Devices
  /\ hotplug \in [todo : {"wait", "notify", "disconnect"}, dev : Options]
  /\ hotplug.todo = "disconnect" => hotplug.dev \in Devices
  /\ connections \in [Devices -> SUBSET Clients]
  /\ listeners \in [Devices -> SUBSET Clients]
  /\ session \in [Clients -> Sessions]
  /\ found \in [Clients -> Options] /\ device \in [Clients -> Options]
  /\ pending \in [Clients -> 0..Capacity] /\ lagged \in [Clients -> BOOLEAN]
  /\ list \in [Clients -> SUBSET Ids] /\ missed \in [Clients -> BOOLEAN]
  /\ told \in [Clients -> SUBSET Devices]

\* Both sides of a session agree, whatever order devices come and go and
\* clients select, reselect and leave: a device broadcasts to exactly the
\* clients that have it selected.
SessionsAgree ==
  \A c \in Clients, d \in Devices : c \in connections[d] <=> device[c] = d

\* No listener outlives its client's attachment (on_client_detach), so no
\* device streams to a client that left or selected another device.
ListenersOwned == \A d \in Devices : listeners[d] \subseteq connections[d]

\* The device list a client has is the registry's as soon as it has taken the
\* notifications sent to it, a lag of its receiver included, unless the only
\* notification of a change came between its snapshot and its subscription.
ListFresh ==
  \A c \in Clients :
    session[c] = "open" /\ pending[c] = 0 /\ ~missed[c] /\ hotplug.todo # "notify"
      => list[c] = Listed(devices)

\* A device leaves the registry before its clients hear of it: a client that
\* was told deviceDisconnected and selects again never finds that device.
GoneIsNotFound ==
  [][\A c \in Clients : found'[c] # found[c] => found'[c] \notin told[c]]_vars

\* "USB device removed: notify attached clients" (on_disconnect, device.rs): a
\* client attached to a device that was removed has been told.
DisconnectIsTold ==
  hotplug.todo = "wait" =>
    \A d \in unplugged : \A c \in connections[d] : d \in told[c]
=============================================================================
