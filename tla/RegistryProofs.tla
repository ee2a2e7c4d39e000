---------------------------- MODULE RegistryProofs ----------------------------
(***************************************************************************)
(* What the model checker finds on the small instances of MCRegistry, for  *)
(* any devices, clients, ids and capacity of the notification channel.     *)
(***************************************************************************)
EXTENDS Registry, TLAPS

\* A connection that is closed, greeting or between two devices has none; one
\* that looked a device up knows which.
SessionShape ==
  \A c \in Clients :
    /\ session[c] \in {"closed", "hello", "detached"} => device[c] = NoDevice
    /\ session[c] \in {"select", "detached"} => found[c] \in Devices

\* ListFresh from the first list on, before the connection subscribes.
ListFreshEarly ==
  \A c \in Clients :
    session[c] # "closed" /\ pending[c] = 0 /\ ~missed[c] /\ hotplug.todo # "notify"
      => list[c] = Listed(devices)

\* Who was told of a device was told after it left the registry.
ToldIsGone ==
  /\ devices \cap unplugged = {}
  /\ hotplug.dev # NoDevice => hotplug.dev \in unplugged
  /\ \A c \in Clients : told[c] \subseteq unplugged

Inv ==
  TypeOK /\ SessionsAgree /\ ListenersOwned /\ SessionShape /\ ListFreshEarly /\ ToldIsGone

\* The invariant holds of a server without devices and connections.
LEMMA InitInv == Init => Inv
BY RegistryAssumption
   DEF Init, Inv, TypeOK, SessionsAgree, ListenersOwned, SessionShape, ListFreshEarly,
       ToldIsGone, Sessions, Options

\* A device that comes or goes is in the registry before or after its change
\* is notified, and touches no session.
LEMMA AddRemoveInv ==
  ASSUME Inv, NEW d \in Devices, AddDevice(d) \/ RemoveDevice(d)
  PROVE  Inv'
<1> USE RegistryAssumption DEF Inv, usbVars, attachVars, notifyVars
<1>1. TypeOK'
  BY DEF TypeOK, AddDevice, RemoveDevice, Options
<1>2. SessionsAgree' /\ ListenersOwned' /\ SessionShape'
  BY DEF SessionsAgree, ListenersOwned, SessionShape, AddDevice, RemoveDevice
<1>3. ListFreshEarly'
  BY DEF ListFreshEarly, AddDevice, RemoveDevice
<1>4. ToldIsGone'
  BY DEF ToldIsGone, AddDevice, RemoveDevice, TypeOK
<1> QED BY <1>1, <1>2, <1>3, <1>4

\* A notification leaves something to receive for everyone who has subscribed
\* and marks everyone who has not.
LEMMA NotifyInv ==
  ASSUME Inv, NotifyListChanged
  PROVE  Inv'
<1> USE RegistryAssumption DEF Inv, attachVars
<1>1. TypeOK'
  <2>1. pending' \in [Clients -> 0..Capacity]
    BY DEF TypeOK, NotifyListChanged
  <2>2. lagged' \in [Clients -> BOOLEAN] /\ missed' \in [Clients -> BOOLEAN]
    BY DEF TypeOK, NotifyListChanged
  <2>3. /\ hotplug' \in [todo : {"wait", "notify", "disconnect"}, dev : Options]
        /\ hotplug'.todo = "disconnect" => hotplug'.dev \in Devices
    BY DEF TypeOK, NotifyListChanged, Options
  <2> QED BY <2>1, <2>2, <2>3 DEF TypeOK, NotifyListChanged
<1>2. SessionsAgree' /\ ListenersOwned' /\ SessionShape'
  BY DEF SessionsAgree, ListenersOwned, SessionShape, NotifyListChanged
<1>3. ListFreshEarly'
  <2> SUFFICES ASSUME NEW c \in Clients, session[c] # "closed"
               PROVE  pending'[c] # 0 \/ missed'[c]
    BY DEF ListFreshEarly, NotifyListChanged
  <2>1. CASE Subscribed(c)
    BY <2>1 DEF NotifyListChanged, TypeOK
  <2>2. CASE session[c] = "hello"
    BY <2>2 DEF NotifyListChanged
  <2> QED BY <2>1, <2>2 DEF TypeOK, Sessions, Subscribed
<1>4. ToldIsGone'
  BY DEF ToldIsGone, NotifyListChanged, TypeOK
<1> QED BY <1>1, <1>2, <1>3, <1>4

\* on_disconnect tells of a device that has left the registry.
LEMMA DisconnectInv ==
  ASSUME Inv, OnDisconnect
  PROVE  Inv'
<1> USE RegistryAssumption DEF Inv, notifyVars
<1>1. TypeOK'
  BY DEF TypeOK, OnDisconnect, Options
<1>2. SessionsAgree' /\ SessionShape'
  BY DEF SessionsAgree, SessionShape, OnDisconnect
<1>3. ListenersOwned'
  BY DEF ListenersOwned, OnDisconnect, TypeOK
<1>4. ListFreshEarly'
  BY DEF ListFreshEarly, OnDisconnect
<1>5. ToldIsGone'
  BY DEF ToldIsGone, OnDisconnect, TypeOK
<1> QED BY <1>1, <1>2, <1>3, <1>4, <1>5

\* Steps that concern the device list only.
LEMMA ListInv ==
  ASSUME Inv, NEW c \in Clients,
         Hello(c) \/ Subscribe(c) \/ ReceiveLagged(c) \/ ReceiveListChange(c)
  PROVE  Inv'
<1> USE RegistryAssumption DEF Inv, usbVars, attachVars, notifyVars
<1>1. Listed(devices) \in SUBSET Ids
  BY DEF Listed, TypeOK
<1>2. TypeOK'
  <2>1. CASE Hello(c)
    BY <1>1, <2>1 DEF TypeOK, Hello, Sessions
  <2>2. CASE Subscribe(c) \/ ReceiveLagged(c)
    BY <2>2 DEF TypeOK, Subscribe, ReceiveLagged, Sessions
  <2>3. CASE ReceiveListChange(c)
    <3>1. pending' \in [Clients -> 0..Capacity]
      BY <2>3 DEF TypeOK, ReceiveListChange
    <3> QED BY <1>1, <2>3, <3>1 DEF TypeOK, ReceiveListChange
  <2> QED BY <2>1, <2>2, <2>3
<1>3. SessionsAgree' /\ ListenersOwned' /\ SessionShape'
  BY DEF SessionsAgree, ListenersOwned, SessionShape, TypeOK,
         Hello, Subscribe, ReceiveLagged, ReceiveListChange
<1>4. ListFreshEarly'
  <2>1. Listed(devices)' = Listed(devices)
    BY DEF Listed, Hello, Subscribe, ReceiveLagged, ReceiveListChange
  <2>2. CASE Hello(c) \/ ReceiveListChange(c)
    BY <2>1, <2>2 DEF ListFreshEarly, TypeOK, Hello, ReceiveListChange
  <2>3. CASE Subscribe(c) \/ ReceiveLagged(c)
    BY <2>1, <2>3 DEF ListFreshEarly, TypeOK, Subscribe, ReceiveLagged
  <2> QED BY <2>2, <2>3
<1>5. ToldIsGone'
  BY DEF ToldIsGone, TypeOK, Hello, Subscribe, ReceiveLagged, ReceiveListChange
<1> QED BY <1>2, <1>3, <1>4, <1>5

\* on_client_detach takes a client and its listener out of the device it has
\* selected, and of no other.
LEMMA DetachProps ==
  ASSUME Inv, NEW c \in Clients, DetachFrom(c, device[c])
  PROVE  /\ connections' \in [Devices -> SUBSET Clients]
         /\ listeners' \in [Devices -> SUBSET Clients]
         /\ device' \in [Clients -> Options]
         /\ device'[c] = NoDevice
         /\ \A e \in Clients : e # c => device'[e] = device[e]
         /\ SessionsAgree'
         /\ ListenersOwned'
<1> USE RegistryAssumption DEF Inv
<1>1. /\ connections' \in [Devices -> SUBSET Clients]
      /\ listeners' \in [Devices -> SUBSET Clients]
      /\ device' \in [Clients -> Options]
      /\ device'[c] = NoDevice
      /\ \A e \in Clients : e # c => device'[e] = device[e]
  BY DEF DetachFrom, TypeOK, Options
<1>2. SessionsAgree'
  BY <1>1 DEF SessionsAgree, DetachFrom, TypeOK
<1>3. ListenersOwned'
  BY DEF ListenersOwned, DetachFrom, TypeOK
<1> QED BY <1>1, <1>2, <1>3

\* Steps of a connection that select or leave a device or listen on it.
LEMMA SelectInv ==
  ASSUME Inv, NEW c \in Clients,
         \/ \E id \in Ids : LookUp(c, id)
         \/ Detach(c) \/ Attach(c) \/ Listen(c) \/ CancelListen(c) \/ Close(c)
  PROVE  Inv'
<1> USE RegistryAssumption DEF Inv, usbVars, attachVars, notifyVars
<1>1. CASE \E id \in Ids : LookUp(c, id)
  <2>1. PICK d \in devices : /\ session[c] = "open"
                             /\ found' = [found EXCEPT ![c] = d]
                             /\ session' = [session EXCEPT ![c] = "select"]
                             /\ UNCHANGED <<usbVars, attachVars, notifyVars, told>>
    BY <1>1 DEF LookUp
  <2>2. TypeOK'
    BY <2>1 DEF TypeOK, Sessions, Options
  <2>3. SessionsAgree' /\ ListenersOwned' /\ SessionShape' /\ ListFreshEarly' /\ ToldIsGone'
    BY <2>1 DEF SessionsAgree, ListenersOwned, SessionShape, ListFreshEarly, ToldIsGone, TypeOK
  <2> QED BY <2>2, <2>3
<1>2. CASE Detach(c)
  <2>1. DetachFrom(c, device[c]) /\ session[c] = "select"
    BY <1>2 DEF Detach
  <2>2. TypeOK'
    BY <1>2, <2>1, DetachProps DEF Detach, TypeOK, Sessions
  <2>3. SessionShape' /\ ListFreshEarly' /\ ToldIsGone'
    BY <1>2, <2>1, DetachProps DEF Detach, SessionShape, ListFreshEarly, ToldIsGone, TypeOK
  <2> QED BY <2>1, <2>2, <2>3, DetachProps
<1>3. CASE Attach(c)
  <2>1. found[c] \in Devices /\ device[c] = NoDevice
    BY <1>3 DEF Attach, SessionShape
  <2>2. TypeOK'
    BY <1>3, <2>1 DEF Attach, TypeOK, Sessions, Options
  <2>3. SessionsAgree' /\ ListenersOwned'
    BY <1>3, <2>1 DEF Attach, SessionsAgree, ListenersOwned, TypeOK
  <2>4. SessionShape' /\ ListFreshEarly' /\ ToldIsGone'
    BY <1>3, <2>1 DEF Attach, SessionShape, ListFreshEarly, ToldIsGone, TypeOK
  <2> QED BY <2>2, <2>3, <2>4
<1>4. CASE Listen(c) \/ CancelListen(c)
  <2>1. device[c] \in Devices /\ c \in connections[device[c]]
    BY <1>4 DEF Listen, CancelListen, SessionsAgree, TypeOK, Options
  <2>2. TypeOK'
    BY <1>4, <2>1 DEF Listen, CancelListen, TypeOK
  <2>3. SessionsAgree' /\ ListenersOwned' /\ SessionShape' /\ ListFreshEarly' /\ ToldIsGone'
    BY <1>4, <2>1 DEF Listen, CancelListen, SessionsAgree, ListenersOwned, SessionShape,
                      ListFreshEarly, ToldIsGone, TypeOK
  <2> QED BY <2>2, <2>3
<1>5. CASE Close(c)
  <2>1. DetachFrom(c, device[c]) /\ session[c] = "open"
    BY <1>5 DEF Close
  <2>2. TypeOK'
    BY <1>5, <2>1, DetachProps DEF Close, TypeOK, Sessions
  <2>3. SessionShape' /\ ListFreshEarly' /\ ToldIsGone'
    BY <1>5, <2>1, DetachProps DEF Close, SessionShape, ListFreshEarly, ToldIsGone, TypeOK
  <2> QED BY <2>1, <2>2, <2>3, DetachProps
<1> QED BY <1>1, <1>2, <1>3, <1>4, <1>5

\* Every step keeps the invariant.
LEMMA StepInv == Inv /\ [Next]_vars => Inv'
<1> SUFFICES ASSUME Inv, [Next]_vars PROVE Inv'
  OBVIOUS
<1>1. ASSUME NEW d \in Devices, AddDevice(d) \/ RemoveDevice(d) PROVE Inv'
  BY <1>1, AddRemoveInv
<1>2. CASE NotifyListChanged
  BY <1>2, NotifyInv
<1>3. CASE OnDisconnect
  BY <1>3, DisconnectInv
<1>4. ASSUME NEW c \in Clients, Connection(c) PROVE Inv'
  BY <1>4, ListInv, SelectInv DEF Connection
<1>5. CASE UNCHANGED vars
  BY <1>5 DEF Inv, TypeOK, SessionsAgree, ListenersOwned, SessionShape, ListFreshEarly,
              ToldIsGone, vars, usbVars, attachVars, notifyVars
<1> QED BY <1>1, <1>2, <1>3, <1>4, <1>5 DEF Next, Hotplug

\* The invariant of registry and sessions.
THEOREM RegistryInvariant == Spec => []Inv
BY InitInv, StepInv, PTL DEF Spec

\* Registry and sessions are well formed (ServerState, handle_socket).
THEOREM TypeCorrect == Spec => []TypeOK
<1>1. Inv => TypeOK
  BY DEF Inv
<1> QED BY <1>1, RegistryInvariant, PTL

\* A device broadcasts to exactly the clients that have it selected
\* (select_device, on_close).
THEOREM SessionsAlwaysAgree == Spec => []SessionsAgree
BY RegistryInvariant, PTL DEF Inv

\* No listener outlives its client's attachment (on_client_detach).
THEOREM ListenersAreOwned == Spec => []ListenersOwned
BY RegistryInvariant, PTL DEF Inv

\* A client that has taken its notifications has the current device list
\* (handle_socket), lags included, unless it missed the only notification.
THEOREM ListsAreFresh == Spec => []ListFresh
<1>1. Inv => ListFresh
  BY DEF Inv, ListFreshEarly, ListFresh
<1> QED BY <1>1, RegistryInvariant, PTL

\* A client that was told deviceDisconnected never finds that device again
\* (remove_device takes it out of the registry first).
THEOREM GoneIsNeverFound == Spec => GoneIsNotFound
<1>1. Inv /\ [Next]_vars
        => [\A c \in Clients : found'[c] # found[c] => found'[c] \notin told[c]]_vars
  <2> SUFFICES ASSUME Inv, Next, NEW c \in Clients, found'[c] # found[c]
               PROVE  found'[c] \notin told[c]
    BY DEF vars
  <2>1. PICK e \in Clients : Connection(e)
    BY DEF Next, Hotplug, AddDevice, RemoveDevice, NotifyListChanged, OnDisconnect
  <2>2. CASE \E id \in Ids : LookUp(e, id)
    BY <2>2 DEF LookUp, Inv, ToldIsGone, TypeOK
  <2>3. CASE Attach(e)
    BY <2>3, RegistryAssumption DEF Attach, Inv, ToldIsGone, TypeOK
  <2> QED BY <2>1, <2>2, <2>3 DEF Connection, Hello, Subscribe, ReceiveLagged,
             ReceiveListChange, Detach, Listen, CancelListen, Close
<1> QED BY <1>1, RegistryInvariant, PTL DEF Spec, GoneIsNotFound
=============================================================================
