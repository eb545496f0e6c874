--------------------------- MODULE PatchBayProofs ---------------------------
(***************************************************************************)
(* The tables of the patch bay under any number of concurrent callers.     *)
(*                                                                         *)
(* A request of the API takes a lock, lets it go and takes the next: the   *)
(* tables of one device agree only between requests.  The invariant says,  *)
(* for every device, which step of which request accounts for each way in  *)
(* which they differ meanwhile.                                            *)
(***************************************************************************)
EXTENDS MCBridge, FiniteSetTheorems, SequenceTheorems, WellFoundedInduction, TLAPS

\* No two callers add or remove the same device.
ApartEdits ==
    \A b, c \in Clients : b # c => DeviceEdits[b] \cap DeviceEdits[c] = {}

DeviceSteps == {"connect", "describe", "attach", "listen", "insert", "detach", "unlisten",
                "cascade", "unroute", "forget", "remove"}

\* A request that is at one of the steps S for the device.
Under(id, S) == \E c \in Clients : request[c].at \in S /\ request[c].id = id

\* What a request relies on while it is under way.
Relies(c) ==
    LET at == request[c].at
        id == request[c].id
        adapter == request[c].adapter
    IN /\ request[c] = [at |-> at, id |-> id, adapter |-> adapter, todo |-> request[c].todo]
       /\ at \in DeviceSteps => id \in DeviceEdits[c]
       /\ at \in {"attach", "listen"} \/ (at = "describe" /\ adapter # None) => adapter \in Nat
       /\ at = "describe" /\ id \notin Virtual => adapter # None
       /\ at = "listen" => attached[id] = adapter
       /\ at = "insert" /\ id \notin Virtual => attached[id] # None
       /\ at = "unlisten" => attached[id] = None
       /\ at \in {"cascade", "unroute", "forget", "remove"} /\ id \notin Virtual => attached[id] = None
       /\ at \in {"attach", "listen", "insert"} => id \in descriptors
       /\ at = "remove" => id \notin descriptors

\* The listeners are those of the handles, at every moment.
HandlesListen == listening = {<<id, handle[id]>> : id \in {i \in Ids : handle[i] # None}}

\* Where two tables differ, a request is between them.
Between(id) ==
    /\ handle[id] # attached[id] => Under(id, {"listen", "unlisten"})
    /\ ~(id \in descriptors <=> id \in devices) => Under(id, {"attach", "listen", "insert", "remove"})
    /\ id \notin Virtual /\ ~(id \in devices <=> attached[id] # None)
         => Under(id, {"listen", "insert", "unlisten", "cascade", "unroute", "forget", "remove"})

Tables ==
    /\ devices \subseteq Ids /\ descriptors \subseteq Ids /\ made \in Nat
    /\ attached \in [Ids -> Nat \union {None}] /\ handle \in [Ids -> Nat \union {None}]
    /\ DOMAIN request = Clients /\ request = [c \in Clients |-> request[c]]

TablesInv ==
    /\ Tables /\ HandlesListen
    /\ \A c \in Clients : Relies(c)
    /\ \A id \in Ids : Between(id)

LEMMA TablesInit == Init => TablesInv
<1> SUFFICES ASSUME Init PROVE TablesInv  OBVIOUS
<1>1. /\ \A c \in Clients : request[c] = NoRequest /\ request[c].at = "none"
      /\ request = [c \in Clients |-> NoRequest]
  BY DEF Init, NoRequest
<1>2. Tables  BY <1>1, PatchBayAssumption DEF Init, Tables
<1>3. HandlesListen
  <2>1. 0 # None  BY PatchBayAssumption
  <2>2. \A id \in Ids : handle[id] = IF id \in Configured \ Virtual THEN 0 ELSE None  BY DEF Init
  <2>3. {i \in Ids : handle[i] # None} = Configured \ Virtual  BY <2>1, <2>2, PatchBayAssumption
  <2>4. \A id \in Configured \ Virtual : handle[id] = 0  BY <2>2, PatchBayAssumption
  <2> QED  BY <2>3, <2>4 DEF HandlesListen, Init
<1>4. \A c \in Clients : Relies(c)  BY <1>1 DEF Relies, NoRequest, DeviceSteps
<1>5. \A id \in Ids : Between(id)
  <2>1. 0 # None  BY PatchBayAssumption
  <2> QED  BY <2>1, PatchBayAssumption DEF Init, Between
<1> QED  BY <1>2, <1>3, <1>4, <1>5 DEF TablesInv

\* A step of c's request that touches no other device than id.
OnlyAt(c, id) ==
    /\ \A b \in Clients : b # c => request'[b] = request[b]
    /\ request[c].at \in DeviceSteps => request[c].id = id
    /\ \A i \in Ids : i # id => /\ handle'[i] = handle[i] /\ attached'[i] = attached[i]
                                /\ i \in descriptors' <=> i \in descriptors
                                /\ i \in devices' <=> i \in devices

\* Such a step leaves what the others rely on, and the other devices' tables.
LEMMA OnlyHere ==
    ASSUME ApartEdits, TablesInv, NEW c \in Clients, NEW id \in DeviceEdits[c], OnlyAt(c, id),
           Relies(c)', Between(id)', Tables', HandlesListen'
    PROVE  TablesInv'
<1>1. ASSUME NEW b \in Clients, b # c PROVE Relies(b)'
  <2>1. request'[b] = request[b] /\ Relies(b)  BY <1>1 DEF OnlyAt, TablesInv
  <2>2. request[b].at \in DeviceSteps => request[b].id \in Ids /\ request[b].id # id
    BY <1>1, <2>1, PatchBayAssumption DEF ApartEdits, Relies
  <2>3. request[b].at \in DeviceSteps =>
            /\ attached'[request[b].id] = attached[request[b].id]
            /\ request[b].id \in descriptors' <=> request[b].id \in descriptors
    BY <2>2 DEF OnlyAt
  <2>4. CASE request[b].at \notin DeviceSteps  BY <2>1, <2>4 DEF Relies, DeviceSteps
  <2>5. CASE request[b].at \in DeviceSteps  BY <2>1, <2>3, <2>5 DEF Relies
  <2> QED  BY <2>4, <2>5
<1>2. ASSUME NEW i \in Ids, i # id PROVE Between(i)'
  <2>1. ASSUME NEW S, S \subseteq DeviceSteps, Under(i, S) PROVE Under(i, S)'
    BY <1>2, <2>1 DEF Under, OnlyAt
  <2>2. Between(i)  BY DEF TablesInv
  <2>3. /\ Under(i, {"listen", "unlisten"}) => Under(i, {"listen", "unlisten"})'
        /\ Under(i, {"attach", "listen", "insert", "remove"})
             => Under(i, {"attach", "listen", "insert", "remove"})'
        /\ Under(i, {"listen", "insert", "unlisten", "cascade", "unroute", "forget", "remove"})
             => Under(i, {"listen", "insert", "unlisten", "cascade", "unroute", "forget", "remove"})'
    BY <2>1 DEF DeviceSteps
  <2> QED  BY <1>2, <2>2, <2>3 DEF Between, OnlyAt
<1> QED  BY <1>1, <1>2 DEF TablesInv

\* A step of c's request that touches no device, before, after or between.
LEMMA NoDevice ==
    ASSUME TablesInv, NEW c \in Clients, UNCHANGED deviceTables,
           request[c].at \notin DeviceSteps, request'[c].at \notin DeviceSteps,
           \A b \in Clients : b # c => request'[b] = request[b],
           DOMAIN request' = Clients, request' = [b \in Clients |-> request'[b]],
           \E todo : request'[c] = [at |-> request'[c].at, id |-> request'[c].id,
                                    adapter |-> request'[c].adapter, todo |-> todo]
    PROVE  TablesInv'
<1>1. Tables' /\ HandlesListen'  BY DEF TablesInv, Tables, HandlesListen, deviceTables
<1>2. ASSUME NEW b \in Clients PROVE Relies(b)'
  <2>1. CASE b # c
    <3>1. request'[b] = request[b] /\ Relies(b)  BY <2>1 DEF TablesInv
    <3>2. attached' = attached /\ descriptors' = descriptors  BY DEF deviceTables
    <3> QED  BY <3>1, <3>2 DEF Relies
  <2>2. CASE b = c
    <3>1. request'[c] = [at |-> request'[c].at, id |-> request'[c].id,
                         adapter |-> request'[c].adapter, todo |-> request'[c].todo]
      OBVIOUS
    <3> QED  BY <2>2, <3>1 DEF Relies, DeviceSteps
  <2> QED  BY <2>1, <2>2
<1>3. ASSUME NEW i \in Ids PROVE Between(i)'
  <2>1. ASSUME NEW S, S \subseteq DeviceSteps, Under(i, S) PROVE Under(i, S)'
    BY <2>1 DEF Under
  <2>2. Between(i)  BY DEF TablesInv
  <2>3. /\ Under(i, {"listen", "unlisten"}) => Under(i, {"listen", "unlisten"})'
        /\ Under(i, {"attach", "listen", "insert", "remove"})
             => Under(i, {"attach", "listen", "insert", "remove"})'
        /\ Under(i, {"listen", "insert", "unlisten", "cascade", "unroute", "forget", "remove"})
             => Under(i, {"listen", "insert", "unlisten", "cascade", "unroute", "forget", "remove"})'
    BY <2>1 DEF DeviceSteps
  <2> QED  BY <2>2, <2>3 DEF Between, deviceTables
<1> QED  BY <1>1, <1>2, <1>3 DEF TablesInv

\* The requests after one of them goes on, or ends.
Requests == DOMAIN request' = Clients /\ request' = [b \in Clients |-> request'[b]]
OthersWait(c) == \A b \in Clients : b # c => request'[b] = request[b]

LEMMA Continued ==
    ASSUME TablesInv, NEW c \in Clients, NEW step, Continue(c, step)
    PROVE  /\ Requests /\ OthersWait(c)
           /\ request'[c] = [at |-> step, id |-> request[c].id, adapter |-> request[c].adapter,
                             todo |-> request'[c].todo]
           /\ request'[c].at = step /\ request'[c].id = request[c].id
           /\ request'[c].adapter = request[c].adapter /\ request'[c].todo = request[c].todo
<1>1. /\ request = [b \in Clients |-> request[b]] /\ request' = [request EXCEPT ![c].at = step]
      /\ request[c] = [at |-> request[c].at, id |-> request[c].id,
                       adapter |-> request[c].adapter, todo |-> request[c].todo]
  BY DEF TablesInv, Tables, Relies, Continue
<1>2. request'[c] = [request[c] EXCEPT !.at = step]  BY <1>1
<1>3. request'[c] = [at |-> step, id |-> request[c].id, adapter |-> request[c].adapter,
                     todo |-> request[c].todo]
  BY <1>1, <1>2
<1>4. /\ request'[c].at = step /\ request'[c].id = request[c].id
      /\ request'[c].adapter = request[c].adapter /\ request'[c].todo = request[c].todo
  BY <1>3
<1>5. request'[c] = [at |-> step, id |-> request[c].id, adapter |-> request[c].adapter,
                     todo |-> request'[c].todo]
  BY <1>3, <1>4
<1> QED  BY <1>1, <1>4, <1>5 DEF Requests, OthersWait

LEMMA Ended ==
    ASSUME TablesInv, NEW c \in Clients, Done(c)
    PROVE  /\ Requests /\ OthersWait(c) /\ request'[c] = NoRequest /\ request'[c].at = "none"
           /\ request'[c].id = None /\ request'[c].adapter = None
<1>1. request = [b \in Clients |-> request[b]] /\ request' = [request EXCEPT ![c] = NoRequest]
  BY DEF TablesInv, Tables, Done
<1> QED  BY <1>1 DEF Requests, OthersWait, NoRequest

\* A request that has begun, with a device or with a mapping.
LEMMA BegunIs ==
    ASSUME NEW at, NEW id, NEW t
    PROVE  /\ [NoRequest EXCEPT !.id = id, !.at = at] = [at |-> at, id |-> id, adapter |-> None, todo |-> <<>>]
           /\ [NoRequest EXCEPT !.at = at, !.todo = t] = [at |-> at, id |-> None, adapter |-> None, todo |-> t]
<1>1. ASSUME NEW e
      PROVE  /\ [[at |-> "none", id |-> None, adapter |-> None, todo |-> e] EXCEPT !.id = id]
                   = [at |-> "none", id |-> id, adapter |-> None, todo |-> e]
             /\ [[at |-> "none", id |-> id, adapter |-> None, todo |-> e] EXCEPT !.at = at]
                   = [at |-> at, id |-> id, adapter |-> None, todo |-> e]
             /\ [[at |-> "none", id |-> None, adapter |-> None, todo |-> e] EXCEPT !.at = at]
                   = [at |-> at, id |-> None, adapter |-> None, todo |-> e]
             /\ [[at |-> at, id |-> None, adapter |-> None, todo |-> e] EXCEPT !.todo = t]
                   = [at |-> at, id |-> None, adapter |-> None, todo |-> t]
  OBVIOUS
<1>2. ASSUME NEW e
      PROVE  /\ [[at |-> "none", id |-> None, adapter |-> None, todo |-> e] EXCEPT !.id = id, !.at = at]
                   = [at |-> at, id |-> id, adapter |-> None, todo |-> e]
             /\ [[at |-> "none", id |-> None, adapter |-> None, todo |-> e] EXCEPT !.at = at, !.todo = t]
                   = [at |-> at, id |-> None, adapter |-> None, todo |-> t]
  BY <1>1
<1> QED  BY <1>2 DEF NoRequest

\* A new request is at its first step.
LEMMA Begun ==
    ASSUME TablesInv, NEW c \in Clients, NEW at, NEW id,
           request' = [request EXCEPT ![c] = [NoRequest EXCEPT !.id = id, !.at = at]]
    PROVE  /\ Requests /\ OthersWait(c)
           /\ request'[c] = [at |-> at, id |-> id, adapter |-> None, todo |-> <<>>]
           /\ request'[c].at = at /\ request'[c].id = id /\ request'[c].adapter = None
<1>1. request = [b \in Clients |-> request[b]]  BY DEF TablesInv, Tables
<1>2. [NoRequest EXCEPT !.id = id, !.at = at] = [at |-> at, id |-> id, adapter |-> None, todo |-> <<>>]
  BY BegunIs
<1> QED  BY <1>1, <1>2 DEF Requests, OthersWait

----------------------------------------------------------------------------
(* Adding a device *)

LEMMA StepAddDevice ==
    ASSUME ApartEdits, TablesInv, NEW c \in Clients, NEW id \in DeviceEdits[c],
           AddDevice(c, id) \/ RemoveDevice(c, id)
    PROVE  TablesInv'
<1> DEFINE at == request'[c].at
<1>1. /\ UNCHANGED deviceTables /\ request[c].at = "none"
      /\ at \in {"describe", "connect", "cascade", "detach"} /\ request'[c].id = id
      /\ request'[c].adapter = None /\ Requests /\ OthersWait(c)
      /\ request'[c] = [at |-> at, id |-> id, adapter |-> None, todo |-> <<>>]
      /\ at = "describe" => id \in Virtual
      /\ at = "cascade" => id \in Virtual
  <2>1. ASSUME NEW step, request' = [request EXCEPT ![c] = [NoRequest EXCEPT !.id = id, !.at = step]]
        PROVE  /\ at = step /\ request'[c].id = id /\ request'[c].adapter = None
               /\ Requests /\ OthersWait(c)
               /\ request'[c] = [at |-> at, id |-> id, adapter |-> None, todo |-> <<>>]
    <3>1. /\ Requests /\ OthersWait(c)
          /\ request'[c] = [at |-> step, id |-> id, adapter |-> None, todo |-> <<>>]
          /\ at = step /\ request'[c].id = id /\ request'[c].adapter = None
      BY <2>1, Begun
    <3> QED  BY <3>1
  <2>2. CASE AddDevice(c, id)
    <3> DEFINE step == IF id \in Virtual THEN "describe" ELSE "connect"
    <3>1. request' = [request EXCEPT ![c] = [NoRequest EXCEPT !.id = id, !.at = step]]
      BY <2>2 DEF AddDevice
    <3>2. UNCHANGED deviceTables /\ request[c].at = "none"  BY <2>2 DEF AddDevice
    <3>3. step \in {"describe", "connect"} /\ (step = "describe" => id \in Virtual)  OBVIOUS
    <3> HIDE DEF step
    <3> QED  BY <2>1, <3>1, <3>2, <3>3
  <2>3. CASE RemoveDevice(c, id)
    <3> DEFINE step == IF id \in Virtual THEN "cascade" ELSE "detach"
    <3>1. request' = [request EXCEPT ![c] = [NoRequest EXCEPT !.id = id, !.at = step]]
      BY <2>3 DEF RemoveDevice
    <3>2. UNCHANGED deviceTables /\ request[c].at = "none"  BY <2>3 DEF RemoveDevice
    <3>3. step \in {"cascade", "detach"} /\ (step = "cascade" => id \in Virtual)  OBVIOUS
    <3> HIDE DEF step
    <3> QED  BY <2>1, <3>1, <3>2, <3>3
  <2> QED  BY <2>2, <2>3
<1>2. OnlyAt(c, id)  BY <1>1 DEF OnlyAt, OthersWait, deviceTables, DeviceSteps
<1>3. Tables' /\ HandlesListen'
  BY <1>1 DEF TablesInv, Tables, HandlesListen, deviceTables, Requests
<1>4. Relies(c)'  BY <1>1 DEF Relies
<1>5. Between(id)'
  <2>1. ASSUME NEW S, "none" \notin S, Under(id, S) PROVE Under(id, S)'
    BY <1>1, <2>1 DEF Under, OthersWait
  <2>2. Between(id)  BY PatchBayAssumption DEF TablesInv
  <2>3. /\ Under(id, {"listen", "unlisten"}) => Under(id, {"listen", "unlisten"})'
        /\ Under(id, {"attach", "listen", "insert", "remove"})
             => Under(id, {"attach", "listen", "insert", "remove"})'
        /\ Under(id, {"listen", "insert", "unlisten", "cascade", "unroute", "forget", "remove"})
             => Under(id, {"listen", "insert", "unlisten", "cascade", "unroute", "forget", "remove"})'
    BY <2>1
  <2> QED  BY <1>1, <2>2, <2>3 DEF Between, deviceTables
<1> QED  BY <1>2, <1>3, <1>4, <1>5, OnlyHere

\* What a request under way knows of its device.
LEMMA AtWork ==
    ASSUME TablesInv, NEW c \in Clients, request[c].at \in DeviceSteps
    PROVE  /\ request[c].id \in DeviceEdits[c] /\ request[c].id \in Ids
           /\ Relies(c) /\ Between(request[c].id) /\ Tables /\ HandlesListen
BY PatchBayAssumption DEF TablesInv, Relies

\* A step that goes on to at, with the tables of the device as they are.
LEMMA StepOn ==
    ASSUME ApartEdits, TablesInv, NEW c \in Clients, request[c].at \in DeviceSteps,
           Requests, OthersWait(c), request'[c].id = request[c].id,
           request'[c] = [at |-> request'[c].at, id |-> request[c].id,
                          adapter |-> request'[c].adapter, todo |-> request'[c].todo],
           UNCHANGED <<devices, descriptors, attached, handle, listening>>, made' \in Nat,
           Relies(c)',
           request[c].at \in {"listen", "unlisten"} => request'[c].at = request[c].at,
           request[c].at \in {"attach", "insert", "remove"} => request'[c].at = request[c].at,
           request[c].at \in {"cascade", "unroute", "forget"}
             => request'[c].at \in {"cascade", "unroute", "forget"}
    PROVE  TablesInv'
<1> DEFINE id == request[c].id
<1>1. id \in DeviceEdits[c] /\ id \in Ids /\ Between(id) /\ Tables /\ HandlesListen  BY AtWork
<1>2. OnlyAt(c, id)  BY DEF OnlyAt, OthersWait
<1>3. Tables' /\ HandlesListen'  BY <1>1 DEF Tables, HandlesListen, Requests
<1>4. Between(id)'
  <2>1. ASSUME NEW S, NEW b \in Clients, request[b].at \in S, request[b].id = id,
               b = c => request'[c].at \in S
        PROVE  Under(id, S)'
    BY <2>1 DEF Under, OthersWait
  <2>2. /\ Under(id, {"listen", "unlisten"}) => Under(id, {"listen", "unlisten"})'
        /\ Under(id, {"attach", "listen", "insert", "remove"})
             => Under(id, {"attach", "listen", "insert", "remove"})'
        /\ Under(id, {"listen", "insert", "unlisten", "cascade", "unroute", "forget", "remove"})
             => Under(id, {"listen", "insert", "unlisten", "cascade", "unroute", "forget", "remove"})'
    BY <2>1 DEF Under
  <2> QED  BY <1>1, <2>2 DEF Between
<1> QED  BY <1>1, <1>2, <1>3, <1>4, OnlyHere

\* A request ends where its device's tables agree, or none of them is between.
LEMMA StepEnds ==
    ASSUME ApartEdits, TablesInv, NEW c \in Clients, request[c].at \in DeviceSteps, Done(c),
           UNCHANGED <<descriptors, attached, handle, listening, made>>,
           \A i \in Ids : i # request[c].id => (i \in devices' <=> i \in devices),
           devices' \subseteq Ids,
           request[c].at \in {"connect", "insert", "remove"},
           request[c].at = "connect" => devices' = devices,
           request[c].at = "insert" => devices' = devices \union {request[c].id},
           request[c].at = "remove" => devices' = devices \ {request[c].id}
    PROVE  TablesInv'
<1>0. PICK id : id = request[c].id  OBVIOUS
<1>1. /\ id \in DeviceEdits[c] /\ id \in Ids /\ Relies(c) /\ Between(id) /\ Tables /\ HandlesListen
  BY <1>0, AtWork
<1>2. Requests /\ OthersWait(c) /\ request'[c] = NoRequest  BY Ended
<1>3. OnlyAt(c, id)  BY <1>0, <1>2 DEF OnlyAt, OthersWait
<1>4. Tables' /\ HandlesListen'  BY <1>1, <1>2 DEF Tables, HandlesListen, Requests
<1>5. Relies(c)'  BY <1>2 DEF Relies, NoRequest, DeviceSteps
<1>6. ASSUME NEW S, request[c].at \notin S, Under(id, S) PROVE Under(id, S)'
  BY <1>0, <1>2, <1>6 DEF Under, OthersWait
<1>7. handle'[id] # attached'[id] => Under(id, {"listen", "unlisten"})'
  BY <1>1, <1>6 DEF Between
<1>8. ASSUME request[c].at = "connect" PROVE Between(id)'
  <2>1. /\ Under(id, {"attach", "listen", "insert", "remove"})
             => Under(id, {"attach", "listen", "insert", "remove"})'
        /\ Under(id, {"listen", "insert", "unlisten", "cascade", "unroute", "forget", "remove"})
             => Under(id, {"listen", "insert", "unlisten", "cascade", "unroute", "forget", "remove"})'
    BY <1>6, <1>8
  <2> QED  BY <1>1, <1>7, <1>8, <2>1 DEF Between
<1>9. ASSUME request[c].at = "insert" PROVE Between(id)'
  <2>1. id \in descriptors /\ (id \notin Virtual => attached[id] # None)
    BY <1>0, <1>1, <1>9 DEF Relies
  <2>2. id \in descriptors' /\ id \in devices' /\ attached' = attached  BY <1>0, <1>9, <2>1
  <2> QED  BY <1>7, <2>1, <2>2 DEF Between
<1>10. ASSUME request[c].at = "remove" PROVE Between(id)'
  <2>1. id \notin descriptors /\ (id \notin Virtual => attached[id] = None)
    BY <1>0, <1>1, <1>10 DEF Relies
  <2>2. id \notin descriptors' /\ id \notin devices' /\ attached' = attached  BY <1>0, <1>10, <2>1
  <2> QED  BY <1>7, <2>1, <2>2 DEF Between
<1>11. Between(id)'  BY <1>8, <1>9, <1>10
<1> QED  BY <1>1, <1>3, <1>4, <1>5, <1>11, OnlyHere

LEMMA StepConnect ==
    ASSUME ApartEdits, TablesInv, NEW c \in Clients, Connect(c)
    PROVE  TablesInv'
<1>1. /\ request[c].at = "connect" /\ request[c].at \in DeviceSteps
      /\ UNCHANGED <<devices, descriptors, attached, handle, listening>> /\ made \in Nat
  BY DEF Connect, DeviceSteps, TablesInv, Tables
<1>2. Relies(c) /\ request[c].id \in DeviceEdits[c] /\ Between(request[c].id) /\ Tables /\ HandlesListen
  BY <1>1, AtWork
<1>3. CASE made' = made + 1 /\ request' = [request EXCEPT ![c].at = "describe", ![c].adapter = made + 1]
  <2>1. request = [b \in Clients |-> request[b]]  BY DEF TablesInv, Tables
  <2>2. request'[c] = [request[c] EXCEPT !.at = "describe", !.adapter = made + 1]  BY <1>3, <2>1
  <2>3. request'[c] = [at |-> "describe", id |-> request[c].id, adapter |-> made + 1,
                       todo |-> request[c].todo]
    BY <1>2, <2>2 DEF Relies
  <2>4. Requests /\ OthersWait(c)  BY <1>3, <2>1 DEF Requests, OthersWait
  <2>5. made + 1 \in Nat /\ made + 1 # None  BY <1>1, PatchBayAssumption
  <2>6. Relies(c)'  BY <1>2, <2>3, <2>5 DEF Relies
  <2>7. /\ made' \in Nat /\ request'[c].at = "describe" /\ request'[c].id = request[c].id
        /\ request'[c] = [at |-> request'[c].at, id |-> request[c].id,
                          adapter |-> request'[c].adapter, todo |-> request'[c].todo]
    <3>1. made' \in Nat  BY <1>3, <2>5
    <3> QED  BY <2>3, <3>1
  <2> QED  BY <1>1, <2>4, <2>6, <2>7, StepOn
<1>4. CASE Done(c) /\ UNCHANGED made
  <2>1. devices \subseteq Ids  BY <1>2 DEF Tables
  <2> QED  BY <1>1, <1>4, <2>1, StepEnds
<1> QED  BY <1>3, <1>4 DEF Connect

LEMMA StepDescribe ==
    ASSUME ApartEdits, TablesInv, NEW c \in Clients, Describe(c)
    PROVE  TablesInv'
<1>0. PICK id : id = request[c].id  OBVIOUS
<1>1. /\ request[c].at = "describe" /\ request[c].at \in DeviceSteps
      /\ descriptors' = descriptors \union {id}
      /\ UNCHANGED <<devices, attached, handle, listening, made>>
  BY <1>0 DEF Describe, DeviceSteps
<1>2. /\ id \in DeviceEdits[c] /\ id \in Ids /\ Relies(c) /\ Between(id) /\ Tables /\ HandlesListen
  BY <1>0, <1>1, AtWork
<1>3. PICK step : step = AfterDescribe(request[c].adapter)  OBVIOUS
<1>4. Continue(c, step)  BY <1>3 DEF Describe
<1>5. /\ Requests /\ OthersWait(c) /\ request'[c].at = step /\ request'[c].id = id
      /\ request'[c].adapter = request[c].adapter
      /\ request'[c] = [at |-> step, id |-> id, adapter |-> request[c].adapter, todo |-> request'[c].todo]
  <2>1. /\ Requests /\ OthersWait(c) /\ request'[c].at = step /\ request'[c].id = request[c].id
        /\ request'[c].adapter = request[c].adapter
        /\ request'[c] = [at |-> step, id |-> request[c].id, adapter |-> request[c].adapter, todo |-> request'[c].todo]
    BY <1>4, Continued
  <2> QED  BY <1>0, <2>1
<1>6. /\ step \in {"insert", "attach"} /\ (step = "insert" => id \in Virtual)
      /\ step = "attach" => request[c].adapter \in Nat
  BY <1>0, <1>1, <1>2, <1>3 DEF AfterDescribe, Relies
<1>7. OnlyAt(c, id)  BY <1>0, <1>1, <1>5 DEF OnlyAt, OthersWait
<1>8. Tables' /\ HandlesListen'  BY <1>1, <1>2, <1>5 DEF Tables, HandlesListen, Requests
<1>9. Relies(c)'  BY <1>1, <1>2, <1>5, <1>6 DEF Relies
<1>10. Between(id)'
  <2>1. ASSUME NEW S, "describe" \notin S, Under(id, S) PROVE Under(id, S)'
    BY <1>1, <1>5, <2>1 DEF Under, OthersWait
  <2>2. Under(id, {"attach", "listen", "insert", "remove"})'  BY <1>5, <1>6 DEF Under
  <2>3. /\ Under(id, {"listen", "unlisten"}) => Under(id, {"listen", "unlisten"})'
        /\ Under(id, {"listen", "insert", "unlisten", "cascade", "unroute", "forget", "remove"})
             => Under(id, {"listen", "insert", "unlisten", "cascade", "unroute", "forget", "remove"})'
    BY <2>1
  <2> QED  BY <1>1, <1>2, <2>2, <2>3 DEF Between
<1> QED  BY <1>2, <1>7, <1>8, <1>9, <1>10, OnlyHere

LEMMA StepAttach ==
    ASSUME ApartEdits, TablesInv, NEW c \in Clients, Attach(c)
    PROVE  TablesInv'
<1>0. PICK id : id = request[c].id  OBVIOUS
<1>1. /\ request[c].at = "attach" /\ request[c].at \in DeviceSteps
      /\ attached' = [attached EXCEPT ![id] = request[c].adapter]
      /\ UNCHANGED <<devices, descriptors, handle, listening, made>> /\ Continue(c, "listen")
  BY <1>0 DEF Attach, DeviceSteps
<1>2. /\ id \in DeviceEdits[c] /\ id \in Ids /\ Relies(c) /\ Between(id) /\ Tables /\ HandlesListen
  BY <1>0, <1>1, AtWork
<1>3. request[c].adapter \in Nat /\ request[c].adapter # None /\ id \in descriptors
  BY <1>0, <1>1, <1>2, PatchBayAssumption DEF Relies
<1>4. /\ Requests /\ OthersWait(c) /\ request'[c].at = "listen" /\ request'[c].id = id
      /\ request'[c].adapter = request[c].adapter
      /\ request'[c] = [at |-> "listen", id |-> id, adapter |-> request[c].adapter, todo |-> request'[c].todo]
  <2>1. /\ Requests /\ OthersWait(c) /\ request'[c].at = "listen" /\ request'[c].id = request[c].id
        /\ request'[c].adapter = request[c].adapter
        /\ request'[c] = [at |-> "listen", id |-> request[c].id, adapter |-> request[c].adapter, todo |-> request'[c].todo]
    BY <1>1, Continued
  <2> QED  BY <1>0, <2>1
<1>5. attached'[id] = request[c].adapter /\ \A i \in Ids : i # id => attached'[i] = attached[i]
  BY <1>1, <1>2 DEF Tables
<1>6. OnlyAt(c, id)  BY <1>0, <1>1, <1>4, <1>5 DEF OnlyAt, OthersWait
<1>7. Tables' /\ HandlesListen'  BY <1>1, <1>2, <1>3, <1>4 DEF Tables, HandlesListen, Requests
<1>8. Relies(c)'  BY <1>1, <1>2, <1>3, <1>4, <1>5 DEF Relies
<1>9. Between(id)'
  <2>1. /\ Under(id, {"listen", "unlisten"})'
        /\ Under(id, {"attach", "listen", "insert", "remove"})'
        /\ Under(id, {"listen", "insert", "unlisten", "cascade", "unroute", "forget", "remove"})'
    BY <1>4 DEF Under
  <2> QED  BY <2>1 DEF Between
<1> QED  BY <1>2, <1>6, <1>7, <1>8, <1>9, OnlyHere

LEMMA StepListen ==
    ASSUME ApartEdits, TablesInv, NEW c \in Clients, Listen(c)
    PROVE  TablesInv'
<1>0. PICK id : id = request[c].id  OBVIOUS
<1>1. /\ request[c].at = "listen" /\ request[c].at \in DeviceSteps
      /\ handle' = [handle EXCEPT ![id] = request[c].adapter]
      /\ listening' = (listening \ {<<id, handle[id]>>}) \union {<<id, request[c].adapter>>}
      /\ UNCHANGED <<devices, descriptors, attached, made>> /\ Continue(c, "insert")
  BY <1>0 DEF Listen, DeviceSteps, OldListener
<1>2. /\ id \in DeviceEdits[c] /\ id \in Ids /\ Relies(c) /\ Between(id) /\ Tables /\ HandlesListen
  BY <1>0, <1>1, AtWork
<1>3. /\ request[c].adapter \in Nat /\ request[c].adapter # None /\ id \in descriptors
      /\ attached[id] = request[c].adapter
  BY <1>0, <1>1, <1>2, PatchBayAssumption DEF Relies
<1>4. /\ Requests /\ OthersWait(c) /\ request'[c].at = "insert" /\ request'[c].id = id
      /\ request'[c] = [at |-> "insert", id |-> id, adapter |-> request[c].adapter, todo |-> request'[c].todo]
  <2>1. /\ Requests /\ OthersWait(c) /\ request'[c].at = "insert" /\ request'[c].id = request[c].id
        /\ request'[c] = [at |-> "insert", id |-> request[c].id, adapter |-> request[c].adapter, todo |-> request'[c].todo]
    BY <1>1, Continued
  <2> QED  BY <1>0, <2>1
<1>5. handle'[id] = request[c].adapter /\ \A i \in Ids : i # id => handle'[i] = handle[i]
  BY <1>1, <1>2 DEF Tables
<1>6. OnlyAt(c, id)  BY <1>0, <1>1, <1>4, <1>5 DEF OnlyAt, OthersWait
<1>7. Tables'  BY <1>1, <1>2, <1>3, <1>4 DEF Tables, Requests
<1>8. HandlesListen'
  <2>1. listening = {<<i, handle[i]>> : i \in {j \in Ids : handle[j] # None}}  BY <1>2 DEF HandlesListen
  <2>2. listening' = {<<i, handle'[i]>> : i \in {j \in Ids : handle'[j] # None}}
    BY <1>1, <1>2, <1>3, <1>5, <2>1
  <2> QED  BY <2>2 DEF HandlesListen
<1>9. Relies(c)'  BY <1>1, <1>2, <1>3, <1>4 DEF Relies
<1>10. Between(id)'
  <2>1. /\ Under(id, {"attach", "listen", "insert", "remove"})'
        /\ Under(id, {"listen", "insert", "unlisten", "cascade", "unroute", "forget", "remove"})'
    BY <1>4 DEF Under
  <2> QED  BY <1>1, <1>3, <1>5, <2>1 DEF Between
<1> QED  BY <1>2, <1>6, <1>7, <1>8, <1>9, <1>10, OnlyHere

LEMMA StepEnlistDelist ==
    ASSUME ApartEdits, TablesInv, NEW c \in Clients, Enlist(c) \/ Delist(c)
    PROVE  TablesInv'
<1>1. /\ request[c].at \in {"insert", "remove"} /\ request[c].at \in DeviceSteps /\ Done(c)
      /\ UNCHANGED <<descriptors, attached, handle, listening, made>>
      /\ request[c].at = "insert" => devices' = devices \union {request[c].id}
      /\ request[c].at = "remove" => devices' = devices \ {request[c].id}
  BY DEF Enlist, Delist, DeviceSteps
<1>2. request[c].id \in Ids /\ devices \subseteq Ids  BY <1>1, AtWork DEF Tables
<1>3. \A i \in Ids : i # request[c].id => (i \in devices' <=> i \in devices)  BY <1>1
<1>4. devices' \subseteq Ids  BY <1>1, <1>2
<1> QED  BY <1>1, <1>3, <1>4, StepEnds

----------------------------------------------------------------------------
(* Removing a device *)

LEMMA StepDetach ==
    ASSUME ApartEdits, TablesInv, NEW c \in Clients, Detach(c)
    PROVE  TablesInv'
<1>0. PICK id : id = request[c].id  OBVIOUS
<1>1. /\ request[c].at = "detach" /\ request[c].at \in DeviceSteps
      /\ attached' = [attached EXCEPT ![id] = None]
      /\ UNCHANGED <<devices, descriptors, handle, listening, made>>
  BY <1>0 DEF Detach, DeviceSteps
<1>2. /\ id \in DeviceEdits[c] /\ id \in Ids /\ Relies(c) /\ Between(id) /\ Tables /\ HandlesListen
  BY <1>0, <1>1, AtWork
<1>3. PICK step : step = IF attached[id] = None THEN "cascade" ELSE "unlisten"  OBVIOUS
<1>4. Continue(c, step)  BY <1>0, <1>3 DEF Detach
<1>5. /\ Requests /\ OthersWait(c) /\ request'[c].at = step /\ request'[c].id = id
      /\ request'[c] = [at |-> step, id |-> id, adapter |-> request[c].adapter, todo |-> request'[c].todo]
  <2>1. /\ Requests /\ OthersWait(c) /\ request'[c].at = step /\ request'[c].id = request[c].id
        /\ request'[c] = [at |-> step, id |-> request[c].id, adapter |-> request[c].adapter, todo |-> request'[c].todo]
    BY <1>4, Continued
  <2> QED  BY <1>0, <2>1
<1>6. attached'[id] = None /\ \A i \in Ids : i # id => attached'[i] = attached[i]
  BY <1>1, <1>2 DEF Tables
<1>7. OnlyAt(c, id)  BY <1>0, <1>1, <1>5, <1>6 DEF OnlyAt, OthersWait
<1>8. Tables' /\ HandlesListen'  BY <1>1, <1>2, <1>5 DEF Tables, HandlesListen, Requests
<1>9. Relies(c)'  BY <1>1, <1>2, <1>3, <1>5, <1>6 DEF Relies
<1>10. Between(id)'
  <2>1. ASSUME NEW S, "detach" \notin S, Under(id, S) PROVE Under(id, S)'
    BY <1>1, <1>5, <2>1 DEF Under, OthersWait
  <2>2. handle'[id] # attached'[id] => Under(id, {"listen", "unlisten"})'
    <3>1. CASE step = "unlisten"  BY <1>5, <3>1 DEF Under
    <3>2. CASE step # "unlisten"
      <4>1. attached'[id] = attached[id] /\ handle'[id] = handle[id]  BY <1>1, <1>3, <1>6, <3>2
      <4>2. Under(id, {"listen", "unlisten"}) => Under(id, {"listen", "unlisten"})'  BY <2>1
      <4> QED  BY <1>2, <4>1, <4>2 DEF Between
    <3> QED  BY <3>1, <3>2
  <2>3. /\ Under(id, {"attach", "listen", "insert", "remove"})
             => Under(id, {"attach", "listen", "insert", "remove"})'
        /\ Under(id, {"listen", "insert", "unlisten", "cascade", "unroute", "forget", "remove"})'
    BY <1>3, <1>5, <2>1 DEF Under
  <2> QED  BY <1>1, <1>2, <2>2, <2>3 DEF Between
<1> QED  BY <1>2, <1>7, <1>8, <1>9, <1>10, OnlyHere

LEMMA StepUnlisten ==
    ASSUME ApartEdits, TablesInv, NEW c \in Clients, Unlisten(c)
    PROVE  TablesInv'
<1>0. PICK id : id = request[c].id  OBVIOUS
<1>1. /\ request[c].at = "unlisten" /\ request[c].at \in DeviceSteps
      /\ handle' = [handle EXCEPT ![id] = None]
      /\ listening' = listening \ {<<id, handle[id]>>}
      /\ UNCHANGED <<devices, descriptors, attached, made>> /\ Continue(c, "cascade")
  BY <1>0 DEF Unlisten, DeviceSteps, StoppedListening
<1>2. /\ id \in DeviceEdits[c] /\ id \in Ids /\ Relies(c) /\ Between(id) /\ Tables /\ HandlesListen
  BY <1>0, <1>1, AtWork
<1>3. attached[id] = None  BY <1>0, <1>1, <1>2 DEF Relies
<1>4. /\ Requests /\ OthersWait(c) /\ request'[c].at = "cascade" /\ request'[c].id = id
      /\ request'[c] = [at |-> "cascade", id |-> id, adapter |-> request[c].adapter, todo |-> request'[c].todo]
  <2>1. /\ Requests /\ OthersWait(c) /\ request'[c].at = "cascade" /\ request'[c].id = request[c].id
        /\ request'[c] = [at |-> "cascade", id |-> request[c].id, adapter |-> request[c].adapter, todo |-> request'[c].todo]
    BY <1>1, Continued
  <2> QED  BY <1>0, <2>1
<1>5. handle'[id] = None /\ \A i \in Ids : i # id => handle'[i] = handle[i]
  BY <1>1, <1>2 DEF Tables
<1>6. OnlyAt(c, id)  BY <1>0, <1>1, <1>4, <1>5 DEF OnlyAt, OthersWait
<1>7. Tables'  BY <1>1, <1>2, <1>4 DEF Tables, Requests
<1>8. HandlesListen'
  <2>1. listening = {<<i, handle[i]>> : i \in {j \in Ids : handle[j] # None}}  BY <1>2 DEF HandlesListen
  <2>2. listening' = {<<i, handle'[i]>> : i \in {j \in Ids : handle'[j] # None}}
    BY <1>1, <1>2, <1>5, <2>1
  <2> QED  BY <2>2 DEF HandlesListen
<1>9. Relies(c)'  BY <1>1, <1>2, <1>3, <1>4 DEF Relies
<1>10. Between(id)'
  <2>1. ASSUME NEW S, "unlisten" \notin S, Under(id, S) PROVE Under(id, S)'
    BY <1>1, <1>4, <2>1 DEF Under, OthersWait
  <2>2. /\ Under(id, {"attach", "listen", "insert", "remove"})
             => Under(id, {"attach", "listen", "insert", "remove"})'
        /\ Under(id, {"listen", "insert", "unlisten", "cascade", "unroute", "forget", "remove"})'
    BY <1>4, <2>1 DEF Under
  <2> QED  BY <1>1, <1>2, <1>3, <1>5, <2>2 DEF Between
<1> QED  BY <1>2, <1>6, <1>7, <1>8, <1>9, <1>10, OnlyHere

\* The mappings are the only tables these touch.
LEMMA StepCascade ==
    ASSUME ApartEdits, TablesInv, NEW c \in Clients, Cascade(c) \/ Unroute(c) \/ Unshow(c)
    PROVE  TablesInv'
<1>1. /\ request[c].at \in {"cascade", "unroute"} /\ request[c].at \in DeviceSteps
      /\ UNCHANGED <<devices, descriptors, attached, handle, listening, made>>
  BY DEF Cascade, Unroute, Unshow, DeviceSteps, deviceTables
<1>2. Relies(c) /\ Tables  BY <1>1, AtWork
<1>3. /\ Requests /\ OthersWait(c) /\ request'[c].at \in {"unroute", "forget"}
      /\ request'[c].id = request[c].id
      /\ request'[c] = [at |-> request'[c].at, id |-> request[c].id, adapter |-> request[c].adapter,
                        todo |-> request'[c].todo]
  <2>1. request = [b \in Clients |-> request[b]]  BY <1>2 DEF Tables
  <2>2. request[c] = [at |-> request[c].at, id |-> request[c].id, adapter |-> request[c].adapter,
                      todo |-> request[c].todo]
    BY <1>2 DEF Relies
  <2>3. CASE Cascade(c) \/ Unroute(c)
    <3>1. PICK todo : \/ request' = [request EXCEPT ![c].at = "unroute", ![c].todo = todo]
                      \/ /\ request[c].at = "unroute"
                         /\ request' = [request EXCEPT ![c].todo = todo]
      <4>1. CASE Cascade(c)
        <5>1. request' = [request EXCEPT ![c].at = "unroute", ![c].todo = Naming(request[c].id)]
          BY <4>1 DEF Cascade
        <5> QED  BY <5>1
      <4>2. CASE Unroute(c)
        <5>1. request' = [request EXCEPT ![c].todo = Tail(request[c].todo)]
          BY <4>2 DEF Unroute
        <5>2. request[c].at = "unroute"  BY <4>2 DEF Unroute
        <5> QED  BY <5>1, <5>2
      <4> QED  BY <2>3, <4>1, <4>2
    <3>2. \/ request'[c] = [request[c] EXCEPT !.at = "unroute", !.todo = todo]
          \/ request[c].at = "unroute" /\ request'[c] = [request[c] EXCEPT !.todo = todo]
      BY <2>1, <3>1
    <3>3. request'[c] = [at |-> "unroute", id |-> request[c].id, adapter |-> request[c].adapter, todo |-> todo]
      BY <2>2, <3>2
    <3>4. Requests /\ OthersWait(c)  BY <2>1, <3>1 DEF Requests, OthersWait
    <3> QED  BY <3>3, <3>4
  <2>4. CASE Unshow(c)  BY <2>4, Continued DEF Unshow
  <2> QED  BY <2>3, <2>4
<1>4. made' \in Nat /\ Relies(c)'
  BY <1>1, <1>2, <1>3 DEF Relies, Tables
<1> QED  BY <1>1, <1>3, <1>4, StepOn

LEMMA StepForget ==
    ASSUME ApartEdits, TablesInv, NEW c \in Clients, Forget(c)
    PROVE  TablesInv'
<1>0. PICK id : id = request[c].id  OBVIOUS
<1>1. /\ request[c].at = "forget" /\ request[c].at \in DeviceSteps
      /\ descriptors' = descriptors \ {id}
      /\ UNCHANGED <<devices, attached, handle, listening, made>> /\ Continue(c, "remove")
  BY <1>0 DEF Forget, DeviceSteps, DescriptorsWithout
<1>2. /\ id \in DeviceEdits[c] /\ id \in Ids /\ Relies(c) /\ Between(id) /\ Tables /\ HandlesListen
  BY <1>0, <1>1, AtWork
<1>3. /\ Requests /\ OthersWait(c) /\ request'[c].at = "remove" /\ request'[c].id = id
      /\ request'[c] = [at |-> "remove", id |-> id, adapter |-> request[c].adapter, todo |-> request'[c].todo]
  <2>1. /\ Requests /\ OthersWait(c) /\ request'[c].at = "remove" /\ request'[c].id = request[c].id
        /\ request'[c] = [at |-> "remove", id |-> request[c].id, adapter |-> request[c].adapter, todo |-> request'[c].todo]
    BY <1>1, Continued
  <2> QED  BY <1>0, <2>1
<1>4. OnlyAt(c, id)  BY <1>0, <1>1, <1>3 DEF OnlyAt, OthersWait
<1>5. Tables' /\ HandlesListen'  BY <1>1, <1>2, <1>3 DEF Tables, HandlesListen, Requests
<1>6. Relies(c)'  BY <1>0, <1>1, <1>2, <1>3 DEF Relies
<1>7. Between(id)'
  <2>1. ASSUME NEW S, "forget" \notin S, Under(id, S) PROVE Under(id, S)'
    BY <1>1, <1>3, <2>1 DEF Under, OthersWait
  <2>2. /\ Under(id, {"listen", "unlisten"}) => Under(id, {"listen", "unlisten"})'
        /\ Under(id, {"attach", "listen", "insert", "remove"})'
        /\ Under(id, {"listen", "insert", "unlisten", "cascade", "unroute", "forget", "remove"})'
    BY <1>3, <2>1 DEF Under
  <2> QED  BY <1>1, <1>2, <2>2 DEF Between
<1> QED  BY <1>2, <1>4, <1>5, <1>6, <1>7, OnlyHere

----------------------------------------------------------------------------
(* Mappings and reloads *)

LEMMA StepMapping ==
    ASSUME TablesInv, NEW c \in Clients, MappingStep(c)
    PROVE  TablesInv'
<1>1. /\ request[c].at \in {"none", "route", "show", "withdraw"} /\ request[c].at \notin DeviceSteps
      /\ UNCHANGED deviceTables
  BY DEF MappingStep, AddMapping, RemoveMapping, Route, Show, Withdraw, DeviceSteps
<1>2. \/ Done(c)
      \/ Continue(c, "show")
      \/ \E step \in {"route", "withdraw"} : \E link :
            request' = [request EXCEPT ![c] = [NoRequest EXCEPT !.at = step, !.todo = <<link>>]]
  BY DEF MappingStep, AddMapping, RemoveMapping, Route, Show, Withdraw
<1>3. /\ Requests /\ OthersWait(c) /\ request'[c].at \notin DeviceSteps
      /\ \E todo : request'[c] = [at |-> request'[c].at, id |-> request'[c].id,
                                  adapter |-> request'[c].adapter, todo |-> todo]
  <2>1. CASE Done(c)
    <3>1. Requests /\ OthersWait(c) /\ request'[c] = NoRequest  BY <2>1, Ended
    <3>2. request'[c].at = "none" /\ request'[c].id = None /\ request'[c].adapter = None
      BY <3>1 DEF NoRequest
    <3>3. request'[c] = [at |-> request'[c].at, id |-> request'[c].id, adapter |-> request'[c].adapter,
                         todo |-> <<>>]
      BY <3>1, <3>2 DEF NoRequest
    <3> QED  BY <3>1, <3>2, <3>3 DEF DeviceSteps
  <2>2. CASE Continue(c, "show")
    <3>1. /\ Requests /\ OthersWait(c) /\ request'[c].at = "show"
          /\ request'[c] = [at |-> "show", id |-> request[c].id, adapter |-> request[c].adapter,
                            todo |-> request'[c].todo]
          /\ request'[c].id = request[c].id /\ request'[c].adapter = request[c].adapter
      BY <2>2, Continued
    <3>2. request'[c] = [at |-> request'[c].at, id |-> request'[c].id, adapter |-> request'[c].adapter,
                         todo |-> request'[c].todo]
      BY <3>1
    <3> QED  BY <3>1, <3>2 DEF DeviceSteps
  <2>3. CASE \E step \in {"route", "withdraw"} : \E link :
            request' = [request EXCEPT ![c] = [NoRequest EXCEPT !.at = step, !.todo = <<link>>]]
    <3>0. PICK step \in {"route", "withdraw"} : \E link :
            request' = [request EXCEPT ![c] = [NoRequest EXCEPT !.at = step, !.todo = <<link>>]]
      BY <2>3
    <3>1. PICK link :
            request' = [request EXCEPT ![c] = [NoRequest EXCEPT !.at = step, !.todo = <<link>>]]
      BY <3>0
    <3>2. request = [b \in Clients |-> request[b]]  BY DEF TablesInv, Tables
    <3>3. request'[c] = [at |-> step, id |-> None, adapter |-> None, todo |-> <<link>>]
      <4>1. DOMAIN request = Clients  BY DEF TablesInv, Tables
      <4>2. ASSUME NEW f, NEW r, f = [request EXCEPT ![c] = r] PROVE f[c] = r  BY <4>1, <4>2
      <4>3. request'[c] = [NoRequest EXCEPT !.at = step, !.todo = <<link>>]  BY <3>1, <4>2
      <4> QED  BY <4>3, BegunIs
    <3>4. Requests /\ OthersWait(c)  BY <3>1, <3>2 DEF Requests, OthersWait
    <3>5. request'[c].at = step /\ request'[c].id = None /\ request'[c].adapter = None  BY <3>3
    <3>6. request'[c] = [at |-> request'[c].at, id |-> request'[c].id, adapter |-> request'[c].adapter,
                         todo |-> <<link>>]
      BY <3>3, <3>5
    <3> QED  BY <3>4, <3>5, <3>6 DEF DeviceSteps
  <2> QED  BY <1>2, <2>1, <2>2, <2>3
<1> QED  BY <1>1, <1>3, NoDevice DEF Requests, OthersWait

LEMMA TablesStep == ApartEdits /\ TablesInv /\ [Next]_vars => TablesInv'
<1> SUFFICES ASSUME ApartEdits, TablesInv, [Next]_vars PROVE TablesInv'  OBVIOUS
<1>1. ASSUME NEW c \in Clients, DeviceStep(c) PROVE TablesInv'
  BY <1>1, StepAddDevice, StepConnect, StepDescribe, StepAttach, StepListen, StepEnlistDelist,
     StepDetach, StepUnlisten, StepCascade, StepForget
  DEF DeviceStep
<1>2. ASSUME NEW c \in Clients, MappingStep(c) PROVE TablesInv'  BY <1>2, StepMapping
<1>3. ASSUME UNCHANGED <<deviceTables, request>> PROVE TablesInv'
  BY <1>3 DEF deviceTables, TablesInv, Tables, HandlesListen, Relies, Between, Under
<1> QED  BY <1>1, <1>2, <1>3 DEF Next, Reload, ReloadNext, vars, deviceTables

\* At rest nothing is between two tables.
LEMMA RestAgrees ==
    ASSUME TablesInv, AtRest
    PROVE  ListenersMatch /\ RegistryAgrees
<1>1. ASSUME NEW id, NEW S, "none" \notin S PROVE ~Under(id, S)
  BY <1>1 DEF AtRest, Under, NoRequest
<1>2. ASSUME NEW id \in Ids
      PROVE  /\ handle[id] = attached[id] /\ (id \in descriptors <=> id \in devices)
             /\ id \notin Virtual => (id \in devices <=> attached[id] # None)
  <2>1. /\ ~Under(id, {"listen", "unlisten"}) /\ ~Under(id, {"attach", "listen", "insert", "remove"})
        /\ ~Under(id, {"listen", "insert", "unlisten", "cascade", "unroute", "forget", "remove"})
    BY <1>1
  <2> QED  BY <2>1 DEF TablesInv, Between
<1>3. devices \subseteq Ids /\ descriptors \subseteq Ids  BY DEF TablesInv, Tables
<1>4. ListenersMatch
  <2>1. listening = {<<id, handle[id]>> : id \in {i \in Ids : handle[i] # None}}
    BY DEF TablesInv, HandlesListen
  <2> QED  BY <1>2, <2>1 DEF ListenersMatch
<1> QED  BY <1>2, <1>3, <1>4 DEF RegistryAgrees

\* register_device: "a stale one never keeps running alongside the new one";
\* deregister_device: "propagation stops deterministically the moment this
\* returns".  However many requests and reloads run at once, as long as no two
\* edit one device, the listener tasks are at rest those of the adapters the
\* Router has registered.
THEOREM NoStrayListener == ASSUME ApartEdits PROVE Spec => []ListenersMatch
<1>1. TablesInv /\ [Next]_vars => TablesInv'  BY TablesStep
<1>2. TablesInv => ListenersMatch  BY RestAgrees DEF ListenersMatch
<1> QED  BY <1>1, <1>2, TablesInit, PTL DEF Spec

\* DeviceRegistry is "the single source of truth": under the same requests the
\* devices it lists are, at rest, the ones that are described and, unless they
\* are virtual, registered with the Router.
THEOREM OneTruth == ASSUME ApartEdits PROVE Spec => []RegistryAgrees
<1>1. TablesInv /\ [Next]_vars => TablesInv'  BY TablesStep
<1>2. TablesInv => RegistryAgrees  BY RestAgrees DEF RegistryAgrees
<1> QED  BY <1>1, <1>2, TablesInit, PTL DEF Spec

-----------------------------------------------------------------------------
(***************************************************************************)
(* The lists of mappings.  What the provers need of lists: `push`,         *)
(* `remove` and `retain` change which mappings a list holds as sets do,    *)
(* and keep a list without duplicates so.                                  *)
(***************************************************************************)
On(list) == {list[i] : i \in 1..Len(list)}
Once(list) == \A i, j \in 1..Len(list) : list[i] = list[j] => i = j

\* first, as far as n.
Firsts(S, list, n, f) ==
    f = [k \in 0..n |-> IF k = 0 THEN <<>>
                        ELSE IF list[k] \in S THEN Append(f[k - 1], list[k]) ELSE f[k - 1]]

\* What holds of 0 and of each successor up to a bound holds up to the bound.
LEMMA UpTo ==
    ASSUME NEW N \in Nat, NEW A, 0 \in A, \A n \in 1..N : n - 1 \in A => n \in A
    PROVE  0..N \subseteq A
<1> SUFFICES ASSUME (0..N) \ A # {} PROVE FALSE
  OBVIOUS
<1> DEFINE bad == (0..N) \ A
<1>1. bad \subseteq Nat /\ bad # {}  OBVIOUS
<1> HIDE DEF bad
<1>2. PICK n \in bad : \A m \in bad : <<m, n>> \notin OpToRel(<, Nat)
  BY <1>1, WFMin, NatLessThanWellFounded
<1>3. \A m \in bad : ~(m < n)  BY <1>1, <1>2 DEF OpToRel
<1>4. n \in 1..N /\ n \notin A /\ n - 1 \in 0..N  BY DEF bad
<1>5. n - 1 \notin bad  BY <1>3, <1>4
<1> QED  BY <1>4, <1>5 DEF bad

\* The recursion defines a function, as far as the list goes.
LEMMA FirstsExist ==
    ASSUME NEW S, NEW list, Len(list) \in Nat
    PROVE  \E f : Firsts(S, list, Len(list), f)
<1> DEFINE A == {n \in 0..Len(list) : \E f : Firsts(S, list, n, f)}
<1>1. 0 \in A
  <2>1. Firsts(S, list, 0, [k \in 0..0 |-> <<>>])  BY DEF Firsts
  <2> QED  BY <2>1
<1>2. ASSUME NEW n \in 1..Len(list), n - 1 \in A PROVE n \in A
  <2>1. PICK f : Firsts(S, list, n - 1, f)  BY <1>2
  <2> DEFINE g == [k \in 0..n |-> IF k # n THEN f[k]
                                 ELSE IF list[n] \in S THEN Append(f[n - 1], list[n]) ELSE f[n - 1]]
  <2>2. f = [k \in 0..(n - 1) |-> IF k = 0 THEN <<>>
                                  ELSE IF list[k] \in S THEN Append(f[k - 1], list[k]) ELSE f[k - 1]]
    BY <2>1 DEF Firsts
  <2>3. ASSUME NEW k \in 0..n, k # n PROVE k \in 0..(n - 1) /\ g[k] = f[k]
    BY <2>3
  <2>4. g[n] = IF list[n] \in S THEN Append(f[n - 1], list[n]) ELSE f[n - 1]
    OBVIOUS
  <2>5. ASSUME NEW k \in 0..n
        PROVE  g[k] = IF k = 0 THEN <<>>
                      ELSE IF list[k] \in S THEN Append(g[k - 1], list[k]) ELSE g[k - 1]
    <3> HIDE DEF g
    <3>1. k # 0 => k - 1 \in 0..n /\ k - 1 # n /\ g[k - 1] = f[k - 1]  BY <2>3
    <3>2. CASE k = n  BY <2>4, <3>1, <3>2
    <3>3. CASE k # n
      <4>1. k \in 0..(n - 1) /\ g[k] = f[k]  BY <2>3, <3>3
      <4>2. f[k] = IF k = 0 THEN <<>>
                   ELSE IF list[k] \in S THEN Append(f[k - 1], list[k]) ELSE f[k - 1]
        BY <2>2, <4>1
      <4> QED  BY <3>1, <4>1, <4>2
    <3> QED  BY <3>2, <3>3
  <2>6. g = [k \in 0..n |-> IF k = 0 THEN <<>>
                            ELSE IF list[k] \in S THEN Append(g[k - 1], list[k]) ELSE g[k - 1]]
    <3>1. g = [k \in 0..n |-> g[k]]  OBVIOUS
    <3> HIDE DEF g
    <3> QED  BY <2>5, <3>1
  <2>7. Firsts(S, list, n, g)
    <3> HIDE DEF g
    <3> QED  BY <2>6 DEF Firsts
  <2> QED  BY <2>7
<1>3. 0..Len(list) \subseteq A
  <2> HIDE DEF A
  <2> QED  BY <1>1, <1>2, UpTo
<1>4. Len(list) \in A  BY <1>3
<1> QED  BY <1>4

\* So Only is where that function ends.
LEMMA OnlyIs ==
    ASSUME NEW S, NEW list, Len(list) \in Nat
    PROVE  \E f : Firsts(S, list, Len(list), f) /\ Only(S, list) = f[Len(list)]
<1> DEFINE f == CHOOSE f : Firsts(S, list, Len(list), f)
<1>1. Firsts(S, list, Len(list), f)  BY FirstsExist
<1>2. Only(S, list) = f[Len(list)]  BY DEF Only, Firsts
<1> QED  BY <1>1, <1>2

\* push: the list holds one more, and still each once if it was not there.
LEMMA Appended ==
    ASSUME NEW M, NEW q \in Seq(M), NEW m \in M
    PROVE  /\ Append(q, m) \in Seq(M) /\ On(Append(q, m)) = On(q) \cup {m}
           /\ Once(q) /\ m \notin On(q) => Once(Append(q, m))
<1> DEFINE a == Append(q, m)
<1>1. /\ a \in Seq(M) /\ Len(a) = Len(q) + 1 /\ Len(q) \in Nat
      /\ \A i \in 1..Len(q) : a[i] = q[i]
      /\ a[Len(q) + 1] = m
  BY AppendProperties, LenProperties
<1> HIDE DEF a
<1>2. /\ \A i \in 1..Len(q) : i \in 1..Len(a)
      /\ Len(q) + 1 \in 1..Len(a)
      /\ \A i \in 1..Len(a) : i \in 1..Len(q) \/ i = Len(q) + 1
  BY <1>1
<1>3. On(a) \subseteq On(q) \cup {m}  BY <1>1, <1>2 DEF On
<1>4. On(q) \cup {m} \subseteq On(a)
  <2>1. m \in On(a)  BY <1>1, <1>2 DEF On
  <2>2. \A i \in 1..Len(q) : q[i] = a[i] /\ i \in 1..Len(a)  BY <1>1, <1>2
  <2>3. On(q) \subseteq On(a)  BY <2>2 DEF On
  <2> QED  BY <2>1, <2>3
<1>5. ASSUME Once(q), m \notin On(q), NEW i \in 1..Len(a), NEW j \in 1..Len(a), a[i] = a[j]
      PROVE  i = j
  <2>1. \A k \in 1..Len(q) : a[k] = q[k] /\ a[k] # m  BY <1>1, <1>5 DEF On
  <2> QED  BY <1>1, <1>2, <1>5, <2>1 DEF Once
<1>6. Once(q) /\ m \notin On(q) => Once(a)  BY <1>5 DEF Once
<1> QED  BY <1>1, <1>3, <1>4, <1>6 DEF a

\* A list without its head holds what it held but that.
LEMMA Beheaded ==
    ASSUME NEW M, NEW q \in Seq(M), q # <<>>, Once(q)
    PROVE  /\ Tail(q) \in Seq(M) /\ Once(Tail(q)) /\ On(Tail(q)) = On(q) \ {Head(q)}
           /\ Head(q) \in On(q) /\ Head(q) \in M
<1> DEFINE t == Tail(q)
<1>1. /\ t \in Seq(M) /\ Len(t) = Len(q) - 1 /\ Head(q) = q[1] /\ Head(q) \in M
      /\ \A i \in 1..Len(t) : t[i] = q[i + 1]
      /\ Len(q) \in Nat /\ Len(q) > 0
  BY HeadTailProperties, LenProperties, EmptySeq
<1> HIDE DEF t
<1>2. /\ \A i \in 1..Len(t) : i + 1 \in 1..Len(q) /\ i + 1 # 1 /\ t[i] = q[i + 1]
      /\ \A j \in 1..Len(q) : j # 1 => j - 1 \in 1..Len(t) /\ q[j] = t[j - 1]
      /\ 1 \in 1..Len(q)
  <2>1. ASSUME NEW j \in 1..Len(q), j # 1 PROVE j - 1 \in 1..Len(t) /\ q[j] = t[j - 1]
    <3>1. j - 1 \in 1..Len(t) /\ (j - 1) + 1 = j  BY <1>1, <2>1
    <3> QED  BY <1>1, <3>1
  <2> QED  BY <1>1, <2>1
<1>3. On(t) \subseteq On(q) \ {q[1]}
  <2>1. ASSUME NEW i \in 1..Len(t) PROVE t[i] \in On(q) /\ t[i] # q[1]
    BY <1>2 DEF On, Once
  <2> QED  BY <2>1 DEF On
<1>4. On(q) \ {q[1]} \subseteq On(t)
  <2>1. ASSUME NEW j \in 1..Len(q), q[j] # q[1] PROVE q[j] \in On(t)
    <3>1. j - 1 \in 1..Len(t) /\ q[j] = t[j - 1]  BY <1>2, <2>1
    <3> QED  BY <3>1 DEF On
  <2> QED  BY <2>1 DEF On
<1>5. Once(t)
  <2>1. ASSUME NEW i \in 1..Len(t), NEW j \in 1..Len(t), t[i] = t[j] PROVE i = j
    <3>1. i + 1 = j + 1  BY <1>2, <2>1 DEF Once
    <3> QED  BY <3>1
  <2> QED  BY <2>1 DEF Once
<1>6. q[1] \in On(q)  BY <1>2 DEF On
<1> QED  BY <1>1, <1>3, <1>4, <1>5, <1>6 DEF t

\* Vec::remove at the position found: what is left is in its order, and the
\* element, which was there once, is not.
LEMMA Removed ==
    ASSUME NEW M, NEW q \in Seq(M), Once(q), NEW x
    PROVE  /\ RemoveFirst(q, x) \in Seq(M) /\ Once(RemoveFirst(q, x))
           /\ On(RemoveFirst(q, x)) = On(q) \ {x}
<1>0. Len(q) \in Nat /\ \A i \in 1..Len(q) : q[i] \in M  BY LenProperties, ElementOfSeq
<1>1. CASE ~\E i \in 1..Len(q) : q[i] = x
  <2>1. RemoveFirst(q, x) = q  BY <1>1 DEF RemoveFirst
  <2> QED  BY <1>1, <2>1 DEF On
<1>2. CASE \E i \in 1..Len(q) : q[i] = x
  <2>1. PICK i \in 1..Len(q) : q[i] = x  BY <1>2
  <2>2. {j \in 1..Len(q) : q[j] = x} = {i}  BY <2>1 DEF Once
  <2>3. Min({i}) = i  BY <1>0 DEF Min
  <2>4. SelectInSeq(q, LAMBDA v : v = x) = i  BY <2>2, <2>3 DEF SelectInSeq
  <2> DEFINE b == SubSeq(q, 1, i - 1)
             e == SubSeq(q, i + 1, Len(q))
             r == b \o e
  <2>5. RemoveFirst(q, x) = r  BY <1>2, <2>4 DEF RemoveFirst, RemoveAt
  <2>6. b \in Seq(M) /\ Len(b) = i - 1 /\ \A j \in 1..(i - 1) : b[j] = q[j]
    <3>1. i - 1 \in Int /\ 1 \in Int /\ \A j \in 1..(i - 1) : q[j] \in M  BY <1>0
    <3>2. /\ b \in Seq(M) /\ Len(b) = IF 1 <= i - 1 THEN i - 1 - 1 + 1 ELSE 0
          /\ \A j \in 1..(i - 1 - 1 + 1) : b[j] = q[1 + j - 1]
      BY <3>1, SubSeqProperties
    <3> HIDE DEF b
    <3>3. Len(b) = i - 1  BY <1>0, <3>2
    <3>4. \A j \in 1..(i - 1) : 1 + j - 1 = j /\ j \in 1..(i - 1 - 1 + 1)  BY <1>0
    <3> QED  BY <3>2, <3>3, <3>4
  <2>7. e \in Seq(M) /\ Len(e) = Len(q) - i /\ \A j \in 1..(Len(q) - i) : e[j] = q[j + i]
    <3>1. i + 1 \in Int /\ Len(q) \in Int /\ \A j \in (i + 1)..Len(q) : q[j] \in M  BY <1>0
    <3>2. /\ e \in Seq(M) /\ Len(e) = IF i + 1 <= Len(q) THEN Len(q) - (i + 1) + 1 ELSE 0
          /\ \A j \in 1..(Len(q) - (i + 1) + 1) : e[j] = q[(i + 1) + j - 1]
      BY <3>1, SubSeqProperties
    <3> HIDE DEF e
    <3>3. Len(e) = Len(q) - i  BY <1>0, <3>2
    <3>4. \A j \in 1..(Len(q) - i) : (i + 1) + j - 1 = j + i /\ j \in 1..(Len(q) - (i + 1) + 1)  BY <1>0
    <3> QED  BY <3>2, <3>3, <3>4
  <2> HIDE DEF b, e
  <2>8. /\ r \in Seq(M) /\ Len(r) = Len(b) + Len(e)
        /\ \A j \in 1..Len(b) + Len(e) : r[j] = IF j <= Len(b) THEN b[j] ELSE e[j - Len(b)]
    BY <2>6, <2>7, ConcatProperties
  <2> HIDE DEF r
  <2> DEFINE from(j) == IF j < i THEN j ELSE j + 1
  <2>9. Len(r) = Len(q) - 1  BY <1>0, <2>6, <2>7, <2>8
  <2>10. ASSUME NEW j \in 1..Len(r) PROVE from(j) \in 1..Len(q) /\ from(j) # i /\ r[j] = q[from(j)]
    <3>1. from(j) \in 1..Len(q) /\ from(j) # i  BY <1>0, <2>9
    <3>2. CASE j < i
      <4>1. j \in 1..(i - 1) /\ j <= Len(b) /\ j \in 1..Len(b) + Len(e)  BY <1>0, <2>6, <2>8, <3>2
      <4> QED  BY <2>6, <2>8, <3>1, <3>2, <4>1
    <3>3. CASE ~(j < i)
      <4>1. /\ ~(j <= Len(b)) /\ j - Len(b) \in 1..(Len(q) - i) /\ (j - Len(b)) + i = j + 1
            /\ j \in 1..Len(b) + Len(e)
        BY <1>0, <2>6, <2>8, <2>9, <3>3
      <4>2. r[j] = e[j - Len(b)]  BY <2>8, <4>1
      <4> QED  BY <2>7, <3>1, <3>3, <4>1, <4>2
    <3> QED  BY <3>2, <3>3
  <2>11. ASSUME NEW k \in 1..Len(q), k # i PROVE \E j \in 1..Len(r) : from(j) = k
    <3>1. CASE k < i
      <4>1. k \in 1..Len(r) /\ from(k) = k  BY <1>0, <2>9, <3>1
      <4> QED  BY <4>1
    <3>2. CASE ~(k < i)
      <4>1. k - 1 \in 1..Len(r) /\ from(k - 1) = k  BY <1>0, <2>9, <2>11, <3>2
      <4> QED  BY <4>1
    <3> QED  BY <3>1, <3>2
  <2>12. \A j, k \in 1..Len(r) : from(j) = from(k) => j = k  BY <1>0, <2>9
  <2> HIDE DEF from
  <2>13. Once(r)
    <3>1. ASSUME NEW j \in 1..Len(r), NEW k \in 1..Len(r), r[j] = r[k] PROVE j = k
      <4>1. from(j) = from(k)  BY <2>10, <3>1 DEF Once
      <4> QED  BY <2>12, <4>1
    <3> QED  BY <3>1 DEF Once
  <2>14. On(r) \subseteq On(q) \ {x}
    <3>1. ASSUME NEW j \in 1..Len(r) PROVE r[j] \in On(q) /\ r[j] # x
      BY <2>1, <2>10 DEF On, Once
    <3> QED  BY <3>1 DEF On
  <2>15. On(q) \ {x} \subseteq On(r)
    <3>1. ASSUME NEW k \in 1..Len(q), q[k] # x PROVE q[k] \in On(r)
      <4>1. k # i  BY <2>1, <3>1
      <4>2. PICK j \in 1..Len(r) : from(j) = k  BY <2>11, <4>1
      <4>3. q[k] = r[j]  BY <2>10, <4>2
      <4> QED  BY <4>3 DEF On
    <3> QED  BY <3>1 DEF On
  <2> QED  BY <2>5, <2>8, <2>13, <2>14, <2>15
<1> QED  BY <1>1, <1>2

\* Vec::remove at the position found, if it was: what is left is a list of the same.
LEMMA RemovedIs ==
    ASSUME NEW M, NEW q \in Seq(M), NEW x
    PROVE  RemoveFirst(q, x) \in Seq(M)
<1>0. Len(q) \in Nat /\ \A i \in 1..Len(q) : q[i] \in M  BY LenProperties, ElementOfSeq
<1> DEFINE places == {j \in 1..Len(q) : q[j] = x}
<1>1. CASE places = {}
  <2>1. RemoveFirst(q, x) = q  BY <1>1 DEF RemoveFirst
  <2> QED  BY <2>1
<1>2. CASE places # {}
  <2>1. \E i \in places : \A j \in places : i <= j
    <3>1. places \subseteq Nat  BY <1>0
    <3> HIDE DEF places
    <3>2. PICK i \in places : \A j \in places : <<j, i>> \notin OpToRel(<, Nat)
      BY <1>2, <3>1, WFMin, NatLessThanWellFounded
    <3>3. \A j \in places : ~(j < i)  BY <3>1, <3>2 DEF OpToRel
    <3>4. \A j \in places : i <= j  BY <3>1, <3>3
    <3> QED  BY <3>4
  <2> DEFINE i == Min(places)
  <2>2. i \in places  BY <2>1 DEF Min
  <2>3. SelectInSeq(q, LAMBDA v : v = x) = i  BY <1>2 DEF SelectInSeq
  <2>4. i \in 1..Len(q)  BY <2>2
  <2>5. RemoveFirst(q, x) = SubSeq(q, 1, i - 1) \o SubSeq(q, i + 1, Len(q))
    <3>1. \E j \in 1..Len(q) : q[j] = x  BY <1>2
    <3> HIDE DEF i, places
    <3> QED  BY <2>3, <3>1 DEF RemoveFirst, RemoveAt
  <2> HIDE DEF i, places
  <2>6. SubSeq(q, 1, i - 1) \in Seq(M)
    <3>1. i - 1 \in Int /\ 1 \in Int /\ \A j \in 1..(i - 1) : q[j] \in M  BY <1>0, <2>4
    <3> QED  BY <3>1, SubSeqProperties
  <2>7. SubSeq(q, i + 1, Len(q)) \in Seq(M)
    <3>1. i + 1 \in Int /\ Len(q) \in Int /\ \A j \in (i + 1)..Len(q) : q[j] \in M  BY <1>0, <2>4
    <3> QED  BY <3>1, SubSeqProperties
  <2> QED  BY <2>5, <2>6, <2>7, ConcatProperties
<1> QED  BY <1>1, <1>2

\* retain: of the list what is in S, each as often as before.
LEMMA OnlyThose ==
    ASSUME NEW M, NEW q \in Seq(M), NEW S
    PROVE  /\ Only(S, q) \in Seq(M) /\ On(Only(S, q)) = On(q) \cap S
           /\ Once(q) => Once(Only(S, q))
<1>0. Len(q) \in Nat /\ \A i \in 1..Len(q) : q[i] \in M  BY LenProperties, ElementOfSeq
<1>1. PICK f : Firsts(S, q, Len(q), f) /\ Only(S, q) = f[Len(q)]  BY <1>0, OnlyIs
<1> DEFINE upTo(n) == {q[i] : i \in 1..n}
           A == {n \in 0..Len(q) : /\ f[n] \in Seq(M) /\ On(f[n]) = upTo(n) \cap S
                                   /\ Once(q) => Once(f[n])}
<1>2. \A n \in 0..Len(q) : f[n] = IF n = 0 THEN <<>>
                                  ELSE IF q[n] \in S THEN Append(f[n - 1], q[n]) ELSE f[n - 1]
  <2>1. f = [n \in 0..Len(q) |-> IF n = 0 THEN <<>>
                                 ELSE IF q[n] \in S THEN Append(f[n - 1], q[n]) ELSE f[n - 1]]
    BY <1>1 DEF Firsts
  <2> QED  BY <2>1
<1>3. 0 \in A
  <2>1. f[0] = <<>> /\ 0 \in 0..Len(q)  BY <1>0, <1>2
  <2>2. Len(<<>>) = 0 /\ 1..0 = {} /\ <<>> \in Seq(M)  OBVIOUS
  <2>3. On(<<>>) = {} /\ Once(<<>>)  BY <2>2 DEF On, Once
  <2>4. upTo(0) = {}  OBVIOUS
  <2> HIDE DEF upTo
  <2> QED  BY <2>1, <2>2, <2>3, <2>4
<1>4. ASSUME NEW n \in 1..Len(q), n - 1 \in A PROVE n \in A
  <2>1. n \in 0..Len(q) /\ n # 0 /\ q[n] \in M /\ n - 1 \in 0..Len(q)  BY <1>0
  <2>2. f[n - 1] \in Seq(M) /\ On(f[n - 1]) = upTo(n - 1) \cap S /\ (Once(q) => Once(f[n - 1]))
    BY <1>4
  <2>3. upTo(n) = upTo(n - 1) \cup {q[n]}
    <3>1. n \in 1..n /\ (\A i \in 1..(n - 1) : i \in 1..n) /\ \A i \in 1..n : i \in 1..(n - 1) \/ i = n
      BY <1>0
    <3> QED  BY <3>1
  <2>4. Once(q) => q[n] \notin upTo(n - 1)
    <3>1. \A i \in 1..(n - 1) : i \in 1..Len(q) /\ i # n  BY <1>0
    <3> QED  BY <3>1 DEF Once
  <2>5. f[n] = IF q[n] \in S THEN Append(f[n - 1], q[n]) ELSE f[n - 1]  BY <1>2, <2>1
  <2> HIDE DEF upTo
  <2>6. CASE q[n] \in S
    <3>1. /\ f[n] \in Seq(M) /\ On(f[n]) = On(f[n - 1]) \cup {q[n]}
          /\ Once(f[n - 1]) /\ q[n] \notin On(f[n - 1]) => Once(f[n])
      BY <2>1, <2>2, <2>5, <2>6, Appended
    <3> QED  BY <2>1, <2>2, <2>3, <2>4, <2>6, <3>1
  <2>7. CASE q[n] \notin S  BY <2>1, <2>2, <2>3, <2>5, <2>7
  <2> QED  BY <2>6, <2>7
<1>5. Len(q) \in A
  <2> HIDE DEF A
  <2>1. 0..Len(q) \subseteq A  BY <1>0, <1>3, <1>4, UpTo
  <2> QED  BY <1>0, <2>1
<1>6. upTo(Len(q)) = On(q)  BY DEF On
<1> QED  BY <1>1, <1>5, <1>6

(***************************************************************************)
(* What is shown and what the Router mirrors.  Between its locks a request *)
(* leaves the two lists apart: the invariant says by which mappings.       *)
(***************************************************************************)
\* Only c adds and removes, and the config file is not edited.
Alone(c) == Reloads = {} /\ \A b \in Clients : b # c => DeviceEdits[b] = {} /\ LinkEdits[b] = {}
OneEditor == \E c \in Clients : Alone(c)

\* Both devices of the mapping are listed.
Stands(link) == link[1] \in devices /\ link[2] \in devices

\* Each list holds each mapping once, and only of devices that are listed.
Lists ==
    /\ reload = <<>> /\ shown \in Seq(Links) /\ routed \in Seq(Links)
    /\ Once(shown) /\ Once(routed)
    /\ \A link \in On(shown) \cup On(routed) : Stands(link)

\* How the lists differ at each step of the request.
Editing(c) ==
    LET at == request[c].at
        todo == request[c].todo
        named == {link \in Links : Names(request[c].id, link)}
    IN /\ at \in {"route", "show", "withdraw"} =>
            \E link \in Links :
                /\ todo = <<link>> /\ Stands(link) /\ link \notin On(shown)
                /\ at # "route" => On(routed) = On(shown) \cup {link}
       /\ at = "unroute" =>
            /\ todo \in Seq(Links) /\ Once(todo) /\ On(todo) = On(routed) \cap named
            /\ On(routed) \ named = On(shown) \ named
       /\ at \in {"forget", "remove"} => On(shown) \cap named = {}
       /\ at \notin {"show", "withdraw", "unroute"} => On(routed) = On(shown)

\* The invariant of the mappings while c alone edits.
ListsInv(c) ==
    /\ \A b \in Clients : b # c => request[b].at = "none"
    /\ Lists /\ Editing(c)

\* The daemon starts without mappings and without requests.
LEMMA ListsInit ==
    ASSUME NEW c \in Clients, Init
    PROVE  ListsInv(c)
<1>1. \A b \in Clients : request[b].at = "none"  BY DEF Init, NoRequest
<1>2. /\ reload = <<>> /\ shown = <<>> /\ routed = <<>>
      /\ Len(<<>>) = 0 /\ 1..0 = {} /\ <<>> \in Seq(Links)
  BY DEF Init
<1>3. On(<<>>) = {} /\ Once(<<>>)  BY <1>2 DEF On, Once
<1> QED  BY <1>1, <1>2, <1>3 DEF ListsInv, Lists, Editing

\* The steps at which the lists, or what they rest on, change.
Critical == {"unroute", "forget", "remove", "route", "show", "withdraw"}

\* A step that leaves the mappings alone and does not touch what they name.
LEMMA Elsewhere ==
    ASSUME NEW c \in Clients, ListsInv(c), UNCHANGED <<shown, routed, reload>>, OthersWait(c),
           request[c].at \notin Critical, request'[c].at \notin Critical,
           devices \subseteq devices'
    PROVE  ListsInv(c)'
<1>1. Lists'  BY DEF ListsInv, Lists, Once, On, Stands
<1>2. Editing(c)'  BY DEF ListsInv, Editing, On, Critical
<1> QED  BY <1>1, <1>2 DEF ListsInv, OthersWait

\* A device is added, or goes, as far as its listener.
LEMMA DeviceElsewhere ==
    ASSUME NEW c \in Clients, TablesInv, ListsInv(c),
           \/ \E id \in DeviceEdits[c] : AddDevice(c, id) \/ RemoveDevice(c, id)
           \/ Connect(c) \/ Describe(c) \/ Attach(c) \/ Listen(c) \/ Enlist(c) \/ Detach(c) \/ Unlisten(c)
    PROVE  ListsInv(c)'
<1>1. UNCHANGED <<shown, routed, reload>> /\ devices \subseteq devices' /\ request[c].at \notin Critical
  BY DEF AddDevice, RemoveDevice, Connect, Describe, Attach, Listen, Enlist, Detach, Unlisten,
         Critical, mappingTables, deviceTables
<1>2. OthersWait(c) /\ request'[c].at \notin Critical
  <2>1. ASSUME NEW id, AddDevice(c, id) \/ RemoveDevice(c, id)
        PROVE  OthersWait(c) /\ request'[c].at \notin Critical
    <3>1. PICK at \in {"describe", "connect", "cascade", "detach"} :
              request' = [request EXCEPT ![c] = [NoRequest EXCEPT !.id = id, !.at = at]]
      BY <2>1 DEF AddDevice, RemoveDevice
    <3> QED  BY <3>1, Begun DEF Critical
  <2>2. ASSUME Connect(c) PROVE OthersWait(c) /\ request'[c].at \notin Critical
    <3>1. CASE Done(c)  BY <3>1, Ended DEF Critical
    <3>2. CASE request' = [request EXCEPT ![c].at = "describe", ![c].adapter = made + 1]
      <4>1. request = [b \in Clients |-> request[b]]  BY DEF TablesInv, Tables
      <4>2. request[c] = [at |-> request[c].at, id |-> request[c].id,
                          adapter |-> request[c].adapter, todo |-> request[c].todo]
        BY DEF TablesInv, Relies
      <4>3. request'[c] = [request[c] EXCEPT !.at = "describe", !.adapter = made + 1]  BY <3>2, <4>1
      <4>4. request'[c].at = "describe"  BY <4>2, <4>3
      <4> QED  BY <3>2, <4>1, <4>4 DEF OthersWait, Critical
    <3> QED  BY <2>2, <3>1, <3>2 DEF Connect
  <2>3. ASSUME Enlist(c) PROVE OthersWait(c) /\ request'[c].at \notin Critical
    BY <2>3, Ended DEF Enlist, Critical
  <2>4. ASSUME Describe(c) \/ Attach(c) \/ Listen(c) \/ Detach(c) \/ Unlisten(c)
        PROVE  OthersWait(c) /\ request'[c].at \notin Critical
    <3>1. PICK step \in {"attach", "insert", "listen", "cascade", "unlisten"} : Continue(c, step)
      BY <2>4 DEF Describe, Attach, Listen, Detach, Unlisten, AfterDescribe
    <3> QED  BY <3>1, Continued DEF Critical
  <2> QED  BY <2>1, <2>2, <2>3, <2>4
<1> QED  BY <1>1, <1>2, Elsewhere

\* What a request is about after a step that says what it has still to do.
LEMMA ToDo ==
    ASSUME TablesInv, NEW c \in Clients, NEW at, NEW todo,
           \/ request' = [request EXCEPT ![c].at = at, ![c].todo = todo]
           \/ request[c].at = at /\ request' = [request EXCEPT ![c].todo = todo]
    PROVE  OthersWait(c) /\ request'[c].at = at /\ request'[c].todo = todo /\ request'[c].id = request[c].id
<1>1. request = [b \in Clients |-> request[b]]  BY DEF TablesInv, Tables
<1>2. request[c] = [at |-> request[c].at, id |-> request[c].id,
                    adapter |-> request[c].adapter, todo |-> request[c].todo]
  BY DEF TablesInv, Relies
<1>3. \/ request'[c] = [request[c] EXCEPT !.at = at, !.todo = todo]
      \/ request[c].at = at /\ request'[c] = [request[c] EXCEPT !.todo = todo]
  BY <1>1
<1>4. request'[c] = [at |-> at, id |-> request[c].id, adapter |-> request[c].adapter, todo |-> todo]
  BY <1>2, <1>3
<1>5. OthersWait(c)  BY <1>1 DEF OthersWait
<1> QED  BY <1>4, <1>5

\* remove_device reads which mappings name the device: those it will remove.
LEMMA CascadeLists ==
    ASSUME NEW c \in Clients, TablesInv, ListsInv(c), Cascade(c)
    PROVE  ListsInv(c)'
<1> DEFINE named == {link \in Links : Names(request[c].id, link)}
<1>1. /\ request[c].at = "cascade" /\ UNCHANGED <<shown, routed, reload, devices>>
      /\ request' = [request EXCEPT ![c].at = "unroute", ![c].todo = Only(named, routed)]
  BY DEF Cascade, Naming, mappingTables, deviceTables
<1>2. Lists /\ On(routed) = On(shown)  BY <1>1 DEF ListsInv, Editing
<1>3. /\ Only(named, routed) \in Seq(Links) /\ Once(Only(named, routed))
      /\ On(Only(named, routed)) = On(routed) \cap named
  BY <1>2, OnlyThose DEF Lists
<1>4. /\ OthersWait(c) /\ request'[c].at = "unroute" /\ request'[c].todo = Only(named, routed)
      /\ request'[c].id = request[c].id
  <2> HIDE DEF named
  <2> QED  BY <1>1, ToDo
<1>5. Lists'  BY <1>1, <1>2 DEF Lists, Once, On, Stands
<1>6. On(routed') = On(routed) /\ On(shown') = On(shown)  BY <1>1
<1>7. Editing(c)'  BY <1>1, <1>2, <1>3, <1>4, <1>6 DEF Editing
<1> QED  BY <1>4, <1>5, <1>7 DEF ListsInv, OthersWait

\* remove_device takes them from the Router one at a time; the others stay.
LEMMA UnrouteLists ==
    ASSUME NEW c \in Clients, TablesInv, ListsInv(c), Unroute(c)
    PROVE  ListsInv(c)'
<1> DEFINE named == {link \in Links : Names(request[c].id, link)}
           todo == request[c].todo
<1>1. /\ request[c].at = "unroute" /\ todo # <<>> /\ UNCHANGED <<shown, reload, devices>>
      /\ routed' = RemoveFirst(routed, Head(todo))
      /\ request' = [request EXCEPT ![c].todo = Tail(todo)]
  BY DEF Unroute, deviceTables
<1>2. /\ Lists /\ todo \in Seq(Links) /\ Once(todo) /\ On(todo) = On(routed) \cap named
      /\ On(routed) \ named = On(shown) \ named
  BY <1>1 DEF ListsInv, Editing
<1>3. /\ OthersWait(c) /\ request'[c].at = "unroute" /\ request'[c].todo = Tail(todo)
      /\ request'[c].id = request[c].id
  <2> HIDE DEF todo
  <2> QED  BY <1>1, ToDo
<1>4. /\ Tail(todo) \in Seq(Links) /\ Once(Tail(todo)) /\ On(Tail(todo)) = On(todo) \ {Head(todo)}
      /\ Head(todo) \in On(todo)
  BY <1>1, <1>2, Beheaded
<1>5. routed' \in Seq(Links) /\ Once(routed') /\ On(routed') = On(routed) \ {Head(todo)}
  BY <1>1, <1>2, Removed DEF Lists
<1> HIDE DEF todo
<1>6. shown' = shown /\ On(shown') = On(shown) /\ Once(shown')  BY <1>1, <1>2 DEF Lists, Once
<1>7. Lists'  BY <1>1, <1>2, <1>5, <1>6 DEF Lists, Stands
<1>8. Editing(c)'  BY <1>2, <1>3, <1>4, <1>5, <1>6 DEF Editing
<1> QED  BY <1>3, <1>7, <1>8 DEF ListsInv, OthersWait

\* It drops them from the shown list: then the lists agree again.
LEMMA UnshowLists ==
    ASSUME NEW c \in Clients, TablesInv, ListsInv(c), Unshow(c)
    PROVE  ListsInv(c)'
<1> DEFINE named == {link \in Links : Names(request[c].id, link)}
           rest == {link \in Links : ~Names(request[c].id, link)}
<1>1. /\ request[c].at = "unroute" /\ request[c].todo = <<>> /\ UNCHANGED <<routed, reload, devices>>
      /\ shown' = Only(rest, shown) /\ Continue(c, "forget")
  BY DEF Unshow, deviceTables
<1>2. Lists /\ On(<<>>) = On(routed) \cap named /\ On(routed) \ named = On(shown) \ named
  BY <1>1 DEF ListsInv, Editing
<1>3. OthersWait(c) /\ request'[c].at = "forget" /\ request'[c].id = request[c].id
  BY <1>1, Continued
<1>4. shown' \in Seq(Links) /\ Once(shown') /\ On(shown') = On(shown) \cap rest
  BY <1>1, <1>2, OnlyThose DEF Lists
<1>5. On(<<>>) = {}
  <2>1. Len(<<>>) = 0 /\ 1..0 = {}  OBVIOUS
  <2> QED  BY <2>1 DEF On
<1>6. On(shown) \subseteq Links /\ On(routed) \subseteq Links  BY <1>2, ElementOfSeq DEF Lists, On
<1>7. On(shown') = On(shown) \ named  BY <1>4, <1>6
<1>8. On(routed) = On(shown') /\ On(shown') \cap named = {}  BY <1>2, <1>5, <1>7
<1>9. Lists'
  <2>1. On(shown') \subseteq On(shown) /\ On(routed') = On(routed) /\ Once(routed')  BY <1>1, <1>2, <1>4 DEF Lists, Once
  <2> QED  BY <1>1, <1>2, <1>4, <2>1 DEF Lists, Stands
<1>10. Editing(c)'  BY <1>1, <1>3, <1>8 DEF Editing
<1> QED  BY <1>3, <1>9, <1>10 DEF ListsInv, OthersWait

\* The device is forgotten only when no mapping names it.
LEMMA ForgetLists ==
    ASSUME NEW c \in Clients, TablesInv, ListsInv(c), Forget(c) \/ Delist(c)
    PROVE  ListsInv(c)'
<1>1. UNCHANGED <<shown, routed, reload>> /\ On(shown') = On(shown) /\ On(routed') = On(routed)
  BY DEF Forget, Delist, mappingTables
<1>2. /\ request[c].at \in {"forget", "remove"}
      /\ Lists /\ On(routed) = On(shown)
      /\ \A link \in Links : Names(request[c].id, link) => link \notin On(shown)
  BY DEF ListsInv, Editing, Forget, Delist
<1>3. CASE Forget(c)
  <2>1. Continue(c, "remove") /\ devices' = devices  BY <1>3 DEF Forget
  <2>2. OthersWait(c) /\ request'[c].at = "remove" /\ request'[c].id = request[c].id
    BY <2>1, Continued
  <2>3. Lists'  BY <1>1, <1>2, <2>1 DEF Lists, Once, Stands
  <2>4. Editing(c)'  BY <1>1, <1>2, <2>2 DEF Editing
  <2> QED  BY <2>2, <2>3, <2>4 DEF ListsInv, OthersWait
<1>4. CASE Delist(c)
  <2>1. Done(c) /\ devices' = devices \ {request[c].id}  BY <1>4 DEF Delist
  <2>2. OthersWait(c) /\ request'[c].at = "none"  BY <2>1, Ended
  <2>3. \A link \in On(shown) : link \in Links  BY <1>2, ElementOfSeq DEF Lists, On
  <2>4. \A link \in On(shown) : link[1] # request[c].id /\ link[2] # request[c].id
    BY <1>2, <2>3 DEF Names
  <2>5. Lists'  BY <1>1, <1>2, <2>1, <2>4 DEF Lists, Once, Stands
  <2>6. Editing(c)'  BY <1>1, <1>2, <2>2 DEF Editing
  <2> QED  BY <2>2, <2>5, <2>6 DEF ListsInv, OthersWait
<1> QED  BY <1>3, <1>4

\* A request about a mapping begins.
LEMMA LinkBegun ==
    ASSUME TablesInv, NEW c \in Clients, NEW at, NEW link,
           request' = [request EXCEPT ![c] = [NoRequest EXCEPT !.at = at, !.todo = <<link>>]]
    PROVE  OthersWait(c) /\ request'[c].at = at /\ request'[c].todo = <<link>>
<1>1. request = [b \in Clients |-> request[b]]  BY DEF TablesInv, Tables
<1>2. request'[c] = [NoRequest EXCEPT !.at = at, !.todo = <<link>>]  BY <1>1
<1>3. ASSUME NEW e, NEW f
      PROVE  [[at |-> "none", id |-> None, adapter |-> None, todo |-> e] EXCEPT !.at = at, !.todo = f]
               = [at |-> at, id |-> None, adapter |-> None, todo |-> f]
  <2>1. [[at |-> "none", id |-> None, adapter |-> None, todo |-> e] EXCEPT !.at = at]
          = [at |-> at, id |-> None, adapter |-> None, todo |-> e]
    OBVIOUS
  <2>2. [[at |-> at, id |-> None, adapter |-> None, todo |-> e] EXCEPT !.todo = f]
          = [at |-> at, id |-> None, adapter |-> None, todo |-> f]
    OBVIOUS
  <2> QED  BY <2>1, <2>2
<1>4. request'[c] = [at |-> at, id |-> None, adapter |-> None, todo |-> <<link>>]
  BY <1>2, <1>3 DEF NoRequest
<1>5. OthersWait(c)  BY <1>1 DEF OthersWait
<1> QED  BY <1>4, <1>5

\* add_mapping finds both devices and no mapping that is the same.
LEMMA AddMappingLists ==
    ASSUME NEW c \in Clients, TablesInv, ListsInv(c), NEW link \in Links, AddMapping(c, link)
    PROVE  ListsInv(c)'
<1>1. /\ request[c].at = "none" /\ Stands(link) /\ ~AlreadyShown(link)
      /\ request' = [request EXCEPT ![c] = [NoRequest EXCEPT !.at = "route", !.todo = <<link>>]]
      /\ UNCHANGED <<shown, routed, reload, devices>>
  BY DEF AddMapping, Stands, mappingTables, deviceTables
<1>2. Lists /\ On(routed) = On(shown)  BY <1>1 DEF ListsInv, Editing
<1>3. link \notin On(shown)  BY <1>1, <1>2 DEF AlreadyShown, On, Lists
<1>4. OthersWait(c) /\ request'[c].at = "route" /\ request'[c].todo = <<link>>  BY <1>1, LinkBegun
<1>5. Lists'  BY <1>1, <1>2 DEF Lists, Once, On, Stands
<1>6. On(routed') = On(routed) /\ On(shown') = On(shown) /\ Stands(link)'  BY <1>1 DEF Stands
<1>7. Editing(c)'  BY <1>2, <1>3, <1>4, <1>6 DEF Editing
<1> QED  BY <1>4, <1>5, <1>7 DEF ListsInv, OthersWait

\* remove_mapping takes the mapping from the shown list first.
LEMMA RemoveMappingLists ==
    ASSUME NEW c \in Clients, TablesInv, ListsInv(c), NEW link \in Links, RemoveMapping(c, link)
    PROVE  ListsInv(c)'
<1>1. /\ request[c].at = "none" /\ AlreadyShown(link) /\ shown' = RemoveFirst(shown, link)
      /\ request' = [request EXCEPT ![c] = [NoRequest EXCEPT !.at = "withdraw", !.todo = <<link>>]]
      /\ UNCHANGED <<routed, reload, devices>>
  BY DEF RemoveMapping, mappingTables, deviceTables
<1>2. Lists /\ On(routed) = On(shown)  BY <1>1 DEF ListsInv, Editing
<1>3. link \in On(shown) /\ Stands(link)  BY <1>1, <1>2 DEF AlreadyShown, On, Lists
<1>4. OthersWait(c) /\ request'[c].at = "withdraw" /\ request'[c].todo = <<link>>  BY <1>1, LinkBegun
<1>5. shown' \in Seq(Links) /\ Once(shown') /\ On(shown') = On(shown) \ {link}
  BY <1>1, <1>2, Removed DEF Lists
<1>6. On(routed') = On(routed) /\ Once(routed') /\ Stands(link)'  BY <1>1, <1>2, <1>3 DEF Stands, Lists, Once
<1>7. Lists'  BY <1>1, <1>2, <1>5, <1>6 DEF Lists, Stands
<1>8. Editing(c)'  BY <1>2, <1>3, <1>4, <1>5, <1>6 DEF Editing
<1> QED  BY <1>4, <1>7, <1>8 DEF ListsInv, OthersWait

\* Outside the last steps of adding and removing a device, a device that is
\* listed is described.
LEMMA StandingResolves ==
    ASSUME TablesInv, NEW c \in Clients, ListsInv(c), NEW link, Stands(link),
           request[c].at \in {"route", "withdraw"}
    PROVE  Resolves(link)
<1>1. ASSUME NEW id \in devices PROVE id \in descriptors
  <2>1. id \in Ids  BY <1>1 DEF TablesInv, Tables
  <2>2. ~Under(id, {"attach", "listen", "insert", "remove"})  BY DEF Under, ListsInv
  <2> QED  BY <1>1, <2>1, <2>2 DEF TablesInv, Between
<1> QED  BY <1>1 DEF Resolves, Stands

\* The Router gets the mapping before the list shows it.
LEMMA RouteLists ==
    ASSUME NEW c \in Clients, TablesInv, ListsInv(c), Route(c)
    PROVE  ListsInv(c)'
<1>1. request[c].at = "route" /\ UNCHANGED <<shown, reload, devices>>  BY DEF Route, deviceTables
<1>2. PICK link \in Links : request[c].todo = <<link>> /\ Stands(link) /\ link \notin On(shown)
  BY <1>1 DEF ListsInv, Editing
<1>3. Lists /\ On(routed) = On(shown)  BY <1>1 DEF ListsInv, Editing
<1>4. Head(request[c].todo) = link  BY <1>2
<1>5. routed' = Append(routed, link) /\ Continue(c, "show")
  BY <1>1, <1>2, <1>4, StandingResolves DEF Route
<1>6. OthersWait(c) /\ request'[c].at = "show" /\ request'[c].todo = <<link>>
  BY <1>2, <1>5, Continued
<1>7. routed' \in Seq(Links) /\ On(routed') = On(routed) \cup {link} /\ Once(routed')
  BY <1>2, <1>3, <1>5, Appended DEF Lists
<1>8. On(shown') = On(shown) /\ Once(shown') /\ Stands(link)'  BY <1>1, <1>2, <1>3 DEF Stands, Lists, Once
<1>9. Lists'  BY <1>1, <1>2, <1>3, <1>7, <1>8 DEF Lists, Stands
<1>10. Editing(c)'  BY <1>2, <1>3, <1>6, <1>7, <1>8 DEF Editing
<1> QED  BY <1>6, <1>9, <1>10 DEF ListsInv, OthersWait

\* The list shows it: the lists agree again.
LEMMA ShowLists ==
    ASSUME NEW c \in Clients, TablesInv, ListsInv(c), Show(c)
    PROVE  ListsInv(c)'
<1>1. request[c].at = "show" /\ Done(c) /\ UNCHANGED <<routed, reload, devices>>  BY DEF Show, deviceTables
<1>2. PICK link \in Links : /\ request[c].todo = <<link>> /\ Stands(link) /\ link \notin On(shown)
                            /\ On(routed) = On(shown) \cup {link}
  BY <1>1 DEF ListsInv, Editing
<1>3. Lists  BY DEF ListsInv
<1>4. shown' = Append(shown, link)  BY <1>2 DEF Show
<1>5. OthersWait(c) /\ request'[c].at = "none"  BY <1>1, Ended
<1>6. shown' \in Seq(Links) /\ On(shown') = On(shown) \cup {link} /\ Once(shown')
  BY <1>2, <1>3, <1>4, Appended DEF Lists
<1>7. On(routed') = On(routed) /\ Once(routed')  BY <1>1, <1>3 DEF Lists, Once
<1>8. Lists'  BY <1>1, <1>2, <1>3, <1>6, <1>7 DEF Lists, Stands
<1>9. Editing(c)'  BY <1>2, <1>5, <1>6, <1>7 DEF Editing
<1> QED  BY <1>5, <1>8, <1>9 DEF ListsInv, OthersWait

\* The Router loses the mapping that is no longer shown.
LEMMA WithdrawLists ==
    ASSUME NEW c \in Clients, TablesInv, ListsInv(c), Withdraw(c)
    PROVE  ListsInv(c)'
<1>1. /\ request[c].at = "withdraw" /\ Done(c) /\ UNCHANGED <<shown, reload, devices>>
      /\ routed' = Withdrawn(Head(request[c].todo))
  BY DEF Withdraw, deviceTables
<1>2. PICK link \in Links : /\ request[c].todo = <<link>> /\ Stands(link) /\ link \notin On(shown)
                            /\ On(routed) = On(shown) \cup {link}
  BY <1>1 DEF ListsInv, Editing
<1>3. Lists  BY DEF ListsInv
<1>4. routed' = RemoveFirst(routed, link)  BY <1>1, <1>2, StandingResolves DEF Withdrawn
<1>5. OthersWait(c) /\ request'[c].at = "none"  BY <1>1, Ended
<1>6. routed' \in Seq(Links) /\ On(routed') = On(routed) \ {link} /\ Once(routed')
  BY <1>3, <1>4, Removed DEF Lists
<1>7. On(shown') = On(shown) /\ Once(shown')  BY <1>1, <1>3 DEF Lists, Once
<1>8. Lists'  BY <1>1, <1>2, <1>3, <1>6, <1>7 DEF Lists, Stands
<1>9. Editing(c)'  BY <1>2, <1>5, <1>6, <1>7 DEF Editing
<1> QED  BY <1>5, <1>8, <1>9 DEF ListsInv, OthersWait

\* While one client edits, every step keeps the lists as the invariant says.
LEMMA ListsStep ==
    ASSUME NEW c \in Clients, Alone(c), TablesInv, ListsInv(c), [Next]_vars
    PROVE  ListsInv(c)'
<1>1. CASE UNCHANGED vars
  <2>1. devices' = devices /\ shown' = shown /\ routed' = routed /\ request' = request /\ reload' = reload
    BY <1>1 DEF vars
  <2>2. Lists'  BY <2>1 DEF ListsInv, Lists, Stands, On, Once
  <2>3. On(shown') = On(shown) /\ On(routed') = On(routed)  BY <2>1
  <2>4. \A link \in Links : Stands(link) => Stands(link)'  BY <2>1 DEF Stands
  <2>5. request'[c] = request[c]  BY <2>1
  <2>6. Editing(c)  BY DEF ListsInv
  <2>7. Editing(c)'  BY <2>3, <2>4, <2>5, <2>6 DEF Editing
  <2> QED  BY <2>1, <2>2, <2>7 DEF ListsInv
<1>2. CASE \E b \in Clients : DeviceStep(b) \/ MappingStep(b)
  <2>1. PICK b \in Clients : DeviceStep(b) \/ MappingStep(b)  BY <1>2
  <2>2. b = c
    <3>1. CASE request[b].at = "none"
      BY <2>1, <3>1 DEF Alone, DeviceStep, MappingStep, Connect, Describe, Attach, Listen, Enlist, Detach, Unlisten,
             Cascade, Unroute, Unshow, Forget, Delist, Route, Show, Withdraw
    <3> QED  BY <3>1 DEF ListsInv
  <2>3. CASE DeviceStep(c)
    BY <2>3, DeviceElsewhere, CascadeLists, UnrouteLists, UnshowLists, ForgetLists DEF DeviceStep
  <2>4. CASE MappingStep(c)
    BY <2>4, PatchBayAssumption, AddMappingLists, RemoveMappingLists, RouteLists, ShowLists, WithdrawLists
    DEF MappingStep
  <2> QED  BY <2>1, <2>2, <2>3, <2>4
<1>3. ~\E links \in Reloads : Reload(links)  BY DEF Alone
<1>4. ~ReloadNext  BY DEF ReloadNext, ListsInv, Lists
<1> QED  BY <1>1, <1>2, <1>3, <1>4 DEF Next

\* In a list without duplicates an element is counted once if it is there.
LEMMA Counted ==
    ASSUME NEW q \in Seq(Links), Once(q), NEW link
    PROVE  Count(q, link) = IF link \in On(q) THEN 1 ELSE 0
<1> DEFINE at == {i \in DOMAIN q : q[i] = link}
<1>1. at = {i \in 1..Len(q) : q[i] = link}  OBVIOUS
<1>2. CASE link \in On(q)
  <2>1. PICK i \in 1..Len(q) : q[i] = link  BY <1>2 DEF On
  <2>2. at = {i}  BY <1>1, <2>1 DEF Once
  <2>3. Cardinality({i}) = 1  BY FS_Singleton
  <2> QED  BY <1>2, <2>2, <2>3 DEF Count
<1>3. CASE link \notin On(q)
  <2>1. at = {}  BY <1>1, <1>3 DEF On
  <2>2. Cardinality({}) = 0  BY FS_EmptySet
  <2> QED  BY <1>3, <2>1, <2>2 DEF Count
<1> QED  BY <1>2, <1>3

\* At rest the lists hold the same, each mapping once, of devices that stand.
LEMMA ListsAgree ==
    ASSUME NEW c \in Clients, ListsInv(c)
    PROVE  ShownIsRouted /\ NoDangling /\ NoDuplicates
<1> SUFFICES ASSUME AtRest PROVE ShownIsRouted /\ NoDangling /\ NoDuplicates
  BY DEF ShownIsRouted, NoDangling, NoDuplicates
<1>1. Lists /\ On(routed) = On(shown)  BY DEF ListsInv, Editing, AtRest, NoRequest
<1>2. Range(routed) = On(routed) /\ Range(shown) = On(shown)
  BY <1>1 DEF Range, On, Lists
<1>3. \A link \in Links : /\ Count(shown, link) = IF link \in On(shown) THEN 1 ELSE 0
                          /\ Count(routed, link) = IF link \in On(routed) THEN 1 ELSE 0
  BY <1>1, Counted DEF Lists
<1>4. NoDangling  BY <1>1, <1>2 DEF NoDangling, Lists, Stands
<1>5. ShownIsRouted /\ NoDuplicates  BY <1>1, <1>3 DEF ShownIsRouted, NoDuplicates
<1> QED  BY <1>4, <1>5

\* With one caller at a time, what the patch bay shows is what the Router
\* mirrors, each mapping once and only of devices that are there, whatever
\* devices come and go ("removing the device must cascade-remove its mappings").
THEOREM MappingsMatch == ASSUME OneEditor PROVE Spec => [](ShownIsRouted /\ NoDangling /\ NoDuplicates)
<1>1. PICK c \in Clients : Alone(c)  BY DEF OneEditor
<1>2. ApartEdits  BY <1>1 DEF ApartEdits, Alone
<1> DEFINE Inv == TablesInv /\ ListsInv(c)
<1>3. Init => Inv  BY TablesInit, ListsInit
<1>4. Inv /\ [Next]_vars => Inv'  BY <1>1, <1>2, TablesStep, ListsStep
<1>5. Inv => ShownIsRouted /\ NoDangling /\ NoDuplicates  BY ListsAgree
<1> HIDE DEF Inv
<1> QED  BY <1>3, <1>4, <1>5, PTL DEF Spec

\* The same of the part of the daemon's model in which one caller is at work.
THEOREM MappingsHold == ASSUME OneEditor PROVE MCSpec => []MappingsAgree
<1>1. PICK c \in Clients : Alone(c)  BY DEF OneEditor
<1>2. ApartEdits  BY <1>1 DEF ApartEdits, Alone
<1> DEFINE Inv == part = "serial" => TablesInv /\ ListsInv(c)
<1>3. MCInit => Inv  BY TablesInit, ListsInit DEF MCInit
<1>4. ASSUME Inv, [MCNext]_<<part, vars, routerVars>> PROVE Inv'
  <2> SUFFICES ASSUME part' = "serial" PROVE (TablesInv /\ ListsInv(c))'
    OBVIOUS
  <2>1. part = "serial" /\ [Next]_vars
    <3>1. CASE MCNext  BY <3>1 DEF MCNext
    <3>2. CASE UNCHANGED <<part, vars, routerVars>>  BY <3>2
    <3> QED  BY <1>4, <3>1, <3>2
  <2>2. TablesInv /\ ListsInv(c)  BY <1>4, <2>1
  <2> QED  BY <1>1, <1>2, <2>1, <2>2, TablesStep, ListsStep
<1>5. Inv => MappingsAgree  BY ListsAgree DEF MappingsAgree
<1> HIDE DEF Inv
<1> QED  BY <1>3, <1>4, <1>5, PTL DEF MCSpec

\* "A one-way mapping mirrors changes from `from` to `to` only", in the part in
\* which devices come and go and mappings change (RouterProofs).
THEOREM NothingUpstreamThere == ASSUME Churn!RouterAssumption PROVE MCSpec => NeverUpstream
<1> DEFINE Inv == part = "churn" => Churn!TypeOK /\ Churn!AlongMappings
<1>1. MCInit => Inv
  <2> SUFFICES ASSUME MCInit, part = "churn" PROVE Churn!TypeOK /\ Churn!AlongMappings
    OBVIOUS
  <2>1. Churn!Init  BY DEF MCInit
  <2> QED  BY <2>1, Churn!TypeInit, Churn!AlongInit
<1>2. ASSUME Inv, [MCNext]_<<part, vars, routerVars>>
      PROVE  Inv' /\ [part = "churn" => Churn!Downstream]_routerVars
  <2> SUFFICES ASSUME part = "churn", part' = part
               PROVE  /\ (Churn!TypeOK /\ Churn!AlongMappings)'
                      /\ [Churn!Downstream]_routerVars
    <3>1. part' = part
      <4>1. CASE MCNext  BY <4>1 DEF MCNext
      <4> QED  BY <1>2, <4>1
    <3> QED  BY <3>1
  <2>1. [Churn!Next]_routerVars
    <3>1. CASE MCNext  BY <3>1 DEF MCNext
    <3> QED  BY <1>2, <3>1
  <2>2. [Churn!Next]_Churn!vars  BY <2>1 DEF routerVars, Churn!vars
  <2>3. Churn!TypeOK /\ Churn!AlongMappings  BY <1>2
  <2>4. [Churn!Downstream]_Churn!vars  BY <2>2, <2>3, Churn!DownstreamStep
  <2>5. [Churn!Downstream]_routerVars  BY <2>4 DEF routerVars, Churn!vars
  <2> QED  BY <2>2, <2>3, <2>5, Churn!TypeStep, Churn!AlongStep
<1> HIDE DEF Inv
<1> QED  BY <1>1, <1>2, PTL DEF MCSpec, NeverUpstream

-----------------------------------------------------------------------------
(***************************************************************************)
(* The types.  A step that goes on with a device has one, one that sets an *)
(* adapter has one that was made, and one about a mapping has it to do.    *)
(***************************************************************************)
RequestType(n) == [at : Steps, id : Ids \union {None}, adapter : (1..n) \union {None}, todo : Seq(Links)]
Equipped(r) ==
    /\ r.at \in DeviceSteps => r.id \in Ids
    /\ r.at \in {"attach", "listen"} => r.adapter # None
    /\ r.at \in {"route", "show", "withdraw"} => r.todo # <<>>
TypeInv == TypeOK /\ \A c \in Clients : Equipped(request[c])

LEMMA TypesInit == Init => TypeInv
<1> SUFFICES ASSUME Init PROVE TypeInv  OBVIOUS
<1>1. made = 0 /\ 0..0 = {0} /\ <<>> \in Seq(Links)  BY DEF Init
<1>2. request = [c \in Clients |-> NoRequest] /\ NoRequest \in RequestType(made)
  BY <1>1 DEF Init, NoRequest, RequestType, Steps
<1>3. \A c \in Clients : Equipped(request[c])  BY <1>2 DEF Equipped, NoRequest, DeviceSteps
<1>4. attached \in [Ids -> (0..made) \union {None}] /\ handle \in [Ids -> (0..made) \union {None}]
  BY <1>1 DEF Init
<1>5. listening \subseteq Ids \X (0..made)  BY <1>1, PatchBayAssumption DEF Init
<1>6. TypeOK  BY <1>1, <1>2, <1>4, <1>5, PatchBayAssumption DEF Init, TypeOK, RequestType
<1> QED  BY <1>3, <1>6 DEF TypeInv

\* A request that changes to one of the same types, whatever was made meanwhile.
LEMMA RequestTyped ==
    ASSUME TypeInv, NEW c \in Clients, made' \in Nat, made' >= made,
           NEW r \in RequestType(made'), Equipped(r), request' = [request EXCEPT ![c] = r]
    PROVE  request' \in [Clients -> RequestType(made')] /\ \A b \in Clients : Equipped(request'[b])
<1>1. made \in Nat  BY PatchBayAssumption DEF TypeInv, TypeOK
<1>2. (1..made) \subseteq 1..made'  BY <1>1
<1>3. RequestType(made) \subseteq RequestType(made')  BY <1>2 DEF RequestType
<1>4. request \in [Clients -> RequestType(made)] /\ \A b \in Clients : Equipped(request[b])
  BY DEF TypeInv, TypeOK, RequestType
<1> QED  BY <1>3, <1>4

\* What the steps of the requests leave alone keeps its type.
LEMMA TypesOf ==
    ASSUME TypeInv
    PROVE  /\ made \in Nat /\ made \in 0..MaxAdapters /\ devices \subseteq Ids /\ descriptors \subseteq Ids
           /\ attached \in [Ids -> (0..made) \union {None}] /\ handle \in [Ids -> (0..made) \union {None}]
           /\ listening \subseteq Ids \X (0..made)
           /\ shown \in Seq(Links) /\ routed \in Seq(Links) /\ reload \in Seq(Links)
           /\ request \in [Clients -> RequestType(made)]
           /\ \A c \in Clients : request[c] \in RequestType(made) /\ Equipped(request[c])
BY PatchBayAssumption DEF TypeInv, TypeOK, RequestType

\* A request that only goes on.
LEMMA GoesOn ==
    ASSUME TypeInv, NEW c \in Clients, NEW s \in Steps,
           Equipped([request[c] EXCEPT !.at = s]), Continue(c, s), UNCHANGED made
    PROVE  request' \in [Clients -> RequestType(made')] /\ \A b \in Clients : Equipped(request'[b])
<1> DEFINE r == [request[c] EXCEPT !.at = s]
<1>1. r \in RequestType(made')  BY TypesOf DEF RequestType
<1>2. request' = [request EXCEPT ![c] = r]  BY DEF Continue
<1>3. made' \in Nat /\ made' >= made  BY TypesOf
<1> HIDE DEF r
<1> QED  BY <1>1, <1>2, <1>3, RequestTyped DEF r

\* One that ends.
LEMMA Ends ==
    ASSUME TypeInv, NEW c \in Clients, Done(c), UNCHANGED made
    PROVE  request' \in [Clients -> RequestType(made')] /\ \A b \in Clients : Equipped(request'[b])
<1>1. NoRequest \in RequestType(made') /\ Equipped(NoRequest)
  BY DEF NoRequest, RequestType, Equipped, Steps, DeviceSteps
<1>3. made' \in Nat /\ made' >= made  BY TypesOf
<1> QED  BY <1>1, <1>3, RequestTyped DEF Done

\* One that begins.
LEMMA Begins ==
    ASSUME TypeInv, NEW c \in Clients, NEW s \in Steps, NEW i \in Ids \union {None}, NEW t \in Seq(Links),
           s \in DeviceSteps => i \in Ids, s \notin {"attach", "listen"},
           s \in {"route", "show", "withdraw"} => t # <<>>,
           request' = [request EXCEPT ![c] = [at |-> s, id |-> i, adapter |-> None, todo |-> t]],
           UNCHANGED made
    PROVE  request' \in [Clients -> RequestType(made')] /\ \A b \in Clients : Equipped(request'[b])
<1> DEFINE r == [at |-> s, id |-> i, adapter |-> None, todo |-> t]
<1>1. r \in RequestType(made') /\ Equipped(r)  BY DEF RequestType, Equipped
<1>2. made' \in Nat /\ made' >= made  BY TypesOf
<1> HIDE DEF r
<1> QED  BY <1>1, <1>2, RequestTyped DEF r

\* What a step has to show.
LEMMA Typed ==
    ASSUME request' \in [Clients -> RequestType(made')], \A b \in Clients : Equipped(request'[b]),
           made' \in 0..MaxAdapters, devices' \subseteq Ids, descriptors' \subseteq Ids,
           attached' \in [Ids -> (0..made') \union {None}], handle' \in [Ids -> (0..made') \union {None}],
           listening' \subseteq Ids \X (0..made'),
           shown' \in Seq(Links), routed' \in Seq(Links), reload' \in Seq(Links)
    PROVE  TypeInv'
BY DEF TypeInv, TypeOK, RequestType

\* Every step of a request about a device.
LEMMA DeviceTypes ==
    ASSUME TypeInv, NEW c \in Clients, DeviceStep(c)
    PROVE  TypeInv'
<1> USE TypesOf
<1> DEFINE r == request[c]
<1>0. r \in RequestType(made) /\ Equipped(r) /\ made \in Nat
  OBVIOUS
<1>1. ASSUME NEW id \in DeviceEdits[c], AddDevice(c, id) PROVE TypeInv'
  <2>1. id \in Ids /\ <<>> \in Seq(Links)  BY PatchBayAssumption
  <2> DEFINE s == IF id \in Virtual THEN "describe" ELSE "connect"
  <2>2. request' = [request EXCEPT ![c] = [NoRequest EXCEPT !.id = id, !.at = s]]
    BY <1>1 DEF AddDevice
  <2>3. s \in {"describe", "connect"}
    OBVIOUS
  <2> HIDE DEF s
  <2>4. s \in Steps /\ s \notin {"attach", "listen"} /\ s \notin {"route", "show", "withdraw"} /\ made' = made
    BY <1>1, <2>3 DEF AddDevice, deviceTables, Steps
  <2>6. request' = [request EXCEPT ![c] = [at |-> s, id |-> id, adapter |-> None, todo |-> <<>>]]
    BY <2>2, BegunIs
  <2>5. request' \in [Clients -> RequestType(made')] /\ \A b \in Clients : Equipped(request'[b])
    BY <2>1, <2>4, <2>6, Begins
  <2> QED  BY <1>1, <2>5, Typed DEF AddDevice, deviceTables, mappingTables
<1>2. ASSUME NEW id \in DeviceEdits[c], RemoveDevice(c, id) PROVE TypeInv'
  <2>1. id \in Ids /\ <<>> \in Seq(Links)  BY PatchBayAssumption
  <2> DEFINE s == IF id \in Virtual THEN "cascade" ELSE "detach"
  <2>2. request' = [request EXCEPT ![c] = [NoRequest EXCEPT !.id = id, !.at = s]]
    BY <1>2 DEF RemoveDevice
  <2>3. s \in {"cascade", "detach"}
    OBVIOUS
  <2> HIDE DEF s
  <2>4. s \in Steps /\ s \notin {"attach", "listen"} /\ s \notin {"route", "show", "withdraw"} /\ made' = made
    BY <1>2, <2>3 DEF RemoveDevice, deviceTables, Steps
  <2>6. request' = [request EXCEPT ![c] = [at |-> s, id |-> id, adapter |-> None, todo |-> <<>>]]
    BY <2>2, BegunIs
  <2>5. request' \in [Clients -> RequestType(made')] /\ \A b \in Clients : Equipped(request'[b])
    BY <2>1, <2>4, <2>6, Begins
  <2> QED  BY <1>2, <2>5, Typed DEF RemoveDevice, deviceTables, mappingTables
<1>3. CASE Connect(c)
  <2>1. CASE made' = made + 1 /\ made < MaxAdapters /\ request' = [request EXCEPT ![c].at = "describe", ![c].adapter = made + 1]
    <3> DEFINE n == [r EXCEPT !.at = "describe", !.adapter = made + 1]
    <3>1. made + 1 \in Nat /\ made + 1 \in 1..(made + 1) /\ made' \in 0..MaxAdapters /\ made' >= made
      BY <2>1, PatchBayAssumption
    <3>2. r.at = "connect" /\ (1..made) \subseteq 1..(made + 1)  BY <1>0, <1>3 DEF Connect
    <3>3. n \in RequestType(made')  BY <1>0, <2>1, <3>1, <3>2 DEF RequestType, Steps
    <3>4. Equipped(n)  BY <1>0, <3>2 DEF Equipped, RequestType, DeviceSteps
    <3>5. request' = [request EXCEPT ![c] = n]  BY <2>1
    <3> HIDE DEF n
    <3>6. request' \in [Clients -> RequestType(made')] /\ \A b \in Clients : Equipped(request'[b])
      BY <2>1, <3>1, <3>3, <3>4, <3>5, RequestTyped
    <3>7. (0..made) \subseteq 0..made'  BY <1>0, <2>1
    <3> QED  BY <1>3, <3>1, <3>6, <3>7, Typed DEF Connect, mappingTables
  <2>2. CASE Done(c) /\ UNCHANGED made
    BY <1>3, <2>2, Ends, Typed DEF Connect, mappingTables
  <2> QED  BY <1>3, <2>1, <2>2 DEF Connect
<1>4. CASE Describe(c)
  <2>1. r.at = "describe" /\ r.id \in Ids  BY <1>0, <1>4 DEF Describe, Equipped, DeviceSteps
  <2>2. request' \in [Clients -> RequestType(made')] /\ \A b \in Clients : Equipped(request'[b])
    BY <1>0, <1>4, <2>1, GoesOn DEF Describe, AfterDescribe, RequestType, Equipped, Steps
  <2> QED  BY <1>4, <2>1, <2>2, Typed DEF Describe, mappingTables
<1>5. CASE Attach(c)
  <2>1. r.id \in Ids /\ r.adapter \in 1..made  BY <1>0, <1>5 DEF Attach, Equipped, DeviceSteps, RequestType
  <2>2. request' \in [Clients -> RequestType(made')] /\ \A b \in Clients : Equipped(request'[b])
    BY <1>0, <1>5, <2>1, PatchBayAssumption, GoesOn DEF Attach, RequestType, Equipped, Steps
  <2>3. attached' \in [Ids -> (0..made') \union {None}]
    BY <1>0, <1>5, <2>1 DEF Attach
  <2> QED  BY <1>5, <2>2, <2>3, Typed DEF Attach, mappingTables
<1>6. CASE Listen(c)
  <2>1. r.id \in Ids /\ r.adapter \in 1..made /\ r.adapter \in 0..made
    BY <1>0, <1>6 DEF Listen, Equipped, DeviceSteps, RequestType
  <2>2. request' \in [Clients -> RequestType(made')] /\ \A b \in Clients : Equipped(request'[b])
    BY <1>0, <1>6, <2>1, GoesOn DEF Listen, RequestType, Equipped, Steps
  <2>3. handle' \in [Ids -> (0..made') \union {None}] /\ listening' \subseteq Ids \X (0..made')
    BY <1>0, <1>6, <2>1 DEF Listen
  <2> QED  BY <1>6, <2>2, <2>3, Typed DEF Listen, mappingTables
<1>7. CASE Enlist(c)
  <2>1. r.id \in Ids  BY <1>0, <1>7 DEF Enlist, Equipped, DeviceSteps
  <2> QED  BY <1>7, <2>1, Ends, Typed DEF Enlist, mappingTables
<1>8. CASE Detach(c)
  <2>1. r.id \in Ids  BY <1>0, <1>8 DEF Detach, Equipped, DeviceSteps
  <2>2. request' \in [Clients -> RequestType(made')] /\ \A b \in Clients : Equipped(request'[b])
    BY <1>0, <1>8, <2>1, GoesOn DEF Detach, RequestType, Equipped, Steps
  <2>3. attached' \in [Ids -> (0..made') \union {None}]
    BY <1>0, <1>8, <2>1 DEF Detach
  <2> QED  BY <1>8, <2>2, <2>3, Typed DEF Detach, mappingTables
<1>9. CASE Unlisten(c)
  <2>1. r.id \in Ids  BY <1>0, <1>9 DEF Unlisten, Equipped, DeviceSteps
  <2>2. request' \in [Clients -> RequestType(made')] /\ \A b \in Clients : Equipped(request'[b])
    BY <1>0, <1>9, <2>1, GoesOn DEF Unlisten, RequestType, Equipped, Steps
  <2>3. handle' \in [Ids -> (0..made') \union {None}] /\ listening' \subseteq listening
    BY <1>0, <1>9, <2>1 DEF Unlisten, StoppedListening
  <2> QED  BY <1>9, <2>2, <2>3, Typed DEF Unlisten, mappingTables
<1>10. CASE Cascade(c)
  <2> DEFINE t == Naming(r.id)
             n == [r EXCEPT !.at = "unroute", !.todo = t]
  <2>1. r.id \in Ids  BY <1>0, <1>10 DEF Cascade, Equipped, DeviceSteps
  <2>2. t \in Seq(Links)  BY OnlyThose DEF Naming
  <2>3. request' = [request EXCEPT ![c] = n]  BY <1>10 DEF Cascade
  <2> HIDE DEF t
  <2>4. n \in RequestType(made') /\ made' = made /\ Equipped(n)
    BY <1>0, <1>10, <2>1, <2>2 DEF Cascade, deviceTables, RequestType, Equipped, Steps
  <2> HIDE DEF n
  <2>5. request' \in [Clients -> RequestType(made')] /\ \A b \in Clients : Equipped(request'[b])
    BY <1>0, <2>3, <2>4, RequestTyped
  <2> QED  BY <1>10, <2>5, Typed DEF Cascade, deviceTables, mappingTables
<1>11. CASE Unroute(c)
  <2> DEFINE n == [r EXCEPT !.todo = Tail(@)]
  <2>1. r.at = "unroute" /\ r.todo # <<>> /\ r.todo \in Seq(Links)  BY <1>0, <1>11 DEF Unroute, RequestType
  <2>2. Tail(r.todo) \in Seq(Links)  BY <2>1
  <2>3. request' = [request EXCEPT ![c] = n]  BY <1>11 DEF Unroute
  <2>4. n \in RequestType(made') /\ made' = made /\ Equipped(n)
    BY <1>0, <1>11, <2>1, <2>2 DEF Unroute, deviceTables, RequestType, Equipped, DeviceSteps
  <2> HIDE DEF n
  <2>5. request' \in [Clients -> RequestType(made')] /\ \A b \in Clients : Equipped(request'[b])
    BY <1>0, <2>3, <2>4, RequestTyped
  <2>6. routed' \in Seq(Links)  BY <1>11, RemovedIs DEF Unroute
  <2> QED  BY <1>11, <2>5, <2>6, Typed DEF Unroute, deviceTables
<1>12. CASE Unshow(c)
  <2>1. r.id \in Ids /\ made' = made  BY <1>0, <1>12 DEF Unshow, Equipped, DeviceSteps, deviceTables
  <2>2. request' \in [Clients -> RequestType(made')] /\ \A b \in Clients : Equipped(request'[b])
    BY <1>0, <1>12, <2>1, GoesOn DEF Unshow, RequestType, Equipped, Steps
  <2>3. shown' \in Seq(Links)  BY <1>12, OnlyThose DEF Unshow
  <2> QED  BY <1>12, <2>2, <2>3, Typed DEF Unshow, deviceTables
<1>13. CASE Forget(c)
  <2>1. r.id \in Ids  BY <1>0, <1>13 DEF Forget, Equipped, DeviceSteps
  <2>2. request' \in [Clients -> RequestType(made')] /\ \A b \in Clients : Equipped(request'[b])
    BY <1>0, <1>13, <2>1, GoesOn DEF Forget, RequestType, Equipped, Steps
  <2> QED  BY <1>13, <2>2, Typed DEF Forget, DescriptorsWithout, mappingTables
<1>14. CASE Delist(c)
  BY <1>14, Ends, Typed DEF Delist, mappingTables
<1> HIDE DEF r
<1> QED  BY <1>1, <1>2, <1>3, <1>4, <1>5, <1>6, <1>7, <1>8, <1>9, <1>10, <1>11, <1>12, <1>13, <1>14
         DEF DeviceStep

\* Every step of a request about a mapping.
LEMMA MappingTypes ==
    ASSUME TypeInv, NEW c \in Clients, MappingStep(c)
    PROVE  TypeInv'
<1> USE TypesOf
<1> DEFINE r == request[c]
<1>0. r \in RequestType(made) /\ Equipped(r) /\ made \in Nat
  OBVIOUS
<1>1. ASSUME NEW link \in LinkEdits[c], AddMapping(c, link) PROVE TypeInv'
  <2>1. link \in Links /\ <<link>> \in Seq(Links) /\ <<link>> # <<>>  BY PatchBayAssumption
  <2> DEFINE t == <<link>>
  <2>2. request' = [request EXCEPT ![c] = [NoRequest EXCEPT !.at = "route", !.todo = t]]
    BY <1>1 DEF AddMapping
  <2> HIDE DEF t
  <2>5. made' = made /\ t \in Seq(Links) /\ t # <<>>  BY <1>1, <2>1 DEF t, AddMapping, deviceTables
  <2>6. "route" \in Steps /\ "route" \notin DeviceSteps /\ "route" \notin {"attach", "listen"} /\ None \in Ids \union {None}
    BY DEF Steps, DeviceSteps
  <2>7. request' = [request EXCEPT ![c] = [at |-> "route", id |-> None, adapter |-> None, todo |-> t]]
    BY <2>2, BegunIs
  <2>3. request' \in [Clients -> RequestType(made')] /\ \A b \in Clients : Equipped(request'[b])
    BY <2>5, <2>6, <2>7, Begins
  <2> QED  BY <1>1, <2>3, Typed DEF AddMapping, deviceTables, mappingTables
<1>2. ASSUME NEW link \in LinkEdits[c], RemoveMapping(c, link) PROVE TypeInv'
  <2>1. link \in Links /\ <<link>> \in Seq(Links) /\ <<link>> # <<>>  BY PatchBayAssumption
  <2> DEFINE t == <<link>>
  <2>2. request' = [request EXCEPT ![c] = [NoRequest EXCEPT !.at = "withdraw", !.todo = t]]
    BY <1>2 DEF RemoveMapping
  <2> HIDE DEF t
  <2>5. made' = made /\ t \in Seq(Links) /\ t # <<>>  BY <1>2, <2>1 DEF t, RemoveMapping, deviceTables
  <2>6. "withdraw" \in Steps /\ "withdraw" \notin DeviceSteps /\ "withdraw" \notin {"attach", "listen"} /\ None \in Ids \union {None}
    BY DEF Steps, DeviceSteps
  <2>7. request' = [request EXCEPT ![c] = [at |-> "withdraw", id |-> None, adapter |-> None, todo |-> t]]
    BY <2>2, BegunIs
  <2>3. request' \in [Clients -> RequestType(made')] /\ \A b \in Clients : Equipped(request'[b])
    BY <2>5, <2>6, <2>7, Begins
  <2>4. shown' \in Seq(Links)  BY <1>2, RemovedIs DEF RemoveMapping
  <2> QED  BY <1>2, <2>3, <2>4, Typed DEF RemoveMapping, deviceTables
<1>3. CASE Route(c)
  <2>1. r.at = "route" /\ r.todo \in Seq(Links) /\ r.todo # <<>> /\ made' = made
    BY <1>0, <1>3 DEF Route, Equipped, RequestType, deviceTables
  <2>2. Head(r.todo) \in Links  BY <2>1
  <2>3. CASE routed' = Append(routed, Head(r.todo)) /\ Continue(c, "show")
    <3>1. request' \in [Clients -> RequestType(made')] /\ \A b \in Clients : Equipped(request'[b])
      BY <1>0, <2>1, <2>3, GoesOn DEF RequestType, Equipped, Steps, DeviceSteps
    <3>2. routed' \in Seq(Links)  BY <2>2, <2>3
    <3> QED  BY <1>3, <3>1, <3>2, Typed DEF Route, deviceTables
  <2>4. CASE Done(c) /\ UNCHANGED routed
    BY <1>3, <2>1, <2>4, Ends, Typed DEF Route, deviceTables
  <2> QED  BY <1>3, <2>3, <2>4 DEF Route
<1>4. CASE Show(c)
  <2>1. r.todo \in Seq(Links) /\ r.todo # <<>>  BY <1>0, <1>4 DEF Show, Equipped, RequestType
  <2>2. shown' \in Seq(Links)  BY <1>4, <2>1 DEF Show
  <2> QED  BY <1>4, <2>2, Ends, Typed DEF Show, deviceTables
<1>5. CASE Withdraw(c)
  <2>1. routed' \in Seq(Links)  BY <1>5, RemovedIs DEF Withdraw, Withdrawn
  <2> QED  BY <1>5, <2>1, Ends, Typed DEF Withdraw, deviceTables
<1> HIDE DEF r
<1> QED  BY <1>1, <1>2, <1>3, <1>4, <1>5 DEF MappingStep

\* RequestType, reloads and what leaves the tables alone keep their types.
LEMMA TypesStep == TypeInv /\ [Next]_vars => TypeInv'
<1> SUFFICES ASSUME TypeInv, [Next]_vars PROVE TypeInv'  OBVIOUS
<1>0. <<>> \in Seq(Links)  OBVIOUS
<1>1. ASSUME NEW links \in Reloads, Reload(links) PROVE TypeInv'
  BY <1>0, <1>1, TypesOf, PatchBayAssumption, Typed DEF Reload, deviceTables
<1>2. CASE ReloadNext
  <2>1. Head(reload) \in Links /\ Tail(reload) \in Seq(Links)  BY <1>2, TypesOf DEF ReloadNext
  <2>2. routed' \in Seq(Links)  BY <1>2, <2>1, TypesOf DEF ReloadNext
  <2> QED  BY <1>2, <2>1, <2>2, TypesOf, Typed DEF ReloadNext, deviceTables
<1>3. CASE UNCHANGED vars
  BY <1>3, TypesOf, Typed DEF vars
<1> QED  BY <1>1, <1>2, <1>3, DeviceTypes, MappingTypes DEF Next

\* Whatever requests and reloads interleave, every table keeps its type: only
\* known devices are in one, and only adapters that were made.
THEOREM TypeCorrect == Spec => []TypeOK
<1>1. TypeInv => TypeOK  BY DEF TypeInv
<1> QED  BY <1>1, TypesInit, TypesStep, PTL DEF Spec

\* The same of the run, with the Router's of the part in which devices come and go.
THEOREM TypesHoldThere == ASSUME Churn!RouterAssumption PROVE MCSpec => []TypesHold
<1> DEFINE Inv == (part = "serial" => TypeInv) /\ (part = "churn" => Churn!TypeOK)
<1>1. MCInit => Inv
  <2> SUFFICES ASSUME MCInit PROVE Inv
    OBVIOUS
  <2>1. (part = "serial" => Init) /\ (part = "churn" => Churn!Init)  BY DEF MCInit
  <2> QED  BY <2>1, TypesInit, Churn!TypeInit
<1>2. Inv /\ [MCNext]_<<part, vars, routerVars>> => Inv'
  <2> SUFFICES ASSUME Inv, [MCNext]_<<part, vars, routerVars>> PROVE Inv'
    OBVIOUS
  <2>1. part' = part /\ (part = "serial" => [Next]_vars) /\ (part = "churn" => [Churn!Next]_Churn!vars)
    <3>1. CASE MCNext  BY <3>1 DEF MCNext
    <3>2. CASE UNCHANGED <<part, vars, routerVars>>  BY <3>2 DEF routerVars, Churn!vars
    <3> QED  BY <3>1, <3>2
  <2> QED  BY <2>1, TypesStep, Churn!TypeStep
<1>3. Inv => TypesHold  BY DEF TypeInv, TypesHold
<1> HIDE DEF Inv
<1> QED  BY <1>1, <1>2, <1>3, PTL DEF MCSpec
=============================================================================
