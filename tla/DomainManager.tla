---------------------------- MODULE DomainManager ----------------------------
(***************************************************************************)
(* The registry of a REDHAWK domain: DomainManager_impl.cpp with the       *)
(* deferred connections of connectionSupport.cpp and the persistent store  *)
(* it is restored from after a crash.                                      *)
(*                                                                         *)
(* Registration calls are serialised by interfaceAccess and hold           *)
(* stateAccess to their end, so there is one thread of them, op; the       *)
(* creation and the release of an application run on threads of their own  *)
(* and take stateAccess for single accesses only.  A step of op ends with  *)
(* a write to the store, or where it calls another process, because the    *)
(* DomainManager may crash after any write and any other process may die   *)
(* at any time.                                                            *)
(*                                                                         *)
(* A DeviceManager, device or service is a CORBA object with an            *)
(* identifier; a process that is started again is another object with the  *)
(* same identifier.  The lists of the code are sets here: nothing below    *)
(* depends on the order in which they are walked.                          *)
(***************************************************************************)
EXTENDS Integers, FiniteSets

CONSTANTS
    Mgrs, Devs, Svcs,   \* DeviceManager, Device and service objects
    Ident,              \* their identifiers (the name, for a service)
    Launcher,           \* the DeviceManager that launched a device or service
    Conns,              \* connections of the DCDs: [requester, uses, provides]
    Apps,               \* applications
    MaxCrashes,         \* bound: crashes of the DomainManager
    Environment,        \* what may go wrong around it, see below
    None

(***************************************************************************)
(* "die": processes of the domain die; "restore": the DomainManager also   *)
(* crashes while it restores its state; "release": releaseObject of an     *)
(* application throws (its naming context is not empty).                   *)
(***************************************************************************)
EnvironmentKinds == {"die", "restore", "release"}

Objects == Mgrs \cup Devs \cup Svcs
Idents  == {Ident[o] : o \in Objects}
Sides   == {"uses", "provides"}

\* The DeviceManager of a service that could not be asked for its identifier.
Unknown == <<>>

ASSUME DomainConstants ==
    /\ Ident \in [Objects -> Idents]
    /\ Launcher \in [Devs \cup Svcs -> Mgrs]
    /\ Conns \subseteq [requester : Idents, uses : Idents, provides : Idents]
    /\ MaxCrashes \in Nat
    /\ Environment \subseteq EnvironmentKinds
    /\ \A d \in Devs, s \in Svcs : Ident[d] # Ident[s] \* looked up by kind
    /\ None \notin Objects \cup Idents
    /\ Unknown \notin Idents \cup {None}

VARIABLES
    alive,      \* the objects whose process runs
    devMgrs,    \* _registeredDeviceManagers
    devices,    \* _registeredDevices: the DeviceManager of each, or None
    services,   \* _registeredServices: its identifier for each, or None
    conns,      \* _connectionsByRequester
    apps,       \* _applications and _runningApplications
    app,        \* where the thread of each application is, what it uses
    op,         \* the registration call, or restoreState, under way
    fetched,    \* what restoreState has read and not gone through yet
    db,         \* the persistent store
    saved,      \* what the last crash of the DomainManager left to restore (ghost)
    crashes

memory == <<devMgrs, devices, services, conns, apps>>
vars   == <<alive, memory, app, op, fetched, db, saved, crashes>>

NoDevices  == [d \in Devs |-> None]
NoServices == [s \in Svcs |-> None]

Connection ==
    [conn : Conns, uses : Devs \cup Svcs \cup {None},
     provides : Devs \cup Svcs \cup {None}, ports : SUBSET Sides,
     invalid : SUBSET Sides, connected : BOOLEAN]

Lists == [devMgrs : SUBSET Mgrs, devices : [Devs -> Mgrs \cup {None}],
          services : [Svcs -> Idents \cup {Unknown, None}],
          conns : SUBSET Connection, apps : SUBSET Apps]

EmptyLists == [devMgrs |-> {}, devices |-> NoDevices, services |-> NoServices,
               conns |-> {}, apps |-> {}]

\* op: where the call is; the object it registers; the DeviceManager, device
\* and service it unregisters; the applications it still has to release.
OpValues ==
    {"idle", "down", "mgr_check", "mgr_conns", "mgr_devs", "mgr_svcs",
     "mgr_add", "mgr_mount", "dev_check", "dev_conns", "dev_apps", "dev_erase",
     "dev_store", "dev_link", "svc_conns", "svc_apps", "svc_store",
     "svc_link", "r_mgrs", "r_devs", "r_svcs", "r_conns", "r_apps"}

Op == [at : OpValues, obj : Objects \cup {None}, mgr : Mgrs \cup {None},
       dev : Devs \cup {None}, svc : Svcs \cup {None}, left : SUBSET Apps]

At(l) == [at |-> l, obj |-> None, mgr |-> None, dev |-> None, svc |-> None,
          left |-> {}]
Idle  == At("idle")

\* app: where its thread is, "thrown" if its release by op threw; the device and
\* the service it was placed on.
AppValues ==
    {"new", "assigned", "pending", "deployed", "active", "releasing", "released",
     "thrown"}

App == [at : AppValues, dev : Devs \cup {None}, svc : Idents \cup {None}]

TypeOK ==
    /\ alive \subseteq Objects
    /\ devMgrs \subseteq Mgrs
    /\ devices \in [Devs -> Mgrs \cup {None}]
    /\ services \in [Svcs -> Idents \cup {Unknown, None}]
    /\ conns \subseteq Connection
    /\ apps \subseteq Apps
    /\ app \in [Apps -> App]
    /\ op \in Op
    /\ fetched \in Lists /\ db \in Lists /\ saved \in Lists
    /\ crashes \in Nat

\* A new domain; the processes of its nodes run and have not registered.
Init ==
    /\ alive = Objects
    /\ devMgrs = {} /\ devices = NoDevices /\ services = NoServices
    /\ conns = {} /\ apps = {}
    /\ app = [a \in Apps |-> [at |-> "new", dev |-> None, svc |-> None]]
    /\ op = Idle
    /\ fetched = EmptyLists /\ db = EmptyLists /\ saved = EmptyLists
    /\ crashes = 0

-----------------------------------------------------------------------------
(* Looking things up.                                                      *)

registered == {d \in Devs : devices[d] # None}
offered    == {s \in Svcs : services[s] # None}

managersOf(id) == {m \in devMgrs : Ident[m] = id}
devicesOf(id)  == {d \in registered : Ident[devices[d]] = id}
servicesOf(id) == {s \in offered : services[s] = id}

\* (mutant: what cannot be reached is overlooked)
withIdentReachable(S, id) == {o \in S \cap alive : Ident[o] = id}

withIdent(S, id) == {o \in S : Ident[o] = id}

\* findDeviceManagerByObject: by identifier, if the object can be asked.
findDeviceManager(m) ==
    IF m \in alive THEN managersOf(Ident[m]) ELSE devMgrs \cap {m}

findDevice(d) ==
    IF d \in alive THEN withIdent(registered, Ident[d]) ELSE registered \cap {d}

-----------------------------------------------------------------------------
(***************************************************************************)
(* Connections.  An endpoint keeps the object it was resolved to, and the  *)
(* port it got from it, until the connection is broken.                    *)
(***************************************************************************)
lookup(id) ==
    LET S == withIdent(registered \cup offered, id)
    IN  IF S = {} THEN None ELSE CHOOSE o \in S : TRUE

side(c, x) == IF x = "uses" THEN c.uses ELSE c.provides
named(c, x) == IF x = "uses" THEN c.conn.uses ELSE c.conn.provides

\* (mutant: only the uses side is looked at)
dependsUses(c, id) == named(c, "uses") = id

depends(c, id) == \E x \in Sides : named(c, x) = id

fresh(k) == [conn |-> k, uses |-> None, provides |-> None, ports |-> {},
             invalid |-> {}, connected |-> FALSE]

\* Endpoint::resolve: an object that was found before is not looked up again.
resolve(c, x) == IF side(c, x) # None THEN side(c, x) ELSE lookup(named(c, x))

\* ConnectionNode::connect.  A service has no port to be asked for; the call
\* to connectPort needs both processes.
connect(c) ==
    LET asked == {x \in Sides \ c.ports : resolve(c, x) # None}
        got   == {x \in asked : resolve(c, x) \in alive \cup Svcs}
        ports == c.ports \cup got
    IN  [c EXCEPT !.uses = resolve(c, "uses"),
                  !.provides = resolve(c, "provides"),
                  !.ports = ports,
                  !.invalid = @ \cup (asked \ got),
                  !.connected = /\ ports = Sides
                                /\ resolve(c, "uses") \in alive
                                /\ resolve(c, "provides") \in alive]

\* addConnection drops what cannot be connected and not be deferred either.
keepable(c) == \/ c.connected
               \/ c.ports # Sides /\ c.invalid \subseteq c.ports

addConnections(id) ==
    conns \cup {c \in {connect(fresh(k)) : k \in {k \in Conns : k.requester = id}} :
                    keepable(c)}

tryPendingConnections(id) ==
    {IF c.connected \/ ~depends(c, id) THEN c ELSE connect(c) : c \in conns}

disconnect(c) == fresh(c.conn)

\* A connection is removed when the endpoint that goes away is known to be
\* invalid, otherwise it is broken and becomes pending.
breakConnections(id) ==
    {IF c.connected /\ depends(c, id) THEN disconnect(c) ELSE c :
        c \in {c \in conns : ~ \E x \in c.invalid : named(c, x) = id}}

\* restoreConnection.  The invalidPort_ of a port is neither stored nor
\* initialised: it is whatever garbage says.
portSides(c) ==
    {"uses"} \cup {x \in {"provides"} : \A s \in Svcs : Ident[s] # named(c, x)}

restoreConnection(c, garbage) ==
    IF c.connected /\ c.uses \in alive /\ c.provides \notin alive
    THEN disconnect(c)
    ELSE [c EXCEPT !.invalid = garbage \cap portSides(c)]

-----------------------------------------------------------------------------
(* Registering a DeviceManager.                                            *)

goto(l) == op' = [op EXCEPT !.at = l]

\* What a step of a registration call never touches.
others == UNCHANGED <<app, fetched, saved, crashes>>

registerDeviceManager(m) ==
    /\ op = Idle /\ m \in alive
    /\ op' = [At("mgr_check") EXCEPT !.obj = m]
    /\ UNCHANGED <<alive, memory, db>> /\ others

\* A live DeviceManager with this identifier is kept, unless the new one
\* cannot be asked any more; otherwise what it left behind is removed, and
\* the devices of it that still run are told to go.
checkDeviceManager ==
    LET old == managersOf(Ident[op.obj])
    IN  /\ op.at = "mgr_check"
        /\ \/ old = {} /\ goto("mgr_add") /\ UNCHANGED alive
           \/ old # {} /\ old \cup {op.obj} \subseteq alive
              /\ op' = Idle /\ UNCHANGED alive
           \/ \E n \in old, D \in SUBSET devicesOf(Ident[op.obj]) :
                 /\ ~ {n, op.obj} \subseteq alive
                 /\ op' = [op EXCEPT !.at = "mgr_conns", !.mgr = n]
                 /\ alive' = alive \ D
        /\ UNCHANGED <<memory, db>> /\ others

addDeviceMgr ==
    /\ op.at = "mgr_add"
    /\ IF findDeviceManager(op.obj) = {} /\ op.obj \in alive
       THEN /\ devMgrs' = devMgrs \cup {op.obj}
            /\ db' = [db EXCEPT !.devMgrs = devMgrs']
            /\ goto("mgr_mount")
       ELSE /\ op' = IF findDeviceManager(op.obj) = {} THEN Idle
                     ELSE [op EXCEPT !.at = "mgr_mount"]
            /\ UNCHANGED <<devMgrs, db>>
    /\ UNCHANGED <<alive, devices, services, conns, apps>> /\ others

\* The file system is mounted and the connections of the DCD are made; if
\* anything fails the DeviceManager is taken off the list again.
mountDeviceMgr ==
    /\ op.at = "mgr_mount" /\ op' = Idle
    /\ \/ /\ op.obj \in alive
          /\ conns' = addConnections(Ident[op.obj])
          /\ db' = [db EXCEPT !.conns = conns']
          /\ UNCHANGED devMgrs
       \/ /\ devMgrs' = devMgrs \ {op.obj}
          /\ db' = [db EXCEPT !.devMgrs = devMgrs']
          /\ UNCHANGED conns
    /\ UNCHANGED <<alive, devices, services, apps>> /\ others

-----------------------------------------------------------------------------
(* Unregistering a DeviceManager: its connections, devices and services.   *)

unregisterDeviceManager(m) ==
    /\ op = Idle /\ m \in findDeviceManager(m)
    /\ op' = [At("mgr_conns") EXCEPT !.mgr = m]
    /\ UNCHANGED <<alive, memory, db>> /\ others

deviceManagerUnregistered ==
    /\ op.at = "mgr_conns"
    /\ conns' = {c \in conns : c.conn.requester # Ident[op.mgr]}
    /\ db' = [db EXCEPT !.conns = conns']
    /\ goto("mgr_devs")
    /\ UNCHANGED <<alive, devMgrs, devices, services, apps>> /\ others

removeDeviceManagerDevices ==
    LET D == devicesOf(Ident[op.mgr])
    IN  /\ op.at = "mgr_devs"
        /\ \/ D = {} /\ goto("mgr_svcs")
           \/ \E d \in D : op' = [op EXCEPT !.at = "dev_conns", !.dev = d]
        /\ UNCHANGED <<alive, memory, db>> /\ others

removeDeviceManagerServices ==
    /\ op.at = "mgr_svcs"
    /\ \E s \in servicesOf(Ident[op.mgr]) :
          op' = [op EXCEPT !.at = "svc_conns", !.svc = s]
    /\ UNCHANGED <<alive, memory, db>> /\ others

\* The call ends here, or the registration that found a dead one goes on.
removeDeviceManager ==
    /\ op.at = "mgr_svcs" /\ servicesOf(Ident[op.mgr]) = {}
    /\ devMgrs' = devMgrs \ {op.mgr}
    /\ db' = [db EXCEPT !.devMgrs = devMgrs']
    /\ op' = IF op.obj = None THEN Idle
             ELSE [At("mgr_add") EXCEPT !.obj = op.obj]
    /\ UNCHANGED <<alive, devices, services, conns, apps>> /\ others

-----------------------------------------------------------------------------
(* Devices.                                                                *)

registerDevice(d) ==
    /\ op = Idle /\ {d, Launcher[d]} \subseteq alive
    /\ op' = [At("dev_check") EXCEPT !.obj = d]
    /\ UNCHANGED <<alive, memory, db>> /\ others

checkDevice ==
    LET old == withIdent(registered, Ident[op.obj])
    IN  /\ op.at = "dev_check"
        /\ \/ /\ \/ findDeviceManager(Launcher[op.obj]) = {}
                 \/ op.obj \notin alive
                 \/ old \cap alive # {}
              /\ op' = Idle
           \/ /\ findDeviceManager(Launcher[op.obj]) # {}
              /\ op.obj \in alive /\ old \cap alive = {}
              /\ IF old = {} THEN goto("dev_store")
                 ELSE \E n \in old :
                        op' = [op EXCEPT !.at = "dev_conns", !.dev = n]
        /\ UNCHANGED <<alive, memory, db>> /\ others

\* storeDeviceInDomainMgr for d and the DeviceManager m it comes with.  Besides
\* these two the registered DeviceManager with m's identifier has to answer.
storable(d, m) ==
    /\ findDevice(d) = {} /\ managersOf(Ident[m]) # {}
    /\ {d, m} \cup managersOf(Ident[m]) \subseteq alive

storeDevice(d, m) ==
    IF storable(d, m)
    THEN /\ \E n \in managersOf(Ident[m]) : devices' = [devices EXCEPT ![d] = n]
         /\ db' = [db EXCEPT !.devices = devices']
    ELSE UNCHANGED <<devices, db>>

\* An m that cannot be asked for its identifier is not an error: the call goes
\* on as if the device had been stored.
storeThrows(d, m) ==
    /\ m \in alive /\ findDevice(d) = {} /\ managersOf(Ident[m]) # {}
    /\ ~ ({d} \cup managersOf(Ident[m]) \subseteq alive)

storeDeviceInDomainMgr ==
    /\ op.at = "dev_store"
    /\ storeDevice(op.obj, Launcher[op.obj])
    /\ op' = IF storeThrows(op.obj, Launcher[op.obj]) THEN Idle
             ELSE [op EXCEPT !.at = "dev_link"]
    /\ UNCHANGED <<alive, devMgrs, services, conns, apps>> /\ others

deviceRegistered ==
    /\ op.at = "dev_link" /\ op' = Idle
    /\ conns' = tryPendingConnections(Ident[op.obj])
    /\ db' = [db EXCEPT !.conns = conns']
    /\ UNCHANGED <<alive, devMgrs, devices, services, apps>> /\ others

\* The registered device with the identifier of d, which need not be d.
unregisterDevice(d) ==
    /\ op = Idle
    /\ \E n \in findDevice(d) : op' = [At("dev_conns") EXCEPT !.dev = n]
    /\ UNCHANGED <<alive, memory, db>> /\ others

deviceUnregistered ==
    /\ op.at = "dev_conns"
    /\ conns' = breakConnections(Ident[op.dev])
    /\ db' = [db EXCEPT !.conns = conns']
    /\ op' = [op EXCEPT !.at = "dev_apps", !.left =
                {a \in apps : Ident[app[a].dev] = Ident[op.dev]}]
    /\ UNCHANGED <<alive, devMgrs, devices, services, apps>> /\ others

\* The applications that depend on the device are released, or a release threw.
dependentsDone ==
    (op.at = "dev_apps" /\ op.left = {}) \/ op.at = "dev_erase"

\* (mutant: the list is not stored)
eraseDeviceInMemory ==
    /\ dependentsDone
    /\ devices' = [devices EXCEPT ![op.dev] = None]
    /\ op' = IF op.mgr # None THEN [op EXCEPT !.at = "mgr_devs", !.dev = None]
             ELSE IF op.obj # None
                  THEN [op EXCEPT !.at = "dev_store", !.dev = None]
             ELSE Idle
    /\ UNCHANGED <<alive, devMgrs, services, conns, apps, db>> /\ others

eraseDevice ==
    /\ dependentsDone
    /\ devices' = [devices EXCEPT ![op.dev] = None]
    /\ db' = [db EXCEPT !.devices = devices']
    /\ op' = IF op.mgr # None THEN [op EXCEPT !.at = "mgr_devs", !.dev = None]
             ELSE IF op.obj # None
                  THEN [op EXCEPT !.at = "dev_store", !.dev = None]
             ELSE Idle
    /\ UNCHANGED <<alive, devMgrs, services, conns, apps>> /\ others

-----------------------------------------------------------------------------
(* Services.                                                               *)

registerService(s) ==
    /\ op = Idle /\ Launcher[s] \in alive
    /\ findDeviceManager(Launcher[s]) # {}
    /\ op' = [At("svc_store") EXCEPT !.obj = s]
    /\ UNCHANGED <<alive, memory, db>> /\ others

\* (mutant: the reference is stored in place of the identifier)
storeServiceReference(s, m) ==
    /\ withIdent(offered, Ident[s]) = {}
    /\ services' = [services EXCEPT ![s] = IF m \in alive THEN m ELSE Unknown]
    /\ db' = [db EXCEPT !.services = services']

\* A name that is taken is refused, by a dead service too.
storeService(s, m) ==
    /\ withIdent(offered, Ident[s]) = {}
    /\ services' = [services EXCEPT ![s] = IF m \in alive THEN Ident[m] ELSE Unknown]
    /\ db' = [db EXCEPT !.services = services']

storeServiceInDomainMgr ==
    /\ op.at = "svc_store"
    /\ \/ storeService(op.obj, Launcher[op.obj]) /\ goto("svc_link")
       \/ /\ withIdent(offered, Ident[op.obj]) # {}
          /\ op' = Idle /\ UNCHANGED <<services, db>>
    /\ UNCHANGED <<alive, devMgrs, devices, conns, apps>> /\ others

serviceRegistered ==
    /\ op.at = "svc_link" /\ op' = Idle
    /\ conns' = tryPendingConnections(Ident[op.obj])
    /\ db' = [db EXCEPT !.conns = conns']
    /\ UNCHANGED <<alive, devMgrs, devices, services, apps>> /\ others

unregisterService(s) ==
    /\ op = Idle /\ s \in offered
    /\ op' = [At("svc_conns") EXCEPT !.svc = s]
    /\ UNCHANGED <<alive, memory, db>> /\ others

\* The list is changed here, and stored once the applications are released.
serviceUnregistered ==
    /\ op.at = "svc_conns"
    /\ conns' = breakConnections(Ident[op.svc])
    /\ db' = [db EXCEPT !.conns = conns']
    /\ services' = [services EXCEPT ![op.svc] = None]
    /\ op' = [op EXCEPT !.at = "svc_apps",
                        !.left = {a \in apps : app[a].svc = Ident[op.svc]}]
    /\ UNCHANGED <<alive, devMgrs, devices, apps>> /\ others

storeServices ==
    /\ op.at = "svc_apps" /\ op.left = {}
    /\ db' = [db EXCEPT !.services = services]
    /\ op' = IF op.mgr = None THEN Idle
             ELSE [op EXCEPT !.at = "mgr_svcs", !.svc = None]
    /\ UNCHANGED <<alive, memory>> /\ others

-----------------------------------------------------------------------------
(***************************************************************************)
(* Applications.  createHelper::create works on a copy of the device list  *)
(* and the application is listed when it is complete; until then it is     *)
(* pending, where unregistration does not look.                            *)
(***************************************************************************)
domain == UNCHANGED <<alive, devMgrs, devices, services, conns, op, fetched,
                      saved, crashes>>

create(a) ==
    /\ op = Idle /\ app[a].at = "new"
    /\ \E d \in registered \cap alive :
          app' = [app EXCEPT ![a] = [at |-> "assigned", dev |-> d, svc |-> None]]
    /\ UNCHANGED <<apps, db>> /\ domain

addPendingApplication(a) ==
    /\ op = Idle /\ app[a].at = "assigned"
    /\ app' = [app EXCEPT ![a].at = "pending"]
    /\ UNCHANGED <<apps, db>> /\ domain

\* Components are loaded, executed and connected, to a service maybe.
deploy(a) ==
    /\ op = Idle /\ app[a].at = "pending" /\ app[a].dev \in alive
    /\ \E n \in {None} \cup {Ident[s] : s \in offered \cap alive} :
          app' = [app EXCEPT ![a].at = "deployed", ![a].svc = n]
    /\ UNCHANGED <<apps, db>> /\ domain

completePendingApplication(a) ==
    /\ op = Idle /\ app[a].at = "deployed"
    /\ app' = [app EXCEPT ![a].at = "active"]
    /\ apps' = apps \cup {a}
    /\ db' = [db EXCEPT !.apps = apps']
    /\ domain

cancelPendingApplication(a) ==
    /\ op = Idle /\ app[a].at \in {"assigned", "pending", "deployed"}
    /\ app' = [app EXCEPT ![a].at = "released"]
    /\ UNCHANGED <<apps, db>> /\ domain

restoring == op.at \in {"down", "r_mgrs", "r_devs", "r_svcs", "r_conns", "r_apps"}

\* A client's releaseObject sets its flag without stateAccess ...
releaseObject(a) ==
    /\ ~ restoring /\ app[a].at = "active"
    /\ app' = [app EXCEPT ![a].at = "releasing"]
    /\ UNCHANGED <<apps, db>> /\ domain

\* (mutant: the list is not stored)
removeApplicationInMemory(a) ==
    /\ op = Idle /\ app[a].at = "releasing"
    /\ app' = [app EXCEPT ![a].at = "released"]
    /\ apps' = apps \ {a}
    /\ UNCHANGED db /\ domain

\* ... and needs it to take the application off the list.
removeApplication(a) ==
    /\ op = Idle /\ app[a].at = "releasing"
    /\ app' = [app EXCEPT ![a].at = "released"]
    /\ apps' = apps \ {a}
    /\ db' = [db EXCEPT !.apps = apps']
    /\ domain

\* (mutant: releaseObject keeps its lock while it waits for stateAccess)
releaseDependentLocked(a) ==
    /\ op.at \in {"dev_apps", "svc_apps"} /\ a \in op.left
    /\ app[a].at = "active"
    /\ app' = [app EXCEPT ![a].at = "released"]
    /\ apps' = apps \ {a}
    /\ db' = [db EXCEPT !.apps = apps']
    /\ op' = [op EXCEPT !.left = @ \ {a}]
    /\ UNCHANGED <<alive, devMgrs, devices, services, conns, fetched, saved, crashes>>

\* Where op releases the applications that depend on what goes away.  One
\* that a client is releasing already is left to the client's thread.
releaseDependent(a) ==
    /\ op.at \in {"dev_apps", "svc_apps"} /\ a \in op.left
    /\ IF app[a].at = "active"
       THEN /\ app' = [app EXCEPT ![a].at = "released"]
            /\ apps' = apps \ {a}
            /\ db' = [db EXCEPT !.apps = apps']
       ELSE UNCHANGED <<app, apps, db>>
    /\ op' = [op EXCEPT !.left = @ \ {a}]
    /\ UNCHANGED <<alive, devMgrs, devices, services, conns, fetched, saved, crashes>>

\* releaseObject throws when it has removed the application.  For a device
\* the others are skipped; for a service the whole call ends.
releaseThrows(a) ==
    /\ "release" \in Environment
    /\ op.at \in {"dev_apps", "svc_apps"} /\ a \in op.left
    /\ app[a].at = "active"
    /\ app' = [app EXCEPT ![a].at = "thrown"]
    /\ apps' = apps \ {a}
    /\ db' = [db EXCEPT !.apps = apps']
    /\ op' = IF op.at = "dev_apps" THEN [op EXCEPT !.at = "dev_erase", !.left = {}]
              ELSE Idle
    /\ UNCHANGED <<alive, devMgrs, devices, services, conns, fetched, saved, crashes>>

-----------------------------------------------------------------------------
(***************************************************************************)
(* restoreState.  Each list is taken out of the store as it is read and    *)
(* comes back to it entry by entry, as the entries are found to be alive.  *)
(***************************************************************************)
fetch(l) ==
    /\ fetched' = [fetched EXCEPT ![l] = db[l]]
    /\ db' = [db EXCEPT ![l] = EmptyLists[l]]

restart ==
    /\ op.at = "down" /\ goto("r_mgrs") /\ fetch("devMgrs")
    /\ UNCHANGED <<alive, memory, app, saved, crashes>>

restoreDeviceManager(m) ==
    /\ op.at = "r_mgrs" /\ m \in fetched.devMgrs
    /\ fetched' = [fetched EXCEPT !.devMgrs = @ \ {m}]
    /\ IF m \in alive /\ findDeviceManager(m) = {}
       THEN /\ devMgrs' = devMgrs \cup {m}
            /\ db' = [db EXCEPT !.devMgrs = devMgrs']
       ELSE UNCHANGED <<devMgrs, db>>
    /\ UNCHANGED <<alive, devices, services, conns, apps, app, op, saved, crashes>>

fetchDevices ==
    /\ op.at = "r_mgrs" /\ fetched.devMgrs = {}
    /\ goto("r_devs") /\ fetch("devices")
    /\ UNCHANGED <<alive, memory, app, saved, crashes>>

restoreDevice(d) ==
    /\ op.at = "r_devs" /\ fetched.devices[d] # None
    /\ fetched' = [fetched EXCEPT !.devices[d] = None]
    /\ storeDevice(d, fetched.devices[d])
    /\ UNCHANGED <<alive, devMgrs, services, conns, apps, app, op, saved, crashes>>

fetchServices ==
    /\ op.at = "r_devs" /\ fetched.devices = NoDevices
    /\ goto("r_svcs") /\ fetch("services")
    /\ UNCHANGED <<alive, memory, app, saved, crashes>>

restoreService(s) ==
    LET M == managersOf(fetched.services[s])
    IN  /\ op.at = "r_svcs" /\ fetched.services[s] # None
        /\ fetched' = [fetched EXCEPT !.services[s] = None]
        /\ \/ \E m \in M : s \in alive /\ storeService(s, m)
           \/ /\ M = {} \/ s \notin alive \/ withIdent(offered, Ident[s]) # {}
              /\ UNCHANGED <<services, db>>
        /\ UNCHANGED <<alive, devMgrs, devices, conns, apps, app, op, saved, crashes>>

\* The connections are the one list that is not written back.
fetchConnections ==
    /\ op.at = "r_svcs" /\ fetched.services = NoServices
    /\ goto("r_conns")
    /\ \E garbage \in [db.conns -> SUBSET Sides] :
          conns' = {restoreConnection(c, garbage[c]) : c \in db.conns}
    /\ db' = [db EXCEPT !.conns = {}]
    /\ UNCHANGED <<alive, devMgrs, devices, services, apps, app, fetched, saved, crashes>>

fetchApplications ==
    /\ op.at = "r_conns" /\ goto("r_apps") /\ fetch("apps")
    /\ UNCHANGED <<alive, memory, app, saved, crashes>>

\* (mutant: an application whose device is not back is given up)
restoreApplicationOnDevice(a) ==
    /\ op.at = "r_apps" /\ a \in fetched.apps
    /\ fetched' = [fetched EXCEPT !.apps = @ \ {a}]
    /\ IF app[a].dev \in registered
       THEN /\ apps' = apps \cup {a}
            /\ db' = [db EXCEPT !.apps = apps']
       ELSE UNCHANGED <<apps, db>>
    /\ UNCHANGED <<alive, devMgrs, devices, services, conns, app, op, saved, crashes>>

\* The naming service still has the application's context: one that is gone, or a
\* naming service that raises, would leave the application out.
restoreApplication(a) ==
    /\ op.at = "r_apps" /\ a \in fetched.apps
    /\ fetched' = [fetched EXCEPT !.apps = @ \ {a}]
    /\ apps' = apps \cup {a}
    /\ db' = [db EXCEPT !.apps = apps']
    /\ UNCHANGED <<alive, devMgrs, devices, services, conns, app, op, saved, crashes>>

restored ==
    /\ op.at = "r_apps" /\ fetched.apps = {}
    /\ op' = Idle /\ saved' = EmptyLists
    /\ UNCHANGED <<alive, memory, app, fetched, db, crashes>>

-----------------------------------------------------------------------------
(* What goes wrong.                                                        *)

\* A crash loses what is in memory, the threads of the applications included.
crash ==
    /\ crashes < MaxCrashes /\ op.at # "down"
    /\ restoring => "restore" \in Environment
    /\ op' = At("down") /\ crashes' = crashes + 1
    /\ devMgrs' = {} /\ devices' = NoDevices /\ services' = NoServices
    /\ conns' = {} /\ apps' = {}
    /\ app' = [a \in Apps |->
                 [app[a] EXCEPT !.at = IF a \in db.apps THEN "active"
                                       ELSE IF @ = "new" THEN "new"
                                       ELSE "released"]]
    /\ saved' = IF restoring THEN db
                ELSE [devMgrs |-> devMgrs, devices |-> devices,
                      services |-> services, conns |-> conns, apps |-> apps]
    /\ fetched' = EmptyLists
    /\ UNCHANGED <<alive, db>>

die(o) ==
    /\ "die" \in Environment /\ o \in alive
    /\ alive' = alive \ {o}
    /\ UNCHANGED <<memory, app, op, fetched, db, saved, crashes>>

-----------------------------------------------------------------------------
\* What clients, DeviceManagers, devices and services may call at any time.
Call ==
    \/ \E m \in Mgrs : registerDeviceManager(m) \/ unregisterDeviceManager(m)
    \/ \E d \in Devs : registerDevice(d) \/ unregisterDevice(d)
    \/ \E s \in Svcs : registerService(s) \/ unregisterService(s)
    \/ \E a \in Apps : create(a) \/ releaseObject(a)

\* The steps of a call that was made, and of restoreState.
Step ==
    \/ checkDeviceManager \/ addDeviceMgr \/ mountDeviceMgr
    \/ deviceManagerUnregistered \/ removeDeviceManagerDevices
    \/ removeDeviceManagerServices \/ removeDeviceManager
    \/ checkDevice \/ storeDeviceInDomainMgr \/ deviceRegistered
    \/ deviceUnregistered \/ eraseDevice
    \/ storeServiceInDomainMgr \/ serviceRegistered
    \/ serviceUnregistered \/ storeServices
    \/ \E a \in Apps : releaseDependent(a) \/ releaseThrows(a)
    \/ restart \/ fetchDevices \/ fetchServices \/ fetchConnections
    \/ fetchApplications \/ restored
    \/ \E m \in Mgrs : restoreDeviceManager(m)
    \/ \E d \in Devs : restoreDevice(d)
    \/ \E s \in Svcs : restoreService(s)
    \/ \E a \in Apps : restoreApplication(a)

\* The thread that creates an application, and the one that releases it.
Creation(a) == addPendingApplication(a) \/ deploy(a)
                 \/ completePendingApplication(a) \/ cancelPendingApplication(a)

Next ==
    \/ Call \/ Step
    \/ \E a \in Apps : Creation(a) \/ removeApplication(a)
    \/ crash
    \/ \E o \in Objects : die(o)

Spec == Init /\ [][Next]_vars

FairSpec == Spec /\ WF_vars(Step)

-----------------------------------------------------------------------------
(* What the registry promises.                                             *)

\* A device or service is registered only as long as its DeviceManager is,
\* whatever unregistration, crash or restart comes between: a DeviceManager
\* is removed after everything it brought, and restored before it.
ManagersRegistered ==
    /\ \A d \in registered : managersOf(Ident[devices[d]]) # {}
    /\ \A s \in offered : services[s] = Unknown \/ managersOf(services[s]) # {}

\* No two registered objects of a kind share an identifier, although every
\* process may be started again before the old registration is gone.
OneRegistrationEach ==
    /\ \A m, n \in devMgrs : Ident[m] = Ident[n] => m = n
    /\ \A d, e \in registered : Ident[d] = Ident[e] => d = e
    /\ \A s, t \in offered : Ident[s] = Ident[t] => s = t

\* The registry is a tree of distinct objects: nothing without its DeviceManager,
\* nothing twice (registerDeviceManager, registerDevice, registerService and
\* their unregistrations, around every crash).
RegistryTrue == ManagersRegistered /\ OneRegistrationEach

\* Between two calls a crash would lose nothing: the lists in the store are
\* the lists in memory.  The list of services is the exception, once a
\* releaseObject has thrown out of unregisterService.
StoreMatchesMemory ==
    op.at = "idle" =>
        /\ db.devMgrs = devMgrs /\ db.devices = devices /\ db.apps = apps
        /\ db.services = services \/ \E a \in Apps : app[a].at = "thrown"

\* What was registered when the DomainManager crashed, in the middle of a call
\* maybe, and still runs when it has restored its state, is registered then; if
\* it crashed while it restored its state, what was in the store at that moment
\* (an application as long as the naming service has its context).
RestoreKeepsLive ==
    /\ saved.devMgrs \cap alive \subseteq devMgrs
    /\ \A d \in Devs \cap alive :
          saved.devices[d] \in saved.devMgrs \cap alive => d \in registered
    /\ \A s \in Svcs \cap alive :
          (\E m \in saved.devMgrs \cap alive : Ident[m] = saved.services[s]) => s \in offered
    /\ saved.apps \subseteq apps

\* An application that is on the list when a device it runs on is unregistered
\* is released first, or a client is releasing it, unless a release throws.
DependentsReleased ==
    \A a \in apps : Ident[app[a].dev] = Ident[op.dev] => app[a].at = "releasing"

\* No step gives up what runs, or leaves running what has lost its device: what
\* survives a crash is restored (restoreState), and an unregistration releases
\* the dependents first (_local_unregisterDevice).
LiveKeptDependentsReleased ==
    [][/\ restored => RestoreKeepsLive
       /\ eraseDevice /\ op.at = "dev_apps" => DependentsReleased]_vars

\* An application that was released, by a client or by an unregistration that
\* raced with it, is never listed again, not by a restart either.
ReleasedStaysGone ==
    \A a \in Apps : app[a].at \in {"released", "thrown"} =>
        a \notin apps \cup db.apps \cup fetched.apps

\* Between two calls a connection whose endpoints are registered and alive is
\* made, unless it holds on to an endpoint it resolved before or the
\* DomainManager was restarted.
ConnectionsMadeIfFresh ==
    op.at = "idle" /\ crashes = 0 =>
        \A c \in conns :
            (\A x \in Sides : /\ lookup(named(c, x)) \in alive
                               /\ side(c, x) \in {None, lookup(named(c, x))})
            => c.connected
=============================================================================
