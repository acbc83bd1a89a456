------------------------- MODULE DomainManagerProofs -------------------------
(***************************************************************************)
(* Proofs that the registry of DomainManager is consistent and its store   *)
(* in step with it, for any objects, identifiers, connections,             *)
(* applications, number of crashes and environment.                        *)
(***************************************************************************)
EXTENDS DomainManager, TLAPS

-----------------------------------------------------------------------------
(* Types.                                                                  *)

\* A lookup finds a registered object or nothing.
LEMMA LookupType ==
    ASSUME NEW id PROVE lookup(id) \in Devs \cup Svcs \cup {None}
<1>1. withIdent(registered \cup offered, id) \subseteq Devs \cup Svcs
    BY DEF withIdent, registered, offered
<1> QED BY <1>1 DEF lookup

\* A connection that has not been resolved is well formed.
LEMMA FreshType ==
    ASSUME NEW k \in Conns PROVE fresh(k) \in Connection
BY DEF fresh, Connection

\* Connecting a connection keeps it well formed.
LEMMA ConnectType ==
    ASSUME NEW c \in Connection PROVE connect(c) \in Connection
<1>1. /\ resolve(c, "uses") \in Devs \cup Svcs \cup {None}
      /\ resolve(c, "provides") \in Devs \cup Svcs \cup {None}
    BY LookupType DEF resolve, side, Connection
<1> DEFINE asked == {x \in Sides \ c.ports : resolve(c, x) # None}
           got   == {x \in asked : resolve(c, x) \in alive \cup Svcs}
           ports == c.ports \cup got
           u     == resolve(c, "uses")
           p     == resolve(c, "provides")
           conn  == ports = Sides /\ u \in alive /\ p \in alive
<1>2. ports \in SUBSET Sides /\ c.invalid \cup (asked \ got) \in SUBSET Sides
    BY DEF Connection
<1>3. conn \in BOOLEAN
    OBVIOUS
<1>4. u \in Devs \cup Svcs \cup {None} /\ p \in Devs \cup Svcs \cup {None}
    BY <1>1
<1>5. connect(c) = [c EXCEPT !.uses = u, !.provides = p, !.ports = ports,
                     !.invalid = @ \cup (asked \ got), !.connected = conn]
    BY DEF connect
<1> HIDE DEF asked, got, ports, u, p, conn
<1> QED BY <1>2, <1>3, <1>4, <1>5 DEF Connection

\* Breaking a connection keeps it well formed.
LEMMA DisconnectType ==
    ASSUME NEW c \in Connection PROVE disconnect(c) \in Connection
BY FreshType DEF disconnect, Connection

\* So does restoring it, whatever its invalidPort_ turns out to be.
LEMMA RestoreConnectionType ==
    ASSUME NEW c \in Connection, NEW g \in SUBSET Sides
    PROVE  restoreConnection(c, g) \in Connection
BY DisconnectType DEF restoreConnection, Connection

\* The operations on the whole list of connections keep its type.
LEMMA ConnectionsType ==
    ASSUME conns \subseteq Connection, NEW id
    PROVE  /\ addConnections(id) \subseteq Connection
           /\ tryPendingConnections(id) \subseteq Connection
           /\ breakConnections(id) \subseteq Connection
<1>1. addConnections(id) \subseteq Connection
    BY FreshType, ConnectType DEF addConnections
<1>2. tryPendingConnections(id) \subseteq Connection
    BY ConnectType DEF tryPendingConnections
<1>3. breakConnections(id) \subseteq Connection
    BY DisconnectType DEF breakConnections
<1> QED BY <1>1, <1>2, <1>3

\* The empty lists are lists.
LEMMA EmptyType == EmptyLists \in Lists
BY DEF EmptyLists, Lists, NoDevices, NoServices

\* A call that has not begun is a value of op.
LEMMA AtType == \A l \in OpValues : At(l) \in Op
BY DEF At, Op

\* What the call under way works on, where the type of op leaves it open: a
\* DeviceManager is registered or replaced only by a DeviceManager of its name.
Shape ==
    /\ op.at \in {"mgr_check", "mgr_add", "mgr_mount"} => op.obj \in Mgrs
    /\ op.at \in {"mgr_conns", "mgr_devs", "mgr_svcs"} => op.mgr # None
    /\ op.mgr # None /\ op.obj # None =>
          op.obj \in Mgrs /\ Ident[op.obj] = Ident[op.mgr]

\* Every step keeps the type invariant.
LEMMA TypeStep == TypeOK /\ Shape /\ [Next]_vars => TypeOK'
<1> SUFFICES ASSUME TypeOK, Shape, [Next]_vars PROVE TypeOK'
    OBVIOUS
<1> USE DEF TypeOK, memory, others, domain, goto
<1>1. ASSUME NEW m \in Mgrs, registerDeviceManager(m) PROVE TypeOK'
    BY <1>1 DEF registerDeviceManager, At, Op, OpValues, Objects
<1>2. ASSUME NEW m \in Mgrs, unregisterDeviceManager(m) PROVE TypeOK'
    BY <1>2 DEF unregisterDeviceManager, At, Op, OpValues
<1>3. ASSUME NEW d \in Devs, registerDevice(d) PROVE TypeOK'
    BY <1>3 DEF registerDevice, At, Op, OpValues, Objects
<1>4. ASSUME NEW d \in Devs, unregisterDevice(d) PROVE TypeOK'
    BY <1>4 DEF unregisterDevice, At, Op, OpValues, findDevice, withIdent, registered
<1>5. ASSUME NEW s \in Svcs, registerService(s) PROVE TypeOK'
    BY <1>5 DEF registerService, At, Op, OpValues, Objects
<1>6. ASSUME NEW s \in Svcs, unregisterService(s) PROVE TypeOK'
    BY <1>6 DEF unregisterService, At, Op, OpValues
<1>7. ASSUME NEW a \in Apps, create(a) PROVE TypeOK'
    BY <1>7 DEF create, App, AppValues, registered
<1>8. ASSUME NEW a \in Apps, releaseObject(a) PROVE TypeOK'
    BY <1>8 DEF releaseObject, App, AppValues
<1>9. CASE checkDeviceManager
  <2>1. op' \in Op /\ alive' \subseteq alive
    <3>1. CASE op' = Idle /\ UNCHANGED alive
      BY <3>1, AtType DEF Idle, OpValues
    <3>2. CASE goto("mgr_add") /\ UNCHANGED alive
      BY <3>2 DEF Op, OpValues
    <3>3. ASSUME NEW n \in managersOf(Ident[op.obj]), NEW D,
                 op' = [op EXCEPT !.at = "mgr_conns", !.mgr = n],
                 alive' = alive \ D
          PROVE  op' \in Op /\ alive' \subseteq alive
      BY <3>3 DEF Op, OpValues, managersOf
    <3> QED BY <1>9, <3>1, <3>2, <3>3 DEF checkDeviceManager
  <2> QED BY <1>9, <2>1 DEF checkDeviceManager
<1>10. CASE addDeviceMgr
  <2>1. op' \in Op
    BY <1>10 DEF addDeviceMgr, At, Idle, Op, OpValues
  <2>2. devMgrs' \subseteq Mgrs /\ db' \in Lists
    <3>1. CASE findDeviceManager(op.obj) = {} /\ op.obj \in alive
      <4>1. op.obj \in Mgrs
        BY <1>10 DEF addDeviceMgr, Shape
      <4> QED BY <1>10, <3>1, <4>1 DEF addDeviceMgr, Lists
    <3> QED BY <1>10, <3>1 DEF addDeviceMgr
  <2> QED BY <1>10, <2>1, <2>2 DEF addDeviceMgr
<1>11. CASE mountDeviceMgr
  <2>1. addConnections(Ident[op.obj]) \subseteq Connection
    BY ConnectionsType
  <2>2. Idle \in Op
    BY AtType DEF Idle, OpValues
  <2> QED BY <1>11, <2>1, <2>2 DEF mountDeviceMgr, Lists
<1>12. CASE deviceManagerUnregistered
    BY <1>12 DEF deviceManagerUnregistered, Op, OpValues, Lists
<1>13. CASE removeDeviceManagerDevices
    BY <1>13 DEF removeDeviceManagerDevices, Op, OpValues, devicesOf, registered
<1>14. CASE removeDeviceManagerServices
    BY <1>14 DEF removeDeviceManagerServices, Op, OpValues, servicesOf, offered
<1>15. CASE removeDeviceManager
    BY <1>15 DEF removeDeviceManager, At, Idle, Op, OpValues, Lists
<1>16. CASE checkDevice
  <2>1. op' \in Op
    <3>1. CASE op' = Idle
      BY <3>1, AtType DEF Idle, OpValues
    <3>2. CASE goto("dev_store")
      BY <3>2 DEF Op, OpValues
    <3>3. ASSUME NEW n \in withIdent(registered, Ident[op.obj]),
                 op' = [op EXCEPT !.at = "dev_conns", !.dev = n]
          PROVE  op' \in Op
      BY <3>3 DEF Op, OpValues, withIdent, registered
    <3> QED BY <1>16, <3>1, <3>2, <3>3 DEF checkDevice
  <2> QED BY <1>16, <2>1 DEF checkDevice
<1>17. CASE storeDeviceInDomainMgr
  <2>1. devices' \in [Devs -> Mgrs \cup {None}] /\ db' \in Lists
    BY <1>17 DEF storeDeviceInDomainMgr, storeDevice, managersOf, Lists
  <2> QED BY <1>17, <2>1 DEF storeDeviceInDomainMgr, At, Idle, Op, OpValues
<1>18. CASE deviceRegistered
  <2>1. tryPendingConnections(Ident[op.obj]) \subseteq Connection
    BY ConnectionsType
  <2>2. Idle \in Op
    BY AtType DEF Idle, OpValues
  <2> QED BY <1>18, <2>1, <2>2 DEF deviceRegistered, Lists
<1>19. CASE deviceUnregistered
  <2>1. breakConnections(Ident[op.dev]) \subseteq Connection
    BY ConnectionsType
  <2>2. op' \in Op
    BY <1>19 DEF deviceUnregistered, Op, OpValues
  <2> QED BY <1>19, <2>1, <2>2 DEF deviceUnregistered, Lists
<1>20. CASE eraseDevice
  <2>1. op' \in Op
    BY <1>20 DEF eraseDevice, At, Idle, Op, OpValues
  <2>2. devices' \in [Devs -> Mgrs \cup {None}]
    BY <1>20 DEF eraseDevice
  <2> QED BY <1>20, <2>1, <2>2 DEF eraseDevice, Lists
<1>21. CASE storeServiceInDomainMgr
  <2>1. Launcher[op.obj] \in alive => Ident[Launcher[op.obj]] \in Idents
    BY DEF Idents
  <2>2. services' \in [Svcs -> Idents \cup {Unknown, None}] /\ db' \in Lists
    BY <1>21, <2>1 DEF storeServiceInDomainMgr, storeService, Lists
  <2>3. op' \in Op
    BY <1>21 DEF storeServiceInDomainMgr, At, Idle, Op, OpValues
  <2> QED BY <1>21, <2>2, <2>3 DEF storeServiceInDomainMgr
<1>22. CASE serviceRegistered
  <2>1. tryPendingConnections(Ident[op.obj]) \subseteq Connection
    BY ConnectionsType
  <2>2. Idle \in Op
    BY AtType DEF Idle, OpValues
  <2> QED BY <1>22, <2>1, <2>2 DEF serviceRegistered, Lists
<1>23. CASE serviceUnregistered
  <2>1. breakConnections(Ident[op.svc]) \subseteq Connection
    BY ConnectionsType
  <2>2. op' \in Op
    BY <1>23 DEF serviceUnregistered, Op, OpValues
  <2>3. services' \in [Svcs -> Idents \cup {Unknown, None}]
    BY <1>23 DEF serviceUnregistered
  <2> QED BY <1>23, <2>1, <2>2, <2>3 DEF serviceUnregistered, Lists
<1>24. CASE storeServices
    BY <1>24 DEF storeServices, At, Idle, Op, OpValues, Lists
<1>25. ASSUME NEW a \in Apps, releaseDependent(a) PROVE TypeOK'
  <2>1. app' \in [Apps -> App]
    BY <1>25 DEF releaseDependent, App, AppValues
  <2>2. op' \in Op
    BY <1>25 DEF releaseDependent, Op
  <2> QED BY <1>25, <2>1, <2>2 DEF releaseDependent, Lists
<1>26. ASSUME NEW a \in Apps, releaseThrows(a) PROVE TypeOK'
  <2>1. app' \in [Apps -> App]
    BY <1>26 DEF releaseThrows, App, AppValues
  <2>2. op' \in Op
    BY <1>26 DEF releaseThrows, At, Idle, Op, OpValues
  <2> QED BY <1>26, <2>1, <2>2 DEF releaseThrows, Lists
<1>27. CASE restart
  <2>1. db' \in Lists /\ fetched' \in Lists
    BY <1>27 DEF restart, fetch, EmptyLists, NoDevices, NoServices, Lists
  <2> QED BY <1>27, <2>1 DEF restart, Op, OpValues
<1>28. CASE fetchDevices
  <2>1. db' \in Lists /\ fetched' \in Lists
    BY <1>28 DEF fetchDevices, fetch, EmptyLists, NoDevices, NoServices, Lists
  <2> QED BY <1>28, <2>1 DEF fetchDevices, Op, OpValues
<1>29. CASE fetchServices
  <2>1. db' \in Lists /\ fetched' \in Lists
    BY <1>29 DEF fetchServices, fetch, EmptyLists, NoDevices, NoServices, Lists
  <2> QED BY <1>29, <2>1 DEF fetchServices, Op, OpValues
<1>30. CASE fetchConnections
  <2>1. db.conns \subseteq Connection
    BY DEF Lists
  <2>2. conns' \subseteq Connection
    BY <1>30, <2>1, RestoreConnectionType DEF fetchConnections
  <2> QED BY <1>30, <2>2 DEF fetchConnections, Lists, Op, OpValues
<1>31. CASE fetchApplications
  <2>1. db' \in Lists /\ fetched' \in Lists
    BY <1>31 DEF fetchApplications, fetch, EmptyLists, NoDevices, NoServices, Lists
  <2> QED BY <1>31, <2>1 DEF fetchApplications, Op, OpValues
<1>32. CASE restored
  <2>1. Idle \in Op
    BY AtType DEF Idle, OpValues
  <2> QED BY <1>32, <2>1, EmptyType DEF restored
<1>33. ASSUME NEW m \in Mgrs, restoreDeviceManager(m) PROVE TypeOK'
    BY <1>33 DEF restoreDeviceManager, Lists
<1>34. ASSUME NEW d \in Devs, restoreDevice(d) PROVE TypeOK'
  <2>1. devices' \in [Devs -> Mgrs \cup {None}] /\ db' \in Lists
    BY <1>34 DEF restoreDevice, storeDevice, managersOf, Lists
  <2>2. fetched' \in Lists
    BY <1>34 DEF restoreDevice, Lists
  <2> QED BY <1>34, <2>1, <2>2 DEF restoreDevice
<1>35. ASSUME NEW s \in Svcs, restoreService(s) PROVE TypeOK'
  <2>1. \A m \in Mgrs : Ident[m] \in Idents
    BY DEF Idents, Objects
  <2>2. services' \in [Svcs -> Idents \cup {Unknown, None}] /\ db' \in Lists
    BY <1>35, <2>1 DEF restoreService, storeService, managersOf, Lists
  <2>3. fetched' \in Lists
    BY <1>35 DEF restoreService, Lists
  <2> QED BY <1>35, <2>2, <2>3 DEF restoreService
<1>36. ASSUME NEW a \in Apps, restoreApplication(a) PROVE TypeOK'
    BY <1>36 DEF restoreApplication, Lists
<1>37. ASSUME NEW a \in Apps, addPendingApplication(a) PROVE TypeOK'
    BY <1>37 DEF addPendingApplication, App, AppValues
<1>38. ASSUME NEW a \in Apps, deploy(a) PROVE TypeOK'
  <2>1. \A s \in Svcs : Ident[s] \in Idents
    BY DEF Idents, Objects
  <2>2. PICK n \in {None} \cup {Ident[s] : s \in offered \cap alive} :
          app' = [app EXCEPT ![a].at = "deployed", ![a].svc = n]
    BY <1>38 DEF deploy
  <2>3. n \in Idents \cup {None}
    BY <2>1 DEF offered
  <2>4. app[a] \in App
    OBVIOUS
  <2>5. app' = [app EXCEPT ![a] = [app[a] EXCEPT !.at = "deployed", !.svc = n]]
    BY <2>2
  <2>6. [app[a] EXCEPT !.at = "deployed", !.svc = n] \in App
    BY <2>3, <2>4 DEF App, AppValues
  <2> QED BY <1>38, <2>5, <2>6 DEF deploy
<1>39. ASSUME NEW a \in Apps, completePendingApplication(a) PROVE TypeOK'
  <2>1. app' \in [Apps -> App]
    BY <1>39 DEF completePendingApplication, App, AppValues
  <2> QED BY <1>39, <2>1 DEF completePendingApplication, Lists
<1>40. ASSUME NEW a \in Apps, cancelPendingApplication(a) PROVE TypeOK'
    BY <1>40 DEF cancelPendingApplication, App, AppValues
<1>41. ASSUME NEW a \in Apps, removeApplication(a) PROVE TypeOK'
  <2>1. app' \in [Apps -> App]
    BY <1>41 DEF removeApplication, App, AppValues
  <2> QED BY <1>41, <2>1 DEF removeApplication, Lists
<1>42. CASE crash
  <2>1. op' \in Op
    BY <1>42, AtType DEF crash, OpValues
  <2>2. app' \in [Apps -> App]
    BY <1>42 DEF crash, App, AppValues
  <2>3. saved' \in Lists
    BY <1>42 DEF crash, Lists
  <2> QED BY <1>42, <2>1, <2>2, <2>3, EmptyType DEF crash, NoDevices, NoServices
<1>43. ASSUME NEW o \in Objects, die(o) PROVE TypeOK'
    BY <1>43 DEF die, TypeOK
<1>44. CASE UNCHANGED vars
    BY <1>44 DEF vars
<1> QED
    BY <1>1, <1>2, <1>3, <1>4, <1>5, <1>6, <1>7, <1>8, <1>9, <1>10, <1>11,
       <1>12, <1>13, <1>14, <1>15, <1>16, <1>17, <1>18, <1>19, <1>20, <1>21, <1>22,
       <1>23, <1>24, <1>25, <1>26, <1>27, <1>28, <1>29, <1>30, <1>31, <1>32, <1>33,
       <1>34, <1>35, <1>36, <1>37, <1>38, <1>39, <1>40, <1>41, <1>42, <1>43, <1>44
    DEF Next, Call, Step, Creation

\* Every step keeps what the call works on in shape.
LEMMA ShapeStep == TypeOK /\ Shape /\ [Next]_vars => Shape'
<1> SUFFICES ASSUME TypeOK, Shape, [Next]_vars PROVE Shape'
    OBVIOUS
<1> USE DEF Shape, goto, domain
<1>1. ASSUME NEW a \in Apps, create(a) PROVE Shape'
    BY <1>1 DEF create
<1>2. ASSUME NEW a \in Apps, releaseObject(a) PROVE Shape'
    BY <1>2 DEF releaseObject
<1>3. ASSUME NEW a \in Apps, addPendingApplication(a) PROVE Shape'
    BY <1>3 DEF addPendingApplication
<1>4. ASSUME NEW a \in Apps, deploy(a) PROVE Shape'
    BY <1>4 DEF deploy
<1>5. ASSUME NEW a \in Apps, completePendingApplication(a) PROVE Shape'
    BY <1>5 DEF completePendingApplication
<1>6. ASSUME NEW a \in Apps, cancelPendingApplication(a) PROVE Shape'
    BY <1>6 DEF cancelPendingApplication
<1>7. ASSUME NEW a \in Apps, removeApplication(a) PROVE Shape'
    BY <1>7 DEF removeApplication
<1>8. ASSUME NEW m \in Mgrs, restoreDeviceManager(m) PROVE Shape'
    BY <1>8 DEF restoreDeviceManager
<1>9. ASSUME NEW d \in Devs, restoreDevice(d) PROVE Shape'
    BY <1>9 DEF restoreDevice
<1>10. ASSUME NEW s \in Svcs, restoreService(s) PROVE Shape'
    BY <1>10 DEF restoreService
<1>11. ASSUME NEW a \in Apps, restoreApplication(a) PROVE Shape'
    BY <1>11 DEF restoreApplication
<1>12. ASSUME NEW o \in Objects, die(o) PROVE Shape'
    BY <1>12 DEF die
<1>13. ASSUME NEW m \in Mgrs, unregisterDeviceManager(m) PROVE Shape'
    BY <1>13, DomainConstants DEF unregisterDeviceManager, At, Objects
<1>14. CASE checkDeviceManager
  <2>1. CASE op' = Idle
    BY <2>1 DEF At, Idle
  <2>2. CASE goto("mgr_add")
    BY <1>14, <2>2 DEF checkDeviceManager, TypeOK, Op
  <2>3. ASSUME NEW n \in managersOf(Ident[op.obj]),
               op' = [op EXCEPT !.at = "mgr_conns", !.mgr = n]
        PROVE  Shape'
    <3>1. n # None /\ Ident[n] = Ident[op.obj]
      BY DomainConstants DEF managersOf, TypeOK, Objects
    <3> QED BY <1>14, <2>3, <3>1 DEF checkDeviceManager, TypeOK, Op
  <2> QED BY <1>14, <2>1, <2>2, <2>3 DEF checkDeviceManager
<1>15. CASE checkDevice
  <2>1. CASE op' = Idle
    BY <2>1 DEF At, Idle
  <2>2. CASE goto("dev_store")
    BY <1>15, <2>2 DEF checkDevice, TypeOK, Op
  <2>3. ASSUME NEW n, op' = [op EXCEPT !.at = "dev_conns", !.dev = n]
        PROVE  Shape'
    BY <1>15, <2>3 DEF checkDevice, TypeOK, Op
  <2> QED BY <1>15, <2>1, <2>2, <2>3 DEF checkDevice
<1>16. ASSUME NEW m \in Mgrs, registerDeviceManager(m) PROVE Shape'
    BY <1>16 DEF registerDeviceManager, At, Idle
<1>17. ASSUME NEW d \in Devs, registerDevice(d) PROVE Shape'
    BY <1>17 DEF registerDevice, At, Idle
<1>18. ASSUME NEW d \in Devs, unregisterDevice(d) PROVE Shape'
    BY <1>18 DEF unregisterDevice, At, Idle
<1>19. ASSUME NEW s \in Svcs, registerService(s) PROVE Shape'
    BY <1>19 DEF registerService, At, Idle
<1>20. ASSUME NEW s \in Svcs, unregisterService(s) PROVE Shape'
    BY <1>20 DEF unregisterService, At, Idle
<1>21. CASE mountDeviceMgr
    BY <1>21 DEF mountDeviceMgr, At, Idle
<1>22. CASE deviceRegistered
    BY <1>22 DEF deviceRegistered, At, Idle
<1>23. CASE serviceRegistered
    BY <1>23 DEF serviceRegistered, At, Idle
<1>24. CASE restored
    BY <1>24 DEF restored, At, Idle
<1>25. CASE crash
    BY <1>25 DEF crash, At, Idle
<1>26. CASE restart
    BY <1>26 DEF restart, At, Idle, TypeOK, Op, fetch
<1>27. CASE fetchDevices
    BY <1>27 DEF fetchDevices, At, Idle, TypeOK, Op, fetch
<1>28. CASE fetchServices
    BY <1>28 DEF fetchServices, At, Idle, TypeOK, Op, fetch
<1>29. CASE fetchConnections
    BY <1>29 DEF fetchConnections, At, Idle, TypeOK, Op, fetch
<1>30. CASE fetchApplications
    BY <1>30 DEF fetchApplications, At, Idle, TypeOK, Op, fetch
<1>31. CASE addDeviceMgr
    BY <1>31 DEF addDeviceMgr, At, Idle, TypeOK, Op, fetch
<1>32. CASE deviceManagerUnregistered
    BY <1>32 DEF deviceManagerUnregistered, At, Idle, TypeOK, Op, fetch
<1>33. CASE removeDeviceManagerDevices
    BY <1>33 DEF removeDeviceManagerDevices, At, Idle, TypeOK, Op, fetch
<1>34. CASE removeDeviceManagerServices
    BY <1>34 DEF removeDeviceManagerServices, At, Idle, TypeOK, Op, fetch
<1>35. CASE removeDeviceManager
    BY <1>35 DEF removeDeviceManager, At, Idle, TypeOK, Op, fetch
<1>36. CASE storeDeviceInDomainMgr
    BY <1>36 DEF storeDeviceInDomainMgr, At, Idle, TypeOK, Op, fetch
<1>37. CASE deviceUnregistered
    BY <1>37 DEF deviceUnregistered, At, Idle, TypeOK, Op, fetch
<1>38. CASE eraseDevice
    BY <1>38 DEF eraseDevice, At, Idle, TypeOK, Op, fetch
<1>39. CASE storeServiceInDomainMgr
    BY <1>39 DEF storeServiceInDomainMgr, At, Idle, TypeOK, Op, fetch
<1>40. CASE serviceUnregistered
    BY <1>40 DEF serviceUnregistered, At, Idle, TypeOK, Op, fetch
<1>41. CASE storeServices
    BY <1>41 DEF storeServices, At, Idle, TypeOK, Op, fetch
<1>42. ASSUME NEW a \in Apps, releaseDependent(a) PROVE Shape'
    BY <1>42 DEF releaseDependent, At, Idle, TypeOK, Op, fetch
<1>43. ASSUME NEW a \in Apps, releaseThrows(a) PROVE Shape'
    BY <1>43 DEF releaseThrows, At, Idle, TypeOK, Op, fetch
<1>44. CASE UNCHANGED vars
    BY <1>44 DEF vars
<1> QED
    BY <1>1, <1>2, <1>3, <1>4, <1>5, <1>6, <1>7, <1>8, <1>9, <1>10, <1>11,
       <1>12, <1>13, <1>14, <1>15, <1>16, <1>17, <1>18, <1>19, <1>20, <1>21, <1>22,
       <1>23, <1>24, <1>25, <1>26, <1>27, <1>28, <1>29, <1>30, <1>31, <1>32, <1>33,
       <1>34, <1>35, <1>36, <1>37, <1>38, <1>39, <1>40, <1>41, <1>42, <1>43, <1>44
    DEF Next, Call, Step, Creation

\* A new domain is well typed.
LEMMA InitTypes == Init => TypeOK /\ Shape
<1> SUFFICES ASSUME Init PROVE TypeOK /\ Shape
  OBVIOUS
<1>1. op \in Op
  BY AtType DEF Init, Idle, OpValues
<1>2. app \in [Apps -> App]
  BY DEF Init, App, AppValues
<1>3. TypeOK
  BY <1>1, <1>2, EmptyType DEF Init, TypeOK, NoDevices, NoServices
<1>4. Shape
  BY DEF Init, Shape, Idle, At
<1> QED BY <1>3, <1>4

\* TypeOK is an invariant: every list, in memory, in the store or read back from
\* it, has the type the code declares for it, and so has the call under way.
THEOREM TypeCorrect == Spec => []TypeOK
<1>1. (TypeOK /\ Shape) /\ [Next]_vars => (TypeOK /\ Shape)'
  BY TypeStep, ShapeStep
<1> QED BY <1>1, InitTypes, PTL DEF Spec

-----------------------------------------------------------------------------
(* The registry.                                                           *)

\* What has to hold inside a call for the registry to be consistent: the
\* DeviceManager being removed is registered, and has lost its devices when
\* its services are removed; no registration stands under the identifier of
\* one being added; what a service is registered with is registered.
Consistent ==
    /\ ManagersRegistered /\ OneRegistrationEach
    /\ op.mgr # None => op.mgr \in devMgrs
    /\ op.mgr # None /\ op.at \in {"mgr_svcs", "svc_conns", "svc_apps"}
          => devicesOf(Ident[op.mgr]) = {}
    /\ op.at = "mgr_add" => managersOf(Ident[op.obj]) = {}
    /\ op.at = "mgr_mount" =>
          devicesOf(Ident[op.obj]) = {} /\ servicesOf(Ident[op.obj]) = {}
    /\ op.at = "svc_store" => managersOf(Ident[Launcher[op.obj]]) # {}

\* Storing a device keeps the registry consistent: it is stored only under a
\* DeviceManager that is registered, and only if its identifier is free.
LEMMA DeviceStored ==
    ASSUME TypeOK, ManagersRegistered, OneRegistrationEach, NEW d, NEW m,
           storeDevice(d, m), UNCHANGED <<devMgrs, services>>
    PROVE  ManagersRegistered' /\ OneRegistrationEach'
<1> USE DEF ManagersRegistered, OneRegistrationEach, registered, offered,
            managersOf
<1>1. CASE storable(d, m)
  <2>1. PICK n \in managersOf(Ident[m]) : devices' = [devices EXCEPT ![d] = n]
    BY <1>1 DEF storeDevice
  <2>2. \A e \in registered : Ident[e] # Ident[d]
    BY <1>1 DEF storable, findDevice, withIdent
  <2>3. \A e \in registered' : e # d => e \in registered /\ devices'[e] = devices[e]
    BY <2>1 DEF TypeOK
  <2>4. d \in registered' => devices'[d] = n
    BY <2>1 DEF TypeOK
  <2> QED BY <2>1, <2>2, <2>3, <2>4
<1>2. CASE ~ storable(d, m)
  BY <1>2 DEF storeDevice
<1> QED BY <1>1, <1>2

\* So does storing a service under the identifier of a registered DeviceManager.
LEMMA ServiceStored ==
    ASSUME TypeOK, ManagersRegistered, OneRegistrationEach, NEW s, NEW m,
           storeService(s, m), managersOf(Ident[m]) # {},
           UNCHANGED <<devMgrs, devices>>
    PROVE  ManagersRegistered' /\ OneRegistrationEach'
<1> USE DEF ManagersRegistered, OneRegistrationEach, registered, offered,
            managersOf
<1>1. \A t \in offered : Ident[t] # Ident[s]
  BY DEF storeService, withIdent
<1>2. \A t \in offered' : t # s => t \in offered /\ services'[t] = services[t]
  BY DEF storeService, TypeOK
<1>3. s \in offered' => services'[s] \in {Ident[m], Unknown}
  BY DEF storeService, TypeOK
<1> QED BY <1>1, <1>2, <1>3

\* Every step keeps the registry consistent.
LEMMA ConsistentStep == TypeOK /\ Shape /\ Consistent /\ [Next]_vars => Consistent'
<1> SUFFICES ASSUME TypeOK, Shape, Consistent, [Next]_vars PROVE Consistent'
    OBVIOUS
<1> USE DEF Consistent, ManagersRegistered, OneRegistrationEach, registered, offered, managersOf, devicesOf, servicesOf,
           goto, domain, memory, others
<1>1. ASSUME NEW a \in Apps, create(a) PROVE Consistent'
    BY <1>1 DEF create
<1>2. ASSUME NEW a \in Apps, releaseObject(a) PROVE Consistent'
    BY <1>2 DEF releaseObject
<1>3. ASSUME NEW a \in Apps, addPendingApplication(a) PROVE Consistent'
    BY <1>3 DEF addPendingApplication
<1>4. ASSUME NEW a \in Apps, deploy(a) PROVE Consistent'
    BY <1>4 DEF deploy
<1>5. ASSUME NEW a \in Apps, completePendingApplication(a) PROVE Consistent'
    BY <1>5 DEF completePendingApplication
<1>6. ASSUME NEW a \in Apps, cancelPendingApplication(a) PROVE Consistent'
    BY <1>6 DEF cancelPendingApplication
<1>7. ASSUME NEW a \in Apps, removeApplication(a) PROVE Consistent'
    BY <1>7 DEF removeApplication
<1>8. ASSUME NEW o \in Objects, die(o) PROVE Consistent'
    BY <1>8 DEF die
<1>9. ASSUME NEW a \in Apps, restoreApplication(a) PROVE Consistent'
    BY <1>9 DEF restoreApplication
<1>10. ASSUME NEW m \in Mgrs, registerDeviceManager(m) PROVE Consistent'
    BY <1>10 DEF registerDeviceManager, At, Idle
<1>11. ASSUME NEW d \in Devs, registerDevice(d) PROVE Consistent'
    BY <1>11 DEF registerDevice, At, Idle
<1>12. ASSUME NEW d \in Devs, unregisterDevice(d) PROVE Consistent'
    BY <1>12 DEF unregisterDevice, At, Idle
<1>13. ASSUME NEW s \in Svcs, unregisterService(s) PROVE Consistent'
    BY <1>13 DEF unregisterService, At, Idle
<1>14. CASE deviceRegistered
    BY <1>14 DEF deviceRegistered, At, Idle
<1>15. CASE serviceRegistered
    BY <1>15 DEF serviceRegistered, At, Idle
<1>16. CASE restored
    BY <1>16 DEF restored, At, Idle
<1>17. ASSUME NEW m \in Mgrs, unregisterDeviceManager(m) PROVE Consistent'
    BY <1>17 DEF unregisterDeviceManager, At, findDeviceManager
<1>18. ASSUME NEW s \in Svcs, registerService(s) PROVE Consistent'
    BY <1>18 DEF registerService, At, findDeviceManager
<1>19. CASE deviceManagerUnregistered
    BY <1>19 DEF deviceManagerUnregistered, At, Idle, TypeOK, Op, fetch
<1>20. CASE removeDeviceManagerServices
    BY <1>20 DEF removeDeviceManagerServices, At, Idle, TypeOK, Op, fetch
<1>21. CASE deviceUnregistered
    BY <1>21 DEF deviceUnregistered, At, Idle, TypeOK, Op, fetch
<1>22. CASE storeServices
    BY <1>22 DEF storeServices, At, Idle, TypeOK, Op, fetch
<1>23. ASSUME NEW a \in Apps, releaseDependent(a) PROVE Consistent'
    BY <1>23 DEF releaseDependent, At, Idle, TypeOK, Op, fetch
<1>24. ASSUME NEW a \in Apps, releaseThrows(a) PROVE Consistent'
    BY <1>24 DEF releaseThrows, At, Idle, TypeOK, Op, fetch
<1>25. CASE restart
    BY <1>25 DEF restart, At, Idle, TypeOK, Op, fetch
<1>26. CASE fetchDevices
    BY <1>26 DEF fetchDevices, At, Idle, TypeOK, Op, fetch
<1>27. CASE fetchServices
    BY <1>27 DEF fetchServices, At, Idle, TypeOK, Op, fetch
<1>28. CASE fetchConnections
    BY <1>28 DEF fetchConnections, At, Idle, TypeOK, Op, fetch
<1>29. CASE fetchApplications
    BY <1>29 DEF fetchApplications, At, Idle, TypeOK, Op, fetch
<1>30. CASE removeDeviceManagerDevices
  <2>0. op.at = "mgr_devs" /\ UNCHANGED <<devMgrs, devices, services>>
    BY <1>30 DEF removeDeviceManagerDevices
  <2>1. CASE devicesOf(Ident[op.mgr]) = {} /\ goto("mgr_svcs")
    BY <2>0, <2>1 DEF TypeOK, Op
  <2>2. ASSUME NEW d, op' = [op EXCEPT !.at = "dev_conns", !.dev = d]
        PROVE  Consistent'
    BY <2>0, <2>2 DEF TypeOK, Op
  <2> QED BY <1>30, <2>1, <2>2 DEF removeDeviceManagerDevices
<1>31. CASE crash
    BY <1>31 DEF crash, At, NoDevices, NoServices
<1>32. CASE mountDeviceMgr
    BY <1>32 DEF mountDeviceMgr, At, Idle, TypeOK, Op, Shape
<1>33. CASE removeDeviceManager
    BY <1>33 DEF removeDeviceManager, At, Idle, TypeOK, Op, Shape
<1>34. CASE eraseDevice
    BY <1>34 DEF eraseDevice, At, Idle, TypeOK, Op, Shape
<1>35. CASE serviceUnregistered
    BY <1>35 DEF serviceUnregistered, At, Idle, TypeOK, Op, Shape
<1>36. CASE checkDeviceManager
  <2>0. op.at = "mgr_check" /\ UNCHANGED <<devMgrs, devices, services>>
    BY <1>36 DEF checkDeviceManager
  <2>1. CASE op' = Idle
    BY <2>0, <2>1 DEF At, Idle
  <2>2. CASE managersOf(Ident[op.obj]) = {} /\ goto("mgr_add")
    BY <2>0, <2>2 DEF TypeOK, Op
  <2>3. ASSUME NEW n \in managersOf(Ident[op.obj]),
               op' = [op EXCEPT !.at = "mgr_conns", !.mgr = n]
        PROVE  Consistent'
    BY <2>0, <2>3 DEF TypeOK, Op
  <2> QED BY <1>36, <2>1, <2>2, <2>3 DEF checkDeviceManager
<1>37. CASE checkDevice
  <2>0. op.at = "dev_check" /\ UNCHANGED <<devMgrs, devices, services>>
    BY <1>37 DEF checkDevice
  <2>1. CASE op' = Idle
    BY <2>0, <2>1 DEF At, Idle
  <2>2. CASE goto("dev_store")
    BY <2>0, <2>2 DEF TypeOK, Op
  <2>3. ASSUME NEW n, op' = [op EXCEPT !.at = "dev_conns", !.dev = n]
        PROVE  Consistent'
    BY <2>0, <2>3 DEF TypeOK, Op
  <2> QED BY <1>37, <2>1, <2>2, <2>3 DEF checkDevice
<1>38. CASE addDeviceMgr
  <2>1. op.obj \in Mgrs /\ managersOf(Ident[op.obj]) = {}
    BY <1>38 DEF addDeviceMgr, Shape
  <2>2. findDeviceManager(op.obj) = {}
    BY <2>1 DEF findDeviceManager
  <2>3. devicesOf(Ident[op.obj]) = {} /\ servicesOf(Ident[op.obj]) = {}
    BY <2>1, DomainConstants DEF TypeOK, Idents, Objects
  <2>4. CASE op.obj \in alive
    <3>1. /\ devMgrs' = devMgrs \cup {op.obj}
          /\ UNCHANGED <<devices, services>>
          /\ op' = [op EXCEPT !.at = "mgr_mount"]
      BY <1>38, <2>2, <2>4 DEF addDeviceMgr
    <3>2. ManagersRegistered' /\ OneRegistrationEach'
      BY <2>1, <3>1
    <3> QED BY <2>3, <3>1, <3>2 DEF TypeOK, Op
  <2>5. CASE op.obj \notin alive
    BY <1>38, <2>2, <2>5 DEF addDeviceMgr, At, Idle
  <2> QED BY <2>4, <2>5
<1>39. CASE storeDeviceInDomainMgr
  <2>1. ManagersRegistered' /\ OneRegistrationEach'
    BY <1>39, DeviceStored DEF storeDeviceInDomainMgr
  <2> QED BY <1>39, <2>1 DEF storeDeviceInDomainMgr, At, Idle, TypeOK, Op
<1>40. ASSUME NEW d \in Devs, restoreDevice(d) PROVE Consistent'
  <2>1. ManagersRegistered' /\ OneRegistrationEach'
    BY <1>40, DeviceStored DEF restoreDevice
  <2> QED BY <1>40, <2>1 DEF restoreDevice, TypeOK, Op
<1>41. CASE storeServiceInDomainMgr
  <2>1. CASE storeService(op.obj, Launcher[op.obj]) /\ goto("svc_link")
    <3>1. ManagersRegistered' /\ OneRegistrationEach'
      BY <1>41, <2>1, ServiceStored DEF storeServiceInDomainMgr
    <3> QED BY <1>41, <2>1, <3>1 DEF storeServiceInDomainMgr, TypeOK, Op
  <2>2. CASE op' = Idle /\ UNCHANGED services
    BY <1>41, <2>2 DEF storeServiceInDomainMgr, At, Idle
  <2> QED BY <1>41, <2>1, <2>2 DEF storeServiceInDomainMgr
<1>42. ASSUME NEW s \in Svcs, restoreService(s) PROVE Consistent'
  <2>1. ASSUME NEW m \in managersOf(fetched.services[s]), storeService(s, m)
        PROVE  ManagersRegistered' /\ OneRegistrationEach'
    BY <1>42, <2>1, ServiceStored DEF restoreService
  <2>2. CASE UNCHANGED services
    BY <1>42, <2>2 DEF restoreService
  <2> QED BY <1>42, <2>1, <2>2 DEF restoreService, TypeOK, Op
<1>43. ASSUME NEW m \in Mgrs, restoreDeviceManager(m) PROVE Consistent'
  <2>1. CASE m \in alive /\ findDeviceManager(m) = {}
    <3>1. devMgrs' = devMgrs \cup {m} /\ managersOf(Ident[m]) = {}
      BY <1>43, <2>1 DEF restoreDeviceManager, findDeviceManager
    <3>2. ManagersRegistered' /\ OneRegistrationEach'
      BY <1>43, <3>1 DEF restoreDeviceManager
    <3> QED BY <1>43, <3>1, <3>2 DEF restoreDeviceManager, TypeOK, Op
  <2>2. CASE UNCHANGED devMgrs
    BY <1>43, <2>2 DEF restoreDeviceManager
  <2> QED BY <1>43, <2>1, <2>2 DEF restoreDeviceManager
<1>44. CASE UNCHANGED vars
    BY <1>44 DEF vars
<1> QED
    BY <1>1, <1>2, <1>3, <1>4, <1>5, <1>6, <1>7, <1>8, <1>9, <1>10, <1>11,
       <1>12, <1>13, <1>14, <1>15, <1>16, <1>17, <1>18, <1>19, <1>20, <1>21, <1>22,
       <1>23, <1>24, <1>25, <1>26, <1>27, <1>28, <1>29, <1>30, <1>31, <1>32, <1>33,
       <1>34, <1>35, <1>36, <1>37, <1>38, <1>39, <1>40, <1>41, <1>42, <1>43, <1>44
    DEF Next, Call, Step, Creation

\* Where a registration goes on after the check for an old one.
LEMMA CheckedAt ==
    ASSUME TypeOK
    PROVE  /\ checkDeviceManager => op'.at \in {"idle", "mgr_add", "mgr_conns"}
           /\ checkDevice => op'.at \in {"idle", "dev_store", "dev_conns"}
<1>1. op' = Idle => op'.at = "idle"
  BY DEF Idle, At
<1>2. \A l : goto(l) => op'.at = l
  BY DEF goto, TypeOK, Op
<1>3. \A n : op' = [op EXCEPT !.at = "mgr_conns", !.mgr = n] => op'.at = "mgr_conns"
  BY DEF TypeOK, Op
<1>4. \A n : op' = [op EXCEPT !.at = "dev_conns", !.dev = n] => op'.at = "dev_conns"
  BY DEF TypeOK, Op
<1>5. checkDeviceManager => op'.at \in {"idle", "mgr_add", "mgr_conns"}
  BY <1>1, <1>2, <1>3 DEF checkDeviceManager
<1>6. checkDevice => op'.at \in {"idle", "dev_store", "dev_conns"}
  BY <1>1, <1>2, <1>4 DEF checkDevice
<1> QED BY <1>5, <1>6

\* The registry is consistent through every unregistration, re-registration,
\* crash and restart: a device or service belongs to a registered
\* DeviceManager and no identifier is registered twice.
THEOREM RegistryConsistent == Spec => []RegistryTrue
<1> DEFINE Inv == TypeOK /\ Shape /\ Consistent
<1>1. Init => Inv
  BY InitTypes DEF Init, Consistent, ManagersRegistered, OneRegistrationEach,
                   registered, offered, NoDevices, NoServices, Idle, At
<1>2. Inv /\ [Next]_vars => Inv'
  BY TypeStep, ShapeStep, ConsistentStep
<1>3. Inv => RegistryTrue
  BY DEF Consistent, RegistryTrue
<1> QED BY <1>1, <1>2, <1>3, PTL DEF Spec

-----------------------------------------------------------------------------
(* The store.                                                              *)

\* Where the store and the memory may differ: a list is empty in memory until
\* restoreState reads it, and the list of services is behind while the
\* applications that use a service are released.
InStep ==
    /\ IF op.at = "down" THEN devMgrs = {} ELSE db.devMgrs = devMgrs
    /\ IF op.at \in {"down", "r_mgrs"} THEN devices = NoDevices
       ELSE db.devices = devices
    /\ IF op.at \in {"down", "r_mgrs", "r_devs"} THEN services = NoServices
       ELSE op.at = "svc_apps" \/ (\E a \in Apps : app[a].at = "thrown")
              \/ db.services = services
    /\ IF op.at \in {"down", "r_mgrs", "r_devs", "r_svcs", "r_conns"}
       THEN apps = {} ELSE db.apps = apps

\* Every step keeps the store in step with the memory.
LEMMA InStepStep == TypeOK /\ InStep /\ [Next]_vars => InStep'
<1> SUFFICES ASSUME TypeOK, InStep, [Next]_vars PROVE InStep'
    OBVIOUS
<1> USE DEF InStep, goto, domain, memory, others
<1>1. ASSUME NEW a \in Apps, create(a) PROVE InStep'
    BY <1>1 DEF create, TypeOK, Lists, Idle, At
<1>2. ASSUME NEW a \in Apps, releaseObject(a) PROVE InStep'
    BY <1>2 DEF releaseObject, TypeOK, Lists, Idle, At
<1>3. ASSUME NEW a \in Apps, addPendingApplication(a) PROVE InStep'
    BY <1>3 DEF addPendingApplication, TypeOK, Lists, Idle, At
<1>4. ASSUME NEW a \in Apps, deploy(a) PROVE InStep'
    BY <1>4 DEF deploy, TypeOK, Lists, Idle, At
<1>5. ASSUME NEW a \in Apps, completePendingApplication(a) PROVE InStep'
    BY <1>5 DEF completePendingApplication, TypeOK, Lists, Idle, At
<1>6. ASSUME NEW a \in Apps, cancelPendingApplication(a) PROVE InStep'
    BY <1>6 DEF cancelPendingApplication, TypeOK, Lists, Idle, At
<1>7. ASSUME NEW a \in Apps, removeApplication(a) PROVE InStep'
    BY <1>7 DEF removeApplication, TypeOK, Lists, Idle, At
<1>8. ASSUME NEW o \in Objects, die(o) PROVE InStep'
    BY <1>8 DEF die, TypeOK, Lists, Idle, At
<1>9. ASSUME NEW m \in Mgrs, registerDeviceManager(m) PROVE InStep'
    BY <1>9 DEF registerDeviceManager, At, Idle
<1>10. ASSUME NEW m \in Mgrs, unregisterDeviceManager(m) PROVE InStep'
    BY <1>10 DEF unregisterDeviceManager, At, Idle
<1>11. ASSUME NEW d \in Devs, registerDevice(d) PROVE InStep'
    BY <1>11 DEF registerDevice, At, Idle
<1>12. ASSUME NEW d \in Devs, unregisterDevice(d) PROVE InStep'
    BY <1>12 DEF unregisterDevice, At, Idle
<1>13. ASSUME NEW s \in Svcs, registerService(s) PROVE InStep'
    BY <1>13 DEF registerService, At, Idle
<1>14. ASSUME NEW s \in Svcs, unregisterService(s) PROVE InStep'
    BY <1>14 DEF unregisterService, At, Idle
<1>15. ASSUME NEW m \in Mgrs, restoreDeviceManager(m) PROVE InStep'
    BY <1>15 DEF restoreDeviceManager, TypeOK, Lists, storeDevice, storeService
<1>16. ASSUME NEW d \in Devs, restoreDevice(d) PROVE InStep'
    BY <1>16 DEF restoreDevice, TypeOK, Lists, storeDevice, storeService
<1>17. ASSUME NEW s \in Svcs, restoreService(s) PROVE InStep'
    BY <1>17 DEF restoreService, TypeOK, Lists, storeDevice, storeService
<1>18. ASSUME NEW a \in Apps, restoreApplication(a) PROVE InStep'
    BY <1>18 DEF restoreApplication, TypeOK, Lists, storeDevice, storeService
<1>19. CASE restart
    BY <1>19 DEF restart, fetch, EmptyLists, TypeOK, Lists, Op
<1>20. CASE fetchDevices
    BY <1>20 DEF fetchDevices, fetch, EmptyLists, TypeOK, Lists, Op
<1>21. CASE fetchServices
    BY <1>21 DEF fetchServices, fetch, EmptyLists, TypeOK, Lists, Op
<1>22. CASE fetchConnections
    BY <1>22 DEF fetchConnections, fetch, EmptyLists, TypeOK, Lists, Op
<1>23. CASE fetchApplications
    BY <1>23 DEF fetchApplications, fetch, EmptyLists, TypeOK, Lists, Op
<1>24. CASE checkDeviceManager
  <2>1. op.at = "mgr_check" /\ UNCHANGED <<memory, fetched, app, db>>
    BY <1>24 DEF checkDeviceManager
  <2>2. op'.at \in {"idle", "mgr_add", "mgr_conns"}
    BY <1>24, CheckedAt
  <2> QED BY <2>1, <2>2
<1>25. CASE checkDevice
  <2>1. op.at = "dev_check" /\ UNCHANGED <<memory, fetched, app, db>>
    BY <1>25 DEF checkDevice
  <2>2. op'.at \in {"idle", "dev_store", "dev_conns"}
    BY <1>25, CheckedAt
  <2> QED BY <2>1, <2>2
<1>26. CASE mountDeviceMgr
    BY <1>26 DEF mountDeviceMgr, At, Idle, TypeOK, Lists, Op, storeDevice, storeService
<1>27. CASE deviceRegistered
    BY <1>27 DEF deviceRegistered, At, Idle, TypeOK, Lists, Op, storeDevice, storeService
<1>28. CASE serviceRegistered
    BY <1>28 DEF serviceRegistered, At, Idle, TypeOK, Lists, Op, storeDevice, storeService
<1>29. CASE restored
    BY <1>29 DEF restored, At, Idle, TypeOK, Lists, Op, storeDevice, storeService
<1>30. CASE crash
    BY <1>30 DEF crash, At, Idle, TypeOK, Lists, Op, storeDevice, storeService
<1>31. CASE addDeviceMgr
    BY <1>31 DEF addDeviceMgr, At, Idle, TypeOK, Lists, Op, storeDevice, storeService
<1>32. CASE deviceManagerUnregistered
    BY <1>32 DEF deviceManagerUnregistered, At, Idle, TypeOK, Lists, Op, storeDevice, storeService
<1>33. CASE removeDeviceManagerDevices
    BY <1>33 DEF removeDeviceManagerDevices, At, Idle, TypeOK, Lists, Op, storeDevice, storeService
<1>34. CASE removeDeviceManagerServices
    BY <1>34 DEF removeDeviceManagerServices, At, Idle, TypeOK, Lists, Op, storeDevice, storeService
<1>35. CASE removeDeviceManager
    BY <1>35 DEF removeDeviceManager, At, Idle, TypeOK, Lists, Op, storeDevice, storeService
<1>36. CASE storeDeviceInDomainMgr
    BY <1>36 DEF storeDeviceInDomainMgr, At, Idle, TypeOK, Lists, Op, storeDevice, storeService
<1>37. CASE deviceUnregistered
    BY <1>37 DEF deviceUnregistered, At, Idle, TypeOK, Lists, Op, storeDevice, storeService
<1>38. CASE eraseDevice
    BY <1>38 DEF eraseDevice, dependentsDone, At, Idle, TypeOK, Lists, Op, storeDevice, storeService
<1>39. CASE storeServiceInDomainMgr
    BY <1>39 DEF storeServiceInDomainMgr, At, Idle, TypeOK, Lists, Op, storeDevice, storeService
<1>40. CASE serviceUnregistered
    BY <1>40 DEF serviceUnregistered, At, Idle, TypeOK, Lists, Op, storeDevice, storeService
<1>41. CASE storeServices
    BY <1>41 DEF storeServices, At, Idle, TypeOK, Lists, Op, storeDevice, storeService
<1>42. ASSUME NEW a \in Apps, releaseDependent(a) PROVE InStep'
    BY <1>42 DEF releaseDependent, At, Idle, TypeOK, Lists, Op, storeDevice, storeService
<1>43. ASSUME NEW a \in Apps, releaseThrows(a) PROVE InStep'
    BY <1>43 DEF releaseThrows, At, Idle, TypeOK, Lists, Op, storeDevice, storeService
<1>44. CASE UNCHANGED vars
    BY <1>44 DEF vars
<1> QED
    BY <1>1, <1>2, <1>3, <1>4, <1>5, <1>6, <1>7, <1>8, <1>9, <1>10, <1>11,
       <1>12, <1>13, <1>14, <1>15, <1>16, <1>17, <1>18, <1>19, <1>20, <1>21, <1>22,
       <1>23, <1>24, <1>25, <1>26, <1>27, <1>28, <1>29, <1>30, <1>31, <1>32, <1>33,
       <1>34, <1>35, <1>36, <1>37, <1>38, <1>39, <1>40, <1>41, <1>42, <1>43, <1>44
    DEF Next, Call, Step, Creation

\* Between two calls the lists in the store are the lists in memory, whatever
\* crashes and restarts came before.
THEOREM StoreInStep == Spec => []StoreMatchesMemory
<1> DEFINE Inv == TypeOK /\ Shape /\ InStep
<1>1. Init => Inv
  BY InitTypes DEF Init, InStep, Idle, At, EmptyLists
<1>2. Inv /\ [Next]_vars => Inv'
  BY TypeStep, ShapeStep, InStepStep
<1>3. Inv => StoreMatchesMemory
  BY DEF InStep, StoreMatchesMemory
<1> QED BY <1>1, <1>2, <1>3, PTL DEF Spec

-----------------------------------------------------------------------------
(* Applications.                                                           *)

\* What is listed, stored or being restored is an application that runs or that
\* a client is releasing.
Listed ==
    /\ op.at # "r_apps" => fetched.apps = {}
    /\ \A a \in apps \cup db.apps \cup fetched.apps :
          app[a].at \in {"active", "releasing"}

\* Every step keeps it so.
LEMMA ListedStep == TypeOK /\ Listed /\ [Next]_vars => Listed'
<1> SUFFICES ASSUME TypeOK, Listed, [Next]_vars PROVE Listed'
    OBVIOUS
<1> USE DEF Listed, goto, domain, memory, others
<1>1. ASSUME NEW a \in Apps, create(a) PROVE Listed'
    BY <1>1 DEF create, TypeOK, Lists, Idle, At, App, restoring
<1>2. ASSUME NEW a \in Apps, releaseObject(a) PROVE Listed'
    BY <1>2 DEF releaseObject, TypeOK, Lists, Idle, At, App, restoring
<1>3. ASSUME NEW a \in Apps, addPendingApplication(a) PROVE Listed'
    BY <1>3 DEF addPendingApplication, TypeOK, Lists, Idle, At, App, restoring
<1>4. ASSUME NEW a \in Apps, deploy(a) PROVE Listed'
    BY <1>4 DEF deploy, TypeOK, Lists, Idle, At, App, restoring
<1>5. ASSUME NEW a \in Apps, completePendingApplication(a) PROVE Listed'
    BY <1>5 DEF completePendingApplication, TypeOK, Lists, Idle, At, App, restoring
<1>6. ASSUME NEW a \in Apps, cancelPendingApplication(a) PROVE Listed'
    BY <1>6 DEF cancelPendingApplication, TypeOK, Lists, Idle, At, App, restoring
<1>7. ASSUME NEW a \in Apps, removeApplication(a) PROVE Listed'
    BY <1>7 DEF removeApplication, TypeOK, Lists, Idle, At, App, restoring
<1>8. ASSUME NEW o \in Objects, die(o) PROVE Listed'
    BY <1>8 DEF die, At, Idle
<1>9. ASSUME NEW m \in Mgrs, registerDeviceManager(m) PROVE Listed'
    BY <1>9 DEF registerDeviceManager, At, Idle
<1>10. ASSUME NEW m \in Mgrs, unregisterDeviceManager(m) PROVE Listed'
    BY <1>10 DEF unregisterDeviceManager, At, Idle
<1>11. ASSUME NEW d \in Devs, registerDevice(d) PROVE Listed'
    BY <1>11 DEF registerDevice, At, Idle
<1>12. ASSUME NEW d \in Devs, unregisterDevice(d) PROVE Listed'
    BY <1>12 DEF unregisterDevice, At, Idle
<1>13. ASSUME NEW s \in Svcs, registerService(s) PROVE Listed'
    BY <1>13 DEF registerService, At, Idle
<1>14. ASSUME NEW s \in Svcs, unregisterService(s) PROVE Listed'
    BY <1>14 DEF unregisterService, At, Idle
<1>15. ASSUME NEW m \in Mgrs, restoreDeviceManager(m) PROVE Listed'
    BY <1>15 DEF restoreDeviceManager, TypeOK, Lists, storeDevice, storeService
<1>16. ASSUME NEW d \in Devs, restoreDevice(d) PROVE Listed'
    BY <1>16 DEF restoreDevice, TypeOK, Lists, storeDevice, storeService
<1>17. ASSUME NEW s \in Svcs, restoreService(s) PROVE Listed'
    BY <1>17 DEF restoreService, TypeOK, Lists, storeDevice, storeService
<1>18. ASSUME NEW a \in Apps, restoreApplication(a) PROVE Listed'
    BY <1>18 DEF restoreApplication, TypeOK, Lists, storeDevice, storeService
<1>19. CASE restart
    BY <1>19 DEF restart, fetch, EmptyLists, TypeOK, Lists, Op
<1>20. CASE fetchDevices
    BY <1>20 DEF fetchDevices, fetch, EmptyLists, TypeOK, Lists, Op
<1>21. CASE fetchServices
    BY <1>21 DEF fetchServices, fetch, EmptyLists, TypeOK, Lists, Op
<1>22. CASE fetchConnections
    BY <1>22 DEF fetchConnections, fetch, EmptyLists, TypeOK, Lists, Op
<1>23. CASE fetchApplications
    BY <1>23 DEF fetchApplications, fetch, EmptyLists, TypeOK, Lists, Op
<1>24. CASE checkDeviceManager
  <2>1. op.at = "mgr_check" /\ UNCHANGED <<memory, fetched, app, db>>
    BY <1>24 DEF checkDeviceManager
  <2>2. op'.at \in {"idle", "mgr_add", "mgr_conns"}
    BY <1>24, CheckedAt
  <2> QED BY <2>1, <2>2
<1>25. CASE checkDevice
  <2>1. op.at = "dev_check" /\ UNCHANGED <<memory, fetched, app, db>>
    BY <1>25 DEF checkDevice
  <2>2. op'.at \in {"idle", "dev_store", "dev_conns"}
    BY <1>25, CheckedAt
  <2> QED BY <2>1, <2>2
<1>26. CASE crash
    BY <1>26 DEF crash, At, EmptyLists, TypeOK, App, Lists
<1>27. CASE mountDeviceMgr
    BY <1>27 DEF mountDeviceMgr, At, Idle, TypeOK, Lists, Op, storeDevice, storeService
<1>28. CASE deviceRegistered
    BY <1>28 DEF deviceRegistered, At, Idle, TypeOK, Lists, Op, storeDevice, storeService
<1>29. CASE serviceRegistered
    BY <1>29 DEF serviceRegistered, At, Idle, TypeOK, Lists, Op, storeDevice, storeService
<1>30. CASE restored
    BY <1>30 DEF restored, At, Idle, TypeOK, Lists, Op, storeDevice, storeService
<1>31. CASE addDeviceMgr
    BY <1>31 DEF addDeviceMgr, At, Idle, TypeOK, Lists, Op, storeDevice, storeService
<1>32. CASE deviceManagerUnregistered
    BY <1>32 DEF deviceManagerUnregistered, At, Idle, TypeOK, Lists, Op, storeDevice, storeService
<1>33. CASE removeDeviceManagerDevices
    BY <1>33 DEF removeDeviceManagerDevices, At, Idle, TypeOK, Lists, Op, storeDevice, storeService
<1>34. CASE removeDeviceManagerServices
    BY <1>34 DEF removeDeviceManagerServices, At, Idle, TypeOK, Lists, Op, storeDevice, storeService
<1>35. CASE removeDeviceManager
    BY <1>35 DEF removeDeviceManager, At, Idle, TypeOK, Lists, Op, storeDevice, storeService
<1>36. CASE storeDeviceInDomainMgr
    BY <1>36 DEF storeDeviceInDomainMgr, At, Idle, TypeOK, Lists, Op, storeDevice, storeService
<1>37. CASE deviceUnregistered
    BY <1>37 DEF deviceUnregistered, At, Idle, TypeOK, Lists, Op, storeDevice, storeService
<1>38. CASE eraseDevice
    BY <1>38 DEF eraseDevice, dependentsDone, At, Idle, TypeOK, Lists, Op, storeDevice, storeService
<1>39. CASE storeServiceInDomainMgr
    BY <1>39 DEF storeServiceInDomainMgr, At, Idle, TypeOK, Lists, Op, storeDevice, storeService
<1>40. CASE serviceUnregistered
    BY <1>40 DEF serviceUnregistered, At, Idle, TypeOK, Lists, Op, storeDevice, storeService
<1>41. CASE storeServices
    BY <1>41 DEF storeServices, At, Idle, TypeOK, Lists, Op, storeDevice, storeService
<1>42. ASSUME NEW a \in Apps, releaseDependent(a) PROVE Listed'
    BY <1>42 DEF releaseDependent, At, Idle, TypeOK, Lists, Op, storeDevice, storeService
<1>43. ASSUME NEW a \in Apps, releaseThrows(a) PROVE Listed'
    BY <1>43 DEF releaseThrows, At, Idle, TypeOK, Lists, Op, storeDevice, storeService
<1>44. CASE UNCHANGED vars
    BY <1>44 DEF vars
<1> QED
    BY <1>1, <1>2, <1>3, <1>4, <1>5, <1>6, <1>7, <1>8, <1>9, <1>10, <1>11,
       <1>12, <1>13, <1>14, <1>15, <1>16, <1>17, <1>18, <1>19, <1>20, <1>21, <1>22,
       <1>23, <1>24, <1>25, <1>26, <1>27, <1>28, <1>29, <1>30, <1>31, <1>32, <1>33,
       <1>34, <1>35, <1>36, <1>37, <1>38, <1>39, <1>40, <1>41, <1>42, <1>43, <1>44
    DEF Next, Call, Step, Creation

\* An application that was released is never listed, stored or restored again.
THEOREM ReleasedForGood == Spec => []ReleasedStaysGone
<1> DEFINE Inv == TypeOK /\ Shape /\ Listed
<1>1. Init => Inv
  BY InitTypes DEF Init, Listed, Idle, At, EmptyLists
<1>2. Inv /\ [Next]_vars => Inv'
  BY TypeStep, ShapeStep, ListedStep
<1>3. Inv => ReleasedStaysGone
  BY DEF Listed, ReleasedStaysGone
<1> QED BY <1>1, <1>2, <1>3, PTL DEF Spec

-----------------------------------------------------------------------------
(* Restoring.                                                              *)

\* A step that writes a list of objects to the store writes what is in memory,
\* or takes the list out of it; a list of services that is not written has lost
\* entries at most.
Writes ==
    /\ db'.devMgrs \in {db.devMgrs, devMgrs', {}}
    /\ db'.devices \in {db.devices, devices', NoDevices}
    /\ \/ db'.services = services'
       \/ /\ db'.services = db.services
          /\ \A s \in Svcs : services'[s] \in {None, services[s]}
       \/ fetchServices

\* So does every step.
LEMMA StoreWritten == TypeOK /\ [Next]_vars => Writes
<1> SUFFICES ASSUME TypeOK, [Next]_vars PROVE Writes
    OBVIOUS
<1> USE DEF Writes, goto, domain, memory, others
<1>1. ASSUME NEW a \in Apps, create(a) PROVE Writes
    BY <1>1 DEF create, TypeOK, Lists
<1>2. ASSUME NEW a \in Apps, releaseObject(a) PROVE Writes
    BY <1>2 DEF releaseObject, TypeOK, Lists
<1>3. ASSUME NEW a \in Apps, addPendingApplication(a) PROVE Writes
    BY <1>3 DEF addPendingApplication, TypeOK, Lists
<1>4. ASSUME NEW a \in Apps, deploy(a) PROVE Writes
    BY <1>4 DEF deploy, TypeOK, Lists
<1>5. ASSUME NEW a \in Apps, completePendingApplication(a) PROVE Writes
    BY <1>5 DEF completePendingApplication, TypeOK, Lists
<1>6. ASSUME NEW a \in Apps, cancelPendingApplication(a) PROVE Writes
    BY <1>6 DEF cancelPendingApplication, TypeOK, Lists
<1>7. ASSUME NEW a \in Apps, removeApplication(a) PROVE Writes
    BY <1>7 DEF removeApplication, TypeOK, Lists
<1>8. ASSUME NEW o \in Objects, die(o) PROVE Writes
    BY <1>8 DEF die, TypeOK, Lists
<1>9. ASSUME NEW m \in Mgrs, registerDeviceManager(m) PROVE Writes
    BY <1>9 DEF registerDeviceManager, TypeOK, Lists
<1>10. ASSUME NEW m \in Mgrs, unregisterDeviceManager(m) PROVE Writes
    BY <1>10 DEF unregisterDeviceManager, TypeOK, Lists
<1>11. ASSUME NEW d \in Devs, registerDevice(d) PROVE Writes
    BY <1>11 DEF registerDevice, TypeOK, Lists
<1>12. ASSUME NEW d \in Devs, unregisterDevice(d) PROVE Writes
    BY <1>12 DEF unregisterDevice, TypeOK, Lists
<1>13. ASSUME NEW s \in Svcs, registerService(s) PROVE Writes
    BY <1>13 DEF registerService, TypeOK, Lists
<1>14. ASSUME NEW s \in Svcs, unregisterService(s) PROVE Writes
    BY <1>14 DEF unregisterService, TypeOK, Lists
<1>15. ASSUME NEW m \in Mgrs, restoreDeviceManager(m) PROVE Writes
    BY <1>15 DEF restoreDeviceManager, TypeOK, Lists
<1>16. ASSUME NEW d \in Devs, restoreDevice(d) PROVE Writes
    BY <1>16 DEF restoreDevice, TypeOK, Lists, storeDevice
<1>17. ASSUME NEW s \in Svcs, restoreService(s) PROVE Writes
    BY <1>17 DEF restoreService, TypeOK, Lists, storeService
<1>18. ASSUME NEW a \in Apps, restoreApplication(a) PROVE Writes
    BY <1>18 DEF restoreApplication, TypeOK, Lists
<1>19. CASE restart
    BY <1>19 DEF restart, TypeOK, Lists, fetch, EmptyLists
<1>20. CASE fetchDevices
    BY <1>20 DEF fetchDevices, TypeOK, Lists, fetch, EmptyLists
<1>21. CASE fetchServices
    BY <1>21 DEF fetchServices, TypeOK, Lists, fetch, EmptyLists
<1>22. CASE fetchConnections
    BY <1>22 DEF fetchConnections, TypeOK, Lists, fetch, EmptyLists
<1>23. CASE fetchApplications
    BY <1>23 DEF fetchApplications, TypeOK, Lists, fetch, EmptyLists
<1>24. CASE checkDeviceManager
    BY <1>24 DEF checkDeviceManager, TypeOK, Lists
<1>25. CASE checkDevice
    BY <1>25 DEF checkDevice, TypeOK, Lists
<1>26. CASE mountDeviceMgr
    BY <1>26 DEF mountDeviceMgr, TypeOK, Lists
<1>27. CASE deviceRegistered
    BY <1>27 DEF deviceRegistered, TypeOK, Lists
<1>28. CASE serviceRegistered
    BY <1>28 DEF serviceRegistered, TypeOK, Lists
<1>29. CASE restored
    BY <1>29 DEF restored, TypeOK, Lists
<1>30. CASE crash
    BY <1>30 DEF crash, TypeOK, Lists, NoServices
<1>31. CASE addDeviceMgr
    BY <1>31 DEF addDeviceMgr, TypeOK, Lists
<1>32. CASE deviceManagerUnregistered
    BY <1>32 DEF deviceManagerUnregistered, TypeOK, Lists
<1>33. CASE removeDeviceManagerDevices
    BY <1>33 DEF removeDeviceManagerDevices, TypeOK, Lists
<1>34. CASE removeDeviceManagerServices
    BY <1>34 DEF removeDeviceManagerServices, TypeOK, Lists
<1>35. CASE removeDeviceManager
    BY <1>35 DEF removeDeviceManager, TypeOK, Lists
<1>36. CASE storeDeviceInDomainMgr
    BY <1>36 DEF storeDeviceInDomainMgr, TypeOK, Lists, storeDevice
<1>37. CASE deviceUnregistered
    BY <1>37 DEF deviceUnregistered, TypeOK, Lists
<1>38. CASE eraseDevice
    BY <1>38 DEF eraseDevice, TypeOK, Lists
<1>39. CASE storeServiceInDomainMgr
    BY <1>39 DEF storeServiceInDomainMgr, TypeOK, Lists, storeService
<1>40. CASE serviceUnregistered
    BY <1>40 DEF serviceUnregistered, TypeOK, Lists
<1>41. CASE storeServices
    BY <1>41 DEF storeServices, TypeOK, Lists
<1>42. ASSUME NEW a \in Apps, releaseDependent(a) PROVE Writes
    BY <1>42 DEF releaseDependent, TypeOK, Lists
<1>43. ASSUME NEW a \in Apps, releaseThrows(a) PROVE Writes
    BY <1>43 DEF releaseThrows, TypeOK, Lists
<1>44. CASE UNCHANGED vars
    BY <1>44 DEF vars
<1> QED
    BY <1>1, <1>2, <1>3, <1>4, <1>5, <1>6, <1>7, <1>8, <1>9, <1>10, <1>11,
       <1>12, <1>13, <1>14, <1>15, <1>16, <1>17, <1>18, <1>19, <1>20, <1>21, <1>22,
       <1>23, <1>24, <1>25, <1>26, <1>27, <1>28, <1>29, <1>30, <1>31, <1>32, <1>33,
       <1>34, <1>35, <1>36, <1>37, <1>38, <1>39, <1>40, <1>41, <1>42, <1>43, <1>44
    DEF Next, Call, Step, Creation

\* The lists in the store name no identifier twice.
StoreDistinct ==
    /\ \A m, n \in db.devMgrs : Ident[m] = Ident[n] => m = n
    /\ \A d, e \in {d \in Devs : db.devices[d] # None} : Ident[d] = Ident[e] => d = e
    /\ \A s, t \in {s \in Svcs : db.services[s] # None} : Ident[s] = Ident[t] => s = t

\* What is in memory of the services is in the store.
ServicesKept == \A s \in Svcs : services[s] # None => db.services[s] = services[s]

\* A list that is written is one that the registry keeps free of duplicates.
LEMMA StoreDistinctStep ==
    TypeOK /\ StoreDistinct /\ OneRegistrationEach' /\ Writes => StoreDistinct'
<1> SUFFICES ASSUME TypeOK, StoreDistinct, OneRegistrationEach', Writes PROVE StoreDistinct'
    OBVIOUS
<1> USE DEF OneRegistrationEach, registered, offered
<1>1. \A m, n \in db'.devMgrs : Ident[m] = Ident[n] => m = n
  BY DEF StoreDistinct, Writes
<1>2. \A d, e \in {d \in Devs : db'.devices[d] # None} : Ident[d] = Ident[e] => d = e
  BY DEF StoreDistinct, Writes, NoDevices
<1>3. \A s, t \in {s \in Svcs : db'.services[s] # None} : Ident[s] = Ident[t] => s = t
  <2>1. CASE db'.services = services'
    BY <2>1
  <2>2. CASE db'.services = db.services
    BY <2>2 DEF StoreDistinct
  <2>3. CASE fetchServices
    <3>1. \A s \in Svcs : db'.services[s] = None
      BY <2>3 DEF fetchServices, fetch, EmptyLists, NoServices, TypeOK, Lists
    <3> QED BY <3>1
  <2> QED BY <2>1, <2>2, <2>3 DEF Writes
<1> QED BY <1>1, <1>2, <1>3 DEF StoreDistinct

\* The list of services is written after it has grown.
LEMMA ServicesKeptStep ==
    TypeOK /\ InStep /\ ServicesKept /\ Writes => ServicesKept'
<1> SUFFICES ASSUME TypeOK, InStep, ServicesKept, Writes PROVE ServicesKept'
    OBVIOUS
<1>1. CASE db'.services = services'
  BY <1>1 DEF ServicesKept
<1>2. CASE /\ db'.services = db.services
           /\ \A s \in Svcs : services'[s] \in {None, services[s]}
  BY <1>2 DEF ServicesKept
<1>3. CASE fetchServices
  BY <1>3 DEF ServicesKept, fetchServices, InStep, memory, NoServices
<1> QED BY <1>1, <1>2, <1>3 DEF Writes

\* What restoreState still finds of each list: in the store until it is read,
\* then among what was read, or back in memory.
managersThere ==
    IF op.at = "down" THEN db.devMgrs
    ELSE IF op.at = "r_mgrs" THEN devMgrs \cup fetched.devMgrs ELSE devMgrs

devicesDue ==
    IF op.at \in {"down", "r_mgrs"} THEN db.devices
    ELSE IF op.at = "r_devs" THEN fetched.devices ELSE NoDevices

servicesDue ==
    IF op.at \in {"down", "r_mgrs", "r_devs"} THEN db.services
    ELSE IF op.at = "r_svcs" THEN fetched.services ELSE NoServices

applicationsThere ==
    IF op.at \in {"down", "r_mgrs", "r_devs", "r_svcs", "r_conns"} THEN db.apps
    ELSE apps \cup fetched.apps

\* What is restored has not had its identifier taken by something else.
DueDistinct ==
    restoring =>
    /\ \A m, n \in managersThere : Ident[m] = Ident[n] => m = n
    /\ \A d, e \in {d \in Devs : devices[d] # None \/ devicesDue[d] # None} :
          Ident[d] = Ident[e] => d = e
    /\ \A s, t \in {s \in Svcs : services[s] # None \/ servicesDue[s] # None} :
          Ident[s] = Ident[t] => s = t

\* What runs of the registry that is restored is there, or still to be restored
\* as it was; a DeviceManager is back before what it launched.
Recoverable ==
    restoring =>
    /\ saved.devMgrs \cap alive \subseteq managersThere
    /\ \A d \in Devs \cap alive : saved.devices[d] \in saved.devMgrs \cap alive =>
          devices[d] # None \/ devicesDue[d] = saved.devices[d]
    /\ \A s \in Svcs \cap alive : \A m \in saved.devMgrs \cap alive :
          Ident[m] = saved.services[s] =>
             services[s] # None \/ servicesDue[s] = saved.services[s]
    /\ saved.apps \subseteq applicationsThere

\* The steps that restoreState takes, or that end with the DomainManager down.
RestoreStep ==
    \/ restart \/ fetchDevices \/ fetchServices \/ fetchConnections
    \/ fetchApplications \/ crash
    \/ \E m \in Mgrs : restoreDeviceManager(m)
    \/ \E d \in Devs : restoreDevice(d)
    \/ \E s \in Svcs : restoreService(s)
    \/ \E a \in Apps : restoreApplication(a)
    \/ \E o \in Objects : die(o)
    \/ UNCHANGED vars

\* No other step is taken before the state is restored.
LEMMA RestoreSteps == TypeOK /\ [Next]_vars => ~ restoring' \/ RestoreStep
<1> SUFFICES ASSUME TypeOK, [Next]_vars PROVE ~ restoring' \/ RestoreStep
    OBVIOUS
<1> USE DEF goto, domain, restoring
<1>1. ASSUME NEW a \in Apps, create(a) PROVE ~ restoring' \/ RestoreStep
    BY <1>1 DEF create, At, Idle, TypeOK, Op
<1>2. ASSUME NEW a \in Apps, releaseObject(a) PROVE ~ restoring' \/ RestoreStep
    BY <1>2 DEF releaseObject, At, Idle, TypeOK, Op
<1>3. ASSUME NEW a \in Apps, addPendingApplication(a) PROVE ~ restoring' \/ RestoreStep
    BY <1>3 DEF addPendingApplication, At, Idle, TypeOK, Op
<1>4. ASSUME NEW a \in Apps, deploy(a) PROVE ~ restoring' \/ RestoreStep
    BY <1>4 DEF deploy, At, Idle, TypeOK, Op
<1>5. ASSUME NEW a \in Apps, completePendingApplication(a) PROVE ~ restoring' \/ RestoreStep
    BY <1>5 DEF completePendingApplication, At, Idle, TypeOK, Op
<1>6. ASSUME NEW a \in Apps, cancelPendingApplication(a) PROVE ~ restoring' \/ RestoreStep
    BY <1>6 DEF cancelPendingApplication, At, Idle, TypeOK, Op
<1>7. ASSUME NEW a \in Apps, removeApplication(a) PROVE ~ restoring' \/ RestoreStep
    BY <1>7 DEF removeApplication, At, Idle, TypeOK, Op
<1>8. ASSUME NEW o \in Objects, die(o) PROVE ~ restoring' \/ RestoreStep
    BY <1>8 DEF RestoreStep
<1>9. ASSUME NEW m \in Mgrs, registerDeviceManager(m) PROVE ~ restoring' \/ RestoreStep
    BY <1>9 DEF registerDeviceManager, At, Idle, TypeOK, Op
<1>10. ASSUME NEW m \in Mgrs, unregisterDeviceManager(m) PROVE ~ restoring' \/ RestoreStep
    BY <1>10 DEF unregisterDeviceManager, At, Idle, TypeOK, Op
<1>11. ASSUME NEW d \in Devs, registerDevice(d) PROVE ~ restoring' \/ RestoreStep
    BY <1>11 DEF registerDevice, At, Idle, TypeOK, Op
<1>12. ASSUME NEW d \in Devs, unregisterDevice(d) PROVE ~ restoring' \/ RestoreStep
    BY <1>12 DEF unregisterDevice, At, Idle, TypeOK, Op
<1>13. ASSUME NEW s \in Svcs, registerService(s) PROVE ~ restoring' \/ RestoreStep
    BY <1>13 DEF registerService, At, Idle, TypeOK, Op
<1>14. ASSUME NEW s \in Svcs, unregisterService(s) PROVE ~ restoring' \/ RestoreStep
    BY <1>14 DEF unregisterService, At, Idle, TypeOK, Op
<1>15. ASSUME NEW m \in Mgrs, restoreDeviceManager(m) PROVE ~ restoring' \/ RestoreStep
    BY <1>15 DEF RestoreStep
<1>16. ASSUME NEW d \in Devs, restoreDevice(d) PROVE ~ restoring' \/ RestoreStep
    BY <1>16 DEF RestoreStep
<1>17. ASSUME NEW s \in Svcs, restoreService(s) PROVE ~ restoring' \/ RestoreStep
    BY <1>17 DEF RestoreStep
<1>18. ASSUME NEW a \in Apps, restoreApplication(a) PROVE ~ restoring' \/ RestoreStep
    BY <1>18 DEF RestoreStep
<1>19. CASE restart
    BY <1>19 DEF RestoreStep
<1>20. CASE fetchDevices
    BY <1>20 DEF RestoreStep
<1>21. CASE fetchServices
    BY <1>21 DEF RestoreStep
<1>22. CASE fetchConnections
    BY <1>22 DEF RestoreStep
<1>23. CASE fetchApplications
    BY <1>23 DEF RestoreStep
<1>24. CASE checkDeviceManager
    BY <1>24, CheckedAt DEF RestoreStep
<1>25. CASE checkDevice
    BY <1>25, CheckedAt DEF RestoreStep
<1>26. CASE mountDeviceMgr
    BY <1>26 DEF mountDeviceMgr, At, Idle, TypeOK, Op
<1>27. CASE deviceRegistered
    BY <1>27 DEF deviceRegistered, At, Idle, TypeOK, Op
<1>28. CASE serviceRegistered
    BY <1>28 DEF serviceRegistered, At, Idle, TypeOK, Op
<1>29. CASE restored
    BY <1>29 DEF restored, At, Idle, TypeOK, Op
<1>30. CASE crash
    BY <1>30 DEF RestoreStep
<1>31. CASE addDeviceMgr
    BY <1>31 DEF addDeviceMgr, At, Idle, TypeOK, Op
<1>32. CASE deviceManagerUnregistered
    BY <1>32 DEF deviceManagerUnregistered, At, Idle, TypeOK, Op
<1>33. CASE removeDeviceManagerDevices
    BY <1>33 DEF removeDeviceManagerDevices, At, Idle, TypeOK, Op
<1>34. CASE removeDeviceManagerServices
    BY <1>34 DEF removeDeviceManagerServices, At, Idle, TypeOK, Op
<1>35. CASE removeDeviceManager
    BY <1>35 DEF removeDeviceManager, At, Idle, TypeOK, Op
<1>36. CASE storeDeviceInDomainMgr
    BY <1>36 DEF storeDeviceInDomainMgr, At, Idle, TypeOK, Op
<1>37. CASE deviceUnregistered
    BY <1>37 DEF deviceUnregistered, At, Idle, TypeOK, Op
<1>38. CASE eraseDevice
    BY <1>38 DEF eraseDevice, At, Idle, TypeOK, Op
<1>39. CASE storeServiceInDomainMgr
    BY <1>39 DEF storeServiceInDomainMgr, At, Idle, TypeOK, Op
<1>40. CASE serviceUnregistered
    BY <1>40 DEF serviceUnregistered, At, Idle, TypeOK, Op
<1>41. CASE storeServices
    BY <1>41 DEF storeServices, At, Idle, TypeOK, Op
<1>42. ASSUME NEW a \in Apps, releaseDependent(a) PROVE ~ restoring' \/ RestoreStep
    BY <1>42 DEF releaseDependent, At, Idle, TypeOK, Op
<1>43. ASSUME NEW a \in Apps, releaseThrows(a) PROVE ~ restoring' \/ RestoreStep
    BY <1>43 DEF releaseThrows, At, Idle, TypeOK, Op
<1>44. CASE UNCHANGED vars
    BY <1>44 DEF RestoreStep
<1> QED
    BY <1>1, <1>2, <1>3, <1>4, <1>5, <1>6, <1>7, <1>8, <1>9, <1>10, <1>11,
       <1>12, <1>13, <1>14, <1>15, <1>16, <1>17, <1>18, <1>19, <1>20, <1>21, <1>22,
       <1>23, <1>24, <1>25, <1>26, <1>27, <1>28, <1>29, <1>30, <1>31, <1>32, <1>33,
       <1>34, <1>35, <1>36, <1>37, <1>38, <1>39, <1>40, <1>41, <1>42, <1>43, <1>44
    DEF Next, Call, Step, Creation

\* Every step keeps identifiers distinct in what is restored.
LEMMA DueDistinctStep ==
    TypeOK /\ InStep /\ StoreDistinct /\ DueDistinct /\ OneRegistrationEach'
       /\ [Next]_vars => DueDistinct'
<1> SUFFICES ASSUME TypeOK, InStep, StoreDistinct, DueDistinct,
                    OneRegistrationEach', [Next]_vars, restoring'
             PROVE  DueDistinct'
    BY DEF DueDistinct
<1> USE DEF goto, memory, managersThere, devicesDue, servicesDue, OneRegistrationEach,
            registered, offered, restoring, NoDevices, NoServices
<1>0. RestoreStep
    BY RestoreSteps
<1>1. CASE restart
    BY <1>1 DEF DueDistinct, restart, fetch, TypeOK, Lists, Op, InStep, EmptyLists
<1>2. CASE fetchDevices
    BY <1>2 DEF DueDistinct, fetchDevices, fetch, TypeOK, Lists, Op, InStep, EmptyLists
<1>3. CASE fetchServices
    BY <1>3 DEF DueDistinct, fetchServices, fetch, TypeOK, Lists, Op, InStep, EmptyLists
<1>4. CASE fetchConnections
    BY <1>4 DEF DueDistinct, fetchConnections, TypeOK, Lists, Op
<1>5. CASE fetchApplications
    BY <1>5 DEF DueDistinct, fetchApplications, fetch, TypeOK, Lists, Op
<1>6. CASE crash
    BY <1>6 DEF StoreDistinct, DueDistinct, crash, At
<1>7. ASSUME NEW m \in Mgrs, restoreDeviceManager(m) PROVE DueDistinct'
    BY <1>7 DEF DueDistinct, restoreDeviceManager, TypeOK, Lists
<1>8. ASSUME NEW d \in Devs, restoreDevice(d) PROVE DueDistinct'
    BY <1>8 DEF DueDistinct, restoreDevice, storeDevice, TypeOK, Lists
<1>9. ASSUME NEW s \in Svcs, restoreService(s) PROVE DueDistinct'
    BY <1>9 DEF DueDistinct, restoreService, storeService, TypeOK, Lists
<1>10. ASSUME NEW a \in Apps, restoreApplication(a) PROVE DueDistinct'
    BY <1>10 DEF DueDistinct, restoreApplication, TypeOK, Lists
<1>11. ASSUME NEW o \in Objects, die(o) PROVE DueDistinct'
    BY <1>11 DEF DueDistinct, die
<1>12. CASE UNCHANGED vars
    BY <1>12 DEF DueDistinct, vars
<1> QED
    BY <1>0, <1>1, <1>2, <1>3, <1>4, <1>5, <1>6, <1>7, <1>8, <1>9, <1>10, <1>11,
       <1>12 DEF RestoreStep

\* What a crash leaves to restore is in the store: all that was registered, or
\* the store itself if the state was being restored.
LEMMA CrashRecoverable ==
    ASSUME TypeOK, InStep, ServicesKept, crash
    PROVE  Recoverable'
<1> USE DEF restoring
<1>1. op' = At("down") /\ UNCHANGED <<db, alive>>
  BY DEF crash
<1>2. /\ managersThere' = db.devMgrs /\ applicationsThere' = db.apps
      /\ devicesDue' = db.devices /\ servicesDue' = db.services
  BY <1>1 DEF managersThere, applicationsThere, devicesDue, servicesDue, At
<1>3. CASE restoring
  <2>1. saved' = db
    BY <1>3 DEF crash
  <2> QED BY <1>2, <2>1 DEF Recoverable
<1>4. CASE ~ restoring
  <2>1. saved' = [devMgrs |-> devMgrs, devices |-> devices,
                  services |-> services, conns |-> conns, apps |-> apps]
    BY <1>4 DEF crash
  <2>2. db.devMgrs = devMgrs /\ db.devices = devices /\ db.apps = apps
    BY <1>4 DEF InStep
  <2>3. \A m \in Mgrs : Ident[m] # None
    BY DomainConstants DEF Objects, Idents
  <2>4. \A s \in Svcs : \A m \in Mgrs :
            Ident[m] = services[s] => db.services[s] = services[s]
    BY <2>3 DEF ServicesKept
  <2>5. devMgrs \subseteq Mgrs
    BY DEF TypeOK
  <2> QED BY <1>2, <2>1, <2>2, <2>4, <2>5 DEF Recoverable
<1> QED BY <1>3, <1>4

\* A DeviceManager that is read back is registered again if it runs.
LEMMA ManagerRecovered ==
    ASSUME TypeOK, DueDistinct, Recoverable, NEW m \in Mgrs, restoreDeviceManager(m)
    PROVE  Recoverable'
<1> USE DEF restoring
<1>1. /\ op.at = "r_mgrs" /\ m \in fetched.devMgrs
      /\ fetched' = [fetched EXCEPT !.devMgrs = @ \ {m}]
      /\ UNCHANGED <<alive, devices, services, apps, op, saved>>
  BY DEF restoreDeviceManager
<1>2. managersThere = devMgrs \cup fetched.devMgrs
  BY <1>1 DEF managersThere
<1>3. managersThere' = devMgrs' \cup (fetched.devMgrs \ {m})
  BY <1>1 DEF managersThere, TypeOK, Lists
<1>4. devMgrs \subseteq devMgrs' /\ (m \in alive => m \in devMgrs')
  <2>1. CASE m \in alive /\ findDeviceManager(m) = {}
    BY <2>1 DEF restoreDeviceManager
  <2>2. ASSUME m \in alive, findDeviceManager(m) # {} PROVE m \in devMgrs
    <3>1. PICK n \in devMgrs : Ident[n] = Ident[m]
      BY <2>2 DEF findDeviceManager, managersOf
    <3>2. n = m
      BY <1>1, <1>2, <3>1 DEF DueDistinct
    <3> QED BY <3>1, <3>2
  <2> QED BY <2>1, <2>2 DEF restoreDeviceManager
<1>5. saved'.devMgrs \cap alive' \subseteq managersThere'
  BY <1>1, <1>2, <1>3, <1>4 DEF Recoverable
<1>6. /\ db'.devices = db.devices /\ db'.services = db.services
      /\ db'.apps = db.apps
  BY DEF restoreDeviceManager, TypeOK, Lists
<1>7. devicesDue' = devicesDue /\ servicesDue' = servicesDue
      /\ applicationsThere' = applicationsThere
  BY <1>1, <1>6 DEF devicesDue, servicesDue, applicationsThere
<1> QED BY <1>1, <1>5, <1>7 DEF Recoverable

\* So is a device, if its DeviceManager is.
LEMMA DeviceRecovered ==
    ASSUME TypeOK, InStep, DueDistinct, Recoverable, NEW d \in Devs, restoreDevice(d)
    PROVE  Recoverable'
<1> USE DEF restoring
<1>1. /\ op.at = "r_devs" /\ fetched.devices[d] # None
      /\ fetched' = [fetched EXCEPT !.devices[d] = None]
      /\ storeDevice(d, fetched.devices[d])
      /\ UNCHANGED <<alive, devMgrs, services, apps, op, saved>>
  BY DEF restoreDevice
<1>2. devicesDue = fetched.devices /\ devicesDue' = [devicesDue EXCEPT ![d] = None]
  BY <1>1 DEF devicesDue, TypeOK, Lists
<1>3. devicesDue \in [Devs -> Mgrs \cup {None}]
  BY <1>2 DEF TypeOK, Lists
<1>4. managersThere = devMgrs /\ managersThere' = devMgrs
  BY <1>1 DEF managersThere
<1>5. /\ \A e \in Devs : devices[e] # None => devices'[e] # None
      /\ db'.services = db.services /\ db'.apps = db.apps
  <2>1. CASE storable(d, fetched.devices[d])
    <3>1. PICK n \in managersOf(Ident[fetched.devices[d]]) :
              devices' = [devices EXCEPT ![d] = n]
      BY <1>1, <2>1 DEF storeDevice
    <3>2. n # None
      BY DomainConstants DEF managersOf, TypeOK, Objects
    <3>3. db' = [db EXCEPT !.devices = devices']
      BY <1>1, <2>1 DEF storeDevice
    <3> QED BY <3>1, <3>2, <3>3 DEF TypeOK, Lists
  <2>2. CASE ~ storable(d, fetched.devices[d])
    BY <1>1, <2>2 DEF storeDevice
  <2> QED BY <2>1, <2>2
<1>6. ASSUME d \in alive, saved.devices[d] \in saved.devMgrs \cap alive
      PROVE  devices'[d] # None
  <2>1. CASE devices[d] # None
    BY <1>5, <2>1
  <2>2. CASE devices[d] = None
    <3>1. fetched.devices[d] = saved.devices[d]
      BY <1>1, <1>2, <1>6, <2>2 DEF Recoverable
    <3>2. PICK m \in devMgrs \cap alive : m = fetched.devices[d]
      BY <1>1, <1>4, <1>6, <3>1 DEF Recoverable
    <3>3. managersOf(Ident[m]) = {m}
      BY <1>1, <1>4, <3>2 DEF DueDistinct, managersOf
    <3>4. findDevice(d) = {}
      <4>1. \A e \in registered : Ident[e] = Ident[d] => e = d
        BY <1>1, <1>2 DEF DueDistinct, registered
      <4> QED BY <1>6, <2>2, <4>1 DEF findDevice, withIdent, registered
    <3>5. storable(d, m)
      BY <1>6, <3>2, <3>3, <3>4 DEF storable
    <3>6. devices' = [devices EXCEPT ![d] = m]
      BY <1>1, <3>2, <3>3, <3>5 DEF storeDevice
    <3>7. m # None
      BY DomainConstants DEF TypeOK, Objects
    <3> QED BY <3>6, <3>7 DEF TypeOK
  <2> QED BY <2>1, <2>2
<1>7. servicesDue' = servicesDue /\ applicationsThere' = applicationsThere
  BY <1>1, <1>5 DEF servicesDue, applicationsThere
<1>8. ASSUME NEW e \in Devs \cap alive, saved.devices[e] \in saved.devMgrs \cap alive
      PROVE  devices'[e] # None \/ devicesDue'[e] = saved.devices[e]
  <2>1. CASE e = d
    BY <1>6, <1>8, <2>1
  <2>2. CASE e # d
    <3>1. devicesDue'[e] = devicesDue[e]
      BY <1>2, <1>3, <2>2
    <3>2. devices[e] # None \/ devicesDue[e] = saved.devices[e]
      BY <1>1, <1>8 DEF Recoverable
    <3> QED BY <1>5, <3>1, <3>2
  <2> QED BY <2>1, <2>2
<1> QED BY <1>1, <1>4, <1>7, <1>8 DEF Recoverable

\* And a service.
LEMMA ServiceRecovered ==
    ASSUME TypeOK, DueDistinct, Recoverable, NEW s \in Svcs, restoreService(s)
    PROVE  Recoverable'
<1> USE DEF restoring
<1>1. /\ op.at = "r_svcs" /\ fetched.services[s] # None
      /\ fetched' = [fetched EXCEPT !.services[s] = None]
      /\ UNCHANGED <<alive, devMgrs, devices, apps, op, saved>>
  BY DEF restoreService
<1>2. servicesDue = fetched.services /\ servicesDue' = [servicesDue EXCEPT ![s] = None]
  BY <1>1 DEF servicesDue, TypeOK, Lists
<1>3. servicesDue \in [Svcs -> Idents \cup {Unknown, None}]
  BY <1>2 DEF TypeOK, Lists
<1>4. managersThere = devMgrs /\ managersThere' = devMgrs
  BY <1>1 DEF managersThere
<1>5. /\ \A t \in Svcs : services[t] # None => services'[t] # None
      /\ (\E m \in Mgrs : storeService(s, m)) => services'[s] # None
      /\ db'.apps = db.apps
  <2>1. ASSUME NEW m \in Mgrs, storeService(s, m)
        PROVE  /\ \A t \in Svcs : services[t] # None => services'[t] # None
               /\ services'[s] # None /\ db'.apps = db.apps
    <3>1. Ident[m] # None /\ Unknown # None
      BY DomainConstants DEF Objects, Idents
    <3> QED BY <2>1, <3>1 DEF storeService, TypeOK, Lists
  <2>2. \/ \E m \in Mgrs : storeService(s, m)
        \/ UNCHANGED <<services, db>>
    BY DEF restoreService, managersOf, TypeOK
  <2>3. CASE \E m \in Mgrs : storeService(s, m)
    BY <2>1, <2>3
  <2>4. CASE UNCHANGED <<services, db>> /\ ~ \E m \in Mgrs : storeService(s, m)
    BY <2>4
  <2> QED BY <2>2, <2>3, <2>4
<1>6. ASSUME NEW m \in saved.devMgrs \cap alive, s \in alive,
             Ident[m] = saved.services[s]
      PROVE  services'[s] # None
  <2>1. CASE services[s] # None
    BY <1>5, <2>1
  <2>2. CASE services[s] = None
    <3>1. fetched.services[s] = Ident[m]
      BY <1>1, <1>2, <1>6, <2>2 DEF Recoverable
    <3>2. m \in devMgrs
      BY <1>1, <1>4, <1>6 DEF Recoverable
    <3>3. managersOf(fetched.services[s]) # {}
      BY <3>1, <3>2 DEF managersOf
    <3>4. \A t \in offered : Ident[t] = Ident[s] => t = s
      BY <1>1, <1>2 DEF DueDistinct, offered
    <3>5. withIdent(offered, Ident[s]) = {}
      BY <2>2, <3>4 DEF withIdent, offered
    <3>6. PICK n \in managersOf(fetched.services[s]) : storeService(s, n)
      BY <1>6, <3>3, <3>5 DEF restoreService
    <3>7. n \in Mgrs
      BY DEF managersOf, TypeOK
    <3> QED BY <1>5, <3>6, <3>7
  <2> QED BY <2>1, <2>2
<1>7. devicesDue' = devicesDue /\ applicationsThere' = applicationsThere
  BY <1>1, <1>5 DEF devicesDue, applicationsThere
<1>8. ASSUME NEW t \in Svcs \cap alive, NEW m \in saved.devMgrs \cap alive,
             Ident[m] = saved.services[t]
      PROVE  services'[t] # None \/ servicesDue'[t] = saved.services[t]
  <2>1. CASE t = s
    BY <1>6, <1>8, <2>1
  <2>2. CASE t # s
    <3>1. servicesDue'[t] = servicesDue[t]
      BY <1>2, <1>3, <2>2
    <3>2. services[t] # None \/ servicesDue[t] = saved.services[t]
      BY <1>1, <1>8 DEF Recoverable
    <3> QED BY <1>5, <3>1, <3>2
  <2> QED BY <2>1, <2>2
<1> QED BY <1>1, <1>4, <1>7, <1>8 DEF Recoverable

\* Every step keeps what runs recoverable.
LEMMA RecoverableStep ==
    TypeOK /\ InStep /\ ServicesKept /\ DueDistinct /\ Recoverable /\ [Next]_vars
      => Recoverable'
<1> SUFFICES ASSUME TypeOK, InStep, ServicesKept, DueDistinct, Recoverable,
                    [Next]_vars, restoring'
             PROVE  Recoverable'
    BY DEF Recoverable
<1> USE DEF goto, memory, restoring
<1> DEFINE there == <<managersThere, devicesDue, servicesDue, applicationsThere>>
<1>0. RestoreStep
    BY RestoreSteps
<1>1. CASE restart
    BY <1>1 DEF Recoverable, restart, fetch, TypeOK, Lists, Op, InStep, managersThere,
                devicesDue, servicesDue, applicationsThere
<1>2. CASE fetchDevices
    BY <1>2 DEF Recoverable, fetchDevices, fetch, TypeOK, Lists, Op, managersThere,
                devicesDue, servicesDue, applicationsThere
<1>3. CASE fetchServices
    BY <1>3 DEF Recoverable, fetchServices, fetch, TypeOK, Lists, Op, managersThere,
                devicesDue, servicesDue, applicationsThere
<1>4. CASE fetchConnections
    BY <1>4 DEF Recoverable, fetchConnections, TypeOK, Lists, Op, managersThere,
                devicesDue, servicesDue, applicationsThere
<1>5. CASE fetchApplications
    BY <1>5 DEF Recoverable, fetchApplications, fetch, TypeOK, Lists, Op, managersThere,
                devicesDue, servicesDue, applicationsThere
<1>6. CASE crash
    BY <1>6, CrashRecoverable
<1>7. ASSUME NEW m \in Mgrs, restoreDeviceManager(m) PROVE Recoverable'
    BY <1>7, ManagerRecovered
<1>8. ASSUME NEW d \in Devs, restoreDevice(d) PROVE Recoverable'
    BY <1>8, DeviceRecovered
<1>9. ASSUME NEW s \in Svcs, restoreService(s) PROVE Recoverable'
    BY <1>9, ServiceRecovered
<1>10. ASSUME NEW a \in Apps, restoreApplication(a) PROVE Recoverable'
  <2>1. /\ op.at = "r_apps" /\ apps' = apps \cup {a}
        /\ fetched' = [fetched EXCEPT !.apps = @ \ {a}]
        /\ UNCHANGED <<alive, devMgrs, devices, services, op, saved>>
    BY <1>10 DEF restoreApplication
  <2>2. applicationsThere \subseteq applicationsThere'
    BY <2>1 DEF applicationsThere, TypeOK, Lists
  <2>3. /\ managersThere' = managersThere /\ devicesDue' = devicesDue
        /\ servicesDue' = servicesDue
    BY <2>1 DEF managersThere, devicesDue, servicesDue
  <2> QED BY <2>1, <2>2, <2>3 DEF Recoverable
<1>11. ASSUME NEW o \in Objects, die(o) PROVE Recoverable'
  <2>1. alive' \subseteq alive
    BY <1>11 DEF die
  <2>2. UNCHANGED <<devices, services, saved, op>> /\ UNCHANGED there
    BY <1>11 DEF die, managersThere, devicesDue, servicesDue, applicationsThere
  <2> QED BY <2>1, <2>2 DEF Recoverable
<1>12. CASE UNCHANGED vars
    BY <1>12 DEF Recoverable, vars, managersThere, devicesDue, servicesDue,
                 applicationsThere
<1> QED
    BY <1>0, <1>1, <1>2, <1>3, <1>4, <1>5, <1>6, <1>7, <1>8, <1>9, <1>10, <1>11,
       <1>12 DEF RestoreStep

\* While an unregistration releases the dependents of a device, those that are
\* still listed are among the ones it has left, or a client is releasing them.
Dependents ==
    op.at = "dev_apps" =>
       \A a \in apps : Ident[app[a].dev] = Ident[op.dev] =>
                          a \in op.left \/ app[a].at = "releasing"

\* Every step keeps it so.
LEMMA DependentsStep ==
    TypeOK /\ Listed /\ Dependents /\ [Next]_vars => Dependents'
<1> SUFFICES ASSUME TypeOK, Listed, Dependents, [Next]_vars PROVE Dependents'
    OBVIOUS
<1> USE DEF Dependents, goto, domain, memory, others
<1>1. ASSUME NEW a \in Apps, create(a) PROVE Dependents'
    BY <1>1 DEF create, At, Idle, TypeOK, Op
<1>2. ASSUME NEW a \in Apps, releaseObject(a) PROVE Dependents'
    BY <1>2 DEF releaseObject, TypeOK, Op, App, Listed
<1>3. ASSUME NEW a \in Apps, addPendingApplication(a) PROVE Dependents'
    BY <1>3 DEF addPendingApplication, At, Idle, TypeOK, Op
<1>4. ASSUME NEW a \in Apps, deploy(a) PROVE Dependents'
    BY <1>4 DEF deploy, At, Idle, TypeOK, Op
<1>5. ASSUME NEW a \in Apps, completePendingApplication(a) PROVE Dependents'
    BY <1>5 DEF completePendingApplication, At, Idle, TypeOK, Op
<1>6. ASSUME NEW a \in Apps, cancelPendingApplication(a) PROVE Dependents'
    BY <1>6 DEF cancelPendingApplication, At, Idle, TypeOK, Op
<1>7. ASSUME NEW a \in Apps, removeApplication(a) PROVE Dependents'
    BY <1>7 DEF removeApplication, At, Idle, TypeOK, Op
<1>8. ASSUME NEW o \in Objects, die(o) PROVE Dependents'
    BY <1>8 DEF die, At, Idle, TypeOK, Op
<1>9. ASSUME NEW m \in Mgrs, registerDeviceManager(m) PROVE Dependents'
    BY <1>9 DEF registerDeviceManager, At, Idle, TypeOK, Op
<1>10. ASSUME NEW m \in Mgrs, unregisterDeviceManager(m) PROVE Dependents'
    BY <1>10 DEF unregisterDeviceManager, At, Idle, TypeOK, Op
<1>11. ASSUME NEW d \in Devs, registerDevice(d) PROVE Dependents'
    BY <1>11 DEF registerDevice, At, Idle, TypeOK, Op
<1>12. ASSUME NEW d \in Devs, unregisterDevice(d) PROVE Dependents'
    BY <1>12 DEF unregisterDevice, At, Idle, TypeOK, Op
<1>13. ASSUME NEW s \in Svcs, registerService(s) PROVE Dependents'
    BY <1>13 DEF registerService, At, Idle, TypeOK, Op
<1>14. ASSUME NEW s \in Svcs, unregisterService(s) PROVE Dependents'
    BY <1>14 DEF unregisterService, At, Idle, TypeOK, Op
<1>15. ASSUME NEW m \in Mgrs, restoreDeviceManager(m) PROVE Dependents'
    BY <1>15 DEF restoreDeviceManager, At, Idle, TypeOK, Op
<1>16. ASSUME NEW d \in Devs, restoreDevice(d) PROVE Dependents'
    BY <1>16 DEF restoreDevice, At, Idle, TypeOK, Op
<1>17. ASSUME NEW s \in Svcs, restoreService(s) PROVE Dependents'
    BY <1>17 DEF restoreService, At, Idle, TypeOK, Op
<1>18. ASSUME NEW a \in Apps, restoreApplication(a) PROVE Dependents'
    BY <1>18 DEF restoreApplication, At, Idle, TypeOK, Op
<1>19. CASE restart
    BY <1>19 DEF restart, At, Idle, TypeOK, Op
<1>20. CASE fetchDevices
    BY <1>20 DEF fetchDevices, At, Idle, TypeOK, Op
<1>21. CASE fetchServices
    BY <1>21 DEF fetchServices, At, Idle, TypeOK, Op
<1>22. CASE fetchConnections
    BY <1>22 DEF fetchConnections, At, Idle, TypeOK, Op
<1>23. CASE fetchApplications
    BY <1>23 DEF fetchApplications, At, Idle, TypeOK, Op
<1>24. CASE checkDeviceManager
    BY <1>24, CheckedAt
<1>25. CASE checkDevice
    BY <1>25, CheckedAt
<1>26. CASE mountDeviceMgr
    BY <1>26 DEF mountDeviceMgr, At, Idle, TypeOK, Op
<1>27. CASE deviceRegistered
    BY <1>27 DEF deviceRegistered, At, Idle, TypeOK, Op
<1>28. CASE serviceRegistered
    BY <1>28 DEF serviceRegistered, At, Idle, TypeOK, Op
<1>29. CASE restored
    BY <1>29 DEF restored, At, Idle, TypeOK, Op
<1>30. CASE crash
    BY <1>30 DEF crash, At, Idle, TypeOK, Op
<1>31. CASE addDeviceMgr
    BY <1>31 DEF addDeviceMgr, At, Idle, TypeOK, Op
<1>32. CASE deviceManagerUnregistered
    BY <1>32 DEF deviceManagerUnregistered, At, Idle, TypeOK, Op
<1>33. CASE removeDeviceManagerDevices
    BY <1>33 DEF removeDeviceManagerDevices, At, Idle, TypeOK, Op
<1>34. CASE removeDeviceManagerServices
    BY <1>34 DEF removeDeviceManagerServices, At, Idle, TypeOK, Op
<1>35. CASE removeDeviceManager
    BY <1>35 DEF removeDeviceManager, At, Idle, TypeOK, Op
<1>36. CASE storeDeviceInDomainMgr
    BY <1>36 DEF storeDeviceInDomainMgr, At, Idle, TypeOK, Op
<1>37. CASE deviceUnregistered
    BY <1>37 DEF deviceUnregistered, At, Idle, TypeOK, Op
<1>38. CASE eraseDevice
    BY <1>38 DEF eraseDevice, At, Idle, TypeOK, Op
<1>39. CASE storeServiceInDomainMgr
    BY <1>39 DEF storeServiceInDomainMgr, At, Idle, TypeOK, Op
<1>40. CASE serviceUnregistered
    BY <1>40 DEF serviceUnregistered, At, Idle, TypeOK, Op
<1>41. CASE storeServices
    BY <1>41 DEF storeServices, At, Idle, TypeOK, Op
<1>42. ASSUME NEW a \in Apps, releaseDependent(a) PROVE Dependents'
    BY <1>42 DEF releaseDependent, TypeOK, Op, App, Listed
<1>43. ASSUME NEW a \in Apps, releaseThrows(a) PROVE Dependents'
    BY <1>43 DEF releaseThrows, At, Idle, TypeOK, Op
<1>44. CASE UNCHANGED vars
    BY <1>44 DEF vars
<1> QED
    BY <1>1, <1>2, <1>3, <1>4, <1>5, <1>6, <1>7, <1>8, <1>9, <1>10, <1>11,
       <1>12, <1>13, <1>14, <1>15, <1>16, <1>17, <1>18, <1>19, <1>20, <1>21, <1>22,
       <1>23, <1>24, <1>25, <1>26, <1>27, <1>28, <1>29, <1>30, <1>31, <1>32, <1>33,
       <1>34, <1>35, <1>36, <1>37, <1>38, <1>39, <1>40, <1>41, <1>42, <1>43, <1>44
    DEF Next, Call, Step, Creation

\* What runs when the DomainManager crashes is registered again once the state is
\* restored, and the applications on a device are released before it is taken
\* off the list, unless releasing one of them throws: for any domain, any number
\* of crashes, also while restoring, and processes that die at any time.
THEOREM LiveAreKept == Spec => LiveKeptDependentsReleased
<1> DEFINE Inv == /\ TypeOK /\ Shape /\ Consistent /\ InStep /\ Listed
                  /\ StoreDistinct /\ ServicesKept /\ DueDistinct /\ Recoverable
                  /\ Dependents
<1>1. Init => Inv
  <2> SUFFICES ASSUME Init PROVE Inv
    OBVIOUS
  <2>1. op.at = "idle"
    BY DEF Init, Idle, At
  <2>2. Consistent
    BY <2>1 DEF Init, Consistent, ManagersRegistered, OneRegistrationEach,
                registered, offered, NoDevices, NoServices, Idle, At
  <2>3. InStep /\ Listed
    BY <2>1 DEF Init, InStep, Listed, EmptyLists
  <2>4. StoreDistinct /\ ServicesKept
    BY DEF Init, StoreDistinct, ServicesKept, EmptyLists, NoDevices, NoServices
  <2>5. DueDistinct /\ Recoverable /\ Dependents
    BY <2>1 DEF DueDistinct, Recoverable, Dependents, restoring
  <2> QED BY InitTypes, <2>2, <2>3, <2>4, <2>5
<1>2. Inv /\ [Next]_vars => Inv'
  <2> SUFFICES ASSUME Inv, [Next]_vars PROVE Inv'
    OBVIOUS
  <2>1. /\ TypeOK' /\ Shape' /\ Consistent' /\ InStep' /\ Listed' /\ Dependents'
    BY TypeStep, ShapeStep, ConsistentStep, InStepStep, ListedStep, DependentsStep
  <2>2. OneRegistrationEach'
    BY <2>1 DEF Consistent
  <2>3. StoreDistinct' /\ ServicesKept'
    BY <2>2, StoreWritten, StoreDistinctStep, ServicesKeptStep
  <2>4. DueDistinct' /\ Recoverable'
    BY <2>2, DueDistinctStep, RecoverableStep
  <2> QED BY <2>1, <2>3, <2>4
<1>3. Inv /\ restored => RestoreKeepsLive
  <2> SUFFICES ASSUME Inv, restored PROVE RestoreKeepsLive
    OBVIOUS
  <2>1. op.at = "r_apps" /\ fetched.apps = {}
    BY DEF restored
  <2>2. /\ managersThere = devMgrs /\ devicesDue = NoDevices
        /\ servicesDue = NoServices /\ applicationsThere = apps
    BY <2>1 DEF managersThere, devicesDue, servicesDue, applicationsThere
  <2>3. Recoverable /\ restoring
    BY <2>1 DEF restoring
  <2>4. /\ saved.devMgrs \cap alive \subseteq devMgrs
        /\ saved.apps \subseteq apps
    BY <2>2, <2>3 DEF Recoverable
  <2>5. ASSUME NEW d \in Devs \cap alive, saved.devices[d] \in saved.devMgrs \cap alive
        PROVE  d \in registered
    <3>1. saved.devices[d] # None
      BY <2>5, DomainConstants DEF TypeOK, Lists, Objects
    <3> QED BY <2>2, <2>3, <2>5, <3>1 DEF Recoverable, NoDevices, registered
  <2>6. ASSUME NEW s \in Svcs \cap alive, NEW m \in saved.devMgrs \cap alive,
               Ident[m] = saved.services[s]
        PROVE  s \in offered
    <3>1. saved.services[s] # None
      BY <2>6, DomainConstants DEF TypeOK, Lists, Objects, Idents
    <3> QED BY <2>2, <2>3, <2>6, <3>1 DEF Recoverable, NoServices, offered
  <2> QED BY <2>4, <2>5, <2>6 DEF RestoreKeepsLive
<1>4. Inv /\ eraseDevice /\ op.at = "dev_apps" => DependentsReleased
  BY DEF Dependents, DependentsReleased, eraseDevice, dependentsDone
<1> DEFINE Kept == /\ restored => RestoreKeepsLive
                   /\ eraseDevice /\ op.at = "dev_apps" => DependentsReleased
<1>5. Inv => Kept
  BY <1>3, <1>4
<1>6. Inv /\ [Next]_vars => [Kept]_vars
  BY <1>5
<1>7. Spec => []Inv
  <2> HIDE DEF Inv
  <2> QED BY <1>1, <1>2, PTL DEF Spec
<1>8. Spec => [][Kept]_vars
  <2> HIDE DEF Inv, Kept
  <2> QED BY <1>6, <1>7, PTL DEF Spec
<1> QED BY <1>8 DEF LiveKeptDependentsReleased

-----------------------------------------------------------------------------
(* Connections.                                                            *)

\* What a call unregisters is registered until then, and nothing is restored
\* before the first crash.
Underway ==
    /\ op.at \in {"dev_conns", "dev_apps", "dev_erase"} => op.dev \in registered
    /\ op.at = "svc_conns" => op.svc \in offered
    /\ crashes = 0 => ~ restoring

\* Every step keeps it so.
LEMMA UnderwayStep == TypeOK /\ Underway /\ [Next]_vars => Underway'
<1> SUFFICES ASSUME TypeOK, Underway, [Next]_vars PROVE Underway'
    OBVIOUS
<1> USE DEF Underway, registered, offered, goto, domain, memory, others, restoring
<1>1. ASSUME NEW a \in Apps, create(a) PROVE Underway'
    BY <1>1 DEF create, At, Idle, TypeOK, Op
<1>2. ASSUME NEW a \in Apps, releaseObject(a) PROVE Underway'
    BY <1>2 DEF releaseObject, At, Idle, TypeOK, Op
<1>3. ASSUME NEW a \in Apps, addPendingApplication(a) PROVE Underway'
    BY <1>3 DEF addPendingApplication, At, Idle, TypeOK, Op
<1>4. ASSUME NEW a \in Apps, deploy(a) PROVE Underway'
    BY <1>4 DEF deploy, At, Idle, TypeOK, Op
<1>5. ASSUME NEW a \in Apps, completePendingApplication(a) PROVE Underway'
    BY <1>5 DEF completePendingApplication, At, Idle, TypeOK, Op
<1>6. ASSUME NEW a \in Apps, cancelPendingApplication(a) PROVE Underway'
    BY <1>6 DEF cancelPendingApplication, At, Idle, TypeOK, Op
<1>7. ASSUME NEW a \in Apps, removeApplication(a) PROVE Underway'
    BY <1>7 DEF removeApplication, At, Idle, TypeOK, Op
<1>8. ASSUME NEW o \in Objects, die(o) PROVE Underway'
    BY <1>8 DEF die, At, Idle, TypeOK, Op
<1>9. ASSUME NEW m \in Mgrs, registerDeviceManager(m) PROVE Underway'
    BY <1>9 DEF registerDeviceManager, At, Idle, TypeOK, Op
<1>10. ASSUME NEW m \in Mgrs, unregisterDeviceManager(m) PROVE Underway'
    BY <1>10 DEF unregisterDeviceManager, At, Idle, TypeOK, Op
<1>11. ASSUME NEW d \in Devs, registerDevice(d) PROVE Underway'
    BY <1>11 DEF registerDevice, At, Idle, TypeOK, Op
<1>12. ASSUME NEW d \in Devs, unregisterDevice(d) PROVE Underway'
    BY <1>12 DEF unregisterDevice, At, Idle, TypeOK, Op, findDevice, withIdent
<1>13. ASSUME NEW s \in Svcs, registerService(s) PROVE Underway'
    BY <1>13 DEF registerService, At, Idle, TypeOK, Op
<1>14. ASSUME NEW s \in Svcs, unregisterService(s) PROVE Underway'
    BY <1>14 DEF unregisterService, At, Idle, TypeOK, Op
<1>15. ASSUME NEW m \in Mgrs, restoreDeviceManager(m) PROVE Underway'
    BY <1>15 DEF restoreDeviceManager, At, Idle, TypeOK, Op
<1>16. ASSUME NEW d \in Devs, restoreDevice(d) PROVE Underway'
    BY <1>16 DEF restoreDevice, At, Idle, TypeOK, Op, storeDevice
<1>17. ASSUME NEW s \in Svcs, restoreService(s) PROVE Underway'
    BY <1>17 DEF restoreService, At, Idle, TypeOK, Op
<1>18. ASSUME NEW a \in Apps, restoreApplication(a) PROVE Underway'
    BY <1>18 DEF restoreApplication, At, Idle, TypeOK, Op
<1>19. CASE restart
    BY <1>19 DEF restart, At, Idle, TypeOK, Op
<1>20. CASE fetchDevices
    BY <1>20 DEF fetchDevices, At, Idle, TypeOK, Op
<1>21. CASE fetchServices
    BY <1>21 DEF fetchServices, At, Idle, TypeOK, Op
<1>22. CASE fetchConnections
    BY <1>22 DEF fetchConnections, At, Idle, TypeOK, Op
<1>23. CASE fetchApplications
    BY <1>23 DEF fetchApplications, At, Idle, TypeOK, Op
<1>24. CASE checkDeviceManager
    BY <1>24, CheckedAt DEF checkDeviceManager, TypeOK, Op
<1>25. CASE checkDevice
  <2>0. UNCHANGED <<devices, services, crashes>> /\ op.at = "dev_check"
    BY <1>25 DEF checkDevice
  <2>1. CASE op' = Idle
    BY <2>0, <2>1 DEF At, Idle
  <2>2. CASE goto("dev_store")
    BY <2>0, <2>2 DEF TypeOK, Op
  <2>3. ASSUME NEW n \in withIdent(registered, Ident[op.obj]),
               op' = [op EXCEPT !.at = "dev_conns", !.dev = n]
        PROVE  Underway'
    BY <2>0, <2>3 DEF TypeOK, Op, withIdent
  <2> QED BY <1>25, <2>1, <2>2, <2>3 DEF checkDevice
<1>26. CASE mountDeviceMgr
    BY <1>26 DEF mountDeviceMgr, At, Idle, TypeOK, Op
<1>27. CASE deviceRegistered
    BY <1>27 DEF deviceRegistered, At, Idle, TypeOK, Op
<1>28. CASE serviceRegistered
    BY <1>28 DEF serviceRegistered, At, Idle, TypeOK, Op
<1>29. CASE restored
    BY <1>29 DEF restored, At, Idle, TypeOK, Op
<1>30. CASE crash
    BY <1>30 DEF crash, At, Idle, TypeOK, Op
<1>31. CASE addDeviceMgr
    BY <1>31 DEF addDeviceMgr, At, Idle, TypeOK, Op
<1>32. CASE deviceManagerUnregistered
    BY <1>32 DEF deviceManagerUnregistered, At, Idle, TypeOK, Op
<1>33. CASE removeDeviceManagerDevices
    BY <1>33 DEF removeDeviceManagerDevices, At, Idle, TypeOK, Op, devicesOf
<1>34. CASE removeDeviceManagerServices
    BY <1>34 DEF removeDeviceManagerServices, At, Idle, TypeOK, Op, servicesOf
<1>35. CASE removeDeviceManager
    BY <1>35 DEF removeDeviceManager, At, Idle, TypeOK, Op
<1>36. CASE storeDeviceInDomainMgr
    BY <1>36 DEF storeDeviceInDomainMgr, At, Idle, TypeOK, Op, storeDevice
<1>37. CASE deviceUnregistered
    BY <1>37 DEF deviceUnregistered, At, Idle, TypeOK, Op
<1>38. CASE eraseDevice
    BY <1>38 DEF eraseDevice, At, Idle, TypeOK, Op, dependentsDone
<1>39. CASE storeServiceInDomainMgr
    BY <1>39 DEF storeServiceInDomainMgr, At, Idle, TypeOK, Op
<1>40. CASE serviceUnregistered
    BY <1>40 DEF serviceUnregistered, At, Idle, TypeOK, Op
<1>41. CASE storeServices
    BY <1>41 DEF storeServices, At, Idle, TypeOK, Op
<1>42. ASSUME NEW a \in Apps, releaseDependent(a) PROVE Underway'
    BY <1>42 DEF releaseDependent, At, Idle, TypeOK, Op
<1>43. ASSUME NEW a \in Apps, releaseThrows(a) PROVE Underway'
    BY <1>43 DEF releaseThrows, At, Idle, TypeOK, Op
<1>44. CASE UNCHANGED vars
    BY <1>44 DEF vars
<1> QED
    BY <1>1, <1>2, <1>3, <1>4, <1>5, <1>6, <1>7, <1>8, <1>9, <1>10, <1>11,
       <1>12, <1>13, <1>14, <1>15, <1>16, <1>17, <1>18, <1>19, <1>20, <1>21, <1>22,
       <1>23, <1>24, <1>25, <1>26, <1>27, <1>28, <1>29, <1>30, <1>31, <1>32, <1>33,
       <1>34, <1>35, <1>36, <1>37, <1>38, <1>39, <1>40, <1>41, <1>42, <1>43, <1>44
    DEF Next, Call, Step, Creation

\* The identifiers whose connections the call under way has still to look at: of
\* what it has stored, or has broken the connections of.
touched ==
    IF op.at \in {"dev_link", "svc_link"} THEN {Ident[op.obj]}
    ELSE IF op.at \in {"dev_apps", "dev_erase"} THEN {Ident[op.dev]} ELSE {}

\* Both endpoints of c can be found and called, and it holds on to no others.
complete(c) ==
    \A x \in Sides : /\ lookup(named(c, x)) \in alive
                      /\ side(c, x) \in {None, lookup(named(c, x))}

\* Apart from those, what can be connected is.
Made ==
    crashes = 0 =>
        \A c \in conns : complete(c) /\ (\A x \in Sides : named(c, x) \notin touched)
                           => c.connected

\* The step leaves the registry and its connections alone.
ConnectionsStay ==
    /\ UNCHANGED <<devices, services, conns, crashes>>
    /\ alive' \subseteq alive
    /\ touched' = touched

\* The steps that matter to connections before the first crash.
LEMMA ConnectionSteps ==
    TypeOK /\ Underway /\ [Next]_vars =>
        \/ crashes' # 0 \/ ConnectionsStay
        \/ mountDeviceMgr \/ deviceManagerUnregistered
        \/ deviceRegistered \/ serviceRegistered \/ storeDeviceInDomainMgr
        \/ storeServiceInDomainMgr \/ deviceUnregistered \/ eraseDevice
        \/ serviceUnregistered
<1> DEFINE Goal == \/ crashes' # 0 \/ ConnectionsStay
                   \/ mountDeviceMgr \/ deviceManagerUnregistered
                   \/ deviceRegistered \/ serviceRegistered \/ storeDeviceInDomainMgr
                   \/ storeServiceInDomainMgr \/ deviceUnregistered \/ eraseDevice
                   \/ serviceUnregistered
<1> SUFFICES ASSUME TypeOK, Underway, [Next]_vars PROVE Goal
    OBVIOUS
<1> USE DEF ConnectionsStay, touched, goto, domain, memory, others
<1>1. ASSUME NEW a \in Apps, create(a) PROVE Goal
    BY <1>1 DEF create, At, Idle, TypeOK, Op
<1>2. ASSUME NEW a \in Apps, releaseObject(a) PROVE Goal
    BY <1>2 DEF releaseObject, At, Idle, TypeOK, Op
<1>3. ASSUME NEW a \in Apps, addPendingApplication(a) PROVE Goal
    BY <1>3 DEF addPendingApplication, At, Idle, TypeOK, Op
<1>4. ASSUME NEW a \in Apps, deploy(a) PROVE Goal
    BY <1>4 DEF deploy, At, Idle, TypeOK, Op
<1>5. ASSUME NEW a \in Apps, completePendingApplication(a) PROVE Goal
    BY <1>5 DEF completePendingApplication, At, Idle, TypeOK, Op
<1>6. ASSUME NEW a \in Apps, cancelPendingApplication(a) PROVE Goal
    BY <1>6 DEF cancelPendingApplication, At, Idle, TypeOK, Op
<1>7. ASSUME NEW a \in Apps, removeApplication(a) PROVE Goal
    BY <1>7 DEF removeApplication, At, Idle, TypeOK, Op
<1>8. ASSUME NEW o \in Objects, die(o) PROVE Goal
    BY <1>8 DEF die, At, Idle, TypeOK, Op
<1>9. ASSUME NEW m \in Mgrs, registerDeviceManager(m) PROVE Goal
    BY <1>9 DEF registerDeviceManager, At, Idle, TypeOK, Op
<1>10. ASSUME NEW m \in Mgrs, unregisterDeviceManager(m) PROVE Goal
    BY <1>10 DEF unregisterDeviceManager, At, Idle, TypeOK, Op
<1>11. ASSUME NEW d \in Devs, registerDevice(d) PROVE Goal
    BY <1>11 DEF registerDevice, At, Idle, TypeOK, Op
<1>12. ASSUME NEW d \in Devs, unregisterDevice(d) PROVE Goal
    BY <1>12 DEF unregisterDevice, At, Idle, TypeOK, Op
<1>13. ASSUME NEW s \in Svcs, registerService(s) PROVE Goal
    BY <1>13 DEF registerService, At, Idle, TypeOK, Op
<1>14. ASSUME NEW s \in Svcs, unregisterService(s) PROVE Goal
    BY <1>14 DEF unregisterService, At, Idle, TypeOK, Op
<1>15. ASSUME NEW m \in Mgrs, restoreDeviceManager(m) PROVE Goal
    BY <1>15 DEF restoreDeviceManager, Underway, restoring
<1>16. ASSUME NEW d \in Devs, restoreDevice(d) PROVE Goal
    BY <1>16 DEF restoreDevice, Underway, restoring
<1>17. ASSUME NEW s \in Svcs, restoreService(s) PROVE Goal
    BY <1>17 DEF restoreService, Underway, restoring
<1>18. ASSUME NEW a \in Apps, restoreApplication(a) PROVE Goal
    BY <1>18 DEF restoreApplication, Underway, restoring
<1>19. CASE restart
    BY <1>19 DEF restart, Underway, restoring
<1>20. CASE fetchDevices
    BY <1>20 DEF fetchDevices, Underway, restoring
<1>21. CASE fetchServices
    BY <1>21 DEF fetchServices, Underway, restoring
<1>22. CASE fetchConnections
    BY <1>22 DEF fetchConnections, Underway, restoring
<1>23. CASE fetchApplications
    BY <1>23 DEF fetchApplications, Underway, restoring
<1>24. CASE checkDeviceManager
    BY <1>24, CheckedAt DEF checkDeviceManager
<1>25. CASE checkDevice
    BY <1>25, CheckedAt DEF checkDevice
<1>26. CASE mountDeviceMgr
    BY <1>26
<1>27. CASE deviceRegistered
    BY <1>27
<1>28. CASE serviceRegistered
    BY <1>28
<1>29. CASE restored
    BY <1>29 DEF restored, Underway, restoring
<1>30. CASE crash
    BY <1>30 DEF crash, At, Idle, TypeOK, Op
<1>31. CASE addDeviceMgr
    BY <1>31 DEF addDeviceMgr, At, Idle, TypeOK, Op
<1>32. CASE deviceManagerUnregistered
    BY <1>32
<1>33. CASE removeDeviceManagerDevices
    BY <1>33 DEF removeDeviceManagerDevices, At, Idle, TypeOK, Op
<1>34. CASE removeDeviceManagerServices
    BY <1>34 DEF removeDeviceManagerServices, At, Idle, TypeOK, Op
<1>35. CASE removeDeviceManager
    BY <1>35 DEF removeDeviceManager, At, Idle, TypeOK, Op
<1>36. CASE storeDeviceInDomainMgr
    BY <1>36
<1>37. CASE deviceUnregistered
    BY <1>37
<1>38. CASE eraseDevice
    BY <1>38
<1>39. CASE storeServiceInDomainMgr
    BY <1>39
<1>40. CASE serviceUnregistered
    BY <1>40
<1>41. CASE storeServices
    BY <1>41 DEF storeServices, At, Idle, TypeOK, Op
<1>42. ASSUME NEW a \in Apps, releaseDependent(a) PROVE Goal
    BY <1>42 DEF releaseDependent, At, Idle, TypeOK, Op
<1>43. ASSUME NEW a \in Apps, releaseThrows(a) PROVE Goal
    BY <1>43 DEF releaseThrows, At, Idle, TypeOK, Op
<1>44. CASE UNCHANGED vars
    BY <1>44 DEF vars
<1> QED
    BY <1>1, <1>2, <1>3, <1>4, <1>5, <1>6, <1>7, <1>8, <1>9, <1>10, <1>11,
       <1>12, <1>13, <1>14, <1>15, <1>16, <1>17, <1>18, <1>19, <1>20, <1>21, <1>22,
       <1>23, <1>24, <1>25, <1>26, <1>27, <1>28, <1>29, <1>30, <1>31, <1>32, <1>33,
       <1>34, <1>35, <1>36, <1>37, <1>38, <1>39, <1>40, <1>41, <1>42, <1>43, <1>44
    DEF Next, Call, Step, Creation

\* What a lookup makes of the objects it finds.
oneOf(S) == IF S = {} THEN None ELSE CHOOSE o \in S : TRUE

\* A name is looked up as before if what is registered under it stays.
LEMMA LookupStays ==
    ASSUME NEW id,
           \A o \in Devs \cup Svcs : Ident[o] = id =>
               (o \in registered' \cup offered' <=> o \in registered \cup offered)
    PROVE  lookup(id)' = lookup(id)
<1>1. withIdent(registered' \cup offered', id) = withIdent(registered \cup offered, id)
  BY DEF withIdent, registered, offered
<1>2. lookup(id) = oneOf(withIdent(registered \cup offered, id))
  BY DEF lookup, oneOf
<1>3. lookup(id)' = oneOf(withIdent(registered' \cup offered', id))
  BY DEF lookup, oneOf
<1> QED BY <1>1, <1>2, <1>3

\* When the last object of a name is gone, a connection that names it is not
\* complete.
LEMMA NotComplete ==
    ASSUME TypeOK', NEW c, NEW x \in Sides,
           \A o \in registered' \cup offered' : Ident[o] # named(c, x)
    PROVE  ~ complete(c)'
<1>1. withIdent(registered' \cup offered', named(c, x)) = {}
  BY DEF withIdent
<1>2. lookup(named(c, x))' = oneOf(withIdent(registered' \cup offered', named(c, x)))
  BY DEF lookup, oneOf
<1>3. lookup(named(c, x))' = None
  BY <1>1, <1>2 DEF oneOf
<1>4. None \notin alive'
  BY DomainConstants DEF TypeOK
<1> QED BY <1>3, <1>4 DEF complete

\* A connection that is tried when both its endpoints can be called is made.
LEMMA ConnectMakes ==
    ASSUME NEW c \in Connection, complete(connect(c)), alive \subseteq Objects
    PROVE  connect(c).connected
<1>1. \A x \in Sides : named(connect(c), x) = named(c, x)
                       /\ side(connect(c), x) = resolve(c, x)
  BY DEF connect, named, side, Connection, Sides
<1>2. \A x \in Sides : resolve(c, x) \in alive
  <2> TAKE x \in Sides
  <2>1. lookup(named(c, x)) \in alive
    BY <1>1 DEF complete
  <2>2. resolve(c, x) \in {None, lookup(named(c, x))}
    BY <1>1 DEF complete
  <2>3. resolve(c, x) # None
    <3>1. None \notin alive
      BY DomainConstants
    <3> QED BY <2>1, <3>1 DEF resolve
  <2> QED BY <2>1, <2>2, <2>3
<1>3. None \notin alive
  BY DomainConstants
<1>4. c.ports \cup {x \in {x \in Sides \ c.ports : resolve(c, x) # None} :
                       resolve(c, x) \in alive \cup Svcs} = Sides
  BY <1>2, <1>3 DEF Connection
<1>5. "uses" \in Sides /\ "provides" \in Sides
  BY DEF Sides
<1> QED BY <1>2, <1>4, <1>5 DEF connect, Connection

\* A connection that is complete was so before, if its names are looked up as before.
LEMMA CompleteBefore ==
    ASSUME NEW c, \A x \in Sides : lookup(named(c, x))' = lookup(named(c, x)),
           alive' \subseteq alive, complete(c)'
    PROVE  complete(c)
BY DEF complete

\* Every step makes the connections it completes.
LEMMA MadeStep ==
    ASSUME TypeOK, TypeOK', OneRegistrationEach, Underway, Made, [Next]_vars
    PROVE  Made'
<1> SUFFICES ASSUME crashes' = 0, NEW c \in conns', complete(c)',
                    \A x \in Sides : named(c, x) \notin touched'
             PROVE  c.connected
  BY DEF Made
<1> USE DEF goto, others
<1>1. ASSUME UNCHANGED <<devices, services>>, NEW id
      PROVE  lookup(id)' = lookup(id)
  BY <1>1, LookupStays DEF registered, offered
<1>2. ASSUME c \in conns, crashes = 0, complete(c),
             \A x \in Sides : named(c, x) \notin touched
      PROVE  c.connected
  BY <1>2 DEF Made
<1>3. conns \subseteq Connection /\ alive \subseteq Objects /\ op \in Op
  BY DEF TypeOK
<1>4. CASE ConnectionsStay
  <2>1. complete(c)
    BY <1>1, <1>4, CompleteBefore DEF ConnectionsStay
  <2> QED BY <1>2, <1>4, <2>1 DEF ConnectionsStay
<1>5. CASE mountDeviceMgr
  <2>1. touched = {} /\ UNCHANGED <<alive, devices, services, crashes>>
    BY <1>5 DEF mountDeviceMgr, touched
  <2>2. complete(c)
    BY <1>1, <2>1, CompleteBefore
  <2>3. ASSUME NEW k \in Conns, c = connect(fresh(k)) PROVE c.connected
    BY <1>3, <2>2, <2>3, FreshType, ConnectMakes
  <2>4. conns' \subseteq addConnections(Ident[op.obj])
    BY <1>5 DEF mountDeviceMgr, addConnections
  <2> QED BY <1>2, <2>1, <2>2, <2>3, <2>4 DEF addConnections
<1>6. CASE deviceManagerUnregistered
  <2>1. touched = {} /\ UNCHANGED <<alive, devices, services, crashes>>
        /\ conns' \subseteq conns
    BY <1>6 DEF deviceManagerUnregistered, touched
  <2>2. complete(c)
    BY <1>1, <2>1, CompleteBefore
  <2> QED BY <1>2, <2>1, <2>2
<1>7. CASE deviceRegistered \/ serviceRegistered
  <2>1. /\ touched = {Ident[op.obj]} /\ UNCHANGED <<alive, devices, services, crashes>>
        /\ conns' = tryPendingConnections(Ident[op.obj])
    BY <1>7 DEF deviceRegistered, serviceRegistered, touched
  <2>2. complete(c)
    BY <1>1, <2>1, CompleteBefore
  <2>3. PICK b \in conns : c = IF b.connected \/ ~ depends(b, Ident[op.obj]) THEN b
                               ELSE connect(b)
    BY <2>1 DEF tryPendingConnections
  <2>4. CASE c = connect(b)
    BY <1>3, <2>2, <2>4, ConnectMakes
  <2>5. CASE c = b /\ ~ depends(b, Ident[op.obj])
    BY <1>2, <2>1, <2>2, <2>5 DEF depends
  <2> QED BY <2>3, <2>4, <2>5
<1>8. CASE storeDeviceInDomainMgr
  <2>1. /\ op.at = "dev_store" /\ touched = {}
        /\ UNCHANGED <<alive, services, conns, crashes>>
    BY <1>8 DEF storeDeviceInDomainMgr, touched
  <2>2. CASE UNCHANGED devices
    <3>1. complete(c)
      BY <1>1, <2>1, <2>2, CompleteBefore
    <3> QED BY <1>2, <2>1, <3>1
  <2>3. CASE storable(op.obj, Launcher[op.obj])
    <3>1. op' = [op EXCEPT !.at = "dev_link"]
      BY <1>8, <2>3 DEF storeDeviceInDomainMgr, storable, storeThrows
    <3>2. touched' = {Ident[op.obj]}
      BY <1>3, <3>1 DEF touched, Op
    <3>3. \E n : devices' = [devices EXCEPT ![op.obj] = n]
      BY <1>8, <2>3 DEF storeDeviceInDomainMgr, storeDevice
    <3>4. \A o \in Devs : o # op.obj => (o \in registered' <=> o \in registered)
      BY <3>3 DEF registered, TypeOK
    <3>5. offered' = offered
      BY <2>1 DEF offered
    <3>6. ASSUME NEW x \in Sides PROVE lookup(named(c, x))' = lookup(named(c, x))
      <4>1. Ident[op.obj] # named(c, x)
        BY <3>2
      <4>2. \A o \in Devs \cup Svcs : Ident[o] = named(c, x) =>
              (o \in registered' \cup offered' <=> o \in registered \cup offered)
        BY <3>4, <3>5, <4>1 DEF registered
      <4> QED BY <4>2, LookupStays
    <3>7. complete(c)
      BY <2>1, <3>6, CompleteBefore
    <3> QED BY <1>2, <2>1, <3>7
  <2> QED BY <1>8, <2>2, <2>3 DEF storeDeviceInDomainMgr, storeDevice
<1>9. CASE storeServiceInDomainMgr
  <2>1. /\ op.at = "svc_store" /\ touched = {}
        /\ UNCHANGED <<alive, devices, conns, crashes>>
    BY <1>9 DEF storeServiceInDomainMgr, touched
  <2>2. CASE UNCHANGED services
    <3>1. complete(c)
      BY <1>1, <2>1, <2>2, CompleteBefore
    <3> QED BY <1>2, <2>1, <3>1
  <2>3. CASE storeService(op.obj, Launcher[op.obj]) /\ goto("svc_link")
    <3>2. touched' = {Ident[op.obj]}
      BY <1>3, <2>3 DEF touched, Op
    <3>3. \E n : services' = [services EXCEPT ![op.obj] = n]
      BY <2>3 DEF storeService
    <3>4. \A o \in Svcs : o # op.obj => (o \in offered' <=> o \in offered)
      BY <3>3 DEF offered, TypeOK
    <3>5. registered' = registered
      BY <2>1 DEF registered
    <3>6. ASSUME NEW x \in Sides PROVE lookup(named(c, x))' = lookup(named(c, x))
      <4>1. Ident[op.obj] # named(c, x)
        BY <3>2
      <4>2. \A o \in Devs \cup Svcs : Ident[o] = named(c, x) =>
              (o \in registered' \cup offered' <=> o \in registered \cup offered)
        BY <3>4, <3>5, <4>1 DEF offered
      <4> QED BY <4>2, LookupStays
    <3>7. complete(c)
      BY <2>1, <3>6, CompleteBefore
    <3> QED BY <1>2, <2>1, <3>7
  <2> QED BY <1>9, <2>2, <2>3 DEF storeServiceInDomainMgr
<1>10. CASE deviceUnregistered
  <2>1. /\ touched = {} /\ UNCHANGED <<alive, devices, services, crashes>>
        /\ conns' = breakConnections(Ident[op.dev])
    BY <1>10 DEF deviceUnregistered, touched
  <2>2. touched' = {Ident[op.dev]}
    BY <1>3, <1>10 DEF deviceUnregistered, touched, Op
  <2>3. PICK b \in conns : c = IF b.connected /\ depends(b, Ident[op.dev])
                               THEN disconnect(b) ELSE b
    BY <2>1 DEF breakConnections
  <2>4. CASE c = disconnect(b) /\ depends(b, Ident[op.dev])
    <3>1. \A x \in Sides : named(c, x) = named(b, x)
      BY <2>4 DEF disconnect, fresh, named
    <3> QED BY <2>2, <2>4, <3>1 DEF depends
  <2>5. CASE c = b
    <3>1. complete(c)
      BY <1>1, <2>1, CompleteBefore
    <3> QED BY <1>2, <2>1, <2>5, <3>1
  <2> QED BY <2>3, <2>4, <2>5
<1>11. CASE eraseDevice
  <2>1. /\ op.at \in {"dev_apps", "dev_erase"} /\ touched = {Ident[op.dev]}
        /\ devices' = [devices EXCEPT ![op.dev] = None]
        /\ UNCHANGED <<alive, services, conns, crashes>>
    BY <1>11 DEF eraseDevice, dependentsDone, touched
  <2>2. op.dev \in registered
    BY <2>1 DEF Underway
  <2>3. registered' = registered \ {op.dev} /\ offered' = offered
    BY <2>1 DEF registered, offered, TypeOK
  <2>4. CASE \E x \in Sides : named(c, x) = Ident[op.dev]
    <3>1. PICK x \in Sides : named(c, x) = Ident[op.dev]
      BY <2>4
    <3>2. \A o \in registered' \cup offered' : Ident[o] # Ident[op.dev]
      BY <2>2, <2>3, DomainConstants DEF OneRegistrationEach, registered, offered
    <3>3. ~ complete(c)'
      BY <3>1, <3>2, NotComplete
    <3> QED BY <3>3
  <2>5. CASE ~ \E x \in Sides : named(c, x) = Ident[op.dev]
    <3>1. ASSUME NEW x \in Sides PROVE lookup(named(c, x))' = lookup(named(c, x))
      BY <2>3, <2>5, LookupStays
    <3>2. complete(c)
      BY <2>1, <3>1, CompleteBefore
    <3> QED BY <1>2, <2>1, <2>5, <3>2
  <2> QED BY <2>4, <2>5
<1>12. CASE serviceUnregistered
  <2>1. /\ op.at = "svc_conns" /\ touched = {}
        /\ services' = [services EXCEPT ![op.svc] = None]
        /\ conns' = breakConnections(Ident[op.svc])
        /\ UNCHANGED <<alive, devices, crashes>>
    BY <1>12 DEF serviceUnregistered, touched
  <2>2. op.svc \in offered
    BY <2>1 DEF Underway
  <2>3. offered' = offered \ {op.svc} /\ registered' = registered
    BY <2>1 DEF registered, offered, TypeOK
  <2>4. CASE \E x \in Sides : named(c, x) = Ident[op.svc]
    <3>1. PICK x \in Sides : named(c, x) = Ident[op.svc]
      BY <2>4
    <3>2. \A o \in registered' \cup offered' : Ident[o] # Ident[op.svc]
      BY <2>2, <2>3, DomainConstants DEF OneRegistrationEach, registered, offered
    <3>3. ~ complete(c)'
      BY <3>1, <3>2, NotComplete
    <3> QED BY <3>3
  <2>5. CASE ~ \E x \in Sides : named(c, x) = Ident[op.svc]
    <3>1. ASSUME NEW x \in Sides PROVE lookup(named(c, x))' = lookup(named(c, x))
      BY <2>3, <2>5, LookupStays
    <3>2. complete(c)
      BY <2>1, <3>1, CompleteBefore
    <3>3. PICK b \in conns : c = IF b.connected /\ depends(b, Ident[op.svc])
                                 THEN disconnect(b) ELSE b
      BY <2>1 DEF breakConnections
    <3>4. \A x \in Sides : c = disconnect(b) => named(c, x) = named(b, x)
      BY DEF disconnect, fresh, named
    <3>5. c = b
      BY <2>5, <3>3, <3>4 DEF depends
    <3> QED BY <1>2, <2>1, <3>2, <3>5
  <2> QED BY <2>4, <2>5
<1> QED
  BY <1>4, <1>5, <1>6, <1>7, <1>8, <1>9, <1>10, <1>11, <1>12, ConnectionSteps

\* A connection of a DCD whose two endpoints are registered and run is made when
\* no call is under way, in whatever order they came and whatever was
\* unregistered or died in between, as long as the DomainManager has not crashed
\* and the connection does not hold on to an endpoint it resolved before.
THEOREM ConnectionsAreMade == Spec => []ConnectionsMadeIfFresh
<1> DEFINE Inv == TypeOK /\ Shape /\ Consistent /\ Underway /\ Made
<1>1. Init => Inv
  <2> SUFFICES ASSUME Init PROVE Inv
    OBVIOUS
  <2>1. Consistent
    BY DEF Init, Consistent, ManagersRegistered, OneRegistrationEach,
           registered, offered, NoDevices, NoServices, Idle, At
  <2>2. Underway /\ Made
    BY DEF Init, Underway, Made, restoring, Idle, At
  <2> QED BY InitTypes, <2>1, <2>2
<1>2. Inv /\ [Next]_vars => Inv'
  BY TypeStep, ShapeStep, ConsistentStep, UnderwayStep, MadeStep DEF Consistent
<1>3. Inv => ConnectionsMadeIfFresh
  BY DEF Made, complete, touched, ConnectionsMadeIfFresh
<1> QED BY <1>1, <1>2, <1>3, PTL DEF Spec
=============================================================================
