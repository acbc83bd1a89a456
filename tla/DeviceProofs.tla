---------------------------- MODULE DeviceProofs ----------------------------
(***************************************************************************)
(* Proofs about Device: type correctness, and that the legacy allocation   *)
(* keeps every capacity within what the device came up with, and that      *)
(* capacity is conserved, for any number of callers and properties, any    *)
(* width, any environment and any moment at which postConstruction saves   *)
(* the original capacities.                                                *)
(***************************************************************************)
EXTENDS Device, FiniteSetTheorems, TLAPS

\* Before the DeviceManager has configured the device no call has begun ...
NoCallYet ==
    initialConfiguration /\ HasConfigureProps => \A c \in Clients : pc[c] = "ready"

\* and callers do not know of the device.
Unregistered ==
    initialConfiguration /\ HasConfigureProps => ~registered

\* Only a device with callbacks is ever in the callback-based path.
LegacyPath ==
    \A c \in Clients : pc[c] \in {"new_allocate", "new_rollback", "d_new"}
                          => UseNewAllocation

\* What a caller has read and is about to subtract from is within the bound.
SnapshotBounds ==
    \A c \in Clients : \A p \in Props \ Configurable :
        ~initialConfiguration /\ ~UseNewAllocation /\ pc[c] = "apply"
            => current[c][p] <= total[p]

\* A configured device has an entry for every property.
AllRecorded == ~initialConfiguration => recorded = Props

\* A configure() call names configurable properties only.
ConfigureArgs ==
    \A c \in Clients : pc[c] = "configure" => Named(req[c]) \subseteq Configurable

IInv == /\ TypeOK
        /\ NoCallYet
        /\ Unregistered
        /\ LegacyPath
        /\ ConfigureArgs
        /\ SnapshotBounds
        /\ AllRecorded
        /\ CapacityBounds

-----------------------------------------------------------------------------
\* Returning an amount yields a value of the type again.
LEMMA DeallocateType ==
    ASSUME NEW x \in Amounts, NEW y \in Amounts
    PROVE  deallocate(x, y) \in Amounts
  BY DeviceConstants DEF deallocate, Amounts

\* So does taking an amount that is available.
LEMMA AllocateType ==
    ASSUME NEW x \in Amounts, NEW y \in Amounts, allocatable(x, y)
    PROVE  allocate(x, y) \in Amounts /\ allocate(x, y) <= x
  BY DeviceConstants DEF allocate, allocatable, Amounts

\* An empty request and an empty snapshot have the type of amounts.
LEMMA NothingType == Nothing \in [Props -> Amounts]
  BY DeviceConstants DEF Nothing, Amounts

\* configure() keeps capacities in their type.
LEMMA OverrideType ==
    ASSUME NEW f \in [Props -> Amounts], NEW r \in [Props -> Amounts]
    PROVE  Override(f, r) \in [Props -> Amounts]
  BY DEF Override

\* So does a deallocation ...
LEMMA ReturnedType ==
    ASSUME TypeOK, NEW done \in SUBSET Props, NEW r \in [Props -> Amounts]
    PROVE  Returned(done, r) \in [Props -> Amounts]
  BY DeallocateType DEF Returned, TypeOK

\* ... and an allocation whose amounts have been compared with the capacities.
LEMMA NewCapacitiesType ==
    ASSUME TypeOK, NEW c \in Clients, sufficient(c)
    PROVE  newCapacities(c) \in [Props -> Amounts]
  <1> SUFFICES ASSUME NEW p \in Props
               PROVE  (IF req[c][p] > 0 THEN allocate(current[c][p], req[c][p])
                                        ELSE cap[p]) \in Amounts
    BY DEF newCapacities
  <1>1. cap[p] \in Amounts /\ req[c][p] \in Amounts /\ current[c][p] \in Amounts
    BY DEF TypeOK
  <1>2. CASE req[c][p] > 0
    BY <1>1, <1>2, AllocateType DEF sufficient, Named
  <1>3. CASE ~(req[c][p] > 0)
    BY <1>1, <1>3
  <1> QED BY <1>2, <1>3

-----------------------------------------------------------------------------
\* The local variables and the book-keeping keep their types.
LEMMA LocalsType ==
    ASSUME TypeOK, NEW c \in Clients, NEW l \in PcValues,
           Goto(c, l) \/ Exit(c, l)
    PROVE  /\ pc' \in [Clients -> PcValues]
           /\ req' \in [Clients -> [Props -> Amounts]]
           /\ bad' \in [Clients -> BadKinds]
           /\ current' \in [Clients -> [Props -> Amounts]]
           /\ todo' \in [Clients -> SUBSET Props]
           /\ pc' = [pc EXCEPT ![c] = l]
           /\ \A d \in Clients \ {c} :
                pc'[d] = pc[d] /\ req'[d] = req[d] /\ current'[d] = current[d]
  <1>1. CASE Goto(c, l)
    BY <1>1 DEF Goto, TypeOK, locals
  <1>2. CASE Exit(c, l)
    BY <1>2, NothingType DEF Exit, TypeOK, BadKinds
  <1> QED BY <1>1, <1>2

\* What callers hold stays a number for every property.
LEMMA BookType ==
    ASSUME TypeOK, NEW c \in Clients, NEW f \in [Props -> Int], Book(c, f)
    PROVE  granted' \in [Clients -> [Props -> Int]]
  BY DEF Book, TypeOK

-----------------------------------------------------------------------------
\* The ghost that says whether the books are kept is set by every step or kept.
LEMMA SpoiltType ==
    TypeOK /\ [Next]_vars => spoilt' \in BOOLEAN
  <1> SUFFICES ASSUME TypeOK, [Next]_vars PROVE spoilt' \in BOOLEAN
    OBVIOUS
  <1>1. CASE spoilt' = spoilt
    BY <1>1 DEF TypeOK
  <1>2. ASSUME NEW c \in Clients,
               Proceed(c) \/ ReleaseObject(c)
                 \/ \E r \in Requests :
                      \/ Configure(c, r)
                      \/ \E b \in BadKinds :
                           AllocateCapacity(c, r, b) \/ DeallocateCapacity(c, r, b)
        PROVE  spoilt' \in BOOLEAN \/ spoilt' = spoilt
    BY <1>2 DEF Proceed, ReleaseObject, Configure, AllocateCapacity, DeallocateCapacity,
         AllocateValidate, AllocateQuery, AllocateRefused, AllocateApply, AllocateThrow,
         NewAllocate, NewRefuse, NewRollback, NewDeallocate, DeallocateCheck,
         DeallocateApply, DeallocateBadType, ConfigureProperties, ReleaseLock,
         ReleaseUnregister, books
  <1>3. ASSUME \/ \E r \in Requests : RegisterDevice(r)
               \/ \E p \in Props : SaveCapacity(p)
               \/ \E s \in AdminType : AdminState(s)
               \/ UNCHANGED vars
        PROVE  spoilt' = spoilt
    BY <1>3 DEF RegisterDevice, SaveCapacity, AdminState, vars, books
  <1> QED BY <1>1, <1>2, <1>3 DEF Next

\* Every step preserves the types.
LEMMA TypeStep == TypeOK /\ [Next]_vars => TypeOK'
  <1> SUFFICES ASSUME TypeOK, [Next]_vars PROVE TypeOK'
    OBVIOUS
  <1>0. spoilt' \in BOOLEAN
    BY SpoiltType
  <1> USE <1>0 DEF state, books, caps
  <1>1. ASSUME NEW r \in Requests, RegisterDevice(r) PROVE TypeOK'
    <2>1. Override(cap, r) \in [Props -> Amounts]
      BY OverrideType DEF TypeOK, Requests
    <2>2. /\ cap' \in [Props -> Amounts]
          /\ originalCap' \in [Props -> Amounts]
          /\ initialConfiguration' \in BOOLEAN /\ recorded' \subseteq Props
      BY <1>1, <2>1 DEF RegisterDevice, TypeOK
    <2> QED BY <1>1, <2>2 DEF RegisterDevice, TypeOK, locals
  <1>2. ASSUME NEW c \in Clients, NEW r \in Requests, Configure(c, r)
        PROVE  TypeOK'
    <2>1. originalCap' \in [Props -> Amounts]
      BY <1>2, OverrideType DEF Configure, TypeOK, Requests
    <2> QED
      BY <1>2, <2>1 DEF Configure, Enter, TypeOK, Requests, PcValues, BadKinds,
                        Named
  <1>3. ASSUME NEW c \in Clients, ConfigureProperties(c) PROVE TypeOK'
    <2>1. cap' \in [Props -> Amounts]
      BY <1>3, OverrideType DEF ConfigureProperties, TypeOK
    <2> QED
      BY <1>3, <2>1, LocalsType DEF ConfigureProperties, Return, TypeOK, PcValues
  <1>4. ASSUME NEW c \in Clients, NEW r \in Requests, NEW b \in BadKinds,
               AllocateCapacity(c, r, b) \/ DeallocateCapacity(c, r, b)
        PROVE  TypeOK'
    <2>1. \/ Return(c)
          \/ \E l \in {"new_allocate", "validate", "d_new", "d_check"} :
                Enter(c, l, r, b)
      BY <1>4 DEF AllocateCapacity, DeallocateCapacity
    <2>2. UNCHANGED <<state, granted>>
      BY <1>4 DEF AllocateCapacity, DeallocateCapacity
    <2>3. CASE Return(c)
      BY <2>2, <2>3, LocalsType DEF Return, TypeOK, PcValues
    <2>4. ASSUME NEW l \in {"new_allocate", "validate", "d_new", "d_check"},
                 Enter(c, l, r, b)
          PROVE  TypeOK'
      BY <2>2, <2>4 DEF Enter, TypeOK, Requests, PcValues, Named
    <2> QED BY <2>1, <2>3, <2>4
  <1>5. ASSUME NEW c \in Clients,
               \/ AllocateValidate(c) \/ AllocateRefused(c) \/ DeallocateCheck(c)
        PROVE  TypeOK'
    <2>1. \E l \in {"ready", "query", "d_apply"} : Goto(c, l) \/ Exit(c, l)
      BY <1>5 DEF AllocateValidate, AllocateRefused, DeallocateCheck, Return
    <2>2. UNCHANGED <<state, granted>>
      BY <1>5 DEF AllocateValidate, AllocateRefused, DeallocateCheck
    <2> QED BY <2>1, <2>2, LocalsType DEF TypeOK, PcValues
  <1>6. ASSUME NEW c \in Clients, AllocateQuery(c) PROVE TypeOK'
    BY <1>6 DEF AllocateQuery, TypeOK, PcValues
  <1>7. ASSUME NEW c \in Clients, AllocateApply(c) PROVE TypeOK'
    <2>1. cap' \in [Props -> Amounts]
      BY <1>7, NewCapacitiesType DEF AllocateApply
    <2>2. granted' \in [Clients -> [Props -> Int]]
      <3> DEFINE f == [p \in Props |-> granted[c][p] + req[c][p]]
      <3>1. f \in [Props -> Int]
        BY DEF TypeOK, Amounts
      <3> HIDE DEF f
      <3>2. Book(c, f)
        BY <1>7 DEF AllocateApply, Grant, f
      <3> QED BY <3>1, <3>2, BookType
    <2>3. usageState' \in UsageType
      BY <1>7 DEF AllocateApply, UsageType
    <2> QED
      BY <1>7, <2>1, <2>2, <2>3, LocalsType
         DEF AllocateApply, Return, TypeOK, PcValues
  <1>8. ASSUME NEW c \in Clients, NEW failed \in SUBSET Props,
               NEW written \in SUBSET Props, AllocateThrow(c, failed, written)
        PROVE  TypeOK'
    <2>1. cap' \in [Props -> Amounts]
      BY <1>8, NewCapacitiesType DEF AllocateThrow, TypeOK
    <2>2. propertySetAccess' \in Clients \cup {NoClient}
      BY <1>8 DEF AllocateThrow, TypeOK
    <2>3. \E l \in {"ready", "self_deadlock"} : Goto(c, l) \/ Exit(c, l)
      BY <1>8 DEF AllocateThrow, Return
    <2>4. UNCHANGED <<caps, usageState, adminState,
                      registered, granted>>
      BY <1>8 DEF AllocateThrow
    <2> QED BY <2>1, <2>2, <2>3, <2>4, LocalsType DEF TypeOK, PcValues
  <1>9. ASSUME NEW c \in Clients, NEW p \in Props,
               \/ NewAllocate(c, p) \/ NewRollback(c, p) \/ NewDeallocate(c, p)
        PROVE  TypeOK'
    <2>1. cap' \in [Props -> Amounts]
      <3>1. cap[p] \in Amounts /\ req[c][p] \in Amounts
        BY DEF TypeOK
      <3>2. CASE NewAllocate(c, p)
        BY <3>1, <3>2, AllocateType DEF NewAllocate, TypeOK
      <3>3. CASE NewRollback(c, p) \/ NewDeallocate(c, p)
        <4>1. deallocate(cap[p], req[c][p]) \in Amounts
          BY <3>1, DeallocateType
        <4>2. cap' = [cap EXCEPT ![p] = deallocate(cap[p], req[c][p])]
          BY <3>3 DEF NewRollback, NewDeallocate
        <4> QED BY <4>1, <4>2 DEF TypeOK
      <3> QED BY <1>9, <3>2, <3>3
    <2>2. granted' \in [Clients -> [Props -> Int]]
      <3> DEFINE f == [q \in Props |-> granted[c][q] + req[c][q]]
                 g == [q \in Props |-> IF q \in {p} THEN granted[c][q] - req[c][q]
                                                   ELSE granted[c][q]]
      <3>1. f \in [Props -> Int] /\ g \in [Props -> Int]
        BY DEF TypeOK, Amounts
      <3> HIDE DEF f, g
      <3>2. Book(c, f) \/ Book(c, g) \/ UNCHANGED granted
        BY <1>9 DEF NewAllocate, NewRollback, NewDeallocate, Grant, GiveBack, f, g
      <3>3. CASE UNCHANGED granted
        BY <3>3 DEF TypeOK
      <3> QED BY <3>1, <3>2, <3>3, BookType
    <2>3. Advance(c, p)
      BY <1>9 DEF NewAllocate, NewRollback, NewDeallocate
    <2>4. UNCHANGED <<caps, usageState, adminState,
                      propertySetAccess, registered>>
      BY <1>9 DEF NewAllocate, NewRollback, NewDeallocate
    <2>5. CASE todo[c] = {p}
      BY <2>1, <2>2, <2>3, <2>4, <2>5, LocalsType
         DEF Advance, Return, TypeOK, PcValues
    <2>6. CASE todo[c] # {p}
      <3>1. todo' = [todo EXCEPT ![c] = todo[c] \ {p}]
        BY <2>3, <2>6 DEF Advance
      <3>2. todo' \in [Clients -> SUBSET Props]
        BY <3>1 DEF TypeOK
      <3>3. UNCHANGED <<pc, req, bad, current>>
        BY <2>3, <2>6 DEF Advance
      <3> QED BY <2>1, <2>2, <2>4, <3>2, <3>3 DEF TypeOK
    <2> QED BY <2>5, <2>6
  <1>10. ASSUME NEW c \in Clients, NEW p \in Props, NewRefuse(c, p)
         PROVE  TypeOK'
    <2> DEFINE succeeded == Named(req[c]) \ todo[c]
    <2>1. CASE succeeded = {} \/ adminState = "LOCKED"
      BY <1>10, <2>1, LocalsType DEF NewRefuse, Return, TypeOK, PcValues
    <2>2. CASE ~(succeeded = {} \/ adminState = "LOCKED")
      <3>1. /\ pc' = [pc EXCEPT ![c] = "new_rollback"]
            /\ todo' = [todo EXCEPT ![c] = succeeded]
            /\ UNCHANGED <<req, bad, current, state, granted>>
        BY <1>10, <2>2 DEF NewRefuse
      <3>2. succeeded \in SUBSET Props
        BY DEF Named
      <3>3. todo' \in [Clients -> SUBSET Props]
        BY <3>1, <3>2 DEF TypeOK
      <3> QED BY <3>1, <3>3 DEF TypeOK, PcValues
    <2> QED BY <2>1, <2>2
  <1>11. ASSUME NEW c \in Clients, NEW props \in SUBSET Props,
                DeallocateApply(c, props) \/ DeallocateBadType(c, props)
         PROVE  TypeOK'
    <2>1. PICK done \in SUBSET Props :
              /\ cap' = Returned(done, req[c])
              /\ GiveBack(c, done)
      <3>1. CASE DeallocateApply(c, props)
        BY <3>1 DEF DeallocateApply, Named
      <3>2. CASE DeallocateBadType(c, props)
        BY <3>2 DEF DeallocateBadType, Named
      <3> QED BY <1>11, <3>1, <3>2
    <2>2. cap' \in [Props -> Amounts]
      BY <2>1, ReturnedType DEF TypeOK
    <2>3. granted' \in [Clients -> [Props -> Int]]
      <3> DEFINE g == [q \in Props |-> IF q \in done THEN granted[c][q] - req[c][q]
                                                    ELSE granted[c][q]]
      <3>1. g \in [Props -> Int]
        BY DEF TypeOK, Amounts
      <3> HIDE DEF g
      <3>2. Book(c, g)
        BY <2>1 DEF GiveBack, g
      <3> QED BY <3>1, <3>2, BookType
    <2>4. usageState' \in UsageType
      BY <1>11 DEF DeallocateApply, DeallocateBadType, TypeOK, UsageType
    <2>5. /\ Return(c)
          /\ UNCHANGED <<caps, adminState,
                         propertySetAccess, registered>>
      BY <1>11 DEF DeallocateApply, DeallocateBadType
    <2> QED
      BY <2>2, <2>3, <2>4, <2>5, LocalsType DEF Return, TypeOK, PcValues
  <1>12. ASSUME NEW s \in AdminType, AdminState(s) PROVE TypeOK'
    BY <1>12 DEF AdminState, TypeOK, locals
  <1>13. ASSUME NEW c \in Clients,
                ReleaseObject(c) \/ ReleaseLock(c) \/ ReleaseUnregister(c)
         PROVE  TypeOK'
    <2>1. \E l \in {"ready", "r_lock", "r_unregister", "released"} :
              Goto(c, l) \/ Exit(c, l)
      BY <1>13 DEF ReleaseObject, ReleaseLock, ReleaseUnregister, Return
    <2>2. adminState' \in AdminType /\ registered' \in BOOLEAN
      BY <1>13 DEF ReleaseObject, ReleaseLock, ReleaseUnregister, TypeOK, AdminType
    <2>3. UNCHANGED <<cap, caps, usageState,
                      propertySetAccess, granted>>
      BY <1>13 DEF ReleaseObject, ReleaseLock, ReleaseUnregister
    <2> QED BY <2>1, <2>2, <2>3, LocalsType DEF TypeOK, PcValues
  <1>15. ASSUME NEW p \in Props, SaveCapacity(p) PROVE TypeOK'
    BY <1>15 DEF SaveCapacity, locals, TypeOK
  <1>14. CASE UNCHANGED vars
    BY <1>14 DEF vars, locals, TypeOK
  <1> QED
    BY <1>1, <1>2, <1>3, <1>4, <1>5, <1>6, <1>7, <1>8, <1>9, <1>10, <1>11,
       <1>12, <1>13, <1>14, <1>15 DEF Next, Proceed

\* A freshly constructed device is in its types.
LEMMA TypeInit == Init => TypeOK
  <1>1. Nothing \in [Props -> Amounts] /\ Nothing \in [Props -> Int]
    BY NothingType DEF Nothing
  <1>2. InitialCap \in [Props -> Amounts]
    BY DeviceConstants
  <1>3. ASSUME Init PROVE spoilt \in BOOLEAN
    <2>1. spoilt = ("overreturn" \in Environment)
      BY <1>3, Zenon DEF Init
    <2>2. ("overreturn" \in Environment) \in BOOLEAN
      OBVIOUS
    <2> QED BY <2>1, <2>2, Zenon
  <1> QED
    BY <1>1, <1>2, <1>3
       DEF Init, TypeOK, UsageType, AdminType, PcValues, BadKinds

\* Type correctness of the device, for every number of callers and properties.
THEOREM TypeCorrect == Spec => []TypeOK
  <1> QED BY TypeInit, TypeStep, PTL DEF Spec

-----------------------------------------------------------------------------
\* An override by configurable properties leaves the others alone.
LEMMA OverrideOthers ==
    ASSUME NEW f \in [Props -> Amounts], NEW r \in [Props -> Amounts],
           Named(r) \subseteq Configurable, NEW p \in Props \ Configurable
    PROVE  Override(f, r)[p] = f[p]
  BY DEF Override, Named

\* The new capacities of an allocation are within the bound if both the
\* values it read and the current ones are.
LEMMA NewCapacitiesBound ==
    ASSUME TypeOK, NEW c \in Clients, sufficient(c), NEW p \in Props,
           current[c][p] <= total[p], cap[p] <= total[p]
    PROVE  newCapacities(c)[p] <= total[p]
  <1>1. /\ cap[p] \in Amounts /\ req[c][p] \in Amounts
        /\ current[c][p] \in Amounts /\ total[p] \in Amounts
    BY DEF TypeOK
  <1>2. CASE req[c][p] > 0
    <2>1. allocatable(current[c][p], req[c][p])
      BY <1>2 DEF sufficient, Named
    <2>2. allocate(current[c][p], req[c][p]) <= current[c][p]
      BY <1>1, <2>1, AllocateType
    <2>3. allocate(current[c][p], req[c][p]) \in Amounts
      BY <1>1, <2>1, AllocateType
    <2>4. newCapacities(c)[p] = allocate(current[c][p], req[c][p])
      BY <1>2 DEF newCapacities
    <2> HIDE DEF newCapacities
    <2> QED BY <1>1, <2>2, <2>3, <2>4 DEF Amounts
  <1>3. CASE ~(req[c][p] > 0)
    <2>1. newCapacities(c)[p] = cap[p]
      BY <1>3 DEF newCapacities
    <2> QED BY <2>1
  <1> QED BY <1>2, <1>3

\* A step that changes neither bound nor configuration, lets a call into
\* none of the guarded places, and keeps the capacities bounded, is safe.
LEMMA FramedStep ==
    ASSUME IInv, TypeOK', NEW c \in Clients, NEW l \in PcValues,
           UNCHANGED caps,
           pc' = [pc EXCEPT ![c] = l],
           initialConfiguration /\ HasConfigureProps => l = "ready",
           registered' => registered,
           l \notin {"apply", "configure"},
           l \in {"new_allocate", "new_rollback", "d_new"} => UseNewAllocation,
           \A d \in Clients \ {c} : req'[d] = req[d] /\ current'[d] = current[d],
           \A p \in Props \ Configurable :
              ~UseNewAllocation /\ ~initialConfiguration
                  => cap'[p] <= total[p]
    PROVE  IInv'
  <1>1. pc'[c] = l /\ \A d \in Clients \ {c} : pc'[d] = pc[d]
    BY DEF IInv, TypeOK
  <1>2. NoCallYet'
    BY <1>1 DEF IInv, NoCallYet, caps
  <1>3. LegacyPath'
    BY <1>1 DEF IInv, LegacyPath
  <1>4. ConfigureArgs'
    BY <1>1 DEF IInv, ConfigureArgs, Named
  <1>5. SnapshotBounds'
    BY <1>1 DEF IInv, SnapshotBounds, caps
  <1>6. CapacityBounds'
    BY DEF IInv, CapacityBounds, caps
  <1>7. Unregistered' /\ AllRecorded'
    BY DEF IInv, Unregistered, AllRecorded, caps
  <1> QED BY <1>2, <1>3, <1>4, <1>5, <1>6, <1>7 DEF IInv

-----------------------------------------------------------------------------
\* Every step preserves the inductive invariant.
LEMMA IInvStep == IInv /\ [Next]_vars => IInv'
  <1> SUFFICES ASSUME IInv, [Next]_vars PROVE IInv'
    OBVIOUS
  <1> USE DEF books
  <1>0. TypeOK /\ TypeOK'
    BY TypeStep DEF IInv
  <1>a. \A p \in Props \ Configurable :
            ~UseNewAllocation /\ ~initialConfiguration => cap[p] <= total[p] /\ originalCap[p] <= total[p]
    BY DEF IInv, CapacityBounds
  <1> USE DEF state, caps
  <1>1. ASSUME NEW r \in Requests, RegisterDevice(r) PROVE IInv'
    <2>1. UNCHANGED <<pc, req, current>>
      BY <1>1 DEF RegisterDevice, locals
    <2>2. CASE HasConfigureProps
      <3>1. \A c \in Clients : pc'[c] = "ready"
        BY <1>1, <2>1, <2>2 DEF RegisterDevice, IInv, NoCallYet
      <3>2. cap' = originalCap' /\ total' = cap' /\ recorded' = Props
        BY <1>1, <2>2 DEF RegisterDevice
      <3>3. CapacityBounds' /\ AllRecorded'
        BY <1>0, <3>2 DEF CapacityBounds, AllRecorded, TypeOK, Amounts
      <3> QED
        BY <1>0, <1>1, <2>2, <3>1, <3>3
           DEF RegisterDevice, IInv, Unregistered, NoCallYet, LegacyPath, ConfigureArgs, SnapshotBounds
    <2>3. CASE ~HasConfigureProps
      BY <1>0, <1>1, <2>1, <2>3
         DEF RegisterDevice, IInv, NoCallYet, LegacyPath, ConfigureArgs,
             SnapshotBounds, CapacityBounds, AllRecorded, Named, Unregistered
    <2> QED BY <2>2, <2>3
  <1>2. ASSUME NEW c \in Clients, NEW r \in Requests, Configure(c, r)
        PROVE  IInv'
    <2>1. /\ pc' = [pc EXCEPT ![c] = "configure"]
          /\ req' = [req EXCEPT ![c] = r]
          /\ UNCHANGED <<cap, current, initialConfiguration, recorded, total>>
      BY <1>2 DEF Configure, Enter
    <2>2. \A p \in Props \ Configurable : originalCap'[p] = originalCap[p]
      BY <1>0, <1>2, OverrideOthers DEF Configure, TypeOK, Requests
    <2>3. pc'[c] = "configure" /\ \A d \in Clients \ {c} : pc'[d] = pc[d]
      BY <1>0, <2>1 DEF TypeOK
    <2>4. NoCallYet'
      <3>1. ASSUME initialConfiguration, HasConfigureProps PROVE FALSE
        BY <1>2, <3>1 DEF Configure, Calling, IInv, Unregistered
      <3> QED BY <2>1, <3>1 DEF NoCallYet
    <2>5. LegacyPath'
      BY <2>3 DEF IInv, LegacyPath
    <2>6. ConfigureArgs'
      <3>1. req'[c] = r /\ \A d \in Clients \ {c} : req'[d] = req[d]
        BY <1>0, <2>1 DEF TypeOK
      <3> QED BY <1>2, <2>3, <3>1 DEF IInv, ConfigureArgs, Configure, Named
    <2>7. SnapshotBounds'
      BY <2>1, <2>2, <2>3 DEF IInv, SnapshotBounds
    <2>8. CapacityBounds'
      BY <2>1, <2>2 DEF IInv, CapacityBounds
    <2>9. Unregistered' /\ AllRecorded'
      BY <1>2, <2>1 DEF IInv, Unregistered, AllRecorded, Configure
    <2> QED BY <1>0, <2>4, <2>5, <2>6, <2>7, <2>8, <2>9 DEF IInv
  <1>b. ASSUME NEW c \in Clients, pc[c] # "ready"
        PROVE  ~(initialConfiguration /\ HasConfigureProps)
    BY <1>b DEF IInv, NoCallYet
  <1>3. ASSUME NEW c \in Clients, ConfigureProperties(c) PROVE IInv'
    <2>1. Exit(c, "ready") /\ pc[c] = "configure"
      BY <1>3 DEF ConfigureProperties, Return
    <2>2. \A p \in Props \ Configurable : cap'[p] = cap[p]
      <3>1. Named(req[c]) \subseteq Configurable /\ req[c] \in [Props -> Amounts]
        BY <1>0, <2>1 DEF IInv, ConfigureArgs, TypeOK
      <3> QED BY <1>0, <1>3, <3>1, OverrideOthers DEF ConfigureProperties, TypeOK
    <2>3. UNCHANGED <<caps, registered>>
      BY <1>3 DEF ConfigureProperties
    <2>4. "ready" \in PcValues
      BY DEF PcValues
    <2>5. /\ pc' = [pc EXCEPT ![c] = "ready"]
          /\ \A d \in Clients \ {c} : req'[d] = req[d] /\ current'[d] = current[d]
      BY <1>0, <2>1, <2>4, LocalsType
    <2> QED BY <1>0, <1>a, <2>2, <2>3, <2>4, <2>5, FramedStep
  <1>4. ASSUME NEW c \in Clients, NEW r \in Requests, NEW b \in BadKinds,
               AllocateCapacity(c, r, b) \/ DeallocateCapacity(c, r, b)
        PROVE  IInv'
    <2>1. PICK l \in {"ready", "new_allocate", "validate", "d_new", "d_check"} :
              /\ Exit(c, l) \/ Enter(c, l, r, b)
              /\ l \in {"new_allocate", "d_new"} => UseNewAllocation
      BY <1>4 DEF AllocateCapacity, DeallocateCapacity, Return
    <2>2. UNCHANGED state
      BY <1>4 DEF AllocateCapacity, DeallocateCapacity
    <2>3. ~(initialConfiguration /\ HasConfigureProps)
      BY <1>4 DEF AllocateCapacity, DeallocateCapacity, Calling, IInv, Unregistered
    <2>4. l \in PcValues
      BY DEF PcValues
    <2>5. /\ pc' = [pc EXCEPT ![c] = l]
          /\ \A d \in Clients \ {c} : req'[d] = req[d] /\ current'[d] = current[d]
      <3>1. CASE Exit(c, l)
        BY <1>0, <2>4, <3>1, LocalsType
      <3>2. CASE Enter(c, l, r, b)
        BY <1>0, <3>2 DEF Enter, TypeOK
      <3> QED BY <2>1, <3>1, <3>2
    <2> QED BY <1>0, <1>a, <2>1, <2>2, <2>3, <2>4, <2>5, FramedStep
  <1>5. ASSUME NEW c \in Clients,
               \/ AllocateValidate(c) \/ AllocateRefused(c) \/ DeallocateCheck(c)
        PROVE  IInv'
    <2>1. PICK l \in {"ready", "query", "d_apply"} : Goto(c, l) \/ Exit(c, l)
      BY <1>5 DEF AllocateValidate, AllocateRefused, DeallocateCheck, Return
    <2>2. UNCHANGED state /\ pc[c] # "ready"
      BY <1>5 DEF AllocateValidate, AllocateRefused, DeallocateCheck
    <2>3. l \in PcValues
      BY DEF PcValues
    <2>4. /\ pc' = [pc EXCEPT ![c] = l]
          /\ \A d \in Clients \ {c} : req'[d] = req[d] /\ current'[d] = current[d]
      BY <1>0, <2>1, <2>3, LocalsType
    <2> QED BY <1>0, <1>a, <1>b, <2>1, <2>2, <2>3, <2>4, FramedStep
  <1>6. ASSUME NEW c \in Clients, AllocateQuery(c) PROVE IInv'
    <2>1. /\ pc'[c] = "apply" /\ current'[c] = cap
          /\ \A d \in Clients \ {c} : pc'[d] = pc[d] /\ current'[d] = current[d]
          /\ UNCHANGED <<cap, caps, registered, req>>
          /\ pc[c] # "ready"
      BY <1>0, <1>6 DEF AllocateQuery, TypeOK
    <2>2. SnapshotBounds'
      <3> SUFFICES ASSUME NEW d \in Clients, NEW p \in Props \ Configurable,
                          ~initialConfiguration, ~UseNewAllocation,
                          pc'[d] = "apply"
                   PROVE  current'[d][p] <= total[p]
        BY <2>1 DEF SnapshotBounds
      <3>1. CASE d = c
        BY <1>a, <2>1, <3>1
      <3>2. CASE d # c
        BY <2>1, <3>2 DEF IInv, SnapshotBounds
      <3> QED BY <3>1, <3>2
    <2>3. NoCallYet' /\ Unregistered' /\ CapacityBounds' /\ AllRecorded'
      BY <1>b, <2>1 DEF IInv, NoCallYet, Unregistered, CapacityBounds, AllRecorded
    <2>4. LegacyPath' /\ ConfigureArgs'
      BY <2>1 DEF IInv, LegacyPath, ConfigureArgs, Named
    <2> QED BY <1>0, <2>2, <2>3, <2>4 DEF IInv
  <1>7. ASSUME NEW c \in Clients,
               \/ AllocateApply(c)
               \/ \E failed, written \in SUBSET Props :
                      AllocateThrow(c, failed, written)
        PROVE  IInv'
    <2>1. PICK l \in {"ready", "self_deadlock"} : Goto(c, l) \/ Exit(c, l)
      BY <1>7 DEF AllocateApply, AllocateThrow, Return
    <2>2. /\ UNCHANGED <<caps, registered>>
          /\ pc[c] = "apply" /\ sufficient(c)
      BY <1>7 DEF AllocateApply, AllocateThrow
    <2>3. \A p \in Props : cap'[p] = cap[p] \/ cap'[p] = newCapacities(c)[p]
      <3>1. CASE AllocateApply(c)
        BY <3>1 DEF AllocateApply
      <3>2. ASSUME NEW failed \in SUBSET Props, NEW written \in SUBSET Props,
                   AllocateThrow(c, failed, written)
            PROVE  \A p \in Props : cap'[p] = cap[p] \/ cap'[p] = newCapacities(c)[p]
        BY <3>2 DEF AllocateThrow
      <3> QED BY <1>7, <3>1, <3>2
    <2>4. ASSUME NEW p \in Props \ Configurable,
                 ~UseNewAllocation, ~initialConfiguration
          PROVE  cap'[p] <= total[p]
      <3>1. cap[p] <= total[p] /\ current[c][p] <= total[p]
        BY <1>a, <2>2, <2>4 DEF IInv, SnapshotBounds
      <3>2. newCapacities(c)[p] <= total[p]
        BY <1>0, <2>2, <3>1, NewCapacitiesBound
      <3> QED BY <2>3, <3>1, <3>2
    <2>5. l \in PcValues
      BY DEF PcValues
    <2>6. /\ pc' = [pc EXCEPT ![c] = l]
          /\ \A d \in Clients \ {c} : req'[d] = req[d] /\ current'[d] = current[d]
      BY <1>0, <2>1, <2>5, LocalsType
    <2> QED BY <1>0, <1>b, <2>1, <2>2, <2>4, <2>5, <2>6, FramedStep
  <1>8. ASSUME NEW c \in Clients, NEW p \in Props,
               \/ NewAllocate(c, p) \/ NewRefuse(c, p)
               \/ NewRollback(c, p) \/ NewDeallocate(c, p)
        PROVE  IInv'
    <2>1. pc[c] \in {"new_allocate", "new_rollback", "d_new"}
      BY <1>8 DEF NewAllocate, NewRefuse, NewRollback, NewDeallocate
    <2>2. UseNewAllocation
      BY <2>1 DEF IInv, LegacyPath
    <2>3. UNCHANGED <<caps, registered>>
      BY <1>8 DEF NewAllocate, NewRefuse, NewRollback, NewDeallocate
    <2>4. PICK l \in {"ready", "new_rollback", "new_allocate", "d_new"} :
              /\ pc' = [pc EXCEPT ![c] = l]
              /\ \A d \in Clients \ {c} : req'[d] = req[d] /\ current'[d] = current[d]
      <3>1. CASE Return(c)
        <4>1. "ready" \in PcValues /\ Exit(c, "ready")
          BY <3>1 DEF PcValues, Return
        <4> QED BY <1>0, <4>1, LocalsType
      <3>2. CASE ~Return(c)
        <4>1. UNCHANGED <<req, current>>
          BY <1>8, <3>2 DEF NewAllocate, NewRefuse, NewRollback, NewDeallocate,
                            Advance
        <4>2. UNCHANGED pc \/ pc' = [pc EXCEPT ![c] = "new_rollback"]
          BY <1>8, <3>2 DEF NewAllocate, NewRefuse, NewRollback, NewDeallocate,
                            Advance
        <4>3. CASE UNCHANGED pc
          <5>1. pc' = [pc EXCEPT ![c] = pc[c]]
            BY <1>0, <4>3 DEF TypeOK
          <5> QED BY <2>1, <4>1, <5>1
        <4> QED BY <4>1, <4>2, <4>3
      <3> QED BY <3>1, <3>2
    <2>5. l \in PcValues
      BY DEF PcValues
    <2> QED BY <1>0, <1>b, <2>1, <2>2, <2>3, <2>4, <2>5, FramedStep
  <1>9. ASSUME NEW c \in Clients, NEW props \in SUBSET Props,
               DeallocateApply(c, props) \/ DeallocateBadType(c, props)
        PROVE  IInv'
    <2>1. PICK done \in SUBSET Props :
              /\ cap' = Returned(done, req[c])
              /\ done \subseteq Named(req[c]) \ overCaps(req[c])
      <3>1. CASE DeallocateApply(c, props)
        BY <3>1 DEF DeallocateApply, Named
      <3>2. CASE DeallocateBadType(c, props)
        BY <3>2 DEF DeallocateBadType, Named
      <3> QED BY <1>9, <3>1, <3>2
    <2>2. ASSUME NEW p \in Props \ Configurable,
                 ~UseNewAllocation, ~initialConfiguration
          PROVE  cap'[p] <= total[p]
      <3>1. CASE p \in done
        <4>1. ~(deallocate(cap[p], req[c][p]) > originalCap[p]) /\ originalCap[p] <= total[p]
          BY <1>a, <2>1, <2>2, <3>1 DEF overCaps, IInv, AllRecorded
        <4>2. /\ deallocate(cap[p], req[c][p]) \in Amounts /\ originalCap[p] \in Amounts
              /\ total[p] \in Amounts
          BY <1>0, DeallocateType DEF TypeOK
        <4>3. cap'[p] = deallocate(cap[p], req[c][p])
          BY <2>1, <3>1 DEF Returned
        <4> QED BY <4>1, <4>2, <4>3 DEF Amounts
      <3>2. CASE p \notin done
        <4>1. cap'[p] = cap[p]
          BY <2>1, <3>2 DEF Returned
        <4> QED BY <1>a, <2>2, <4>1
      <3> QED BY <3>1, <3>2
    <2>3. Exit(c, "ready") /\ UNCHANGED <<caps, registered>>
      BY <1>9 DEF DeallocateApply, DeallocateBadType, Return
    <2>4. "ready" \in PcValues
      BY DEF PcValues
    <2>5. /\ pc' = [pc EXCEPT ![c] = "ready"]
          /\ \A d \in Clients \ {c} : req'[d] = req[d] /\ current'[d] = current[d]
      BY <1>0, <2>3, <2>4, LocalsType
    <2> QED BY <1>0, <2>2, <2>3, <2>4, <2>5, FramedStep
  <1>10. ASSUME NEW c \in Clients,
                ReleaseObject(c) \/ ReleaseLock(c) \/ ReleaseUnregister(c)
         PROVE  IInv'
    <2>1. PICK l \in {"ready", "r_lock", "r_unregister", "released"} :
              Goto(c, l) \/ Exit(c, l)
      BY <1>10 DEF ReleaseObject, ReleaseLock, ReleaseUnregister, Return
    <2>2. /\ UNCHANGED <<cap, caps>>
          /\ registered' => registered
      BY <1>10 DEF ReleaseObject, ReleaseLock, ReleaseUnregister
    <2>3. ~(initialConfiguration /\ HasConfigureProps)
      <3>1. registered \/ pc[c] # "ready"
        BY <1>10 DEF ReleaseObject, Calling, ReleaseLock, ReleaseUnregister
      <3> QED BY <1>b, <3>1 DEF IInv, Unregistered
    <2>4. l \in PcValues
      BY DEF PcValues
    <2>5. /\ pc' = [pc EXCEPT ![c] = l]
          /\ \A d \in Clients \ {c} : req'[d] = req[d] /\ current'[d] = current[d]
      BY <1>0, <2>1, <2>4, LocalsType
    <2> QED BY <1>0, <1>a, <2>1, <2>2, <2>3, <2>4, <2>5, FramedStep
  <1>11. CASE (\E s \in AdminType : AdminState(s)) \/ UNCHANGED vars
    <2>1. UNCHANGED <<cap, caps, registered, pc, req,
                      current>>
      BY <1>11 DEF AdminState, vars, locals
    <2> QED
      BY <1>0, <2>1 DEF IInv, NoCallYet, Unregistered, LegacyPath, ConfigureArgs,
                        SnapshotBounds, CapacityBounds, AllRecorded, Named
  <1>12. ASSUME NEW q \in Props, SaveCapacity(q) PROVE IInv'
    <2>1. UNCHANGED <<cap, total, initialConfiguration, registered, pc, req, current>>
      BY <1>12 DEF SaveCapacity, locals
    <2>2. AllRecorded'
      BY <1>12 DEF SaveCapacity, IInv, AllRecorded
    <2>3. CapacityBounds'
      <3>1. \A p \in Props : originalCap'[p] = IF p = q THEN cap[p] ELSE originalCap[p]
        BY <1>0, <1>12 DEF SaveCapacity, TypeOK
      <3> QED BY <1>a, <2>1, <3>1 DEF CapacityBounds
    <2> QED
      BY <1>0, <2>1, <2>2, <2>3 DEF IInv, NoCallYet, Unregistered, LegacyPath, ConfigureArgs,
                        SnapshotBounds, Named
  <1> QED
    BY <1>1, <1>2, <1>3, <1>4, <1>5, <1>6, <1>7, <1>8, <1>9, <1>10, <1>11, <1>12
       DEF Next, Proceed

(***************************************************************************)
(* Whatever the callers do and however their calls overlap, the legacy     *)
(* allocation of Device_impl never lets a capacity that configure() does   *)
(* not write, or the value recorded as its original one, exceed what the   *)
(* device came up with, although postConstruction records that value when  *)
(* callers already use the device.                                         *)
(***************************************************************************)
THEOREM CapacityBounded == Spec => []CapacityBounds
  <1>1. Init => IInv
    <2>1. Init => NoCallYet /\ Unregistered /\ CapacityBounds /\ AllRecorded
      BY DEF Init, NoCallYet, Unregistered, CapacityBounds, AllRecorded
    <2>2. Init => LegacyPath /\ ConfigureArgs /\ SnapshotBounds
      BY DEF Init, LegacyPath, ConfigureArgs, SnapshotBounds
    <2> QED BY <2>1, <2>2, TypeInit DEF IInv
  <1>2. IInv => CapacityBounds
    BY DEF IInv
  <1> QED BY <1>1, <1>2, IInvStep, PTL DEF Spec

-----------------------------------------------------------------------------
(***************************************************************************)
(* Conservation of capacity.                                                *)
(***************************************************************************)

\* While the books are kept a call of c has read the capacities as they are,
\* and returns no more than c holds.
KeptAt(c) ==
    /\ pc[c] # "configure"
    /\ \A p \in Props : granted[c][p] >= 0
    /\ pc[c] = "apply" => current[c] = cap
    /\ pc[c] \in {"d_check", "d_apply"} => holds(c, req[c])
    /\ pc[c] = "d_new" => \A p \in todo[c] : req[c][p] <= granted[c][p]

\* Nobody is granted anything before the DeviceManager has configured the device.
NothingSold ==
    initialConfiguration /\ HasConfigureProps => granted = [c \in Clients |-> Nothing]

BooksKept ==
    ~spoilt => "overreturn" \notin Environment /\ \A c \in Clients : KeptAt(c)

BooksBalanced == ~spoilt => Balanced

\* What was saved while nothing was out is what there is.
SavedTrue == ~spoilt => \A p \in recorded \ missed : originalCap[p] = total[p]

BooksInv == IInv /\ NothingSold /\ BooksKept /\ BooksBalanced /\ SavedTrue

UnitsOfOthers(f, c) == {u \in Units(f) : u[1] # c}
Capped(n) == IF n <= Width THEN n ELSE Width

\* The units that are out are those of one caller and those of the others.
LEMMA UnitsSplit ==
    ASSUME NEW f \in [Clients -> Nat], NEW c \in Clients
    PROVE  /\ Cardinality(UnitsOfOthers(f, c)) \in Nat
           /\ Cardinality(Units(f)) = Cardinality(UnitsOfOthers(f, c)) + Capped(f[c])
  <1> DEFINE others == UnitsOfOthers(f, c)
             n == Capped(f[c])
             mine == {c} \X (1 .. n)
  <1>1. Width \in Nat /\ n \in Nat /\ n <= Width /\ n <= f[c]
    BY DeviceConstants DEF Capped
  <1>2. IsFiniteSet(Clients \X (1 .. Width))
    <2>1. IsFiniteSet(1 .. Width)
      BY <1>1, FS_Interval
    <2> QED BY <2>1, DeviceConstants, FS_Product
  <1>3. others \subseteq Clients \X (1 .. Width)
    BY DEF Units, UnitsOfOthers
  <1>4. IsFiniteSet(others) /\ Cardinality(others) \in Nat
    BY <1>2, <1>3, FS_Subset, FS_CardinalityType
  <1>5. IsFiniteSet(1 .. n) /\ Cardinality(1 .. n) = n
    <2> HIDE DEF n
    <2>1. n \in Nat
      BY <1>1
    <2>2. IsFiniteSet(1 .. n) /\ Cardinality(1 .. n) = IF 1 > n THEN 0 ELSE n - 1 + 1
      BY <2>1, FS_Interval
    <2> QED BY <2>1, <2>2
  <1>6. IsFiniteSet({c}) /\ Cardinality({c}) = 1
    BY FS_Singleton
  <1>7. IsFiniteSet(mine) /\ Cardinality(mine) = n
    <2> HIDE DEF n
    <2>1. IsFiniteSet(mine) /\ Cardinality(mine) = Cardinality({c}) * Cardinality(1 .. n)
      BY <1>5, <1>6, FS_Product
    <2>2. n \in Nat
      BY <1>1
    <2> QED BY <1>5, <1>6, <2>1, <2>2
  <1>8. Units(f) = others \cup mine
    <2>1. ASSUME NEW u \in Units(f) PROVE u \in others \cup mine
      <3>1. u \in Clients \X (1 .. Width) /\ u[2] <= f[u[1]]
        BY DEF Units
      <3>2. CASE u[1] = c
        <4>1. u = <<u[1], u[2]>> /\ u[2] \in 1 .. Width
          BY <3>1
        <4>2. u[2] \in 1 .. n
          BY <1>1, <3>1, <3>2, <4>1 DEF Capped
        <4> QED BY <3>2, <4>1, <4>2
      <3> QED BY <3>2 DEF UnitsOfOthers
    <2>2. ASSUME NEW u \in mine PROVE u \in Units(f)
      <3>1. u[1] = c /\ u[2] \in 1 .. n /\ u = <<u[1], u[2]>>
        OBVIOUS
      <3>2. u[2] \in 1 .. Width /\ u[2] <= f[c]
        BY <1>1, <3>1
      <3> QED BY <3>1, <3>2 DEF Units
    <2> QED BY <2>1, <2>2 DEF UnitsOfOthers
  <1>9. others \cap mine = {}
    BY DEF UnitsOfOthers
  <1> HIDE DEF others, mine, n
  <1>10. Cardinality(others \cup mine) = Cardinality(others) + n
    <2>1. Cardinality(others \cap mine) = 0
      BY <1>9, FS_EmptySet, Zenon
    <2>2. Cardinality(others \cup mine)
            = Cardinality(others) + Cardinality(mine) - Cardinality(others \cap mine)
      BY <1>4, <1>7, FS_Union
    <2> QED BY <1>1, <1>4, <1>7, <2>1, <2>2
  <1>11. Cardinality(Units(f)) = Cardinality(others) + n
    BY <1>8, <1>10
  <1> QED BY <1>4, <1>11 DEF others, n

\* What one caller takes or gives back changes the units out by as much.
LEMMA Balance ==
    ASSUME NEW f \in [Clients -> Nat], NEW g \in [Clients -> Nat], NEW c \in Clients,
           \A d \in Clients \ {c} : g[d] = f[d],
           NEW before \in Amounts, NEW after \in Amounts, NEW all \in Amounts,
           before + Cardinality(Units(f)) = all,
           after + g[c] = before + f[c]
    PROVE  after + Cardinality(Units(g)) = all
  <1> DEFINE others == UnitsOfOthers(f, c)
  <1>1. others = UnitsOfOthers(g, c)
    BY DEF Units, UnitsOfOthers
  <1>2. Cardinality(others) \in Nat
        /\ Cardinality(Units(f)) = Cardinality(others) + Capped(f[c])
    BY UnitsSplit
  <1>3. Cardinality(Units(g)) = Cardinality(others) + Capped(g[c])
    BY <1>1, UnitsSplit
  <1>4. f[c] \in Nat /\ g[c] \in Nat /\ Width \in Nat
    BY DeviceConstants
  <1> HIDE DEF others
  <1> QED BY <1>2, <1>3, <1>4 DEF Amounts, Capped

\* What one caller has is not more than what there was.
LEMMA HoldingBound ==
    ASSUME NEW f \in [Clients -> Nat], NEW c \in Clients,
           NEW x \in Amounts, NEW all \in Amounts, x + Cardinality(Units(f)) = all
    PROVE  x + f[c] <= all
  <1>1. /\ Cardinality(UnitsOfOthers(f, c)) \in Nat
        /\ Cardinality(Units(f)) = Cardinality(UnitsOfOthers(f, c)) + Capped(f[c])
    BY UnitsSplit
  <1>2. f[c] \in Nat /\ Width \in Nat
    BY DeviceConstants
  <1> QED BY <1>1, <1>2 DEF Amounts, Capped

\* While the books are kept, what is out is a number for every caller.
LEMMA OutType ==
    ASSUME TypeOK, NEW p \in Props, \A c \in Clients : granted[c][p] >= 0
    PROVE  Out(p) \in [Clients -> Nat]
  <1> SUFFICES ASSUME NEW c \in Clients PROVE granted[c][p] + reserved(c, p) \in Nat
    BY DEF Out
  <1>1. granted[c][p] \in Nat /\ req[c][p] \in Nat
    BY DeviceConstants DEF TypeOK, Amounts
  <1> QED BY <1>1 DEF reserved

\* A step of c that moves units between the device and c alone keeps the sum.
LEMMA SumKept ==
    ASSUME TypeOK, TypeOK', BooksBalanced, NEW c \in Clients,
           ~spoilt, UNCHANGED total,
           \A d \in Clients : \A p \in Props : granted[d][p] >= 0 /\ granted'[d][p] >= 0,
           \A d \in Clients \ {c} :
              /\ pc'[d] = pc[d] /\ req'[d] = req[d]
              /\ todo'[d] = todo[d] /\ granted'[d] = granted[d],
           \A p \in Props :
              cap'[p] + granted'[c][p] + reserved(c, p)'
                = cap[p] + granted[c][p] + reserved(c, p)
    PROVE  BooksBalanced'
  <1> SUFFICES ASSUME NEW p \in Props
               PROVE  cap'[p] + Cardinality(Units(Out(p)')) = total[p]
    BY DEF BooksBalanced, Balanced, Units
  <1>1. Out(p) \in [Clients -> Nat]
    BY OutType
  <1>2. Out(p)' \in [Clients -> Nat]
    <2> SUFFICES ASSUME NEW d \in Clients
                 PROVE  granted'[d][p] + reserved(d, p)' \in Nat
      BY DEF Out
    <2>1. granted'[d][p] \in Nat /\ req'[d][p] \in Nat
      BY DeviceConstants DEF TypeOK, Amounts
    <2> QED BY <2>1 DEF reserved
  <1>3. ASSUME NEW d \in Clients \ {c} PROVE Out(p)'[d] = Out(p)[d]
    BY <1>3 DEF Out, reserved
  <1>4. cap[p] \in Amounts /\ cap'[p] \in Amounts /\ total[p] \in Amounts
    BY DEF TypeOK
  <1>5. cap[p] + Cardinality(Units(Out(p))) = total[p]
    BY DEF BooksBalanced, Balanced
  <1>6. Out(p)[c] = granted[c][p] + reserved(c, p)
        /\ Out(p)'[c] = granted'[c][p] + reserved(c, p)'
    BY DEF Out
  <1>7. reserved(c, p) \in Nat /\ reserved(c, p)' \in Nat
        /\ granted[c][p] \in Nat /\ granted'[c][p] \in Nat
    BY DeviceConstants DEF TypeOK, Amounts, reserved
  <1>8. cap'[p] + Out(p)'[c] = cap[p] + Out(p)[c]
    BY <1>4, <1>6, <1>7 DEF Amounts
  <1> QED BY <1>1, <1>2, <1>3, <1>4, <1>5, <1>8, Balance

\* What a call gives back fits into the type again while the books are kept.
LEMMA GivenBackExact ==
    ASSUME TypeOK, BooksBalanced, ~spoilt,
           NEW c \in Clients, NEW p \in Props,
           \A d \in Clients : granted[d][p] >= 0,
           req[c][p] <= granted[c][p] + reserved(c, p)
    PROVE  /\ deallocate(cap[p], req[c][p]) = cap[p] + req[c][p]
           /\ deallocate(cap[p], req[c][p]) <= total[p]
  <1>1. Out(p) \in [Clients -> Nat]
    BY OutType
  <1>2. cap[p] \in Amounts /\ req[c][p] \in Amounts /\ total[p] \in Amounts
    BY DEF TypeOK
  <1>3. cap[p] + Cardinality(Units(Out(p))) = total[p]
    BY DEF BooksBalanced, Balanced
  <1>4. Out(p)[c] = granted[c][p] + reserved(c, p)
    BY DEF Out
  <1>5. cap[p] + Out(p)[c] <= total[p]
    BY <1>1, <1>2, <1>3, HoldingBound
  <1>6. cap[p] + req[c][p] <= total[p]
    <2>1. granted[c][p] \in Nat /\ reserved(c, p) \in Nat
      BY DeviceConstants DEF TypeOK, Amounts, reserved
    <2> QED BY <1>2, <1>4, <1>5, <2>1 DEF Amounts
  <1>7. cap[p] + req[c][p] \in 0 .. Width - 1
    BY <1>2, <1>6, DeviceConstants DEF Amounts
  <1>8. (cap[p] + req[c][p]) % Width = cap[p] + req[c][p]
    BY <1>7, DeviceConstants
  <1> QED BY <1>6, <1>8 DEF deallocate

\* Only the call of c moves.
Alone(c) ==
    \A d \in Clients \ {c} :
        /\ pc'[d] = pc[d] /\ req'[d] = req[d] /\ todo'[d] = todo[d]
        /\ current'[d] = current[d] /\ granted'[d] = granted[d]

\* A step of one call keeps the books if it leaves that call's own in order,
\* changes no capacity another call has read, and loses no unit.
LEMMA BooksStep ==
    ASSUME BooksInv, TypeOK', NEW c \in Clients, ~spoilt, Alone(c), KeptAt(c)',
           UNCHANGED caps,
           UNCHANGED cap \/ ~Overtakes(c),
           \A p \in Props : cap'[p] + granted'[c][p] + reserved(c, p)'
                            = cap[p] + granted[c][p] + reserved(c, p)
    PROVE  BooksKept' /\ BooksBalanced'
  <1>1. TypeOK /\ "overreturn" \notin Environment /\ \A d \in Clients : KeptAt(d)
    BY DEF BooksInv, BooksKept, IInv
  <1>2. ASSUME NEW d \in Clients \ {c} PROVE KeptAt(d)'
    <2>1. KeptAt(d)
      BY <1>1
    <2>2. pc'[d] = "apply" => cap' = cap
      BY DEF Alone, Overtakes
    <2> QED BY <2>1, <2>2 DEF KeptAt, Alone, holds
  <1>3. \A d \in Clients : KeptAt(d)'
    BY <1>2
  <1>4. \A d \in Clients : \A p \in Props : granted[d][p] >= 0 /\ granted'[d][p] >= 0
    BY <1>1, <1>3 DEF KeptAt
  <1>5. UNCHANGED total
    BY DEF caps
  <1>6. BooksBalanced'
    BY <1>1, <1>4, <1>5, SumKept DEF Alone, BooksInv
  <1> QED BY <1>1, <1>3, <1>6 DEF BooksKept

\* A call that ends without a change has nothing reserved before or after.
LEMMA ReturnAlone ==
    ASSUME TypeOK, NEW c \in Clients, NEW l \in PcValues, Goto(c, l) \/ Exit(c, l),
           \A d \in Clients \ {c} : granted'[d] = granted[d]
    PROVE  /\ Alone(c) /\ pc'[c] = l
           /\ Exit(c, l) => req'[c] = Nothing /\ todo'[c] = {}
           /\ Goto(c, l) => req'[c] = req[c] /\ todo'[c] = todo[c] /\ current'[c] = current[c]
  BY DEF Goto, Exit, Alone, TypeOK, locals

\* The steps that leave capacities and grants as they are.
LEMMA QuietStep ==
    ASSUME BooksInv, TypeOK', NEW c \in Clients, ~spoilt,
           UNCHANGED <<cap, caps, granted>>, Alone(c),
           \A p \in Props : reserved(c, p)' = reserved(c, p),
           pc'[c] # "configure",
           pc'[c] = "apply" => current'[c] = cap,
           pc'[c] \in {"d_check", "d_apply", "d_new"} => holds(c, req'[c])
    PROVE  BooksKept' /\ BooksBalanced'
  <1>1. TypeOK /\ KeptAt(c)
    BY DEF BooksInv, BooksKept, IInv
  <1>2. KeptAt(c)'
    <2>1. \A p \in Props : granted'[c][p] >= 0
      BY <1>1 DEF KeptAt
    <2>2. pc'[c] \in {"d_check", "d_apply", "d_new"} =>
            \A p \in Props : req'[c][p] <= granted'[c][p]
      BY DEF holds
    <2> QED BY <2>1, <2>2 DEF KeptAt, holds, TypeOK
  <1> QED BY <1>2, BooksStep

\* The books are kept by the steps of a call that only look, check or leave.
LEMMA BooksLook ==
    ASSUME BooksInv, TypeOK', ~spoilt, NEW c \in Clients, NEW r \in Requests, NEW b \in BadKinds,
           \/ AllocateCapacity(c, r, b) \/ DeallocateCapacity(c, r, b)
           \/ AllocateValidate(c) \/ AllocateQuery(c) \/ AllocateRefused(c)
           \/ DeallocateCheck(c)
           \/ ReleaseObject(c) \/ ReleaseLock(c) \/ ReleaseUnregister(c)
    PROVE  BooksKept' /\ BooksBalanced'
  <1> USE DEF state, books
  <1>1. TypeOK /\ KeptAt(c) /\ "overreturn" \notin Environment
    BY DEF BooksInv, BooksKept, IInv
  <1>2. UNCHANGED <<cap, caps, granted>>
    BY DEF AllocateCapacity, DeallocateCapacity, AllocateValidate, AllocateQuery,
           AllocateRefused, DeallocateCheck, ReleaseObject, ReleaseLock, ReleaseUnregister
  <1>3. pc[c] \notin {"new_allocate", "new_rollback"}
    BY DEF AllocateCapacity, DeallocateCapacity, AllocateValidate, AllocateQuery, Calling,
           AllocateRefused, DeallocateCheck, ReleaseObject, ReleaseLock, ReleaseUnregister
  <1>4. CASE \/ \E l \in {"ready", "released", "query", "r_lock", "r_unregister"} :
                   Goto(c, l) \/ Exit(c, l)
             \/ pc[c] = "d_check" /\ Goto(c, "d_apply")
    <2>1. PICK l \in {"ready", "released", "query", "r_lock", "r_unregister", "d_apply"} :
              /\ Goto(c, l) \/ Exit(c, l)
              /\ l = "d_apply" => pc[c] = "d_check" /\ Goto(c, l)
      BY <1>4
    <2>2. l \in PcValues
      BY DEF PcValues
    <2>3. /\ Alone(c) /\ pc'[c] = l
          /\ Goto(c, l) => req'[c] = req[c]
      BY <1>1, <1>2, <2>1, <2>2, ReturnAlone
    <2>4. \A p \in Props : reserved(c, p)' = reserved(c, p)
      BY <1>3, <2>1, <2>3 DEF reserved
    <2>5. pc'[c] \in {"d_check", "d_apply", "d_new"} => holds(c, req'[c])
      BY <1>1, <2>1, <2>3 DEF KeptAt
    <2> QED BY <1>2, <2>1, <2>3, <2>4, <2>5, QuietStep
  <1>5. CASE AllocateQuery(c)
    <2>1. pc'[c] = "apply" /\ current'[c] = cap /\ Alone(c)
      BY <1>1, <1>2, <1>5 DEF AllocateQuery, TypeOK, Alone
    <2>2. \A p \in Props : reserved(c, p)' = reserved(c, p)
      BY <1>3, <2>1 DEF reserved
    <2> QED BY <1>2, <2>1, <2>2, QuietStep
  <1>6. ASSUME NEW l \in {"new_allocate", "validate", "d_new", "d_check"},
               Enter(c, l, r, b), l \in {"d_new", "d_check"} => holds(c, r)
        PROVE  BooksKept' /\ BooksBalanced'
    <2>1. /\ pc'[c] = l /\ req'[c] = r /\ todo'[c] = Named(r) /\ Alone(c)
      BY <1>1, <1>2, <1>6 DEF Enter, TypeOK, Alone
    <2>2. ASSUME NEW p \in Props PROVE reserved(c, p)' = reserved(c, p)
      <3>1. reserved(c, p) = 0
        BY <1>3 DEF reserved
      <3>2. r[p] \in Amounts
        BY DEF Requests
      <3>3. p \notin Named(r) => r[p] = 0
        BY <3>2, DeviceConstants DEF Named, Amounts
      <3> QED BY <1>6, <2>1, <3>1, <3>3 DEF reserved
    <2>3. pc'[c] \in {"d_check", "d_apply", "d_new"} => holds(c, req'[c])
      BY <1>6, <2>1
    <2> QED BY <1>2, <1>6, <2>1, <2>2, <2>3, QuietStep
  <1>7. CASE AllocateCapacity(c, r, b) \/ DeallocateCapacity(c, r, b)
    <2>1. \/ Exit(c, "ready")
          \/ \E l \in {"new_allocate", "validate", "d_new", "d_check"} :
               Enter(c, l, r, b) /\ (l \in {"d_new", "d_check"} => holds(c, r))
      BY <1>1, <1>7 DEF AllocateCapacity, DeallocateCapacity, Return
    <2> QED BY <1>4, <1>6, <2>1
  <1>8. CASE \/ AllocateValidate(c) \/ AllocateRefused(c) \/ DeallocateCheck(c)
             \/ ReleaseObject(c) \/ ReleaseLock(c) \/ ReleaseUnregister(c)
    BY <1>4, <1>8 DEF AllocateValidate, AllocateRefused, DeallocateCheck, Return,
                      ReleaseObject, ReleaseLock, ReleaseUnregister
  <1> QED BY <1>5, <1>7, <1>8

\* An allocation of the legacy path subtracts from what there is.
LEMMA BooksAllocate ==
    ASSUME BooksInv, TypeOK', ~spoilt', NEW c \in Clients, AllocateApply(c)
    PROVE  BooksKept' /\ BooksBalanced'
  <1>1. ~spoilt /\ ~Overtakes(c)
    BY DEF AllocateApply
  <1>2. TypeOK /\ KeptAt(c) /\ "overreturn" \notin Environment
    BY <1>1 DEF BooksInv, BooksKept, IInv
  <1>3. current[c] = cap
    BY <1>2 DEF KeptAt, AllocateApply
  <1>4. granted' = [granted EXCEPT ![c] = [p \in Props |-> granted[c][p] + req[c][p]]]
    BY <1>2 DEF AllocateApply, Grant, Book
  <1>5. Alone(c) /\ pc'[c] = "ready"
    <2>1. \A d \in Clients \ {c} : granted'[d] = granted[d]
      BY <1>2, <1>4 DEF TypeOK
    <2>2. Exit(c, "ready") /\ "ready" \in PcValues
      BY DEF AllocateApply, Return, PcValues
    <2> QED BY <1>2, <2>1, <2>2, ReturnAlone
  <1>6. ASSUME NEW p \in Props
        PROVE  /\ cap'[p] + granted'[c][p] = cap[p] + granted[c][p]
               /\ granted'[c][p] >= 0
               /\ reserved(c, p) = 0 /\ reserved(c, p)' = 0
               /\ granted'[c][p] \in Int /\ cap'[p] \in Int
    <2>1. cap[p] \in Amounts /\ req[c][p] \in Amounts /\ granted[c][p] \in Int
      BY <1>2 DEF TypeOK
    <2>2. granted'[c][p] = granted[c][p] + req[c][p]
      BY <1>2, <1>4 DEF TypeOK
    <2>3. cap'[p] = cap[p] - req[c][p]
      BY <1>3, <2>1, DeviceConstants DEF AllocateApply, newCapacities, allocate, Amounts
    <2>4. granted[c][p] >= 0
      BY <1>2 DEF KeptAt
    <2>5. reserved(c, p) = 0 /\ reserved(c, p)' = 0
      BY <1>5 DEF reserved, AllocateApply
    <2> QED BY <2>1, <2>2, <2>3, <2>4, <2>5, DeviceConstants DEF Amounts
  <1>7. KeptAt(c)'
    BY <1>5, <1>6 DEF KeptAt
  <1>8. \A p \in Props : cap'[p] + granted'[c][p] + reserved(c, p)'
                         = cap[p] + granted[c][p] + reserved(c, p)
    BY <1>2, <1>6 DEF TypeOK, Amounts
  <1>9. UNCHANGED caps
    BY DEF AllocateApply
  <1> QED BY <1>1, <1>5, <1>7, <1>8, <1>9, BooksStep

\* A deallocation of the legacy path adds what the caller loses.
LEMMA BooksDeallocate ==
    ASSUME BooksInv, TypeOK', ~spoilt', NEW c \in Clients, NEW props \in SUBSET Props,
           DeallocateApply(c, props) \/ DeallocateBadType(c, props)
    PROVE  BooksKept' /\ BooksBalanced'
  <1>1. ~spoilt /\ ~Overtakes(c)
    BY DEF DeallocateApply, DeallocateBadType
  <1>2. TypeOK /\ (\A d \in Clients : KeptAt(d)) /\ "overreturn" \notin Environment
    BY <1>1 DEF BooksInv, BooksKept, IInv
  <1>3. PICK done \in SUBSET Props :
            cap' = Returned(done, req[c]) /\ GiveBack(c, done)
    <2>1. CASE DeallocateApply(c, props)
      BY <2>1 DEF DeallocateApply, Named
    <2>2. CASE DeallocateBadType(c, props)
      BY <2>2 DEF DeallocateBadType, Named
    <2> QED BY <2>1, <2>2
  <1>4. /\ pc[c] = "d_apply" /\ Exit(c, "ready")
        /\ UNCHANGED caps
    BY DEF DeallocateApply, DeallocateBadType, Return
  <1>5. granted' = [granted EXCEPT ![c] = [p \in Props |->
                      IF p \in done THEN granted[c][p] - req[c][p] ELSE granted[c][p]]]
    BY <1>2, <1>3 DEF GiveBack, Book
  <1>6. Alone(c) /\ pc'[c] = "ready"
    <2>1. \A d \in Clients \ {c} : granted'[d] = granted[d]
      BY <1>2, <1>5 DEF TypeOK
    <2>2. "ready" \in PcValues
      BY DEF PcValues
    <2> QED BY <1>2, <1>4, <2>1, <2>2, ReturnAlone
  <1>7. ASSUME NEW p \in Props
        PROVE  /\ granted'[c][p] >= 0
               /\ cap'[p] + granted'[c][p] + reserved(c, p)'
                    = cap[p] + granted[c][p] + reserved(c, p)
    <2>1. /\ cap[p] \in Amounts /\ req[c][p] \in Amounts /\ granted[c][p] \in Int
          /\ cap'[p] \in Amounts
      BY <1>2 DEF TypeOK
    <2>2. granted'[c][p] = IF p \in done THEN granted[c][p] - req[c][p] ELSE granted[c][p]
      BY <1>2, <1>5 DEF TypeOK
    <2>3. granted[c][p] >= 0 /\ req[c][p] <= granted[c][p]
      BY <1>2, <1>4 DEF KeptAt, holds
    <2>4. reserved(c, p) = 0 /\ reserved(c, p)' = 0
      BY <1>4, <1>6 DEF reserved
    <2>5. CASE p \in done
      <3>1. req[c][p] <= granted[c][p] + reserved(c, p)
        BY <2>1, <2>3, <2>4 DEF Amounts
      <3>2. \A d \in Clients : granted[d][p] >= 0
        BY <1>2 DEF KeptAt
      <3>3. deallocate(cap[p], req[c][p]) = cap[p] + req[c][p]
        BY <1>1, <1>2, <2>5, <3>1, <3>2, GivenBackExact DEF BooksInv
      <3>4. cap'[p] = cap[p] + req[c][p]
        BY <1>3, <2>5, <3>3 DEF Returned
      <3> QED BY <2>1, <2>2, <2>3, <2>4, <2>5, <3>4, DeviceConstants DEF Amounts
    <2>6. CASE p \notin done
      <3>1. cap'[p] = cap[p]
        BY <1>3, <2>6 DEF Returned
      <3> QED BY <2>2, <2>3, <2>4, <2>6, <3>1
    <2> QED BY <2>5, <2>6
  <1>8. KeptAt(c)'
    BY <1>6, <1>7 DEF KeptAt
  <1> QED BY <1>1, <1>4, <1>6, <1>7, <1>8, BooksStep

\* A callback of the callback-based path moves the amount of its property between
\* the device and the call, or between the device and the caller.
LEMMA BooksCallback ==
    ASSUME BooksInv, TypeOK', ~spoilt', NEW c \in Clients, NEW p \in Props,
           NewAllocate(c, p) \/ NewRollback(c, p) \/ NewDeallocate(c, p)
    PROVE  BooksKept' /\ BooksBalanced'
  <1>1. /\ ~spoilt /\ ~Overtakes(c) /\ p \in todo[c] /\ Advance(c, p)
        /\ UNCHANGED caps
        /\ pc[c] \in {"new_allocate", "new_rollback", "d_new"}
    BY DEF NewAllocate, NewRollback, NewDeallocate
  <1>2. TypeOK /\ (\A d \in Clients : KeptAt(d)) /\ "overreturn" \notin Environment
    BY <1>1 DEF BooksInv, BooksKept, IInv
  <1>3. /\ cap[p] \in Amounts /\ cap'[p] \in Amounts
        /\ \A q \in Props : req[c][q] \in Nat /\ granted[c][q] \in Nat
    BY <1>2, DeviceConstants DEF TypeOK, KeptAt, Amounts
  <1>4. ASSUME NEW q \in Props
        PROVE  granted'[c][q] =
                 IF pc[c] = "d_new"
                 THEN IF q = p THEN granted[c][q] - req[c][q] ELSE granted[c][q]
                 ELSE IF pc[c] = "new_allocate" /\ todo[c] = {p} THEN granted[c][q] + req[c][q]
                 ELSE granted[c][q]
    <2>1. CASE NewAllocate(c, p)
      BY <1>2, <2>1 DEF NewAllocate, Grant, Book, TypeOK
    <2>2. CASE NewRollback(c, p)
      BY <2>2 DEF NewRollback
    <2>3. CASE NewDeallocate(c, p)
      BY <1>2, <2>3 DEF NewDeallocate, GiveBack, Book, TypeOK
    <2> QED BY <2>1, <2>2, <2>3
  <1>5. \A d \in Clients \ {c} : granted'[d] = granted[d]
    BY <1>2 DEF NewAllocate, NewRollback, NewDeallocate, Grant, GiveBack, Book, TypeOK
  <1>6. \A q \in Props \ {p} : cap'[q] = cap[q]
    BY <1>2 DEF NewAllocate, NewRollback, NewDeallocate, TypeOK
  <1>7. /\ Alone(c)
        /\ todo[c] = {p} => pc'[c] = "ready"
        /\ todo[c] # {p} => /\ pc'[c] = pc[c] /\ req'[c] = req[c]
                            /\ todo'[c] = todo[c] \ {p}
    <2>1. CASE todo[c] = {p}
      <3>1. Exit(c, "ready") /\ "ready" \in PcValues
        BY <1>1, <2>1 DEF Advance, Return, PcValues
      <3> QED BY <1>2, <1>5, <2>1, <3>1, ReturnAlone
    <2>2. CASE todo[c] # {p}
      BY <1>1, <1>2, <1>5, <2>2 DEF Advance, TypeOK, Alone
    <2> QED BY <2>1, <2>2
  <1>8. pc[c] = "d_new" => req[c][p] <= granted[c][p]
    BY <1>1, <1>2 DEF KeptAt
  <1>9. cap'[p] = IF pc[c] = "new_allocate" THEN cap[p] - req[c][p]
                  ELSE cap[p] + req[c][p]
    <2>1. CASE NewAllocate(c, p)
      BY <1>2, <2>1 DEF NewAllocate, allocate, TypeOK
    <2>2. ASSUME NewRollback(c, p) \/ NewDeallocate(c, p)
          PROVE  cap'[p] = cap[p] + req[c][p] /\ pc[c] # "new_allocate"
      <3>1. req[c][p] <= granted[c][p] + reserved(c, p)
        BY <1>1, <1>3, <1>8, <2>2 DEF NewRollback, NewDeallocate, reserved
      <3>2. \A d \in Clients : granted[d][p] >= 0
        BY <1>2 DEF KeptAt
      <3>3. deallocate(cap[p], req[c][p]) = cap[p] + req[c][p]
        BY <1>1, <1>2, <2>2, <3>1, <3>2, GivenBackExact DEF BooksInv
      <3> QED BY <1>2, <2>2, <3>3 DEF NewRollback, NewDeallocate, TypeOK
    <2> QED BY <2>1, <2>2 DEF NewAllocate
  <1>10. ASSUME NEW q \in Props
         PROVE  cap'[q] + granted'[c][q] + reserved(c, q)'
                  = cap[q] + granted[c][q] + reserved(c, q)
    <2>1. cap[q] \in Nat /\ req[c][q] \in Nat /\ granted[c][q] \in Nat
      BY <1>2, <1>3, DeviceConstants DEF TypeOK, Amounts
    <2>2. CASE todo[c] = {p}
      <3>1. reserved(c, q)' = 0
        BY <1>7, <2>2 DEF reserved
      <3>2. reserved(c, q) = IF pc[c] = "new_allocate" THEN IF q = p THEN 0 ELSE req[c][q]
                             ELSE IF pc[c] = "new_rollback" /\ q = p THEN req[c][q] ELSE 0
        BY <2>2, <1>1 DEF reserved
      <3> QED BY <1>1, <1>4, <1>6, <1>9, <2>1, <2>2, <3>1, <3>2
    <2>3. CASE todo[c] # {p}
      <3>1. CASE q = p
        <4>1. reserved(c, p) = IF pc[c] = "new_rollback" THEN req[c][p] ELSE 0
          BY <1>1 DEF reserved
        <4>2. reserved(c, p)' = IF pc[c] = "new_allocate" THEN req[c][p] ELSE 0
          BY <1>1, <1>7, <2>3 DEF reserved
        <4> QED BY <1>1, <1>4, <1>9, <2>1, <2>3, <3>1, <4>1, <4>2
      <3>2. CASE q # p
        <4>1. reserved(c, q)' = reserved(c, q)
          BY <1>7, <2>3, <3>2 DEF reserved
        <4> QED BY <1>4, <1>6, <2>3, <3>2, <4>1
      <3> QED BY <3>1, <3>2
    <2> QED BY <2>2, <2>3
  <1>11. KeptAt(c)'
    <2>1. \A q \in Props : granted'[c][q] >= 0
      BY <1>3, <1>4, <1>8
    <2>2. ASSUME pc'[c] = "d_new", NEW q \in todo'[c] PROVE req'[c][q] <= granted'[c][q]
      <3>1. /\ todo[c] # {p} /\ pc[c] = "d_new" /\ q \in todo[c] /\ q # p
            /\ req'[c] = req[c] /\ q \in Props
        BY <1>2, <1>7, <2>2 DEF TypeOK
      <3>2. req[c][q] <= granted[c][q]
        BY <1>2, <3>1 DEF KeptAt
      <3> QED BY <1>4, <3>1, <3>2
    <2>3. pc'[c] \in {"ready", "new_allocate", "new_rollback", "d_new"}
      BY <1>1, <1>7
    <2> QED BY <2>1, <2>2, <2>3 DEF KeptAt
  <1> QED BY <1>1, <1>7, <1>10, <1>11, BooksStep

\* A refused allocation keeps what it has taken reserved until it is returned.
LEMMA BooksRefuse ==
    ASSUME BooksInv, TypeOK', ~spoilt', NEW c \in Clients, NEW p \in Props, NewRefuse(c, p)
    PROVE  BooksKept' /\ BooksBalanced'
  <1> DEFINE succeeded == Named(req[c]) \ todo[c]
  <1>1. ~spoilt /\ pc[c] = "new_allocate" /\ UNCHANGED <<state, granted>>
        /\ (succeeded # {} => adminState # "LOCKED")
    BY DEF NewRefuse
  <1>2. UNCHANGED <<cap, caps, granted>>
    BY <1>1 DEF state
  <1>3. TypeOK
    BY DEF BooksInv, IInv
  <1>4. ASSUME NEW q \in Props, q \notin todo[c], q \notin succeeded PROVE req[c][q] = 0
    BY <1>3, <1>4, DeviceConstants DEF Named, TypeOK, Amounts
  <1>5. CASE succeeded = {}
    <2>1. Exit(c, "ready") /\ "ready" \in PcValues
      BY <1>5 DEF NewRefuse, Return, PcValues
    <2>2. Alone(c) /\ pc'[c] = "ready"
      BY <1>2, <1>3, <2>1, ReturnAlone
    <2>3. \A q \in Props : reserved(c, q)' = reserved(c, q)
      BY <1>1, <1>4, <1>5, <2>2 DEF reserved
    <2> QED BY <1>1, <1>2, <2>2, <2>3, QuietStep
  <1>6. CASE succeeded # {}
    <2>1. /\ pc' = [pc EXCEPT ![c] = "new_rollback"]
          /\ todo' = [todo EXCEPT ![c] = succeeded]
          /\ UNCHANGED <<req, bad, current>>
      BY <1>1, <1>6 DEF NewRefuse
    <2>2. Alone(c) /\ pc'[c] = "new_rollback" /\ todo'[c] = succeeded /\ req'[c] = req[c]
      BY <1>2, <1>3, <2>1 DEF Alone, TypeOK
    <2>3. \A q \in Props : reserved(c, q)' = reserved(c, q)
      BY <1>1, <1>4, <2>2 DEF reserved
    <2> QED BY <1>1, <1>2, <2>2, <2>3, QuietStep
  <1> QED BY <1>5, <1>6

\* Nothing is granted before the device is configured.
LEMMA NothingSoldStep ==
    ASSUME BooksInv, [Next]_vars
    PROVE  NothingSold'
  <1> SUFFICES ASSUME initialConfiguration', HasConfigureProps
               PROVE  granted' = [c \in Clients |-> Nothing]
    BY DEF NothingSold
  <1> USE DEF books, state, caps
  <1>1. initialConfiguration
    <2>1. ASSUME NEW c \in Clients, Proceed(c) PROVE UNCHANGED initialConfiguration
      BY <2>1 DEF Proceed, ConfigureProperties, AllocateValidate, AllocateQuery,
           AllocateRefused, AllocateApply, AllocateThrow, NewAllocate, NewRefuse, NewRollback,
           DeallocateCheck, DeallocateApply, DeallocateBadType, NewDeallocate, ReleaseLock,
           ReleaseUnregister
    <2>2. ASSUME NEW c \in Clients, NEW r \in Requests, NEW b \in BadKinds,
                 \/ ReleaseObject(c) \/ Configure(c, r)
                 \/ AllocateCapacity(c, r, b) \/ DeallocateCapacity(c, r, b)
          PROVE  UNCHANGED initialConfiguration
      BY <2>2 DEF ReleaseObject, Configure, AllocateCapacity, DeallocateCapacity
    <2>3. ASSUME NEW r \in Requests, RegisterDevice(r) PROVE initialConfiguration
      BY <2>3 DEF RegisterDevice
    <2>4. CASE \/ \E s \in AdminType : AdminState(s)
               \/ \E p \in Props : SaveCapacity(p)
               \/ UNCHANGED vars
      BY <2>4 DEF AdminState, SaveCapacity, vars
    <2>5. "no" \in BadKinds /\ Nothing \in Requests
      BY NothingType DEF BadKinds, Requests
    <2> QED BY <2>1, <2>2, <2>3, <2>4, <2>5 DEF Next
  <1>2. granted = [c \in Clients |-> Nothing] /\ ~registered
    BY <1>1 DEF BooksInv, NothingSold, IInv, Unregistered
  <1>3. \A c \in Clients : pc[c] = "ready"
    BY <1>1 DEF BooksInv, IInv, NoCallYet
  <1>4. ASSUME NEW c \in Clients PROVE ~Proceed(c)
    BY <1>3 DEF Proceed, ConfigureProperties, AllocateValidate, AllocateQuery, AllocateRefused,
           AllocateApply, AllocateThrow, NewAllocate, NewRefuse, NewRollback, DeallocateCheck,
           DeallocateApply, DeallocateBadType, NewDeallocate, ReleaseLock, ReleaseUnregister
  <1> QED BY <1>2, <1>4 DEF Next, vars, RegisterDevice, SaveCapacity, Configure, AllocateCapacity,
           DeallocateCapacity, ReleaseObject, AdminState, Calling

\* A step that moves no capacity and no call keeps the books.
LEMMA SameBooks ==
    ASSUME BooksInv, UNCHANGED <<cap, total, pc, req, todo, current, granted, spoilt>>
    PROVE  BooksKept' /\ BooksBalanced'
  <1>1. BooksKept'
    BY DEF BooksInv, BooksKept, KeptAt, holds
  <1>2. BooksBalanced'
    BY DEF BooksInv, BooksBalanced, Balanced, Units, Out, reserved
  <1> QED BY <1>1, <1>2

\* What is saved late is true unless some of it was out.
LEMMA SavedStep ==
    ASSUME BooksInv, [Next]_vars
    PROVE  SavedTrue'
  <1> SUFFICES ASSUME ~spoilt', NEW p \in recorded' \ missed'
               PROVE  originalCap'[p] = total'[p]
    BY DEF SavedTrue
  <1>1. TypeOK /\ SavedTrue
    BY DEF BooksInv, IInv
  <1> USE DEF books, state, caps
  <1>2. ASSUME NEW c \in Clients, Proceed(c) PROVE UNCHANGED caps /\ (spoilt => spoilt')
    <2>1. UNCHANGED caps
      BY <1>2 DEF Proceed, ConfigureProperties, AllocateValidate, AllocateQuery,
           AllocateRefused, AllocateApply, AllocateThrow, NewAllocate, NewRefuse, NewRollback,
           DeallocateCheck, DeallocateApply, DeallocateBadType, NewDeallocate, ReleaseLock,
           ReleaseUnregister
    <2>2. spoilt => spoilt'
      BY <1>2 DEF Proceed, ConfigureProperties, AllocateValidate, AllocateQuery,
           AllocateRefused, AllocateApply, AllocateThrow, NewAllocate, NewRefuse, NewRollback,
           DeallocateCheck, DeallocateApply, DeallocateBadType, NewDeallocate, ReleaseLock,
           ReleaseUnregister
    <2> QED BY <2>1, <2>2
  <1>3. ASSUME NEW c \in Clients, NEW r \in Requests, NEW b \in BadKinds,
               \/ ReleaseObject(c) \/ AllocateCapacity(c, r, b) \/ DeallocateCapacity(c, r, b)
        PROVE  UNCHANGED caps /\ (spoilt => spoilt')
    BY <1>3 DEF ReleaseObject, AllocateCapacity, DeallocateCapacity
  <1>4. CASE (\E s \in AdminType : AdminState(s)) \/ UNCHANGED vars
    BY <1>1, <1>4 DEF AdminState, vars, SavedTrue
  <1>5. ASSUME NEW c \in Clients, NEW r \in Requests, Configure(c, r) PROVE FALSE
    BY <1>5 DEF Configure
  <1>6. ASSUME NEW r \in Requests, RegisterDevice(r) PROVE originalCap'[p] = total'[p]
    BY <1>1, <1>6 DEF RegisterDevice, SavedTrue
  <1>7. ASSUME NEW q \in Props, SaveCapacity(q) PROVE originalCap'[p] = total'[p]
    <2>1. ~spoilt /\ UNCHANGED total
      BY <1>7 DEF SaveCapacity
    <2>2. CASE p = q
      BY <1>1, <1>7, <2>1, <2>2 DEF SaveCapacity, TypeOK
    <2>3. CASE p # q
      BY <1>1, <1>7, <2>1, <2>3 DEF SaveCapacity, TypeOK, SavedTrue
    <2> QED BY <2>2, <2>3
  <1>8. UNCHANGED caps /\ (spoilt => spoilt') => originalCap'[p] = total'[p]
    BY <1>1 DEF SavedTrue
  <1>9. "no" \in BadKinds /\ Nothing \in Requests
    BY NothingType DEF BadKinds, Requests
  <1> QED BY <1>2, <1>3, <1>4, <1>5, <1>6, <1>7, <1>8, <1>9 DEF Next

\* The registration of the device writes the first page of the books.
LEMMA BooksOpened ==
    ASSUME BooksInv, TypeOK', NEW r \in Requests, RegisterDevice(r)
    PROVE  BooksKept' /\ BooksBalanced'
  <1>1. TypeOK
    BY DEF BooksInv, IInv
  <1>2. UNCHANGED <<pc, req, todo, current, granted, spoilt>>
    BY DEF RegisterDevice, locals, books
  <1>3. CASE HasConfigureProps
    <2>1. (\A c \in Clients : pc[c] = "ready") /\ granted = [c \in Clients |-> Nothing]
      BY <1>3 DEF RegisterDevice, BooksInv, IInv, NoCallYet, NothingSold
    <2>2. \A c \in Clients : KeptAt(c)'
      BY <1>2, <2>1 DEF KeptAt, Nothing
    <2>3. ASSUME NEW p \in Props PROVE cap'[p] + Cardinality(Units(Out(p)')) = total'[p]
      <3>1. \A c \in Clients : Out(p)'[c] = 0
        BY <1>2, <2>1 DEF Out, reserved, Nothing
      <3>2. Units(Out(p)') = {}
        BY <3>1, DeviceConstants DEF Units
      <3>3. Cardinality(Units(Out(p)')) = 0
        BY <3>2, FS_EmptySet, Zenon
      <3>4. cap'[p] = total'[p] /\ cap'[p] \in Nat
        BY <1>3, DeviceConstants DEF RegisterDevice, TypeOK, Amounts
      <3> QED BY <3>3, <3>4
    <2> QED BY <1>2, <2>2, <2>3 DEF BooksInv, BooksKept, BooksBalanced, Balanced, KeptAt, Units
  <1>4. CASE ~HasConfigureProps
    <2>1. UNCHANGED <<cap, total>>
      BY <1>4 DEF RegisterDevice
    <2> QED BY <1>2, <2>1, SameBooks
  <1> QED BY <1>3, <1>4

\* Every step keeps the books.
LEMMA BooksInvStep == BooksInv /\ [Next]_vars => BooksInv'
  <1> SUFFICES ASSUME BooksInv, [Next]_vars PROVE BooksInv'
    OBVIOUS
  <1>1. IInv' /\ NothingSold' /\ TypeOK' /\ SavedTrue'
    BY IInvStep, NothingSoldStep, SavedStep DEF BooksInv, IInv
  <1>2. CASE spoilt'
    BY <1>1, <1>2 DEF BooksInv, BooksKept, BooksBalanced
  <1>3. ASSUME ~spoilt' PROVE BooksKept' /\ BooksBalanced'
    <2>1. ASSUME NEW c \in Clients, NEW r \in Requests, NEW b \in BadKinds,
                 AllocateCapacity(c, r, b) \/ DeallocateCapacity(c, r, b)
          PROVE  BooksKept' /\ BooksBalanced'
      <3>1. ~spoilt
        BY <1>3, <2>1 DEF AllocateCapacity, DeallocateCapacity, books
      <3> QED BY <1>1, <2>1, <3>1, BooksLook
    <2>2. ASSUME NEW c \in Clients,
                 \/ AllocateValidate(c) \/ AllocateQuery(c) \/ AllocateRefused(c)
                 \/ DeallocateCheck(c)
                 \/ ReleaseObject(c) \/ ReleaseLock(c) \/ ReleaseUnregister(c)
          PROVE  BooksKept' /\ BooksBalanced'
      <3>1. ~spoilt
        BY <1>3, <2>2 DEF AllocateValidate, AllocateQuery, AllocateRefused, DeallocateCheck,
                          ReleaseObject, ReleaseLock, ReleaseUnregister, books
      <3>2. Nothing \in Requests /\ "no" \in BadKinds
        BY NothingType DEF Requests, BadKinds
      <3> QED BY <1>1, <2>2, <3>1, <3>2, BooksLook
    <2>3. ASSUME NEW c \in Clients, NEW r \in Requests, Configure(c, r) PROVE FALSE
      BY <1>3, <2>3 DEF Configure
    <2>4. ASSUME NEW c \in Clients, ConfigureProperties(c) PROVE FALSE
      BY <1>3, <2>4 DEF ConfigureProperties, books, BooksInv, BooksKept, KeptAt
    <2>5. ASSUME NEW c \in Clients, NEW failed \in SUBSET Props, NEW written \in SUBSET Props,
                 AllocateThrow(c, failed, written)
          PROVE  FALSE
      BY <1>3, <2>5 DEF AllocateThrow
    <2>6. ASSUME \/ \E s \in AdminType : AdminState(s)
                 \/ \E p \in Props : SaveCapacity(p)
                 \/ UNCHANGED vars
          PROVE  BooksKept' /\ BooksBalanced'
      <3>1. UNCHANGED <<cap, total, pc, req, todo, current, granted, spoilt>>
        BY <2>6 DEF AdminState, SaveCapacity, vars, state, caps, locals, books
      <3> QED BY <3>1, SameBooks
    <2> QED
      BY <1>1, <1>3, <2>1, <2>2, <2>3, <2>4, <2>5, <2>6, BooksAllocate, BooksDeallocate,
         BooksCallback, BooksRefuse, BooksOpened DEF Next, Proceed
  <1> QED BY <1>1, <1>2, <1>3 DEF BooksInv

(***************************************************************************)
(* Capacity is neither lost nor granted twice, for any number of callers   *)
(* and properties and any environment, as long as none of the events that  *)
(* spoil the books has happened: in the callback-based path that is        *)
(* however the calls of allocateCapacity and deallocateCapacity interleave *)
(* and whatever is refused half way.  A caller whose return is refused     *)
(* gave back a property that postConstruction saved while some was out.    *)
(***************************************************************************)
THEOREM CapacityConserved == Spec => []Conservation
  <1>1. Init => BooksInv
    <2> SUFFICES ASSUME Init PROVE BooksInv
      OBVIOUS
    <2>1. IInv
      <3>1. NoCallYet /\ Unregistered /\ CapacityBounds /\ AllRecorded
        BY DEF Init, NoCallYet, Unregistered, CapacityBounds, AllRecorded
      <3>2. LegacyPath /\ ConfigureArgs /\ SnapshotBounds
        BY DEF Init, LegacyPath, ConfigureArgs, SnapshotBounds
      <3> QED BY <3>1, <3>2, TypeInit DEF IInv
    <2>2. NothingSold /\ SavedTrue
      BY DEF Init, NothingSold, SavedTrue
    <2>3. \A c \in Clients : KeptAt(c)
      BY DEF Init, KeptAt, Nothing
    <2>4. ~spoilt => "overreturn" \notin Environment
      BY Zenon DEF Init
    <2>5. ASSUME NEW p \in Props PROVE cap[p] + Cardinality(Units(Out(p))) = total[p]
      <3>1. \A c \in Clients : Out(p)[c] = 0
        BY DEF Init, Out, reserved, Nothing
      <3>2. Units(Out(p)) = {}
        BY <3>1, DeviceConstants DEF Units
      <3>3. Cardinality(Units(Out(p))) = 0
        BY <3>2, FS_EmptySet, Zenon
      <3>4. cap[p] = total[p] /\ cap[p] \in Nat
        BY <2>1, DeviceConstants DEF Init, IInv, TypeOK, Amounts
      <3> QED BY <3>3, <3>4
    <2>6. BooksBalanced
      BY <2>3, <2>5 DEF BooksBalanced, Balanced, KeptAt
    <2> QED BY <2>1, <2>2, <2>3, <2>4, <2>6 DEF BooksInv, BooksKept
  <1>2. BooksInv => Conservation
    <2> SUFFICES ASSUME BooksInv, ~spoilt PROVE Balanced /\ ReturnsAccepted
      BY DEF Conservation
    <2>1. TypeOK /\ Balanced /\ (\A c \in Clients : KeptAt(c)) /\ SavedTrue
      BY DEF BooksInv, BooksBalanced, BooksKept, IInv
    <2>2. ASSUME NEW c \in Clients, pc[c] = "d_apply", NEW p \in overCaps(req[c])
          PROVE  p \in missed
      <3>1. p \in Props /\ p \in recorded /\ deallocate(cap[p], req[c][p]) > originalCap[p]
        BY <2>2 DEF overCaps, Named
      <3>2. /\ req[c][p] <= granted[c][p] /\ \A d \in Clients : granted[d][p] >= 0
            /\ reserved(c, p) = 0 /\ granted[c][p] \in Int
        BY <2>1, <2>2, <3>1 DEF KeptAt, holds, reserved, TypeOK
      <3>3. deallocate(cap[p], req[c][p]) <= total[p]
        <4>1. req[c][p] <= granted[c][p] + reserved(c, p)
          BY <3>2
        <4> QED BY <2>1, <3>1, <3>2, <4>1, GivenBackExact DEF BooksInv
      <3>4. /\ originalCap[p] \in Int /\ total[p] \in Int
            /\ deallocate(cap[p], req[c][p]) \in Int
        BY <2>1, <3>1, DeallocateType DEF TypeOK, Amounts
      <3>5. originalCap[p] # total[p]
        BY <3>1, <3>3, <3>4
      <3> QED BY <2>1, <3>1, <3>5 DEF SavedTrue
    <2> QED BY <2>1, <2>2 DEF ReturnsAccepted
  <1> QED BY <1>1, <1>2, BooksInvStep, PTL DEF Spec
=============================================================================
