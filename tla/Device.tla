------------------------------- MODULE Device -------------------------------
(***************************************************************************)
(* CF::Device capacity management, as implemented by Device_impl           *)
(* (redhawk/src/base/framework/Device_impl.cpp) on top of PropertySet_impl.*)
(*                                                                         *)
(* Every CORBA call runs on a thread of its own, and a caller makes one    *)
(* call at a time, so a thread is identified with its caller.  A step of   *)
(* the module is what a thread does between two points where another       *)
(* thread can get in: the legacy allocation drops propertySetAccess        *)
(* between its checks, the query and the write; the callback-based         *)
(* ("new") allocation takes no lock at all.                                *)
(***************************************************************************)
EXTENDS Integers, FiniteSets

CONSTANTS
    Clients,            \* callers of the device
    NoClient,           \* propertySetAccess is free
    Props,              \* the allocatable properties
    Configurable,       \* those of them that configure() may also write
    InitialCap,         \* values of the properties when the process starts
    Width,              \* number of values of a CORBA::ULong (2^32)
    UseNewAllocation,   \* Device_impl::useNewAllocation
    HasConfigureProps,  \* the profile has configure properties with a value
    Environment         \* what may happen around the device, see below

(***************************************************************************)
(* "admin": callers write adminState; "release": callers release the       *)
(* device; "reconfigure": callers configure capacities at run time;        *)
(* "overreturn": callers return capacity they do not hold; "badrequest":   *)
(* requests name unknown properties or carry a value of a wrong type;      *)
(* "throw": a property callback of the device throws.                      *)
(***************************************************************************)
EnvironmentKinds ==
    {"admin", "release", "reconfigure", "overreturn", "badrequest", "throw"}

Amounts == 0 .. Width - 1

ASSUME DeviceConstants ==
    /\ IsFiniteSet(Clients) /\ NoClient \notin Clients
    /\ Configurable \subseteq Props
    /\ Width \in Nat \ {0}
    /\ InitialCap \in [Props -> Amounts]
    /\ UseNewAllocation \in BOOLEAN
    /\ HasConfigureProps \in BOOLEAN
    /\ Environment \subseteq EnvironmentKinds

UsageType == {"IDLE", "ACTIVE", "BUSY"}
AdminType == {"LOCKED", "SHUTTING_DOWN", "UNLOCKED"}

VARIABLES
    cap,                    \* current values of the allocatable properties
    originalCap,            \* the originalCap list: its values,
    recorded,               \* and the properties that have an entry in it
    unsaved,                \* properties postConstruction has yet to save
    initialConfiguration,
    usageState,
    adminState,
    propertySetAccess,      \* owner of the mutex
    registered,             \* the DeviceManager knows the device
    pc,                     \* where each caller's call is
    req,                    \* its argument; 0: property not named in it
    bad,                    \* what is wrong with the argument
    current,                \* currentCapacities of allocateCapacityLegacy
    todo,                   \* properties the loop of the new path has left
    granted,                \* capacity each caller was told it holds (ghost)
    total,                  \* capacity the device came up with (ghost)
    missed,                 \* properties saved while some of it was out (ghost)
    spoilt                  \* the books cannot be kept any more (ghost), see Conservation

locals == <<req, bad, current, todo>>
caps   == <<originalCap, recorded, unsaved, initialConfiguration, total, missed>>
state  == <<cap, caps, usageState, adminState, propertySetAccess, registered>>
books  == <<granted, spoilt>>
vars   == <<state, pc, locals, books>>

BadKinds == {"no", "unknown", "type"}

PcValues == {"ready", "validate", "query", "apply", "self_deadlock",
             "new_allocate", "new_rollback", "d_check", "d_apply", "d_new",
             "configure", "r_lock", "r_unregister", "released"}

TypeOK ==
    /\ cap \in [Props -> Amounts]
    /\ originalCap \in [Props -> Amounts] /\ total \in [Props -> Amounts]
    /\ recorded \subseteq Props /\ unsaved \subseteq Props /\ missed \subseteq Props
    /\ initialConfiguration \in BOOLEAN
    /\ usageState \in UsageType
    /\ adminState \in AdminType
    /\ propertySetAccess \in Clients \cup {NoClient}
    /\ registered \in BOOLEAN
    /\ pc \in [Clients -> PcValues]
    /\ req \in [Clients -> [Props -> Amounts]]
    /\ bad \in [Clients -> BadKinds]
    /\ current \in [Clients -> [Props -> Amounts]]
    /\ todo \in [Clients -> SUBSET Props]
    /\ granted \in [Clients -> [Props -> Int]]
    /\ spoilt \in BOOLEAN

Nothing == [p \in Props |-> 0]

\* A freshly constructed device (initResources) nobody has been told about.
Init ==
    /\ cap = InitialCap
    /\ originalCap = Nothing /\ recorded = {} /\ unsaved = {}
    /\ total = InitialCap /\ missed = {}
    /\ initialConfiguration = TRUE
    /\ usageState = "IDLE"
    /\ adminState = "UNLOCKED"
    /\ propertySetAccess = NoClient
    /\ registered = FALSE
    /\ pc = [c \in Clients |-> "ready"]
    /\ req = [c \in Clients |-> Nothing]
    /\ bad = [c \in Clients |-> "no"]
    /\ current = [c \in Clients |-> Nothing]
    /\ todo = [c \in Clients |-> {}]
    /\ granted = [c \in Clients |-> Nothing]
    /\ spoilt = ("overreturn" \in Environment)

Named(r) == {p \in Props : r[p] > 0}

released == \E c \in Clients : pc[c] = "released"

\* A caller starts a call: the device is known to it and not torn down.
Calling(c) == registered /\ ~released /\ pc[c] = "ready"

lockFree == propertySetAccess = NoClient

\* The call goes on at l, with its local variables as they are ...
Goto(c, l) ==
    /\ pc' = [pc EXCEPT ![c] = l]
    /\ UNCHANGED locals

\* ... or is over, normally or with an exception, and its locals are gone.
Exit(c, l) ==
    /\ pc' = [pc EXCEPT ![c] = l]
    /\ req' = [req EXCEPT ![c] = Nothing]
    /\ bad' = [bad EXCEPT ![c] = "no"]
    /\ current' = [current EXCEPT ![c] = Nothing]
    /\ todo' = [todo EXCEPT ![c] = {}]

Return(c) == Exit(c, "ready")

\* The call enters l with argument r.
Enter(c, l, r, b) ==
    /\ pc' = [pc EXCEPT ![c] = l]
    /\ req' = [req EXCEPT ![c] = r]
    /\ bad' = [bad EXCEPT ![c] = b]
    /\ todo' = [todo EXCEPT ![c] = Named(r)]
    /\ UNCHANGED current

\* The loop of the call is done with property p.
Advance(c, p) ==
    IF todo[c] = {p} THEN Return(c)
    ELSE /\ todo' = [todo EXCEPT ![c] = @ \ {p}]
         /\ UNCHANGED <<pc, req, bad, current>>

-----------------------------------------------------------------------------
\* The arithmetic on one capacity of type ulong.

\* allocate(): refuses what exceeds the capacity, else subtracts.
allocatable(devCapac, rscReq) == rscReq <= devCapac
allocate(devCapac, rscReq)    == devCapac - rscReq

\* deallocate(): adds, modulo the width of the type.
deallocate(devCapac, rscReq) == (devCapac + rscReq) % Width

-----------------------------------------------------------------------------
(***************************************************************************)
(* Configuration.  The first configure() records the value of every        *)
(* allocatable property, overridden by its arguments, as original          *)
(* capacity; later ones override the properties that are allocatable and   *)
(* configurable.  PropertySet_impl::configure then writes the values.      *)
(***************************************************************************)
Override(f, r) == [p \in Props |-> IF r[p] > 0 THEN r[p] ELSE f[p]]

\* The DeviceManager configures the device, if its profile has anything to
\* configure, and registers it; callers find the device only afterwards.
RegisterDevice(r) ==
    /\ ~registered /\ ~released /\ initialConfiguration
    /\ Named(r) \subseteq Configurable
    /\ IF HasConfigureProps
       THEN /\ initialConfiguration' = FALSE
            /\ originalCap' = Override(cap, r) /\ recorded' = Props
            /\ cap' = Override(cap, r) /\ total' = Override(cap, r)
       ELSE UNCHANGED <<initialConfiguration, originalCap, recorded, cap, total>>
    /\ registered' = TRUE /\ unsaved' = Props
    /\ UNCHANGED <<missed, usageState, adminState, propertySetAccess, pc, locals,
                   books>>

\* postConstruction goes on when the device is registered, while callers
\* already use it: one property after another, without a lock, it takes the
\* current value for the original one.
SaveCapacity(p) ==
    /\ p \in unsaved /\ unsaved' = unsaved \ {p}
    /\ originalCap' = [originalCap EXCEPT ![p] = cap[p]]
    /\ recorded' = recorded \cup {p}
    /\ missed' = IF spoilt \/ cap[p] = total[p] THEN missed ELSE missed \cup {p}
    /\ UNCHANGED <<cap, initialConfiguration, total, usageState, adminState,
                   propertySetAccess, registered, pc, locals, books>>

\* configure() by a caller, on a device the DeviceManager has configured:
\* originalCap is written without a lock ...
Configure(c, r) ==
    /\ Calling(c) /\ "reconfigure" \in Environment /\ HasConfigureProps
    /\ Named(r) # {} /\ Named(r) \subseteq Configurable
    /\ originalCap' = Override(originalCap, r)
    /\ Enter(c, "configure", r, "no")
    /\ spoilt' = TRUE
    /\ UNCHANGED <<cap, recorded, unsaved, initialConfiguration, total, missed,
                   usageState, adminState, propertySetAccess, registered, granted>>

\* ... and the properties afterwards, under propertySetAccess.
ConfigureProperties(c) ==
    /\ pc[c] = "configure" /\ lockFree
    /\ cap' = Override(cap, req[c])
    /\ Return(c)
    /\ UNCHANGED <<caps, usageState, adminState,
                   propertySetAccess, registered, books>>

-----------------------------------------------------------------------------
\* allocateCapacity

\* The checks at the head of allocateCapacity, all without a lock: a BUSY
\* device returns false, an empty request true, and a device that is not
\* UNLOCKED throws InvalidState, as validateCapacities does InvalidCapacity.
AllocateCapacity(c, r, b) ==
    /\ Calling(c)
    /\ b # "no" => "badrequest" \in Environment
    /\ b = "type" => ~UseNewAllocation
    /\ IF \/ usageState = "BUSY"
          \/ Named(r) = {} /\ b = "no"
          \/ adminState # "UNLOCKED"
          \/ UseNewAllocation /\ b = "unknown"
       THEN Return(c)
       ELSE Enter(c, IF UseNewAllocation THEN "new_allocate" ELSE "validate",
                  r, b)
    /\ UNCHANGED <<state, books>>

\* allocateCapacityLegacy: validateCapacities and the second look at BUSY.
AllocateValidate(c) ==
    /\ pc[c] = "validate" /\ lockFree
    /\ IF bad[c] = "unknown" \/ usageState = "BUSY"
       THEN Return(c) ELSE Goto(c, "query")
    /\ UNCHANGED <<state, books>>

\* query(currentCapacities), which takes and drops propertySetAccess.
AllocateQuery(c) ==
    /\ pc[c] = "query" /\ lockFree
    /\ current' = [current EXCEPT ![c] = cap]
    /\ pc' = [pc EXCEPT ![c] = "apply"]
    /\ UNCHANGED <<state, req, bad, todo, books>>

\* What the loop leaves in the properties, from the values of the query.
newCapacities(c) ==
    [p \in Props |-> IF req[c][p] > 0 THEN allocate(current[c][p], req[c][p])
                                      ELSE cap[p]]

\* There is capacity left in some property of the request.
extraCap(c) ==
    \E p \in Named(req[c]) : allocate(current[c][p], req[c][p]) > 0

\* (mutant: the amounts are not compared)
sufficientUnchecked(c) == bad[c] = "no"

\* Wrong types and insufficient capacity end the call before it writes.
sufficient(c) ==
    /\ bad[c] = "no"
    /\ \A p \in Named(req[c]) : allocatable(current[c][p], req[c][p])

\* The books are not kept on callers that return what they do not hold.
Book(c, f) ==
    granted' = IF "overreturn" \in Environment THEN granted
               ELSE [granted EXCEPT ![c] = f]

\* Capacities change while another call is about to subtract from what it has
\* read of them.
Overtakes(c) == \E d \in Clients \ {c} : pc[d] = "apply"

Grant(c) == Book(c, [p \in Props |-> granted[c][p] + req[c][p]])

AllocateRefused(c) ==
    /\ pc[c] = "apply" /\ lockFree
    /\ ~sufficient(c)
    /\ Return(c)
    /\ UNCHANGED <<state, books>>

AllocateApply(c) ==
    /\ pc[c] = "apply" /\ lockFree
    /\ sufficient(c)
    /\ cap' = newCapacities(c)
    /\ usageState' = IF extraCap(c) THEN "ACTIVE" ELSE "BUSY"
    /\ Grant(c) /\ spoilt' = (spoilt \/ Overtakes(c))
    /\ Return(c)
    /\ UNCHANGED <<caps, adminState,
                   propertySetAccess, registered>>

(***************************************************************************)
(* A callback throws for the properties `failed`; those in `written`       *)
(* have their new value all the same (setValue precedes the callback).     *)
(* The DeallocationHelper is destroyed while propertySetAccess is still    *)
(* held: unless it has nothing to return, or deallocateCapacity rejects    *)
(* the call because the device is LOCKED, it waits for the mutex of its    *)
(* own thread and no step of the call follows.                             *)
(***************************************************************************)
AllocateThrow(c, failed, written) ==
    /\ pc[c] = "apply" /\ lockFree
    /\ "throw" \in Environment
    /\ sufficient(c)
    /\ failed # {} /\ failed \subseteq Named(req[c]) /\ written \subseteq failed
    /\ cap' = [p \in Props |-> IF p \in failed \ written THEN cap[p]
                               ELSE newCapacities(c)[p]]
    /\ IF failed = Named(req[c]) \/ adminState = "LOCKED"
       THEN Return(c) /\ UNCHANGED propertySetAccess
       ELSE Goto(c, "self_deadlock") /\ propertySetAccess' = c
    /\ spoilt' = TRUE
    /\ UNCHANGED <<caps, usageState, adminState,
                   registered, granted>>

-----------------------------------------------------------------------------
(***************************************************************************)
(* allocateCapacityNew: one allocation callback after another, in the      *)
(* order of the request, without a lock.  The callback is the device's     *)
(* own code; it is taken to grant what is available and refuse the rest.   *)
(***************************************************************************)
NewAllocate(c, p) ==
    /\ pc[c] = "new_allocate" /\ p \in todo[c]
    /\ allocatable(cap[p], req[c][p])
    /\ cap' = [cap EXCEPT ![p] = allocate(@, req[c][p])]
    /\ Advance(c, p)
    /\ IF todo[c] = {p} THEN Grant(c) ELSE UNCHANGED granted
    /\ spoilt' = (spoilt \/ Overtakes(c))
    /\ UNCHANGED <<caps, usageState, adminState,
                   propertySetAccess, registered>>

\* (mutant: nothing is returned when a later property is refused)
NewRefuseNoCleanup(c, p) ==
    /\ pc[c] = "new_allocate" /\ p \in todo[c]
    /\ ~allocatable(cap[p], req[c][p])
    /\ Return(c)
    /\ UNCHANGED <<state, books>>

\* A refusal; the DeallocationHelper returns the properties done so far, if
\* there are any and deallocateCapacity accepts the call.
NewRefuse(c, p) ==
    /\ pc[c] = "new_allocate" /\ p \in todo[c]
    /\ ~allocatable(cap[p], req[c][p])
    /\ LET succeeded == Named(req[c]) \ todo[c]
       IN  /\ IF succeeded = {} \/ adminState = "LOCKED"
              THEN Return(c)
              ELSE /\ pc' = [pc EXCEPT ![c] = "new_rollback"]
                   /\ todo' = [todo EXCEPT ![c] = succeeded]
                   /\ UNCHANGED <<req, bad, current>>
           /\ spoilt' = (spoilt \/ (succeeded # {} /\ adminState = "LOCKED"))
    /\ UNCHANGED <<state, granted>>

\* The deallocation callback gives the amount back.
NewRollback(c, p) ==
    /\ pc[c] = "new_rollback" /\ p \in todo[c]
    /\ cap' = [cap EXCEPT ![p] = deallocate(@, req[c][p])]
    /\ Advance(c, p)
    /\ spoilt' = (spoilt \/ Overtakes(c))
    /\ UNCHANGED <<caps, usageState, adminState,
                   propertySetAccess, registered, granted>>

-----------------------------------------------------------------------------
\* deallocateCapacity

holds(c, r) == \A p \in Props : r[p] <= granted[c][p]

\* A LOCKED device throws InvalidState; one that is SHUTTING_DOWN does not.
DeallocateCapacity(c, r, b) ==
    /\ Calling(c)
    /\ Named(r) # {} \/ b # "no"
    /\ b # "no" => "badrequest" \in Environment
    /\ b = "type" => ~UseNewAllocation
    /\ ~holds(c, r) => "overreturn" \in Environment
    /\ IF adminState = "LOCKED" \/ (UseNewAllocation /\ b = "unknown")
       THEN Return(c)
       ELSE Enter(c, IF UseNewAllocation THEN "d_new" ELSE "d_check", r, b)
    /\ UNCHANGED <<state, books>>

\* (mutant: an IDLE device makes the caller wait)
DeallocateCheckWaiting(c) ==
    /\ pc[c] = "d_check" /\ lockFree
    /\ usageState # "IDLE"
    /\ IF bad[c] = "unknown" THEN Return(c) ELSE Goto(c, "d_apply")
    /\ UNCHANGED <<state, books>>

\* deallocateCapacityLegacy: validateCapacities, and an IDLE device throws.
DeallocateCheck(c) ==
    /\ pc[c] = "d_check" /\ lockFree
    /\ IF bad[c] = "unknown" \/ usageState = "IDLE"
       THEN Return(c) ELSE Goto(c, "d_apply")
    /\ UNCHANGED <<state, books>>

\* (mutant: the original bound is not checked)
overCapsUnchecked(r) == {}

\* The properties whose value would exceed the original capacity.
overCaps(r) ==
    {p \in Named(r) \cap recorded : deallocate(cap[p], r[p]) > originalCap[p]}

Returned(done, r) ==
    [p \in Props |-> IF p \in done THEN deallocate(cap[p], r[p]) ELSE cap[p]]

\* None of the properties just returned is below its original capacity.
totalCap(done, newCap) ==
    \A p \in done \cap recorded : newCap[p] >= originalCap[p]

GiveBack(c, done) ==
    Book(c, [p \in Props |-> IF p \in done THEN granted[c][p] - req[c][p]
                                           ELSE granted[c][p]])

\* The loop, the new usage state, and then the exceptions: properties over
\* their bound, and those whose setValue threw (`unset`), are reported; the
\* others have been returned.
DeallocateApply(c, unset) ==
    /\ pc[c] = "d_apply" /\ lockFree /\ bad[c] = "no"
    /\ unset # {} => "throw" \in Environment
    /\ LET done   == Named(req[c]) \ overCaps(req[c])
           newCap == Returned(done \ unset, req[c])
       IN  /\ unset \subseteq done
           /\ cap' = newCap
           /\ usageState' = IF totalCap(done, newCap) THEN "IDLE" ELSE "ACTIVE"
           /\ GiveBack(c, done \ unset)
    /\ spoilt' = (spoilt \/ Overtakes(c))
    /\ Return(c)
    /\ UNCHANGED <<caps, adminState,
                   propertySetAccess, registered>>

\* A value of a wrong type throws out of the loop: the properties `before` it
\* in the request have been returned, the usage state has not been updated.
DeallocateBadType(c, before) ==
    /\ pc[c] = "d_apply" /\ lockFree /\ bad[c] = "type"
    /\ before \subseteq Named(req[c])
    /\ LET done == before \ overCaps(req[c])
       IN  cap' = Returned(done, req[c]) /\ GiveBack(c, done)
    /\ spoilt' = (spoilt \/ Overtakes(c))
    /\ Return(c)
    /\ UNCHANGED <<caps, usageState, adminState,
                   propertySetAccess, registered>>

\* deallocateCapacityNew: one callback after another, without a lock.
NewDeallocate(c, p) ==
    /\ pc[c] = "d_new" /\ p \in todo[c]
    /\ cap' = [cap EXCEPT ![p] = deallocate(@, req[c][p])]
    /\ Advance(c, p)
    /\ GiveBack(c, {p})
    /\ spoilt' = (spoilt \/ Overtakes(c))
    /\ UNCHANGED <<caps, usageState, adminState,
                   propertySetAccess, registered>>

-----------------------------------------------------------------------------
\* Administrative state and release

\* The adminState attribute may be set to any value at any time.
AdminState(new_adminState) ==
    /\ registered /\ ~released /\ "admin" \in Environment
    /\ adminState' = new_adminState
    /\ UNCHANGED <<cap, caps, usageState,
                   propertySetAccess, registered, pc, locals, books>>

\* Only an UNLOCKED device goes through shutdown and unregistration; any
\* other goes straight to Resource_impl::releaseObject.
ReleaseObject(c) ==
    /\ Calling(c) /\ "release" \in Environment
    /\ IF adminState = "UNLOCKED"
       THEN adminState' = "SHUTTING_DOWN" /\ Goto(c, "r_lock")
       ELSE Goto(c, "released") /\ UNCHANGED adminState
    /\ UNCHANGED <<cap, caps, usageState,
                   propertySetAccess, registered, books>>

\* The device has left its aggregate.
ReleaseLock(c) ==
    /\ pc[c] = "r_lock"
    /\ adminState' = "LOCKED"
    /\ Goto(c, "r_unregister")
    /\ UNCHANGED <<cap, caps, usageState,
                   propertySetAccess, registered, books>>

\* DeviceManager::unregisterDevice; when it throws, so does releaseObject.
ReleaseUnregister(c) ==
    /\ pc[c] = "r_unregister"
    /\ \/ registered /\ registered' = FALSE /\ Goto(c, "released")
       \/ UNCHANGED registered /\ Return(c)
    /\ UNCHANGED <<cap, caps, usageState,
                   adminState, propertySetAccess, books>>

-----------------------------------------------------------------------------
Requests == [Props -> Amounts]

\* The steps of a call under way, which its thread keeps taking.
Proceed(c) ==
    \/ AllocateValidate(c) \/ AllocateQuery(c)
    \/ AllocateRefused(c) \/ AllocateApply(c)
    \/ \E failed, written \in SUBSET Props : AllocateThrow(c, failed, written)
    \/ \E p \in Props : \/ NewAllocate(c, p) \/ NewRefuse(c, p)
                        \/ NewRollback(c, p) \/ NewDeallocate(c, p)
    \/ DeallocateCheck(c)
    \/ \E props \in SUBSET Props : \/ DeallocateApply(c, props)
                                  \/ DeallocateBadType(c, props)
    \/ ConfigureProperties(c)
    \/ ReleaseLock(c) \/ ReleaseUnregister(c)

Next ==
    \/ \E r \in Requests : RegisterDevice(r)
    \/ \E p \in Props : SaveCapacity(p)
    \/ \E c \in Clients : \/ Proceed(c)
                          \/ ReleaseObject(c)
                          \/ \E r \in Requests :
                                \/ Configure(c, r)
                                \/ \E b \in BadKinds :
                                      \/ AllocateCapacity(c, r, b)
                                      \/ DeallocateCapacity(c, r, b)
    \/ \E s \in AdminType : AdminState(s)

Spec == Init /\ [][Next]_vars

\* The ORB keeps running the thread of a call that can go on.
FairSpec == Spec /\ \A c \in Clients : WF_vars(Proceed(c))

-----------------------------------------------------------------------------
(***************************************************************************)
(* With the legacy allocation a configured device never offers more of a   *)
(* property that configure() does not write than it came up with, and      *)
(* never takes more for its original capacity: a stale query is never      *)
(* above the bound, deallocation checks it modulo the width, and a value   *)
(* saved late is too small, never too large.                               *)
(***************************************************************************)
CapacityBounds ==
    ~UseNewAllocation /\ ~initialConfiguration =>
        \A p \in Props \ Configurable :
            cap[p] <= total[p] /\ originalCap[p] <= total[p]

\* What a call of the callback-based path has taken and not yet handed over.
reserved(c, p) ==
    IF \/ pc[c] = "new_allocate" /\ p \notin todo[c]
       \/ pc[c] = "new_rollback" /\ p \in todo[c]
    THEN req[c][p] ELSE 0

\* The units of a property that are out, each counted with its caller.
Out(p) == [c \in Clients |-> granted[c][p] + reserved(c, p)]
Units(f) == {u \in Clients \X (1 .. Width) : u[2] <= f[u[1]]}

\* What is left and what is out make up what there was.
Balanced ==
    \A p \in Props : /\ \A c \in Clients : granted[c][p] >= 0
                     /\ cap[p] + Cardinality(Units(Out(p))) = total[p]

\* The bound refuses nobody what it was granted, except of a property whose
\* original capacity was saved while some of it was out.
ReturnsAccepted == \A c \in Clients : pc[c] = "d_apply" => overCaps(req[c]) \subseteq missed

(***************************************************************************)
(* Capacity is neither lost nor granted twice, and what was granted can be *)
(* returned: what is left, what callers hold and what calls under way have *)
(* reserved add up to the capacity that the device came up with, whatever  *)
(* calls overlap in the callback-based path and whenever the original      *)
(* capacities are saved, until a legacy call overwrites what another one   *)
(* has just read, a callback throws in the legacy allocation, a device     *)
(* locked half way refuses its own cleanup, or a caller changes the        *)
(* capacities by configure() or returns what it does not hold.             *)
(***************************************************************************)
Conservation ==
    ~spoilt => Balanced /\ ReturnsAccepted
=============================================================================
