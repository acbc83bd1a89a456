------------------------------- MODULE PyDevice -------------------------------
(***************************************************************************)
(* ossie.device.Device: capacities, states and state change events of a    *)
(* Python device.                                                          *)
(*                                                                         *)
(* The capacities are kept under _capacityLock.  The three states are not: *)
(* __setattr__ compares the old value, sends the event and then stores the *)
(* new one, so that two assignments overlap freely.  How a capacity is     *)
(* counted and what usage it means is the business of a subclass, modelled *)
(* as the usual counter per property.                                      *)
(***************************************************************************)
EXTENDS Integers, FiniteSets

CONSTANTS Props,       \* properties with a capacity
          Clients,
          Capacity,    \* units of each property
          MaxCalls,    \* bound on calls
          None

VARIABLES used,        \* units taken, of each property
          held,        \* ghost: units each client was granted
          leaked,      \* ghost: units no call gives back, see _allocateCapacities
          usage, admin,
          heard,       \* ghost: the admin state the domain was last told, over the IDM channel
          untold,      \* ghost: the last event of the admin state was lost
          lock,        \* _capacityLock
          call,        \* the call of each client that is under way
          mixed,       \* ghost: assignments of the usage state overlap
          crossed,     \* ghost: an assignment of the admin state overlapped another one
          closing,     \* ghost: releaseObject found the device unlocked
          released, calls

vars == <<used, held, leaked, usage, admin, heard, untold, lock, call, mixed, crossed,
          closing, released, calls>>

capacities == <<used, held, leaked>>
states == <<usage, admin, heard, untold, crossed, closing, released>>

Nothing == [p \in Props |-> 0]

\* __initialize
Init ==
    /\ used = Nothing /\ leaked = Nothing
    /\ held = [c \in Clients |-> Nothing]
    /\ usage = "IDLE" /\ admin = "UNLOCKED"
    /\ heard = "UNLOCKED" /\ untold = FALSE
    /\ lock = None
    /\ call = [c \in Clients |-> None]
    /\ mixed = FALSE /\ crossed = FALSE /\ closing = FALSE /\ released = FALSE
    /\ calls = 0

Call(pc, op, todo) == [pc |-> pc, op |-> op, todo |-> todo, got |-> {}, to |-> ""]

Begin(c, r) ==
    /\ ~released /\ calls < MaxCalls /\ calls' = calls + 1
    /\ call[c] = None
    /\ call' = [call EXCEPT ![c] = r]

Goto(c, pc) == call' = [call EXCEPT ![c].pc = pc]
At(c, pc) == call[c] # None /\ call[c].pc = pc
Return(c) == call' = [call EXCEPT ![c] = None]
Others(c, pcs) == \E d \in Clients \ {c} : call[d] # None /\ call[d].pc \in pcs

Plus(f, S) == [p \in Props |-> f[p] + (IF p \in S THEN 1 ELSE 0)]
Minus(f, S) == [p \in Props |-> f[p] - (IF p \in S THEN 1 ELSE 0)]

\* isEnabled and isUnLocked; nothing in this code disables a device
Ready == admin = "UNLOCKED"

\* a change of the capacities while another call has worked out the usage
\* and has not stored it yet
Mixes(c) == mixed \/ Others(c, {"sendUsage", "storeUsage"})

----------------------------------------------------------------------------
(* allocateCapacity                                                        *)

\* the states are looked at before the lock is taken
allocateCapacity(c, S) ==
    /\ usage # "BUSY" /\ Ready
    /\ Begin(c, Call("acquire", "allocate", S))
    /\ UNCHANGED <<capacities, states, lock, mixed>>

acquire(c) ==
    /\ At(c, "acquire") /\ lock = None
    /\ lock' = c
    /\ Goto(c, IF call[c].op = "allocate" THEN "each" ELSE "free")
    /\ UNCHANGED <<capacities, states, mixed, calls>>

\* one property: its callback takes a unit or says no
_allocateCapacity(c, p) ==
    /\ At(c, "each") /\ p \in call[c].todo
    /\ IF used[p] < Capacity
       THEN /\ used' = [used EXCEPT ![p] = @ + 1]
            /\ call' = [call EXCEPT ![c].todo = @ \ {p}, ![c].got = @ \union {p}]
            /\ mixed' = Mixes(c)
       ELSE Goto(c, "rollback") /\ UNCHANGED <<used, mixed>>
    /\ UNCHANGED <<held, leaked, states, lock, calls>>

Rollback_Kept(c) == used

Rollback(c) == Minus(used, call[c].got)

\* a callback of the allocation or of its rollback raises, or a device that was
\* locked in the meantime refuses the rollback
Raises(c) ==
    \/ At(c, "each") /\ call[c].todo # {}
    \/ At(c, "rollback")

\* the end of the allocation: all were granted, or those granted are given back;
\* an exception leaves at once, through the finally: what was granted and not
\* given back is lost, and the usage state is left alone as well
_allocateCapacities(c) ==
    \/ /\ At(c, "each") /\ call[c].todo = {}
       /\ held' = [held EXCEPT ![c] = Plus(@, call[c].got)]
       /\ lock' = None
       /\ Goto(c, "sendUsage")
       /\ UNCHANGED <<used, leaked, states, mixed, calls>>
    \/ /\ At(c, "rollback") /\ Ready
       /\ used' = Rollback(c)
       /\ lock' = None
       /\ mixed' = Mixes(c)
       /\ Goto(c, "sendUsage")
       /\ UNCHANGED <<held, leaked, states, calls>>
    \/ /\ Raises(c)
       /\ \E returned \in SUBSET call[c].got :
             /\ At(c, "each") \/ ~Ready => returned = {}
             /\ used' = Minus(used, returned)
             /\ leaked' = Plus(leaked, call[c].got \ returned)
       /\ lock' = None
       /\ mixed' = (mixed \/ call[c].got # {})
       /\ Return(c)
       /\ UNCHANGED <<held, states, calls>>

----------------------------------------------------------------------------
(* deallocateCapacity                                                      *)

deallocateCapacity(c, S) ==
    /\ \A p \in S : held[c][p] > 0
    /\ Begin(c, Call("acquire", "deallocate", S))
    /\ UNCHANGED <<capacities, states, lock, mixed>>

Unlock(c) == None

\* refused unless the device is unlocked, now; a callback that raises ends the
\* call before the others of its properties and the usage state are done; the
\* lock is given up either way
_deallocateCapacities(c) ==
    /\ At(c, "free")
    /\ lock' = Unlock(c)
    /\ \E returned \in SUBSET call[c].todo :
          /\ ~Ready => returned = {}
          /\ used' = Minus(used, returned)
          /\ held' = [held EXCEPT ![c] = Minus(@, returned)]
          /\ \/ /\ returned = call[c].todo /\ Ready
                /\ mixed' = Mixes(c)
                /\ Goto(c, "sendUsage")
             \/ /\ returned # call[c].todo
                /\ mixed' = (mixed \/ returned # {})
                /\ Return(c)
    /\ UNCHANGED <<leaked, states, calls>>

----------------------------------------------------------------------------
(* __setattr__ of the usage state                                          *)

\* updateUsageState, of a subclass
Usage(u) ==
    IF \A p \in Props : u[p] = 0 THEN "IDLE"
    ELSE IF \A p \in Props : u[p] = Capacity THEN "BUSY"
    ELSE "ACTIVE"

\* the new state is worked out, and an event sent if it is new
updateUsageState(c) ==
    /\ At(c, "sendUsage")
    /\ call' = [call EXCEPT ![c].pc = "storeUsage", ![c].to = Usage(used)]
    /\ mixed' = Others(c, {"sendUsage", "storeUsage", "each", "rollback"})
    /\ UNCHANGED <<capacities, states, lock, calls>>

storeUsage(c) ==
    /\ At(c, "storeUsage")
    /\ usage' = call[c].to
    /\ Return(c)
    /\ UNCHANGED <<capacities, admin, heard, untold, lock, mixed, crossed, closing, released,
                   calls>>

----------------------------------------------------------------------------
(* _set_adminState and releaseObject                                       *)

Assigning == {"sendAdmin", "storeAdmin"}

adminStateTransitions == {<<"LOCKED", "UNLOCKED">>, <<"UNLOCKED", "LOCKED">>}

\* other transitions are ignored
_set_adminState(c, a) ==
    /\ <<admin, a>> \in adminStateTransitions
    /\ Begin(c, [Call("sendAdmin", "set", {}) EXCEPT !.to = a])
    /\ crossed' = (crossed \/ Others(c, Assigning))
    /\ UNCHANGED <<capacities, usage, admin, heard, untold, lock, mixed, closing, released>>

\* an unlocked device shuts down; the children, the parent and the device
\* manager are told before it is locked
releaseObject(c) ==
    /\ Begin(c, IF Ready THEN [Call("sendAdmin", "shut", {}) EXCEPT !.to = "SHUTTING_DOWN"]
                ELSE Call("release", "lock", {}))
    /\ crossed' = (crossed \/ (Ready /\ Others(c, Assigning)))
    /\ closing' = (closing \/ Ready)
    /\ UNCHANGED <<capacities, usage, admin, heard, untold, lock, mixed, released>>

\* all of that went well; or an exception ends the release here
releaseChildren(c) ==
    /\ At(c, "release")
    /\ \/ /\ call' = [call EXCEPT ![c].pc = "sendAdmin", ![c].op = "lock", ![c].to = "LOCKED"]
          /\ crossed' = (crossed \/ Others(c, Assigning))
       \/ Return(c) /\ UNCHANGED crossed
    /\ UNCHANGED <<capacities, usage, admin, heard, untold, closing, released, lock, mixed,
                   calls>>

\* a new state is pushed to the channel; without a publisher, or when the push
\* fails, the domain is not told and the assignment goes on
sendAdmin(c) ==
    /\ At(c, "sendAdmin")
    /\ \/ call[c].to = admin /\ UNCHANGED <<heard, untold>>
       \/ call[c].to # admin /\ heard' = call[c].to /\ untold' = FALSE
       \/ call[c].to # admin /\ heard' = heard /\ untold' = TRUE
    /\ Goto(c, "storeAdmin")
    /\ UNCHANGED <<capacities, usage, admin, lock, mixed, crossed, closing, released, calls>>

storeAdmin(c) ==
    /\ At(c, "storeAdmin")
    /\ admin' = call[c].to
    /\ released' = (released \/ call[c].op = "lock")
    /\ IF call[c].op = "shut" THEN Goto(c, "release") ELSE Return(c)
    /\ UNCHANGED <<capacities, usage, heard, untold, lock, mixed, crossed, closing, calls>>

----------------------------------------------------------------------------
Step(c) ==
    \/ acquire(c) \/ _allocateCapacities(c) \/ _deallocateCapacities(c)
    \/ \E p \in Props : _allocateCapacity(c, p)
    \/ updateUsageState(c) \/ storeUsage(c)
    \/ releaseChildren(c) \/ sendAdmin(c) \/ storeAdmin(c)

Next ==
    \E c \in Clients :
        \/ \E S \in (SUBSET Props) \ {{}} : allocateCapacity(c, S) \/ deallocateCapacity(c, S)
        \/ \E a \in {"LOCKED", "UNLOCKED"} : _set_adminState(c, a)
        \/ releaseObject(c)
        \/ Step(c)

\* a call that has started gets on
Fairness == \A c \in Clients : WF_vars(Step(c))

Spec == Init /\ [][Next]_vars /\ Fairness

----------------------------------------------------------------------------
Pcs == {"acquire", "each", "rollback", "free", "sendUsage", "storeUsage", "release",
        "sendAdmin", "storeAdmin"}
Ops == {"allocate", "deallocate", "set", "shut", "lock"}
Texts == {"", "IDLE", "ACTIVE", "BUSY", "LOCKED", "UNLOCKED", "SHUTTING_DOWN"}
Calls == [pc : Pcs, op : Ops, todo : SUBSET Props, got : SUBSET Props, to : Texts]

DeviceConstants ==
    IsFiniteSet(Clients) /\ None \notin Clients \cup Calls /\ Capacity \in Nat

TypeOK ==
    /\ used \in [Props -> Int] /\ leaked \in [Props -> Nat]
    /\ held \in [Clients -> [Props -> Int]]
    /\ usage \in Texts /\ admin \in Texts /\ heard \in Texts
    /\ lock \in Clients \cup {None}
    /\ call \in [Clients -> Calls \cup {None}]
    /\ untold \in BOOLEAN /\ mixed \in BOOLEAN /\ crossed \in BOOLEAN /\ closing \in BOOLEAN /\ released \in BOOLEAN

Quiet == \A c \in Clients : call[c] = None

\* The units of a property that clients hold, and the calls that have a unit and
\* may still give it back.
Holdings(p) == {u \in Clients \X (1 .. Capacity) : u[2] <= held[u[1]][p]}
Taking(p) ==
    {c \in Clients : call[c] # None /\ p \in call[c].got /\ call[c].pc \in {"each", "rollback"}}

\* Every unit that is taken belongs to a client, to a call that may still
\* give it back, or was lost when a callback of an allocation raised or a device
\* locked half way refused its rollback.
CapacityConserved ==
    \A p \in Props :
        /\ \A c \in Clients : held[c][p] \in 0 .. Capacity
        /\ used[p] = leaked[p] + Cardinality(Holdings(p)) + Cardinality(Taking(p))

\* Between calls the usage state is that of the capacities, unless the last
\* two updates overlapped or an exception has skipped the last one.
UsageTrue == Quiet /\ ~mixed => usage = Usage(used)

\* The domain knows the administrative state, unless the last event of it was
\* lost, and a device that was unlocked when its release began is not unlocked
\* again, as long as no two assignments overlapped.
AdminTrue ==
    ~crossed => /\ Quiet /\ ~untold => heard = admin
                /\ closing => \/ admin # "UNLOCKED"
                              \/ \E c \in Clients : At(c, "sendAdmin") \/ At(c, "storeAdmin")

\* The units of a device's capacities add up, its usage state follows them, and
\* the domain knows its administrative state.
DeviceTrue == CapacityConserved /\ UsageTrue /\ AdminTrue

\* Every call returns: no path keeps the lock of the capacities.
CallsReturn == \A c \in Clients : (call[c] # None) ~> (call[c] = None)
=============================================================================
