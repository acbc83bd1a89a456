--------------------------- MODULE PyDeviceProofs ---------------------------
(***************************************************************************)
(* Proofs about PyDevice, for any number of clients and properties and any *)
(* capacity: its units add up, the usage state follows them, and the       *)
(* domain knows the administrative state.                                  *)
(***************************************************************************)
EXTENDS PyDevice, FiniteSetTheorems, TLAPS

----------------------------------------------------------------------------
(* The inductive invariants.                                               *)

\* Between acquire and release of the lock.
Locked(c) == At(c, "each") \/ At(c, "rollback") \/ At(c, "free")

\* Who is between acquire and release has the lock, and who has it is there; a
\* call has not taken the units it still has to take; one that gives units back is
\* made by who holds them.
CallSound(c) ==
    /\ Locked(c) <=> lock = c
    /\ At(c, "acquire") => call[c].got = {} /\ call[c].op \in {"allocate", "deallocate"}
    /\ At(c, "each") => call[c].todo \cap call[c].got = {}
    /\ (At(c, "free") \/ (At(c, "acquire") /\ call[c].op = "deallocate")) =>
         \A p \in call[c].todo : held[c][p] > 0

CallsSound == \A c \in Clients : CallSound(c)

WithinCapacity == \A p \in Props : used[p] <= Capacity

CapacityInv == TypeOK /\ CallsSound /\ WithinCapacity /\ CapacityConserved

----------------------------------------------------------------------------
(* The calls of the clients.                                               *)

\* Only the call of c changes.
OnlyCall(c) == \A d \in Clients \ {c} : call'[d] = call[d]

Fields(c) == call'[c] # None /\ call'[c].todo = call[c].todo /\ call'[c].got = call[c].got
             /\ call'[c].op = call[c].op

\* A call that begins is one of the records, and the client had none.
LEMMA BeginType ==
    ASSUME DeviceConstants, TypeOK, NEW c \in Clients, NEW r \in Calls, Begin(c, r)
    PROVE  /\ call' \in [Clients -> Calls \cup {None}]
           /\ call[c] = None /\ call'[c] = r /\ r # None /\ OnlyCall(c)
  BY DEF Begin, TypeOK, OnlyCall, DeviceConstants

\* The records of calls that begin.
LEMMA CallType ==
    ASSUME NEW pc \in Pcs, NEW op \in Ops, NEW S \in SUBSET Props
    PROVE  /\ Call(pc, op, S) \in Calls
           /\ Call(pc, op, S).pc = pc /\ Call(pc, op, S).op = op
           /\ Call(pc, op, S).todo = S /\ Call(pc, op, S).got = {}
           /\ \A t \in Texts : /\ [Call(pc, op, S) EXCEPT !.to = t] \in Calls
                               /\ [Call(pc, op, S) EXCEPT !.to = t].pc = pc
                               /\ [Call(pc, op, S) EXCEPT !.to = t].op = op
                               /\ [Call(pc, op, S) EXCEPT !.to = t].to = t
  BY DEF Call, Calls, Texts

\* A call that goes on stays what it is, but for its place.
LEMMA GotoType ==
    ASSUME DeviceConstants, TypeOK, NEW c \in Clients, call[c] # None,
           NEW pc \in Pcs, Goto(c, pc)
    PROVE  /\ call' \in [Clients -> Calls \cup {None}]
           /\ call[c] \in Calls /\ call'[c] \in Calls /\ call'[c].pc = pc /\ call'[c].to = call[c].to
           /\ Fields(c) /\ OnlyCall(c)
  <1>1. call[c] \in Calls
    BY DEF TypeOK
  <1>2. call' = [call EXCEPT ![c] = [call[c] EXCEPT !.pc = pc]]
    BY DEF Goto
  <1>3. [call[c] EXCEPT !.pc = pc] \in Calls
    BY <1>1 DEF Calls
  <1> QED BY <1>1, <1>2, <1>3 DEF TypeOK, Fields, OnlyCall, DeviceConstants, Calls

\* A call that returns leaves the others alone.
LEMMA ReturnType ==
    ASSUME DeviceConstants, TypeOK, NEW c \in Clients, Return(c)
    PROVE  call' \in [Clients -> Calls \cup {None}] /\ call'[c] = None /\ OnlyCall(c)
  BY DEF Return, TypeOK, OnlyCall

----------------------------------------------------------------------------
(* Types and calls.                                                        *)

\* A unit more or less is an integer again.
LEMMA CountType ==
    ASSUME NEW f \in [Props -> Int], NEW S \in SUBSET Props
    PROVE  Plus(f, S) \in [Props -> Int] /\ Minus(f, S) \in [Props -> Int]
  BY DEF Plus, Minus

\* What the places of a call say of the lock is unchanged for the others.
LEMMA OthersSound ==
    ASSUME CallsSound, NEW c \in Clients, OnlyCall(c),
           lock' = lock \/ (lock \in {c, None} /\ lock' \in {c, None}),
           None \notin Clients,
           NEW d \in Clients \ {c}, held'[d] = held[d]
    PROVE  CallSound(d)'
  <1>1. call'[d] = call[d] /\ CallSound(d)
    BY DEF OnlyCall, CallsSound
  <1>2. (lock = d) <=> (lock' = d)
    OBVIOUS
  <1> QED BY <1>1, <1>2 DEF CallSound, Locked, At

\* Allocation and deallocation start at the lock.
LEMMA BeginCapacity ==
    ASSUME DeviceConstants, TypeOK, CallsSound, NEW c \in Clients, NEW S \in SUBSET Props,
           allocateCapacity(c, S) \/ deallocateCapacity(c, S)
    PROVE  TypeOK' /\ CallsSound'
  <1>1. PICK op \in {"allocate", "deallocate"} :
          /\ Begin(c, Call("acquire", op, S))
          /\ op = "deallocate" => \A p \in S : held[c][p] > 0
    BY DEF allocateCapacity, deallocateCapacity
  <1>2. UNCHANGED <<used, held, leaked, usage, admin, heard, untold, crossed, closing, released, lock, mixed>>
    BY DEF allocateCapacity, deallocateCapacity, capacities, states
  <1> DEFINE r == Call("acquire", op, S)
  <1>3. r \in Calls /\ r.pc = "acquire" /\ r.op = op /\ r.todo = S /\ r.got = {}
    BY CallType DEF Pcs, Ops
  <1> HIDE DEF r
  <1>4. /\ call' \in [Clients -> Calls \cup {None}]
        /\ call[c] = None /\ call'[c] = r /\ r # None /\ OnlyCall(c)
    BY <1>1, <1>3, BeginType DEF r
  <1>5. TypeOK'
    BY <1>2, <1>4 DEF TypeOK
  <1>6. CallSound(c)'
    <2>1. CallSound(c)
      BY DEF CallsSound
    <2> QED BY <1>1, <1>2, <1>3, <1>4, <2>1 DEF CallSound, Locked, At
  <1>7. ASSUME NEW d \in Clients \ {c} PROVE CallSound(d)'
    BY <1>2, <1>4, OthersSound DEF DeviceConstants
  <1> QED BY <1>5, <1>6, <1>7 DEF CallsSound

\* The lock is taken.
LEMMA AcquireCalls ==
    ASSUME DeviceConstants, TypeOK, CallsSound, NEW c \in Clients, acquire(c)
    PROVE  TypeOK' /\ CallsSound'
  <1> DEFINE pc == IF call[c].op = "allocate" THEN "each" ELSE "free"
  <1>1. call[c] # None /\ call[c].pc = "acquire" /\ lock = None /\ lock' = c /\ Goto(c, pc)
    BY DEF acquire, At
  <1>2. UNCHANGED <<used, held, leaked, usage, admin, heard, untold, crossed, closing, released, mixed>>
    BY DEF acquire, capacities, states
  <1>3. pc \in Pcs
    BY DEF Pcs
  <1>4. /\ call' \in [Clients -> Calls \cup {None}]
        /\ call[c] \in Calls /\ call'[c] \in Calls /\ call'[c].pc = pc
        /\ Fields(c) /\ OnlyCall(c)
    <2> HIDE DEF pc
    <2> QED BY <1>1, <1>3, GotoType
  <1>5. TypeOK'
    BY <1>1, <1>2, <1>4 DEF TypeOK
  <1>6. CallSound(c)'
    <2>1. CallSound(c)
      BY DEF CallsSound
    <2> QED BY <1>1, <1>2, <1>4, <2>1 DEF CallSound, Locked, At, Fields
  <1>7. ASSUME NEW d \in Clients \ {c} PROVE CallSound(d)'
    BY <1>1, <1>2, <1>4, OthersSound DEF DeviceConstants
  <1> QED BY <1>5, <1>6, <1>7 DEF CallsSound

\* One property is granted, or the rest is given up.
LEMMA EachCalls ==
    ASSUME DeviceConstants, TypeOK, CallsSound, NEW c \in Clients, NEW p \in Props,
           _allocateCapacity(c, p)
    PROVE  TypeOK' /\ CallsSound'
  <1>1. /\ call[c] # None /\ call[c].pc = "each" /\ p \in call[c].todo
        /\ UNCHANGED <<held, leaked, usage, admin, heard, untold, crossed, closing, released, lock>>
    BY DEF _allocateCapacity, At, states
  <1>2. call[c] \in Calls /\ CallSound(c) /\ lock = c
    BY <1>1 DEF TypeOK, CallsSound, CallSound, Locked, At
  <1>3. CASE used[p] < Capacity
    <2> DEFINE r == [call[c] EXCEPT !.todo = @ \ {p}, !.got = @ \cup {p}]
    <2>1. call' = [call EXCEPT ![c] = r] /\ used' = [used EXCEPT ![p] = @ + 1] /\ mixed' = Mixes(c)
      BY <1>3 DEF _allocateCapacity
    <2>2. /\ r \in Calls /\ r.pc = "each" /\ r.todo = call[c].todo \ {p}
          /\ r.got = call[c].got \cup {p}
      BY <1>1, <1>2 DEF Calls
    <2> HIDE DEF r
    <2>3. call' \in [Clients -> Calls \cup {None}] /\ call'[c] = r /\ OnlyCall(c)
      BY <2>1, <2>2 DEF TypeOK, OnlyCall
    <2>4. mixed' \in BOOLEAN
      BY <2>1 DEF Mixes
    <2>5. used' \in [Props -> Int]
      BY <2>1 DEF TypeOK
    <2>6. TypeOK'
      BY <1>1, <2>3, <2>4, <2>5 DEF TypeOK
    <2>7. CallSound(c)'
      BY <1>1, <1>2, <2>2, <2>3 DEF CallSound, Locked, At, DeviceConstants
    <2>8. ASSUME NEW d \in Clients \ {c} PROVE CallSound(d)'
      BY <1>1, <2>3, OthersSound DEF DeviceConstants
    <2> QED BY <2>6, <2>7, <2>8 DEF CallsSound
  <1>4. CASE ~(used[p] < Capacity)
    <2>1. Goto(c, "rollback") /\ UNCHANGED <<used, mixed>>
      BY <1>4 DEF _allocateCapacity
    <2>2. /\ call' \in [Clients -> Calls \cup {None}] /\ call'[c].pc = "rollback"
          /\ Fields(c) /\ OnlyCall(c)
      BY <1>1, <2>1, GotoType DEF Pcs
    <2>3. TypeOK'
      BY <1>1, <2>1, <2>2 DEF TypeOK
    <2>4. CallSound(c)'
      BY <1>1, <1>2, <2>2 DEF CallSound, Locked, At, Fields
    <2>5. ASSUME NEW d \in Clients \ {c} PROVE CallSound(d)'
      BY <1>1, <2>2, OthersSound DEF DeviceConstants
    <2> QED BY <2>3, <2>4, <2>5 DEF CallsSound
  <1> QED BY <1>3, <1>4

\* The end of an allocation, in its three ways.
LEMMA EndCalls ==
    ASSUME DeviceConstants, TypeOK, CallsSound, NEW c \in Clients, _allocateCapacities(c)
    PROVE  TypeOK' /\ CallsSound'
  <1>1. /\ call[c] # None /\ call[c] \in Calls /\ CallSound(c) /\ lock = c /\ lock' = None
        /\ UNCHANGED <<usage, admin, heard, untold, crossed, closing, released>>
        /\ call[c].got \in SUBSET Props
    BY DEF _allocateCapacities, Raises, At, states, TypeOK, CallsSound, CallSound, Locked, Calls
  <1>2. CASE /\ call[c].todo = {} /\ Goto(c, "sendUsage")
             /\ held' = [held EXCEPT ![c] = Plus(@, call[c].got)]
             /\ UNCHANGED <<used, leaked, mixed>>
    <2>1. /\ call' \in [Clients -> Calls \cup {None}] /\ call'[c].pc = "sendUsage"
          /\ Fields(c) /\ OnlyCall(c)
      BY <1>1, <1>2, GotoType DEF Pcs
    <2>2. held' \in [Clients -> [Props -> Int]] /\ \A d \in Clients \ {c} : held'[d] = held[d]
      BY <1>1, <1>2, CountType DEF TypeOK
    <2>3. TypeOK'
      BY <1>1, <1>2, <2>1, <2>2 DEF TypeOK
    <2>4. CallSound(c)'
      BY <1>1, <2>1 DEF CallSound, Locked, At, DeviceConstants
    <2>5. ASSUME NEW d \in Clients \ {c} PROVE CallSound(d)'
      BY <1>1, <2>1, <2>2, OthersSound DEF DeviceConstants
    <2> QED BY <2>3, <2>4, <2>5 DEF CallsSound
  <1>3. CASE /\ used' = Rollback(c) /\ mixed' = Mixes(c) /\ Goto(c, "sendUsage")
             /\ UNCHANGED <<held, leaked>>
    <2>1. /\ call' \in [Clients -> Calls \cup {None}] /\ call'[c].pc = "sendUsage"
          /\ Fields(c) /\ OnlyCall(c)
      BY <1>1, <1>3, GotoType DEF Pcs
    <2>2. used' \in [Props -> Int] /\ mixed' \in BOOLEAN
      BY <1>1, <1>3, CountType DEF TypeOK, Rollback, Mixes
    <2>3. TypeOK'
      BY <1>1, <1>3, <2>1, <2>2 DEF TypeOK
    <2>4. CallSound(c)'
      BY <1>1, <2>1 DEF CallSound, Locked, At, DeviceConstants
    <2>5. ASSUME NEW d \in Clients \ {c} PROVE CallSound(d)'
      BY <1>1, <1>3, <2>1, OthersSound DEF DeviceConstants
    <2> QED BY <2>3, <2>4, <2>5 DEF CallsSound
  <1>4. CASE \E returned \in SUBSET call[c].got :
               /\ used' = Minus(used, returned)
               /\ leaked' = Plus(leaked, call[c].got \ returned)
               /\ mixed' = (mixed \/ call[c].got # {}) /\ Return(c) /\ held' = held
    <2> PICK returned \in SUBSET call[c].got :
               /\ used' = Minus(used, returned)
               /\ leaked' = Plus(leaked, call[c].got \ returned)
               /\ mixed' = (mixed \/ call[c].got # {}) /\ Return(c) /\ held' = held
      BY <1>4
    <2>1. call' \in [Clients -> Calls \cup {None}] /\ call'[c] = None /\ OnlyCall(c)
      BY ReturnType
    <2>2. leaked' \in [Props -> Nat] /\ used' \in [Props -> Int]
      BY <1>1 DEF TypeOK, Plus, Minus
    <2>3. mixed' \in BOOLEAN
      OBVIOUS
    <2>4. TypeOK'
      BY <1>1, <2>1, <2>2, <2>3 DEF TypeOK
    <2>5. CallSound(c)'
      BY <1>1, <2>1 DEF CallSound, Locked, At, DeviceConstants
    <2>6. ASSUME NEW d \in Clients \ {c} PROVE CallSound(d)'
      BY <1>1, <2>1, OthersSound DEF DeviceConstants
    <2> QED BY <2>4, <2>5, <2>6 DEF CallsSound
  <1>5. \/ /\ call[c].todo = {} /\ Goto(c, "sendUsage")
           /\ held' = [held EXCEPT ![c] = Plus(@, call[c].got)]
           /\ UNCHANGED <<used, leaked, mixed>>
        \/ /\ used' = Rollback(c) /\ mixed' = Mixes(c) /\ Goto(c, "sendUsage")
           /\ UNCHANGED <<held, leaked>>
        \/ \E returned \in SUBSET call[c].got :
             /\ used' = Minus(used, returned)
             /\ leaked' = Plus(leaked, call[c].got \ returned)
             /\ mixed' = (mixed \/ call[c].got # {}) /\ Return(c) /\ held' = held
    BY Zenon DEF _allocateCapacities
  <1> QED BY <1>2, <1>3, <1>4, <1>5

\* A deallocation, refused or not.
LEMMA FreeCalls ==
    ASSUME DeviceConstants, TypeOK, CallsSound, NEW c \in Clients, _deallocateCapacities(c)
    PROVE  TypeOK' /\ CallsSound'
  <1>1. /\ call[c] # None /\ call[c] \in Calls /\ CallSound(c) /\ lock = c /\ lock' = None
        /\ UNCHANGED <<leaked, usage, admin, heard, untold, crossed, closing, released>>
        /\ call[c].todo \in SUBSET Props
    BY DEF _deallocateCapacities, Unlock, At, states, TypeOK, CallsSound, CallSound, Locked, Calls
  <1>2. PICK returned \in SUBSET call[c].todo :
          /\ used' = Minus(used, returned)
          /\ held' = [held EXCEPT ![c] = Minus(@, returned)]
          /\ \/ mixed' = Mixes(c) /\ Goto(c, "sendUsage")
             \/ mixed' = (mixed \/ returned # {}) /\ Return(c)
    BY Zenon DEF _deallocateCapacities
  <1>3. /\ call' \in [Clients -> Calls \cup {None}] /\ OnlyCall(c)
        /\ call'[c] # None => call'[c].pc = "sendUsage"
    BY <1>1, <1>2, GotoType, ReturnType DEF Pcs
  <1>4. used' \in [Props -> Int] /\ mixed' \in BOOLEAN
    BY <1>1, <1>2, CountType DEF TypeOK, Mixes
  <1>5. held' \in [Clients -> [Props -> Int]] /\ \A d \in Clients \ {c} : held'[d] = held[d]
    BY <1>1, <1>2, CountType DEF TypeOK
  <1>6. TypeOK'
    BY <1>1, <1>3, <1>4, <1>5 DEF TypeOK
  <1>7. CallSound(c)'
    BY <1>1, <1>3 DEF CallSound, Locked, At, DeviceConstants
  <1>8. ASSUME NEW d \in Clients \ {c} PROVE CallSound(d)'
    BY <1>1, <1>3, <1>5, OthersSound DEF DeviceConstants
  <1> QED BY <1>6, <1>7, <1>8 DEF CallsSound

\* What a step does that is not about the capacities: it moves one call that is not
\* at the lock, before or after.
OffLock(c) ==
    /\ UNCHANGED <<capacities, lock>> /\ OnlyCall(c) /\ call' \in [Clients -> Calls \cup {None}]
    /\ ~Locked(c)
    /\ call'[c] # None => call'[c].pc \notin {"acquire", "each", "rollback", "free"}

\* Such a step keeps the calls sound.
LEMMA OffLockSound ==
    ASSUME DeviceConstants, TypeOK, CallsSound, NEW c \in Clients, OffLock(c)
    PROVE  CallsSound'
  <1>1. CallSound(c) /\ ~Locked(c)
    BY DEF CallsSound, OffLock
  <1>2. CallSound(c)'
    BY <1>1 DEF CallSound, Locked, At, OffLock, capacities
  <1>3. ASSUME NEW d \in Clients \ {c} PROVE CallSound(d)'
    BY OthersSound DEF DeviceConstants, OffLock, capacities
  <1> QED BY <1>2, <1>3 DEF CallsSound

\* The usage state is worked out, and stored.
LEMMA UsageCalls ==
    ASSUME DeviceConstants, TypeOK, CallsSound, NEW c \in Clients,
           updateUsageState(c) \/ storeUsage(c)
    PROVE  /\ TypeOK' /\ OffLock(c)
           /\ call'[c] # None => call'[c].pc = "storeUsage"
  <1>1. /\ call[c] # None /\ call[c] \in Calls /\ UNCHANGED <<capacities, lock>>
        /\ UNCHANGED <<admin, heard, untold, crossed, closing, released>>
        /\ call[c].pc \in {"sendUsage", "storeUsage"} /\ ~Locked(c)
    BY DEF updateUsageState, storeUsage, At, states, TypeOK, capacities, Locked
  <1>2. CASE updateUsageState(c)
    <2> DEFINE r == [call[c] EXCEPT !.pc = "storeUsage", !.to = Usage(used)]
    <2>1. call' = [call EXCEPT ![c] = r] /\ usage' = usage
      BY <1>2 DEF updateUsageState, states
    <2>2. r \in Calls /\ r.pc = "storeUsage"
      <3>1. Usage(used) \in {"IDLE", "BUSY", "ACTIVE"}
        BY DEF Usage
      <3> QED BY <1>1, <3>1 DEF Calls, Pcs, Texts
    <2>3. mixed' \in BOOLEAN
      BY <1>2 DEF updateUsageState, Others
    <2> HIDE DEF r
    <2>4. call' \in [Clients -> Calls \cup {None}] /\ call'[c] = r /\ OnlyCall(c)
      BY <2>1, <2>2 DEF TypeOK, OnlyCall
    <2>5. TypeOK'
      BY <1>1, <2>1, <2>3, <2>4 DEF TypeOK, capacities
    <2> QED BY <1>1, <2>2, <2>4, <2>5 DEF OffLock
  <1>3. CASE storeUsage(c)
    <2>1. Return(c) /\ usage' = call[c].to /\ mixed' = mixed
      BY <1>3 DEF storeUsage
    <2>2. call' \in [Clients -> Calls \cup {None}] /\ call'[c] = None /\ OnlyCall(c)
      BY <2>1, ReturnType
    <2>3. usage' \in Texts
      BY <1>1, <2>1 DEF Calls
    <2>4. TypeOK'
      BY <1>1, <2>1, <2>2, <2>3 DEF TypeOK, capacities
    <2> QED BY <1>1, <2>2, <2>4 DEF OffLock
  <1> QED BY <1>2, <1>3

\* An administrative state is set, or the release of the device begins.
LEMMA AdminBegins ==
    ASSUME DeviceConstants, TypeOK, CallsSound, NEW c \in Clients,
           (\E a \in {"LOCKED", "UNLOCKED"} : _set_adminState(c, a)) \/ releaseObject(c)
    PROVE  /\ TypeOK' /\ OffLock(c)
           /\ call'[c] # None => call'[c].pc \in {"sendAdmin", "release"}
  <1>1. /\ UNCHANGED <<capacities, lock>>
        /\ UNCHANGED <<usage, admin, heard, untold, mixed, released>>
    BY DEF _set_adminState, releaseObject, capacities
  <1>2. crossed' \in BOOLEAN /\ closing' \in BOOLEAN
    BY DEF _set_adminState, releaseObject, Others, Ready, TypeOK
  <1>3. PICK r \in Calls : Begin(c, r) /\ r.pc \in {"sendAdmin", "release"}
    <2> DEFINE q(op, a) == [Call("sendAdmin", op, {}) EXCEPT !.to = a]
               l == Call("release", "lock", {})
    <2>1. ASSUME NEW op \in Ops, NEW a \in Texts PROVE q(op, a) \in Calls /\ q(op, a).pc = "sendAdmin"
      BY CallType DEF Pcs
    <2>2. l \in Calls /\ l.pc = "release"
      BY CallType DEF Pcs, Ops
    <2>3. \/ \E a \in {"LOCKED", "UNLOCKED"} : Begin(c, q("set", a))
          \/ Begin(c, q("shut", "SHUTTING_DOWN"))
          \/ Begin(c, l)
      BY DEF _set_adminState, releaseObject
    <2> HIDE DEF q, l
    <2> QED BY <2>1, <2>2, <2>3 DEF Ops, Texts
  <1>4. /\ call' \in [Clients -> Calls \cup {None}]
        /\ call[c] = None /\ call'[c] = r /\ OnlyCall(c)
    BY <1>3, BeginType
  <1>5. TypeOK'
    BY <1>1, <1>2, <1>4 DEF TypeOK, capacities
  <1> QED BY <1>1, <1>3, <1>4, <1>5 DEF OffLock, Locked, At

\* The release goes on, and an administrative state is sent and stored.
LEMMA AdminCalls ==
    ASSUME DeviceConstants, TypeOK, CallsSound, NEW c \in Clients,
           releaseChildren(c) \/ sendAdmin(c) \/ storeAdmin(c)
    PROVE  /\ TypeOK' /\ OffLock(c)
           /\ call'[c] # None => call'[c].pc \in {"sendAdmin", "storeAdmin", "release"}
  <1>1. /\ call[c] # None /\ call[c] \in Calls /\ UNCHANGED <<capacities, lock>>
        /\ UNCHANGED <<usage, mixed, closing>>
        /\ call[c].pc \in {"release", "sendAdmin", "storeAdmin"} /\ ~Locked(c)
    BY DEF releaseChildren, sendAdmin, storeAdmin, At, states, TypeOK, capacities, Locked
  <1>2. crossed' \in BOOLEAN /\ released' \in BOOLEAN
    BY DEF releaseChildren, sendAdmin, storeAdmin, Others, TypeOK
  <1>3. admin' \in Texts /\ heard' \in Texts /\ untold' \in BOOLEAN
    BY <1>1 DEF releaseChildren, sendAdmin, storeAdmin, TypeOK, Calls
  <1>4. /\ call' \in [Clients -> Calls \cup {None}] /\ OnlyCall(c)
        /\ call'[c] # None => call'[c].pc \in {"sendAdmin", "storeAdmin", "release"}
    <2>1. CASE Return(c)
      BY <2>1, ReturnType
    <2>2. ASSUME NEW to \in {"storeAdmin", "release"}, Goto(c, to)
          PROVE  /\ call' \in [Clients -> Calls \cup {None}] /\ OnlyCall(c)
                 /\ call'[c] # None => call'[c].pc \in {"sendAdmin", "storeAdmin", "release"}
      BY <1>1, <2>2, GotoType DEF Pcs
    <2>3. CASE call' = [call EXCEPT ![c].pc = "sendAdmin", ![c].op = "lock", ![c].to = "LOCKED"]
      <3> DEFINE r == [call[c] EXCEPT !.pc = "sendAdmin", !.op = "lock", !.to = "LOCKED"]
      <3>1. call' = [call EXCEPT ![c] = r]
        BY <2>3
      <3>2. r \in Calls /\ r.pc = "sendAdmin"
        BY <1>1 DEF Calls, Pcs, Ops, Texts
      <3> HIDE DEF r
      <3> QED BY <3>1, <3>2 DEF TypeOK, OnlyCall
    <2>4. \/ Return(c) \/ Goto(c, "storeAdmin") \/ Goto(c, "release")
          \/ call' = [call EXCEPT ![c].pc = "sendAdmin", ![c].op = "lock", ![c].to = "LOCKED"]
      BY DEF releaseChildren, sendAdmin, storeAdmin
    <2> QED BY <2>1, <2>2, <2>3, <2>4
  <1>5. TypeOK'
    BY <1>1, <1>2, <1>3, <1>4 DEF TypeOK, capacities
  <1> QED BY <1>1, <1>4, <1>5 DEF OffLock

----------------------------------------------------------------------------
(* Units.                                                                  *)

HoldingsOf(h, p) == {u \in Clients \X (1 .. Capacity) : u[2] <= h[u[1]][p]}
OfOthers(h, p, c) == {u \in HoldingsOf(h, p) : u[1] # c}

\* The units that clients hold are those of one client and those of the others.
LEMMA HoldingsSplit ==
    ASSUME DeviceConstants, NEW h, NEW p, NEW c \in Clients, h[c][p] \in 0 .. Capacity
    PROVE  /\ Cardinality(OfOthers(h, p, c)) \in Nat
           /\ Cardinality(HoldingsOf(h, p)) = Cardinality(OfOthers(h, p, c)) + h[c][p]
  <1> DEFINE others == OfOthers(h, p, c)
             n == h[c][p]
             mine == {c} \X (1 .. n)
  <1>1. Capacity \in Nat /\ n \in Nat /\ n <= Capacity
    BY DEF DeviceConstants
  <1>2. IsFiniteSet(Clients \X (1 .. Capacity))
    <2>1. IsFiniteSet(1 .. Capacity)
      BY <1>1, FS_Interval
    <2> QED BY <2>1, FS_Product DEF DeviceConstants
  <1>3. others \subseteq Clients \X (1 .. Capacity)
    BY DEF HoldingsOf, OfOthers
  <1>4. IsFiniteSet(others) /\ Cardinality(others) \in Nat
    BY <1>2, <1>3, FS_Subset, FS_CardinalityType
  <1>5. IsFiniteSet(1 .. n) /\ Cardinality(1 .. n) = n
    <2> HIDE DEF n
    <2>1. n \in Nat
      BY <1>1
    <2>2. IsFiniteSet(1 .. n) /\ Cardinality(1 .. n) = IF 1 > n THEN 0 ELSE n - 1 + 1
      BY <2>1, FS_Interval
    <2> QED BY <2>1, <2>2
  <1>6. IsFiniteSet(mine) /\ Cardinality(mine) = n
    <2> HIDE DEF n
    <2>1. IsFiniteSet({c}) /\ Cardinality({c}) = 1
      BY FS_Singleton
    <2>2. IsFiniteSet(mine) /\ Cardinality(mine) = Cardinality({c}) * Cardinality(1 .. n)
      BY <1>5, <2>1, FS_Product
    <2> QED BY <1>1, <1>5, <2>1, <2>2
  <1>7. HoldingsOf(h, p) = others \cup mine
    <2>1. ASSUME NEW u \in HoldingsOf(h, p), u[1] = c PROVE u \in mine
      <3>1. u = <<u[1], u[2]>> /\ u[2] \in 1 .. Capacity /\ u[2] <= n
        BY <2>1 DEF HoldingsOf
      <3>2. u[2] \in 1 .. n
        BY <1>1, <3>1
      <3> QED BY <2>1, <3>1, <3>2
    <2>2. ASSUME NEW u \in mine PROVE u \in HoldingsOf(h, p)
      <3>1. u[1] = c /\ u[2] \in 1 .. n /\ u = <<u[1], u[2]>>
        OBVIOUS
      <3>2. u[2] \in 1 .. Capacity /\ u[2] <= n
        BY <1>1, <3>1
      <3> QED BY <3>1, <3>2 DEF HoldingsOf
    <2> QED BY <2>1, <2>2 DEF OfOthers
  <1>8. others \cap mine = {}
    BY DEF OfOthers
  <1>9. Cardinality(others \cup mine) = Cardinality(others) + Cardinality(mine) - Cardinality({})
    <2> HIDE DEF others, mine
    <2>1. Cardinality(others \cup mine)
            = Cardinality(others) + Cardinality(mine) - Cardinality(others \cap mine)
      BY <1>4, <1>6, FS_Union
    <2> QED BY <1>8, <2>1
  <1> QED BY <1>1, <1>4, <1>6, <1>7, <1>9, FS_EmptySet

\* There is one at most.
LEMMA OneAtMost ==
    ASSUME NEW S, NEW c, S \subseteq {c}
    PROVE  Cardinality(S) = IF c \in S THEN 1 ELSE 0
  <1>1. CASE c \in S
    <2>1. S = {c}
      BY <1>1
    <2> QED BY <2>1, FS_Singleton
  <1>2. CASE ~(c \in S)
    <2>1. S = {}
      BY <1>2
    <2> QED BY <1>2, <2>1, FS_EmptySet
  <1> QED BY <1>1, <1>2

\* The part of CapacityInv that the units are about.
UnitsKept == WithinCapacity /\ CapacityConserved

\* A step that changes no count, of a call that has no units it may give back.
LEMMA StillUnits ==
    ASSUME UnitsKept, NEW c \in Clients, OnlyCall(c),
           UNCHANGED <<used, held, leaked>>,
           \A p \in Props : c \notin Taking(p) /\ c \notin Taking(p)'
    PROVE  UnitsKept'
  <1>1. WithinCapacity'
    BY DEF UnitsKept, WithinCapacity
  <1>2. ASSUME NEW p \in Props PROVE Holdings(p)' = Holdings(p) /\ Taking(p)' = Taking(p)
    <2>1. Holdings(p)' = Holdings(p)
      BY DEF Holdings
    <2>2. ASSUME NEW d \in Clients \ {c} PROVE d \in Taking(p)' <=> d \in Taking(p)
      BY DEF Taking, OnlyCall
    <2>3. Taking(p)' \subseteq Clients /\ Taking(p) \subseteq Clients
      BY DEF Taking
    <2>4. c \notin Taking(p)' /\ c \notin Taking(p)
      OBVIOUS
    <2> DEFINE T == Taking(p)
               U == Taking(p)'
    <2> HIDE DEF T, U
    <2>5. U = T
      BY <2>2, <2>3, <2>4 DEF T, U
    <2> QED BY <2>1, <2>5 DEF T, U
  <1>3. CapacityConserved'
    BY <1>2 DEF UnitsKept, CapacityConserved
  <1> QED BY <1>1, <1>3 DEF UnitsKept

\* What the identity of CapacityConserved says of one property.
LEMMA UnitsOf ==
    ASSUME DeviceConstants, CallsSound, UnitsKept, TypeOK, NEW p \in Props, NEW c \in Clients,
           Locked(c)
    PROVE  LET others == Cardinality(OfOthers(held, p, c))
               one == IF c \in Taking(p) THEN 1 ELSE 0
           IN  /\ others \in Nat /\ held[c][p] \in 0 .. Capacity
               /\ used[p] = leaked[p] + others + held[c][p] + one
               /\ used[p] <= Capacity /\ leaked[p] \in Nat
               /\ Cardinality(HoldingsOf(held, p)) = others + held[c][p]
  <1> DEFINE others == Cardinality(OfOthers(held, p, c))
             all == Cardinality(HoldingsOf(held, p))
             one == IF c \in Taking(p) THEN 1 ELSE 0
  <1>1. held[c][p] \in 0 .. Capacity /\ used[p] = leaked[p] + all + Cardinality(Taking(p))
    BY DEF UnitsKept, CapacityConserved, Holdings, HoldingsOf
  <1>2. others \in Nat /\ all = others + held[c][p]
    BY <1>1, HoldingsSplit
  <1>3. Cardinality(Taking(p)) = one
    <2>1. Taking(p) \subseteq {c}
      BY DEF CallsSound, CallSound, Locked, At, Taking
    <2> QED BY <2>1, OneAtMost
  <1>4. used[p] <= Capacity /\ leaked[p] \in Nat
    BY DEF UnitsKept, WithinCapacity, TypeOK
  <1> HIDE DEF others, all
  <1>5. held[c][p] \in Int
    BY DEF TypeOK
  <1>6. used[p] = leaked[p] + others + held[c][p] + one
    BY <1>1, <1>2, <1>3, <1>4, <1>5
  <1> QED BY <1>1, <1>2, <1>4, <1>6 DEF others, all

\* To have it again after a step of the call that has the lock.
LEMMA UnitsOfNext ==
    ASSUME DeviceConstants, TypeOK', CallsSound', NEW c \in Clients, NEW p \in Props,
           lock' \in {c, None},
           \A d \in Clients \ {c} : held'[d] = held[d],
           \A d \in Clients : held[d][p] \in 0 .. Capacity,
           held'[c][p] \in 0 .. Capacity,
           used'[p] = leaked'[p] + Cardinality(OfOthers(held, p, c)) + held'[c][p]
                        + (IF c \in Taking(p)' THEN 1 ELSE 0)
    PROVE  /\ \A d \in Clients : held'[d][p] \in 0 .. Capacity
           /\ used'[p] = leaked'[p] + Cardinality(Holdings(p)') + Cardinality(Taking(p)')
  <1> DEFINE others == Cardinality(OfOthers(held, p, c))
             all == Cardinality(Holdings(p)')
             one == IF c \in Taking(p)' THEN 1 ELSE 0
  <1>1. \A d \in Clients : held'[d][p] \in 0 .. Capacity
    OBVIOUS
  <1>2. OfOthers(held', p, c) = OfOthers(held, p, c)
    BY DEF OfOthers, HoldingsOf
  <1>3. others \in Nat /\ all = others + held'[c][p]
    <2>1. /\ Cardinality(OfOthers(held', p, c)) \in Nat
          /\ Cardinality(HoldingsOf(held', p)) = Cardinality(OfOthers(held', p, c)) + held'[c][p]
      BY HoldingsSplit
    <2> QED BY <1>2, <2>1 DEF Holdings, HoldingsOf
  <1>4. Cardinality(Taking(p)') = one
    <2>1. Taking(p)' \subseteq {c}
      BY DEF CallsSound, CallSound, Locked, At, Taking, DeviceConstants
    <2> QED BY <2>1, OneAtMost
  <1>5. leaked'[p] \in Nat /\ held'[c][p] \in Int /\ one \in Nat
    BY DEF TypeOK
  <1> HIDE DEF others, all, one
  <1>6. used'[p] = leaked'[p] + all + one
    BY <1>3, <1>5 DEF one, others
  <1> QED BY <1>1, <1>4, <1>6 DEF all

----------------------------------------------------------------------------
(* The units through every step.                                           *)

\* A step outside of the lock.
LEMMA OffLockUnits ==
    ASSUME DeviceConstants, UnitsKept, NEW c \in Clients, OffLock(c)
    PROVE  UnitsKept'
  <1>1. \A p \in Props : c \notin Taking(p) /\ c \notin Taking(p)'
    BY DEF OffLock, Taking, Locked, At
  <1> QED BY <1>1, StillUnits DEF OffLock, capacities

\* A call that begins, or gets the lock, has no units yet.
LEMMA EnterUnits ==
    ASSUME UnitsKept, NEW c \in Clients, OnlyCall(c), UNCHANGED capacities,
           call[c] = None \/ At(c, "acquire"), call'[c] # None, call'[c].got = {}
    PROVE  UnitsKept'
  <1>1. \A p \in Props : c \notin Taking(p) /\ c \notin Taking(p)'
    BY DEF Taking, At
  <1> QED BY <1>1, StillUnits DEF capacities

\* One property: the unit that is taken is one the call may give back.
LEMMA EachUnits ==
    ASSUME DeviceConstants, TypeOK, TypeOK', CallsSound, CallsSound', UnitsKept,
           NEW c \in Clients, NEW q \in Props, _allocateCapacity(c, q)
    PROVE  UnitsKept'
  <1>1. /\ call[c] # None /\ call[c] \in Calls /\ call[c].pc = "each" /\ q \in call[c].todo
        /\ UNCHANGED <<held, leaked, lock>> /\ Locked(c) /\ lock = c
        /\ call[c].todo \cap call[c].got = {}
    BY DEF _allocateCapacity, At, TypeOK, CallsSound, CallSound, Locked
  <1>2. ASSUME NEW p \in Props
        PROVE  /\ used'[p] <= Capacity
               /\ used'[p] = leaked'[p] + Cardinality(OfOthers(held, p, c)) + held'[c][p]
                               + (IF c \in Taking(p)' THEN 1 ELSE 0)
    <2> DEFINE others == Cardinality(OfOthers(held, p, c))
    <2>1. /\ others \in Nat /\ held[c][p] \in 0 .. Capacity
          /\ used[p] = leaked[p] + others + held[c][p] + (IF c \in Taking(p) THEN 1 ELSE 0)
          /\ used[p] <= Capacity /\ leaked[p] \in Nat
      BY <1>1, UnitsOf
    <2> HIDE DEF others
    <2>2. c \in Taking(p) <=> p \in call[c].got
      BY <1>1 DEF Taking
    <2>3. CASE used[q] < Capacity
      <3>1. /\ used' = [used EXCEPT ![q] = @ + 1] /\ call'[c] # None
            /\ call'[c].pc = "each" /\ call'[c].got = call[c].got \cup {q}
        BY <1>1, <2>3 DEF _allocateCapacity, TypeOK, Calls, DeviceConstants
      <3>2. c \in Taking(p)' <=> p \in call[c].got \cup {q}
        BY <3>1 DEF Taking
      <3>3. used[p] \in Int /\ used[q] \in Int /\ held[c][p] \in Int /\ Capacity \in Nat
        BY DEF TypeOK, DeviceConstants
      <3>4. CASE p = q
        <4>1. ~(c \in Taking(p)) /\ c \in Taking(p)'
          BY <1>1, <2>2, <3>2, <3>4
        <4>2. used'[p] = used[p] + 1
          BY <3>1, <3>4 DEF TypeOK
        <4> QED BY <1>1, <2>1, <2>3, <3>3, <3>4, <4>1, <4>2 DEF others
      <3>5. CASE p # q
        <4>1. c \in Taking(p)' <=> c \in Taking(p)
          BY <2>2, <3>2, <3>5
        <4>2. used'[p] = used[p]
          BY <3>1, <3>5 DEF TypeOK
        <4> QED BY <1>1, <2>1, <4>1, <4>2 DEF others
      <3> QED BY <3>4, <3>5
    <2>4. CASE ~(used[q] < Capacity)
      <3>1. used' = used /\ Goto(c, "rollback")
        BY <2>4 DEF _allocateCapacity
      <3>2. call'[c].pc = "rollback" /\ Fields(c)
        BY <1>1, <3>1, GotoType DEF Pcs
      <3>3. c \in Taking(p)' <=> c \in Taking(p)
        BY <2>2, <3>2 DEF Taking, Fields
      <3> QED BY <1>1, <2>1, <3>1, <3>3 DEF others
    <2> QED BY <2>3, <2>4
  <1>3. ASSUME NEW p \in Props
        PROVE  /\ \A d \in Clients : held'[d][p] \in 0 .. Capacity
               /\ used'[p] = leaked'[p] + Cardinality(Holdings(p)') + Cardinality(Taking(p)')
    <2>1. \A d \in Clients : held[d][p] \in 0 .. Capacity
      BY DEF UnitsKept, CapacityConserved
    <2> QED BY <1>1, <1>2, <2>1, UnitsOfNext
  <1> QED BY <1>2, <1>3 DEF UnitsKept, WithinCapacity, CapacityConserved

\* The end of an allocation: units that were taken are held, given back or lost.
LEMMA EndUnits ==
    ASSUME DeviceConstants, TypeOK, TypeOK', CallsSound, CallsSound', UnitsKept,
           NEW c \in Clients, _allocateCapacities(c)
    PROVE  UnitsKept'
  <1>1. /\ call[c] # None /\ call[c] \in Calls /\ lock' = None /\ Locked(c)
        /\ call[c].pc \in {"each", "rollback"} /\ call[c].got \in SUBSET Props
    BY DEF _allocateCapacities, Raises, At, TypeOK, Locked, Calls
  <1>2. \/ /\ Goto(c, "sendUsage")
           /\ held' = [held EXCEPT ![c] = Plus(@, call[c].got)]
           /\ UNCHANGED <<used, leaked>>
        \/ /\ used' = Rollback(c) /\ Goto(c, "sendUsage")
           /\ UNCHANGED <<held, leaked>>
        \/ \E returned \in SUBSET call[c].got :
             /\ used' = Minus(used, returned) /\ Return(c)
             /\ leaked' = Plus(leaked, call[c].got \ returned) /\ held' = held
    BY Zenon DEF _allocateCapacities
  <1>3. call'[c] = None \/ (call'[c] # None /\ call'[c].pc = "sendUsage")
    BY <1>1, <1>2, GotoType, ReturnType DEF Pcs
  <1>4. \A d \in Clients \ {c} : held'[d] = held[d]
    BY <1>2 DEF TypeOK
  <1>5. ASSUME NEW p \in Props
        PROVE  /\ used'[p] <= Capacity /\ held'[c][p] \in 0 .. Capacity
               /\ used'[p] = leaked'[p] + Cardinality(OfOthers(held, p, c)) + held'[c][p]
                               + (IF c \in Taking(p)' THEN 1 ELSE 0)
    <2> DEFINE others == Cardinality(OfOthers(held, p, c))
               one == IF p \in call[c].got THEN 1 ELSE 0
    <2>1. c \in Taking(p) <=> p \in call[c].got
      BY <1>1 DEF Taking
    <2>2. /\ others \in Nat /\ held[c][p] \in 0 .. Capacity
          /\ used[p] = leaked[p] + others + held[c][p] + one
          /\ used[p] <= Capacity /\ leaked[p] \in Nat
      BY <1>1, <2>1, UnitsOf
    <2>3. ~(c \in Taking(p)')
      BY <1>3 DEF Taking
    <2>4. one \in {0, 1} /\ used[p] \in Int /\ held[c][p] \in Int /\ Capacity \in Nat
      BY DEF TypeOK, DeviceConstants
    <2>5. CASE /\ held' = [held EXCEPT ![c] = Plus(@, call[c].got)]
               /\ UNCHANGED <<used, leaked>>
      <3>1. held'[c][p] = held[c][p] + one
        BY <2>5 DEF TypeOK, Plus
      <3> HIDE DEF others, one
      <3> QED BY <2>2, <2>3, <2>4, <2>5, <3>1 DEF others
    <2>6. CASE used' = Rollback(c) /\ UNCHANGED <<held, leaked>>
      <3>1. used'[p] = used[p] - one
        BY <2>6 DEF TypeOK, Rollback, Minus
      <3> HIDE DEF others, one
      <3> QED BY <2>2, <2>3, <2>4, <2>6, <3>1 DEF others
    <2>7. ASSUME NEW returned \in SUBSET call[c].got, used' = Minus(used, returned),
                 leaked' = Plus(leaked, call[c].got \ returned), held' = held
          PROVE  /\ used'[p] <= Capacity /\ held'[c][p] \in 0 .. Capacity
                 /\ used'[p] = leaked'[p] + others + held'[c][p]
                                 + (IF c \in Taking(p)' THEN 1 ELSE 0)
      <3> DEFINE back == IF p \in returned THEN 1 ELSE 0
      <3>1. leaked'[p] = leaked[p] + one - back /\ used'[p] = used[p] - back
        BY <2>7 DEF TypeOK, Plus, Minus
      <3>2. back \in {0, 1}
        OBVIOUS
      <3> HIDE DEF others, one, back
      <3> QED BY <2>2, <2>3, <2>4, <2>7, <3>1, <3>2
    <2> QED BY <1>2, <2>5, <2>6, <2>7
  <1>6. ASSUME NEW p \in Props
        PROVE  /\ \A d \in Clients : held'[d][p] \in 0 .. Capacity
               /\ used'[p] = leaked'[p] + Cardinality(Holdings(p)') + Cardinality(Taking(p)')
    <2>1. \A d \in Clients : held[d][p] \in 0 .. Capacity
      BY DEF UnitsKept, CapacityConserved
    <2> QED BY <1>1, <1>4, <1>5, <2>1, UnitsOfNext
  <1> QED BY <1>5, <1>6 DEF UnitsKept, WithinCapacity, CapacityConserved

\* A deallocation gives back what its client holds, or nothing.
LEMMA FreeUnits ==
    ASSUME DeviceConstants, TypeOK, TypeOK', CallsSound, CallsSound', UnitsKept,
           NEW c \in Clients, _deallocateCapacities(c)
    PROVE  UnitsKept'
  <1>1. /\ call[c] # None /\ call[c] \in Calls /\ call[c].pc = "free" /\ lock' = None /\ Locked(c)
        /\ call[c].todo \in SUBSET Props /\ leaked' = leaked
        /\ \A p \in call[c].todo : held[c][p] > 0
    BY DEF _deallocateCapacities, Unlock, At, TypeOK, Locked, Calls, CallsSound, CallSound
  <1>2. PICK returned \in SUBSET call[c].todo :
          /\ used' = Minus(used, returned) /\ (Goto(c, "sendUsage") \/ Return(c))
          /\ held' = [held EXCEPT ![c] = Minus(@, returned)]
    BY Zenon DEF _deallocateCapacities
  <1>3. call'[c] = None \/ (call'[c] # None /\ call'[c].pc = "sendUsage")
    BY <1>1, <1>2, GotoType, ReturnType DEF Pcs
  <1>4. \A d \in Clients \ {c} : held'[d] = held[d]
    BY <1>2 DEF TypeOK
  <1>5. ASSUME NEW p \in Props
        PROVE  /\ used'[p] <= Capacity /\ held'[c][p] \in 0 .. Capacity
               /\ used'[p] = leaked'[p] + Cardinality(OfOthers(held, p, c)) + held'[c][p]
                               + (IF c \in Taking(p)' THEN 1 ELSE 0)
    <2> DEFINE others == Cardinality(OfOthers(held, p, c))
               one == IF p \in returned THEN 1 ELSE 0
    <2>1. ~(c \in Taking(p)) /\ ~(c \in Taking(p)')
      BY <1>1, <1>3 DEF Taking
    <2>2. /\ others \in Nat /\ held[c][p] \in 0 .. Capacity
          /\ used[p] = leaked[p] + others + held[c][p]
          /\ used[p] <= Capacity /\ leaked[p] \in Nat
      <3>1. /\ others \in Nat /\ held[c][p] \in 0 .. Capacity
            /\ used[p] = leaked[p] + others + held[c][p] + 0
            /\ used[p] <= Capacity /\ leaked[p] \in Nat
        BY <1>1, <2>1, UnitsOf
      <3> HIDE DEF others
      <3>2. held[c][p] \in Int
        BY DEF TypeOK
      <3> QED BY <3>1, <3>2
    <2>3. one \in {0, 1} /\ used[p] \in Int /\ held[c][p] \in Int /\ Capacity \in Nat
          /\ one <= held[c][p]
      <3>1. held[c][p] \in 0 .. Capacity /\ (p \in call[c].todo => held[c][p] > 0)
        BY <1>1, <2>2
      <3> QED BY <3>1 DEF TypeOK, DeviceConstants
    <2>4. used'[p] = used[p] - one /\ held'[c][p] = held[c][p] - one
      BY <1>2 DEF TypeOK, Minus
    <2> HIDE DEF others, one
    <2> QED BY <1>1, <2>1, <2>2, <2>3, <2>4 DEF others
  <1>6. ASSUME NEW p \in Props
        PROVE  /\ \A d \in Clients : held'[d][p] \in 0 .. Capacity
               /\ used'[p] = leaked'[p] + Cardinality(Holdings(p)') + Cardinality(Taking(p)')
    <2>1. \A d \in Clients : held[d][p] \in 0 .. Capacity
      BY DEF UnitsKept, CapacityConserved
    <2> QED BY <1>1, <1>4, <1>5, <2>1, UnitsOfNext
  <1> QED BY <1>5, <1>6 DEF UnitsKept, WithinCapacity, CapacityConserved

\* At the start every count is zero.
LEMMA CapacityInit ==
    ASSUME DeviceConstants, Init
    PROVE  CapacityInv
  <1>1. TypeOK
    <2>1. Nothing \in [Props -> Nat] /\ Nothing \in [Props -> Int]
      BY DEF Nothing
    <2>2. held \in [Clients -> [Props -> Int]] /\ call \in [Clients -> Calls \cup {None}]
      BY <2>1 DEF Init
    <2>3. /\ used \in [Props -> Int] /\ leaked \in [Props -> Nat]
          /\ usage \in Texts /\ admin \in Texts /\ heard \in Texts
          /\ lock \in Clients \cup {None}
      BY <2>1 DEF Init, Texts
    <2>4. untold \in BOOLEAN /\ mixed \in BOOLEAN /\ crossed \in BOOLEAN /\ closing \in BOOLEAN /\ released \in BOOLEAN
      BY DEF Init
    <2> QED BY <2>2, <2>3, <2>4 DEF TypeOK
  <1>2. CallsSound
    BY DEF Init, CallsSound, CallSound, Locked, At, DeviceConstants
  <1>3. WithinCapacity
    BY DEF Init, WithinCapacity, Nothing, DeviceConstants
  <1>4. ASSUME NEW p \in Props
        PROVE  /\ \A c \in Clients : held[c][p] \in 0 .. Capacity
               /\ used[p] = leaked[p] + Cardinality(Holdings(p)) + Cardinality(Taking(p))
    <2>1. Holdings(p) = {} /\ Taking(p) = {}
      BY DEF Init, Holdings, Taking, Nothing
    <2>2. \A c \in Clients : held[c][p] \in 0 .. Capacity
      BY DEF Init, Nothing, DeviceConstants
    <2>3. used[p] = 0 /\ leaked[p] = 0
      BY DEF Init, Nothing
    <2>4. Cardinality(Holdings(p)) = 0 /\ Cardinality(Taking(p)) = 0
      BY <2>1, FS_EmptySet, Zenon
    <2> QED BY <2>2, <2>3, <2>4
  <1> QED BY <1>1, <1>2, <1>3, <1>4 DEF CapacityInv, CapacityConserved

\* Every step keeps them.
LEMMA CapacityStep ==
    ASSUME DeviceConstants, CapacityInv, [Next]_vars
    PROVE  CapacityInv'
  <1>1. TypeOK /\ CallsSound /\ UnitsKept
    BY DEF CapacityInv, UnitsKept
  <1>2. SUFFICES TypeOK' /\ CallsSound' /\ UnitsKept'
    BY DEF CapacityInv, UnitsKept
  <1>3. CASE UNCHANGED vars
    <2>1. TypeOK'
      BY <1>1, <1>3 DEF vars, TypeOK
    <2>2. CallsSound'
      BY <1>1, <1>3 DEF vars, CallsSound, CallSound, Locked, At
    <2>3. UnitsKept'
      BY <1>1, <1>3 DEF vars, UnitsKept, WithinCapacity, CapacityConserved, Holdings, Taking
    <2> QED BY <2>1, <2>2, <2>3
  <1>4. ASSUME NEW c \in Clients, OffLock(c), TypeOK'
        PROVE  TypeOK' /\ CallsSound' /\ UnitsKept'
    BY <1>1, <1>4, OffLockSound, OffLockUnits
  <1>5. ASSUME NEW c \in Clients, NEW S \in SUBSET Props,
               allocateCapacity(c, S) \/ deallocateCapacity(c, S)
        PROVE  TypeOK' /\ CallsSound' /\ UnitsKept'
    <2>1. TypeOK' /\ CallsSound'
      BY <1>1, <1>5, BeginCapacity
    <2>2. PICK op \in {"allocate", "deallocate"} : Begin(c, Call("acquire", op, S))
      BY <1>5 DEF allocateCapacity, deallocateCapacity
    <2> DEFINE r == Call("acquire", op, S)
    <2>3. r \in Calls /\ r.got = {}
      BY CallType DEF Pcs, Ops
    <2> HIDE DEF r
    <2>4. call[c] = None /\ call'[c] = r /\ r # None /\ OnlyCall(c)
      BY <1>1, <2>2, <2>3, BeginType DEF r
    <2>5. UNCHANGED capacities
      BY <1>5 DEF allocateCapacity, deallocateCapacity
    <2> QED BY <1>1, <2>1, <2>3, <2>4, <2>5, EnterUnits
  <1>6. ASSUME NEW c \in Clients, acquire(c)
        PROVE  TypeOK' /\ CallsSound' /\ UnitsKept'
    <2>1. TypeOK' /\ CallsSound'
      BY <1>1, <1>6, AcquireCalls
    <2>2. /\ At(c, "acquire") /\ UNCHANGED capacities
          /\ Goto(c, IF call[c].op = "allocate" THEN "each" ELSE "free")
      BY <1>6 DEF acquire
    <2>3. call[c] # None /\ call[c].got = {}
      BY <1>1, <2>2 DEF CallsSound, CallSound, At
    <2>4. OnlyCall(c) /\ Fields(c)
      <3> DEFINE pc == IF call[c].op = "allocate" THEN "each" ELSE "free"
      <3>1. pc \in Pcs
        BY DEF Pcs
      <3> HIDE DEF pc
      <3>2. Goto(c, pc)
        BY <2>2 DEF pc
      <3> QED BY <1>1, <2>3, <3>1, <3>2, GotoType
    <2> QED BY <1>1, <2>1, <2>2, <2>3, <2>4, EnterUnits DEF Fields
  <1>7. ASSUME NEW c \in Clients, NEW p \in Props, _allocateCapacity(c, p)
        PROVE  TypeOK' /\ CallsSound' /\ UnitsKept'
    BY <1>1, <1>7, EachCalls, EachUnits
  <1>8. ASSUME NEW c \in Clients, _allocateCapacities(c)
        PROVE  TypeOK' /\ CallsSound' /\ UnitsKept'
    BY <1>1, <1>8, EndCalls, EndUnits
  <1>9. ASSUME NEW c \in Clients, _deallocateCapacities(c)
        PROVE  TypeOK' /\ CallsSound' /\ UnitsKept'
    BY <1>1, <1>9, FreeCalls, FreeUnits
  <1>10. ASSUME NEW c \in Clients,
                \/ updateUsageState(c) \/ storeUsage(c)
                \/ releaseChildren(c) \/ sendAdmin(c) \/ storeAdmin(c) \/ releaseObject(c)
                \/ \E a \in {"LOCKED", "UNLOCKED"} : _set_adminState(c, a)
         PROVE  TypeOK' /\ CallsSound' /\ UnitsKept'
    <2>1. TypeOK' /\ OffLock(c)
      <3>1. CASE updateUsageState(c) \/ storeUsage(c)
        BY <1>1, <3>1, UsageCalls
      <3>2. CASE releaseChildren(c) \/ sendAdmin(c) \/ storeAdmin(c)
        BY <1>1, <3>2, AdminCalls
      <3>3. CASE (\E a \in {"LOCKED", "UNLOCKED"} : _set_adminState(c, a)) \/ releaseObject(c)
        BY <1>1, <3>3, AdminBegins
      <3> QED BY <1>10, <3>1, <3>2, <3>3
    <2> QED BY <2>1, <1>4
  <1>11. ASSUME NEW c \in Clients, Step(c)
         PROVE  TypeOK' /\ CallsSound' /\ UnitsKept'
    BY <1>6, <1>7, <1>8, <1>9, <1>10, <1>11 DEF Step
  <1> QED BY <1>3, <1>5, <1>10, <1>11 DEF Next

----------------------------------------------------------------------------
(* The usage state.                                                        *)

\* A call that is not going to store a usage state, nor has taken a unit.
Settled(c) ==
    /\ ~At(c, "sendUsage") /\ ~At(c, "storeUsage")
    /\ (At(c, "each") \/ At(c, "rollback")) => call[c].got = {}

\* As long as assignments do not overlap, one that is about to store has the
\* usage of the units as they are, and with none under way it is stored.
UsageInv ==
    ~mixed => /\ \A c \in Clients : At(c, "storeUsage") => call[c].to = Usage(used)
              /\ (\A c \in Clients : Settled(c)) => usage = Usage(used)

\* A step that changes neither the units nor the usage state.
LEMMA UsageStill ==
    ASSUME UsageInv, NEW c \in Clients, OnlyCall(c), UNCHANGED <<used, usage>>,
           ~At(c, "storeUsage")',
           ~mixed' => ~mixed /\ (Settled(c)' => Settled(c))
    PROVE  UsageInv'
  <1>1. SUFFICES ASSUME ~mixed'
                 PROVE  /\ \A d \in Clients : At(d, "storeUsage")' => call'[d].to = Usage(used)
                        /\ (\A d \in Clients : Settled(d)') => usage = Usage(used)
    BY DEF UsageInv, Usage
  <1>2. ASSUME NEW d \in Clients \ {c}
        PROVE  /\ At(d, "storeUsage")' => At(d, "storeUsage") /\ call'[d].to = call[d].to
               /\ Settled(d)' => Settled(d)
    BY DEF OnlyCall, At, Settled
  <1>3. ASSUME NEW d \in Clients, At(d, "storeUsage")' PROVE call'[d].to = Usage(used)
    BY <1>1, <1>2, <1>3 DEF UsageInv
  <1>4. ASSUME \A d \in Clients : Settled(d)' PROVE usage = Usage(used)
    BY <1>1, <1>2, <1>4 DEF UsageInv
  <1> QED BY <1>3, <1>4

\* A step that changes the units, and after which its call works out the usage,
\* or may have to give units back.
LEMMA UsageMoves ==
    ASSUME NEW c \in Clients, OnlyCall(c), ~At(c, "storeUsage")', ~Settled(c)',
           ~mixed' => ~Others(c, {"sendUsage", "storeUsage"})
    PROVE  UsageInv'
  <1>1. ASSUME ~mixed', NEW d \in Clients, At(d, "storeUsage")' PROVE FALSE
    BY <1>1 DEF OnlyCall, At, Others
  <1> QED BY <1>1 DEF UsageInv

\* The steps at the lock.
LEMMA UsageAtLock ==
    ASSUME DeviceConstants, TypeOK, CallsSound, UsageInv, NEW c \in Clients,
           \/ acquire(c) \/ _allocateCapacities(c) \/ _deallocateCapacities(c)
           \/ \E p \in Props : _allocateCapacity(c, p)
    PROVE  UsageInv'
  <1>1. call[c] # None /\ call[c] \in Calls /\ usage' = usage /\ CallSound(c)
    BY DEF acquire, _allocateCapacities, Raises, _deallocateCapacities, _allocateCapacity, At,
           states, TypeOK, CallsSound
  <1>2. CASE acquire(c)
    <2> DEFINE pc == IF call[c].op = "allocate" THEN "each" ELSE "free"
    <2>1. At(c, "acquire") /\ UNCHANGED <<used, mixed>> /\ Goto(c, pc)
      BY <1>2 DEF acquire, capacities
    <2>2. pc \in Pcs /\ pc \in {"each", "free"}
      BY DEF Pcs
    <2> HIDE DEF pc
    <2>3. OnlyCall(c) /\ call'[c].pc = pc /\ Fields(c)
      BY <1>1, <2>1, <2>2, GotoType
    <2>4. call[c].got = {}
      BY <1>1, <2>1 DEF CallSound
    <2>5. ~At(c, "storeUsage")' /\ Settled(c)
      BY <2>1, <2>2, <2>3 DEF At, Settled
    <2> QED BY <1>1, <2>1, <2>3, <2>5, UsageStill
  <1>3. ASSUME NEW p \in Props, _allocateCapacity(c, p) PROVE UsageInv'
    <2>1. call[c].pc = "each"
      BY <1>3 DEF _allocateCapacity, At
    <2>2. CASE used[p] < Capacity
      <3> DEFINE r == [call[c] EXCEPT !.todo = @ \ {p}, !.got = @ \cup {p}]
      <3>1. call' = [call EXCEPT ![c] = r] /\ mixed' = Mixes(c)
        BY <1>3, <2>2 DEF _allocateCapacity
      <3>2. r.pc = "each" /\ p \in r.got /\ r \in Calls
        BY <1>1, <2>1 DEF Calls
      <3> HIDE DEF r
      <3>3. OnlyCall(c) /\ call'[c] = r /\ r # None
        BY <3>1, <3>2 DEF OnlyCall, TypeOK, DeviceConstants
      <3>4. ~mixed' => ~Others(c, {"sendUsage", "storeUsage"})
        BY <3>1 DEF Mixes
      <3> QED BY <3>2, <3>3, <3>4, UsageMoves DEF At, Settled
    <2>3. CASE ~(used[p] < Capacity)
      <3>1. Goto(c, "rollback") /\ UNCHANGED <<used, mixed>>
        BY <1>3, <2>3 DEF _allocateCapacity
      <3>2. OnlyCall(c) /\ call'[c].pc = "rollback" /\ Fields(c)
        BY <1>1, <3>1, GotoType DEF Pcs
      <3>3. ~At(c, "storeUsage")' /\ (Settled(c)' => Settled(c))
        BY <1>1, <2>1, <3>2 DEF At, Settled, Fields
      <3> QED BY <1>1, <3>1, <3>2, <3>3, UsageStill
    <2> QED BY <2>2, <2>3
  <1>4. ASSUME Goto(c, "sendUsage"), ~mixed' => ~Others(c, {"sendUsage", "storeUsage"})
        PROVE  UsageInv'
    <2>1. OnlyCall(c) /\ call'[c].pc = "sendUsage" /\ Fields(c)
      BY <1>1, <1>4, GotoType DEF Pcs
    <2> QED BY <1>4, <2>1, UsageMoves DEF At, Settled, Fields
  <1>5. ASSUME Goto(c, "sendUsage"), UNCHANGED <<used, mixed>>
        PROVE  UsageInv'
    <2>1. OnlyCall(c) /\ call'[c].pc = "sendUsage" /\ Fields(c)
      BY <1>1, <1>5, GotoType DEF Pcs
    <2>2. ~At(c, "storeUsage")' /\ ~Settled(c)'
      BY <2>1 DEF At, Settled, Fields
    <2> QED BY <1>1, <1>5, <2>1, <2>2, UsageStill
  <1>6. ASSUME Return(c), NEW returned \in SUBSET Props, used' = Minus(used, returned),
               ~mixed' => ~mixed /\ returned = {} /\ Settled(c)
        PROVE  UsageInv'
    <2>1. OnlyCall(c) /\ call'[c] = None
      BY <1>6, ReturnType
    <2>2. ~At(c, "storeUsage")'
      BY <2>1 DEF At
    <2>3. CASE mixed'
      BY <2>3 DEF UsageInv
    <2>4. CASE ~mixed'
      <3>1. used' = used
        BY <1>6, <2>4 DEF Minus, TypeOK
      <3> QED BY <1>1, <1>6, <2>1, <2>2, <3>1, UsageStill
    <2> QED BY <2>3, <2>4
  <1>7. CASE _allocateCapacities(c)
    <2>1. \/ Goto(c, "sendUsage") /\ UNCHANGED <<used, mixed>>
          \/ Goto(c, "sendUsage") /\ mixed' = Mixes(c)
          \/ /\ At(c, "each") \/ At(c, "rollback")
             /\ \E returned \in SUBSET call[c].got :
                  used' = Minus(used, returned) /\ Return(c) /\ mixed' = (mixed \/ call[c].got # {})
      BY <1>7, Zenon DEF _allocateCapacities, Raises
    <2>2. CASE Goto(c, "sendUsage") /\ mixed' = Mixes(c)
      BY <1>4, <2>2 DEF Mixes
    <2>3. ASSUME At(c, "each") \/ At(c, "rollback"), NEW returned \in SUBSET call[c].got,
                 used' = Minus(used, returned), Return(c), mixed' = (mixed \/ call[c].got # {})
          PROVE  UsageInv'
      <3>1. ~mixed' => ~mixed /\ returned = {} /\ Settled(c)
        BY <2>3 DEF At, Settled
      <3>2. returned \in SUBSET Props
        BY <1>1 DEF Calls
      <3> QED BY <1>6, <2>3, <3>1, <3>2
    <2> QED BY <1>5, <2>1, <2>2, <2>3
  <1>8. CASE _deallocateCapacities(c)
    <2>1. \/ Goto(c, "sendUsage") /\ mixed' = Mixes(c)
          \/ /\ At(c, "free")
             /\ \E returned \in SUBSET call[c].todo :
                  used' = Minus(used, returned) /\ Return(c) /\ mixed' = (mixed \/ returned # {})
      BY <1>8, Zenon DEF _deallocateCapacities
    <2>2. CASE Goto(c, "sendUsage") /\ mixed' = Mixes(c)
      BY <1>4, <2>2 DEF Mixes
    <2>3. ASSUME At(c, "free"), NEW returned \in SUBSET call[c].todo,
                 used' = Minus(used, returned), Return(c), mixed' = (mixed \/ returned # {})
          PROVE  UsageInv'
      <3>1. ~mixed' => ~mixed /\ returned = {} /\ Settled(c)
        BY <2>3 DEF At, Settled
      <3>2. returned \in SUBSET Props
        BY <1>1 DEF Calls
      <3> QED BY <1>6, <2>3, <3>1, <3>2
    <2> QED BY <2>1, <2>2, <2>3
  <1> QED BY <1>2, <1>3, <1>7, <1>8

\* The usage state is worked out, from now on by this call alone ...
LEMMA UsageWorkedOut ==
    ASSUME DeviceConstants, TypeOK, NEW c \in Clients, updateUsageState(c)
    PROVE  UsageInv'
  <1> DEFINE r == [call[c] EXCEPT !.pc = "storeUsage", !.to = Usage(used)]
  <1>1. /\ call[c] # None /\ call[c] \in Calls /\ used' = used
        /\ call' = [call EXCEPT ![c] = r]
        /\ mixed' = Others(c, {"sendUsage", "storeUsage", "each", "rollback"})
    BY DEF updateUsageState, At, TypeOK, capacities
  <1>2. r # None /\ r.pc = "storeUsage" /\ r.to = Usage(used)
    <2>1. Usage(used) \in {"IDLE", "BUSY", "ACTIVE"}
      BY DEF Usage
    <2>2. r \in Calls
      BY <1>1, <2>1 DEF Calls, Pcs, Texts
    <2> QED BY <1>1, <2>2 DEF DeviceConstants, Calls
  <1> HIDE DEF r
  <1>3. call'[c] = r /\ OnlyCall(c)
    BY <1>1 DEF TypeOK, OnlyCall
  <1>4. SUFFICES ASSUME ~mixed'
                 PROVE  /\ \A d \in Clients : At(d, "storeUsage")' => call'[d].to = Usage(used)
                        /\ ~Settled(c)'
    BY <1>1 DEF UsageInv, Usage
  <1>5. ASSUME NEW d \in Clients \ {c} PROVE ~At(d, "storeUsage")'
    BY <1>1, <1>3, <1>4 DEF At, Others, OnlyCall
  <1>6. ~Settled(c)'
    BY <1>2, <1>3 DEF Settled, At
  <1> QED BY <1>2, <1>3, <1>5, <1>6

\* ... and stored.
LEMMA UsageStored ==
    ASSUME DeviceConstants, TypeOK, UsageInv, NEW c \in Clients, storeUsage(c)
    PROVE  UsageInv'
  <1>1. /\ At(c, "storeUsage") /\ usage' = call[c].to /\ Return(c)
        /\ used' = used /\ mixed' = mixed
    BY DEF storeUsage, capacities
  <1>2. call'[c] = None /\ OnlyCall(c)
    BY <1>1, ReturnType
  <1>3. SUFFICES ASSUME ~mixed
                 PROVE  /\ \A d \in Clients : At(d, "storeUsage")' => call'[d].to = Usage(used)
                        /\ usage' = Usage(used)
    BY <1>1 DEF UsageInv, Usage
  <1>4. ASSUME NEW d \in Clients, At(d, "storeUsage")' PROVE call'[d].to = Usage(used)
    BY <1>2, <1>3, <1>4 DEF UsageInv, At, OnlyCall
  <1> QED BY <1>1, <1>3, <1>4 DEF UsageInv

\* Every step.
LEMMA UsageStep ==
    ASSUME DeviceConstants, TypeOK, CallsSound, UsageInv, [Next]_vars
    PROVE  UsageInv'
  <1>1. CASE UNCHANGED vars
    BY <1>1 DEF vars, UsageInv, Usage, Settled, At
  <1>2. ASSUME NEW c \in Clients, UNCHANGED <<used, usage, mixed>>, OnlyCall(c),
               call[c] = None \/ ~Locked(c),
               ~At(c, "sendUsage"), ~At(c, "storeUsage"), ~At(c, "storeUsage")'
        PROVE  UsageInv'
    <2>1. Settled(c)
      BY <1>2 DEF Settled, Locked, At
    <2> QED BY <1>2, <2>1, UsageStill
  <1>3. ASSUME NEW c \in Clients, NEW S \in SUBSET Props,
               allocateCapacity(c, S) \/ deallocateCapacity(c, S)
        PROVE  UsageInv'
    <2>1. UNCHANGED <<used, usage, mixed>>
      BY <1>3 DEF allocateCapacity, deallocateCapacity, capacities, states
    <2>2. PICK op \in {"allocate", "deallocate"} : Begin(c, Call("acquire", op, S))
      BY <1>3 DEF allocateCapacity, deallocateCapacity
    <2> DEFINE r == Call("acquire", op, S)
    <2>3. r \in Calls /\ r.pc = "acquire"
      BY CallType DEF Pcs, Ops
    <2> HIDE DEF r
    <2>4. call[c] = None /\ call'[c] = r /\ OnlyCall(c)
      BY <2>2, <2>3, BeginType DEF r
    <2> QED BY <1>2, <2>1, <2>3, <2>4 DEF At
  <1>4. ASSUME NEW c \in Clients,
               \/ releaseChildren(c) \/ sendAdmin(c) \/ storeAdmin(c) \/ releaseObject(c)
               \/ \E a \in {"LOCKED", "UNLOCKED"} : _set_adminState(c, a)
        PROVE  UsageInv'
    <2>1. UNCHANGED <<used, usage, mixed>>
      BY <1>4 DEF releaseChildren, sendAdmin, storeAdmin, releaseObject, _set_adminState, capacities
    <2>2. OffLock(c)
      BY <1>4, AdminCalls, AdminBegins
    <2>3. /\ ~At(c, "sendUsage") /\ ~At(c, "storeUsage")
          /\ ~At(c, "storeUsage")'
      <3>1. CASE releaseChildren(c) \/ sendAdmin(c) \/ storeAdmin(c)
        <4>1. call[c].pc \in {"release", "sendAdmin", "storeAdmin"} /\ call[c] # None
          BY <3>1 DEF releaseChildren, sendAdmin, storeAdmin, At
        <4>2. call'[c] # None => call'[c].pc \in {"sendAdmin", "storeAdmin", "release"}
          BY <3>1, AdminCalls
        <4> QED BY <4>1, <4>2 DEF At
      <3>2. CASE (\E a \in {"LOCKED", "UNLOCKED"} : _set_adminState(c, a)) \/ releaseObject(c)
        <4>1. call[c] = None
          BY <3>2 DEF _set_adminState, releaseObject, Begin
        <4>2. call'[c] # None => call'[c].pc \in {"sendAdmin", "release"}
          BY <3>2, AdminBegins
        <4> QED BY <4>1, <4>2 DEF At
      <3> QED BY <1>4, <3>1, <3>2
    <2> QED BY <1>2, <2>1, <2>2, <2>3 DEF OffLock
  <1>5. ASSUME NEW c \in Clients, Step(c) PROVE UsageInv'
    BY <1>4, <1>5, UsageAtLock, UsageWorkedOut, UsageStored DEF Step
  <1> QED BY <1>1, <1>3, <1>4, <1>5 DEF Next

----------------------------------------------------------------------------
(* The administrative state.                                               *)

IsAssigning(c) == At(c, "sendAdmin") \/ At(c, "storeAdmin")

\* What is assigned, and by which operation.
AssignSound ==
    \A c \in Clients : IsAssigning(c) =>
        \/ call[c].op = "set" /\ call[c].to \in {"LOCKED", "UNLOCKED"}
        \/ call[c].op = "shut" /\ call[c].to = "SHUTTING_DOWN"
        \/ call[c].op = "lock" /\ call[c].to = "LOCKED"

\* One assignment at a time, and the domain has heard of the state, or of the one
\* about to be stored, unless that event was lost.
OneAssigns ==
    /\ \A c, d \in Clients : IsAssigning(c) /\ IsAssigning(d) => c = d
    /\ (\A c \in Clients : ~IsAssigning(c)) => untold \/ heard = admin
    /\ \A c \in Clients : At(c, "sendAdmin") => untold \/ heard = admin
    /\ \A c \in Clients : At(c, "storeAdmin") => untold \/ heard = call[c].to

\* A device that shuts down is not set any more: the state is on its way to
\* SHUTTING_DOWN, is that, or is LOCKED for good.
GoesDown ==
    closing => /\ \A c \in Clients : IsAssigning(c) => call[c].op # "set"
               /\ \/ admin = "SHUTTING_DOWN"
                  \/ admin = "LOCKED" /\ released
                  \/ \E c \in Clients : IsAssigning(c) /\ call[c].op = "shut"

AdminInv == AssignSound /\ (~crossed => OneAssigns /\ GoesDown)

\* A step of a call that assigns nothing, before or after.
LEMMA AdminStill ==
    ASSUME AdminInv, NEW c \in Clients, OnlyCall(c),
           UNCHANGED <<admin, heard, untold, crossed, closing, released>>,
           ~IsAssigning(c), ~IsAssigning(c)'
    PROVE  AdminInv'
  <1>1. ASSUME NEW d \in Clients
        PROVE  /\ IsAssigning(d)' <=> IsAssigning(d)
               /\ At(d, "sendAdmin")' <=> At(d, "sendAdmin")
               /\ At(d, "storeAdmin")' <=> At(d, "storeAdmin")
               /\ IsAssigning(d) => call'[d] = call[d]
    BY DEF IsAssigning, At, OnlyCall
  <1>2. AssignSound'
    BY <1>1 DEF AssignSound, AdminInv
  <1>3. ASSUME ~crossed PROVE OneAssigns'
    <2>1. OneAssigns
      BY <1>3 DEF AdminInv
    <2> QED BY <1>1, <2>1 DEF OneAssigns, IsAssigning
  <1>4. ASSUME ~crossed PROVE GoesDown'
    <2>1. GoesDown
      BY <1>4 DEF AdminInv
    <2> QED BY <1>1, <2>1 DEF GoesDown
  <1> QED BY <1>2, <1>3, <1>4 DEF AdminInv

\* A call starts to assign: the state that is assigned is one its operation stands for.
Starts(c) ==
    /\ OnlyCall(c) /\ ~IsAssigning(c) /\ At(c, "sendAdmin")'
    /\ UNCHANGED <<admin, heard, untold, released>>
    /\ ~crossed' => ~crossed /\ ~Others(c, Assigning)
    /\ \/ call'[c].op = "set" /\ call'[c].to \in {"LOCKED", "UNLOCKED"}
       \/ call'[c].op = "shut" /\ call'[c].to = "SHUTTING_DOWN"
       \/ call'[c].op = "lock" /\ call'[c].to = "LOCKED"

\* Nobody else does, unless the assignments overlap.
LEMMA StartsAlone ==
    ASSUME AdminInv, NEW c \in Clients, Starts(c)
    PROVE  AssignSound' /\ (~crossed' => OneAssigns' /\ \A d \in Clients : ~IsAssigning(d))
  <1>1. ASSUME NEW d \in Clients \ {c}
        PROVE  /\ call'[d] = call[d] /\ (IsAssigning(d)' <=> IsAssigning(d))
               /\ ~crossed' => ~IsAssigning(d)
    BY DEF Starts, OnlyCall, IsAssigning, At, Others, Assigning
  <1>2. ASSUME NEW d \in Clients, IsAssigning(d)'
        PROVE  \/ call'[d].op = "set" /\ call'[d].to \in {"LOCKED", "UNLOCKED"}
               \/ call'[d].op = "shut" /\ call'[d].to = "SHUTTING_DOWN"
               \/ call'[d].op = "lock" /\ call'[d].to = "LOCKED"
    <2>1. CASE d = c
      BY <2>1 DEF Starts
    <2>2. CASE d # c
      BY <1>1, <1>2, <2>2 DEF AdminInv, AssignSound
    <2> QED BY <2>1, <2>2
  <1>3. AssignSound'
    BY <1>2 DEF AssignSound
  <1>4. ASSUME ~crossed' PROVE OneAssigns' /\ \A d \in Clients : ~IsAssigning(d)
    <2>1. ~crossed /\ \A d \in Clients : ~IsAssigning(d)
      BY <1>1, <1>4 DEF Starts
    <2>2. untold \/ heard = admin
      BY <2>1 DEF AdminInv, OneAssigns
    <2>3. At(c, "sendAdmin")' /\ \A d \in Clients \ {c} : ~IsAssigning(d)'
      BY <1>1, <1>4 DEF Starts
    <2>4. ~At(c, "storeAdmin")' /\ (untold' \/ heard' = admin')
      BY <2>2, <2>3 DEF At, Starts
    <2> QED BY <2>1, <2>3, <2>4 DEF OneAssigns, IsAssigning
  <1> QED BY <1>3, <1>4

\* A state is set, or the release begins.
LEMMA AdminStarted ==
    ASSUME DeviceConstants, TypeOK, AdminInv, NEW c \in Clients,
           (\E a \in {"LOCKED", "UNLOCKED"} : _set_adminState(c, a)) \/ releaseObject(c)
    PROVE  AdminInv'
  <1> DEFINE q(op, a) == [Call("sendAdmin", op, {}) EXCEPT !.to = a]
             l == Call("release", "lock", {})
  <1>0. UNCHANGED <<admin, heard, untold, released>> /\ ~released
    BY DEF _set_adminState, releaseObject, Begin
  <1>1. ASSUME NEW op \in Ops, NEW a \in Texts
        PROVE  q(op, a) \in Calls /\ q(op, a).pc = "sendAdmin" /\ q(op, a).op = op /\ q(op, a).to = a
    BY CallType DEF Pcs
  <1>2. l \in Calls /\ l.pc = "release"
    BY CallType DEF Pcs, Ops
  <1>3. CASE \E a \in {"LOCKED", "UNLOCKED"} : _set_adminState(c, a)
    <2>1. PICK a \in {"LOCKED", "UNLOCKED"} : _set_adminState(c, a)
      BY <1>3
    <2>2. /\ admin \in {"LOCKED", "UNLOCKED"} /\ Begin(c, q("set", a)) /\ closing' = closing
          /\ crossed' = (crossed \/ Others(c, Assigning))
      <3>1. <<admin, a>> \in adminStateTransitions
        BY <2>1 DEF _set_adminState
      <3>2. admin \in {"LOCKED", "UNLOCKED"}
        BY <3>1 DEF adminStateTransitions
      <3>3. /\ Begin(c, q("set", a)) /\ closing' = closing
            /\ crossed' = (crossed \/ Others(c, Assigning))
        BY <2>1, Zenon DEF _set_adminState
      <3> QED BY <3>2, <3>3
    <2>3. /\ q("set", a) \in Calls /\ q("set", a).pc = "sendAdmin"
          /\ q("set", a).op = "set" /\ q("set", a).to = a
      <3>1. "set" \in Ops /\ a \in Texts
        BY <2>1 DEF Ops, Texts
      <3> HIDE DEF q
      <3> QED BY <1>1, <3>1
    <2>4. call[c] = None /\ call'[c] = q("set", a) /\ call'[c] # None /\ OnlyCall(c)
      <3> HIDE DEF q
      <3> QED BY <2>2, <2>3, BeginType
    <2> HIDE DEF q
    <2>5. Starts(c)
      BY <1>0, <2>1, <2>2, <2>3, <2>4 DEF Starts, IsAssigning, At
    <2>6. AssignSound' /\ (~crossed' => OneAssigns' /\ \A d \in Clients : ~IsAssigning(d))
      BY <2>5, StartsAlone
    <2>7. ASSUME ~crossed' PROVE ~closing'
      <3>1. GoesDown /\ \A d \in Clients : ~IsAssigning(d)
        BY <2>5, <2>6, <2>7 DEF Starts, AdminInv
      <3> QED BY <1>0, <2>2, <3>1 DEF GoesDown
    <2> QED BY <2>6, <2>7 DEF AdminInv, GoesDown
  <1>4. CASE releaseObject(c) /\ Ready
    <2>1. /\ Begin(c, q("shut", "SHUTTING_DOWN"))
          /\ crossed' = (crossed \/ (Ready /\ Others(c, Assigning)))
      BY <1>4 DEF releaseObject
    <2>2. /\ q("shut", "SHUTTING_DOWN") \in Calls /\ q("shut", "SHUTTING_DOWN").pc = "sendAdmin"
          /\ q("shut", "SHUTTING_DOWN").op = "shut" /\ q("shut", "SHUTTING_DOWN").to = "SHUTTING_DOWN"
      BY <1>1 DEF Ops, Texts
    <2>3. /\ call[c] = None /\ call'[c] = q("shut", "SHUTTING_DOWN") /\ call'[c] # None
          /\ OnlyCall(c)
      <3> HIDE DEF q
      <3> QED BY <2>1, <2>2, BeginType
    <2> HIDE DEF q
    <2>4. ~crossed' => ~crossed /\ ~Others(c, Assigning)
      BY <1>4, <2>1
    <2>5. Starts(c)
      BY <1>0, <2>2, <2>3, <2>4 DEF Starts, IsAssigning, At
    <2>6. AssignSound' /\ (~crossed' => OneAssigns' /\ \A d \in Clients : ~IsAssigning(d))
      BY <2>5, StartsAlone
    <2>7. ASSUME ~crossed' PROVE GoesDown'
      <3>1. IsAssigning(c)' /\ call'[c].op = "shut"
        BY <2>2, <2>3, <2>5 DEF Starts, IsAssigning
      <3>2. \A d \in Clients : IsAssigning(d)' => d = c
        BY <2>6, <2>7, <3>1 DEF OneAssigns
      <3> QED BY <3>1, <3>2 DEF GoesDown
    <2> QED BY <2>6, <2>7 DEF AdminInv
  <1>5. CASE releaseObject(c) /\ ~Ready
    <2>1. Begin(c, l) /\ closing' = (closing \/ Ready)
          /\ crossed' = (crossed \/ (Ready /\ Others(c, Assigning)))
      BY <1>5 DEF releaseObject
    <2>2. call[c] = None /\ call'[c] = l /\ OnlyCall(c)
      <3> HIDE DEF l
      <3> QED BY <1>2, <2>1, BeginType
    <2>3. closing' = closing /\ crossed' = crossed
      BY <1>5, <2>1 DEF TypeOK
    <2>4. ~IsAssigning(c) /\ ~IsAssigning(c)'
      BY <1>2, <2>2 DEF IsAssigning, At
    <2> QED BY <1>0, <2>2, <2>3, <2>4, AdminStill
  <1> QED BY <1>3, <1>4, <1>5

\* The release goes on to lock the device, or ends with an exception.
LEMMA AdminReleases ==
    ASSUME DeviceConstants, TypeOK, AdminInv, NEW c \in Clients, releaseChildren(c)
    PROVE  AdminInv'
  <1>1. /\ call[c] # None /\ call[c] \in Calls /\ ~IsAssigning(c)
        /\ UNCHANGED <<admin, heard, untold, released, closing>>
    BY DEF releaseChildren, At, IsAssigning, TypeOK
  <1>2. CASE Return(c) /\ UNCHANGED crossed
    <2>1. call'[c] = None /\ OnlyCall(c)
      BY <1>2, ReturnType
    <2>2. ~IsAssigning(c)'
      BY <2>1 DEF IsAssigning, At
    <2> QED BY <1>1, <1>2, <2>1, <2>2, AdminStill
  <1>3. CASE /\ call' = [call EXCEPT ![c].pc = "sendAdmin", ![c].op = "lock", ![c].to = "LOCKED"]
             /\ crossed' = (crossed \/ Others(c, Assigning))
    <2> DEFINE r == [call[c] EXCEPT !.pc = "sendAdmin", !.op = "lock", !.to = "LOCKED"]
    <2>1. call' = [call EXCEPT ![c] = r]
      BY <1>3
    <2>2. r \in Calls /\ r.pc = "sendAdmin" /\ r.op = "lock" /\ r.to = "LOCKED"
      BY <1>1 DEF Calls, Pcs, Ops, Texts
    <2> HIDE DEF r
    <2>3. call'[c] = r /\ r # None /\ OnlyCall(c)
      BY <2>1, <2>2 DEF TypeOK, OnlyCall, DeviceConstants
    <2>4. Starts(c)
      BY <1>1, <1>3, <2>2, <2>3 DEF Starts, At
    <2>5. AssignSound' /\ (~crossed' => OneAssigns' /\ \A d \in Clients : ~IsAssigning(d))
      BY <2>4, StartsAlone
    <2>6. ASSUME ~crossed' PROVE GoesDown'
      <3>1. GoesDown /\ \A d \in Clients : ~IsAssigning(d)
        BY <2>4, <2>5, <2>6 DEF Starts, AdminInv
      <3>2. \A d \in Clients : IsAssigning(d)' => d = c
        BY <2>3, <3>1 DEF OnlyCall, IsAssigning, At
      <3> QED BY <1>1, <2>2, <2>3, <3>1, <3>2 DEF GoesDown
    <2> QED BY <2>5, <2>6 DEF AdminInv
  <1> QED BY <1>2, <1>3 DEF releaseChildren

\* The domain hears of the state.
LEMMA AdminSent ==
    ASSUME DeviceConstants, TypeOK, AdminInv, NEW c \in Clients, sendAdmin(c)
    PROVE  AdminInv'
  <1>1. /\ At(c, "sendAdmin") /\ call[c] # None /\ UNCHANGED <<admin, crossed, closing, released>>
        /\ \/ call[c].to = admin /\ UNCHANGED <<heard, untold>>
           \/ heard' = call[c].to
           \/ untold' = TRUE
        /\ Goto(c, "storeAdmin")
    BY DEF sendAdmin, At
  <1>2. /\ OnlyCall(c) /\ Fields(c) /\ call'[c].pc = "storeAdmin" /\ call'[c].to = call[c].to
    BY <1>1, GotoType DEF Pcs
  <1>3. ASSUME NEW d \in Clients
        PROVE  /\ IsAssigning(d)' <=> IsAssigning(d)
               /\ IsAssigning(d) => call'[d].op = call[d].op /\ call'[d].to = call[d].to
    BY <1>1, <1>2 DEF IsAssigning, At, OnlyCall, Fields
  <1>4. AssignSound'
    BY <1>3 DEF AssignSound, AdminInv
  <1>5. ASSUME ~crossed PROVE OneAssigns'
    <2>1. OneAssigns /\ IsAssigning(c)
      BY <1>1, <1>5 DEF AdminInv, IsAssigning
    <2>2. \A d \in Clients : IsAssigning(d)' => d = c
      BY <1>3, <2>1 DEF OneAssigns
    <2>3. untold' \/ heard' = call'[c].to
      BY <1>1, <1>2, <2>1 DEF OneAssigns
    <2>4. IsAssigning(c)' /\ ~At(c, "sendAdmin")'
      BY <1>2 DEF IsAssigning, At, Fields
    <2>5. \A d \in Clients : At(d, "sendAdmin")' \/ At(d, "storeAdmin")' => d = c
      BY <2>2 DEF IsAssigning
    <2> QED BY <2>2, <2>3, <2>4, <2>5 DEF OneAssigns
  <1>6. ASSUME ~crossed PROVE GoesDown'
    <2>1. GoesDown
      BY <1>6 DEF AdminInv
    <2> QED BY <1>1, <1>3, <2>1 DEF GoesDown
  <1> QED BY <1>1, <1>4, <1>5, <1>6 DEF AdminInv

\* The state is stored; of a device that shuts down, by nobody who sets it.
LEMMA AdminStored ==
    ASSUME DeviceConstants, TypeOK, AdminInv, NEW c \in Clients, storeAdmin(c)
    PROVE  AdminInv'
  <1>1. /\ At(c, "storeAdmin") /\ IsAssigning(c) /\ call[c] # None
        /\ UNCHANGED <<heard, untold, crossed, closing>>
        /\ admin' = call[c].to /\ released' = (released \/ call[c].op = "lock")
        /\ (call[c].op = "shut" /\ Goto(c, "release")) \/ Return(c)
    BY DEF storeAdmin, At, IsAssigning
  <1>2. OnlyCall(c) /\ ~IsAssigning(c)'
    BY <1>1, GotoType, ReturnType DEF Pcs, IsAssigning, At
  <1>3. ASSUME NEW d \in Clients \ {c}
        PROVE  call'[d] = call[d] /\ (IsAssigning(d)' <=> IsAssigning(d))
    BY <1>2 DEF IsAssigning, At, OnlyCall
  <1>4. AssignSound'
    BY <1>2, <1>3 DEF AssignSound, AdminInv
  <1>5. ASSUME ~crossed PROVE OneAssigns'
    <2>1. OneAssigns
      BY <1>5 DEF AdminInv
    <2>2. \A d \in Clients : ~IsAssigning(d)'
      BY <1>1, <1>2, <1>3, <2>1 DEF OneAssigns
    <2>3. untold' \/ heard' = admin'
      BY <1>1, <2>1 DEF OneAssigns
    <2> QED BY <2>2, <2>3 DEF OneAssigns, IsAssigning
  <1>6. ASSUME ~crossed, closing PROVE GoesDown'
    <2>1. GoesDown /\ AssignSound
      BY <1>6 DEF AdminInv
    <2>2. \/ call[c].op = "shut" /\ call[c].to = "SHUTTING_DOWN"
          \/ call[c].op = "lock" /\ call[c].to = "LOCKED"
      BY <1>1, <1>6, <2>1 DEF GoesDown, AssignSound
    <2>3. \/ admin' = "SHUTTING_DOWN"
          \/ admin' = "LOCKED" /\ released'
      BY <1>1, <2>2
    <2>4. \A d \in Clients : IsAssigning(d)' => call'[d].op # "set"
      BY <1>2, <1>3, <1>6, <2>1 DEF GoesDown
    <2> QED BY <2>3, <2>4 DEF GoesDown
  <1>7. ~closing => GoesDown'
    BY <1>1 DEF GoesDown
  <1> QED BY <1>1, <1>4, <1>5, <1>6, <1>7 DEF AdminInv

\* Where a call goes from the lock.
LEMMA LockMoves ==
    ASSUME DeviceConstants, TypeOK, NEW c \in Clients,
           \/ acquire(c) \/ _allocateCapacities(c) \/ _deallocateCapacities(c)
           \/ \E p \in Props : _allocateCapacity(c, p)
    PROVE  /\ OnlyCall(c)
           /\ call'[c] # None => call'[c].pc \in {"each", "rollback", "free", "sendUsage"}
  <1>1. call[c] # None /\ call[c] \in Calls
    BY DEF acquire, _allocateCapacities, Raises, _deallocateCapacities, _allocateCapacity, At,
           TypeOK
  <1>2. CASE Return(c)
    BY <1>2, ReturnType
  <1>3. ASSUME NEW pc \in {"each", "rollback", "free", "sendUsage"}, Goto(c, pc)
        PROVE  OnlyCall(c) /\ call'[c].pc \in {"each", "rollback", "free", "sendUsage"}
    BY <1>1, <1>3, GotoType DEF Pcs
  <1>4. ASSUME NEW p \in Props, call[c].pc = "each",
               call' = [call EXCEPT ![c].todo = @ \ {p}, ![c].got = @ \union {p}]
        PROVE  OnlyCall(c) /\ call'[c].pc = "each"
    BY <1>1, <1>4 DEF OnlyCall, TypeOK, Calls
  <1>5. ASSUME acquire(c) PROVE Goto(c, "each") \/ Goto(c, "free")
    BY <1>5 DEF acquire
  <1>6. ASSUME _allocateCapacities(c) \/ _deallocateCapacities(c)
        PROVE  Goto(c, "sendUsage") \/ Return(c)
    BY <1>6 DEF _allocateCapacities, _deallocateCapacities
  <1>7. ASSUME NEW p \in Props, _allocateCapacity(c, p)
        PROVE  \/ Goto(c, "rollback")
               \/ /\ call[c].pc = "each"
                  /\ call' = [call EXCEPT ![c].todo = @ \ {p}, ![c].got = @ \union {p}]
    BY <1>7 DEF _allocateCapacity, At
  <1> QED BY <1>2, <1>3, <1>4, <1>5, <1>6, <1>7

\* Every step.
LEMMA AdminStep ==
    ASSUME DeviceConstants, TypeOK, CallsSound, AdminInv, [Next]_vars
    PROVE  AdminInv'
  <1>1. CASE UNCHANGED vars
    BY <1>1 DEF vars, AdminInv, AssignSound, OneAssigns, GoesDown, IsAssigning, At
  <1>2. ASSUME NEW c \in Clients, OnlyCall(c), UNCHANGED states, ~IsAssigning(c),
               call'[c] # None => call'[c].pc \notin {"sendAdmin", "storeAdmin"}
        PROVE  AdminInv'
    BY <1>2, AdminStill DEF states, IsAssigning, At
  <1>3. ASSUME NEW c \in Clients, NEW S \in SUBSET Props,
               allocateCapacity(c, S) \/ deallocateCapacity(c, S)
        PROVE  AdminInv'
    <2>1. PICK op \in {"allocate", "deallocate"} : Begin(c, Call("acquire", op, S))
      BY <1>3 DEF allocateCapacity, deallocateCapacity
    <2> DEFINE r == Call("acquire", op, S)
    <2>2. r \in Calls /\ r.pc = "acquire"
      BY CallType DEF Pcs, Ops
    <2> HIDE DEF r
    <2>3. call[c] = None /\ call'[c] = r /\ OnlyCall(c)
      BY <2>1, <2>2, BeginType DEF r
    <2>4. UNCHANGED states /\ ~IsAssigning(c)
      BY <1>3, <2>3 DEF allocateCapacity, deallocateCapacity, IsAssigning, At
    <2> QED BY <1>2, <2>2, <2>3, <2>4
  <1>4. ASSUME NEW c \in Clients,
               \/ acquire(c) \/ _allocateCapacities(c) \/ _deallocateCapacities(c)
               \/ \E p \in Props : _allocateCapacity(c, p)
        PROVE  AdminInv'
    <2>1. UNCHANGED states /\ ~IsAssigning(c)
      BY <1>4 DEF acquire, _allocateCapacities, Raises, _deallocateCapacities,
                  _allocateCapacity, IsAssigning, At
    <2>2. OnlyCall(c) /\ (call'[c] # None => call'[c].pc \notin {"sendAdmin", "storeAdmin"})
      BY <1>4, LockMoves
    <2> QED BY <1>2, <2>1, <2>2
  <1>5. ASSUME NEW c \in Clients, updateUsageState(c) \/ storeUsage(c) PROVE AdminInv'
    <2>1. UNCHANGED <<admin, heard, untold, crossed, closing, released>>
      BY <1>5 DEF updateUsageState, storeUsage, states
    <2>2. OnlyCall(c) /\ (call'[c] # None => call'[c].pc = "storeUsage")
      BY <1>5, UsageCalls DEF OffLock
    <2>3. ~IsAssigning(c) /\ ~IsAssigning(c)'
      BY <1>5, <2>2 DEF updateUsageState, storeUsage, IsAssigning, At
    <2> QED BY <2>1, <2>2, <2>3, AdminStill
  <1>6. ASSUME NEW c \in Clients, Step(c) PROVE AdminInv'
    BY <1>4, <1>5, <1>6, AdminReleases, AdminSent, AdminStored DEF Step
  <1> QED BY <1>1, <1>3, <1>6, AdminStarted DEF Next

----------------------------------------------------------------------------
DeviceInv == CapacityInv /\ UsageInv /\ AdminInv

\* At every moment, for any number of clients and properties: the units of the
\* capacities add up, whatever calls overlap and whichever callback raises; with
\* no call under way the usage state is that of the units, and the domain knows
\* the administrative state, unless assignments overlapped or an exception or a
\* lost event is to blame (allocateCapacity, deallocateCapacity, __setattr__,
\* __sendStateChangeEvent, releaseObject).
THEOREM DeviceIsTrue ==
    ASSUME DeviceConstants
    PROVE  Init /\ [][Next]_vars => []DeviceTrue
  <1>1. Init => DeviceInv
    <2>1. SUFFICES ASSUME Init PROVE DeviceInv
      OBVIOUS
    <2>2. \A c \in Clients : call[c] = None
      BY <2>1 DEF Init
    <2>3. UsageInv
      <3>1. used = Nothing /\ usage = "IDLE" /\ \A p \in Props : used[p] = 0
        BY <2>1 DEF Init, Nothing
      <3>2. usage = Usage(used)
        BY <3>1 DEF Usage
      <3> QED BY <2>2, <3>2 DEF UsageInv, At
    <2>4. AdminInv
      BY <2>1, <2>2 DEF Init, AdminInv, AssignSound, OneAssigns, GoesDown, IsAssigning, At
    <2> QED BY <2>1, <2>3, <2>4, CapacityInit DEF DeviceInv
  <1>2. DeviceInv /\ [Next]_vars => DeviceInv'
    <2>1. SUFFICES ASSUME DeviceInv, [Next]_vars PROVE DeviceInv'
      OBVIOUS
    <2>2. TypeOK /\ CallsSound
      BY <2>1 DEF DeviceInv, CapacityInv
    <2> QED BY <2>1, <2>2, CapacityStep, UsageStep, AdminStep DEF DeviceInv
  <1>3. DeviceInv => DeviceTrue
    <2>1. SUFFICES ASSUME DeviceInv PROVE DeviceTrue
      OBVIOUS
    <2>2. ASSUME Quiet
          PROVE  /\ \A c \in Clients : Settled(c) /\ ~IsAssigning(c)
      BY <2>2 DEF Quiet, Settled, IsAssigning, At
    <2>3. UsageTrue
      BY <2>1, <2>2 DEF DeviceInv, UsageInv, UsageTrue
    <2>4. ASSUME ~crossed, Quiet, ~untold PROVE heard = admin
      BY <2>1, <2>2, <2>4 DEF DeviceInv, AdminInv, OneAssigns
    <2>5. ASSUME ~crossed, closing
          PROVE  \/ admin # "UNLOCKED"
                 \/ \E c \in Clients : At(c, "sendAdmin") \/ At(c, "storeAdmin")
      BY <2>1, <2>5 DEF DeviceInv, AdminInv, GoesDown, IsAssigning
    <2>6. AdminTrue
      BY <2>4, <2>5 DEF AdminTrue
    <2> QED BY <2>1, <2>3, <2>6 DEF DeviceInv, CapacityInv, DeviceTrue
  <1> QED BY <1>1, <1>2, <1>3, PTL
=============================================================================
