------------------------------ MODULE PyTuner ------------------------------
(***************************************************************************)
(* FrontendTunerDevice of frontendInterfaces/libsrc/python/tuner_device.py *)
(* : the allocation of tuners to controllers and listeners.                *)
(* A call is a sequence of steps between acquisitions of                   *)
(* allocation_id_mapping_lock; deallocateCapacity holds _capacityLock      *)
(* around its part, allocateCapacity does not.  The device callbacks       *)
(* (deviceSetTuning, deviceEnable...) are external: a tuning is accepted,  *)
(* refused, misses the tolerance, or raises.  listener_allocation_ids is   *)
(* written but never read and is left out.                                 *)
(***************************************************************************)
EXTENDS Naturals, FiniteSets

CONSTANTS Ids, Tuners, Types, Threads,
          NoListeners,   \* tuner types without listeners: "CHANNELIZER", "TX"
          TypeMaps,      \* the tuner types devices are made of
          MaxAllocations,\* bound: calls of allocateCapacity with one ID
          None

ASSUME TunerConstants ==
    /\ None \notin Ids \cup Tuners \cup Threads
    /\ None \notin [tuner : Tuners, role : {"control", "listener"}]
    /\ NoListeners \subseteq Types
    /\ TypeMaps \subseteq [Tuners -> Types]
    /\ MaxAllocations \in Nat

VARIABLES
    tuner_type,   \* tuner -> type, fixed
    csv,          \* tuner -> allocation_id_csv: [first, rest], first = None when empty
    control,      \* tuner -> control_allocation_id, or None
    mapping,      \* allocation ID -> tuner, or None (allocation_id_to_tuner_id)
    usageState, capacityLock,
    tuned, enabled,   \* tuners the device has tuned, has enabled
    call,         \* thread -> its call
    made,         \* allocation ID -> calls of allocateCapacity with it so far
    serial        \* calls of this behaviour do not overlap

vars == <<tuner_type, csv, control, mapping, usageState, capacityLock, tuned, enabled, call,
          made, serial>>

Idle == [pc |-> "idle"]
NoCsv == [first |-> None, rest |-> {}]
tables == <<csv, control, mapping>>
device == <<tuned, enabled>>
fixed == <<tuner_type, serial>>

Init ==
    /\ tuner_type \in TypeMaps
    /\ csv = [t \in Tuners |-> NoCsv]
    /\ control = [t \in Tuners |-> None]
    /\ mapping = [i \in Ids |-> None]
    /\ usageState = "IDLE" /\ capacityLock = None
    /\ tuned = {} /\ enabled = {}
    /\ call = [x \in Threads |-> Idle]
    /\ made = [i \in Ids |-> 0]
    /\ serial \in BOOLEAN

----------------------------------------------------------------------------
(* Requests.  An allocation ID is a UUID that its client made, so one ID   *)
(* is not in two calls at a time, and where calls overlap it is used once. *)

\* what createTunerAllocation, createTunerGenericListenerAllocation and
\* createTunerListenerAllocation make
TunerRequests == [op : {"tuner"}, id : Ids, type : Types, device_control : BOOLEAN]
ListenerRequests == {r \in [op : {"listener"}, id : Ids, existing : Ids] : r.id # r.existing}
Requests == TunerRequests \cup ListenerRequests
Releases == [op : {"free", "unlisten"}, id : Ids]

InCall(x, pc) == call[x].pc = pc
Quiet == \A x \in Threads : call[x] = Idle
MayCall(x, i) ==
    /\ call[x] = Idle
    /\ serial => Quiet
    /\ \A y \in Threads : call[y] # Idle => call[y].req.id # i

Goto(x, pc) == call' = [call EXCEPT ![x].pc = pc]
At(x, pc, t) == call' = [call EXCEPT ![x].pc = pc, ![x].tuner = t]
Return(x) == call' = [call EXCEPT ![x] = Idle]

----------------------------------------------------------------------------
(* Tables.                                                                 *)

createAllocationIdCsv(t, ctl, map) ==
    [first |-> ctl[t], rest |-> {i \in Ids : map[i] = t} \ {ctl[t]}]

\* an entry is cut out of the list; when it was the first one, another follows
WithoutId(c, i) ==
    IF c.first # i THEN {[c EXCEPT !.rest = @ \ {i}]}
    ELSE IF c.rest = {} THEN {NoCsv}
    ELSE {[first |-> j, rest |-> c.rest \ {j}] : j \in c.rest}

Usage(ctl) ==
    LET n == Cardinality({t \in Tuners : ctl[t] # None})
    IN  IF n = 0 THEN "IDLE" ELSE IF n = Cardinality(Tuners) THEN "BUSY" ELSE "ACTIVE"

----------------------------------------------------------------------------
(* allocateCapacity                                                        *)

\* a request to control a tuner is refused while the device is busy
allocateCapacity(x, r) ==
    /\ MayCall(x, r.id)
    /\ made[r.id] < IF serial THEN MaxAllocations ELSE 1
    /\ made' = [made EXCEPT ![r.id] = @ + 1]
    /\ call' = IF r.op = "tuner" /\ r.device_control /\ usageState = "BUSY" THEN call
               ELSE [call EXCEPT ![x] = [pc |-> IF r.op = "tuner" THEN "check" ELSE "listen",
                                         req |-> r, tuner |-> None]]
    /\ UNCHANGED <<tables, device, usageState, capacityLock, fixed>>

\* an allocation ID in use raises InvalidCapacity
allocate_check(x) ==
    /\ InCall(x, "check")
    /\ IF mapping[call[x].req.id] # None THEN Return(x) ELSE Goto(x, "allocate")
    /\ UNCHANGED <<tables, device, usageState, capacityLock, made, fixed>>

Matching(r) == {t \in Tuners : tuner_type[t] = r.type}
Candidates_Taken(r) == {t \in Matching(r) : r.device_control \/ control[t] # None}

Candidates(r) ==
    {t \in Matching(r) : IF r.device_control THEN control[t] = None ELSE control[t] # None}

AddId(i, t, ctl) ==
    /\ mapping' = [mapping EXCEPT ![i] = t]
    /\ csv' = [csv EXCEPT ![t] = createAllocationIdCsv(t, ctl, mapping')]

\* one locked section tries the candidates: every one refuses, one raises, or
\* one is tuned, within the tolerances or not
allocate_control(x) ==
    LET r == call[x].req
        C == Candidates(r)
    IN  /\ InCall(x, "allocate") /\ r.device_control
        /\ UNCHANGED <<capacityLock, made, fixed>>
        /\ \/ /\ Return(x)
              /\ UNCHANGED <<tables, device, usageState>>
           \/ /\ C # {} /\ Goto(x, "undo")
              /\ UNCHANGED <<tables, device, usageState>>
           \/ \E t \in C, met \in BOOLEAN :
              /\ control' = [control EXCEPT ![t] = r.id]
              /\ AddId(r.id, t, control')
              /\ tuned' = tuned \cup {t}
              /\ enabled' = IF met THEN enabled \cup {t} ELSE enabled
              /\ usageState' = IF met THEN Usage(control') ELSE usageState
              /\ IF met THEN Return(x) ELSE Goto(x, "undo")

\* a listener of any tuner that carries what it asks for; a channelizer or a
\* transmitter that matches raises, which also ends in a failed allocation
allocate_listener(x) ==
    LET r == call[x].req
    IN  /\ InCall(x, "allocate") /\ ~r.device_control
        /\ UNCHANGED <<control, device, capacityLock, made, fixed>>
        /\ \/ /\ IF r.type \in NoListeners /\ Matching(r) # {} THEN Goto(x, "undo") ELSE Return(x)
              /\ UNCHANGED <<csv, mapping, usageState>>
           \/ \E t \in Candidates(r) :
              /\ r.type \notin NoListeners
              /\ AddId(r.id, t, control)
              /\ usageState' = Usage(control)
              /\ Return(x)

allocate_undo_Forgotten(x) ==
    /\ InCall(x, "undo") /\ Return(x)
    /\ UNCHANGED <<tables, device, usageState, capacityLock, made, fixed>>

\* a failed allocation gives back what its ID holds
allocate_undo(x) ==
    /\ InCall(x, "undo")
    /\ IF mapping[call[x].req.id] = None THEN Return(x) ELSE Goto(x, "find")
    /\ UNCHANGED <<tables, device, usageState, capacityLock, made, fixed>>

----------------------------------------------------------------------------
(* _allocate_frontend_listener_allocation                                  *)

listener_check(x) ==
    LET r == call[x].req IN
    /\ InCall(x, "listen")
    /\ IF mapping[r.id] # None THEN Return(x) ELSE Goto(x, "existing")
    /\ UNCHANGED <<tables, device, usageState, capacityLock, made, fixed>>

listener_tuner(x) ==
    LET t == mapping[call[x].req.existing] IN
    /\ InCall(x, "existing")
    /\ IF t = None THEN Return(x)
       ELSE IF tuner_type[t] \in NoListeners THEN Return(x)
       ELSE At(x, "append", t)
    /\ UNCHANGED <<tables, device, usageState, capacityLock, made, fixed>>

listener_append(x) ==
    /\ InCall(x, "append")
    /\ mapping' = [mapping EXCEPT ![call[x].req.id] = call[x].tuner]
    /\ Goto(x, "csv")
    /\ UNCHANGED <<csv, control, device, usageState, capacityLock, made, fixed>>

\* the list is made under the lock and assigned after it is released
listener_csv(x) ==
    LET t == call[x].tuner IN
    /\ InCall(x, "csv")
    /\ call' = [call EXCEPT ![x] = [pc |-> "assign", req |-> @.req, tuner |-> t,
                                    csv |-> createAllocationIdCsv(t, control, mapping)]]
    /\ UNCHANGED <<tables, device, usageState, capacityLock, made, fixed>>

listener_assign(x) ==
    /\ InCall(x, "assign")
    /\ csv' = [csv EXCEPT ![call[x].tuner] = call[x].csv]
    /\ Return(x)
    /\ UNCHANGED <<control, mapping, device, usageState, capacityLock, made, fixed>>

----------------------------------------------------------------------------
(* deallocateCapacity, and the deallocation of a failed allocation.        *)

deallocateCapacity(x, r) ==
    /\ MayCall(x, r.id) /\ capacityLock = None
    /\ capacityLock' = x
    /\ call' = [call EXCEPT ![x] = [pc |-> IF r.op = "free" THEN "find" ELSE "unlisten",
                                    req |-> r, tuner |-> None]]
    /\ UNCHANGED <<tables, device, usageState, made, fixed>>

\* the call ends: a deallocation releases _capacityLock and goes on to the
\* usage state unless it raised; a failed allocation returns False
Leave(x, raised) ==
    IF capacityLock = x
    THEN /\ capacityLock' = None
         /\ IF raised THEN Return(x) ELSE Goto(x, "usage")
    ELSE Return(x) /\ UNCHANGED capacityLock

free_find(x) ==
    LET t == mapping[call[x].req.id] IN
    /\ InCall(x, "find")
    /\ IF t = None THEN Leave(x, TRUE) ELSE At(x, "clear", t) /\ UNCHANGED capacityLock
    /\ UNCHANGED <<tables, device, usageState, made, fixed>>

\* removeTunerMappingByAllocationId: the tuning is deleted when the ID comes
\* first in the list of the tuner; sendEOS is external
RemoveMapping(i) ==
    /\ mapping' = [mapping EXCEPT ![i] = None]
    /\ tuned' = IF csv[mapping[i]].first = i THEN tuned \ {mapping[i]} ELSE tuned

\* first section.  The controller clears the others out of the list one by one
\* (a KeyError at the first that is not mapped, in an order of the list);
\* another ID takes itself out and returns
free_clear(x) ==
    LET i == call[x].req.id
        t == call[x].tuner
        u == mapping[i]
        L == csv[u].rest
        unmapped == {j \in L : mapping[j] = None}
    IN  /\ InCall(x, "clear")
        /\ IF u = None THEN Leave(x, TRUE) /\ UNCHANGED <<tables, tuned>>
           ELSE IF csv[u].first = i
           THEN \E done \in IF unmapped = {} THEN {L} ELSE SUBSET (L \ unmapped) :
                /\ mapping' = [j \in Ids |-> IF j \in done THEN None ELSE mapping[j]]
                /\ csv' = [csv EXCEPT ![t].rest = @ \ done]
                /\ IF done = L THEN Goto(x, "release") /\ UNCHANGED capacityLock
                   ELSE Leave(x, TRUE)
                /\ tuned' = tuned \ {mapping[j] : j \in {k \in done : csv[mapping[k]].first = k}}
                /\ UNCHANGED control
           ELSE IF i \in csv[u].rest
           THEN /\ RemoveMapping(i)
                /\ csv' = [csv EXCEPT ![t].rest = @ \ {i}]
                /\ Leave(x, FALSE)
                /\ UNCHANGED control
           ELSE Goto(x, "release") /\ UNCHANGED <<tables, tuned, capacityLock>>
        /\ UNCHANGED <<enabled, usageState, made, fixed>>

\* second section
free_release(x) ==
    LET i == call[x].req.id
        t == call[x].tuner
    IN  /\ InCall(x, "release")
        /\ enabled' = IF control[t] = i THEN enabled \ {t} ELSE enabled
        /\ IF mapping[i] = None THEN Leave(x, TRUE) /\ UNCHANGED <<tables, tuned>>
           ELSE /\ RemoveMapping(i)
                /\ csv' = [csv EXCEPT ![t] = NoCsv]
                /\ control' = IF control[t] = i THEN [control EXCEPT ![t] = None] ELSE control
                /\ Goto(x, "wipe") /\ UNCHANGED capacityLock
        /\ UNCHANGED <<usageState, made, fixed>>

\* the list is emptied once more, without the lock
free_wipe(x) ==
    /\ InCall(x, "wipe")
    /\ csv' = [csv EXCEPT ![call[x].tuner] = NoCsv]
    /\ Leave(x, FALSE)
    /\ UNCHANGED <<control, mapping, device, usageState, made, fixed>>

\* deallocate_frontend_listener_allocation
unlisten_find(x) ==
    LET i == call[x].req.id
        t == mapping[i]
    IN  /\ InCall(x, "unlisten")
        /\ IF t = None THEN Leave(x, TRUE) ELSE At(x, "notcontrol", t) /\ UNCHANGED capacityLock
        /\ UNCHANGED <<tables, device, usageState, made, fixed>>

unlisten_map(x) ==
    LET i == call[x].req.id
    IN  /\ InCall(x, "notcontrol")
        /\ IF control[call[x].tuner] = i \/ mapping[i] = None
           THEN Leave(x, TRUE) /\ UNCHANGED <<mapping, tuned>>
           ELSE RemoveMapping(i) /\ Goto(x, "unlist") /\ UNCHANGED capacityLock
        /\ UNCHANGED <<csv, control, enabled, usageState, made, fixed>>

\* removeListenerId reads the list and writes it back, without the lock
unlisten_read(x) ==
    LET t == call[x].tuner IN
    /\ InCall(x, "unlist")
    /\ \E c \in WithoutId(csv[t], call[x].req.id) :
         call' = [call EXCEPT ![x] = [pc |-> "relist", req |-> @.req, tuner |-> t, csv |-> c]]
    /\ UNCHANGED <<tables, device, usageState, capacityLock, made, fixed>>

unlisten_write(x) ==
    /\ InCall(x, "relist")
    /\ csv' = [csv EXCEPT ![call[x].tuner] = call[x].csv]
    /\ Leave(x, FALSE)
    /\ UNCHANGED <<control, mapping, device, usageState, made, fixed>>

\* the usage state is computed under the lock and assigned after it
deallocate_usage(x) ==
    /\ InCall(x, "usage")
    /\ call' = [call EXCEPT ![x] = [pc |-> "setusage", req |-> @.req, usage |-> Usage(control)]]
    /\ UNCHANGED <<tables, device, usageState, capacityLock, made, fixed>>

deallocate_setusage(x) ==
    /\ InCall(x, "setusage")
    /\ usageState' = call[x].usage
    /\ Return(x)
    /\ UNCHANGED <<tables, device, capacityLock, made, fixed>>

----------------------------------------------------------------------------
Step(x) ==
    \/ allocate_check(x) \/ allocate_control(x) \/ allocate_listener(x) \/ allocate_undo(x)
    \/ listener_check(x) \/ listener_tuner(x) \/ listener_append(x)
    \/ listener_csv(x) \/ listener_assign(x)
    \/ free_find(x) \/ free_clear(x) \/ free_release(x) \/ free_wipe(x)
    \/ unlisten_find(x) \/ unlisten_map(x) \/ unlisten_read(x) \/ unlisten_write(x)
    \/ deallocate_usage(x) \/ deallocate_setusage(x)

Next == \E x \in Threads :
    \/ \E r \in Requests : allocateCapacity(x, r)
    \/ \E r \in Releases : deallocateCapacity(x, r)
    \/ Step(x)

Spec == Init /\ [][Next]_vars

----------------------------------------------------------------------------
(* Properties.  TypeOK and the next two hold whatever calls overlap, the   *)
(* rest when calls do not; with overlapping calls the unlocked assignments *)
(* of the list and of the usage state break them.                          *)

Csvs == [first : Ids \cup {None}, rest : SUBSET Ids]
Usages == {"IDLE", "ACTIVE", "BUSY"}

\* what a call holds at each of its steps
AnyRequest == Requests \cup Releases
Calls ==
    {Idle}
    \cup [pc : {"check", "allocate", "undo"}, req : TunerRequests, tuner : {None}]
    \cup [pc : {"listen", "existing"}, req : ListenerRequests, tuner : {None}]
    \cup [pc : {"find", "unlisten"}, req : AnyRequest, tuner : {None}]
    \cup [pc : {"append", "csv", "clear", "release", "wipe", "notcontrol", "unlist", "usage"},
          req : AnyRequest, tuner : Tuners]
    \cup [pc : {"assign", "relist", "usage"}, req : AnyRequest, tuner : Tuners, csv : Csvs]
    \cup [pc : {"setusage"}, req : AnyRequest, usage : Usages]

\* Members and calls keep their types: a call that needs a tuner has found one.
TypeOK ==
    /\ tuner_type \in TypeMaps
    /\ csv \in [Tuners -> Csvs]
    /\ control \in [Tuners -> Ids \cup {None}]
    /\ mapping \in [Ids -> Tuners \cup {None}]
    /\ usageState \in Usages
    /\ capacityLock \in Threads \cup {None}
    /\ tuned \subseteq Tuners /\ enabled \subseteq Tuners
    /\ call \in [Threads -> Calls]
    /\ made \in [Ids -> Nat]
    /\ serial \in BOOLEAN

\* Whatever calls overlap, a tuner is enabled only while it has a controller.
EnabledControlled == \A t \in enabled : control[t] # None

\* Whatever calls overlap, a controller finds its tuner: the two tables of the
\* device agree on every tuner with a controller.
ControlMapped == \A t \in Tuners : control[t] # None => mapping[control[t]] = t

\* Between calls allocation_id_csv lists the controller of a tuner and then
\* its listeners.
CsvTrue == serial /\ Quiet =>
    \A t \in Tuners : csv[t] = createAllocationIdCsv(t, control, mapping)

\* Between calls the usage state says how many tuners are taken.
UsageTrue == serial /\ Quiet => usageState = Usage(control)

\* Between calls the device has tuned and enabled the tuners that are taken,
\* also after an allocation that failed on its tolerances.
HardwareFollows == serial /\ Quiet =>
    tuned = {t \in Tuners : control[t] # None} /\ enabled = tuned

\* The tables of a tuner device agree with each other and with the hardware,
\* whatever allocations and deallocations cross.
AllocationsTrue ==
    TypeOK /\ EnabledControlled /\ ControlMapped /\ CsvTrue /\ HardwareFollows /\ UsageTrue

\* Calls that do not overlap keep the promise of TunerLedger.
Ledger == INSTANCE TunerLedger WITH ledger <-
    [i \in Ids |-> IF ~serial \/ mapping[i] = None THEN None
                   ELSE [tuner |-> mapping[i],
                         role |-> IF control[mapping[i]] = i THEN "control" ELSE "listener"]]
LedgerKept == Ledger!Spec
=============================================================================
