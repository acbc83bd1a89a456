------------------------------ MODULE MCDevice ------------------------------
(***************************************************************************)
(* Three devices for TLC, told apart by the frozen variable kind:          *)
(*   "hostile"  the constants of the configuration: two callers of the     *)
(*              legacy allocation that reconfigure, return what they do    *)
(*              not hold, and meet callbacks that throw;                   *)
(*   "legacy"   one caller of the legacy allocation, with malformed        *)
(*              requests, administrative changes and release;              *)
(*   "new"      two callers of the callback-based allocation.              *)
(***************************************************************************)
EXTENDS Device

CONSTANTS c1, c2, p1, p2    \* two callers, two allocatable properties

Cap1 == [p \in Props |-> 1]
Cap2 == [p \in Props |-> 2]

VARIABLE kind

Legacy == INSTANCE Device
              WITH InitialCap  <- Cap2,
                   Environment <- {"admin", "release", "badrequest"}
New    == INSTANCE Device
              WITH InitialCap       <- Cap2,
                   Environment      <- {},
                   UseNewAllocation <- TRUE

mcVars == <<vars, kind>>

MCInit ==
    \/ kind = "hostile" /\ Init
    \/ kind = "legacy"  /\ Legacy!Init
    \/ kind = "new"     /\ New!Init

\* The other callers of the legacy device stay away.
LegacyNext == Legacy!Next /\ \A c \in Clients \ {c1} : pc'[c] = "ready"

\* The hostile device comes up with the values it was built with.
HostileNext == Next /\ total' = total

\* Every device saves the property that configure() may write at once.
MCNext ==
    /\ UNCHANGED kind /\ (unsaved = Props => unsaved' = {p1})
    /\ \/ kind = "hostile" /\ HostileNext
       \/ kind = "legacy"  /\ LegacyNext
       \/ kind = "new"     /\ New!Next

\* The ORB keeps running the thread of a call that can go on.
MCFairness ==
    \A c \in Clients :
        /\ WF_mcVars(kind = "legacy" /\ Legacy!Proceed(c) /\ UNCHANGED kind)
        /\ WF_mcVars(kind = "new" /\ New!Proceed(c) /\ UNCHANGED kind)

MCSpec == MCInit /\ [][MCNext]_mcVars /\ MCFairness

(***************************************************************************)
(* Every allocateCapacity, deallocateCapacity, configure and releaseObject *)
(* call returns when no callback throws: no thread waits for               *)
(* propertySetAccess for ever.                                             *)
(***************************************************************************)
CallsReturn ==
    \A c \in Clients :
        kind # "hostile" /\ pc[c] \notin {"ready", "released"}
            ~> pc[c] \in {"ready", "released"}
=============================================================================
