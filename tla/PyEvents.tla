------------------------------ MODULE PyEvents ------------------------------
(***************************************************************************)
(* Publishers and subscribers of event channels (ossie/events Manager.py,  *)
(* Publisher.py, Subscriber.py).  The manager registers each one with the  *)
(* domain and keeps the registrations under _mgr_lock; each one connects   *)
(* to a proxy of the channel, with a bounded number of tries, and is told  *)
(* by the channel when the proxy goes away.                                *)
(* A remote call may fail, with or without having had its effect.          *)
(***************************************************************************)
EXTENDS Naturals, FiniteSets

CONSTANTS Threads,    \* the threads of the component
          Objects,    \* the publishers and subscribers they make
          Retries,    \* how often a call to the channel is tried
          MaxFaults,  \* bound on the calls that fail and the channels that go away
          None

VARIABLES lock, allow, registrations,   \* the manager: _mgr_lock, _allow, _registrations
          domain,                       \* the registrations that the domain knows
          object,                       \* each object: none, live or gone
          disconnected,                 \* _recv_disconnect of each receiver
          proxy,                        \* the objects that hold a proxy
          channel,                      \* what the channel knows of the proxy
          telling,                      \* receivers that the channel is about to call
          doing,                        \* the call of each thread
          leaked, unsure, crossed, refused,  \* ghosts, see the properties
          faults

evars == <<lock, allow, registrations, domain, object, disconnected, proxy, channel, telling,
           doing, leaked, unsure, crossed, refused, faults>>

\* None is no thread and no object, and a call to the channel is tried
EventsConstants == /\ None \notin Threads /\ None \notin Objects
                   /\ Retries \in Nat \ {0}

Free == [pc |-> "idle", of |-> None, tries |-> 0]

Init ==
    /\ lock = None /\ allow = TRUE /\ registrations = {} /\ domain = {}
    /\ object = [o \in Objects |-> "none"]
    /\ disconnected = [o \in Objects |-> TRUE]
    /\ proxy = {} /\ channel = [o \in Objects |-> "none"] /\ telling = {}
    /\ doing = [t \in Threads |-> Free]
    /\ leaked = {} /\ unsure = {} /\ crossed = {} /\ refused = {}
    /\ faults = 0

Fault == faults < MaxFaults /\ faults' = faults + 1
Go(t, pc) == doing' = [doing EXCEPT ![t].pc = pc, ![t].tries = 0]
Leave(t) == doing' = [doing EXCEPT ![t] = Free] /\ lock' = None

(* A try failed: another one, or what follows the last.                    *)
Again(t, next) ==
    IF doing[t].tries + 1 < Retries
    THEN doing' = [doing EXCEPT ![t].tries = @ + 1]
    ELSE Go(t, next)

----------------------------------------------------------------------------
(* Manager.Publisher and Manager.Subscriber, under the lock: registration  *)
(* with the domain, then construction.                                     *)

Create(t, o) ==
    /\ doing[t].pc = "idle" /\ object[o] = "none" /\ o \notin domain /\ lock = None
    /\ lock' = t
    /\ doing' = [doing EXCEPT ![t] = [Free EXCEPT !.pc = "register", !.of = o]]
    /\ UNCHANGED <<allow, registrations, domain, object, disconnected, proxy, channel, telling,
                   leaked, unsure, crossed, refused, faults>>

registerResource(t) ==
    /\ doing[t].pc = "register"
    /\ domain' = domain \cup {doing[t].of}
    /\ \/ Go(t, "admin") /\ UNCHANGED <<lock, leaked, faults>>
       \/ Fault /\ Leave(t) /\ leaked' = leaked \cup {doing[t].of}
    /\ UNCHANGED <<allow, registrations, object, disconnected, proxy, channel, telling, unsure,
                   crossed, refused>>

registerFails(t) ==
    /\ doing[t].pc = "register" /\ Fault /\ Leave(t)
    /\ UNCHANGED <<allow, registrations, domain, object, disconnected, proxy, channel, telling,
                   leaked, unsure, crossed, refused>>

(* The constructor raised: the manager forgets the registration.           *)
Raised(t) == Leave(t) /\ leaked' = leaked \cup {doing[t].of}

for_suppliers(t) ==
    /\ doing[t].pc = "admin"
    /\ \/ Go(t, "obtain") /\ UNCHANGED <<lock, leaked, faults>>
       \/ Fault /\ doing[t].tries + 1 < Retries /\ Again(t, "none") /\ UNCHANGED <<lock, leaked>>
       \/ Fault /\ doing[t].tries + 1 = Retries /\ Raised(t)
    /\ UNCHANGED <<allow, registrations, domain, object, disconnected, proxy, channel, telling,
                   unsure, crossed, refused>>

(* Without a proxy the object is made but never connected.                 *)
obtain_push_consumer(t) ==
    /\ doing[t].pc = "obtain"
    /\ LET o == doing[t].of IN
       \/ /\ Go(t, "connect")
          /\ proxy' = proxy \cup {o} /\ channel' = [channel EXCEPT ![o] = "obtained"]
          /\ UNCHANGED faults
       \/ Fault /\ Again(t, "made") /\ UNCHANGED <<proxy, channel>>
    /\ UNCHANGED <<lock, allow, registrations, domain, object, disconnected, telling, leaked, 
                   unsure, crossed, refused>>

(* AlreadyConnected is taken for a failure.                                *)
AlreadyConnected_Fails(t) ==
    /\ channel[doing[t].of] = "connected"
    /\ Go(t, "made")
    /\ UNCHANGED <<channel, unsure, faults, lock, leaked>>

(* AlreadyConnected means that the reply of an earlier try was lost.       *)
AlreadyConnected(t) ==
    /\ channel[doing[t].of] = "connected"
    /\ Go(t, "reset")
    /\ UNCHANGED <<channel, unsure, faults, lock, leaked>>

connect_push_supplier(t) ==
    /\ doing[t].pc = "connect"
    /\ LET o == doing[t].of
           last == doing[t].tries + 1 = Retries
       IN \/ /\ channel[o] = "obtained"
             /\ channel' = [channel EXCEPT ![o] = "connected"]
             /\ Go(t, "reset")
             /\ UNCHANGED <<unsure, faults, lock, leaked>>
          \/ AlreadyConnected(t)
          \/ /\ channel[o] = "gone"                      \* OBJECT_NOT_EXIST
             /\ Raised(t) /\ UNCHANGED <<channel, unsure, faults>>
          \/ /\ Fault /\ channel[o] # "gone"             \* COMM_FAILURE
             /\ channel' \in {channel, [channel EXCEPT ![o] = "connected"]}
             /\ Again(t, "made")
             /\ unsure' = IF last THEN unsure \cup {o} ELSE unsure
             /\ UNCHANGED <<lock, leaked>>
    /\ UNCHANGED <<allow, registrations, domain, object, disconnected, proxy, telling, 
                   crossed, refused>>

(* The receiver counts as connected.  The channel may have gone away, and  *)
(* said so, in between.                                                    *)
reset(t) ==
    /\ doing[t].pc = "reset"
    /\ LET o == doing[t].of IN
       /\ disconnected' = [disconnected EXCEPT ![o] = FALSE]
       /\ crossed' = IF channel[o] = "gone" /\ o \notin telling THEN crossed \cup {o} ELSE crossed
    /\ Go(t, "made")
    /\ UNCHANGED <<lock, allow, registrations, domain, object, proxy, channel, telling, leaked,
                   unsure, refused, faults>>

Made(t) ==
    /\ doing[t].pc = "made"
    /\ registrations' = registrations \cup {doing[t].of}
    /\ object' = [object EXCEPT ![doing[t].of] = "live"]
    /\ Leave(t)
    /\ UNCHANGED <<allow, domain, disconnected, proxy, channel, telling, leaked, unsure,
                   crossed, refused, faults>>

----------------------------------------------------------------------------
(* terminate of an object: unregister, unless the manager has terminated,  *)
(* then disconnect from the channel.                                       *)

terminate(t, o) ==
    /\ doing[t].pc = "idle" /\ object[o] = "live"
    /\ \A u \in Threads : doing[u].of # o
    /\ doing' = [doing EXCEPT ![t] = [Free EXCEPT !.of = o,
                                        !.pc = IF allow THEN "unregister" ELSE "disconnect"]]
    /\ UNCHANGED <<lock, allow, registrations, domain, object, disconnected, proxy, channel,
                   telling, leaked, unsure, crossed, refused, faults>>

(* The registration that _unregister takes out of the list.                *)
Removed(o) == registrations \cap {o}

(* The outcome of ecm.unregister is not looked at.                         *)
_unregister(t) ==
    /\ doing[t].pc = "unregister" /\ lock = None
    /\ LET o == doing[t].of IN
       /\ registrations' = registrations \ Removed(o)
       /\ \/ /\ domain' = IF o \in registrations THEN domain \ {o} ELSE domain
             /\ UNCHANGED <<leaked, faults>>
          \/ /\ o \in registrations /\ Fault
             /\ leaked' = leaked \cup {o} /\ UNCHANGED domain
    /\ Go(t, "disconnect")
    /\ UNCHANGED <<lock, allow, object, disconnected, proxy, channel, telling, unsure,
                   crossed, refused>>

(* Who has a proxy leaves the channel, connected or not.                   *)
Leaves(o) == o \in proxy

(* A try that succeeds ends the loop.  After a lost reply the proxy does   *)
(* not exist, which nobody expects: terminate ends with an exception.      *)
disconnect_push_consumer(t) ==
    /\ doing[t].pc = "disconnect"
    /\ LET o == doing[t].of
           Gone == [channel EXCEPT ![o] = "gone"]
       IN \/ ~Leaves(o) /\ Go(t, "finish") /\ UNCHANGED <<channel, telling, unsure, refused, faults>>
          \/ /\ Leaves(o) /\ channel[o] # "gone"
             /\ channel' = Gone /\ telling' \in {telling, telling \cup {o}}
             /\ Go(t, "wait") /\ UNCHANGED <<unsure, refused, faults>>
          \/ /\ Leaves(o) /\ channel[o] = "gone"
             /\ doing' = [doing EXCEPT ![t] = Free]
             /\ UNCHANGED <<channel, telling, unsure, refused, faults>>
          \/ /\ Leaves(o) /\ channel[o] # "gone" /\ Fault
             /\ \/ UNCHANGED <<channel, unsure>>
                \/ channel' = Gone /\ unsure' = unsure \cup {o}
             /\ UNCHANGED telling
             /\ Again(t, "wait")
             /\ refused' = IF doing[t].tries + 1 = Retries THEN refused \cup {o} ELSE refused
    /\ UNCHANGED <<lock, allow, registrations, domain, object, disconnected, proxy, leaked, 
                   crossed>>

(* Three short waits for the channel's answer, then terminate goes on.     *)
wait_for_disconnect(t) ==
    /\ doing[t].pc = "wait"
    /\ \/ disconnected[doing[t].of] /\ Go(t, "finish")
       \/ /\ ~disconnected[doing[t].of]
          /\ IF doing[t].tries < 2 THEN doing' = [doing EXCEPT ![t].tries = @ + 1]
             ELSE Go(t, "finish")
    /\ UNCHANGED <<lock, allow, registrations, domain, object, disconnected, proxy, channel,
                   telling, leaked, unsure, crossed, refused, faults>>

Finish(t) ==
    /\ doing[t].pc = "finish"
    /\ object' = [object EXCEPT ![doing[t].of] = "gone"]
    /\ proxy' = proxy \ {doing[t].of}
    /\ doing' = [doing EXCEPT ![t] = Free]
    /\ UNCHANGED <<lock, allow, registrations, domain, disconnected, channel, telling, leaked, 
                   unsure, crossed, refused, faults>>

(* Manager.Terminate gives every registration back.                        *)
_terminate(t) ==
    /\ doing[t].pc = "idle" /\ allow /\ lock = None
    /\ allow' = FALSE
    /\ \E failed \in SUBSET registrations :
         /\ faults + Cardinality(failed) <= MaxFaults
         /\ faults' = faults + Cardinality(failed)
         /\ leaked' = leaked \cup failed
         /\ domain' = domain \ (registrations \ failed)
    /\ registrations' = {}
    /\ UNCHANGED <<lock, object, disconnected, proxy, channel, telling, doing, unsure,
                   crossed, refused>>

----------------------------------------------------------------------------
(* The channel: it goes away, and tells the receivers that it knows.       *)

Destroyed(o) ==
    /\ channel[o] \in {"obtained", "connected"} /\ Fault
    /\ channel' = [channel EXCEPT ![o] = "gone"]
    /\ telling' = IF channel[o] = "connected" THEN telling \cup {o} ELSE telling
    /\ UNCHANGED <<lock, allow, registrations, domain, object, disconnected, proxy, doing, leaked,
                   unsure, crossed, refused>>

disconnect_push_supplier(o) ==
    /\ o \in telling
    /\ telling' = telling \ {o}
    /\ disconnected' = [disconnected EXCEPT ![o] = TRUE]
    /\ UNCHANGED <<lock, allow, registrations, domain, object, proxy, channel, doing, leaked, 
                   unsure, crossed, refused, faults>>

Step(t) ==
    \/ registerResource(t) \/ registerFails(t) \/ for_suppliers(t) \/ obtain_push_consumer(t)
    \/ connect_push_supplier(t) \/ reset(t) \/ Made(t)
    \/ _unregister(t) \/ disconnect_push_consumer(t) \/ wait_for_disconnect(t) \/ Finish(t)

Next ==
    \/ \E t \in Threads : Step(t) \/ _terminate(t)
    \/ \E t \in Threads, o \in Objects : Create(t, o) \/ terminate(t, o)
    \/ \E o \in Objects : Destroyed(o) \/ disconnect_push_supplier(o)

Fairness == \A t \in Threads : WF_evars(Step(t))

----------------------------------------------------------------------------
(* Properties                                                              *)

(* The manager's list is what the domain has registered: nothing stays     *)
(* registered that neither the list knows nor a call that failed or a      *)
(* constructor that raised left behind, whatever calls of Publisher,       *)
(* terminate and Terminate overlap (Manager.py, _unregister, _terminate).  *)
RegistrationsKnown ==
    lock = None => /\ registrations \subseteq domain
                   /\ domain \subseteq registrations \cup leaked

(* An object that is at rest believes itself connected exactly when the    *)
(* channel has it connected, in spite of lost replies (Publisher.py and    *)
(* Subscriber.py, connectEvtChan), unless the last try failed, the channel *)
(* has still to tell it, or it was told before the connect had returned.   *)
ConnectedTrue ==
    \A o \in Objects : (object[o] = "live" /\ \A t \in Threads : doing[t].of # o) =>
        \/ ~disconnected[o] <=> channel[o] = "connected"
        \/ o \in telling \cup unsure \cup crossed \cup refused

(* An object that was terminated has left its channel, unless every try to *)
(* say so failed (Publisher.py and Subscriber.py, disconnectEvtChan).      *)
ChannelLeft ==
    \A o \in Objects : object[o] = "gone" => channel[o] # "connected" \/ o \in refused

(* Publisher, Subscriber and terminate return: the tries and the waits are *)
(* bounded and the lock is given back whatever fails.                      *)
EventCallsReturn == \A t \in Threads : (doing[t].pc # "idle") ~> (doing[t].pc = "idle")

============================================================================
