---------------------------- MODULE PyDomainView ----------------------------
(***************************************************************************)
(* What a Python client knows of a domain (ossie/utils/redhawk): a list of *)
(* its applications, devices or services (DomainObjectList) that is read   *)
(* once and then follows the events of the ODM channel, or is read at each *)
(* access when there is no channel; and an attribute of a device           *)
(* (CorbaAttribute) that follows the events of the IDM channel.            *)
(*                                                                         *)
(* The domain (external) puts an object on its list and then announces it; *)
(* it takes one off its list, announces that and then destroys it          *)
(* (Application_impl::releaseObject); a device may die at any time.  A     *)
(* channel delivers in order.  Remote calls to an object fail when it is   *)
(* dead; the call that reads the list, and those that read what an object  *)
(* is made of, may fail any time.  Profiles are taken to parse.            *)
(***************************************************************************)
EXTENDS Naturals, Sequences, SequencesExt, FiniteSets

CONSTANTS Objects, Name,   \* objects, numbered in the order of their registration, and the
                           \* identifier of each; two in turn may share one
          Clients,         \* threads that use the list
          States,          \* of a device
          MaxObjects, MaxViewCalls, MaxStates,  \* bounds on objects, calls, changes of state
          MaxFaults,                            \* and failing calls
          None, Broken     \* no entry; an entry that could not be made into an object

VARIABLES variety,         \* what is on the list: "app", "device" or "service"; or "state"
          odm,             \* the ODM channel is connected
          used, listed, told, alive,   \* the domain: registered once, on its list, announced as
                                       \* removed, reachable
          channel,         \* the events on their way
          handler,         \* the object that the event thread is about to add
          cached, view, lock,          \* __cached, __data and __lock of the list
          call,            \* the calls of the clients
          announced,       \* ghost: the identifiers that listeners know of
          zombies,         \* ghost: added by createApplication after their removal was handled
          forgotten,       \* ghost: objects that a failed call kept off the list
          wrong,           \* ghost: a call returned a list that was never true during the call
          faults, viewCalls,
          \* the attribute
          state, sending,  \* the device's state, and the one it has announced and not stored
          reports,         \* the events on their way
          copy,            \* _value
          setting,         \* set_value: None, "set" or "sync", with the lock held
          excused,         \* ghost: read between the handling of an event and the store
          changes

\* the objects are numbered, and the marks are none of them
ViewConstants ==
    /\ Objects \subseteq Nat /\ None \notin Objects /\ Broken \notin Objects /\ None # Broken
    /\ None \notin Clients /\ None \notin States /\ States # {}

domainVars == <<used, listed, told, alive>>
listVars == <<variety, odm, domainVars, channel, handler, cached, view, lock, call, announced,
              zombies, forgotten, wrong, faults, viewCalls>>
attributeVars == <<state, sending, reports, copy, setting, excused, changes>>

Identifiers == {Name[o] : o \in Objects}
Idle == [pc |-> "idle", obj |-> None, snap |-> {}, begun |-> {}, ever |-> {}, disturbed |-> FALSE]

ListInit ==
    /\ variety \in {"app", "device", "service", "state"} /\ odm \in BOOLEAN
    /\ used = {} /\ listed = {} /\ told = {} /\ alive = {}
    /\ channel = <<>> /\ handler = None
    /\ cached = FALSE /\ view = [n \in Identifiers |-> None] /\ lock = None
    /\ call = [t \in Clients |-> Idle]
    /\ announced = {} /\ zombies = {} /\ forgotten = {} /\ wrong = FALSE
    /\ faults = 0 /\ viewCalls = 0

----------------------------------------------------------------------------
(* The domain.                                                             *)

Send(event) == channel' = IF odm THEN Append(channel, event) ELSE channel

\* an identifier is free when the removal of its last object was announced;
\* applications never share one
Registrable(o) ==
    /\ Cardinality(used) < MaxObjects /\ \A x \in used : x < o
    /\ \A x \in used : Name[x] = Name[o] => variety # "app" /\ x \in told

Registered(o) ==
    /\ Registrable(o)
    /\ used' = used \cup {o} /\ listed' = listed \cup {o} /\ alive' = alive \cup {o}
    /\ Send(<<"added", o>>)
    /\ UNCHANGED told

\* a call that is under way may or may not see the new object
Known(o) == [t \in Clients |-> IF odm \/ call[t].pc \notin {"fetch", "sync", "list"} THEN call[t]
                               ELSE [call[t] EXCEPT !.ever = @ \cup {o}]]

Register(o) ==
    /\ Registered(o)
    /\ call' = Known(o)
    /\ UNCHANGED <<handler, cached, view, lock, announced, zombies, forgotten, wrong, faults,
                   viewCalls>>

Unlist(o) ==
    /\ o \in listed /\ listed' = listed \ {o}
    /\ UNCHANGED <<used, told, alive, channel, handler, cached, view, lock, call, announced,
                   zombies, forgotten, wrong, faults, viewCalls>>

sendRemoveEvent(o) ==
    /\ o \in used \ (listed \cup told) /\ told' = told \cup {o}
    /\ Send(<<"removed", o>>)
    /\ UNCHANGED <<used, listed, alive, handler, cached, view, lock, call, announced, zombies,
                   forgotten, wrong, faults, viewCalls>>

Die(o) ==
    /\ o \in alive /\ (variety = "device" \/ (variety = "app" /\ o \in told))
    /\ alive' = alive \ {o}
    /\ UNCHANGED <<used, listed, told, channel, handler, cached, view, lock, call, announced,
                   zombies, forgotten, wrong, faults, viewCalls>>

----------------------------------------------------------------------------
(* DomainObjectList.                                                       *)

(* __create reads the profile of the object, through the file system of    *)
(* its domain, and what else belongs to it.  For an application any        *)
(* failure raises; for the others a remote call that fails leaves None in  *)
(* the list, and for a device so does a dead one.                          *)
newApplication(o, old, failing) == IF o \in alive \ failing THEN o ELSE old
newDevice(o, failing) == IF o \in alive \ failing THEN o ELSE Broken
newService(o, failing) == IF o \notin failing THEN o ELSE Broken

Created(o, old, failing) == CASE variety = "app" -> newApplication(o, old, failing)
                              [] variety = "device" -> newDevice(o, failing)
                              [] variety = "service" -> newService(o, failing)

(* __add.  The comparison with an entry raises if that is None, and for    *)
(* services, whose new value is no object: the entry stays.                *)
Kept(o) == view[Name[o]] \in {o, Broken} \/ (variety = "service" /\ view[Name[o]] # None)

Added(o, failing) == IF Kept(o) THEN view[Name[o]] ELSE Created(o, view[Name[o]], failing)

\* one failure, of the file system say, may concern several objects
Failures(S) == IF faults < MaxFaults THEN SUBSET {o \in S : ~Kept(o)} ELSE {{}}

Fail(failing) ==
    /\ forgotten' = forgotten \cup failing
    /\ faults' = IF failing = {} THEN faults ELSE faults + 1

Disturbed(t) ==
    [c \in Clients |-> IF c = t \/ call[c].pc \notin {"fetch", "sync", "list"} THEN call[c]
                       ELSE [call[c] EXCEPT !.disturbed = TRUE]]

add(o) ==
    /\ lock = None
    /\ \E failing \in Failures({o}) :
          /\ view' = [view EXCEPT ![Name[o]] = Added(o, failing)]
          /\ Fail(failing)
    /\ announced' = IF view' = view THEN announced ELSE announced \cup {Name[o]}

(* __remove raises, without a notification, if the whole list is known and *)
(* the entry is not there.                                                 *)
Absent(n) == cached /\ view[n] = None

remove(n) ==
    /\ lock = None
    /\ view' = [view EXCEPT ![n] = None]
    /\ announced' = announced \ {n}

(* sync: entries that are not in the domain's list go.  The identifier of  *)
(* a dead object cannot be read; late are those that die right after that. *)
Stale(n) == None

Synced(snap, late, failing) ==
    LET valid == {o \in snap : variety = "service" \/ o \in alive \cup late}
    IN  [n \in Identifiers |-> IF \E o \in valid : Name[o] = n
                         THEN Added(CHOOSE o \in valid : Name[o] = n, failing)
                         ELSE Stale(n)]

----------------------------------------------------------------------------
(* The properties apps, devs, services and devMgrs.                        *)

Entries == {n \in Identifiers : view[n] # None}

\* the lists that were true at some time since the call began
Plausible(t) ==
    /\ {Name[o] : o \in call[t].begun \cap listed \cap alive} \subseteq Entries
    /\ Entries \subseteq {Name[o] : o \in call[t].ever}

Seen == IF odm THEN {} ELSE listed

Begin(t, pc, o) ==
    /\ call[t].pc = "idle" /\ viewCalls < MaxViewCalls
    /\ viewCalls' = viewCalls + 1
    /\ call' = [call EXCEPT ![t] = [Idle EXCEPT !.pc = pc, !.obj = o, !.begun = Seen,
                                                !.ever = Seen]]

(* values of a list that is not known yet reads it with the lock held;     *)
(* without the channel it is read before, without the lock.                *)
values(t) ==
    /\ lock = None /\ ~(odm /\ cached)
    /\ Begin(t, "fetch", None)
    /\ lock' = IF odm THEN t ELSE None
    /\ UNCHANGED <<domainVars, channel, handler, cached, view, announced, zombies, forgotten,
                   wrong, faults>>

(* _get_applications and its like return None when the call fails.         *)
fetch(t) ==
    /\ call[t].pc = "fetch"
    /\ \/ call' = [call EXCEPT ![t].pc = "sync", ![t].snap = listed]
          /\ UNCHANGED <<forgotten, faults>>
       \/ /\ faults < MaxFaults /\ faults' = faults + 1
          /\ call' = [call EXCEPT ![t].pc = "sync", ![t].disturbed = TRUE]
          /\ forgotten' = forgotten \cup listed
    /\ UNCHANGED <<domainVars, channel, handler, cached, view, lock, announced, zombies, wrong,
                   viewCalls>>

After(t, failing) ==
    IF odm THEN Idle
    ELSE [call[t] EXCEPT !.pc = "list", !.snap = {}, !.disturbed = @ \/ failing # {}]

sync(t) ==
    /\ call[t].pc = "sync" /\ lock = (IF odm THEN t ELSE None)
    /\ \E late \in SUBSET (call[t].snap \ alive), failing \in Failures(call[t].snap) :
          /\ view' = Synced(call[t].snap, late, failing)
          /\ Fail(failing)
          /\ call' = [Disturbed(t) EXCEPT ![t] = After(t, failing)]
    /\ announced' = {n \in Identifiers : view'[n] # None}      \* those that go and come are notified
    /\ cached' = TRUE /\ lock' = None
    /\ UNCHANGED <<domainVars, channel, handler, zombies, wrong, viewCalls>>

list(t) ==
    /\ call[t].pc = "list" /\ lock = None
    /\ wrong' = (wrong \/ (~call[t].disturbed /\ ~Plausible(t)))
    /\ call' = [call EXCEPT ![t] = Idle]
    /\ UNCHANGED <<domainVars, channel, handler, cached, view, lock, announced, zombies,
                   forgotten, faults, viewCalls>>

----------------------------------------------------------------------------
(* Domain.createApplication and removeApplication.                         *)

createApplication(t, o) ==
    /\ variety = "app" /\ call[t].pc = "idle" /\ viewCalls < MaxViewCalls
    /\ viewCalls' = viewCalls + 1
    /\ Registered(o)
    /\ call' = [Known(o) EXCEPT ![t] = [Idle EXCEPT !.pc = "created", !.obj = o]]
    /\ UNCHANGED <<handler, cached, view, lock, announced, zombies, forgotten, wrong, faults>>

Handled(o) == o \in told /\ <<"removed", o>> \notin ToSet(channel)

addCreated(t) ==
    /\ call[t].pc = "created"
    /\ LET o == call[t].obj
       IN  /\ add(o)
           /\ zombies' = IF Handled(o) THEN zombies \cup {o} ELSE zombies
    /\ call' = [Disturbed(t) EXCEPT ![t] = Idle]
    /\ UNCHANGED <<domainVars, channel, handler, cached, lock, wrong, viewCalls>>

removeApplication(t, o) ==
    /\ variety = "app" /\ view[Name[o]] = o
    /\ Begin(t, "remove", o)
    /\ UNCHANGED <<domainVars, channel, handler, cached, view, lock, announced, zombies,
                   forgotten, wrong, faults>>

\* the identifier is read first; the entry may be gone by now
removeEntry(t) ==
    /\ call[t].pc = "remove" /\ lock = None
    /\ LET o == call[t].obj
       IN  IF o \notin alive \/ Absent(Name[o])
           THEN call' = [call EXCEPT ![t] = Idle] /\ UNCHANGED <<view, announced>>
           ELSE /\ remove(Name[o])
                /\ call' = [Disturbed(t) EXCEPT ![t].pc = "release"]
    /\ UNCHANGED <<domainVars, channel, handler, cached, lock, zombies, forgotten, wrong, faults,
                   viewCalls>>

releaseObject(t) ==
    /\ call[t].pc = "release"
    /\ call' = [call EXCEPT ![t] = Idle]
    /\ LET o == call[t].obj
       IN  \/ listed' = listed \ {o} /\ UNCHANGED <<forgotten, faults>>
           \/ /\ faults < MaxFaults /\ faults' = faults + 1
              /\ forgotten' = forgotten \cup {o} /\ UNCHANGED listed
    /\ UNCHANGED <<used, told, alive, channel, handler, cached, view, lock, announced, zombies,
                   wrong, viewCalls>>

----------------------------------------------------------------------------
(* The events: ODMListener.push and the handlers.                          *)

\* an event at a time; the next waits for the handlers
push(event) ==
    /\ channel # <<>> /\ handler = None /\ Head(channel)[1] = event
    /\ channel' = Tail(channel)

applicationAddedEvent ==
    /\ variety = "app" /\ push("added")
    /\ add(Head(channel)[2])
    /\ UNCHANGED <<domainVars, handler, cached, lock, call, zombies, wrong, viewCalls>>

\* the device manager is asked whether the object is one of its own
Ask(o, found) ==
    /\ \/ handler' = found /\ UNCHANGED <<forgotten, faults>>
       \/ /\ faults < MaxFaults /\ faults' = faults + 1
          /\ forgotten' = forgotten \cup {o} /\ UNCHANGED handler
    /\ UNCHANGED <<domainVars, cached, view, lock, call, announced, zombies, wrong, viewCalls>>

Own(o) == {x \in listed : Name[x] = Name[o]}

deviceAddedEvent ==
    /\ variety = "device" /\ push("added")
    /\ LET o == Head(channel)[2]
       IN  Ask(o, IF Own(o) \cap alive = {} THEN None ELSE o)

\* a service is added as it is on the manager's list
serviceAddedEvent ==
    /\ variety = "service" /\ push("added")
    /\ LET o == Head(channel)[2]
       IN  Ask(o, IF Own(o) = {} THEN None ELSE CHOOSE x \in Own(o) : TRUE)

addOwn ==
    /\ handler # None /\ handler' = None
    /\ add(handler)
    /\ UNCHANGED <<domainVars, channel, cached, lock, call, zombies, wrong, viewCalls>>

removedEvent ==
    /\ push("removed") /\ lock = None
    /\ LET n == Name[Head(channel)[2]]
       IN  IF Absent(n) THEN UNCHANGED <<view, announced>> ELSE remove(n)
    /\ UNCHANGED <<domainVars, handler, cached, lock, call, zombies, forgotten, wrong, faults,
                   viewCalls>>

ListNext ==
    /\ UNCHANGED <<variety, odm>>
    /\ \/ \E o \in Objects : Register(o) \/ Unlist(o) \/ sendRemoveEvent(o) \/ Die(o)
       \/ \E t \in Clients : \/ values(t) \/ fetch(t) \/ sync(t) \/ list(t)
                             \/ addCreated(t) \/ removeEntry(t) \/ releaseObject(t)
                             \/ \E o \in Objects : \/ createApplication(t, o)
                                                  \/ removeApplication(t, o)
       \/ applicationAddedEvent \/ deviceAddedEvent \/ serviceAddedEvent \/ addOwn \/ removedEvent

----------------------------------------------------------------------------
(* CorbaAttribute: a state of a device, which announces a new state before *)
(* it stores it.                                                           *)

AttributeInit ==
    /\ state = (CHOOSE s \in States : TRUE) /\ sending = None /\ reports = <<>>
    /\ copy = None /\ setting = None /\ excused = FALSE /\ changes = 0

Announce(s) ==
    /\ sending = None /\ s # state /\ changes < MaxStates
    /\ changes' = changes + 1
    /\ sending' = s /\ reports' = Append(reports, s)

changeState(s) ==
    /\ Announce(s)
    /\ UNCHANGED <<state, copy, setting, excused>>

storeState ==
    /\ sending # None
    /\ state' = sending /\ sending' = None
    /\ UNCHANGED <<reports, copy, setting, excused, changes>>

\* the getter is called with the lock held
Fetched == copy' = state /\ excused' = (excused \/ (sending # None /\ reports = <<>>))

get_value ==
    /\ setting = None /\ copy = None
    /\ Fetched
    /\ UNCHANGED <<state, sending, reports, setting, changes>>

\* nothing is done when the copy says that the device is in that state
set_value(s) ==
    /\ setting = None /\ copy # None /\ copy # s
    /\ \/ Announce(s) /\ setting' = "set"
       \/ UNCHANGED <<sending, reports, changes>> /\ setting' = "sync"  \* ignored by the device
    /\ UNCHANGED <<state, copy, excused>>

syncValue ==
    /\ setting = "sync" \/ (setting = "set" /\ sending = None)
    /\ Fetched /\ setting' = None
    /\ UNCHANGED <<state, sending, reports, changes>>

(* An event is dropped while there is no copy; else it waits for the lock. *)
update ==
    /\ reports # <<>> /\ setting = None
    /\ copy' = IF copy = None THEN None ELSE Head(reports)
    /\ reports' = Tail(reports)
    /\ UNCHANGED <<state, sending, setting, excused, changes>>

AttributeNext ==
    \/ \E s \in States : changeState(s) \/ set_value(s)
    \/ storeState \/ get_value \/ syncValue \/ update

----------------------------------------------------------------------------
Init == ListInit /\ AttributeInit

Next == \/ variety # "state" /\ ListNext /\ UNCHANGED attributeVars
        \/ variety = "state" /\ AttributeNext /\ UNCHANGED listVars

----------------------------------------------------------------------------
(* Properties                                                              *)

Settled ==
    /\ channel = <<>> /\ handler = None /\ used \subseteq listed \cup told
    /\ \A t \in Clients : call[t].pc = "idle"

(* When all events are handled, the list is the domain's: nothing that is  *)
(* gone is on it and nothing live is missing, however reads, events and    *)
(* the client's own creations and releases were interleaved, and though an *)
(* identifier was used again (Domain.apps, DeviceManager.devs, services).  *)
(* Excepted are an application that was released before createApplication  *)
(* had added it, and objects that a failing call kept off the list: whose  *)
(* list could not be read or whose proxy could not be made.                *)
ViewTrue ==
    odm /\ cached /\ Settled =>
        /\ \A n \in Identifiers : view[n] \in Objects => view[n] \in listed \cup zombies
        /\ \A o \in listed : \/ view[Name[o]] = o \/ o \in forgotten
                             \/ (variety # "service" /\ o \notin alive)

(* Who read the list and listened from then on knows what is on it         *)
(* (itemAdded, itemRemoved).                                               *)
ListenersAgree == cached => announced = Entries

(* Without the channel each access returns a list that was true during it, *)
(* unless another thread's access or change came between (DomainObjectList *)
(* .sync reads without the lock) or a remote call of the access failed.    *)
ListsTrue == ~wrong

(* When the events of a device are handled, the copy of its state is true, *)
(* unless it was read while the device had announced a state and not yet   *)
(* stored it (CorbaAttribute, Device.__setattr__).                         *)
CopyTrue ==
    copy # None /\ reports = <<>> /\ sending = None /\ setting = None => copy = state \/ excused

============================================================================
