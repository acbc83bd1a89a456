----------------------------- MODULE PyLifeCycle -----------------------------
(***************************************************************************)
(* The lives of the processes of Python devices and services.              *)
(*                                                                         *)
(* start_device, registerDevice and releaseObject of Python devices, one   *)
(* process per device, with the device manager and a parent device.        *)
(*                                                                         *)
(* The calls to the device manager are made by threads that the device     *)
(* waits for only so long, because omniORB may hang: a thread that was     *)
(* given up may still get through later.  Nothing keeps two calls of       *)
(* releaseObject of one device apart, nor the releases of two children     *)
(* that take themselves off the list of their parent.                      *)
(***************************************************************************)
EXTENDS Integers, Sequences, SequencesExt

CONSTANTS Devices,
          Managed,      \* the devices that were given a device manager
          Parent,
          MaxLost,      \* bound on the calls of addDevice that are not answered
          MaxReleases,  \* bound on the calls of releaseObject but for those of parents
          None

VARIABLES pc,          \* start_device: "off", "register", "add", "log", "run", "ended"
          active,      \* devices whose servant is active
          parent,      \* _compositeDevice
          children,    \* _childDevices
          adding,      \* addDevice of these devices is on its way to the parent
          registered,  \* the device manager's devices
          calling,     \* threads that call the device manager: <<device, operation, call>>
          rel,         \* calls of releaseObject, each with the calls of children that it
                       \* waits for: where the last one of them is
          late,        \* ghost: registrations that were not waited for, unregistrations
                       \* that were refused or not made
          confused,    \* ghost: devices whose entries in the list of the parent were
                       \* changed by somebody else while they left, or made afterwards
          dropped,     \* ghost: devices that are not on the list after a failed release
          joined,      \* ghost: children added after their parent released the others
          lost, releases

vars == <<pc, active, parent, children, adding, registered, calling, rel, late, confused, dropped,
          joined, lost, releases>>

\* where some devices came up, one after the other, others came up and were
\* released, and the rest is not started
Settled(up, ended) ==
    /\ pc = [d \in Devices |-> IF d \in ToSet(up) THEN "run"
                              ELSE IF d \in ended THEN "ended" ELSE "off"]
    /\ active = ToSet(up)
    /\ parent = [d \in Devices |-> IF d \in ended THEN None ELSE Parent[d]]
    /\ children = [p \in Devices |-> SelectSeq(up, LAMBDA d : Parent[d] = p)]
    /\ registered = ToSet(up) \cap Managed
    /\ adding = {} /\ calling = {}
    /\ rel = [n \in 1..MaxReleases |-> <<>>]
    /\ late = {} /\ confused = {} /\ dropped = {} /\ joined = {}
    /\ lost = 0 /\ releases = 0

Init == Settled(<<>>, {})

\* the calls of releaseObject in progress
Frames == UNION {ToSet(rel[n]) : n \in 1..MaxReleases}

\* d is at one of these places of a call of releaseObject
Amid(d, places) == \E f \in Frames : f.dev = d /\ f.at \in places

----------------------------------------------------------------------------
(* Start                                                                   *)

Registered(d) == IF parent[d] # None THEN "add" ELSE "log"

\* the servant is created and activated and the registration begins; a
\* thread that cannot be started is not waited for
start_device(d) ==
    /\ pc[d] = "off"
    /\ Parent[d] # None => pc[Parent[d]] # "off"
    /\ pc' = [pc EXCEPT ![d] = IF d \in Managed THEN "register" ELSE Registered(d)]
    /\ active' = active \union {d}
    /\ \/ d \in Managed /\ calling' = calling \union {<<d, "register", 0>>}
       \/ UNCHANGED calling
    /\ UNCHANGED <<parent, children, adding, registered, rel, late, confused, dropped, joined,
                   lost, releases>>

TimeOut_None(thread) == thread \notin calling

\* callOmniorbpyWithTimeout: the answer, or the end of the time
TimeOut(thread) == TRUE

_register(d) ==
    /\ pc[d] = "register" /\ TimeOut(<<d, "register", 0>>)
    /\ pc' = [pc EXCEPT ![d] = Registered(d)]
    /\ late' = IF <<d, "register", 0>> \in calling THEN late \union {d} ELSE late
    /\ UNCHANGED <<active, parent, children, adding, registered, calling, rel, confused, dropped,
                   joined, lost, releases>>

\* a thread gets through to the device manager, or is refused
deviceManager(thread, ok) ==
    /\ thread \in calling
    /\ calling' = calling \ {thread}
    /\ registered' = CASE ~ok -> registered
                       [] thread[2] = "register" -> registered \union {thread[1]}
                       [] thread[2] = "unregister" -> registered \ {thread[1]}
    /\ late' = IF thread[2] = "unregister" /\ ~ok THEN late \union {thread[1]} ELSE late
    /\ UNCHANGED <<pc, active, parent, children, adding, rel, confused, dropped, joined, lost,
                   releases>>

\* AggregateDevice.addDevice is called until it succeeds.  After a release
\* there is no parent to call, and the loop goes on for good.
registerDevice(d) ==
    /\ pc[d] = "add" /\ parent[d] # None /\ d \notin adding
    /\ adding' = adding \union {d}
    /\ UNCHANGED <<pc, active, parent, children, registered, calling, rel, late, confused, dropped,
                   joined, lost, releases>>

\* the call comes through, maybe after the device has left; the reply may be
\* lost, and so is the call if the parent is gone
addDevice(d, reply) ==
    /\ d \in adding /\ adding' = adding \ {d}
    /\ IF Parent[d] \in active
       THEN /\ children' = [children EXCEPT ![Parent[d]] = Append(@, d)]
            /\ joined' = IF Amid(Parent[d], {"leave", "scan", "remove", "unregister", "wait"})
                         THEN joined \union {d} ELSE joined
            /\ confused' = IF ~reply \/ parent[d] = None \/ Amid(d, {"scan", "remove"})
                           THEN confused \union {d} ELSE confused
       ELSE ~reply /\ UNCHANGED <<children, joined, confused>>
    /\ IF reply THEN pc' = [pc EXCEPT ![d] = "log"] /\ UNCHANGED lost
       ELSE lost < MaxLost /\ lost' = lost + 1 /\ UNCHANGED pc
    /\ UNCHANGED <<active, parent, registered, calling, rel, late, dropped, releases>>

\* saveLoggingContext, then the loop that looks whether the servant is active
saveLoggingContext(d) ==
    /\ pc[d] = "log"
    /\ pc' = [pc EXCEPT ![d] = "run"]
    /\ UNCHANGED <<active, parent, children, adding, registered, calling, rel, late, confused,
                   dropped, joined, lost, releases>>

eventLoop(d) ==
    /\ pc[d] = "run" /\ d \notin active
    /\ pc' = [pc EXCEPT ![d] = "ended"]
    /\ UNCHANGED <<active, parent, children, adding, registered, calling, rel, late, confused,
                   dropped, joined, lost, releases>>

----------------------------------------------------------------------------
(* releaseObject                                                           *)

Call(d) == [dev |-> d, at |-> "children", i |-> 0]
Top(n) == Last(rel[n])
Dev(n) == Top(n).dev
At(n, place) == rel[n] # <<>> /\ Top(n).at = place
To(n, place) == rel' = [rel EXCEPT ![n] = Append(Front(@), [Top(n) EXCEPT !.at = place])]
Advance(n) == rel' = [rel EXCEPT ![n] = Append(Front(@), [Top(n) EXCEPT !.at = "scan", !.i = @ + 1])]

\* a call of somebody who has the device from the device manager or a parent,
\* or who started it without a device manager
releaseObject(d) ==
    /\ d \in registered \/ d \notin Managed \/ \E p \in Devices : d \in ToSet(children[p])
    /\ d \in active /\ releases < MaxReleases
    /\ releases' = releases + 1
    /\ rel' = [rel EXCEPT ![releases + 1] = <<Call(d)>>]
    /\ UNCHANGED <<pc, active, parent, children, adding, registered, calling, late, confused,
                   dropped, joined, lost>>

lookForChildren(n) ==
    /\ At(n, "children")
    /\ To(n, IF children[Dev(n)] = <<>> THEN "leave" ELSE "pop")
    /\ UNCHANGED <<pc, active, parent, children, adding, registered, calling, late, confused,
                   dropped, joined, lost, releases>>

\* the last child is taken from the list and released; that there is none any
\* more, or it is gone, is an error
releaseChild(n) ==
    LET d == Dev(n)
    IN  /\ At(n, "pop")
        /\ IF children[d] = <<>> THEN To(n, "failed") /\ UNCHANGED children
           ELSE /\ children' = [children EXCEPT ![d] = Front(@)]
                /\ IF Last(children[d]) \notin active THEN To(n, "failed")
                   ELSE rel' = [rel EXCEPT ![n] = Append(@, Call(Last(children[d])))]
        /\ UNCHANGED <<pc, active, parent, adding, registered, calling, late, confused, dropped,
                       joined, lost, releases>>

\* the parent is asked to forget the device; a parent that is gone is an error
leaveParent(n) ==
    /\ At(n, "leave")
    /\ IF parent[Dev(n)] = None THEN To(n, "unregister")
       ELSE IF parent[Dev(n)] \in active THEN Advance(n)
       ELSE To(n, "failed")
    /\ UNCHANGED <<pc, active, parent, children, adding, registered, calling, late, confused,
                   dropped, joined, lost, releases>>

\* AggregateDevice.removeDevice walks over the list itself, whoever changes it
\* meanwhile, and asks every child and the device for their identifiers
removeDevice(n) ==
    LET d == Dev(n)  s == children[Parent[d]]
    IN  /\ At(n, "scan")
        /\ IF Top(n).i > Len(s)
           THEN parent' = [parent EXCEPT ![d] = None] /\ To(n, "unregister")
           ELSE /\ UNCHANGED parent
                /\ IF ~({s[Top(n).i], d} \subseteq active) THEN To(n, "failed")
                   ELSE IF s[Top(n).i] = d THEN To(n, "remove")
                   ELSE Advance(n)
        /\ UNCHANGED <<pc, active, children, adding, registered, calling, late, confused, dropped,
                       joined, lost, releases>>

Without_First(s, d) == Tail(s)

\* list.remove: the first entry that is equal
Without(s, d) == RemoveAt(s, SelectInSeq(s, LAMBDA e : e = d))

removeEntry(n) ==
    LET d == Dev(n)  p == Parent[d]
    IN  /\ At(n, "remove")
        /\ IF d \in ToSet(children[p])
           THEN /\ children' = [children EXCEPT ![p] = Without(@, d)]
                /\ confused' = confused \union
                      {e \in Devices \ {d} : Parent[e] = p /\ Amid(e, {"scan", "remove"})}
                /\ Advance(n)
           ELSE To(n, "failed") /\ UNCHANGED <<children, confused>>
        /\ UNCHANGED <<pc, active, parent, adding, registered, calling, late, dropped, joined, lost,
                       releases>>

\* without a device manager nothing is called, and the time is waited for
_unregister(n) ==
    LET d == Dev(n)
    IN  /\ At(n, "unregister") /\ To(n, "wait")
        /\ \/ d \notin Managed /\ UNCHANGED <<calling, late>>
           \/ d \in Managed /\ calling' = calling \union {<<d, "unregister", n>>} /\ UNCHANGED late
           \/ d \in Managed /\ late' = late \union {d} /\ UNCHANGED calling
        /\ UNCHANGED <<pc, active, parent, children, adding, registered, confused, dropped, joined,
                       lost, releases>>

\* locked and deactivated, when the device manager answered or the time is up;
\* the call of the parent goes on with the next child
deactivate(n) ==
    LET d == Dev(n)
    IN  /\ At(n, "wait") /\ TimeOut(<<d, "unregister", n>>)
        /\ rel' = [rel EXCEPT ![n] = Front(@)]
        /\ active' = active \ {d}
        /\ UNCHANGED <<pc, parent, children, adding, registered, calling, late, confused, dropped,
                       joined, lost, releases>>

\* ReleaseError, which fails the call of the parent too
releaseError(n) ==
    LET d == Dev(n)  callers == Front(rel[n])
    IN  /\ At(n, "failed")
        /\ rel' = [rel EXCEPT ![n] = IF callers = <<>> THEN <<>>
                     ELSE Append(Front(callers), [Last(callers) EXCEPT !.at = "failed"])]
        /\ dropped' = IF Parent[d] # None /\ d \notin ToSet(children[Parent[d]])
                      THEN dropped \union {d} ELSE dropped
        /\ UNCHANGED <<pc, active, parent, children, adding, registered, calling, late, confused,
                       joined, lost, releases>>

----------------------------------------------------------------------------
Starting(d) ==
    _register(d) \/ registerDevice(d) \/ addDevice(d, TRUE) \/ saveLoggingContext(d) \/ eventLoop(d)

Releasing(n) ==
    \/ lookForChildren(n) \/ releaseChild(n) \/ leaveParent(n) \/ removeDevice(n) \/ removeEntry(n)
    \/ _unregister(n) \/ deactivate(n) \/ releaseError(n)

Next ==
    \/ \E d \in Devices :
          start_device(d) \/ releaseObject(d) \/ Starting(d) \/ addDevice(d, FALSE)
    \/ \E n \in 1..MaxReleases : Releasing(n)
    \/ \E thread \in calling, ok \in BOOLEAN : deviceManager(thread, ok)

\* the devices get on; nothing is assumed of the device manager's answers
Fairness ==
    /\ \A d \in Devices : WF_vars(Starting(d))
    /\ \A n \in 1..MaxReleases : WF_vars(Releasing(n))

Spec == Init /\ [][Next]_vars /\ Fairness

----------------------------------------------------------------------------
Gone(d) == pc[d] # "off" /\ d \notin active

\* A device that was released is not on the device manager's list once all
\* calls came through, unless its registration was not waited for or its
\* unregistration was refused or could not be made.
Unregistered ==
    \A d \in Devices : Gone(d) /\ (\A thread \in calling : thread[1] # d)
                          => d \notin registered \/ d \in late

\* A parent does not list a device that was released, however many calls
\* released it, unless it was added twice or after it had left, or another
\* child took itself off the same list at the same time.
ParentForgets ==
    \A p, d \in Devices : Gone(d) /\ d \in ToSet(children[p]) => d \in confused

\* When a parent was released none of its children is left: those that are
\* still active joined after it had released the others, or were on no list
\* any more when their own release failed.
ChildrenReleased ==
    \A p, d \in Devices :
        Gone(p) /\ Parent[d] = p /\ d \in active /\ (\A f \in Frames : f.dev # d) =>
            d \in dropped \/ d \in joined \/ pc[d] \in {"off", "register", "add"}

\* A device comes up whatever becomes of its registration, unless it is
\* released first or its parent is.
ComesUp ==
    \A d \in Devices : (pc[d] = "register") ~>
        (\/ pc[d] \in {"run", "ended"} \/ Gone(d) \/ \E f \in Frames : f.dev = d
         \/ Parent[d] # None /\ Gone(Parent[d]))

\* A release comes to an end, though a call to the device manager hangs, and
\* others change the lists that it walks over.
ReleaseEnds == \A n \in 1..MaxReleases : (rel[n] # <<>>) ~> (rel[n] = <<>>)

----------------------------------------------------------------------------
(***************************************************************************)
(* The life of a Python service (ossie/service.py, start_service and       *)
(* patchService): it comes up, registers with its device manager, runs     *)
(* until a signal, an error or the end of the ORB, and cleans up.  The     *)
(* first signal raises SystemExit wherever the process is and makes the    *)
(* process ignore all others.                                              *)
(***************************************************************************)
CONSTANT MaxSignals    \* bound on the signals

VARIABLES at,          \* the statement group of start_service that is next
          armed,       \* signals are not ignored yet
          managed,     \* DEVICE_MGR_IOR was given
          created, patched,   \* the service object and its added methods
          onList,      \* the device manager has the service on its list
          manager,     \* the event manager: none, open or closed
          ownTerminations,    \* calls of the service's own terminateService
          ownReleases,        \* and releaseObject
          unanswered, spoilt, signals \* ghosts: unregisterService failed; the first signal came
                                      \* during the clean-up

serviceVars == <<at, armed, managed, created, patched, onList, manager, ownTerminations,
                 ownReleases, unanswered, spoilt, signals>>

Body == <<"orb", "logging", "create", "patch", "register", "context", "run">>
Cleanup == {"unregister", "terminate", "release"}

ServiceInit ==
    /\ at = "orb" /\ armed = TRUE /\ managed \in BOOLEAN
    /\ created = FALSE /\ patched = FALSE /\ onList = FALSE /\ manager = "none"
    /\ ownTerminations = 0 /\ ownReleases = 0
    /\ unanswered = FALSE /\ spoilt = FALSE /\ signals = 0

(* Where SystemExit and every other exception of the body lead.            *)
AfterBody == "unregister"

Then == [x \in {Body[i] : i \in 1..6} |-> Body[CHOOSE i \in 2..7 : Body[i - 1] = x]]

(* The statements before the service object exists.                        *)
Prepare ==
    /\ at \in {"orb", "logging"}
    /\ at' \in {Then[at], AfterBody}
    /\ UNCHANGED <<armed, managed, created, patched, onList, manager, ownTerminations, ownReleases,
                   unanswered, spoilt, signals>>

Create ==
    /\ at = "create"
    /\ \/ created' = TRUE /\ at' = Then[at]
       \/ UNCHANGED created /\ at' = AfterBody
    /\ UNCHANGED <<armed, managed, patched, onList, manager, ownTerminations, ownReleases,
                   unanswered, spoilt, signals>>

patchService ==
    /\ at = "patch"
    /\ patched' = TRUE /\ at' = Then[at]
    /\ UNCHANGED <<armed, managed, created, onList, manager, ownTerminations, ownReleases,
                   unanswered, spoilt, signals>>

(* The call may fail, with or without its effect.                          *)
registerService ==
    /\ at = "register"
    /\ \/ managed /\ onList' = TRUE /\ at' \in {Then[at], AfterBody}
       \/ managed /\ UNCHANGED onList /\ at' = AfterBody
       \/ ~managed /\ UNCHANGED onList /\ at' = Then[at]
    /\ UNCHANGED <<armed, managed, created, patched, manager, ownTerminations, ownReleases, unanswered,
                   spoilt, signals>>

(* The added saveLoggingContext gets the event manager last.               *)
saveServiceContext ==
    /\ at = "context"
    /\ \/ manager' \in {"open", "none"} /\ at' = Then[at]
       \/ UNCHANGED manager /\ at' = AfterBody
    /\ UNCHANGED <<armed, managed, created, patched, onList, ownTerminations, ownReleases,
                   unanswered, spoilt, signals>>

runService ==
    /\ at = "run" /\ at' = AfterBody
    /\ UNCHANGED <<armed, managed, created, patched, onList, manager, ownTerminations, ownReleases,
                   unanswered, spoilt, signals>>

unregisterService ==
    /\ at = "unregister" /\ at' = "terminate"
    /\ \/ managed /\ onList' = FALSE /\ UNCHANGED unanswered
       \/ managed /\ unanswered' = TRUE /\ UNCHANGED onList
       \/ ~managed /\ UNCHANGED <<onList, unanswered>>
    /\ UNCHANGED <<armed, managed, created, patched, manager, ownTerminations, ownReleases, spoilt,
                   signals>>

(* The added methods close the event manager first, then call the          *)
(* service's own.                                                          *)
Closed == IF patched /\ manager = "open" THEN "closed" ELSE manager

terminateService ==
    /\ at = "terminate" /\ at' = "release"
    /\ IF created THEN ownTerminations' = ownTerminations + 1 /\ manager' = Closed
                  ELSE UNCHANGED <<ownTerminations, manager>>
    /\ UNCHANGED <<armed, managed, created, patched, onList, ownReleases, unanswered, spoilt,
                   signals>>

releaseService ==
    /\ at = "release" /\ at' = "ended"
    /\ IF created THEN ownReleases' = ownReleases + 1 /\ manager' = Closed
                  ELSE UNCHANGED <<ownReleases, manager>>
    /\ UNCHANGED <<armed, managed, created, patched, onList, ownTerminations, unanswered, spoilt,
                   signals>>

(* __exit_handler: only the first signal has an effect.  In the clean-up   *)
(* the interrupted call is given up, and between two calls all that is     *)
(* left is the end of the ORB.  Where the logging is set up a bare except  *)
(* swallows the SystemExit, and the service runs on without a signal left. *)
Ignored == FALSE

__exit_handler ==
    /\ signals < MaxSignals /\ signals' = signals + 1
    /\ at # "ended" /\ armed
    /\ armed' = Ignored
    /\ \/ at \notin Cleanup /\ at' = AfterBody
       \/ at = "unregister" /\ at' \in {"terminate", "ended"}
       \/ at = "terminate" /\ at' \in {"release", "ended"}
       \/ at = "release" /\ at' = "ended"
       \/ at \in {"logging", "context"} /\ UNCHANGED at
    /\ spoilt' = (spoilt \/ (at \in Cleanup /\ signals = 0))
    /\ UNCHANGED <<managed, created, patched, onList, manager, ownTerminations, ownReleases,
                   unanswered>>

ServiceNext == Prepare \/ Create \/ patchService \/ registerService \/ saveServiceContext \/ runService
            \/ unregisterService \/ terminateService \/ releaseService \/ __exit_handler

(* A service whose process ends is not left on the device manager's list,  *)
(* wherever a signal or an error met it, unless the device manager could   *)
(* not be told (service.py, start_service).                                *)
ServiceUnregistered == at = "ended" => ~onList \/ unanswered \/ spoilt

(* The service's own terminateService and releaseObject are each called    *)
(* once and the event manager is closed, however many signals arrive,      *)
(* unless the first came during the clean-up after another end.            *)
CleanedUpOnce ==
    at = "ended" => \/ spoilt
                    \/ /\ ownTerminations = ownReleases
                       /\ ownTerminations = (IF created THEN 1 ELSE 0)
                       /\ manager # "open"

==============================================================================
