------------------------------ MODULE PyResource ------------------------------
(***************************************************************************)
(* ossie.resource.Resource: the properties of a Python component, their    *)
(* change listeners and the thread that watches the properties.            *)
(*                                                                         *)
(* configure, initializeProperties, the registrations and a pass of the    *)
(* thread take propertySetAccess; an assignment in the component's own     *)
(* code does not, so that it falls between any two steps of a pass.        *)
(***************************************************************************)
EXTENDS Integers, FiniteSets, FiniteSetsExt, TLC

CONSTANTS Props, Listeners, Clients,
          Threads,        \* threads of the monitor, the ones that stop included
          Values,
          Interval,       \* passes from one report of a registration to the next
          MaxChanges,     \* bound on changes of a property
          MaxCalls,       \* bound on calls
          None

ASSUME ResourceAssumption == Interval \in Nat /\ MaxChanges \in Nat /\ MaxCalls \in Nat

\* a lock is free, a client's or a thread's, and None is no table of monitors
ASSUME NoneAssumption ==
    /\ None \notin Threads \union Clients /\ Threads \intersect Clients = {}
    /\ None \notin [Props -> [old : Values, tested : BOOLEAN, diff : BOOLEAN]]

VARIABLES value,        \* the properties
          constructed,  \* __propertiesInitialized
          initialized,  \* __initialized
          monitors,     \* _propMonitors: None, or what is known of each property
          registry,     \* _propChangeRegistry: the listeners registered
          changed,      \* the properties each record has to report
          expiration,   \* passes until each record reports
          known,        \* ghost: the value each listener knows
          missed,       \* ghost: changes a listener is not promised
          lock,         \* propertySetAccess: None, a client or a thread
          current,      \* process_thread
          thread,       \* the threads
          call,         \* the call of each client that is under way
          released,
          changes, calls

vars == <<value, constructed, initialized, monitors, registry, changed, expiration, known,
          missed, lock, current, thread, call, released, changes, calls>>

component == <<value, constructed, initialized, monitors>>
records == <<registry, changed, expiration, known, missed>>
bounds == <<changes, calls>>

Off == [pc |-> "off", stop |-> FALSE, todo |-> {}, rec |-> None]

Init ==
    /\ value \in [Props -> Values]
    /\ constructed = FALSE /\ initialized = FALSE
    /\ monitors = None
    /\ registry = {}
    /\ changed = [l \in Listeners |-> {}]
    /\ expiration = [l \in Listeners |-> 0]
    /\ known = [l \in Listeners |-> value]
    /\ missed = [l \in Listeners |-> {}]
    /\ lock = None
    /\ current = None
    /\ thread = [t \in Threads |-> Off]
    /\ call = [c \in Clients |-> None]
    /\ released = FALSE
    /\ changes = 0 /\ calls = 0

----------------------------------------------------------------------------
(* _PCL_MonitorTrack: the last value, and what the comparison of this pass *)
(* found                                                                   *)

Monitor(v) == [old |-> v, tested |-> FALSE, diff |-> FALSE]

isChanged(p) == LET m == monitors[p] IN IF m.tested THEN m.diff ELSE m.old # value[p]

Tested(p) == [monitors[p] EXCEPT !.tested = TRUE, !.diff = isChanged(p)]

\* a change that the comparisons do not show to a listener: there are none
\* yet, or this pass has made them and the reset that ends it will take the
\* new value
Blind(l, p) ==
    \/ monitors = None
    \/ monitors[p].tested /\ ~monitors[p].diff
    \/ \E t \in Threads : thread[t].pc \in {"compare", "report"} /\ l \notin thread[t].todo

Excused(p) ==
    [l \in Listeners |-> IF l \in registry /\ Blind(l, p) THEN missed[l] \union {p} ELSE missed[l]]

----------------------------------------------------------------------------
(* The component's own code                                                *)

\* an assignment to a property, without the lock
Assign(p, v) ==
    /\ changes < MaxChanges /\ changes' = changes + 1
    /\ v # value[p]
    /\ value' = [value EXCEPT ![p] = v]
    /\ missed' = Excused(p)
    /\ UNCHANGED <<constructed, initialized, monitors, registry, changed, expiration, known,
                   lock, current, thread, call, released, calls>>

----------------------------------------------------------------------------
(* Calls                                                                   *)

Called == ~released /\ calls < MaxCalls /\ calls' = calls + 1

\* initialize: a constructor that raises leaves no monitors, for good.  They are
\* entered one by one without the lock: a pass that goes through them meanwhile
\* raises a RuntimeError, which ends the process.  Only what comes before such an
\* end is modelled.
initialize(ok) ==
    /\ Called /\ ~initialized
    /\ initialized' = TRUE
    /\ monitors' = IF ok THEN [p \in Props |-> Monitor(value[p])] ELSE None
    /\ missed' = [l \in Listeners |->
                     IF l \in registry THEN missed[l] \union {p \in Props : known[l][p] # value[p]}
                     ELSE missed[l]]
    /\ UNCHANGED <<value, constructed, registry, changed, expiration, known, lock, current,
                   thread, call, released, changes>>

\* configure, one property: set, then its own listener, which may raise and
\* so keep the registrations from hearing of it, then the registrations
configure(p, v, raises) ==
    /\ Called /\ lock = None
    /\ changes < MaxChanges /\ changes' = changes + 1
    /\ value' = [value EXCEPT ![p] = v]
    /\ changed' = [l \in Listeners |-> IF l \in registry /\ ~raises
                                       THEN changed[l] \union {p} ELSE changed[l]]
    /\ missed' = IF raises /\ v # value[p] THEN Excused(p) ELSE missed
    /\ UNCHANGED <<constructed, initialized, monitors, registry, expiration, known, lock,
                   current, thread, call, released>>

\* initializeProperties: once, and no listener is called
initializeProperties(p, v) ==
    /\ Called /\ lock = None /\ ~constructed
    /\ constructed' = TRUE
    /\ value' = [value EXCEPT ![p] = v]
    /\ missed' = IF v # value[p] THEN Excused(p) ELSE missed
    /\ UNCHANGED <<initialized, monitors, registry, changed, expiration, known, lock, current,
                   thread, call, released, changes>>

Unused == {t \in Threads : thread[t].pc = "off"}

startThread_Alive ==
    IF Cardinality(Unused) < Cardinality(Threads) THEN UNCHANGED <<current, thread>>
    ELSE /\ current' = CHOOSE t \in Unused : TRUE
         /\ thread' = [thread EXCEPT ![current'] = [Off EXCEPT !.pc = "check"]]

\* startThread
startThread ==
    IF current # None THEN UNCHANGED <<current, thread>>
    ELSE /\ Unused # {}
         /\ current' = CHOOSE t \in Unused : TRUE
         /\ thread' = [thread EXCEPT ![current'] = [Off EXCEPT !.pc = "check"]]

\* registerPropertyListener for all properties
registerPropertyListener(l) ==
    /\ Called /\ lock = None /\ l \notin registry
    /\ registry' = registry \union {l}
    /\ changed' = [changed EXCEPT ![l] = {}]
    /\ expiration' = [expiration EXCEPT ![l] = Interval]
    /\ known' = [known EXCEPT ![l] = value]
    /\ missed' = [missed EXCEPT ![l] = {p \in Props : monitors # None /\ monitors[p].old # value[p]}]
    /\ startThread
    /\ UNCHANGED <<component, lock, call, released, changes>>

\* stopThread: the signal; the join is a step of its own
Signalled == IF current = None THEN thread ELSE [thread EXCEPT ![current].stop = TRUE]

StopsLast == registry' = {}

\* unregisterPropertyListener: the lock is kept while the thread is joined
unregisterPropertyListener(c, l) ==
    /\ Called /\ call[c] = None /\ lock = None /\ l \in registry
    /\ registry' = registry \ {l}
    /\ IF StopsLast
       THEN /\ current' = None
            /\ thread' = Signalled
            /\ lock' = c
            /\ call' = [call EXCEPT ![c] = [join |-> current, locked |-> TRUE]]
       ELSE UNCHANGED <<current, thread, lock, call>>
    /\ UNCHANGED <<component, changed, expiration, known, missed, released, changes>>

\* releaseObject stops the monitor without the lock
releaseObject(c) ==
    /\ Called /\ call[c] = None
    /\ released' = TRUE
    /\ current' = None
    /\ thread' = Signalled
    /\ call' = [call EXCEPT ![c] = [join |-> current, locked |-> FALSE]]
    /\ UNCHANGED <<component, records, lock, changes>>

\* join(timeout): the thread has ended, or five seconds have passed; it may be
\* waiting for the lock that the caller holds
Joined(c) == TRUE

stopThread(c) ==
    /\ call[c] # None /\ Joined(c)
    /\ call' = [call EXCEPT ![c] = None]
    /\ lock' = IF call[c].locked THEN None ELSE lock
    /\ UNCHANGED <<component, records, current, thread, released, bounds>>

----------------------------------------------------------------------------
(* ProcessThread.run and _propertyChangeServiceFunction                    *)

\* the loop: a thread that was signalled ends
run(t) ==
    /\ thread[t].pc = "check"
    /\ thread' = [thread EXCEPT ![t] = IF thread[t].stop THEN Off ELSE [@ EXCEPT !.pc = "wait"]]
    /\ UNCHANGED <<component, records, lock, current, call, released, bounds>>

acquire(t) ==
    /\ thread[t].pc = "wait" /\ lock = None
    /\ lock' = t
    /\ thread' = [thread EXCEPT ![t].pc = "compare", ![t].todo = registry]
    /\ UNCHANGED <<component, records, current, call, released, bounds>>

\* the changes of one record
Recorded(l) == changed[l] \union (IF monitors = None THEN {} ELSE {p \in Props : isChanged(p)})

compare(t, l) ==
    /\ thread[t].pc = "compare" /\ l \in thread[t].todo
    /\ changed' = [changed EXCEPT ![l] = Recorded(l)]
    /\ monitors' = IF monitors = None THEN None ELSE [p \in Props |-> Tested(p)]
    /\ thread' = [thread EXCEPT ![t].pc = "report", ![t].todo = @ \ {l}, ![t].rec = l]
    /\ expiration' = [expiration EXCEPT ![l] = Max({0, @ - 1})]
    /\ UNCHANGED <<value, constructed, initialized, registry, known, missed, lock, current, call,
                   released, bounds>>

Due(l) == expiration[l] = 0 /\ changed[l] # {}

\* the properties that changed are queried and sent; a record is reset when
\* its time has come, whether notify failed or not
report(t, l, sent) ==
    /\ thread[t].pc = "report" /\ l = thread[t].rec
    /\ thread' = [thread EXCEPT ![t].pc = "compare", ![t].rec = None]
    /\ IF ~Due(l) THEN UNCHANGED <<changed, known, missed>> /\ sent
       ELSE /\ changed' = [changed EXCEPT ![l] = {}]
            /\ known' = IF sent
                        THEN [known EXCEPT ![l] = [p \in Props |-> IF p \in changed[l] THEN value[p]
                                                                  ELSE @[p]]]
                        ELSE known
            /\ missed' = [missed EXCEPT ![l] = IF sent THEN @ \ changed[l] ELSE @ \union changed[l]]
    /\ expiration' = IF expiration[l] = 0 THEN [expiration EXCEPT ![l] = Interval] ELSE expiration
    /\ UNCHANGED <<component, registry, lock, current, call, released, bounds>>

\* all monitors start from the current values again
ResetMonitors ==
    IF monitors = None \/ registry = {} THEN monitors
    ELSE [p \in Props |-> Monitor(value[p])]

reset(t) ==
    /\ thread[t].pc = "compare" /\ thread[t].todo = {}
    /\ monitors' = ResetMonitors
    /\ lock' = None
    /\ thread' = [thread EXCEPT ![t].pc = "check"]
    /\ UNCHANGED <<value, constructed, initialized, records, current, call, released, bounds>>

Step(t) ==
    \/ run(t) \/ acquire(t) \/ reset(t)
    \/ \E l \in Listeners : compare(t, l) \/ report(t, l, TRUE) \/ report(t, l, FALSE)

----------------------------------------------------------------------------
Next ==
    \/ \E p \in Props, v \in Values : Assign(p, v) \/ initializeProperties(p, v)
    \/ \E p \in Props, v \in Values, r \in BOOLEAN : configure(p, v, r)
    \/ \E ok \in BOOLEAN : initialize(ok)
    \/ \E l \in Listeners : registerPropertyListener(l)
    \/ \E c \in Clients, l \in Listeners : unregisterPropertyListener(c, l)
    \/ \E c \in Clients : releaseObject(c) \/ stopThread(c)
    \/ \E t \in Threads : Step(t)

\* a running thread gets on, and a join ends
Fairness ==
    /\ \A t \in Threads : WF_vars(Step(t))
    /\ \A c \in Clients : WF_vars(stopThread(c))

Spec == Init /\ [][Next]_vars /\ Fairness

----------------------------------------------------------------------------
ThreadRecords ==
    [pc : {"off", "check", "wait", "compare", "report"}, stop : BOOLEAN, todo : SUBSET Listeners,
     rec : Listeners \union {None}]
MonitorRecords == [old : Values, tested : BOOLEAN, diff : BOOLEAN]
CallRecords == [join : Threads \union {None}, locked : BOOLEAN]

TypeOK ==
    /\ value \in [Props -> Values]
    /\ monitors = None \/ monitors \in [Props -> MonitorRecords]
    /\ registry \subseteq Listeners
    /\ changed \in [Listeners -> SUBSET Props]
    /\ known \in [Listeners -> [Props -> Values]]
    /\ missed \in [Listeners -> SUBSET Props]
    /\ lock \in {None} \union Clients \union Threads
    /\ current \in {None} \union Threads
    /\ thread \in [Threads -> ThreadRecords]
    /\ call \in [Clients -> {None} \union CallRecords]
    /\ released \in BOOLEAN

----------------------------------------------------------------------------
\* A registered listener whose value of a property is not the current one is
\* going to be told: the change is recorded, or the comparison of this pass or
\* of the next one will find it.  Not promised are assignments that fall between the
\* comparison and the reset of a pass, changes under a registration made when
\* the monitors were out of date, and reports that could not be sent.
ChangesWillBeReported ==
    \A l \in registry : \A p \in Props :
        known[l][p] # value[p] =>
            \/ p \in changed[l] \/ p \in missed[l]
            \/ /\ monitors # None /\ isChanged(p)
               /\ monitors[p].tested => \E t \in Threads : l \in thread[t].todo

\* As long as somebody is registered, the thread that watches the properties
\* runs, whatever stops and starts came before.
MonitorRuns ==
    ~released /\ registry # {} /\ lock = None =>
        current # None /\ thread[current].pc # "off" /\ ~thread[current].stop

\* A listener hears of a change, unless the component goes away.
ReportedEventually ==
    \A l \in Listeners, p \in Props :
        (l \in registry /\ known[l][p] # value[p])
            ~> (l \notin registry \/ released \/ known[l][p] = value[p] \/ p \in missed[l])

\* A call that stops the thread returns, though the thread may be waiting
\* for the very lock the call holds.
CallsReturn == \A c \in Clients : (call[c] # None) ~> (call[c] = None)
============================================================================
