--------------------------- MODULE MCPyComponent ---------------------------
(***************************************************************************)
(* The parts of a Python component or device in one run: kind says which   *)
(* of them a behaviour is about, and never changes.                        *)
(***************************************************************************)
EXTENDS PyResource, SequencesExt

CONSTANTS Kinds,          \* the parts that a run is about
          c1, c2, p1, p2, a, b,
          Capacity, Devices, Managed, MaxLost, MaxReleases, MaxDeviceCalls,
          Names, Pids, MaxLoads, MaxCommands,
          Levels, MaxLogCalls,
          Connections, Local, Senders, Unknown, Limit, MaxOps,
          Retries, MaxFaults, MaxSignals,
          Broken, MaxObjects, MaxViewCalls, MaxViewFaults, MaxStates

VARIABLES kind,
          used, held, leaked, usage, admin, heard, untold, d_lock, d_call, mixed, crossed, closing,
          d_released, d_calls,
          l_pc, active, parent, children, adding, registered, calling, rel, late, confused, dropped, joined,
          lost, releases,
          disk, loaded, packages, environ, x_lock, loads, stray, clobbered, applications,
          process, x_call, locked, x_released, unseen, commands,
          level, callback, original, asked, fresh, logCalls,
          connected, proxy_, stuck, m_call, queue, instances, consumers, orphans, alive, delivered, put, ops,
          e_lock, allow, registrations, domain, object, disconnected, proxy, channel, telling,
          doing, e_leaked, unsure, e_crossed, refused, faults,
          s_at, armed, managed, created, patched, onList, manager, ownTerminations, ownReleases,
          unanswered, spoilt, signals,
          v_variety, odm, v_used, listed, told, v_alive, v_channel, handler, cached, view, v_lock,
          v_call, announced, zombies, forgotten, wrong, v_faults, viewCalls,
          state, sending, reports, copy, setting, excused, changes_

dvars == <<used, held, leaked, usage, admin, heard, untold, d_lock, d_call, mixed, crossed, closing,
           d_released, d_calls>>
lvars == <<l_pc, active, parent, children, adding, registered, calling, rel, late, confused, dropped, joined,
           lost, releases>>
xvars == <<disk, loaded, packages, environ, x_lock, loads, stray, clobbered, applications,
           process, x_call, locked, x_released, unseen, commands>>
gvars == <<level, callback, original, asked, fresh, logCalls>>
mvars == <<connected, proxy_, stuck, m_call, queue, instances, consumers, orphans, alive, delivered, put, ops>>
evars == <<e_lock, allow, registrations, domain, object, disconnected, proxy, channel, telling,
           doing, e_leaked, unsure, e_crossed, refused, faults>>
svars == <<s_at, armed, managed, created, patched, onList, manager, ownTerminations, ownReleases,
           unanswered, spoilt, signals>>
wvars == <<v_variety, odm, v_used, listed, told, v_alive, v_channel, handler, cached, view, v_lock,
           v_call, announced, zombies, forgotten, wrong, v_faults, viewCalls,
           state, sending, reports, copy, setting, excused, changes_>>

MCParent == a :> None @@ b :> a @@ c1 :> a

MCName == <<"x", "x", "y">>

Tree == "f" :> {<<"x", 0>>} @@ "d" :> {<<"x", 0>>, <<"y", 0>>}
Main == "f" :> <<"x", 0>> @@ "d" :> <<"y", 0>>

Configs == {[root |-> 30, own |-> (<<"comp_1">> :> 10)],
            [root |-> 40, own |-> (<<"comp">> :> 20 @@ <<"comp_1", "system">> :> 5)],
            [root |-> 5, own |-> (<<"comp_1", "system", "Resource">> :> 50)]}

Size == "small" :> 1 @@ "big" :> 2 @@ "bad" :> 1
Batches == {<<"small", "small">>, <<"small", "big", "small">>, <<"bad", "small">>}

Dev == INSTANCE PyDevice WITH Props <- {p1, p2}, Clients <- {c1, c2}, MaxCalls <- MaxDeviceCalls,
          lock <- d_lock, call <- d_call, released <- d_released, calls <- d_calls
ASSUME ComponentDevice == Dev!DeviceConstants

Life == INSTANCE PyLifeCycle WITH Parent <- MCParent, pc <- l_pc, at <- s_at
Exec == INSTANCE PyExecutable WITH Clients <- {c1, c2}, MaxCalls <- MaxCommands, lock <- x_lock,
           call <- x_call, released <- x_released, calls <- commands
ASSUME ComponentExecutable == Exec!ExecutableConstants

Logs == INSTANCE PyLogging
Msgs == INSTANCE PyMessages WITH call <- m_call, proxy <- proxy_
ASSUME ComponentMessages == Msgs!MessagesConstants

EventThreads == {c1, c2}
EventObjects == {a, b}
Events == INSTANCE PyEvents WITH Threads <- EventThreads, Objects <- EventObjects, lock <- e_lock,
             leaked <- e_leaked, crossed <- e_crossed
ASSUME ComponentEvents == Events!EventsConstants

ViewObjects == 1..3
ViewClients == {c1, c2}
View == INSTANCE PyDomainView WITH Objects <- ViewObjects, Name <- MCName, Clients <- ViewClients,
           States <- Values, MaxFaults <- MaxViewFaults, variety <- v_variety, used <- v_used,
           alive <- v_alive, channel <- v_channel, lock <- v_lock, call <- v_call,
           faults <- v_faults, changes <- changes_
ASSUME ComponentView == View!ViewConstants

\* a parent and one child from their start on, and another child that comes
\* while one is there
LifeInit ==
    \/ Life!Settled(<<>>, {c1})
    \/ kind = "lifecycle" /\ Life!Settled(<<a, c1>>, {})

----------------------------------------------------------------------------
(* One of the parts moves, the others are idle.                            *)

MCInit ==
    /\ kind \in Kinds
    /\ Init /\ (kind # "resource" => value = [p \in Props |-> 0])
    /\ Dev!Init /\ LifeInit /\ Exec!Init /\ Msgs!Init
    /\ Events!Init /\ Life!ServiceInit /\ (kind # "service" => managed)
    /\ View!Init /\ (kind # "view" => v_variety = "app" /\ odm)
    /\ Logs!Init /\ (kind # "logging" => original = [url |-> None, debug |-> None])

MCNext ==
    /\ UNCHANGED kind
    /\ \/ kind = "resource" /\ Next /\ UNCHANGED <<dvars, lvars, xvars, gvars, mvars, evars, svars, wvars>>
       \/ kind = "device" /\ Dev!Next
             /\ UNCHANGED <<vars, lvars, xvars, gvars, mvars, evars, svars, wvars>>
       \/ kind = "lifecycle" /\ Life!Next
             /\ UNCHANGED <<vars, dvars, xvars, gvars, mvars, evars, svars, wvars>>
       \/ kind = "executable" /\ Exec!Next
             /\ UNCHANGED <<vars, dvars, lvars, gvars, mvars, evars, svars, wvars>>
       \/ kind = "logging" /\ Logs!Next
             /\ UNCHANGED <<vars, dvars, lvars, xvars, mvars, evars, svars, wvars>>
       \/ kind = "messages" /\ Msgs!Next
             /\ UNCHANGED <<vars, dvars, lvars, xvars, gvars, evars, svars, wvars>>
       \/ kind = "events" /\ Events!Next
             /\ UNCHANGED <<vars, dvars, lvars, xvars, gvars, mvars, svars, wvars>>
       \/ kind = "service" /\ Life!ServiceNext
             /\ UNCHANGED <<vars, dvars, lvars, xvars, gvars, mvars, evars, wvars>>
       \/ kind = "view" /\ View!Next
             /\ UNCHANGED <<vars, dvars, lvars, xvars, gvars, mvars, evars, svars>>

\* a part that is idle has no step that could be overdue
MCFairness == Fairness /\ Dev!Fairness /\ Life!Fairness /\ Msgs!Fairness /\ Events!Fairness

MCSafety ==
    MCInit /\ [][MCNext]_<<kind, vars, dvars, lvars, xvars, gvars, mvars, evars, svars, wvars>>

MCSpec == MCSafety /\ MCFairness

----------------------------------------------------------------------------
\* A change of a property that somebody monitors is reported or about to be, and
\* the monitor runs while it has work (PyResource).
ResourceTrue == kind = "resource" => ChangesWillBeReported /\ MonitorRuns

\* The units of a device's capacities add up, its usage state follows them, and
\* the domain knows its administrative state (PyDevice).
DeviceTrue == kind = "device" => Dev!DeviceTrue

\* What is gone is on nobody's list: a released device leaves its device manager
\* and its parent, and takes its children along; a service that ended is
\* unregistered, once, whatever signals arrive (PyLifeCycle).
LifeCycleTrue ==
    /\ kind = "lifecycle" => Life!Unregistered /\ Life!ParentForgets /\ Life!ChildrenReleased
    /\ kind = "service" => Life!ServiceUnregistered /\ Life!CleanedUpOnce

\* The disk holds what is loaded and no more, every process is on record, none
\* survives its device, and each runs with the packages it was linked to
\* (PyExecutable).
ExecutableTrue ==
    kind = "executable" =>
    /\ Exec!LoadedOnDisk /\ Exec!NothingLeft
    /\ Exec!ProcessesKnown /\ Exec!ReleaseKillsAll /\ Exec!EnvironmentRight

\* A level that was set is the level that holds, and a reset restores the
\* levels of the start (PyLogging).
LoggingTrue == kind = "logging" => Logs!LevelKept /\ Logs!ResetRestores

\* A list of messages arrives whole and once at a consumer that no push fails to
\* reach (PyMessages); the event manager
\* knows what the domain has registered, a publisher whether it is connected,
\* and one that was terminated has left its channel (PyEvents); what a client
\* knows of the domain is true once the domain's events are handled (PyDomainView).
EventsTrue ==
    /\ kind = "messages" => Msgs!BatchesWhole
    /\ kind = "events" => Events!RegistrationsKnown /\ Events!ConnectedTrue /\ Events!ChannelLeft
    /\ kind = "view" => /\ View!ViewTrue /\ View!ListenersAgree
                        /\ View!ListsTrue /\ View!CopyTrue

\* Every call of a component returns, though remote calls hang or fail: calls of
\* the resource and the device, the start and the release of a device, and the
\* calls of the event manager.
ComponentCallsReturn ==
    CallsReturn /\ Dev!CallsReturn /\ Life!ComesUp /\ Life!ReleaseEnds /\ Events!EventCallsReturn

\* Nothing that was accepted is forgotten: a change of a monitored property is
\* reported, a message that arrived is handed on, and the consumer of a lost
\* connection is destroyed.
NothingForgotten == ReportedEventually /\ Msgs!Drained /\ Msgs!Forgotten
============================================================================
