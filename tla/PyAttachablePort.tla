------------------------- MODULE PyAttachablePort -------------------------
(***************************************************************************)
(* OutAttachablePort of bulkio/output_ports.py, the output port of SDDS    *)
(* and VITA49 streams: it attaches every stream definition it has to the   *)
(* receivers the filter table routes it to, and detaches it again.         *)
(* Calls are steps between two acquisitions of port_lock; removeStream,    *)
(* and the removal that attach begins with, do not take it.  A receiver    *)
(* answers attach with a new attachment ID, or cannot be reached.          *)
(***************************************************************************)
EXTENDS Integers, FiniteSets

CONSTANTS Conns, Streams, SRIs,
          Filters,       \* filter tables: sets of <<stream ID, connection ID>>
          MaxPortCalls,  \* bound: calls on the port and failures
          None

VARIABLES
    outConnections, filterTable,
    sriDict,      \* stream ID -> None or [sri, connections]
    container,    \* stream ID -> None or its attachments [conn, id]
    connecting,   \* connections whose connectPort is between its two parts
    removing,     \* stream ID -> a removal is between detachAll and the end, and
                  \* what follows it: None, "remove" or "add"
    stuck,        \* updateStream returned with port_lock held
    up,           \* receivers that can be reached
    attached,     \* what is attached at the receivers: [stream, conn, id]
    rxSRI,        \* connection -> stream ID -> the SRI its receiver was sent, or None
    calls,        \* calls and failures so far; numbers the attachments
    failed,       \* ghost: an attachment or a detachment failed
    raced,        \* ghost: streams that were attached while they were removed
    cut           \* ghost: connections that a client detached

vars == <<outConnections, filterTable, sriDict, container, connecting, removing, stuck, up,
          attached, rxSRI, calls, failed, raced, cut>>
ghosts == <<raced, cut>>

Init ==
    /\ outConnections = {} /\ filterTable = {} /\ connecting = {} /\ attached = {}
    /\ sriDict = [s \in Streams |-> None]
    /\ container = [s \in Streams |-> None]
    /\ removing = [s \in Streams |-> None]
    /\ stuck = FALSE /\ up = Conns /\ calls = 0 /\ failed = FALSE
    /\ rxSRI = [c \in Conns |-> [s \in Streams |-> None]]
    /\ raced = {} /\ cut = {}

----------------------------------------------------------------------------
(* Attachments.                                                            *)

Known == {s \in Streams : container[s] # None}
Routed(s, c) == filterTable = {} \/ <<s, c>> \in filterTable
IsAttached(s, c) == \E a \in container[s] : a.conn = c

\* createNewAttachment for the pairs <<stream, connection>> in P that are not
\* attached yet; the first receiver that fails ends the operation
Attach(P, done) ==
    LET new(s) == {[conn |-> p[2], id |-> calls] : p \in {q \in done : q[1] = s}}
    IN  /\ container' = [s \in Streams |-> IF container[s] = None THEN None
                                           ELSE container[s] \cup new(s)]
        /\ attached' = attached \cup {[stream |-> p[1], conn |-> p[2], id |-> calls] : p \in done}
        /\ failed' = (failed \/ done # P)
        /\ raced' = raced \cup {s \in Streams : removing[s] # None /\ new(s) # {}}

\* all of P if every receiver answers, else what was reached before one did not
Reached(P) == IF \A p \in P : p[2] \in up THEN {P}
              ELSE SUBSET {p \in P : p[2] \in up}

\* the detachment of A: a receiver that cannot be reached keeps its attachment,
\* the record is dropped
AtReceiver(s, A) == {[stream |-> s, conn |-> a.conn, id |-> a.id] : a \in {b \in A : b.conn \in up}}

\* updateSRIForAllConnections: attached connections that lack the SRI get it; the
\* first receiver that fails ends the loop over the others
SriMissing(s, atts) == IF sriDict[s] = None THEN {}
                       ELSE ({a.conn : a \in atts} \cap outConnections) \ sriDict[s].connections
updateSRIForAllConnections ==
    LET missing == {p \in Streams \X Conns : container'[p[1]] # None /\ p[2] \in SriMissing(p[1], container'[p[1]])}
    IN  \E done \in Reached(missing) :
        LET sent(s) == {c \in Conns : <<s, c>> \in done}
        IN
        /\ sriDict' = [s \in Streams |-> IF sriDict[s] = None THEN None
                         ELSE [sriDict[s] EXCEPT !.connections = @ \cup sent(s)]]
        /\ rxSRI' = [c \in Conns |-> [s \in Streams |->
                         IF c \in sent(s) THEN sriDict[s].sri ELSE rxSRI[c][s]]]

Call == ~stuck /\ calls < MaxPortCalls /\ calls' = calls + 1

----------------------------------------------------------------------------
(* Connections.                                                            *)

connectPort(c) ==
    /\ Call
    /\ c \notin outConnections
    /\ outConnections' = outConnections \cup {c}
    /\ connecting' = connecting \cup {c}
    /\ UNCHANGED <<filterTable, sriDict, container, removing, stuck, up, attached, rxSRI, failed, ghosts>>

\* with the lock again: attach the streams that are routed to the connection; a
\* failure is reported, and the connection stays
connectPort_attach(c) ==
    LET P == {<<s, c>> : s \in {t \in Known : Routed(t, c) /\ ~IsAttached(t, c)}}
    IN  /\ ~stuck /\ c \in connecting
        /\ connecting' = connecting \ {c}
        /\ IF c \notin outConnections
           THEN UNCHANGED <<container, attached, failed, raced, sriDict, rxSRI>>
           ELSE \E done \in Reached(P) :
                   /\ Attach(P, done)
                   /\ IF done = P THEN updateSRIForAllConnections ELSE UNCHANGED <<sriDict, rxSRI>>
        /\ calls' = calls + 1
        /\ UNCHANGED <<outConnections, filterTable, removing, stuck, up, cut>>

\* the receiver of a connection made again may be another one, without any SRI
disconnectPort(c) ==
    LET of(s) == IF container[s] = None THEN {} ELSE {a \in container[s] : a.conn = c}
    IN  /\ Call
        /\ c \in outConnections
        /\ container' = [s \in Streams |-> IF container[s] = None THEN None ELSE container[s] \ of(s)]
        /\ attached' = attached \ UNION {AtReceiver(s, of(s)) : s \in Streams}
        /\ failed' = (failed \/ c \notin up)
        /\ outConnections' = outConnections \ {c}
        /\ sriDict' = [s \in Streams |-> IF sriDict[s] = None THEN None
                         ELSE [sriDict[s] EXCEPT !.connections = @ \ {c}]]
        /\ rxSRI' = [rxSRI EXCEPT ![c] = [s \in Streams |-> None]]
        /\ UNCHANGED <<filterTable, connecting, removing, stuck, up, ghosts>>

\* streams with a rule for a connection get exactly their connections, the others
\* are detached; without any rule everything is attached to everything
updateConnectionFilter(F) ==
    LET route(s, c) == F = {} \/ <<s, c>> \in F
        P == {p \in Known \X outConnections : route(p[1], p[2]) /\ ~IsAttached(p[1], p[2])}
        off(s) == IF s \in Known /\ F # {} THEN {a \in container[s] : ~route(s, a.conn)} ELSE {}
        gone == UNION {AtReceiver(s, off(s)) : s \in Streams}
    IN  /\ Call
        /\ filterTable' = F /\ F # filterTable
        /\ \E done \in Reached(P) :
             /\ LET new(s) == {[conn |-> p[2], id |-> calls] : p \in {q \in done : q[1] = s}}
                IN  /\ container' = [s \in Streams |-> IF s \notin Known THEN None
                                       ELSE (container[s] \ (IF done = P THEN off(s) ELSE {})) \cup new(s)]
                    /\ raced' = raced \cup {s \in Streams : removing[s] # None /\ new(s) # {}}
             /\ attached' = (attached \ (IF done = P THEN gone ELSE {}))
                            \cup {[stream |-> p[1], conn |-> p[2], id |-> calls] : p \in done}
             /\ failed' = (failed \/ done # P \/ \E s \in Known : \E a \in off(s) : a.conn \notin up)
             /\ IF done = P THEN updateSRIForAllConnections ELSE UNCHANGED <<sriDict, rxSRI>>
        /\ UNCHANGED <<outConnections, connecting, removing, stuck, up, cut>>

pushSRI(s, H) ==
    LET sent == {c \in outConnections : Routed(s, c)} \cap up
    IN  /\ Call
        /\ sriDict' = [sriDict EXCEPT ![s] = [sri |-> H, connections |-> sent]]
        /\ rxSRI' = [c \in Conns |-> IF c \in sent THEN [rxSRI[c] EXCEPT ![s] = H] ELSE rxSRI[c]]
        /\ UNCHANGED <<outConnections, filterTable, container, connecting, removing, stuck, up,
                       attached, failed, ghosts>>

Fail(c) ==
    /\ Call
    /\ up' = IF c \in up THEN up \ {c} ELSE up \cup {c}
    /\ UNCHANGED <<outConnections, filterTable, sriDict, container, connecting, removing, stuck,
                   attached, rxSRI, failed, ghosts>>

----------------------------------------------------------------------------
(* Streams.                                                                *)

Add_IgnoreFilter(s) ==
    LET P == {<<s, c>> : c \in outConnections}
    IN  IF container[s] # None
        THEN UNCHANGED <<container, attached, failed>>
        ELSE \E done \in Reached(P) :
               /\ attached' = attached \cup {[stream |-> s, conn |-> p[2], id |-> calls] : p \in done}
               /\ container' = [container EXCEPT ![s] =
                      IF done = P THEN {[conn |-> p[2], id |-> calls] : p \in P} ELSE None]
               /\ failed' = (failed \/ done # P)

\* the stream is attached to every connection it is routed to and only then
\* entered: what was attached before a failure is not recorded
Add(s) ==
    LET P == {<<s, c>> : c \in {d \in outConnections : Routed(s, d)}}
    IN  IF container[s] # None
        THEN UNCHANGED <<container, attached, failed>>
        ELSE \E done \in Reached(P) :
               /\ attached' = attached \cup {[stream |-> s, conn |-> p[2], id |-> calls] : p \in done}
               /\ container' = [container EXCEPT ![s] =
                      IF done = P THEN {[conn |-> p[2], id |-> calls] : p \in P} ELSE None]
               /\ failed' = (failed \/ done # P)

addStream(s) ==
    /\ Call
    /\ Add(s)
    /\ UNCHANGED <<outConnections, filterTable, sriDict, connecting, removing, stuck, up, rxSRI, ghosts>>

\* removeStreamByStreamId without the lock: the attachments the stream has now are
\* detached; then the stream is dropped, with any attachment made meanwhile
removeStreamByStreamId(s, then) ==
    /\ Call
    /\ container[s] # None /\ removing[s] = None
    /\ removing' = [removing EXCEPT ![s] = then]
    /\ attached' = attached \ AtReceiver(s, container[s])
    /\ container' = [container EXCEPT ![s] = {}]
    /\ failed' = (failed \/ \E a \in container[s] : a.conn \notin up)
    /\ UNCHANGED <<outConnections, filterTable, sriDict, connecting, stuck, up, rxSRI, raced, cut>>

removeStream(s) == removeStreamByStreamId(s, "remove")

removeStream_end(s) ==
    /\ removing[s] = "remove"
    /\ removing' = [removing EXCEPT ![s] = None]
    /\ container' = [container EXCEPT ![s] = None]
    /\ UNCHANGED <<outConnections, filterTable, sriDict, connecting, stuck, up, attached, rxSRI,
                   calls, failed, ghosts>>

\* attach replaces the definition of a stream: it removes and adds
attach(s) == removeStreamByStreamId(s, "add")

attach_drop(s) ==
    /\ removing[s] = "add"
    /\ removing' = [removing EXCEPT ![s] = "added"]
    /\ container' = [container EXCEPT ![s] = None]
    /\ UNCHANGED <<outConnections, filterTable, sriDict, connecting, stuck, up, attached, rxSRI,
                   calls, failed, ghosts>>

attach_add(s) ==
    /\ removing[s] = "added" /\ ~stuck
    /\ removing' = [removing EXCEPT ![s] = None]
    /\ Add(s)
    /\ calls' = calls + 1
    /\ UNCHANGED <<outConnections, filterTable, sriDict, connecting, stuck, up, rxSRI, ghosts>>

\* updateStream removes with the lock held, adds after it; of a stream that is
\* not known it returns without releasing the lock
updateStream(s) ==
    /\ Call
    /\ removing[s] = None
    /\ stuck' = (container[s] = None)
    /\ removing' = IF stuck' THEN removing ELSE [removing EXCEPT ![s] = "added"]
    /\ container' = [container EXCEPT ![s] = None]
    /\ attached' = IF stuck' THEN attached ELSE attached \ AtReceiver(s, container[s])
    /\ failed' = (failed \/ (~stuck' /\ \E a \in container[s] : a.conn \notin up))
    /\ UNCHANGED <<outConnections, filterTable, sriDict, connecting, up, rxSRI, ghosts>>

\* detach: of one connection, or of everything, which begins a new container; a
\* removal under way ends on the old one
detach(c) ==
    LET of(s) == IF container[s] = None THEN {} ELSE {a \in container[s] : a.conn = c}
    IN  /\ Call
        /\ container' = [s \in Streams |-> IF container[s] = None THEN None ELSE container[s] \ of(s)]
        /\ attached' = attached \ UNION {AtReceiver(s, of(s)) : s \in Streams}
        /\ failed' = (failed \/ (c \notin up /\ \E s \in Streams : of(s) # {}))
        /\ cut' = cut \cup {c}
        /\ UNCHANGED <<outConnections, filterTable, sriDict, connecting, removing, stuck, up, rxSRI, raced>>

detachAll ==
    LET of(s) == IF container[s] = None THEN {} ELSE container[s]
    IN  /\ Call
        /\ removing' = [s \in Streams |-> IF removing[s] = "add" THEN "added"
                                          ELSE IF removing[s] = "remove" THEN None ELSE removing[s]]
        /\ container' = [s \in Streams |-> None]
        /\ attached' = attached \ UNION {AtReceiver(s, of(s)) : s \in Streams}
        /\ failed' = (failed \/ \E s \in Streams : \E a \in of(s) : a.conn \notin up)
        /\ UNCHANGED <<outConnections, filterTable, sriDict, connecting, stuck, up, rxSRI, ghosts>>

Next ==
    \/ \E c \in Conns : connectPort(c) \/ connectPort_attach(c) \/ disconnectPort(c)
                        \/ Fail(c) \/ detach(c)
    \/ \E F \in Filters : updateConnectionFilter(F)
    \/ \E s \in Streams, H \in SRIs : pushSRI(s, H)
    \/ \E s \in Streams : \/ addStream(s) \/ updateStream(s)
                          \/ removeStream(s) \/ removeStream_end(s)
                          \/ attach(s) \/ attach_drop(s) \/ attach_add(s)
    \/ detachAll

Spec == Init /\ [][Next]_vars

----------------------------------------------------------------------------
(* Properties.                                                             *)

\* Nothing stays attached that the port does not know of, and so cannot detach,
\* unless a receiver failed, or the stream was attached while removeStream, which
\* takes no lock, was removing it.
AttachmentsKnown ==
    failed \/ \A x \in attached :
        x.stream \in raced \/ (container[x.stream] # None /\ [conn |-> x.conn, id |-> x.id] \in container[x.stream])

\* Between calls a stream is attached to exactly the connections the filter table
\* routes it to, whatever the order in which streams, connections and rules came
\* (addStream, connectPort, updateConnectionFilter), unless a receiver failed or a
\* client detached the connection itself.
AttachedIffRouted ==
    failed \/ \A s \in Known, c \in outConnections \ (connecting \cup cut) :
        removing[s] = None => (IsAttached(s, c) <=> Routed(s, c))

\* A connection that sriDict counts as told has the SRI of the stream
\* (disconnectPort, updateSRIForAllConnections, pushSRI).
SriRecordTrue ==
    \A s \in Streams : sriDict[s] # None =>
        \A c \in sriDict[s].connections : c \in outConnections /\ rxSRI[c][s] = sriDict[s].sri

============================================================================
