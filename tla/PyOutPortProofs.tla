-------------------------- MODULE PyOutPortProofs --------------------------
(***************************************************************************)
(* Proofs about what sends data in Python: the attachments of the ports of *)
(* SDDS and VITA49 streams, and the calls of a source of the sandbox.      *)
(***************************************************************************)
EXTENDS MCPyOutPort, SequenceTheorems, TLAPS

----------------------------------------------------------------------------
(* Attachments (PyAttachablePort).                                        *)

Att == [conn : Conns, id : Nat]
Record == [sri : SRIs, connections : SUBSET Conns]
Attached == [stream : Streams, conn : Conns, id : Nat]

\* None is no set of attachments and no record of an SRI: a hypothesis of what is proved here, since
\* TLC does not evaluate it.
NoneIsNoSet ==
    /\ None \notin SUBSET Att
    /\ None \notin Record

AttType ==
    /\ outConnections \in SUBSET Conns /\ calls \in Nat
    /\ container \in [Streams -> {None} \cup SUBSET Att]
    /\ sriDict \in [Streams -> {None} \cup Record]
    /\ removing \in [Streams -> {None, "remove", "add", "added"}]
    /\ rxSRI \in [Conns -> [Streams -> SRIs \cup {None}]]
    /\ attached \in SUBSET Attached
    /\ failed \in BOOLEAN

\* attachments are of connections, and between the detachment and the drop of a
\* stream there are none that were not made meanwhile
RemovalsEmpty ==
    /\ \A s \in A!Known : \A a \in container[s] : a.conn \in outConnections
    /\ \A s \in Streams : removing[s] \in {"remove", "add"} =>
         s \in A!Known /\ (container[s] = {} \/ s \in raced)

\* a stream has no attachment that is not routed, and lacks none once
\* its connection and its removal are over
RoutesTrue ==
    failed \/ \A s \in A!Known, c \in outConnections :
        /\ A!IsAttached(s, c) => A!Routed(s, c)
        /\ removing[s] \notin {"remove", "add"} /\ c \notin connecting \cup cut /\ A!Routed(s, c) => A!IsAttached(s, c)

AttInv == AttType /\ RemovalsEmpty /\ A!AttachmentsKnown /\ RoutesTrue /\ A!SriRecordTrue

\* A port without streams and connections satisfies the invariant.
LEMMA AttInit == ASSUME NoneIsNoSet, A!Init PROVE AttInv
<1>1. AttType
  BY DEF A!Init, AttType
<1>2. RemovalsEmpty
  BY OutConstants DEF A!Init, RemovalsEmpty, A!Known, NoneIsNoSet
<1>3. A!AttachmentsKnown /\ RoutesTrue /\ A!SriRecordTrue
  BY DEF A!Init, A!AttachmentsKnown, RoutesTrue, A!SriRecordTrue, A!Known
<1> QED BY <1>1, <1>2, <1>3 DEF AttInv

\* A stream is known if and only if it has a set of attachments.
LEMMA KnownIs ==
    ASSUME AttType, NEW s \in Streams
    PROVE  /\ s \in A!Known => container[s] \in SUBSET Att
           /\ s \notin A!Known => container[s] = None
           /\ s \in A!Known <=> container[s] # None
  BY DEF AttType, A!Known

\* updateSRIForAllConnections keeps the record of who has which SRI: whom it enters, it tells.
LEMMA SriSent ==
    ASSUME NoneIsNoSet, AttType, A!SriRecordTrue, A!updateSRIForAllConnections, UNCHANGED outConnections
    PROVE  /\ A!SriRecordTrue'
           /\ sriDict' \in [Streams -> {None} \cup Record]
           /\ rxSRI' \in [Conns -> [Streams -> SRIs \cup {None}]]
<1> DEFINE missing == {p \in Streams \X Conns :
                         container'[p[1]] # None /\ p[2] \in A!SriMissing(p[1], container'[p[1]])}
<1>0. PICK done \in A!Reached(missing) :
         LET sent(s) == {c \in Conns : <<s, c>> \in done}
         IN  /\ sriDict' = [s \in Streams |-> IF sriDict[s] = None THEN None
                         ELSE [sriDict[s] EXCEPT !.connections = @ \cup sent(s)]]
             /\ rxSRI' = [c \in Conns |-> [s \in Streams |->
                         IF c \in sent(s) THEN sriDict[s].sri ELSE rxSRI[c][s]]]
  BY DEF A!updateSRIForAllConnections
<1>a. done \subseteq missing
  BY <1>0 DEF A!Reached
<1> DEFINE sent(s) == {c \in Conns : <<s, c>> \in done}
<1>1. /\ sriDict' = [s \in Streams |-> IF sriDict[s] = None THEN None
                         ELSE [sriDict[s] EXCEPT !.connections = @ \cup sent(s)]]
      /\ rxSRI' = [c \in Conns |-> [s \in Streams |->
                         IF c \in sent(s) THEN sriDict[s].sri ELSE rxSRI[c][s]]]
  BY <1>0
<1>2. \A s \in Streams : sent(s) \subseteq outConnections /\ (sriDict[s] = None => sent(s) = {})
  BY <1>a DEF A!SriMissing
<1> HIDE DEF sent
<1>3. \A s \in Streams : sriDict[s] # None =>
         LET r == [sriDict[s] EXCEPT !.connections = @ \cup sent(s)]
         IN  r \in Record /\ r.connections = sriDict[s].connections \cup sent(s) /\ r.sri = sriDict[s].sri
  BY <1>2 DEF AttType, Record
<1>4. sriDict' \in [Streams -> {None} \cup Record]
  BY <1>1, <1>3 DEF AttType
<1>5. rxSRI' \in [Conns -> [Streams -> SRIs \cup {None}]]
  BY <1>1, <1>2 DEF AttType, Record
<1>6. A!SriRecordTrue'
  <2> SUFFICES ASSUME NEW s \in Streams, sriDict'[s] # None, NEW c \in sriDict'[s].connections
               PROVE  c \in outConnections' /\ rxSRI'[c][s] = sriDict'[s].sri
    BY DEF A!SriRecordTrue
  <2>1. sriDict[s] # None
    BY <1>1
  <2>2. sriDict'[s].connections = sriDict[s].connections \cup sent(s) /\ sriDict'[s].sri = sriDict[s].sri
    BY <1>1, <1>3, <2>1
  <2>3. c \in outConnections
    BY <1>2, <2>1, <2>2 DEF A!SriRecordTrue
  <2>4. c \in Conns
    BY <2>3 DEF AttType
  <2> QED BY <1>1, <2>1, <2>2, <2>3, <2>4 DEF A!SriRecordTrue
<1> QED BY <1>4, <1>5, <1>6

\* Steps that send no SRI and change no connection keep the record.
LEMMA SriUntouched == ASSUME A!SriRecordTrue, UNCHANGED <<sriDict, rxSRI, outConnections>> PROVE A!SriRecordTrue'
  BY DEF A!SriRecordTrue

\* Steps that leave attachments and SRIs alone keep the invariant.
LEMMA AttUnmoved ==
    ASSUME AttInv, UNCHANGED <<outConnections, filterTable, sriDict, container, removing, attached, rxSRI, failed, raced, cut>>,
           calls' \in Nat, connecting \subseteq connecting'
    PROVE  AttInv'
<1>1. AttType' /\ RemovalsEmpty' /\ A!SriRecordTrue'
  BY DEF AttInv, AttType, RemovalsEmpty, A!SriRecordTrue, A!Known
<1>2. A!AttachmentsKnown'
  BY DEF AttInv, A!AttachmentsKnown
<1>3. RoutesTrue'
  BY DEF AttInv, RoutesTrue, A!Known, A!Routed, A!IsAttached
<1> QED BY <1>1, <1>2, <1>3 DEF AttInv

\* connectPort keeps the invariant: a connection that is made has no attachments yet.
LEMMA AttConnectKeeps ==
    ASSUME AttInv, NEW c \in Conns, A!connectPort(c)
    PROVE  AttInv'
<1>0. /\ outConnections' = outConnections \cup {c} /\ connecting' = connecting \cup {c} /\ calls' = calls + 1
      /\ UNCHANGED <<filterTable, sriDict, container, removing, attached, rxSRI, failed, raced, cut>>
      /\ c \notin outConnections
  BY DEF A!connectPort, A!Call, A!ghosts
<1>1. AttType' /\ RemovalsEmpty' /\ A!SriRecordTrue' /\ A!AttachmentsKnown'
  BY <1>0 DEF AttInv, AttType, RemovalsEmpty, A!SriRecordTrue, A!Known, A!AttachmentsKnown
<1>2. \A s \in A!Known : ~A!IsAttached(s, c)
  BY <1>0 DEF AttInv, RemovalsEmpty, A!IsAttached
<1>3. RoutesTrue'
  BY <1>0, <1>2 DEF AttInv, RoutesTrue, A!Known, A!Routed, A!IsAttached
<1> QED BY <1>1, <1>3 DEF AttInv


\* the attachments of a stream for the pairs in done
New(s, done) == {[conn |-> p[2], id |-> calls] : p \in {q \in done : q[1] = s}}

\* The attachments made for a stream are those of its pairs.
LEMMA NewAttachments ==
    ASSUME AttType, NEW s \in Streams, NEW done \in SUBSET (Streams \X Conns)
    PROVE  /\ New(s, done) \in SUBSET Att
           /\ \A c \in Conns : <<s, c>> \in done => [conn |-> c, id |-> calls] \in New(s, done)
           /\ \A a \in New(s, done) : <<s, a.conn>> \in done
           /\ \A c \in Conns : (\E a \in New(s, done) : a.conn = c) <=> <<s, c>> \in done
<1>1. \A p \in done : p = <<p[1], p[2]>> /\ p[1] \in Streams /\ p[2] \in Conns
  OBVIOUS
<1>2. New(s, done) \in SUBSET Att
  BY <1>1 DEF AttType, Att, New
<1>3. \A a \in New(s, done) : <<s, a.conn>> \in done
  BY <1>1 DEF New
<1>4. \A c \in Conns : <<s, c>> \in done => [conn |-> c, id |-> calls] \in New(s, done)
  <2> SUFFICES ASSUME NEW c \in Conns, <<s, c>> \in done PROVE [conn |-> c, id |-> calls] \in New(s, done)
    OBVIOUS
  <2>1. <<s, c>> \in {q \in done : q[1] = s}
    OBVIOUS
  <2> QED BY <2>1 DEF New
<1>6. \A c \in Conns : (\E a \in New(s, done) : a.conn = c) <=> <<s, c>> \in done
  BY <1>3, <1>4
<1> QED BY <1>2, <1>3, <1>4, <1>6

\* the detachment of off and the attachment of the pairs in done
Changed(off, done) ==
    /\ container' = [s \in Streams |-> IF container[s] = None THEN None
                                       ELSE (container[s] \ off[s]) \cup New(s, done)]
    /\ attached' = (attached \ UNION {A!AtReceiver(s, off[s]) : s \in Streams})
                   \cup {[stream |-> p[1], conn |-> p[2], id |-> calls] : p \in done}
    /\ failed' \in BOOLEAN /\ (failed => failed')
    /\ failed' \/ \A s \in A!Known : \A a \in off[s] \cap container[s] : a.conn \in up
    /\ raced \subseteq raced' /\ UNCHANGED removing
    /\ \A s \in Streams : removing[s] # None /\ New(s, done) # {} => s \in raced'

\* Attachments made for known streams and existing connections, and recorded, and those
\* dropped from the record and at the receivers that answer, keep the records apart from the routes.
LEMMA ChangesKeep ==
    ASSUME NoneIsNoSet, AttType, RemovalsEmpty, A!AttachmentsKnown,
           NEW off \in [Streams -> SUBSET Att], NEW done \in SUBSET (A!Known \X outConnections'),
           outConnections' \subseteq Conns, Changed(off, done),
           \A s \in A!Known : \A a \in container[s] \ off[s] : a.conn \in outConnections'
    PROVE  /\ container' \in [Streams -> {None} \cup SUBSET Att] /\ attached' \in SUBSET Attached
           /\ RemovalsEmpty' /\ A!AttachmentsKnown' /\ A!Known' = A!Known
           /\ \A s \in A!Known, c \in Conns :
                A!IsAttached(s, c)' <=> (\E a \in container[s] \ off[s] : a.conn = c) \/ <<s, c>> \in done
<1>0. done \in SUBSET (Streams \X Conns)
  BY DEF A!Known
<1>1. \A s \in A!Known : /\ container'[s] = (container[s] \ off[s]) \cup New(s, done)
                       /\ container[s] \in SUBSET Att /\ s \in Streams
                       /\ container'[s] \in SUBSET Att
  <2> SUFFICES ASSUME NEW s \in A!Known
               PROVE  /\ container'[s] = (container[s] \ off[s]) \cup New(s, done)
                      /\ container[s] \in SUBSET Att /\ s \in Streams
                      /\ container'[s] \in SUBSET Att
    OBVIOUS
  <2>1. s \in Streams /\ container[s] # None
    BY DEF A!Known
  <2>2. container[s] \in SUBSET Att /\ New(s, done) \in SUBSET Att
    BY <1>0, <2>1, NewAttachments DEF AttType
  <2> QED BY <2>1, <2>2 DEF Changed
<1>2. \A s \in Streams \ A!Known : container'[s] = None /\ container[s] = None
  BY DEF A!Known, Changed
<1>3. container' \in [Streams -> {None} \cup SUBSET Att]
  <2>1. container' = [s \in Streams |-> container'[s]]
    BY DEF Changed
  <2>2. \A s \in Streams : container'[s] \in {None} \cup SUBSET Att
    BY <1>1, <1>2
  <2> QED BY <2>1, <2>2
<1>4. A!Known' = A!Known
  BY <1>1, <1>2, OutConstants DEF A!Known, NoneIsNoSet
<1>5. attached' \in SUBSET Attached
  <2>1. \A p \in done : [stream |-> p[1], conn |-> p[2], id |-> calls] \in Attached
    BY <1>0 DEF Attached, AttType
  <2> DEFINE B == {[stream |-> p[1], conn |-> p[2], id |-> calls] : p \in done}
  <2>2. B \subseteq Attached
    BY <2>1
  <2>3. attached' \subseteq attached \cup B
    BY DEF Changed
  <2>4. attached \subseteq Attached
    BY DEF AttType
  <2> HIDE DEF B
  <2> QED BY <2>2, <2>3, <2>4
<1>6. RemovalsEmpty'
  <2>1. \A s \in A!Known : \A a \in New(s, done) : a.conn \in outConnections'
    <3> SUFFICES ASSUME NEW s \in A!Known, NEW a \in New(s, done) PROVE a.conn \in outConnections'
      OBVIOUS
    <3>1. <<s, a.conn>> \in done
      BY <1>0, <1>1, NewAttachments
    <3> QED BY <3>1
  <2>2. \A s \in A!Known' : \A a \in container'[s] : a.conn \in outConnections'
    BY <1>1, <1>4, <2>1
  <2>3. \A s \in Streams : removing'[s] \in {"remove", "add"} =>
           s \in A!Known' /\ (container'[s] = {} \/ s \in raced')
    <3> SUFFICES ASSUME NEW s \in Streams, removing[s] \in {"remove", "add"}
                 PROVE  s \in A!Known /\ (container'[s] = {} \/ s \in raced')
      BY <1>4 DEF Changed
    <3>1. s \in A!Known /\ (container[s] = {} \/ s \in raced)
      BY DEF RemovalsEmpty
    <3>2. New(s, done) = {} \/ s \in raced'
      BY OutConstants DEF Changed, NoneIsNoSet
    <3> QED BY <1>1, <3>1, <3>2 DEF Changed
  <2> QED BY <2>2, <2>3 DEF RemovalsEmpty
<1>7. A!AttachmentsKnown'
  <2> SUFFICES ASSUME ~failed', NEW x \in attached', x.stream \notin raced'
               PROVE  container'[x.stream] # None /\ [conn |-> x.conn, id |-> x.id] \in container'[x.stream]
    BY DEF A!AttachmentsKnown
  <2> DEFINE a == [conn |-> x.conn, id |-> x.id]
             s == x.stream
  <2>0. s \in Streams /\ x = [stream |-> s, conn |-> a.conn, id |-> a.id]
    BY <1>5 DEF Attached
  <2>1. CASE x \in attached \ UNION {A!AtReceiver(t, off[t]) : t \in Streams}
    <3>1. ~failed /\ x \in attached /\ s \notin raced
      BY <2>1 DEF Changed
    <3>2. s \in A!Known /\ a \in container[s]
      BY <2>0, <3>1 DEF A!AttachmentsKnown, A!Known
    <3>3. a \notin off[s]
      <4> SUFFICES ASSUME a \in off[s] PROVE FALSE
        OBVIOUS
      <4>1. a.conn \in up
        BY <3>2 DEF Changed
      <4>2. x \in A!AtReceiver(s, off[s])
        BY <2>0, <4>1 DEF A!AtReceiver
      <4> QED BY <2>0, <2>1, <4>2
    <3> QED BY <1>1, <1>4, <3>2, <3>3 DEF A!Known
  <2>2. CASE x \notin attached \ UNION {A!AtReceiver(t, off[t]) : t \in Streams}
    <3>1. PICK p \in done : x = [stream |-> p[1], conn |-> p[2], id |-> calls]
      BY <2>2 DEF Changed
    <3>2. p = <<s, a.conn>> /\ a = [conn |-> a.conn, id |-> calls] /\ a.conn \in Conns /\ s \in A!Known
      BY <1>0, <3>1
    <3>3. a \in New(s, done)
      BY <1>0, <2>0, <3>2, NewAttachments
    <3> QED BY <1>1, <1>4, <3>2, <3>3 DEF A!Known
  <2> QED BY <2>1, <2>2
<1>8. \A s \in A!Known, c \in Conns :
         A!IsAttached(s, c)' <=> (\E a \in container[s] \ off[s] : a.conn = c) \/ <<s, c>> \in done
  BY <1>0, <1>1, NewAttachments DEF A!IsAttached
<1> QED BY <1>3, <1>4, <1>5, <1>6, <1>7, <1>8

\* The second part of connectPort keeps the invariant: what is routed to the connection and
\* not attached is attached, or a failure is on record.
LEMMA AttachKeeps ==
    ASSUME NoneIsNoSet, AttInv, NEW c \in Conns, A!connectPort_attach(c)
    PROVE  AttInv'
<1>0. /\ UNCHANGED <<outConnections, filterTable, removing, cut>> /\ calls' = calls + 1
      /\ connecting' = connecting \ {c}
  BY DEF A!connectPort_attach
<1>1. CASE c \notin outConnections
  <2>1. UNCHANGED <<container, attached, failed, raced, sriDict, rxSRI>>
    BY <1>1 DEF A!connectPort_attach
  <2>2. AttType' /\ RemovalsEmpty' /\ A!SriRecordTrue' /\ A!AttachmentsKnown'
    BY <1>0, <2>1 DEF AttInv, AttType, RemovalsEmpty, A!SriRecordTrue, A!Known, A!AttachmentsKnown
  <2>3. RoutesTrue'
    BY <1>0, <1>1, <2>1 DEF AttInv, RoutesTrue, A!Known, A!Routed, A!IsAttached
  <2> QED BY <2>2, <2>3 DEF AttInv
<1>2. CASE c \in outConnections
  <2> DEFINE P == {<<s, c>> : s \in {t \in A!Known : A!Routed(t, c) /\ ~A!IsAttached(t, c)}}
             off == [s \in Streams |-> {}]
  <2>1. PICK done \in A!Reached(P) :
           A!Attach(P, done) /\ (IF done = P THEN A!updateSRIForAllConnections ELSE UNCHANGED <<sriDict, rxSRI>>)
    BY <1>2 DEF A!connectPort_attach
  <2>2. done \in SUBSET (A!Known \X outConnections') /\ done \subseteq P
    <3>1. done \subseteq P
      BY DEF A!Reached
    <3>2. P \subseteq A!Known \X outConnections
      BY <1>2
    <3> QED BY <1>0, <3>1, <3>2
  <2> HIDE DEF P
  <2>3. off \in [Streams -> SUBSET Att] /\ \A s \in Streams : off[s] = {} /\ A!AtReceiver(s, off[s]) = {}
    BY DEF A!AtReceiver
  <2> HIDE DEF off
  <2>4. /\ container' = [s \in Streams |-> IF container[s] = None THEN None ELSE container[s] \cup New(s, done)]
        /\ attached' = attached \cup {[stream |-> p[1], conn |-> p[2], id |-> calls] : p \in done}
        /\ failed' = (failed \/ done # P)
        /\ raced' = raced \cup {s \in Streams : removing[s] # None /\ New(s, done) # {}}
    BY <2>1 DEF A!Attach, New
  <2>5. Changed(off, done)
    <3>1. container' = [s \in Streams |-> IF container[s] = None THEN None ELSE (container[s] \ off[s]) \cup New(s, done)]
      <4>1. \A s \in Streams : container[s] # None => container[s] \ off[s] = container[s]
        BY <2>3 DEF AttInv, AttType
      <4> QED BY <2>4, <4>1
    <3>2. attached \ UNION {A!AtReceiver(s, off[s]) : s \in Streams} = attached
      BY <2>3
    <3>3. failed' \in BOOLEAN /\ (failed => failed')
      BY <2>4
    <3>4. \A s \in Streams : removing[s] # None /\ New(s, done) # {} => s \in raced'
      BY <2>4
    <3>5. \A s \in A!Known : off[s] = {}
      BY <2>3 DEF A!Known
    <3> QED BY <1>0, <2>4, <3>1, <3>2, <3>3, <3>4, <3>5 DEF Changed
  <2>6. \A s \in A!Known : \A a \in container[s] \ off[s] : a.conn \in outConnections'
    BY <1>0 DEF AttInv, RemovalsEmpty
  <2>7. /\ container' \in [Streams -> {None} \cup SUBSET Att] /\ attached' \in SUBSET Attached
        /\ RemovalsEmpty' /\ A!AttachmentsKnown' /\ A!Known' = A!Known
        /\ \A s \in A!Known, d \in Conns :
             A!IsAttached(s, d)' <=> (\E a \in container[s] \ off[s] : a.conn = d) \/ <<s, d>> \in done
    <3>1. outConnections' \subseteq Conns
      BY <1>0 DEF AttInv, AttType
    <3> QED BY <2>2, <2>3, <2>5, <2>6, <3>1, ChangesKeep DEF AttInv
  <2>8. A!SriRecordTrue' /\ sriDict' \in [Streams -> {None} \cup Record]
        /\ rxSRI' \in [Conns -> [Streams -> SRIs \cup {None}]]
    <3>0. AttType /\ A!SriRecordTrue /\ UNCHANGED outConnections
      BY <1>0 DEF AttInv
    <3>1. CASE done = P
      BY <2>1, <3>0, <3>1, SriSent
    <3>2. CASE done # P
      BY <2>1, <3>0, <3>2 DEF AttType, A!SriRecordTrue
    <3> QED BY <3>1, <3>2
  <2>9. RoutesTrue'
    <3> SUFFICES ASSUME ~failed', NEW s \in A!Known, NEW d \in outConnections
                 PROVE  /\ A!IsAttached(s, d)' => A!Routed(s, d)
                        /\ removing[s] \notin {"remove", "add"} /\ d \notin connecting' \cup cut /\ A!Routed(s, d) => A!IsAttached(s, d)'
      BY <1>0, <2>7 DEF RoutesTrue, A!Routed
    <3>1. ~failed /\ done = P
      BY <2>4
    <3>2. A!IsAttached(s, d)' <=> A!IsAttached(s, d) \/ <<s, d>> \in P
      <4>1. d \in Conns /\ s \in Streams
        BY DEF AttInv, AttType, A!Known
      <4>2. container[s] \ off[s] = container[s]
        BY <2>3, <4>1, KnownIs DEF AttInv
      <4> QED BY <2>7, <3>1, <4>1, <4>2 DEF A!IsAttached
    <3>3. <<s, d>> \in P <=> d = c /\ A!Routed(s, c) /\ ~A!IsAttached(s, c)
      BY DEF P
    <3> QED BY <1>0, <3>1, <3>2, <3>3 DEF AttInv, RoutesTrue
  <2> QED BY <1>0, <2>4, <2>7, <2>8, <2>9 DEF AttInv, AttType
<1> QED BY <1>1, <1>2

\* The detachment of one connection keeps the invariant.
LEMMA DetachKeeps ==
    ASSUME NoneIsNoSet, AttInv, NEW c \in Conns, NEW of \in [Streams -> SUBSET Att],
           \A s \in Streams : of[s] = IF container[s] = None THEN {} ELSE {a \in container[s] : a.conn = c},
           container' = [s \in Streams |-> IF container[s] = None THEN None ELSE container[s] \ of[s]],
           attached' = attached \ UNION {A!AtReceiver(s, of[s]) : s \in Streams},
           failed' \in BOOLEAN, failed => failed', failed' \/ c \in up \/ \A s \in Streams : of[s] = {},
           UNCHANGED <<filterTable, removing, raced, connecting>>, cut \subseteq cut',
           (outConnections' = outConnections /\ c \in cut') \/ outConnections' = outConnections \ {c}
    PROVE  /\ container' \in [Streams -> {None} \cup SUBSET Att] /\ attached' \in SUBSET Attached
           /\ RemovalsEmpty' /\ A!AttachmentsKnown' /\ RoutesTrue'
<1>1. \A s \in Streams : New(s, {}) = {}
  BY DEF New
<1>2. Changed(of, {})
  <2>1. container' = [s \in Streams |-> IF container[s] = None THEN None ELSE (container[s] \ of[s]) \cup New(s, {})]
    <3>1. \A s \in Streams : container[s] # None => (container[s] \ of[s]) \cup New(s, {}) = container[s] \ of[s]
      BY <1>1
    <3> QED BY <3>1
  <2>2. {[stream |-> p[1], conn |-> p[2], id |-> calls] : p \in {}} = {}
    OBVIOUS
  <2>3. failed' \/ \A s \in A!Known : \A a \in of[s] \cap container[s] : a.conn \in up
    BY DEF A!Known
  <2> QED BY <1>1, <2>1, <2>2, <2>3 DEF Changed
<1>3. \A s \in A!Known : \A a \in container[s] \ of[s] : a.conn \in outConnections' /\ a.conn # c
  BY DEF AttInv, RemovalsEmpty, A!Known
<1>4. /\ container' \in [Streams -> {None} \cup SUBSET Att] /\ attached' \in SUBSET Attached
      /\ RemovalsEmpty' /\ A!AttachmentsKnown' /\ A!Known' = A!Known
      /\ \A s \in A!Known, d \in Conns :
           A!IsAttached(s, d)' <=> (\E a \in container[s] \ of[s] : a.conn = d)
  <2>1. outConnections' \subseteq Conns
    BY DEF AttInv, AttType
  <2> DEFINE done == {}
  <2>2. done \in SUBSET (A!Known \X outConnections')
    OBVIOUS
  <2>3. \A s \in A!Known : \A a \in container[s] \ of[s] : a.conn \in outConnections'
    BY <1>3
  <2>4. AttType /\ RemovalsEmpty /\ A!AttachmentsKnown
    BY DEF AttInv
  <2>5. Changed(of, done)
    BY <1>2
  <2>6. \A s \in A!Known, d \in Conns : <<s, d>> \notin done
    OBVIOUS
  <2> HIDE DEF done
  <2> QED BY <2>5, <2>6, <2>1, <2>2, <2>3, <2>4, ChangesKeep
<1>5. RoutesTrue'
  <2> SUFFICES ASSUME ~failed', NEW s \in A!Known, NEW d \in outConnections'
               PROVE  /\ A!IsAttached(s, d)' => A!Routed(s, d)
                      /\ removing[s] \notin {"remove", "add"} /\ d \notin connecting \cup cut' /\ A!Routed(s, d) => A!IsAttached(s, d)'
    BY <1>4 DEF RoutesTrue, A!Routed
  <2>1. d \in outConnections /\ d \in Conns /\ s \in Streams /\ container[s] # None
    BY DEF AttInv, AttType, A!Known
  <2>2. A!IsAttached(s, d)' <=> (\E a \in container[s] \ of[s] : a.conn = d)
    BY <1>4, <2>1
  <2>3. d # c => (A!IsAttached(s, d)' <=> A!IsAttached(s, d))
    BY <2>1, <2>2 DEF A!IsAttached
  <2>4. d = c => ~A!IsAttached(s, d)' /\ c \in cut'
    BY <1>3, <2>2
  <2> QED BY <2>1, <2>3, <2>4 DEF AttInv, RoutesTrue
<1> QED BY <1>4, <1>5

\* disconnectPort and detach keep the invariant.
LEMMA DisconnectKeeps ==
    ASSUME NoneIsNoSet, AttInv, NEW c \in Conns, A!disconnectPort(c) \/ A!detach(c)
    PROVE  AttInv'
<1> DEFINE of == [s \in Streams |-> IF container[s] = None THEN {} ELSE {a \in container[s] : a.conn = c}]
<1>1. of \in [Streams -> SUBSET Att]
  BY DEF AttInv, AttType
<1>2. \A s \in Streams : of[s] = IF container[s] = None THEN {} ELSE {a \in container[s] : a.conn = c}
  OBVIOUS
<1>3. /\ container' = [s \in Streams |-> IF container[s] = None THEN None ELSE container[s] \ of[s]]
      /\ attached' = attached \ UNION {A!AtReceiver(s, of[s]) : s \in Streams}
  <2> DEFINE o(s) == IF container[s] = None THEN {} ELSE {a \in container[s] : a.conn = c}
  <2>1. /\ container' = [s \in Streams |-> IF container[s] = None THEN None ELSE container[s] \ o(s)]
        /\ attached' = attached \ UNION {A!AtReceiver(s, o(s)) : s \in Streams}
    BY DEF A!disconnectPort, A!detach
  <2>2. \A s \in Streams : of[s] = o(s)
    OBVIOUS
  <2> HIDE DEF of, o
  <2>3. {A!AtReceiver(s, o(s)) : s \in Streams} = {A!AtReceiver(s, of[s]) : s \in Streams}
    BY <2>2
  <2>4. [s \in Streams |-> IF container[s] = None THEN None ELSE container[s] \ o(s)]
        = [s \in Streams |-> IF container[s] = None THEN None ELSE container[s] \ of[s]]
    BY <2>2
  <2> QED BY <2>1, <2>3, <2>4
<1>4. failed' \in BOOLEAN /\ (failed => failed') /\ (failed' \/ c \in up \/ \A s \in Streams : of[s] = {})
  BY DEF A!disconnectPort, A!detach
<1>5. /\ UNCHANGED <<filterTable, removing, raced, connecting>> /\ cut \subseteq cut' /\ calls' = calls + 1
      /\ (outConnections' = outConnections /\ c \in cut') \/ outConnections' = outConnections \ {c}
  BY DEF A!disconnectPort, A!detach, A!Call, A!ghosts
<1> HIDE DEF of
<1>6. /\ container' \in [Streams -> {None} \cup SUBSET Att] /\ attached' \in SUBSET Attached
      /\ RemovalsEmpty' /\ A!AttachmentsKnown' /\ RoutesTrue'
  BY <1>1, <1>2, <1>3, <1>4, <1>5, DetachKeeps
<1>7. A!SriRecordTrue' /\ sriDict' \in [Streams -> {None} \cup Record]
      /\ rxSRI' \in [Conns -> [Streams -> SRIs \cup {None}]]
  <2>1. CASE A!detach(c)
    BY <2>1 DEF A!detach, AttInv, AttType, A!SriRecordTrue
  <2>2. CASE A!disconnectPort(c)
    <3>1. /\ outConnections' = outConnections \ {c}
          /\ sriDict' = [s \in Streams |-> IF sriDict[s] = None THEN None
                           ELSE [sriDict[s] EXCEPT !.connections = @ \ {c}]]
          /\ rxSRI' = [rxSRI EXCEPT ![c] = [s \in Streams |-> None]]
      BY <2>2 DEF A!disconnectPort
    <3>2. \A s \in Streams : sriDict[s] # None =>
             LET r == [sriDict[s] EXCEPT !.connections = @ \ {c}]
             IN  r \in Record /\ r.connections = sriDict[s].connections \ {c} /\ r.sri = sriDict[s].sri
      BY DEF AttInv, AttType, Record
    <3>3. sriDict' \in [Streams -> {None} \cup Record]
      BY <3>1, <3>2 DEF AttInv, AttType
    <3>4. rxSRI' \in [Conns -> [Streams -> SRIs \cup {None}]]
      BY <3>1 DEF AttInv, AttType
    <3>5. A!SriRecordTrue'
      <4> SUFFICES ASSUME NEW s \in Streams, sriDict'[s] # None, NEW d \in sriDict'[s].connections
                   PROVE  d \in outConnections' /\ rxSRI'[d][s] = sriDict'[s].sri
        BY DEF A!SriRecordTrue
      <4>1. sriDict[s] # None /\ d \in sriDict[s].connections \ {c} /\ sriDict'[s].sri = sriDict[s].sri
        BY <3>1, <3>2
      <4>2. d \in outConnections /\ rxSRI[d][s] = sriDict[s].sri /\ d \in Conns
        BY <4>1 DEF AttInv, A!SriRecordTrue, AttType
      <4> QED BY <3>1, <4>1, <4>2 DEF AttInv, AttType
    <3> QED BY <3>3, <3>4, <3>5
  <2> QED BY <2>1, <2>2
<1> QED BY <1>4, <1>5, <1>6, <1>7 DEF AttInv, AttType

\* updateConnectionFilter keeps the invariant: afterwards exactly what is routed is attached.
LEMMA FilterKeeps ==
    ASSUME NoneIsNoSet, AttInv, NEW F, A!updateConnectionFilter(F)
    PROVE  AttInv'
<1> DEFINE route(s, c) == F = {} \/ <<s, c>> \in F
           P == {p \in A!Known \X outConnections : route(p[1], p[2]) /\ ~A!IsAttached(p[1], p[2])}
           offs(s) == IF s \in A!Known /\ F # {} THEN {a \in container[s] : ~route(s, a.conn)} ELSE {}
           gone == UNION {A!AtReceiver(s, offs(s)) : s \in Streams}
<1>0. /\ UNCHANGED <<outConnections, connecting, removing, cut>> /\ calls' = calls + 1 /\ filterTable' = F
  BY DEF A!updateConnectionFilter, A!Call
<1>1. PICK done \in A!Reached(P) :
         /\ LET new(s) == {[conn |-> p[2], id |-> calls] : p \in {q \in done : q[1] = s}}
            IN  /\ container' = [s \in Streams |-> IF s \notin A!Known THEN None
                                   ELSE (container[s] \ (IF done = P THEN offs(s) ELSE {})) \cup new(s)]
                /\ raced' = raced \cup {s \in Streams : removing[s] # None /\ new(s) # {}}
         /\ attached' = (attached \ (IF done = P THEN gone ELSE {}))
                        \cup {[stream |-> p[1], conn |-> p[2], id |-> calls] : p \in done}
         /\ failed' = (failed \/ done # P \/ \E s \in A!Known : \E a \in offs(s) : a.conn \notin up)
         /\ (IF done = P THEN A!updateSRIForAllConnections ELSE UNCHANGED <<sriDict, rxSRI>>)
  BY DEF A!updateConnectionFilter
<1> DEFINE off == [s \in Streams |-> IF done = P THEN offs(s) ELSE {}]
<1>2. done \subseteq P /\ P \in SUBSET (A!Known \X outConnections)
  BY DEF A!Reached
<1>3. off \in [Streams -> SUBSET Att]
  BY DEF A!Known, AttInv, AttType
<1>4. \A s \in Streams : off[s] = IF done = P THEN offs(s) ELSE {}
  OBVIOUS
<1>5. \A s \in A!Known, c \in outConnections : <<s, c>> \in P <=> route(s, c) /\ ~A!IsAttached(s, c)
  OBVIOUS
<1> HIDE DEF P, off, offs, gone
<1>6. container' = [s \in Streams |-> IF container[s] = None THEN None ELSE (container[s] \ off[s]) \cup New(s, done)]
  BY <1>1, <1>4 DEF A!Known, New
<1>7. attached' = (attached \ UNION {A!AtReceiver(s, off[s]) : s \in Streams})
                  \cup {[stream |-> p[1], conn |-> p[2], id |-> calls] : p \in done}
  <2>1. UNION {A!AtReceiver(s, off[s]) : s \in Streams} = IF done = P THEN gone ELSE {}
    <3>1. CASE done = P
      <4>1. {A!AtReceiver(s, off[s]) : s \in Streams} = {A!AtReceiver(s, offs(s)) : s \in Streams}
        BY <1>4, <3>1
      <4> QED BY <3>1, <4>1 DEF gone
    <3>2. CASE done # P
      <4>1. \A s \in Streams : A!AtReceiver(s, off[s]) = {}
        BY <1>4, <3>2 DEF A!AtReceiver
      <4> QED BY <3>2, <4>1
    <3> QED BY <3>1, <3>2
  <2> QED BY <1>1, <2>1
<1>8. Changed(off, done)
  <2>1. failed' \in BOOLEAN /\ (failed => failed')
    BY <1>1
  <2>2. failed' \/ \A s \in A!Known : \A a \in off[s] \cap container[s] : a.conn \in up
    BY <1>1, <1>4 DEF A!Known
  <2>3. \A s \in Streams : removing[s] # None /\ New(s, done) # {} => s \in raced'
    BY <1>1 DEF New
  <2>4. raced \subseteq raced'
    BY <1>1
  <2> QED BY <1>0, <1>6, <1>7, <2>1, <2>2, <2>3, <2>4 DEF Changed
<1>9. /\ container' \in [Streams -> {None} \cup SUBSET Att] /\ attached' \in SUBSET Attached
      /\ RemovalsEmpty' /\ A!AttachmentsKnown' /\ A!Known' = A!Known
      /\ \A s \in A!Known, c \in Conns :
           A!IsAttached(s, c)' <=> (\E a \in container[s] \ off[s] : a.conn = c) \/ <<s, c>> \in done
  <2>1. outConnections' \subseteq Conns /\ done \in SUBSET (A!Known \X outConnections')
    BY <1>0, <1>2 DEF AttInv, AttType
  <2>2. \A s \in A!Known : \A a \in container[s] \ off[s] : a.conn \in outConnections'
    BY <1>0 DEF AttInv, RemovalsEmpty
  <2>3. AttType /\ RemovalsEmpty /\ A!AttachmentsKnown
    BY DEF AttInv
  <2> QED BY <1>3, <1>8, <2>1, <2>2, <2>3, ChangesKeep
<1>10. A!SriRecordTrue' /\ sriDict' \in [Streams -> {None} \cup Record]
       /\ rxSRI' \in [Conns -> [Streams -> SRIs \cup {None}]]
  <2>0. AttType /\ A!SriRecordTrue /\ UNCHANGED outConnections
    BY <1>0 DEF AttInv
  <2>1. CASE done = P
    BY <1>1, <2>0, <2>1, SriSent
  <2>2. CASE done # P
    BY <1>1, <2>0, <2>2 DEF AttType, A!SriRecordTrue
  <2> QED BY <2>1, <2>2
<1>11. RoutesTrue'
  <2> SUFFICES ASSUME ~failed', NEW s \in A!Known, NEW c \in outConnections
               PROVE  A!IsAttached(s, c)' <=> route(s, c)
    BY <1>0, <1>9 DEF RoutesTrue, A!Routed
  <2>1. ~failed /\ done = P
    BY <1>1
  <2>2. c \in Conns /\ s \in Streams
    BY DEF AttInv, AttType, A!Known
  <2>3. off[s] = IF F # {} THEN {a \in container[s] : ~route(s, a.conn)} ELSE {}
    BY <1>4, <2>1, <2>2 DEF offs
  <2>4. A!IsAttached(s, c)' <=> (\E a \in container[s] \ off[s] : a.conn = c) \/ (route(s, c) /\ ~A!IsAttached(s, c))
    BY <1>5, <1>9, <2>1, <2>2
  <2>5. (\E a \in container[s] \ off[s] : a.conn = c) <=> A!IsAttached(s, c) /\ route(s, c)
    BY <2>3 DEF A!IsAttached
  <2> QED BY <2>4, <2>5
<1>12. failed' \in BOOLEAN
  BY <1>1
<1> QED BY <1>0, <1>9, <1>10, <1>11, <1>12 DEF AttInv, AttType

\* pushSRI keeps the invariant: the record names whom it has told.
LEMMA PushSriKeeps ==
    ASSUME NoneIsNoSet, AttInv, NEW s \in Streams, NEW H \in SRIs, A!pushSRI(s, H)
    PROVE  AttInv'
<1> DEFINE sent == {c \in outConnections : A!Routed(s, c)} \cap up
<1>0. /\ UNCHANGED <<outConnections, filterTable, container, connecting, removing, attached, failed, raced, cut>>
      /\ calls' = calls + 1
      /\ sriDict' = [sriDict EXCEPT ![s] = [sri |-> H, connections |-> sent]]
      /\ rxSRI' = [c \in Conns |-> IF c \in sent THEN [rxSRI[c] EXCEPT ![s] = H] ELSE rxSRI[c]]
  BY DEF A!pushSRI, A!Call, A!ghosts
<1>1. sent \subseteq outConnections /\ [sri |-> H, connections |-> sent] \in Record
  BY DEF Record, AttInv, AttType
<1> HIDE DEF sent
<1>2. sriDict' \in [Streams -> {None} \cup Record] /\ rxSRI' \in [Conns -> [Streams -> SRIs \cup {None}]]
  BY <1>0, <1>1 DEF AttInv, AttType
<1>3. A!SriRecordTrue'
  <2> SUFFICES ASSUME NEW t \in Streams, sriDict'[t] # None, NEW d \in sriDict'[t].connections
               PROVE  d \in outConnections' /\ rxSRI'[d][t] = sriDict'[t].sri
    BY DEF A!SriRecordTrue
  <2>1. CASE t = s
    <3>1. sriDict'[t] = [sri |-> H, connections |-> sent]
      BY <1>0, <2>1 DEF AttInv, AttType
    <3>2. d \in sent /\ d \in outConnections /\ d \in Conns /\ sriDict'[t].sri = H
      BY <1>1, <3>1 DEF AttInv, AttType
    <3> QED BY <1>0, <2>1, <3>2 DEF AttInv, AttType
  <2>2. CASE t # s
    <3>1. sriDict'[t] = sriDict[t]
      BY <1>0, <2>2 DEF AttInv, AttType
    <3>2. d \in outConnections /\ rxSRI[d][t] = sriDict[t].sri /\ d \in Conns
      BY <3>1 DEF AttInv, A!SriRecordTrue, AttType
    <3> QED BY <1>0, <2>2, <3>1, <3>2 DEF AttInv, AttType
  <2> QED BY <2>1, <2>2
<1>4. AttType' /\ RemovalsEmpty' /\ A!AttachmentsKnown'
  BY <1>0, <1>2 DEF AttInv, AttType, RemovalsEmpty, A!AttachmentsKnown, A!Known
<1>5. RoutesTrue'
  BY <1>0 DEF AttInv, RoutesTrue, A!Known, A!Routed, A!IsAttached
<1> QED BY <1>3, <1>4, <1>5 DEF AttInv

\* A stream that is added keeps the invariant: it is entered with an attachment for every
\* route, or a failure is on record.
LEMMA AddKeeps ==
    ASSUME NoneIsNoSet, AttInv, NEW s \in Streams, A!Add(s), calls' \in Nat,
           UNCHANGED <<outConnections, filterTable, sriDict, connecting, rxSRI, raced, cut>>,
           removing' = removing \/ (removing[s] = "added" /\ removing' = [removing EXCEPT ![s] = None])
    PROVE  AttInv'
<1>0. /\ removing' \in [Streams -> {None, "remove", "add", "added"}]
      /\ \A t \in Streams : removing'[t] \in {"remove", "add"} <=> removing[t] \in {"remove", "add"}
  BY OutConstants DEF AttInv, AttType, NoneIsNoSet
<1>1. CASE UNCHANGED <<container, attached, failed>>
  <2>1. AttType' /\ RemovalsEmpty' /\ A!SriRecordTrue'
    BY <1>0, <1>1 DEF AttInv, AttType, RemovalsEmpty, A!SriRecordTrue, A!Known
  <2>2. A!AttachmentsKnown'
    BY <1>1 DEF AttInv, A!AttachmentsKnown
  <2>3. RoutesTrue'
    BY <1>0, <1>1 DEF AttInv, RoutesTrue, A!Known, A!Routed, A!IsAttached
  <2> QED BY <2>1, <2>2, <2>3 DEF AttInv
<1>2. CASE ~UNCHANGED <<container, attached, failed>>
  <2> DEFINE P == {<<s, c>> : c \in {d \in outConnections : A!Routed(s, d)}}
             atts == {[conn |-> p[2], id |-> calls] : p \in P}
  <2>1. PICK done \in A!Reached(P) :
           /\ attached' = attached \cup {[stream |-> s, conn |-> p[2], id |-> calls] : p \in done}
           /\ container' = [container EXCEPT ![s] = IF done = P THEN atts ELSE None]
           /\ failed' = (failed \/ done # P)
    BY <1>2 DEF A!Add
  <2>2. container[s] = None /\ failed' \in BOOLEAN
    BY <1>2, <2>1 DEF A!Add
  <2>3. done \subseteq P /\ P \subseteq Streams \X Conns
    BY DEF A!Reached, AttInv, AttType
  <2>4. atts \in SUBSET Att /\ \A c \in Conns : (\E a \in atts : a.conn = c) <=> <<s, c>> \in P
    <3>1. atts = New(s, P)
      <4>1. \A q \in P : q[1] = s
        OBVIOUS
      <4> HIDE DEF P
      <4>2. {q \in P : q[1] = s} = P
        BY <4>1
      <4> QED BY <4>2 DEF New
    <3>2. P \in SUBSET (Streams \X Conns) /\ AttType
      BY <2>3 DEF AttInv
    <3> HIDE DEF P, atts
    <3> QED BY <3>1, <3>2, NewAttachments
  <2>5. \A c \in Conns : <<s, c>> \in P <=> c \in outConnections /\ A!Routed(s, c)
    OBVIOUS
  <2>6. \A p \in P : [conn |-> p[2], id |-> calls] \in atts
    OBVIOUS
  <2> HIDE DEF P, atts
  <2>7. container' \in [Streams -> {None} \cup SUBSET Att]
    BY <2>1, <2>4 DEF AttInv, AttType
  <2>8. \A t \in Streams : container'[t] = IF t = s THEN IF done = P THEN atts ELSE None ELSE container[t]
    BY <2>1 DEF AttInv, AttType
  <2>9. attached' \in SUBSET Attached
    <3> DEFINE B == {[stream |-> s, conn |-> p[2], id |-> calls] : p \in done}
    <3>1. B \subseteq Attached
      BY <2>3 DEF Attached, AttInv, AttType
    <3>2. attached' = attached \cup B /\ attached \subseteq Attached
      BY <2>1 DEF AttInv, AttType
    <3> HIDE DEF B
    <3> QED BY <3>1, <3>2
  <2>10. RemovalsEmpty'
    <3>1. \A t \in Streams : removing[t] \in {"remove", "add"} => t # s
      BY <2>2 DEF AttInv, RemovalsEmpty, A!Known
    <3>2. \A t \in A!Known' : \A a \in container'[t] : a.conn \in outConnections'
      <4> SUFFICES ASSUME NEW t \in A!Known', NEW a \in container'[t] PROVE a.conn \in outConnections
        OBVIOUS
      <4>1. CASE t = s
        <5>1. a \in atts /\ a \in Att
          BY <2>4, <2>8, <4>1 DEF A!Known
        <5>2. a.conn \in Conns
          BY <5>1 DEF Att
        <5> QED BY <2>4, <2>5, <5>1, <5>2
      <4>2. CASE t # s
        BY <2>8, <4>2 DEF AttInv, RemovalsEmpty, A!Known
      <4> QED BY <4>1, <4>2
    <3> QED BY <1>0, <2>8, <3>1, <3>2 DEF AttInv, RemovalsEmpty, A!Known
  <2>11. A!AttachmentsKnown'
    <3> SUFFICES ASSUME ~failed', NEW x \in attached', x.stream \notin raced
                 PROVE  container'[x.stream] # None /\ [conn |-> x.conn, id |-> x.id] \in container'[x.stream]
      BY DEF A!AttachmentsKnown
    <3>1. ~failed /\ done = P /\ x.stream \in Streams
      BY <2>1, <2>9 DEF Attached
    <3>2. CASE x \in attached
      BY <2>2, <2>8, <3>1, <3>2 DEF AttInv, A!AttachmentsKnown
    <3>3. CASE x \notin attached
      <4>1. PICK p \in P : x = [stream |-> s, conn |-> p[2], id |-> calls]
        BY <2>1, <3>1, <3>3
      <4>2. [conn |-> x.conn, id |-> x.id] \in atts /\ x.stream = s
        BY <2>6, <4>1
      <4>3. atts # None
        BY <2>4, OutConstants DEF NoneIsNoSet
      <4> QED BY <2>8, <3>1, <4>2, <4>3
    <3> QED BY <3>2, <3>3
  <2>12. RoutesTrue'
    <3> SUFFICES ASSUME ~failed', NEW t \in A!Known', NEW c \in outConnections
                 PROVE  /\ A!IsAttached(t, c)' => A!Routed(t, c)
                        /\ removing[t] \notin {"remove", "add"} /\ c \notin connecting \cup cut /\ A!Routed(t, c) => A!IsAttached(t, c)'
      BY <1>0 DEF RoutesTrue, A!Routed, A!Known
    <3>1. ~failed /\ done = P /\ t \in Streams /\ c \in Conns
      BY <2>1 DEF A!Known, AttInv, AttType
    <3>2. CASE t = s
      BY <2>4, <2>5, <2>8, <3>1, <3>2 DEF A!IsAttached
    <3>3. CASE t # s
      BY <2>8, <3>1, <3>3 DEF A!IsAttached, AttInv, RoutesTrue, A!Known
    <3> QED BY <3>2, <3>3
  <2>13. A!SriRecordTrue'
    BY SriUntouched DEF AttInv
  <2> QED BY <1>0, <2>2, <2>7, <2>9, <2>10, <2>11, <2>12, <2>13 DEF AttInv, AttType
<1> QED BY <1>1, <1>2

\* Streams that are dropped or emptied keep the invariant, if what stays attached of them is
\* excused by a failure or a race.
LEMMA DropsKeep ==
    ASSUME NoneIsNoSet, AttInv, NEW T \in SUBSET Streams, NEW v \in {None, {}}, failed' \in BOOLEAN, failed => failed',
           container' = [t \in Streams |-> IF t \in T THEN v ELSE container[t]],
           attached' \subseteq attached, calls' \in Nat,
           \A x \in attached' : x.stream \in T => failed' \/ x.stream \in raced,
           removing' \in [Streams -> {None, "remove", "add", "added"}],
           \A t \in Streams : removing'[t] \in {"remove", "add"} <=>
               IF t \in T THEN v = {} ELSE removing[t] \in {"remove", "add"},
           UNCHANGED <<outConnections, filterTable, sriDict, connecting, rxSRI, raced, cut>>
    PROVE  AttInv'
<1>1. \A t \in Streams : container'[t] = IF t \in T THEN v ELSE container[t]
  OBVIOUS
<1>2. container' \in [Streams -> {None} \cup SUBSET Att]
  BY DEF AttInv, AttType
<1>3. attached' \in SUBSET Attached
  BY DEF AttInv, AttType
<1>4. AttType'
  BY <1>2, <1>3 DEF AttInv, AttType
<1>5. \A t \in Streams : t \in A!Known' <=> IF t \in T THEN v = {} ELSE t \in A!Known
  BY <1>1, OutConstants DEF A!Known, NoneIsNoSet
<1>6. RemovalsEmpty'
  <2>1. \A t \in A!Known' : \A a \in container'[t] : a.conn \in outConnections'
    BY <1>1, <1>5 DEF AttInv, RemovalsEmpty, A!Known
  <2>2. \A t \in Streams : removing'[t] \in {"remove", "add"} =>
           t \in A!Known' /\ (container'[t] = {} \/ t \in raced')
    BY <1>1, <1>5 DEF AttInv, RemovalsEmpty
  <2> QED BY <2>1, <2>2 DEF RemovalsEmpty
<1>7. A!AttachmentsKnown'
  <2> SUFFICES ASSUME ~failed', NEW x \in attached', x.stream \notin raced
               PROVE  container'[x.stream] # None /\ [conn |-> x.conn, id |-> x.id] \in container'[x.stream]
    BY DEF A!AttachmentsKnown
  <2>1. x.stream \notin T /\ x.stream \in Streams
    BY <1>3 DEF Attached
  <2> QED BY <1>1, <2>1 DEF AttInv, A!AttachmentsKnown
<1>8. RoutesTrue'
  <2> SUFFICES ASSUME ~failed', NEW t \in A!Known', NEW c \in outConnections
               PROVE  /\ A!IsAttached(t, c)' => A!Routed(t, c)
                      /\ removing'[t] \notin {"remove", "add"} /\ c \notin connecting \cup cut /\ A!Routed(t, c) => A!IsAttached(t, c)'
    BY DEF RoutesTrue, A!Routed
  <2>1. t \in Streams
    BY DEF A!Known
  <2>2. CASE t \in T
    BY <1>1, <1>5, <2>1, <2>2 DEF A!IsAttached
  <2>3. CASE t \notin T
    BY <1>1, <1>5, <2>1, <2>3 DEF A!IsAttached, AttInv, RoutesTrue
  <2> QED BY <2>2, <2>3
<1>9. A!SriRecordTrue'
  BY SriUntouched DEF AttInv
<1> QED BY <1>4, <1>6, <1>7, <1>8, <1>9 DEF AttInv

\* What stays attached after the detachment of all that is recorded is excused.
LEMMA DetachedGone ==
    ASSUME AttInv, NEW s \in Streams, s \in A!Known, NEW x \in attached \ A!AtReceiver(s, container[s]), x.stream = s
    PROVE  failed \/ s \in raced \/ \E a \in container[s] : a.conn \notin up
<1> SUFFICES ASSUME ~failed, s \notin raced PROVE \E a \in container[s] : a.conn \notin up
  OBVIOUS
<1> DEFINE a == [conn |-> x.conn, id |-> x.id]
<1>1. a \in container[s]
  BY DEF AttInv, A!AttachmentsKnown
<1>2. x = [stream |-> s, conn |-> a.conn, id |-> a.id]
  BY DEF AttInv, AttType, Attached
<1>3. a.conn \notin up
  BY <1>1, <1>2 DEF A!AtReceiver
<1> QED BY <1>1, <1>3

\* The first part of removeStream and of attach keeps the invariant.
LEMMA RemoveKeeps ==
    ASSUME NoneIsNoSet, AttInv, NEW s \in Streams, NEW then \in {"remove", "add"}, A!removeStreamByStreamId(s, then)
    PROVE  AttInv'
<1>0. /\ UNCHANGED <<outConnections, filterTable, sriDict, connecting, rxSRI, raced, cut>> /\ calls' = calls + 1
      /\ container[s] # None /\ removing' = [removing EXCEPT ![s] = then]
      /\ attached' = attached \ A!AtReceiver(s, container[s]) /\ container' = [container EXCEPT ![s] = {}]
      /\ failed' = (failed \/ \E a \in container[s] : a.conn \notin up)
  BY DEF A!removeStreamByStreamId, A!Call
<1>1. container' = [t \in Streams |-> IF t \in {s} THEN {} ELSE container[t]]
  BY <1>0 DEF AttInv, AttType
<1>2. \A x \in attached' : x.stream \in {s} => failed' \/ x.stream \in raced
  BY <1>0, DetachedGone DEF A!Known
<1>3. /\ removing' \in [Streams -> {None, "remove", "add", "added"}]
      /\ \A t \in Streams : removing'[t] \in {"remove", "add"} <=> t = s \/ removing[t] \in {"remove", "add"}
  BY <1>0 DEF AttInv, AttType
<1>4. calls' \in Nat /\ failed' \in BOOLEAN /\ (failed => failed')
  BY <1>0 DEF AttInv, AttType
<1> DEFINE T == {s}
           v == {}
<1>5. /\ T \in SUBSET Streams /\ v \in {None, {}} /\ v = {} /\ \A t : t \in T <=> t = s
      /\ container' = [t \in Streams |-> IF t \in T THEN v ELSE container[t]]
      /\ \A x \in attached' : x.stream \in T => failed' \/ x.stream \in raced
  BY <1>1, <1>2
<1>6. UNCHANGED <<outConnections, filterTable, sriDict, connecting, rxSRI, raced, cut>> /\ attached' \subseteq attached
  BY <1>0
<1> HIDE DEF T, v
<1> QED BY <1>3, <1>4, <1>5, <1>6, DropsKeep

\* The drop of a removed stream keeps the invariant: what was attached meanwhile is on record.
LEMMA DropKeeps ==
    ASSUME NoneIsNoSet, AttInv, NEW s \in Streams, A!removeStream_end(s) \/ A!attach_drop(s)
    PROVE  AttInv'
<1>0. /\ UNCHANGED <<outConnections, filterTable, sriDict, connecting, attached, rxSRI, calls, failed, raced, cut>>
      /\ removing[s] \in {"remove", "add"} /\ container' = [container EXCEPT ![s] = None]
      /\ removing' = [removing EXCEPT ![s] = None] \/ removing' = [removing EXCEPT ![s] = "added"]
  BY DEF A!removeStream_end, A!attach_drop, A!ghosts
<1>1. container' = [t \in Streams |-> IF t \in {s} THEN None ELSE container[t]]
  BY <1>0 DEF AttInv, AttType
<1>2. \A x \in attached' : x.stream = s => failed' \/ x.stream \in raced
  BY <1>0 DEF AttInv, A!AttachmentsKnown, RemovalsEmpty
<1>3. /\ removing' \in [Streams -> {None, "remove", "add", "added"}]
      /\ \A t \in Streams : removing'[t] \in {"remove", "add"} <=> t # s /\ removing[t] \in {"remove", "add"}
  BY <1>0, OutConstants DEF AttInv, AttType, NoneIsNoSet
<1>4. calls' \in Nat /\ failed' \in BOOLEAN /\ (failed => failed')
  BY <1>0 DEF AttInv, AttType
<1> DEFINE T == {s}
<1>5. /\ T \in SUBSET Streams /\ None # {} /\ \A t : t \in T <=> t = s
      /\ container' = [t \in Streams |-> IF t \in T THEN None ELSE container[t]]
      /\ \A x \in attached' : x.stream \in T => failed' \/ x.stream \in raced
  BY <1>1, <1>2, OutConstants DEF NoneIsNoSet
<1> HIDE DEF T
<1> QED BY <1>0, <1>3, <1>4, <1>5, DropsKeep

\* updateStream keeps the invariant, also where it returns with the lock.
LEMMA UpdateKeeps ==
    ASSUME NoneIsNoSet, AttInv, NEW s \in Streams, A!updateStream(s)
    PROVE  AttInv'
<1>0. /\ UNCHANGED <<outConnections, filterTable, sriDict, connecting, rxSRI, raced, cut>> /\ calls' = calls + 1
      /\ removing[s] = None /\ container' = [container EXCEPT ![s] = None]
      /\ stuck' = (container[s] = None)
      /\ removing' = IF stuck' THEN removing ELSE [removing EXCEPT ![s] = "added"]
      /\ attached' = IF stuck' THEN attached ELSE attached \ A!AtReceiver(s, container[s])
      /\ failed' = (failed \/ (~stuck' /\ \E a \in container[s] : a.conn \notin up))
  BY DEF A!updateStream, A!Call, A!ghosts
<1>1. container' = [t \in Streams |-> IF t \in {s} THEN None ELSE container[t]]
  BY <1>0 DEF AttInv, AttType
<1>2. \A x \in attached' : x.stream = s => failed' \/ x.stream \in raced
  <2>1. CASE container[s] = None
    BY <1>0, <2>1 DEF AttInv, A!AttachmentsKnown
  <2>2. CASE container[s] # None
    BY <1>0, <2>2, DetachedGone DEF A!Known
  <2> QED BY <2>1, <2>2
<1>3. /\ removing' \in [Streams -> {None, "remove", "add", "added"}]
      /\ \A t \in Streams : removing'[t] \in {"remove", "add"} <=> t # s /\ removing[t] \in {"remove", "add"}
  BY <1>0, OutConstants DEF AttInv, AttType, NoneIsNoSet
<1>4. calls' \in Nat /\ failed' \in BOOLEAN /\ (failed => failed') /\ attached' \subseteq attached
  BY <1>0 DEF AttInv, AttType
<1> DEFINE T == {s}
<1>5. /\ T \in SUBSET Streams /\ None # {} /\ \A t : t \in T <=> t = s
      /\ container' = [t \in Streams |-> IF t \in T THEN None ELSE container[t]]
      /\ \A x \in attached' : x.stream \in T => failed' \/ x.stream \in raced
  BY <1>1, <1>2, OutConstants DEF NoneIsNoSet
<1>6. UNCHANGED <<outConnections, filterTable, sriDict, connecting, rxSRI, raced, cut>>
  BY <1>0
<1> HIDE DEF T
<1> QED BY <1>3, <1>4, <1>5, <1>6, DropsKeep

\* detach of everything keeps the invariant, also in the middle of removals.
LEMMA DetachAllKeeps == ASSUME NoneIsNoSet, AttInv, A!detachAll PROVE AttInv'
<1> DEFINE of(s) == IF container[s] = None THEN {} ELSE container[s]
<1>0. /\ UNCHANGED <<outConnections, filterTable, sriDict, connecting, rxSRI, raced, cut>> /\ calls' = calls + 1
      /\ removing' = [s \in Streams |-> IF removing[s] = "add" THEN "added"
                                        ELSE IF removing[s] = "remove" THEN None ELSE removing[s]]
      /\ container' = [s \in Streams |-> None]
      /\ attached' = attached \ UNION {A!AtReceiver(s, of(s)) : s \in Streams}
      /\ failed' = (failed \/ \E s \in Streams : \E a \in of(s) : a.conn \notin up)
  BY DEF A!detachAll, A!Call, A!ghosts
<1>1. \A x \in attached' : x.stream \in Streams => failed' \/ x.stream \in raced
  <2> SUFFICES ASSUME NEW x \in attached', x.stream \in Streams PROVE failed' \/ x.stream \in raced
    OBVIOUS
  <2>1. CASE x.stream \in A!Known
    <3>1. of(x.stream) = container[x.stream]
      BY <2>1 DEF A!Known
    <3>2. x \in attached \ A!AtReceiver(x.stream, container[x.stream])
      BY <1>0, <3>1
    <3> QED BY <1>0, <2>1, <3>1, <3>2, DetachedGone
  <2>2. CASE x.stream \notin A!Known
    BY <1>0, <2>2 DEF AttInv, A!AttachmentsKnown, A!Known
  <2> QED BY <2>1, <2>2
<1>2. /\ removing' \in [Streams -> {None, "remove", "add", "added"}]
      /\ \A t \in Streams : removing'[t] \notin {"remove", "add"}
  BY <1>0, OutConstants DEF AttInv, AttType, NoneIsNoSet
<1>3. calls' \in Nat /\ failed' \in BOOLEAN /\ (failed => failed') /\ attached' \subseteq attached
  BY <1>0 DEF AttInv, AttType
<1> DEFINE T == Streams
<1>4. /\ T \in SUBSET Streams /\ None # {} /\ \A t : t \in T <=> t \in Streams
      /\ container' = [t \in Streams |-> IF t \in T THEN None ELSE container[t]]
  BY <1>0, OutConstants DEF NoneIsNoSet
<1>5. \A x \in attached' : x.stream \in T => failed' \/ x.stream \in raced
  BY <1>1
<1> HIDE DEF T, of
<1> QED BY <1>0, <1>2, <1>3, <1>4, <1>5, DropsKeep

\* Every step of an attachable port keeps the invariant.
LEMMA AttStep == ASSUME NoneIsNoSet PROVE AttInv /\ [A!Next]_(A!vars) => AttInv'
<1> SUFFICES ASSUME AttInv, [A!Next]_(A!vars) PROVE AttInv'
  OBVIOUS
<1>1. CASE UNCHANGED A!vars
  BY <1>1, AttUnmoved DEF A!vars, AttInv, AttType
<1>2. CASE \E c \in Conns : A!connectPort(c) \/ A!connectPort_attach(c) \/ A!disconnectPort(c) \/ A!detach(c)
  BY <1>2, AttConnectKeeps, AttachKeeps, DisconnectKeeps
<1>3. CASE \E c \in Conns : A!Fail(c)
  BY <1>3, AttUnmoved DEF A!Fail, A!Call, AttInv, AttType, A!ghosts
<1>4. CASE \E F \in Filters : A!updateConnectionFilter(F)
  BY <1>4, FilterKeeps
<1>5. CASE \E s \in Streams, H \in SRIs : A!pushSRI(s, H)
  BY <1>5, PushSriKeeps
<1>6. ASSUME NEW s \in Streams, A!addStream(s) \/ A!attach_add(s) PROVE AttInv'
  BY <1>6, AddKeeps DEF A!addStream, A!attach_add, A!Call, AttInv, AttType, A!ghosts
<1>7. ASSUME NEW s \in Streams, A!updateStream(s) \/ A!removeStream(s) \/ A!attach(s) PROVE AttInv'
  BY <1>7, UpdateKeeps, RemoveKeeps DEF A!removeStream, A!attach
<1>8. ASSUME NEW s \in Streams, A!removeStream_end(s) \/ A!attach_drop(s) PROVE AttInv'
  BY <1>8, DropKeeps
<1> QED BY <1>1, <1>2, <1>3, <1>4, <1>5, <1>6, <1>7, <1>8, DetachAllKeeps DEF A!Next

----------------------------------------------------------------------------
(* Calls of a source (PySandbox).                                          *)

Places == {"none", "begin", "get", "got", "clear", "chunk", "packet", "sent", "leave", "ended"}
Sets == {[s EXCEPT !.id = n] : s \in MCDataSets, n \in Nat}
NumbersType ==
    /\ queue \in Seq(Sets) /\ pending \in Nat /\ ids \in Nat
    /\ user \in {"idle", "queued", "waited", "waiting", "stopping", "stopped"}
FlagsType == exit \in BOOLEAN /\ exited \in {None, TRUE, FALSE} /\ uncounted \in BOOLEAN
ThreadType ==
    /\ thread \in [pc : Places, set : {thread.set}, at : {thread.at},
                   then : {"none", "chunk", "packet"}]
    /\ thread.pc = "clear" => thread.then \in {"chunk", "packet"}
SourceType == NumbersType /\ FlagsType /\ ThreadType

Queued == Len(queue) + (IF S!Busy THEN 1 ELSE 0)
Counted == pending + (IF user = "queued" THEN 1 ELSE 0)

\* what is not sent yet is counted, or about to be; and only that, unless stuck
CountTrue ==
    /\ Queued <= Counted
    /\ uncounted \/ Queued = Counted
    /\ user = "waited" => pending = 0
    /\ user = "waiting" => pending > 0

\* what exited and exit say of the thread
ThreadTrue ==
    /\ exited = None => thread.pc \in {"none", "begin"}
    /\ exited = TRUE => thread.pc \in {"begin", "leave", "ended"}
    /\ user \in {"stopping", "stopped"} => exit
    /\ user = "stopped" => thread.pc \in {"none", "begin", "leave", "ended"}
    /\ started => ~exit /\ (crossed \/ thread.pc \notin {"none", "leave", "ended"})

SourceInv == SourceType /\ CountTrue /\ ThreadTrue

\* A source that was just made satisfies the invariant.
LEMMA SourceStart == ASSUME S!Init PROVE SourceInv
<1>1. thread = [pc |-> "none", set |-> S!NoSet, at |-> 0, then |-> "none"]
  BY DEF S!Init, S!SourceInit
<1>2. /\ thread.pc = "none" /\ thread.then = "none"
      /\ thread \in [pc : Places, set : {thread.set}, at : {thread.at}, then : {"none", "chunk", "packet"}]
  BY <1>1 DEF Places
<1>3. queue = <<>> /\ queue \in Seq(Sets) /\ Len(queue) = 0
  BY EmptySeq DEF S!Init, S!SourceInit
<1>4. SourceType
  BY <1>2, <1>3 DEF S!Init, S!SourceInit, SourceType, NumbersType, FlagsType, ThreadType
<1>5. CountTrue
  BY <1>2, <1>3 DEF S!Init, S!SourceInit, CountTrue, Queued, Counted, S!Busy
<1>6. ThreadTrue
  BY <1>2, OutConstants DEF S!Init, S!SourceInit, ThreadTrue
<1> QED BY <1>4, <1>5, <1>6 DEF SourceInv

\* the thread goes to p
To(p) ==
    /\ thread'.pc = p
    /\ thread' \in [pc : Places, set : {thread'.set}, at : {thread'.at}, then : {"none", "chunk", "packet"}]

\* What an update of the thread leaves as it was.
LEMMA Goes ==
    ASSUME SourceType, NEW p \in Places, NEW d, NEW a
    PROVE  /\ thread' = [thread EXCEPT !.pc = p] => To(p) /\ thread'.then = thread.then
           /\ thread' = [thread EXCEPT !.pc = p, !.set = d] => To(p) /\ thread'.then = thread.then
           /\ thread' = [thread EXCEPT !.pc = p, !.set = d, !.at = a] => To(p) /\ thread'.then = thread.then
           /\ thread' = [thread EXCEPT !.pc = p, !.at = a] => To(p) /\ thread'.then = thread.then
<1>1. thread \in [pc : Places, set : {thread.set}, at : {thread.at}, then : {"none", "chunk", "packet"}]
  BY DEF SourceType, NumbersType, FlagsType, ThreadType
<1>2. thread = [pc |-> thread.pc, set |-> thread.set, at |-> thread.at, then |-> thread.then]
      /\ thread.then \in {"none", "chunk", "packet"}
  BY <1>1
<1>3. CASE thread' = [thread EXCEPT !.pc = p]
  <2>1. thread' = [pc |-> p, set |-> thread.set, at |-> thread.at, then |-> thread.then]
    BY <1>2, <1>3
  <2> QED BY <1>2, <2>1 DEF To
<1>4. CASE thread' = [thread EXCEPT !.pc = p, !.set = d]
  <2>1. thread' = [pc |-> p, set |-> d, at |-> thread.at, then |-> thread.then]
    BY <1>2, <1>4
  <2> QED BY <1>2, <2>1 DEF To
<1>5. CASE thread' = [thread EXCEPT !.pc = p, !.set = d, !.at = a]
  <2>1. thread' = [pc |-> p, set |-> d, at |-> a, then |-> thread.then]
    BY <1>2, <1>5
  <2> QED BY <1>2, <2>1 DEF To
<1>6. CASE thread' = [thread EXCEPT !.pc = p, !.at = a]
  <2>1. thread' = [pc |-> p, set |-> thread.set, at |-> a, then |-> thread.then]
    BY <1>2, <1>6
  <2> QED BY <1>2, <2>1 DEF To
<1> QED BY <1>3, <1>4, <1>5, <1>6

\* After the push of an SRI the thread clears refreshSRI and goes where it was to go.
LEMMA GoesClear ==
    ASSUME SourceType, NEW th \in {"chunk", "packet"}, thread' = [thread EXCEPT !.pc = "clear", !.then = th]
    PROVE  To("clear") /\ thread'.then = th
<1>1. thread \in [pc : Places, set : {thread.set}, at : {thread.at}, then : {"none", "chunk", "packet"}]
  BY DEF SourceType, NumbersType, FlagsType, ThreadType
<1>2. thread = [pc |-> thread.pc, set |-> thread.set, at |-> thread.at, then |-> thread.then]
  BY <1>1
<1>3. thread' = [pc |-> "clear", set |-> thread.set, at |-> thread.at, then |-> th]
  BY <1>2
<1> QED BY <1>3 DEF To, Places

\* Nothing is to be sent if and only if the queue is empty and the thread has no data set.
LEMMA QueueCounts ==
    ASSUME SourceType
    PROVE  /\ Len(queue) \in Nat /\ Queued \in Nat /\ Counted \in Nat
           /\ (Queued = 0 <=> queue = <<>> /\ ~S!Busy)
<1>1. Len(queue) \in Nat /\ (Len(queue) = 0 <=> queue = <<>>)
  BY EmptySeq DEF SourceType, NumbersType, FlagsType, ThreadType
<1> QED BY <1>1 DEF SourceType, NumbersType, FlagsType, ThreadType, Queued, Counted

\* Steps of the thread within a data set keep the invariant.
LEMMA BusyStays ==
    ASSUME SourceInv, UNCHANGED <<queue, pending, ids, exit, exited, uncounted, user, started, crossed>>,
           NEW p \in Places, To(p), p = "clear" => thread'.then \in {"chunk", "packet"},
           p \in {"got", "clear", "chunk", "packet", "sent"}, S!Busy
    PROVE  SourceInv'
<1>1. SourceType'
  BY DEF SourceInv, SourceType, NumbersType, FlagsType, ThreadType, To
<1>2. S!Busy'
  BY DEF S!Busy, To
<1>3. CountTrue'
  BY <1>2 DEF SourceInv, CountTrue, Queued, Counted
<1>4. ThreadTrue'
  BY DEF SourceInv, ThreadTrue, To, S!Busy
<1> QED BY <1>1, <1>3, <1>4 DEF SourceInv

\* The calls of the user but start keep the invariant: a data set is counted once it is queued.
LEMMA UserKeeps ==
    ASSUME SourceInv,
           S!push \/ S!_packetQueued \/ S!waitAllPacketsSent \/ S!WaitEnds \/ S!sourceStop \/ S!stopEnds
    PROVE  SourceInv'
<1>0. UNCHANGED <<thread, exited, crossed, uncounted>>
  BY DEF S!push, S!_packetQueued, S!waitAllPacketsSent, S!WaitEnds, S!sourceStop, S!stopEnds
<1>1. S!Busy' = S!Busy
  BY <1>0 DEF S!Busy
<1>2. CASE S!push
  <2>1. PICK set \in MCDataSets : queue' = Append(queue, [set EXCEPT !.id = ids + 1])
    BY <1>2 DEF S!push
  <2>2. ids' = ids + 1 /\ user = "idle" /\ user' = "queued" /\ UNCHANGED <<pending, exit, started>>
    BY <1>2 DEF S!push
  <2>3. [set EXCEPT !.id = ids + 1] \in Sets
    <3>1. ids + 1 \in Nat
      BY DEF SourceInv, SourceType, NumbersType
    <3> QED BY <3>1 DEF Sets
  <2>4. queue' \in Seq(Sets) /\ Len(queue') = Len(queue) + 1 /\ Len(queue) \in Nat
    BY <2>1, <2>3, AppendProperties, LenProperties DEF SourceInv, SourceType, NumbersType, FlagsType, ThreadType
  <2>5. SourceType'
    <3>1. NumbersType'
      BY <2>2, <2>4 DEF SourceInv, SourceType, NumbersType
    <3>2. FlagsType' /\ ThreadType'
      BY <1>0, <2>2 DEF SourceInv, SourceType, FlagsType, ThreadType
    <3> QED BY <3>1, <3>2 DEF SourceType
  <2>6. CountTrue'
    BY <1>0, <1>1, <2>2, <2>4 DEF SourceInv, SourceType, NumbersType, FlagsType, ThreadType, CountTrue, Queued, Counted
  <2>7. ThreadTrue'
    BY <1>0, <2>2 DEF SourceInv, ThreadTrue
  <2> QED BY <2>5, <2>6, <2>7 DEF SourceInv
<1>3. CASE S!_packetQueued
  <2>0. UNCHANGED <<queue, ids>> /\ user = "queued" /\ user' = "idle" /\ pending' = pending + 1 /\ UNCHANGED <<exit, started>>
    BY <1>3 DEF S!_packetQueued
  <2>1. NumbersType'
    BY <2>0 DEF SourceInv, SourceType, NumbersType
  <2>2. FlagsType' /\ ThreadType'
    BY <1>0, <2>0 DEF SourceInv, SourceType, FlagsType, ThreadType
  <2>3. CountTrue'
    <3>1. Queued' = Queued
      BY <1>1, <2>0 DEF Queued
    <3>2. Counted' = Counted
      BY <2>0 DEF Counted, SourceInv, SourceType, NumbersType
    <3>3. (user' = "waited" => pending' = 0) /\ (user' = "waiting" => pending' > 0)
      BY <2>0 DEF SourceInv, SourceType, NumbersType
    <3> QED BY <1>0, <3>1, <3>2, <3>3 DEF SourceInv, CountTrue
  <2>4. ThreadTrue'
    BY <1>0, <2>0 DEF SourceInv, ThreadTrue
  <2> QED BY <2>1, <2>2, <2>3, <2>4 DEF SourceInv, SourceType
<1>4. CASE S!waitAllPacketsSent
  <2>0. UNCHANGED <<queue, ids>> /\ user = "idle" /\ user' = (IF pending = 0 THEN "waited" ELSE "waiting") /\ UNCHANGED <<pending, exit, started>>
    BY <1>4 DEF S!waitAllPacketsSent, S!UserCall, S!AllSent
  <2>1. NumbersType'
    BY <2>0 DEF SourceInv, SourceType, NumbersType
  <2>2. FlagsType' /\ ThreadType'
    BY <1>0, <2>0 DEF SourceInv, SourceType, FlagsType, ThreadType
  <2>3. CountTrue'
    <3>1. Queued' = Queued
      BY <1>1, <2>0 DEF Queued
    <3>2. Counted' = Counted
      BY <2>0 DEF Counted, SourceInv, SourceType, NumbersType
    <3>3. (user' = "waited" => pending' = 0) /\ (user' = "waiting" => pending' > 0)
      BY <2>0 DEF SourceInv, SourceType, NumbersType
    <3> QED BY <1>0, <3>1, <3>2, <3>3 DEF SourceInv, CountTrue
  <2>4. ThreadTrue'
    BY <1>0, <2>0 DEF SourceInv, ThreadTrue
  <2> QED BY <2>1, <2>2, <2>3, <2>4 DEF SourceInv, SourceType
<1>5. CASE S!WaitEnds
  <2>0. UNCHANGED <<queue, ids>> /\ user \in {"waited", "waiting"} /\ user' = "idle" /\ UNCHANGED <<pending, exit, started>>
    BY <1>5 DEF S!WaitEnds
  <2>1. NumbersType'
    BY <2>0 DEF SourceInv, SourceType, NumbersType
  <2>2. FlagsType' /\ ThreadType'
    BY <1>0, <2>0 DEF SourceInv, SourceType, FlagsType, ThreadType
  <2>3. CountTrue'
    <3>1. Queued' = Queued
      BY <1>1, <2>0 DEF Queued
    <3>2. Counted' = Counted
      BY <2>0 DEF Counted, SourceInv, SourceType, NumbersType
    <3>3. (user' = "waited" => pending' = 0) /\ (user' = "waiting" => pending' > 0)
      BY <2>0 DEF SourceInv, SourceType, NumbersType
    <3> QED BY <1>0, <3>1, <3>2, <3>3 DEF SourceInv, CountTrue
  <2>4. ThreadTrue'
    BY <1>0, <2>0 DEF SourceInv, ThreadTrue
  <2> QED BY <2>1, <2>2, <2>3, <2>4 DEF SourceInv, SourceType
<1>6. CASE S!sourceStop
  <2>0. UNCHANGED <<queue, ids>> /\ user = "idle" /\ user' \in {"stopped", "stopping"} /\ (user' = "stopped" => exited = None) /\ exit' = TRUE /\ started' = FALSE /\ UNCHANGED pending
    BY <1>6 DEF S!sourceStop, S!UserCall
  <2>1. NumbersType'
    BY <2>0 DEF SourceInv, SourceType, NumbersType
  <2>2. FlagsType' /\ ThreadType'
    BY <1>0, <2>0 DEF SourceInv, SourceType, FlagsType, ThreadType
  <2>3. CountTrue'
    <3>1. Queued' = Queued
      BY <1>1, <2>0 DEF Queued
    <3>2. Counted' = Counted
      BY <2>0 DEF Counted, SourceInv, SourceType, NumbersType
    <3>3. (user' = "waited" => pending' = 0) /\ (user' = "waiting" => pending' > 0)
      BY <2>0 DEF SourceInv, SourceType, NumbersType
    <3> QED BY <1>0, <3>1, <3>2, <3>3 DEF SourceInv, CountTrue
  <2>4. ThreadTrue'
    BY <1>0, <2>0 DEF SourceInv, ThreadTrue
  <2> QED BY <2>1, <2>2, <2>3, <2>4 DEF SourceInv, SourceType
<1>7. CASE S!stopEnds
  <2>0. UNCHANGED <<queue, ids>> /\ user \in {"stopped", "stopping"} /\ user' \in {"idle", "stopped"} /\ (user' = "stopped" => exited = TRUE) /\ UNCHANGED <<pending, exit, started>>
    BY <1>7 DEF S!stopEnds
  <2>1. NumbersType'
    BY <2>0 DEF SourceInv, SourceType, NumbersType
  <2>2. FlagsType' /\ ThreadType'
    BY <1>0, <2>0 DEF SourceInv, SourceType, FlagsType, ThreadType
  <2>3. CountTrue'
    <3>1. Queued' = Queued
      BY <1>1, <2>0 DEF Queued
    <3>2. Counted' = Counted
      BY <2>0 DEF Counted, SourceInv, SourceType, NumbersType
    <3>3. (user' = "waited" => pending' = 0) /\ (user' = "waiting" => pending' > 0)
      BY <2>0 DEF SourceInv, SourceType, NumbersType
    <3> QED BY <1>0, <3>1, <3>2, <3>3 DEF SourceInv, CountTrue
  <2>4. ThreadTrue'
    BY <1>0, <2>0 DEF SourceInv, ThreadTrue
  <2> QED BY <2>1, <2>2, <2>3, <2>4 DEF SourceInv, SourceType
<1> QED BY <1>2, <1>3, <1>4, <1>5, <1>6, <1>7

\* start keeps the invariant, also where it meets a thread that is about to end.
LEMMA StartKeeps == ASSUME SourceInv, S!start PROVE SourceInv'
<1>0. /\ UNCHANGED <<queue, pending, exited, user, ids, uncounted>> /\ exit' = FALSE /\ started' = TRUE
      /\ user = "idle" /\ crossed' = (thread.pc = "leave")
      /\ thread' = IF S!Startable THEN [thread EXCEPT !.pc = "begin", !.set = S!NoSet, !.at = 0] ELSE thread
  BY DEF S!start, S!UserCall
<1>1. CASE S!Startable
  <2>1. To("begin")
    BY <1>0, <1>1, Goes DEF SourceInv, Places
  <2>2. ~S!Busy /\ ~S!Busy'
    BY <1>1, <2>1 DEF S!Busy, S!Startable, To
  <2>3. SourceType'
    BY <1>0, <2>1 DEF SourceInv, SourceType, NumbersType, FlagsType, ThreadType, To
  <2>4. CountTrue'
    BY <1>0, <2>2 DEF SourceInv, CountTrue, Queued, Counted
  <2>5. ThreadTrue'
    BY <1>0, <1>1, <2>1 DEF SourceInv, ThreadTrue, To
  <2> QED BY <2>3, <2>4, <2>5 DEF SourceInv
<1>2. CASE ~S!Startable
  <2>1. thread' = thread /\ thread.pc \notin {"none", "ended"}
    BY <1>0, <1>2 DEF S!Startable
  <2>2. SourceType'
    BY <1>0, <2>1 DEF SourceInv, SourceType, NumbersType, FlagsType, ThreadType
  <2>3. CountTrue'
    BY <1>0, <2>1 DEF SourceInv, CountTrue, Queued, Counted, S!Busy
  <2>4. ThreadTrue'
    BY <1>0, <2>1 DEF SourceInv, ThreadTrue
  <2> QED BY <2>2, <2>3, <2>4 DEF SourceInv
<1> QED BY <1>1, <1>2

\* The thread keeps the invariant when it begins, takes a data set or leaves: one that it drops
\* stays counted.
LEMMA ThreadKeeps ==
    ASSUME SourceInv, S!begin \/ S!get
    PROVE  SourceInv'
<1>0. UNCHANGED <<pending, exit, user, ids, started, crossed>>
  BY DEF S!begin, S!get
<1>1. CASE S!begin
  <2>0. UNCHANGED <<queue, uncounted>> /\ thread.pc = "begin"
    BY <1>1 DEF S!begin, S!At
  <2>1. CASE exit
    <3>1. To("leave") /\ exited' = TRUE
      BY <1>1, <2>1, Goes DEF S!begin, S!Goto, SourceInv, Places
    <3>2. SourceType' /\ ~S!Busy /\ ~S!Busy'
      BY <1>0, <2>0, <3>1 DEF SourceInv, SourceType, NumbersType, FlagsType, ThreadType, S!Busy, To
    <3>3. CountTrue'
      BY <1>0, <2>0, <3>2 DEF SourceInv, CountTrue, Queued, Counted
    <3>4. ThreadTrue'
      BY <1>0, <2>0, <2>1, <3>1, OutConstants DEF SourceInv, ThreadTrue, To
    <3> QED BY <3>2, <3>3, <3>4 DEF SourceInv
  <2>2. CASE ~exit
    <3>1. To("get") /\ exited' = FALSE
      BY <1>1, <2>2, Goes DEF S!begin, S!Begun, S!Goto, SourceInv, Places
    <3>2. SourceType' /\ ~S!Busy /\ ~S!Busy'
      BY <1>0, <2>0, <3>1 DEF SourceInv, SourceType, NumbersType, FlagsType, ThreadType, S!Busy, To
    <3>3. CountTrue'
      BY <1>0, <2>0, <3>2 DEF SourceInv, CountTrue, Queued, Counted
    <3>4. ThreadTrue'
      BY <1>0, <2>0, <2>2, <3>1, OutConstants DEF SourceInv, ThreadTrue, To
    <3> QED BY <3>2, <3>3, <3>4 DEF SourceInv
  <2> QED BY <2>1, <2>2
<1>2. CASE S!get
  <2>1. CASE thread.pc = "get" /\ queue # <<>> /\ thread' = [thread EXCEPT !.pc = "got", !.set = Head(queue), !.at = 0]
             /\ queue' = Tail(queue) /\ UNCHANGED <<exited, uncounted>>
    <3>1. To("got")
      BY <2>1, Goes DEF SourceInv, Places
    <3>2. queue' \in Seq(Sets) /\ Len(queue') = Len(queue) - 1 /\ Len(queue) \in Nat
      BY <2>1, HeadTailProperties, LenProperties DEF SourceInv, SourceType, NumbersType, FlagsType, ThreadType
    <3>3. ~S!Busy /\ S!Busy'
      BY <2>1, <3>1 DEF S!Busy, To
    <3>4. SourceType'
      BY <1>0, <2>1, <3>1, <3>2 DEF SourceInv, SourceType, NumbersType, FlagsType, ThreadType, To
    <3>5. Queued' = Queued
      BY <3>2, <3>3 DEF Queued
    <3>6. CountTrue'
      BY <1>0, <2>1, <3>5 DEF SourceInv, CountTrue, Counted
    <3>7. ThreadTrue'
      BY <1>0, <2>1, <3>1 DEF SourceInv, ThreadTrue, To
    <3> QED BY <3>4, <3>6, <3>7 DEF SourceInv
  <2>2. CASE /\ thread.pc \in {"get", "got"} /\ exit /\ exited' = TRUE /\ UNCHANGED queue
             /\ uncounted' = (uncounted \/ thread.pc = "got")
             /\ \/ S!Goto("leave")
                \/ thread' = [thread EXCEPT !.pc = "leave", !.set = S!NoSet]
    <3>1. To("leave")
      BY <2>2, Goes DEF SourceInv, Places, S!Goto
    <3>2. ~S!Busy' /\ (thread.pc = "got" <=> S!Busy)
      BY <2>2, <3>1 DEF S!Busy, To
    <3>3. SourceType'
      BY <1>0, <2>2, <3>1 DEF SourceInv, SourceType, NumbersType, FlagsType, ThreadType, To
    <3>4. Queued \in Nat /\ Counted \in Nat /\ Counted' = Counted /\ Queued' <= Queued
          /\ (thread.pc # "got" => Queued' = Queued) /\ Queued' \in Nat
      <4>1. Len(queue) \in Nat
        BY QueueCounts DEF SourceInv
      <4>2. Counted' = Counted /\ Queued \in Nat /\ Counted \in Nat
        BY <1>0, QueueCounts DEF Counted, SourceInv
      <4>3. queue' = queue
        BY <2>2
      <4> QED BY <3>2, <4>1, <4>2, <4>3 DEF Queued
    <3>5. CountTrue'
      <4>1. uncounted' \/ Queued' = Counted'
        BY <2>2, <3>4 DEF SourceInv, CountTrue
      <4>2. Queued' <= Counted'
        BY <3>4 DEF SourceInv, CountTrue
      <4> QED BY <1>0, <4>1, <4>2 DEF SourceInv, CountTrue
    <3>6. ThreadTrue'
      BY <1>0, <2>2, <3>1, OutConstants DEF SourceInv, ThreadTrue, To
    <3> QED BY <3>3, <3>5, <3>6 DEF SourceInv
  <2>3. CASE thread.pc = "leave" /\ S!Goto("ended") /\ UNCHANGED <<queue, exited, uncounted>>
    <3>1. To("ended")
      BY <2>3, Goes DEF SourceInv, Places, S!Goto
    <3>2. SourceType' /\ ~S!Busy /\ ~S!Busy'
      BY <1>0, <2>3, <3>1 DEF SourceInv, SourceType, NumbersType, FlagsType, ThreadType, S!Busy, To
    <3>3. CountTrue'
      BY <1>0, <2>3, <3>2 DEF SourceInv, CountTrue, Queued, Counted
    <3>4. ThreadTrue'
      BY <1>0, <2>3, <3>1 DEF SourceInv, ThreadTrue, To
    <3> QED BY <3>2, <3>3, <3>4 DEF SourceInv
  <2> QED
    <3>1. uncounted \in BOOLEAN
      BY DEF SourceInv, SourceType, NumbersType, FlagsType, ThreadType
    <3> QED BY <1>2, <2>1, <2>2, <2>3, <3>1 DEF S!get, S!At
<1> QED BY <1>1, <1>2

\* The push of SRIs and packets keeps the invariant.
LEMMA SendKeeps ==
    ASSUME SourceInv, S!newSRI \/ S!clear \/ S!packet
    PROVE  SourceInv'
<1>0. UNCHANGED <<queue, pending, ids, exit, exited, uncounted, user, started, crossed>>
  BY DEF S!newSRI, S!clear, S!packet
<1>1. S!Busy
  BY DEF S!newSRI, S!clear, S!packet, S!At, S!Busy
<1>2. CASE S!newSRI
  <2>1. CASE S!PushSRI(sri', "chunk")
    BY <1>0, <1>1, <2>1, GoesClear, BusyStays DEF S!PushSRI, SourceInv, Places
  <2>2. CASE S!Goto("chunk")
    BY <1>0, <1>1, <2>2, Goes, BusyStays DEF S!Goto, SourceInv, Places
  <2> QED BY <1>2, <2>1, <2>2 DEF S!newSRI
<1>3. CASE S!clear
  <2>1. S!Goto(thread.then) /\ thread.then \in {"chunk", "packet"}
    BY <1>3 DEF S!clear, S!At, SourceInv, SourceType, NumbersType, FlagsType, ThreadType
  <2> QED BY <1>0, <1>1, <2>1, Goes, BusyStays DEF S!Goto, SourceInv, Places
<1>4. CASE S!packet
  <2>1. \/ thread' = [thread EXCEPT !.pc = "chunk", !.at = S!NextStart]
        \/ thread' = [thread EXCEPT !.pc = "chunk", !.at = 0]
        \/ thread' = [thread EXCEPT !.pc = "sent"]
    BY <1>4 DEF S!packet, S!Goto
  <2>2. To("chunk") \/ To("sent")
    BY <2>1, Goes DEF SourceInv, Places
  <2> QED BY <1>0, <1>1, <2>2, BusyStays DEF Places
<1> QED BY <1>2, <1>3, <1>4

\* A chunk keeps the invariant; one that cannot be converted leaves its data set counted.
LEMMA ChunkKeeps ==
    ASSUME SourceInv, S!chunk
    PROVE  SourceInv'
<1>0. UNCHANGED <<queue, pending, ids, exit, exited, user, started, crossed>> /\ S!Busy
  BY DEF S!chunk, S!At, S!Busy
<1>1. CASE S!PushSRI(portSRI, "packet") /\ UNCHANGED uncounted
  BY <1>0, <1>1, GoesClear, BusyStays DEF S!PushSRI, SourceInv, Places
<1>2. CASE (S!Goto("packet") \/ S!Goto("sent")) /\ UNCHANGED uncounted
  <2>1. To("packet") \/ To("sent")
    BY <1>2, Goes DEF S!Goto, SourceInv, Places
  <2> QED BY <1>0, <1>2, <2>1, BusyStays DEF Places
<1>3. CASE thread' = [thread EXCEPT !.pc = "get", !.set = S!NoSet] /\ uncounted' = TRUE
  <2>1. To("get") /\ thread.pc = "chunk"
    BY <1>3, Goes DEF SourceInv, Places, S!chunk, S!At
  <2>2. SourceType' /\ ~S!Busy'
    BY <1>0, <1>3, <2>1 DEF SourceInv, SourceType, NumbersType, FlagsType, ThreadType, S!Busy, To
  <2>3. Queued' <= Queued /\ Counted' = Counted /\ Queued \in Nat /\ Counted \in Nat /\ Queued' \in Nat
    <3>1. Len(queue) \in Nat
      BY QueueCounts DEF SourceInv
    <3> QED BY <1>0, <2>2, <3>1, QueueCounts DEF Queued, Counted, SourceInv
  <2>4. CountTrue'
    BY <1>0, <1>3, <2>3 DEF SourceInv, CountTrue
  <2>5. ThreadTrue'
    BY <1>0, <2>1 DEF SourceInv, ThreadTrue, To
  <2> QED BY <2>2, <2>4, <2>5 DEF SourceInv
<1> QED BY <1>1, <1>2, <1>3 DEF S!chunk

\* _packetSent keeps the invariant, whether the data set is counted already or not.
LEMMA SentKeeps ==
    ASSUME SourceInv, S!_packetSent
    PROVE  SourceInv'
<1>0. UNCHANGED <<queue, ids, exit, exited, started, crossed>> /\ thread.pc = "sent"
      /\ IF pending = 0 THEN uncounted' = TRUE /\ UNCHANGED <<pending, user>>
         ELSE pending' = pending - 1 /\ user' = S!Woken /\ UNCHANGED uncounted
  BY DEF S!_packetSent, S!At
<1>1. To("get")
  BY Goes DEF SourceInv, Places, S!_packetSent
<1>2. S!Busy /\ ~S!Busy'
  BY <1>0, <1>1 DEF S!Busy, To
<1>3. SourceType'
  <2>1. NumbersType'
    BY <1>0 DEF SourceInv, SourceType, NumbersType, S!Woken
  <2>2. FlagsType' /\ ThreadType'
    BY <1>0, <1>1 DEF SourceInv, SourceType, FlagsType, ThreadType, To
  <2> QED BY <2>1, <2>2 DEF SourceType
<1>4. Queued' = Queued - 1 /\ Queued \in Nat /\ Counted \in Nat
  <2>1. Len(queue) \in Nat
    BY QueueCounts DEF SourceInv
  <2> QED BY <1>0, <1>2, <2>1, QueueCounts DEF Queued, SourceInv
<1>5. CountTrue'
  <2>1. CASE pending = 0
    <3>1. Counted' = Counted /\ uncounted'
      BY <1>0, <2>1 DEF Counted
    <3> QED BY <1>0, <1>4, <2>1, <3>1 DEF SourceInv, CountTrue
  <2>2. CASE pending # 0
    <3>1. Counted' = Counted - 1
      BY <1>0, <2>2 DEF Counted, S!Woken, SourceInv, SourceType, NumbersType, FlagsType, ThreadType
    <3>2. (user' = "waited" => pending' = 0) /\ (user' = "waiting" => pending' > 0)
      BY <1>0, <2>2 DEF S!Woken, SourceInv, SourceType, NumbersType, FlagsType, ThreadType, CountTrue
    <3> QED BY <1>0, <1>4, <2>2, <3>1, <3>2 DEF SourceInv, CountTrue
  <2> QED BY <2>1, <2>2
<1>6. ThreadTrue'
  BY <1>0, <1>1 DEF SourceInv, ThreadTrue, To, S!Woken
<1> QED BY <1>3, <1>5, <1>6 DEF SourceInv

\* Steps of other parts keep the invariant.
LEMMA SourceStays ==
    ASSUME SourceInv, UNCHANGED <<queue, pending, ids, exit, exited, uncounted, user, started, crossed, thread>>
    PROVE  SourceInv'
  BY DEF SourceInv, SourceType, NumbersType, FlagsType, ThreadType, CountTrue, ThreadTrue, Queued, Counted, S!Busy

\* Every step of a source and its sink keeps the invariant.
LEMMA SourceStep == SourceInv /\ [S!Next]_<<S!sinkVars, S!sourceVars>> => SourceInv'
<1> SUFFICES ASSUME SourceInv, [S!Next]_<<S!sinkVars, S!sourceVars>> PROVE SourceInv'
  OBVIOUS
<1>1. CASE UNCHANGED S!sourceVars
  BY <1>1, SourceStays DEF S!sourceVars
<1>2. CASE \E c \in Conns : S!connectPort(c) \/ S!disconnectPort(c)
  BY <1>2, SourceStays DEF S!connectPort, S!disconnectPort, S!UserCall
<1> QED BY <1>1, <1>2, UserKeeps, StartKeeps, ThreadKeeps, SendKeeps, ChunkKeeps, SentKeeps DEF S!Next

\* The invariant is enough for what the calls of the user promise.
LEMMA SourcePromise == ASSUME SourceInv PROVE S!SentMeansSent /\ S!WaitJustified /\ S!StopStops /\ S!StartedRuns
<1>1. S!SentMeansSent /\ S!WaitJustified
  <2>1. Queued \in Nat /\ Counted \in Nat /\ (Queued = 0 <=> queue = <<>> /\ ~S!Busy)
    BY QueueCounts DEF SourceInv
  <2> QED BY <2>1 DEF SourceInv, SourceType, NumbersType, FlagsType, ThreadType, CountTrue, Counted, S!SentMeansSent, S!WaitJustified
<1>2. S!StopStops /\ S!StartedRuns
  BY DEF SourceInv, ThreadTrue, S!StopStops, S!StartedRuns, S!Busy
<1> QED BY <1>1, <1>2

----------------------------------------------------------------------------
(* The properties of the run.                                              *)

\* What is attached at the receivers is what the port knows and the filter table asks for, and the
\* record of who has which SRI is true, for all connections, streams, SRIs and filter tables: in
\* whatever order connections, streams and rules come, with detachments, removals between two
\* acquisitions of port_lock and receivers that fail.
THEOREM AttachmentsAreTrue == ASSUME NoneIsNoSet PROVE MCSpec => []AttachmentsTrue
<1> DEFINE I == kind = "attachable" => AttInv
<1>1. MCInit => I
  BY AttInit DEF MCInit
<1>2. I /\ [MCNext]_<<vars, kind, attachVars, sandboxVars>> => I'
  <2> SUFFICES ASSUME I, [MCNext]_<<vars, kind, attachVars, sandboxVars>>, kind' = "attachable"
               PROVE  AttInv'
    OBVIOUS
  <2>1. kind = "attachable"
    BY DEF MCNext
  <2>2. [A!Next]_(A!vars)
    BY <2>1 DEF MCNext, A!vars, vars, attachVars
  <2> QED BY <2>1, <2>2, AttStep
<1>3. I => AttachmentsTrue
  BY OutConstants DEF AttInv, RoutesTrue, A!AttachedIffRouted, AttachmentsTrue
<1> QED BY <1>1, <1>2, <1>3, PTL DEF MCSpec

\* The calls of the user mean what they say, for all data sets and connections: after
\* waitAllPacketsSent all is sent, who waits has something to wait for unless a data set failed,
\* was dropped or was sent before it was counted, after stop nothing is pushed and after start
\* there is a thread.
THEOREM SourceIsTrue == MCSpec => []SourceTrue
<1>1. MCInit => SourceInv
  BY SourceStart DEF MCInit
<1>2. SourceInv /\ [MCNext]_<<vars, kind, attachVars, sandboxVars>> => SourceInv'
  <2> SUFFICES ASSUME SourceInv, [MCNext]_<<vars, kind, attachVars, sandboxVars>> PROVE SourceInv'
    OBVIOUS
  <2>1. S!Next \/ UNCHANGED sandboxVars
    BY DEF MCNext
  <2>2. UNCHANGED sandboxVars => UNCHANGED <<S!sinkVars, S!sourceVars>>
    BY DEF sandboxVars, S!sinkVars, S!sourceVars
  <2> QED BY <2>1, <2>2, SourceStep
<1>3. SourceInv => SourceTrue
  BY SourcePromise DEF SourceTrue
<1> QED BY <1>1, <1>2, <1>3, PTL DEF MCSpec
============================================================================
