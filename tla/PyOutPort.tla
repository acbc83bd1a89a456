----------------------------- MODULE PyOutPort -----------------------------
(***************************************************************************)
(* The Python BulkIO output port (bulkio/output_ports.py) and its buffered *)
(* streams (bulkio/output_streams.py).  Every stream ID has one writer     *)
(* thread; a control thread connects and disconnects receivers and changes *)
(* the filter table.  A step is what a thread does between two             *)
(* acquisitions of port_lock: a push to all the connections is made with   *)
(* the lock held.  The stream object belongs to its writer, so a call on   *)
(* it is one step that leaves the calls on the port it makes in `calls`.   *)
(*                                                                         *)
(* The scalars of a stream ID are numbered in the order they are written,  *)
(* and the time of a scalar is its number: xdelta is 1 for real data and 2 *)
(* for complex data, whose samples are two scalars.                        *)
(***************************************************************************)
EXTENDS Integers, Sequences, FiniteSets, FiniteSetsExt

CONSTANTS Conns,             \* connection IDs
          Streams,           \* stream IDs
          Direct,            \* the ones written through the port's own pushSRI and pushPacket
          SRIs,              \* [mode : 0..1, subsize : Nat, id]
          Lens,              \* numbers of frames in a write
          BufferSizes,       \* arguments of setBufferSize
          maxSamplesPerPush, \* scalars in a packet
          Filters,           \* filter tables: sets of <<stream ID, connection ID>>
          MaxCalls,          \* bound: stream ID -> calls of its writer
          MaxControl,        \* bound: calls of the control thread and failures
          None

VARIABLES
    outConnections, filterTable,
    sriDict,     \* stream ID -> None or [sri, connections]
    streams,     \* _streams: stream ID -> its stream object, or None
    stuck,       \* port_lock is held by a thread that waits for it
    w,           \* the writers: [calls, checked, made, next, sri]
    up,          \* the connections whose receiver can be reached
    rx,          \* connection -> stream ID -> what the receiver knows
    steady,      \* ghost: connections that missed nothing since they were made
    control      \* control calls and failures so far

vars == <<outConnections, filterTable, sriDict, streams, stuck, w, up, rx, steady, control>>

\* BULKIO.StreamSRI(1, 0.0, 1.0, 1, 0, ...), the SRI of a stream nobody described
DefaultSRI == [mode |-> 0, subsize |-> 0, id |-> 0]

ItemSize(sri) == IF sri.mode = 0 THEN 1 ELSE 2
xdelta(sri) == ItemSize(sri)
FrameSize(sri) == ItemSize(sri) * (IF sri.subsize > 0 THEN sri.subsize ELSE 1)

\* a stream object; its buffer holds `len` scalars from `first` on, which were
\* written under the SRI `wrote`
NewStream(sri) == [sri |-> sri, modified |-> TRUE, first |-> 0, len |-> 0, wrote |-> sri,
                   time |-> None, bufferSize |-> 0]

\* a receiver: the SRI it was sent last, whether the stream is open there, the
\* scalar after the last it got, and the packets of the last push
Unknown == [sri |-> None, got |-> None, pkts |-> <<>>]

Init ==
    /\ outConnections = {} /\ filterTable = {}
    /\ sriDict = [s \in Streams |-> None]
    /\ streams = [s \in Streams |-> None]
    /\ stuck = FALSE
    /\ w = [s \in Streams |-> [calls |-> <<>>, checked |-> FALSE, made |-> 0,
                               next |-> 0, sri |-> None]]
    /\ up = Conns /\ steady = {} /\ control = 0
    /\ rx = [c \in Conns |-> [s \in Streams |-> Unknown]]

----------------------------------------------------------------------------
(* Connections.                                                            *)

\* _isStreamRoutedToConnection: a table without a rule for the port routes all
Routed(s, c) == filterTable = {} \/ <<s, c>> \in filterTable

Control == ~stuck /\ control < MaxControl /\ control' = control + 1

connectPort(c) ==
    /\ Control
    /\ c \notin outConnections
    /\ outConnections' = outConnections \cup {c}
    /\ steady' = IF \A s \in Streams : rx[c][s].sri = None THEN steady \cup {c} ELSE steady
    /\ rx' = [rx EXCEPT ![c] = [s \in Streams |-> IF @[s].sri = None THEN Unknown ELSE @[s]]]
    /\ UNCHANGED <<filterTable, sriDict, streams, stuck, w, up>>

\* every stream that is routed to the connection ends there
Ended(s, c) == c \in up /\ sriDict[s] # None /\ Routed(s, c)

disconnectPort(c) ==
    /\ Control
    /\ c \in outConnections
    /\ outConnections' = outConnections \ {c}
    /\ rx' = [rx EXCEPT ![c] = [s \in Streams |->
                 IF Ended(s, c) THEN Unknown ELSE @[s]]]
    /\ sriDict' = [s \in Streams |-> IF sriDict[s] = None THEN None
                                     ELSE [sriDict[s] EXCEPT !.connections = @ \ {c}]]
    /\ UNCHANGED <<filterTable, streams, stuck, w, up, steady>>

updateConnectionFilter(F) ==
    /\ Control
    /\ filterTable' = F
    /\ F # filterTable
    /\ steady' = {}
    /\ UNCHANGED <<outConnections, sriDict, streams, stuck, w, up, rx>>

\* the receiver of a connection can no longer be reached, or can again
Fail(c) ==
    /\ Control
    /\ up' = IF c \in up THEN up \ {c} ELSE up \cup {c}
    /\ steady' = steady \ {c}
    /\ UNCHANGED <<outConnections, filterTable, sriDict, streams, stuck, w, rx>>

----------------------------------------------------------------------------
(* The calls of a writer on the port, one after the other.                 *)

SriCall(sri) == [op |-> "sri", sri |-> sri, first |-> 0, len |-> 0, time |-> None, EOS |-> FALSE]

\* for the properties a packet carries the SRI its data was written under
PacketCall(sri, first, len, time, EOS) ==
    [op |-> "packet", sri |-> sri, first |-> first, len |-> len, time |-> time, EOS |-> EOS]

Done(s) == [w EXCEPT ![s].calls = Tail(@), ![s].checked = FALSE]

\* the connections a push of the stream goes to
Targets(s) == {c \in outConnections : Routed(s, c)}

Calling(s, op) == w[s].calls # <<>> /\ Head(w[s].calls).op = op

\* scalars a writer has handed to the port and the port has pushed
Pushed(s) ==
    w[s].next - (IF s \in Direct \/ streams[s] = None THEN 0 ELSE streams[s].len)
    - MapThenSumSet(LAMBDA i : w[s].calls[i].len, DOMAIN w[s].calls)

\* a receiver is sent an SRI: a stream it does not have starts with the next sample
Told(r, s, sri) == [sri |-> sri, got |-> IF r.sri = None THEN Pushed(s) ELSE r.got, pkts |-> <<>>]

\* the entry is replaced, so that a connection the push fails for is sent the
\* SRI again with the next data
pushSRI(s) ==
    LET H == Head(w[s].calls).sri
        sent == Targets(s) \cap up
    IN  /\ Calling(s, "sri") /\ ~stuck
        /\ sriDict' = [sriDict EXCEPT ![s] = [sri |-> H, connections |-> sent]]
        /\ streams' = IF streams[s] = None THEN [streams EXCEPT ![s] = NewStream(H)] ELSE streams
        /\ rx' = [c \in Conns |-> IF c \in sent THEN [rx[c] EXCEPT ![s] = Told(@, s, H)] ELSE rx[c]]
        /\ w' = Done(s)
        /\ UNCHANGED <<outConnections, filterTable, stuck, up, steady, control>>

\* pushPacket looks for the SRI without the lock, and pushes a default one
pushPacket_check(s) ==
    /\ Calling(s, "packet") /\ ~w[s].checked
    /\ w' = [w EXCEPT ![s].checked = sriDict[s] # None,
                      ![s].calls = IF sriDict[s] = None THEN <<SriCall(DefaultSRI)>> \o @ ELSE @]
    /\ UNCHANGED <<outConnections, filterTable, sriDict, streams, stuck, up, rx, steady, control>>

\* OutNumericPort._pushPacket: the data in packets of whole frames; only the
\* last has the EOS, and the times follow from the number of samples
MaxSamples(sri) == (maxSamplesPerPush \div FrameSize(sri)) * FrameSize(sri)

SubPackets(p, sri) ==
    LET size == MaxSamples(sri)
        n == (p.len + size - 1) \div size
    IN  IF p.len <= maxSamplesPerPush THEN <<p>>
        ELSE [i \in 1..n |->
                [p EXCEPT !.first = @ + (i - 1) * size,
                          !.len = IF i = n THEN @ - (n - 1) * size ELSE size,
                          !.EOS = @ /\ i = n,
                          !.time = @ + (i - 1) * (size \div ItemSize(sri)) * xdelta(sri)]]

\* the receiver takes the packets of a push under the SRI it has
Received(r, pkts, p) ==
    [sri |-> IF p.EOS THEN None ELSE r.sri,
     got |-> IF p.len = 0 THEN r.got ELSE p.first + p.len,
     pkts |-> [i \in DOMAIN pkts |-> [first |-> pkts[i].first, len |-> pkts[i].len,
                  time |-> pkts[i].time, wrote |-> p.sri, under |-> r.sri]]]

\* a connection that has not been sent the SRI gets it first, and none of an
\* empty packet
pushPacket(s) ==
    LET p == Head(w[s].calls)
        e == sriDict[s]
        pkts == SubPackets(p, e.sri)
        sent == {c \in Targets(s) \cap up : c \in e.connections \/ p.len > 0}
    IN  /\ Calling(s, "packet") /\ w[s].checked /\ ~stuck
        /\ rx' = [c \in Conns |-> IF c \in sent
                    THEN [rx[c] EXCEPT ![s] = Received(
                             IF c \in e.connections THEN @ ELSE Told(@, s, e.sri), pkts, p)]
                    ELSE rx[c]]
        /\ sriDict' = [sriDict EXCEPT ![s] = IF p.EOS THEN None
                                             ELSE [@ EXCEPT !.connections = @ \cup sent]]
        /\ streams' = IF p.EOS THEN [streams EXCEPT ![s] = None] ELSE streams
        /\ w' = Done(s)
        /\ UNCHANGED <<outConnections, filterTable, stuck, up, steady, control>>

----------------------------------------------------------------------------
(* The calls of a component on its stream.                                 *)

Idle(s) == w[s].calls = <<>> /\ w[s].made < MaxCalls[s]

Writes(s) == s \notin Direct /\ Idle(s) /\ streams[s] # None

\* the writer's call on the stream changes the object and calls the port
Makes(s, st, calls) ==
    /\ streams' = [streams EXCEPT ![s] = st]
    /\ w' = [w EXCEPT ![s].calls = calls, ![s].made = @ + 1]
    /\ UNCHANGED <<outConnections, filterTable, sriDict, stuck, up, rx, steady, control>>

\* _send: a modified SRI goes before the data
Send(st, pkts) == IF st.modified /\ pkts # <<>> THEN <<SriCall(st.sri)>> \o pkts ELSE pkts
Sending(st, pkts) == [st EXCEPT !.modified = @ /\ pkts = <<>>]

\* _flush
Flush(st, EOS) == Send(st, <<PacketCall(st.wrote, st.first, st.len, st.time, EOS)>>)
Flushed(st) == [st EXCEPT !.modified = FALSE, !.len = 0]

\* an existing stream takes the SRI with the lock held: the flush of its
\* buffered data waits for that lock
createStream(s, H) ==
    /\ s \notin Direct /\ Idle(s) /\ ~stuck
    /\ w' = [w EXCEPT ![s].made = @ + 1]
    /\ IF streams[s] = None
       THEN streams' = [streams EXCEPT ![s] = NewStream(H)] /\ UNCHANGED stuck
       ELSE /\ H # streams[s].sri
            /\ stuck' = (streams[s].len > 0)
            /\ streams' = IF stuck' THEN streams
                          ELSE [streams EXCEPT ![s].sri = H, ![s].modified = TRUE]
    /\ UNCHANGED <<outConnections, filterTable, sriDict, up, rx, steady, control>>

\* the setters of the SRI and its fields: buffered data goes out under the old SRI
setSRI_NoFlush(s, H) ==
    LET st == streams[s]
    IN  /\ Writes(s) /\ st.sri # H
        /\ Makes(s, [st EXCEPT !.sri = H, !.modified = TRUE], <<>>)

setSRI(s, H) ==
    LET st == streams[s]
    IN  /\ Writes(s) /\ st.sri # H
        /\ IF st.len > 0
           THEN Makes(s, [Flushed(st) EXCEPT !.sri = H, !.modified = TRUE], Flush(st, FALSE))
           ELSE Makes(s, [st EXCEPT !.sri = H, !.modified = TRUE], <<>>)

\* _doBuffer: what is written fills the buffer, full buffers go out, the rest
\* stays.  The times of the later ones count scalars by xdelta
room(st) == st.bufferSize - st.len
Buffers(st, first, n) ==
    LET S == st.bufferSize
        start(j) == room(st) + (j - 1) * S
        full == (n - room(st)) \div S
    IN  <<PacketCall(IF st.len = 0 THEN st.sri ELSE st.wrote, IF st.len = 0 THEN first ELSE st.first, S,
                     IF st.len = 0 THEN first ELSE st.time, FALSE)>>
        \o [j \in 1..full |->
             PacketCall(st.sri, first + start(j), S, first + xdelta(st.sri) * start(j), FALSE)]
Buffered(st, first, n) ==
    LET S == st.bufferSize
        rest == (n - room(st)) % S
        at == n - rest
    IN  [st EXCEPT !.modified = FALSE, !.len = rest, !.first = first + at, !.wrote = st.sri,
                   !.time = first + xdelta(st.sri) * at]

\* the n frames of the write; complex samples are interleaved
write(s, n) ==
    LET st == streams[s]
        len == n * FrameSize(st.sri)
        first == w[s].next
        pkt == <<PacketCall(st.sri, first, len, first, FALSE)>>
        wrote(st2, calls) ==
            /\ streams' = [streams EXCEPT ![s] = st2]
            /\ w' = [w EXCEPT ![s].calls = calls, ![s].made = @ + 1, ![s].next = @ + len]
            /\ UNCHANGED <<outConnections, filterTable, sriDict, stuck, up, rx, steady, control>>
    IN  /\ Writes(s)
        /\ IF st.bufferSize = 0 \/ (st.len = 0 /\ len >= st.bufferSize)
           THEN wrote(Sending(st, pkt), Send(st, pkt))
           ELSE IF len < room(st)
           THEN wrote([st EXCEPT !.len = @ + len,
                                 !.first = IF st.len = 0 THEN first ELSE @,
                                 !.wrote = IF st.len = 0 THEN st.sri ELSE @,
                                 !.time = IF st.len = 0 THEN first ELSE @], <<>>)
           ELSE wrote(Buffered(st, first, len), Send(st, Buffers(st, first, len)))

\* a buffer that no longer has room goes out
setBufferSize(s, k) ==
    LET st == [streams[s] EXCEPT !.bufferSize = k]
    IN  /\ Writes(s) /\ k # streams[s].bufferSize
        /\ IF st.len > 0 /\ k <= st.len
           THEN Makes(s, Flushed(st), Flush(st, FALSE)) ELSE Makes(s, st, <<>>)

flush(s) ==
    /\ Writes(s) /\ streams[s].len > 0
    /\ Makes(s, Flushed(streams[s]), Flush(streams[s], FALSE))

close(s) ==
    LET st == streams[s]
        last == <<PacketCall(st.sri, w[s].next, 0, None, TRUE)>>
    IN  /\ Writes(s)
        /\ IF st.len > 0 THEN Makes(s, Flushed(st), Flush(st, TRUE))
           ELSE Makes(s, Sending(st, last), Send(st, last))

\* a component may call the port itself; the stream object is then unused
direct_pushSRI(s, H) ==
    /\ s \in Direct /\ Idle(s)
    /\ w' = [w EXCEPT ![s].calls = <<SriCall(H)>>, ![s].made = @ + 1, ![s].sri = H]
    /\ UNCHANGED <<outConnections, filterTable, sriDict, streams, stuck, up, rx, steady, control>>

direct_pushPacket(s, n, EOS) ==
    LET sri == IF w[s].sri = None THEN DefaultSRI ELSE w[s].sri
        len == n * FrameSize(sri)
    IN  /\ s \in Direct /\ Idle(s)
        /\ w' = [w EXCEPT ![s].calls = <<PacketCall(sri, w[s].next, len, w[s].next, EOS)>>,
                          ![s].made = @ + 1, ![s].next = @ + len,
                          ![s].sri = IF EOS THEN None ELSE @]
        /\ UNCHANGED <<outConnections, filterTable, sriDict, streams, stuck, up, rx, steady, control>>

Writer(s) ==
    \/ pushSRI(s) \/ pushPacket_check(s) \/ pushPacket(s)
    \/ \E H \in SRIs : createStream(s, H) \/ setSRI(s, H) \/ direct_pushSRI(s, H)
    \/ \E n \in Lens : write(s, n)
    \/ \E k \in BufferSizes : setBufferSize(s, k)
    \/ flush(s) \/ close(s)
    \/ \E n \in Lens, EOS \in BOOLEAN : direct_pushPacket(s, n, EOS)

Next ==
    \/ \E s \in Streams : Writer(s)
    \/ \E c \in Conns : connectPort(c) \/ disconnectPort(c) \/ Fail(c)
    \/ \E F \in Filters : updateConnectionFilter(F)

Spec == Init /\ [][Next]_vars

----------------------------------------------------------------------------
(* Properties.                                                             *)

Packets(c, s) == {rx[c][s].pkts[i] : i \in DOMAIN rx[c][s].pkts}
WithData(c, s) == {p \in Packets(c, s) : p.len > 0}

\* A receiver reads every sample under the SRI it was written under, although
\* buffered data goes out later than an SRI changes, a push of the SRI may fail,
\* and connections come, go and are rerouted (OutputStream._send,
\* BufferedOutputStream._modifyingStreamMetadata, OutPort._pushPacket).
WrittenUnderSri ==
    \A c \in Conns, s \in Streams : \A p \in WithData(c, s) : p.under = p.wrote

\* A packet of real data is stamped with the time of its first sample, also when
\* it was buffered or split (OutNumericPort._pushPacket, _doBuffer).
StampsTrue ==
    \A c \in Conns, s \in Streams : \A p \in WithData(c, s) :
        p.wrote.mode = 0 => p.time = p.first

\* A packet holds whole frames: complex samples and rows of framed data are not
\* cut apart when a large push is split (OutNumericPort._pushPacket).  A buffer
\* takes no account of frames, so this is about streams without one.
WholeFrames ==
    \A c \in Conns, s \in Direct : \A p \in WithData(c, s) :
        p.len % FrameSize(p.wrote) = 0

\* A receiver that was reachable and routed ever since it was connected has got
\* every sample up to the last the port has pushed: a buffer is neither
\* dropped nor sent twice (write, setBufferSize, flush, close).
NothingLost ==
    \A c \in outConnections \cap steady, s \in Streams :
        rx[c][s].got # None => rx[c][s].got = Pushed(s)

\* A receiver that was reachable and routed ever since it was connected has a
\* stream open only while the port has it: a stream that ends, and a connection
\* that is broken, close it there (_pushPacket, disconnectPort).
NoOrphanStreams ==
    \A c \in steady, s \in Streams :
        rx[c][s].sri # None => c \in outConnections /\ sriDict[s] # None

============================================================================
