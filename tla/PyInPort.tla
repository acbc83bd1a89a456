------------------------------ MODULE PyInPort ------------------------------
(***************************************************************************)
(* The Python BulkIO input port (bulkio/input_ports.py) and its buffered   *)
(* streams (bulkio/input_streams.py).  Every stream ID has an upstream     *)
(* thread that calls pushSRI and pushPacket; one component thread reads.   *)
(* A step is what a thread does between two acquisitions of a lock;        *)
(* sriUpdateLock taken inside of dataBufferLock is part of the outer step. *)
(*                                                                         *)
(* The scalars of a stream ID are numbered in the order they are sent, and *)
(* a packet holds `len` of them from `first` on.  A scalar's time is its   *)
(* number: xdelta is 1 for real data and 2 for complex data, whose samples *)
(* are two scalars.                                                        *)
(***************************************************************************)
EXTENDS Integers, Sequences, FiniteSets, SequencesExt

CONSTANTS Streams,      \* stream IDs
          SRIs,         \* what upstream may send: [mode : 0..1, blocking : BOOLEAN]
          Lens,         \* numbers of samples in a packet
          MaxSize,      \* depth of the queue, -1 for no limit
          Reads,        \* sized reads: [count, consume]
          MaxCalls,     \* bound: upstream calls and calls of disable per stream ID
          None

ASSUME PyInPortConstants ==
    /\ SRIs \subseteq [mode : 0..1, blocking : BOOLEAN]
    /\ Lens \subseteq Nat /\ MaxSize \in Int /\ MaxCalls \in Nat
    /\ \A r \in Reads : r.count \in Nat /\ r.consume \in 0..r.count


VARIABLES
    queue,          \* the packets of the port
    blocking, breakBlock,
    sriDict,        \* stream ID -> None or [sri, chg]
    streams,        \* stream ID -> its active stream, or None
    pendingStreams, \* stream ID -> the streams behind it
    objs,           \* the stream objects, by number
    prod,           \* the upstream thread of a stream ID
    rd,             \* the component's thread
    out,            \* stream ID -> the last data block read
    disabled        \* the stream IDs of the calls of disable

vars == <<queue, blocking, breakBlock, sriDict, streams, pendingStreams, objs,
          prod, rd, out, disabled>>

\* _eosState
EOS_NONE == 0
EOS_RECEIVED == 1
EOS_REACHED == 2
EOS_REPORTED == 3

\* bulkio.sri.create
DefaultSRI == [mode |-> 0, blocking |-> FALSE]

\* scalars per sample
ItemSize(sri) == IF sri.mode = 0 THEN 1 ELSE 2
xdelta(sri) == IF sri.mode = 0 THEN 1 ELSE 2

\* a new stream object; new, q, off, queued and pend are __newstream, __queue,
\* __sampleOffset, __samplesQueued and __pending.  For the properties, inst
\* numbers the instances of a stream ID, seen is the SRI of the packet last read
\* or skipped, and pos is the next scalar to be read, Fresh before the first read
Fresh == -1
NewStream(s, sri) ==
    [s |-> s, inst |-> Cardinality({i \in DOMAIN objs : objs[i].s = s}) + 1,
     eosState |-> EOS_NONE, enabled |-> TRUE, new |-> TRUE,
     q |-> <<>>, off |-> 0, queued |-> 0, pend |-> None, sri |-> sri,
     seen |-> sri, pos |-> Fresh]

Init ==
    /\ queue = <<>> /\ blocking = FALSE /\ breakBlock = FALSE
    /\ sriDict = [s \in Streams |-> None]
    /\ streams = [s \in Streams |-> None]
    /\ pendingStreams = [s \in Streams |-> <<>>]
    /\ objs = <<>>
    /\ prod = [s \in Streams |-> [pc |-> "idle", sri |-> None, inst |-> 1, next |-> 0,
                                  calls |-> 0, pkt |-> None, then |-> "idle"]]
    /\ rd = [pc |-> "idle"]
    /\ out = [s \in Streams |-> None]
    /\ disabled = <<>>

portVars == <<queue, blocking, breakBlock, sriDict, streams, pendingStreams>>

----------------------------------------------------------------------------
(* Upstream: pushSRI.                                                      *)

Calls(s) == prod[s].calls + Len(SelectSeq(disabled, LAMBDA t : t = s))

Idle(s) == prod[s].pc = "idle" /\ Calls(s) < MaxCalls

\* a blocking SRI puts the port into blocking mode before it is recorded
pushSRI_blocking(s, H) ==
    /\ Idle(s) /\ H.blocking
    /\ blocking' = TRUE
    /\ prod' = [prod EXCEPT ![s].pc = "sri", ![s].sri = H]
    /\ UNCHANGED <<queue, breakBlock, sriDict, streams, pendingStreams, objs, rd, out, disabled>>

pushSRI(s, H) ==
    LET isNew == sriDict[s] = None
        changed == isNew \/ sriDict[s].chg \/ sriDict[s].sri # H
    IN  /\ IF H.blocking THEN prod[s].pc = "sri" /\ prod[s].sri = H ELSE Idle(s)
        /\ sriDict' = IF changed THEN [sriDict EXCEPT ![s] = [sri |-> H, chg |-> TRUE]]
                                 ELSE sriDict
        /\ prod' = [prod EXCEPT ![s].pc = IF isNew THEN "create" ELSE "idle",
                                ![s].then = "idle", ![s].sri = H, ![s].calls = @ + 1]
        /\ UNCHANGED <<queue, blocking, breakBlock, streams, pendingStreams, objs, rd, out, disabled>>

\* behind an active stream of the same ID the new one is pending
createStream(s) ==
    /\ prod[s].pc = "create"
    /\ objs' = Append(objs, NewStream(s, sriDict[s].sri))
    /\ IF streams[s] = None
       THEN /\ streams' = [streams EXCEPT ![s] = Len(objs')]
            /\ UNCHANGED pendingStreams
       ELSE /\ pendingStreams' = [pendingStreams EXCEPT ![s] = Append(@, Len(objs'))]
            /\ UNCHANGED streams
    /\ prod' = [prod EXCEPT ![s].pc = prod[s].then]
    /\ UNCHANGED <<queue, blocking, breakBlock, sriDict, rd, out, disabled>>

----------------------------------------------------------------------------
(* Upstream: pushPacket.                                                   *)

\* _acceptPacket: the packets of a disabled stream are discarded, its EOS
\* closes and removes it
Accepts(s) == \/ streams[s] = None
              \/ objs[streams[s]].enabled
              \/ pendingStreams[s] # <<>>

\* the samples of a packet carry the SRI that upstream sent last
Packet(s, n, EOS) ==
    LET sri == IF prod[s].sri = None THEN DefaultSRI ELSE prod[s].sri
    IN  [s |-> s, inst |-> prod[s].inst, first |-> prod[s].next,
         len |-> n * ItemSize(sri), EOS |-> EOS, sri |-> sri, sent |-> sri,
         chg |-> FALSE, fl |-> FALSE]

\* after an EOS upstream may use the stream ID again, with a new instance
Sent(s, p) == [prod EXCEPT ![s].next = @ + p.len, ![s].calls = @ + 1,
                           ![s].sri = IF p.EOS THEN None ELSE p.sent,
                           ![s].inst = IF p.EOS THEN @ + 1 ELSE @]

pushPacket(s, n, EOS) ==
    LET p == Packet(s, n, EOS)
    IN  /\ Idle(s)
        /\ IF Accepts(s)
           THEN /\ prod' = [Sent(s, p) EXCEPT
                               ![s].pc = IF (p.len = 0 /\ ~EOS) \/ MaxSize = 0
                                         THEN "idle" ELSE "packet",
                               ![s].pkt = p]
                /\ UNCHANGED <<streams, objs>>
           ELSE /\ prod' = [Sent(s, p) EXCEPT ![s].pc = IF EOS THEN "check" ELSE "idle"]
                /\ IF EOS
                   THEN /\ objs' = [objs EXCEPT ![streams[s]].eosState = EOS_REPORTED]
                        /\ streams' = [streams EXCEPT ![s] = None]
                   ELSE UNCHANGED <<streams, objs>>
        /\ UNCHANGED <<queue, blocking, breakBlock, sriDict, pendingStreams, rd, out, disabled>>

\* _disableBlockingOnEOS, then blocking is switched off under another lock
AnyBlocking == \E s \in Streams : sriDict[s] # None /\ sriDict[s].sri.blocking

pushPacket_check(s) ==
    /\ prod[s].pc = "check"
    /\ prod' = [prod EXCEPT ![s].pc = IF AnyBlocking THEN "idle" ELSE "off"]
    /\ UNCHANGED <<portVars, objs, rd, out, disabled>>

pushPacket_off(s) ==
    /\ prod[s].pc = "off"
    /\ blocking' = FALSE
    /\ prod' = [prod EXCEPT ![s].pc = "idle"]
    /\ UNCHANGED <<queue, breakBlock, sriDict, streams, pendingStreams, objs, rd, out, disabled>>

\* the SRI of the packet; data for an unknown stream gets a default one
pushPacket_sri(s) ==
    LET unknown == sriDict[s] = None
        sri == IF unknown THEN DefaultSRI ELSE sriDict[s].sri
    IN  /\ prod[s].pc = "packet"
        /\ sriDict' = [sriDict EXCEPT ![s] = [sri |-> sri, chg |-> FALSE]]
        /\ prod' = [prod EXCEPT ![s].pc = IF unknown THEN "create" ELSE "enqueue",
                                ![s].then = "enqueue",
                                ![s].pkt.sri = sri,
                                ![s].pkt.chg = unknown \/ sriDict[s].chg]
        /\ UNCHANGED <<queue, blocking, breakBlock, streams, pendingStreams, objs, rd, out, disabled>>

Full == MaxSize >= 0 /\ Len(queue) >= MaxSize

\* _flushQueue, packet by packet: st is what is saved and the IDs with a new
\* SRI (set.discard returns None: an EOS never inherits the change from them)
LastOf(saved, s) == {i \in DOMAIN saved : saved[i].s = s
                        /\ \A j \in DOMAIN saved : saved[j].s = s => j <= i}
FlushOne_unmarked(st, p0) ==
    LET chgs == IF p0.EOS THEN st.chgs \ {p0.s}
                ELSE IF p0.chg THEN st.chgs \union {p0.s} ELSE st.chgs
        p == IF ~p0.EOS /\ p0.s \in chgs THEN [p0 EXCEPT !.chg = TRUE] ELSE p0
        before == LastOf(st.saved, p.s)
        i == CHOOSE x \in before : TRUE
        old == st.saved[i]
        saved ==
            IF before = {} THEN Append(st.saved, p)
            ELSE IF old.EOS
            THEN Append(st.saved, [p EXCEPT !.fl = ~(p.len = 0 /\ p.EOS)])
            ELSE IF p.EOS /\ p.len = 0
            THEN [st.saved EXCEPT ![i].EOS = TRUE]
            ELSE Append(RemoveAt(st.saved, i),
                        [p EXCEPT !.chg = @ \/ old.chg])
    IN  [saved |-> saved, chgs |-> chgs]
FlushOne(st, p0) ==
    LET chgs == IF p0.EOS THEN st.chgs \ {p0.s}
                ELSE IF p0.chg THEN st.chgs \union {p0.s} ELSE st.chgs
        p == IF ~p0.EOS /\ p0.s \in chgs THEN [p0 EXCEPT !.chg = TRUE] ELSE p0
        before == LastOf(st.saved, p.s)
        i == CHOOSE x \in before : TRUE
        old == st.saved[i]
        saved ==
            IF before = {} THEN Append(st.saved, p)
            ELSE IF old.EOS
            THEN Append(st.saved, [p EXCEPT !.fl = ~(p.len = 0 /\ p.EOS)])
            ELSE IF p.EOS /\ p.len = 0
            THEN [st.saved EXCEPT ![i].EOS = TRUE]
            ELSE Append(RemoveAt(st.saved, i),
                        [p EXCEPT !.fl = TRUE, !.chg = @ \/ old.chg])
    IN  [saved |-> saved, chgs |-> chgs]
flushQueue(q) == FoldLeft(FlushOne, [saved |-> <<>>, chgs |-> {}], q).saved

\* after a flush the packet replaces the last data packet of its stream ID
Replaced(q, s) == {i \in DOMAIN q : q[i].s = s /\ ~q[i].EOS
                      /\ \A j \in 1..(i - 1) : q[j].s = s => q[j].EOS}

\* what the queue holds once p is in it
Enqueued(p, flush) ==
    LET q == IF flush THEN flushQueue(queue) ELSE queue
        old == IF flush THEN Replaced(q, p.s) ELSE {}
        chg == p.chg \/ (flush /\ sriDict[p.s].chg)
    IN  IF old = {} THEN Append(q, [p EXCEPT !.chg = chg])
        ELSE LET i == CHOOSE x \in old : TRUE
             IN  Append(RemoveAt(q, i), [p EXCEPT !.fl = TRUE, !.chg = chg \/ q[i].chg])

\* a blocking port waits for room, any other flushes the queue; the stream ID
\* is forgotten with its EOS
enqueue(s) ==
    LET p == prod[s].pkt
        waits == blocking \/ prod[s].pc = "woken"
    IN  /\ prod[s].pc \in {"enqueue", "woken"}
        /\ IF waits /\ Full
           THEN /\ prod' = [prod EXCEPT ![s].pc = "wait"]
                /\ UNCHANGED <<queue, sriDict>>
           ELSE /\ queue' = Enqueued(p, Full)
                /\ sriDict' = IF p.EOS THEN [sriDict EXCEPT ![s] = None]
                              ELSE IF Full THEN [sriDict EXCEPT ![s].chg = FALSE]
                              ELSE sriDict
                /\ prod' = [prod EXCEPT ![s].pc = "idle", ![s].pkt = None]
        /\ UNCHANGED <<blocking, breakBlock, streams, pendingStreams, objs, rd, out, disabled>>

Upstream(s) ==
    \/ \E H \in SRIs : pushSRI_blocking(s, H) \/ pushSRI(s, H)
    \/ \E n \in Lens, EOS \in BOOLEAN : pushPacket(s, n, EOS)
    \/ createStream(s)
    \/ pushPacket_check(s) \/ pushPacket_off(s)
    \/ pushPacket_sri(s) \/ enqueue(s)

----------------------------------------------------------------------------
(* The buffered stream: what each method makes of the stream object o.     *)

Total(q) == FoldLeft(LAMBDA n, p : n + p.len, 0, q)

\* _queuePacket: an empty EOS packet marks the last packet, or ends the stream
queuePacket(o, p) ==
    IF p.EOS /\ p.len = 0
    THEN IF o.q = <<>> THEN [o EXCEPT !.eosState = EOS_REACHED]
         ELSE [o EXCEPT !.q[Len(o.q)].EOS = TRUE]
    ELSE [o EXCEPT !.queued = @ + p.len, !.q = Append(@, p)]

canBridge(p) == ~(p.chg \/ p.fl)

\* _fetchNextPacket and _fetchPacket, with the packet p that the port returned
fetched(o, p) ==
    LET r == IF p.EOS THEN [o EXCEPT !.eosState = EOS_RECEIVED] ELSE o
    IN  IF o.q = <<>> \/ canBridge(p) THEN queuePacket(r, p)
        ELSE [r EXCEPT !.pend = p]

\* more data may follow the packet p at once
bridged(o, p) == (o.q = <<>> \/ canBridge(p)) /\ ~(p.EOS /\ p.len = 0)

\* _consumeData and _consumePacket: k packets are used up; once the queue is
\* empty the pending packet follows
consumeData(o, n) ==
    LET end == o.off + n
        k == CHOOSE i \in 0..Len(o.q) :
                /\ Total(SubSeq(o.q, 1, i)) <= end
                /\ i < Len(o.q) => Total(SubSeq(o.q, 1, i + 1)) > end
        rest == SubSeq(o.q, k + 1, Len(o.q))
        r == [o EXCEPT !.q = rest, !.queued = @ - n, !.seen = o.q[IF k = 0 THEN 1 ELSE k].sri,
                       !.off = end - Total(SubSeq(o.q, 1, k)),
                       !.pos = o.q[1].first + o.off + n,
                       !.eosState = IF \E i \in 1..k : o.q[i].EOS THEN EOS_REACHED ELSE @]
    IN  IF k > 0 /\ rest = <<>> /\ r.pend # None
        THEN queuePacket([r EXCEPT !.pend = None], r.pend)
        ELSE r

\* _getTimestamp
getTimestamp(sri, inputOffset, outputOffset, time) ==
    LET item == IF sri.mode # 0 THEN 2 ELSE 1
    IN  [time |-> time + (inputOffset * xdelta(sri)) \div item,
         offset |-> outputOffset \div item,
         synthetic |-> inputOffset * xdelta(sri) > 0]

\* the scalars of a packet from offset a on
Scalars(p, a) == [i \in 1..(p.len - a) |-> [id |-> p.first + a + i - 1, inst |-> p.inst,
                                            sri |-> p.sent]]
Unread(o) == FlattenSeq([i \in DOMAIN o.q |-> Scalars(o.q[i], IF i = 1 THEN o.off ELSE 0)])

\* _readData with _mergePacketData: count scalars, one time stamp for every
\* packet they come from
dataBlock_mutant(o, count) ==
    LET start(i) == IF i = 1 THEN 0 ELSE Total(SubSeq(o.q, 1, i - 1)) - o.off
        used == {i \in DOMAIN o.q : i = 1 \/ start(i) < count}
        front == o.q[1]
    IN  [data  |-> SubSeq(Unread(o), 1, count - 1),
         sri   |-> front.sri,
         flags |-> IF o.new THEN TRUE ELSE front.chg /\ o.sri # front.sri,
         flushed |-> front.fl,
         stamps |-> [i \in used |->
                       getTimestamp(front.sri, IF i = 1 THEN o.off ELSE 0,
                                    start(i), o.q[i].first)]]
dataBlock(o, count) ==
    LET start(i) == IF i = 1 THEN 0 ELSE Total(SubSeq(o.q, 1, i - 1)) - o.off
        used == {i \in DOMAIN o.q : i = 1 \/ start(i) < count}
        front == o.q[1]
    IN  [data  |-> SubSeq(Unread(o), 1, count),
         sri   |-> front.sri,
         flags |-> IF o.new THEN TRUE ELSE front.chg /\ o.sri # front.sri,
         flushed |-> front.fl,
         stamps |-> [i \in used |->
                       getTimestamp(front.sri, IF i = 1 THEN o.off ELSE 0,
                                    start(i), o.q[i].first)]]

\* the stream object after _readData: flags are reported once
readData(o, consume) ==
    consumeData([o EXCEPT !.new = FALSE, !.sri = IF o.q[1].chg THEN o.q[1].sri ELSE @,
                          !.q[1].chg = FALSE, !.q[1].fl = FALSE], consume)

\* a read wants this many scalars (_readPacket: the first packet is enough)
Wanted(o, op) ==
    CASE op.kind = "packet" -> 1
      [] OTHER -> op.count * ItemSize(o.q[1].sri)
Fetches(o, op) == o.q # <<>> => op.kind # "eos" /\ o.queued < Wanted(o, op)

\* the port may be asked for a packet: no pending one, enabled, not ended
MayFetch(o) == o.pend = None /\ o.enabled /\ o.eosState = EOS_NONE

----------------------------------------------------------------------------
(* The component's thread.                                                 *)

\* the component got the stream from the port, when it was active
Held(n) == \A s \in Streams : n \notin ToSet(pendingStreams[s])

\* read and tryread, read of one packet, skip, and eos of the stream n
call(n, op) ==
    /\ rd.pc = "idle"
    /\ Held(n) /\ objs[n].eosState # EOS_REPORTED
    /\ rd' = [pc |-> "loop", obj |-> n, op |-> op, more |-> TRUE]
    /\ UNCHANGED <<portVars, objs, prod, out, disabled>>

\* _nextPacket for the stream: its first packet; one waiting push is notified
Available(s) == {i \in DOMAIN queue : queue[i].s = s /\ \A j \in 1..(i - 1) : queue[j].s # s}

Waiting == {s \in Streams : prod[s].pc = "wait"}
Notify == \/ Waiting = {} /\ UNCHANGED prod
          \/ \E s \in Waiting : prod' = [prod EXCEPT ![s].pc = "woken"]

InLoop == rd.pc = "loop" /\ rd.more /\ Fetches(objs[rd.obj], rd.op)

fetchPacket ==
    LET o == objs[rd.obj]
    IN  /\ InLoop /\ MayFetch(o) /\ ~breakBlock
        /\ \E i \in Available(o.s) :
              /\ queue' = RemoveAt(queue, i)
              /\ objs' = [objs EXCEPT ![rd.obj] = fetched(o, queue[i])]
              /\ rd' = [rd EXCEPT !.pc = IF queue[i].EOS THEN "check" ELSE "loop",
                                  !.more = bridged(o, queue[i])]
        /\ Notify
        /\ UNCHANGED <<blocking, breakBlock, sriDict, streams, pendingStreams, out, disabled>>

\* no packet: the stream may not fetch, the port is stopped, or the call does
\* not block; a blocking call waits until a packet comes or the port stops
fetchNothing ==
    LET o == objs[rd.obj]
    IN  /\ InLoop
        /\ \/ ~MayFetch(o) \/ breakBlock
           \/ ~rd.op.blocks /\ Available(o.s) = {}
        /\ rd' = [rd EXCEPT !.more = FALSE]
        /\ UNCHANGED <<portVars, objs, prod, out, disabled>>

\* the EOS that was fetched may switch blocking off
fetch_check ==
    /\ rd.pc = "check"
    /\ rd' = [rd EXCEPT !.pc = IF AnyBlocking THEN "loop" ELSE "off"]
    /\ UNCHANGED <<portVars, objs, prod, out, disabled>>

fetch_off ==
    /\ rd.pc = "off"
    /\ blocking' = FALSE
    /\ rd' = [rd EXCEPT !.pc = "loop"]
    /\ UNCHANGED <<queue, breakBlock, sriDict, streams, pendingStreams, objs, prod, out, disabled>>

Ready == rd.pc = "loop" /\ ~(rd.more /\ Fetches(objs[rd.obj], rd.op))

\* _reportIfEosReached with _removeStream: the next pending stream becomes active
reportIfEosReached(n) ==
    LET s == objs[n].s
    IN  IF objs[n].eosState = EOS_REACHED
        THEN /\ objs' = [objs EXCEPT ![n].eosState = EOS_REPORTED]
             /\ streams' = [streams EXCEPT ![s] = IF pendingStreams[s] = <<>> THEN None
                                                  ELSE Head(pendingStreams[s])]
             /\ pendingStreams' = [pendingStreams EXCEPT
                                      ![s] = IF @ = <<>> THEN @ ELSE Tail(@)]
        ELSE UNCHANGED <<objs, streams, pendingStreams>>

\* eos(), and a read or skip without data (skip does not report the end)
endOfStream ==
    LET o == objs[rd.obj]
    IN  /\ Ready
        /\ rd.op.kind = "eos" \/ o.queued = 0
        /\ IF rd.op.kind = "skip" THEN UNCHANGED <<objs, streams, pendingStreams>>
           ELSE reportIfEosReached(rd.obj)
        /\ rd' = [pc |-> "idle"]
        /\ UNCHANGED <<queue, blocking, breakBlock, sriDict, prod, out, disabled>>

\* the end of _readPacket, _read and skip
count_(o) == IF rd.op.kind = "packet" THEN o.q[1].len - o.off
             ELSE rd.op.count * ItemSize(o.q[1].sri)
finishRead ==
    LET o == objs[rd.obj]
        count == count_(o)
        partial == o.queued < count
        consume == CASE rd.op.kind # "read" -> IF partial THEN o.queued ELSE count
                     [] partial /\ rd.op.consume # 0 -> o.queued
                     [] OTHER -> rd.op.consume * ItemSize(o.q[1].sri)
        samples == IF partial THEN o.queued ELSE count
    IN  /\ Ready /\ rd.op.kind # "eos" /\ o.queued > 0
        /\ rd' = [pc |-> "idle"]
        /\ IF /\ rd.op.kind = "read" /\ partial /\ ~rd.op.blocks
              /\ o.pend = None /\ o.eosState = EOS_NONE
           THEN UNCHANGED <<objs, out>>
           ELSE IF rd.op.kind = "skip"
           THEN /\ objs' = [objs EXCEPT ![rd.obj] = consumeData(o, consume)]
                /\ out' = [out EXCEPT ![o.s] = None]
           ELSE /\ objs' = [objs EXCEPT ![rd.obj] = readData(o, consume)]
                /\ out' = [out EXCEPT ![o.s] = dataBlock(o, samples)]
        /\ UNCHANGED <<portVars, prod, disabled>>

\* disable(): the flag, then the packets in the port (no notification), then
\* what the stream holds.  Packets of later instances are discarded as well
\* when the EOS of this one is still in the queue.
disable(n) ==
    /\ rd.pc = "idle" /\ Calls(objs[n].s) < MaxCalls
    /\ Held(n) /\ objs[n].enabled /\ objs[n].eosState # EOS_REPORTED
    /\ objs' = [objs EXCEPT ![n].enabled = FALSE]
    /\ rd' = [pc |-> "discard", obj |-> n]
    /\ disabled' = Append(disabled, objs[n].s)
    /\ UNCHANGED <<portVars, prod, out>>

disable_discard ==
    LET o == objs[rd.obj]
        purge == o.eosState = EOS_NONE
    IN  /\ rd.pc = "discard"
        /\ queue' = IF purge THEN SelectSeq(queue, LAMBDA p : p.s # o.s) ELSE queue
        /\ objs' = [objs EXCEPT ![rd.obj] = [o EXCEPT !.q = <<>>, !.off = 0, !.queued = 0,
                                                      !.pend = None]]
        /\ rd' = [pc |-> "idle"]
        /\ UNCHANGED <<blocking, breakBlock, sriDict, streams, pendingStreams, prod, out, disabled>>

enable(n) ==
    /\ rd.pc = "idle"
    /\ Held(n) /\ ~objs[n].enabled /\ objs[n].eosState # EOS_REPORTED
    /\ objs' = [objs EXCEPT ![n].enabled = TRUE]
    /\ UNCHANGED <<portVars, prod, rd, out, disabled>>

\* stopPort and startPort, by the thread that stops and starts the component
block ==
    /\ ~breakBlock /\ breakBlock' = TRUE
    /\ prod' = [s \in Streams |-> IF prod[s].pc = "wait"
                                  THEN [prod[s] EXCEPT !.pc = "woken"] ELSE prod[s]]
    /\ UNCHANGED <<queue, blocking, sriDict, streams, pendingStreams, objs, rd, out, disabled>>

unblock ==
    /\ breakBlock /\ breakBlock' = FALSE
    /\ UNCHANGED <<queue, blocking, sriDict, streams, pendingStreams, objs, prod, rd, out, disabled>>

Ops == {[kind |-> k, blocks |-> b, count |-> r.count, consume |-> r.consume] :
           k \in {"read"}, b \in BOOLEAN, r \in Reads}
       \union {[kind |-> "packet", blocks |-> b] : b \in BOOLEAN}
       \union {[kind |-> "skip", blocks |-> TRUE, count |-> r.count] : r \in Reads}
       \union {[kind |-> "eos", blocks |-> FALSE]}

Reader ==
    \/ \E n \in DOMAIN objs : (\E op \in Ops : call(n, op)) \/ disable(n) \/ enable(n)
    \/ fetchPacket \/ fetchNothing \/ fetch_check \/ fetch_off
    \/ endOfStream \/ finishRead \/ disable_discard

Next == (\E s \in Streams : Upstream(s)) \/ Reader \/ block \/ unblock

Spec == Init /\ [][Next]_vars

----------------------------------------------------------------------------
(* Properties.                                                             *)

TypeOK ==
    /\ blocking \in BOOLEAN /\ breakBlock \in BOOLEAN
    /\ \A s \in Streams :
          /\ sriDict[s] = None \/ sriDict[s] \in [sri : SRIs \union {DefaultSRI}, chg : BOOLEAN]
          /\ streams[s] = None \/ streams[s] \in DOMAIN objs
          /\ ToSet(pendingStreams[s]) \subseteq DOMAIN objs
    /\ \A n \in DOMAIN objs :
          /\ objs[n].eosState \in EOS_NONE..EOS_REPORTED
          /\ objs[n].queued = Total(objs[n].q) - objs[n].off
          /\ objs[n].off = 0 \/ objs[n].off < objs[n].q[1].len

\* what is on its way to the reader of the stream n, packet by packet
Path(n) ==
    LET o == objs[n]
    IN  o.q \o (IF o.pend = None THEN <<>> ELSE <<o.pend>>)
            \o SelectSeq(queue, LAMBDA p : p.s = o.s /\ p.inst = o.inst)

\* all samples on their way to the readers of s
Samples(pkt, a) == {[id |-> i, inst |-> pkt.inst, sri |-> pkt.sent] :
                       i \in (pkt.first + a)..(pkt.first + pkt.len - 1)}
Channel(s) ==
    UNION {UNION {Samples(objs[n].q[i], IF i = 1 THEN objs[n].off ELSE 0) :
                     i \in DOMAIN objs[n].q}
           \union (IF objs[n].pend = None THEN {} ELSE Samples(objs[n].pend, 0)) :
              n \in {m \in DOMAIN objs : objs[m].s = s}}
    \union UNION {Samples(queue[i], 0) : i \in {k \in DOMAIN queue : queue[k].s = s}}

Contract == INSTANCE SampleChannel
                WITH chan <- [s \in Streams |-> Channel(s)],
                     block <- [s \in Streams |-> IF out[s] = None THEN <<>> ELSE out[s].data]

\* The reads of every stream implement SampleChannel: whatever packets the
\* samples came in, were bridged, held back as pending or flushed, a block is
\* the next samples in order, none twice, and no more than the block is consumed.
ReadsAreContiguous == Contract!Spec

\* no stream of this ID was disabled
Kept(n) == objs[n].s \notin ToSet(disabled)

\* A block never mixes samples of two instances or of two SRIs, and carries the
\* SRI they were sent with.
BlocksUniform ==
    \A s \in Streams \ ToSet(disabled) : out[s] # None =>
        \A i \in DOMAIN out[s].data :
            /\ out[s].data[i].inst = out[s].data[1].inst
            /\ out[s].data[i].sri = out[s].sri

\* Samples that a flush of the queue dropped never go unnoticed: the packet
\* behind the gap, or behind what was read last, has inputQueueFlushed set, and
\* a read stops in front of it.
LossMarked ==
    \A n \in DOMAIN objs :
        LET path == Path(n)
            o == objs[n]
        IN  Kept(n) =>
              /\ \A i \in 1..(Len(path) - 1) :
                    path[i + 1].first = path[i].first + path[i].len \/ path[i + 1].fl
              /\ path # <<>> /\ o.pos # Fresh =>
                    path[1].first + o.off = o.pos \/ path[1].fl

\* A change of SRI never goes unnoticed: between two packets of different SRI
\* the second has sriChanged set, however the queue was flushed.
SriChangeMarked ==
    \A n \in DOMAIN objs :
        LET path == Path(n)
            o == objs[n]
        IN  Kept(n) =>
              /\ \A i \in 1..(Len(path) - 1) :
                    path[i + 1].len > 0 /\ path[i + 1].sri # path[i].sri => path[i + 1].chg
              /\ path # <<>> /\ path[1].len > 0 /\ path[1].sri # o.seen => path[1].chg

\* Time stamps of a block are those of the samples they stand at, for real and
\* complex data, at the start of a packet and inside of one.
StampsTrue ==
    \A s \in Streams : out[s] # None =>
        \A i \in DOMAIN out[s].stamps :
            LET t == out[s].stamps[i]
                k == t.offset * ItemSize(out[s].sri) + 1
            IN  k \in DOMAIN out[s].data /\ out[s].data[k].id = t.time

\* The end of a stream that was never disabled is not lost: once upstream has
\* pushed it, it is in the queue or has reached the stream object.
EosNeverLost ==
    \A n \in DOMAIN objs :
        LET o == objs[n]
            done == prod[o.s].inst > o.inst /\ (prod[o.s].pkt = None \/ prod[o.s].pkt.inst # o.inst)
        IN  done /\ Kept(n) =>
              o.eosState # EOS_NONE \/ \E i \in DOMAIN Path(n) : Path(n)[i].EOS

\* Every packet in the queue can be read: the stream it was sent on is active or
\* pending.  (Once a stream was disabled this fails: the port keeps the SRI of
\* an EOS it discards, and creates no stream when the ID is used again.)
PacketsHaveStream ==
    \A i \in DOMAIN queue :
        LET s == queue[i].s
        IN  s \in ToSet(disabled) \/ \E n \in DOMAIN objs :
              /\ objs[n].s = s /\ objs[n].inst = queue[i].inst
              /\ n = streams[s] \/ n \in ToSet(pendingStreams[s])

\* What a stream holds for its reader is sound, between all calls: blocks are
\* of one stream and stamped right, and neither a loss, a change of SRI, an end
\* nor a packet goes missing between pushPacket and read.
StreamsSound ==
    /\ TypeOK /\ BlocksUniform /\ StampsTrue
    /\ LossMarked /\ SriChangeMarked /\ EosNeverLost /\ PacketsHaveStream

----------------------------------------------------------------------------
(* For model checking: real and complex streams, and reads that overlap.   *)

MCSRIs == {[mode |-> 0, blocking |-> FALSE], [mode |-> 1, blocking |-> TRUE]}
MCReads == {[count |-> 3, consume |-> 1]}

============================================================================
