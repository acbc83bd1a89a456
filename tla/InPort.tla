------------------------------- MODULE InPort -------------------------------
(***************************************************************************)
(* A BulkIO input port (bulkioInterfaces/libsrc/cpp/bulkio_in_port.cpp)    *)
(* with the InputStream objects it hands out (bulkio_in_stream.cpp).       *)
(*                                                                         *)
(* Every stream ID has one upstream thread, which calls pushSRI and        *)
(* pushPacket one after the other; one reader thread, the component's,     *)
(* uses either getPacket() or the stream API.  A stream ID may be used     *)
(* again once its end-of-stream (EOS) has been pushed: each use is an      *)
(* instance, and the port must keep the instances apart.                   *)
(*                                                                         *)
(* A step is what a thread does between two acquisitions of a mutex.       *)
(* Which of dataBufferLock, sriUpdateLock and streamsMutex a thread holds  *)
(* between steps is determined by where it is (DataFree, SriFree and       *)
(* StreamsFree below); threads stop while holding a mutex only where the   *)
(* code takes a second one or waits.                                       *)
(***************************************************************************)
EXTENDS Integers, Sequences, FiniteSets, SequencesExt

CONSTANTS
    Streams,        \* stream IDs, each with its upstream thread
    SRIs,           \* the SRIs they push: [version, blocking]
    QueueDepths,    \* values of maxQueue
    MaxCalls,       \* bound: pushSRI and pushPacket calls per stream ID
    Environment,    \* what upstream threads and the component do, see below
    NoSRI, NoStream, NoPacket

(***************************************************************************)
(* "streams": the component uses the stream API instead of getPacket;      *)
(* "disable": it disables and enables streams; "stop": it stops and starts *)
(* the port; "timeout": it waits for data with a finite timeout; "depth":  *)
(* it changes maxQueue while data flows; "update": upstream sends more     *)
(* than one SRI per instance; "nosri": upstream pushes data without SRI;   *)
(* "emptyeos": upstream ends a stream with an empty packet; "empty": it    *)
(* pushes empty packets that do not end the stream.                        *)
(***************************************************************************)
EnvironmentKinds == {"streams", "disable", "stop", "timeout", "depth",
                     "update", "nosri", "emptyeos", "empty"}

SRI == [version : Nat, blocking : BOOLEAN]

KnownSRI == [SRI : SRI, changed : BOOLEAN]

EosState == {"NONE", "REACHED"}

Stream == [instance : Nat, eos : EosState, enabled : BOOLEAN]

(***************************************************************************)
(* Packets.  buffer names the samples, and time stamp, the packet holds by *)
(* the instance and the number in it of the push that brought them.        *)
(***************************************************************************)
Empty == <<0, 0>>

Packet ==
    [streamID : Streams, instance : Nat, buffer : Nat \X Nat, EOS : BOOLEAN,
     SRI : SRI, sriChanged : BOOLEAN, inputQueueFlushed : BOOLEAN]

ASSUME InPortConstants ==
    /\ IsFiniteSet(Streams)
    /\ SRIs \subseteq SRI
    /\ QueueDepths \subseteq Nat
    /\ MaxCalls \in Nat
    /\ Environment \subseteq EnvironmentKinds
    /\ NoSRI \notin KnownSRI
    /\ NoStream \notin Streams \cup Stream
    /\ NoPacket \notin Packet

VARIABLES
    packetQueue,
    maxQueue,
    blocking,
    breakBlock,
    currentHs,          \* the SRI and changed flag of a known stream ID
    streams,            \* the active InputStream of a stream ID
    pendingStreams,     \* those that wait for the active one to end
    call,               \* where each upstream thread is, with its locals
    reader,             \* where the component's thread is
    sent,               \* what upstream has pushed: instance, data, calls
    last                \* the packet last read, by stream ID

vars == <<packetQueue, maxQueue, blocking, breakBlock, currentHs, streams,
          pendingStreams, call, reader, sent, last>>

port == <<packetQueue, maxQueue, blocking, breakBlock, currentHs, streams,
          pendingStreams>>

DefaultSRI == [version |-> 0, blocking |-> FALSE]

NewStream(s) == [instance |-> sent[s].instance, eos |-> "NONE", enabled |-> TRUE]

NoCall == [at |-> "idle", data |-> FALSE, EOS |-> FALSE, SRI |-> DefaultSRI,
           sriChanged |-> FALSE, eosCount |-> 0]

Init ==
    /\ packetQueue = <<>>
    /\ maxQueue \in QueueDepths
    /\ blocking = FALSE
    /\ breakBlock = FALSE
    /\ currentHs = [s \in Streams |-> NoSRI]
    /\ streams = [s \in Streams |-> NoStream]
    /\ pendingStreams = [s \in Streams |-> <<>>]
    /\ call = [s \in Streams |-> NoCall]
    /\ reader = [at |-> "ready", id |-> NoStream]
    /\ sent = [s \in Streams |-> [instance |-> 1, data |-> 0, calls |-> 0]]
    /\ last = [s \in Streams |-> NoPacket]

-----------------------------------------------------------------------------
(* Who holds which mutex between steps.                                    *)

DataFree ==
    /\ \A s \in Streams : call[s].at \notin {"full", "ended"}
    /\ reader.at \notin {"checked", "peeked"}

SriFree == \A s \in Streams : call[s].at \notin {"count", "again"}

StreamsFree == reader.at # "disabling"

-----------------------------------------------------------------------------
(* Helpers on the queue.                                                   *)

positions(q, s) == {i \in DOMAIN q : q[i].streamID = s}

eosCount(s) ==
    Cardinality({i \in positions(packetQueue, s) : packetQueue[i].EOS})

full == Len(packetQueue) >= maxQueue

\* The n-th smallest element of a set K of positions.
nth(K, n) == CHOOSE i \in K : Cardinality({j \in K : j <= i}) = n

first(K) == {i \in K : \A j \in K : i <= j}
newest(K) == {i \in K : \A j \in K : j <= i}

(***************************************************************************)
(* _flushQueue keeps, for every stream ID, the last packet and every EOS.  *)
(* A kept packet absorbs the packets between the previous kept one of its  *)
(* stream ID and itself.                                                   *)
(***************************************************************************)
\* (mutant: an EOS that is not the last packet of its stream ID is flushed)
keptLastOnly(q) == {i \in DOMAIN q : i \in newest(positions(q, q[i].streamID))}

kept(q) ==
    {i \in DOMAIN q : q[i].EOS \/ i \in newest(positions(q, q[i].streamID))}

absorbed(q, i) ==
    {j \in positions(q, q[i].streamID) \ kept(q) :
        /\ j < i
        /\ \A k \in kept(q) \cap positions(q, q[i].streamID) : k < j \/ k >= i}

(***************************************************************************)
(* What a kept packet becomes: an empty one takes over the newest samples  *)
(* that would be dropped; dropping (other) samples sets inputQueueFlushed; *)
(* an SRI change of a dropped packet is passed on.                         *)
(***************************************************************************)
samples(q, i) == {j \in absorbed(q, i) : q[j].buffer # Empty}

taken(q, i) ==
    IF q[i].buffer # Empty THEN {} ELSE newest(samples(q, i))

\* (mutant: dropped samples are not reported)
dropsUnseen(q, i) == FALSE
drops(q, i) == samples(q, i) \ taken(q, i) # {}

changes(q, i) == \E j \in absorbed(q, i) : q[j].sriChanged

merged(q, i) ==
    [q[i] EXCEPT
        !.buffer = IF taken(q, i) = {} THEN @
                   ELSE q[CHOOSE j \in taken(q, i) : TRUE].buffer,
        !.inputQueueFlushed = @ \/ drops(q, i),
        !.sriChanged = @ \/ changes(q, i)]

flushQueue(q) ==
    [n \in 1 .. Cardinality(kept(q)) |-> merged(q, nth(kept(q), n))]

-----------------------------------------------------------------------------
(* Waking threads up.                                                      *)

\* dataAvailable.notify_all(): a reader asleep in peekPacket looks again.
dataAvailable == IF reader.at = "sleeping" THEN [reader EXCEPT !.at = "peek"]
                 ELSE reader

\* (mutant: making room does not wake the pushes that wait for it)
queueUnannounced == call

\* queueAvailable.notify_all()
queueAvailable ==
    [s \in Streams |-> IF call[s].at = "waiting"
                       THEN [call[s] EXCEPT !.at = "woken"] ELSE call[s]]

-----------------------------------------------------------------------------
(* Upstream: pushSRI.                                                      *)

mayCall(s) == call[s].at = "idle" /\ sent[s].calls < MaxCalls

counted(s) == [sent EXCEPT ![s].calls = @ + 1]

pushSRI(s, H) ==
    /\ mayCall(s)
    /\ "update" \notin Environment => currentHs[s] = NoSRI
    /\ DataFree /\ SriFree
    /\ blocking' = (blocking \/ H.blocking)
    /\ IF currentHs[s] = NoSRI
       THEN /\ currentHs' = [currentHs EXCEPT ![s] = [SRI |-> H, changed |-> TRUE]]
            /\ call' = [call EXCEPT ![s].at = "create"]
       ELSE /\ call' = [call EXCEPT ![s] = [@ EXCEPT !.at = "count", !.SRI = H,
                                                     !.eosCount = eosCount(s)]]
            /\ UNCHANGED currentHs
    /\ sent' = counted(s)
    /\ UNCHANGED <<packetQueue, maxQueue, breakBlock, streams, pendingStreams,
                   reader, last>>

\* (mutant: the active stream is not counted)
allEndedPendingOnly(s) == Len(pendingStreams[s]) = call[s].eosCount

\* The current and the pending streams have all received their EOS:
\* pendingStreams is read without streamsMutex.
allEnded(s) == 1 + Len(pendingStreams[s]) = call[s].eosCount

updated(s) == [SRI |-> call[s].SRI, changed |-> TRUE]

\* sriUpdateLock is still held.
pushSRIDecide(s) ==
    /\ call[s].at = "count"
    /\ IF allEnded(s)
       THEN /\ call' = [call EXCEPT ![s].at = "again"]
            /\ UNCHANGED currentHs
       ELSE /\ call' = [call EXCEPT ![s] = NoCall]
            /\ IF call[s].SRI = currentHs[s].SRI THEN UNCHANGED currentHs
               ELSE currentHs' = [currentHs EXCEPT ![s] = updated(s)]
    /\ UNCHANGED <<packetQueue, maxQueue, blocking, breakBlock, streams,
                   pendingStreams, reader, sent, last>>

createStream(s) ==
    /\ call[s].at \in {"create", "again", "new"}
    /\ StreamsFree
    /\ IF streams[s] = NoStream
       THEN /\ streams' = [streams EXCEPT ![s] = NewStream(s)]
            /\ UNCHANGED pendingStreams
       ELSE /\ pendingStreams' = [pendingStreams EXCEPT ![s] = Append(@, NewStream(s))]
            /\ UNCHANGED streams
    /\ call' = [call EXCEPT
            ![s] = IF @.at = "new" THEN [@ EXCEPT !.at = "looked"] ELSE NoCall]
    /\ UNCHANGED <<packetQueue, maxQueue, blocking, breakBlock, currentHs,
                   reader, sent, last>>

-----------------------------------------------------------------------------
(* Upstream: pushPacket.                                                   *)

\* The upstream thread has ended the stream; its next push starts another.
nextInstance(s) == [sent EXCEPT ![s].instance = @ + 1, ![s].data = 0]

acceptPacket(s) ==
    \/ streams[s] = NoStream
    \/ streams[s].enabled
    \/ pendingStreams[s] # <<>>

pushPacket(s, data, EOS) ==
    /\ mayCall(s)
    /\ "nosri" \notin Environment => currentHs[s] # NoSRI
    /\ "emptyeos" \notin Environment => (EOS => data)
    /\ "empty" \notin Environment => data \/ EOS
    /\ StreamsFree
    /\ LET refused == ~acceptPacket(s)
           dropped == ~refused /\ (maxQueue = 0 \/ ~(data \/ EOS))
       IN  /\ call' = [call EXCEPT ![s] =
                  [@ EXCEPT !.at = IF dropped \/ (refused /\ ~EOS) THEN "idle"
                                   ELSE IF refused THEN "refused" ELSE "accepted",
                            !.data = data /\ ~refused /\ ~dropped,
                            !.EOS = EOS /\ ~dropped]]
           /\ sent' = [counted(s) EXCEPT
                  ![s].instance = IF EOS /\ dropped THEN @ + 1 ELSE @,
                  ![s].data = IF EOS /\ dropped THEN 0 ELSE @]
           /\ IF refused /\ EOS
              THEN /\ streams' = [streams EXCEPT ![s] = NoStream]
                   /\ reader' = IF reader.at = "got" /\ reader.id = s
                                THEN [reader EXCEPT !.id = NoStream] ELSE reader
              ELSE UNCHANGED <<streams, reader>>
    /\ UNCHANGED <<packetQueue, maxQueue, blocking, breakBlock, currentHs,
                   pendingStreams, last>>

(***************************************************************************)
(* _handleEOS: blocking is turned off unless the stream ID is known and    *)
(* some known stream blocks.                                               *)
(***************************************************************************)
turnOffBlocking(s) ==
    \/ currentHs[s] = NoSRI
    \/ \A t \in Streams : currentHs[t] # NoSRI => ~currentHs[t].SRI.blocking

refusedEOS(s) ==
    /\ call[s].at = "refused"
    /\ SriFree
    /\ IF turnOffBlocking(s)
       THEN /\ call' = [call EXCEPT ![s].at = "off"]
            /\ UNCHANGED sent
       ELSE /\ call' = [call EXCEPT ![s] = NoCall]
            /\ sent' = nextInstance(s)
    /\ UNCHANGED <<port, reader, last>>

refusedOff(s) ==
    /\ call[s].at = "off"
    /\ DataFree
    /\ blocking' = FALSE
    /\ call' = [call EXCEPT ![s] = NoCall]
    /\ sent' = nextInstance(s)
    /\ UNCHANGED <<packetQueue, maxQueue, breakBlock, currentHs, streams,
                   pendingStreams, reader, last>>

lookupSRI(s) ==
    /\ call[s].at = "accepted"
    /\ SriFree
    /\ IF currentHs[s] # NoSRI
       THEN /\ call' = [call EXCEPT ![s] =
                  [@ EXCEPT !.at = "looked", !.SRI = currentHs[s].SRI,
                            !.sriChanged = currentHs[s].changed]]
            /\ currentHs' = [currentHs EXCEPT ![s].changed = FALSE]
       ELSE /\ call' = [call EXCEPT ![s] =
                  [@ EXCEPT !.at = "new", !.SRI = DefaultSRI, !.sriChanged = TRUE]]
            /\ currentHs' = [currentHs EXCEPT
                  ![s] = [SRI |-> DefaultSRI, changed |-> FALSE]]
    /\ UNCHANGED <<packetQueue, maxQueue, blocking, breakBlock, streams,
                   pendingStreams, reader, sent, last>>

(***************************************************************************)
(* The packet joins q.  An EOS also forgets the SRI of the stream ID,      *)
(* which takes sriUpdateLock while dataBufferLock is held; only then is    *)
(* the reader told.                                                        *)
(***************************************************************************)
enqueue(s, q, sriChanged, flushed) ==
    LET n == IF call[s].data THEN sent[s].data + 1 ELSE sent[s].data IN
    /\ packetQueue' = Append(q,
            [streamID |-> s, instance |-> sent[s].instance,
             buffer |-> IF call[s].data THEN <<sent[s].instance, n>> ELSE Empty,
             EOS |-> call[s].EOS, SRI |-> call[s].SRI,
             sriChanged |-> sriChanged, inputQueueFlushed |-> flushed])
    /\ sent' = [sent EXCEPT ![s].data = n]
    /\ IF call[s].EOS
       THEN /\ call' = [call EXCEPT ![s].at = "ended"]
            /\ UNCHANGED reader
       ELSE /\ call' = [call EXCEPT ![s] = NoCall]
            /\ reader' = dataAvailable

queuePacket(s) ==
    /\ call[s].at = "looked"
    /\ DataFree
    /\ \/ /\ ~full
          /\ enqueue(s, packetQueue, call[s].sriChanged, FALSE)
       \/ /\ full
          /\ call' = [call EXCEPT ![s].at = IF blocking THEN "waiting" ELSE "full"]
          /\ UNCHANGED <<packetQueue, sent, reader>>
    /\ UNCHANGED <<maxQueue, blocking, breakBlock, currentHs, streams,
                   pendingStreams, last>>

\* Once it waits, a push looks at the length of the queue only.
woken(s) ==
    /\ call[s].at = "woken"
    /\ DataFree
    /\ \/ /\ ~full
          /\ enqueue(s, packetQueue, call[s].sriChanged, FALSE)
       \/ /\ full
          /\ call' = [call EXCEPT ![s].at = "waiting"]
          /\ UNCHANGED <<packetQueue, sent, reader>>
    /\ UNCHANGED <<maxQueue, blocking, breakBlock, currentHs, streams,
                   pendingStreams, last>>

(***************************************************************************)
(* The queue of a port that does not block is flushed; if the last packet  *)
(* left of the stream is no EOS, the new packet replaces it.               *)
(***************************************************************************)
replace(s, i, q) ==
    /\ enqueue(s, RemoveAt(q, i), q[i].sriChanged, TRUE)
    /\ currentHs' = [currentHs EXCEPT ![s].changed = FALSE]

flushAndQueue(s) ==
    /\ call[s].at = "full"
    /\ SriFree
    /\ LET q == flushQueue(packetQueue)
           replaced == {i \in newest(positions(q, s)) : ~q[i].EOS}
       IN  \/ \E i \in replaced : replace(s, i, q)
           \/ /\ replaced = {}
              /\ enqueue(s, q, call[s].sriChanged, FALSE)
              /\ UNCHANGED currentHs
    /\ UNCHANGED <<maxQueue, blocking, breakBlock, streams, pendingStreams, last>>

forgetSRI(s) ==
    /\ call[s].at = "ended"
    /\ SriFree
    /\ currentHs' = [currentHs EXCEPT ![s] = NoSRI]
    /\ call' = [call EXCEPT ![s] = NoCall]
    /\ sent' = nextInstance(s)
    /\ reader' = dataAvailable
    /\ UNCHANGED <<packetQueue, maxQueue, blocking, breakBlock, streams,
                   pendingStreams, last>>

-----------------------------------------------------------------------------
(* The component: getPacket and InputStream::readPacket.                   *)

\* (mutant: the newest packet of the stream is fetched)
fetchNewest(s) == newest(positions(packetQueue, s))

\* The place in the queue of the packet to fetch, if there is one.
fetchPacket(s) == first(positions(packetQueue, s))

\* What nextPacket does with dataBufferLock held.
nextPacket(s) ==
    \E i \in fetchPacket(s) :
        /\ ~breakBlock
        /\ DataFree
        /\ packetQueue' = RemoveAt(packetQueue, i)
        /\ last' = [last EXCEPT ![s] = packetQueue[i]]
        /\ call' = queueAvailable
        /\ reader' = [at |-> IF packetQueue[i].EOS THEN "fetched" ELSE "ready",
                      id |-> s]
        /\ UNCHANGED <<maxQueue, blocking, breakBlock, currentHs, streams,
                       pendingStreams, sent>>

\* The calls that find no packet return NULL and change nothing.
getPacket(s) == "streams" \notin Environment /\ reader.at = "ready" /\ nextPacket(s)

\* Back from nextPacket with an EOS: getPacket removes the stream, and so
\* does readPacket if there are no samples to return first.
finished(s) ==
    IF "streams" \notin Environment
    THEN reader' = [at |-> "remove", id |-> s] /\ UNCHANGED streams
    ELSE /\ streams' = [streams EXCEPT ![s].eos = "REACHED"]
         /\ reader' = [at |-> IF last[s].buffer = Empty THEN "remove" ELSE "ready",
                       id |-> s]

handleEOS ==
    /\ reader.at = "fetched"
    /\ SriFree
    /\ IF turnOffBlocking(reader.id)
       THEN reader' = [reader EXCEPT !.at = "turnoff"] /\ UNCHANGED streams
       ELSE finished(reader.id)
    /\ UNCHANGED <<packetQueue, maxQueue, blocking, breakBlock, currentHs,
                   pendingStreams, call, sent, last>>

turnOff ==
    /\ reader.at = "turnoff"
    /\ DataFree
    /\ blocking' = FALSE
    /\ finished(reader.id)
    /\ UNCHANGED <<packetQueue, maxQueue, breakBlock, currentHs,
                   pendingStreams, call, sent, last>>

removeStream ==
    LET s == reader.id IN
    /\ reader.at = "remove"
    /\ IF pendingStreams[s] # <<>>
       THEN /\ streams' = [streams EXCEPT ![s] = Head(pendingStreams[s])]
            /\ pendingStreams' = [pendingStreams EXCEPT ![s] = Tail(@)]
       ELSE /\ streams' = [streams EXCEPT ![s] = NoStream]
            /\ UNCHANGED pendingStreams
    /\ reader' = [reader EXCEPT !.at = "ready"]
    /\ UNCHANGED <<packetQueue, maxQueue, blocking, breakBlock, currentHs,
                   call, sent, last>>

-----------------------------------------------------------------------------
(* The component: the stream API.                                          *)

goto(at, s) == reader' = [at |-> at, id |-> s] /\ UNCHANGED <<port, call, sent, last>>

getCurrentStream ==
    /\ "streams" \in Environment
    /\ reader.at = "ready"
    /\ LET ended == {s \in Streams : streams[s] # NoStream /\ streams[s].eos = "REACHED"}
       IN  \/ \E s \in ended : goto("got", s)
           \/ ended = {} /\ goto("peek", NoStream)

\* peekPacket, one turn of its loop; a finite timeout expires.
peekPacket ==
    /\ reader.at = "peek"
    /\ DataFree
    /\ IF breakBlock THEN goto("ready", NoStream)
       ELSE IF packetQueue # <<>> THEN goto("peeked", Head(packetQueue).streamID)
       ELSE IF "timeout" \in Environment THEN goto("ready", NoStream)
       ELSE goto("checked", NoStream)

\* dataAvailable.wait releases dataBufferLock and sleeps.
wait == reader.at = "checked" /\ goto("sleeping", NoStream)

getStream ==
    /\ reader.at = "peeked"
    /\ IF streams[reader.id] # NoStream THEN goto("got", reader.id)
       ELSE goto("ready", NoStream)

\* The stream in hand is still the port's, enabled, and has not ended.
readable ==
    /\ reader.id # NoStream
    /\ streams[reader.id].enabled
    /\ streams[reader.id].eos = "NONE"

read ==
    /\ reader.at = "got"
    /\ readable
    /\ nextPacket(reader.id)

\* A read that returns no packet acknowledges an EOS that was reached.
readNothing ==
    /\ reader.at = "got"
    /\ \/ ~readable
       \/ breakBlock
       \/ positions(packetQueue, reader.id) = {}
    /\ IF reader.id # NoStream /\ streams[reader.id].eos = "REACHED"
       THEN goto("remove", reader.id)
       ELSE goto("ready", NoStream)

eos(s) ==
    /\ "streams" \in Environment
    /\ reader.at = "ready"
    /\ streams[s] # NoStream /\ streams[s].eos = "REACHED"
    /\ goto("remove", s)

enable(s) ==
    /\ "disable" \in Environment
    /\ reader.at = "ready"
    /\ streams[s] # NoStream /\ ~streams[s].enabled
    /\ streams' = [streams EXCEPT ![s].enabled = TRUE]
    /\ UNCHANGED <<packetQueue, maxQueue, blocking, breakBlock, currentHs,
                   pendingStreams, call, reader, sent, last>>

disable(s) ==
    /\ "disable" \in Environment
    /\ reader.at = "ready"
    /\ streams[s] # NoStream
    /\ streams' = [streams EXCEPT ![s].enabled = FALSE]
    /\ reader' = IF streams[s].eos = "NONE" THEN [at |-> "disabling", id |-> s]
                 ELSE reader
    /\ UNCHANGED <<packetQueue, maxQueue, blocking, breakBlock, currentHs,
                   pendingStreams, call, sent, last>>

\* The packets of s up to its first EOS.
discarded(s) ==
    {i \in positions(packetQueue, s) :
        \A j \in positions(packetQueue, s) : j < i => ~packetQueue[j].EOS}

\* queueAvailable is notified once per packet discarded.
discardPacketsForStream ==
    LET s == reader.id
        waiters == {t \in Streams : call[t].at = "waiting"}
        gone == discarded(s)
        rest == DOMAIN packetQueue \ gone
    IN  /\ reader.at = "disabling"
        /\ DataFree
        /\ packetQueue' =
              [n \in 1 .. Cardinality(rest) |-> packetQueue[nth(rest, n)]]
        /\ \E W \in SUBSET waiters :
              /\ \/ Cardinality(W) = Cardinality(gone)
                 \/ W = waiters /\ Cardinality(W) < Cardinality(gone)
              /\ call' = [t \in Streams |-> IF t \in W THEN [call[t] EXCEPT !.at = "woken"]
                                            ELSE call[t]]
        /\ reader' = [reader EXCEPT !.at = "ready"]
        /\ UNCHANGED <<maxQueue, blocking, breakBlock, currentHs, streams,
                       pendingStreams, sent, last>>

-----------------------------------------------------------------------------
(* The component: starting, stopping and sizing the port.                  *)

\* Neither takes a mutex.
block ==
    /\ "stop" \in Environment
    /\ ~breakBlock
    /\ breakBlock' = TRUE
    /\ reader' = dataAvailable
    /\ UNCHANGED <<packetQueue, maxQueue, blocking, currentHs, streams,
                   pendingStreams, call, sent, last>>

unblock ==
    /\ "stop" \in Environment
    /\ breakBlock
    /\ breakBlock' = FALSE
    /\ UNCHANGED <<packetQueue, maxQueue, blocking, currentHs, streams,
                   pendingStreams, call, reader, sent, last>>

\* (mutant: the depth is off by one)
setMaxQueueDepthPlusOne(depth) ==
    /\ "depth" \in Environment
    /\ DataFree
    /\ maxQueue' = depth + 1
    /\ UNCHANGED <<packetQueue, blocking, breakBlock, currentHs, streams,
                   pendingStreams, call, reader, sent, last>>

setMaxQueueDepth(depth) ==
    /\ "depth" \in Environment
    /\ DataFree
    /\ maxQueue' = depth
    /\ UNCHANGED <<packetQueue, blocking, breakBlock, currentHs, streams,
                   pendingStreams, call, reader, sent, last>>

-----------------------------------------------------------------------------
Push(s) ==
    \/ \E H \in SRIs : pushSRI(s, H)
    \/ \E data, EOS \in BOOLEAN : pushPacket(s, data, EOS)

\* An upstream thread goes on with the call it has made.
Upstream(s) ==
    \/ pushSRIDecide(s) \/ createStream(s)
    \/ refusedEOS(s) \/ refusedOff(s)
    \/ lookupSRI(s) \/ queuePacket(s) \/ woken(s) \/ flushAndQueue(s)
    \/ forgetSRI(s)

\* The component reads and acknowledges what it has read.
Reader ==
    \/ \E s \in Streams : getPacket(s) \/ eos(s)
    \/ handleEOS \/ turnOff \/ removeStream
    \/ getCurrentStream \/ peekPacket \/ wait \/ getStream \/ read \/ readNothing
    \/ discardPacketsForStream

Control ==
    \/ \E s \in Streams : enable(s) \/ disable(s)
    \/ block \/ unblock
    \/ \E depth \in QueueDepths : setMaxQueueDepth(depth)

Next == (\E s \in Streams : Push(s) \/ Upstream(s)) \/ Reader \/ Control

Spec == Init /\ [][Next]_vars

\* Calls go on, and the component keeps reading; nobody has to push.
Fairness ==
    /\ \A s \in Streams : WF_vars(Upstream(s))
    /\ WF_vars(Reader)

FairSpec == Spec /\ Fairness

-----------------------------------------------------------------------------
CallPlaces ==
    {"idle", "create", "count", "again", "new", "refused", "off", "accepted",
     "looked", "waiting", "woken", "full", "ended"}

Call ==
    [at : CallPlaces, data : BOOLEAN, EOS : BOOLEAN, SRI : SRI,
     sriChanged : BOOLEAN, eosCount : Nat]

ReaderPlaces ==
    {"ready", "fetched", "turnoff", "remove", "peek", "checked", "sleeping",
     "peeked", "got", "disabling"}

ReaderState == [at : ReaderPlaces, id : Streams \cup {NoStream}]

Sent == [instance : Nat, data : Nat, calls : 0 .. MaxCalls]

(***************************************************************************)
(* The types of the port's members and of the threads' locals; a thread    *)
(* that has found or removed a stream ID still has its SRI or stream.      *)
(***************************************************************************)
TypeOK ==
    /\ packetQueue \in Seq(Packet)
    /\ maxQueue \in QueueDepths
    /\ blocking \in BOOLEAN /\ breakBlock \in BOOLEAN
    /\ currentHs \in [Streams -> KnownSRI \cup {NoSRI}]
    /\ streams \in [Streams -> Stream \cup {NoStream}]
    /\ pendingStreams \in [Streams -> Seq(Stream)]
    /\ call \in [Streams -> Call]
    /\ reader \in ReaderState
    /\ sent \in [Streams -> Sent]
    /\ last \in [Streams -> Packet \cup {NoPacket}]

objects(s) ==
    (IF streams[s] = NoStream THEN <<>> ELSE <<streams[s]>>) \o pendingStreams[s]

\* EOS packets of s that have been read, or are in the reader's hands.
ended(s) ==
    IF last[s] = NoPacket THEN 0
    ELSE IF last[s].EOS THEN last[s].instance ELSE last[s].instance - 1

\* EOS packets of s that have been queued.
queuedEnds(s) ==
    IF call[s].at = "ended" THEN sent[s].instance ELSE sent[s].instance - 1

(***************************************************************************)
(* However often the queue is flushed, the EOS packets of a stream ID that *)
(* were queued and not yet read are in the queue, each once and in order:  *)
(* _flushQueue and the replacement in queuePacket drop no EOS.             *)
(***************************************************************************)
EosNeverLost ==
    \A s \in Streams :
        LET ends == {i \in positions(packetQueue, s) : packetQueue[i].EOS}
        IN  /\ {packetQueue[i].instance : i \in ends} = ended(s) + 1 .. queuedEnds(s)
            /\ \A i, j \in ends :
                   i < j => packetQueue[i].instance < packetQueue[j].instance

(***************************************************************************)
(* Instances of a stream ID are kept apart: in the queue, samples are in   *)
(* the order they were pushed, none comes after its instance's EOS, and no *)
(* packet holds samples of another instance, buffers swapped by            *)
(* _flushQueue included.                                                   *)
(***************************************************************************)
InstancesApart ==
    /\ \A i \in DOMAIN packetQueue :
          packetQueue[i].buffer \in {Empty} \cup ({packetQueue[i].instance} \X Nat)
    /\ \A s \in Streams : \A i, j \in positions(packetQueue, s) :
          LET p == packetQueue[i]
              r == packetQueue[j]
          IN  i < j => \/ p.instance < r.instance
                       \/ /\ p.instance = r.instance
                          /\ ~p.EOS
                          /\ r.buffer = Empty \/ p.buffer[2] < r.buffer[2]

delivers(s) == last'[s] # last[s]

sameInstance(s) ==
    last[s] # NoPacket /\ last[s].instance = last'[s].instance

(***************************************************************************)
(* Whatever is flushed, discarded, disabled or stopped in between, packets *)
(* of a stream ID are read in the order they were pushed, and nothing of   *)
(* an instance is read after its EOS.                                      *)
(***************************************************************************)
DeliveryInOrder ==
    [][\A s \in Streams :
          delivers(s) /\ last[s] # NoPacket =>
             \/ last[s].instance < last'[s].instance
             \/ /\ last[s].instance = last'[s].instance
                /\ ~last[s].EOS
                /\ last'[s].buffer # Empty => last[s].buffer[2] < last'[s].buffer[2]]_vars

(***************************************************************************)
(* The first packet read of an instance has sriChanged set, even if the    *)
(* packet that was to carry the flag has been flushed.                     *)
(***************************************************************************)
NewStreamReported(s) == ~sameInstance(s) => last'[s].sriChanged

(***************************************************************************)
(* When a packet's SRI is not the one of the packet read before it in the  *)
(* instance, it has sriChanged set.                                        *)
(***************************************************************************)
SriChangeReported(s) ==
    sameInstance(s) /\ last'[s].SRI # last[s].SRI => last'[s].sriChanged

(***************************************************************************)
(* Samples are not lost silently: when a packet does not continue the      *)
(* samples read before, it has inputQueueFlushed set.  An end-of-stream    *)
(* packet is exempt: one that was pushed empty takes over samples in       *)
(* _flushQueue without the report of an earlier loss.                      *)
(***************************************************************************)
LossReported(s) ==
    ~last'[s].EOS =>
        \/ last'[s].buffer = Empty
        \/ last'[s].buffer[2] = 1 + (IF sameInstance(s) THEN last[s].buffer[2] ELSE 0)
        \/ last'[s].inputQueueFlushed

(***************************************************************************)
(* Apart from EOS packets, which are never dropped, the queue holds no     *)
(* more packets than its depth (the largest one ever set, if the depth     *)
(* changes while data flows), or one per stream ID if that is more.        *)
(***************************************************************************)
QueueBounded ==
    LET n == Cardinality({i \in DOMAIN packetQueue : ~packetQueue[i].EOS})
        depths == IF "depth" \in Environment THEN QueueDepths ELSE {maxQueue}
    IN  n <= Cardinality(Streams) \/ \E d \in depths : n <= d

(***************************************************************************)
(* Whatever is queued can be read: the InputStream of every queued packet  *)
(* is active or pending, and some stream of the ID is active, so that      *)
(* getCurrentStream finds it.                                              *)
(***************************************************************************)
PacketsHaveStream ==
    \A i \in DOMAIN packetQueue :
        LET s == packetQueue[i].streamID
        IN  /\ streams[s] # NoStream
            /\ \E n \in DOMAIN objects(s) :
                   objects(s)[n].instance = packetQueue[i].instance

(***************************************************************************)
(* An instance has one InputStream: pushSRI creates another one for its    *)
(* stream ID only when the current and the pending ones have all received  *)
(* their EOS.                                                              *)
(***************************************************************************)
OneStreamPerInstance ==
    \A s \in Streams : \A i, j \in DOMAIN objects(s) :
        i < j => objects(s)[i].instance < objects(s)[j].instance

(***************************************************************************)
(* An InputStream whose instance upstream has ended, and that has not been *)
(* told so, still finds its EOS in the queue or in the reader's hands.     *)
(***************************************************************************)
StreamsEnd ==
    \A s \in Streams :
        \A n \in DOMAIN objects(s) :
            \/ objects(s)[n].eos # "NONE"
            \/ objects(s)[n].instance >= sent[s].instance
            \/ \E i \in positions(packetQueue, s) :
                   /\ packetQueue[i].EOS
                   /\ packetQueue[i].instance = objects(s)[n].instance
            \/ reader.at \in {"fetched", "turnoff", "remove"} /\ reader.id = s

(***************************************************************************)
(* The queue is sound, whatever is flushed and whichever stream ID is used *)
(* again: no EOS is lost, no data crosses instances, the queue is bounded  *)
(* and all of it can be read (queuePacket, _flushQueue, fetchPacket).      *)
(***************************************************************************)
QueueTrue == EosNeverLost /\ InstancesApart /\ QueueBounded /\ PacketsHaveStream

(***************************************************************************)
(* The InputStreams fit the instances that upstream makes: one for each,   *)
(* which ends when upstream ends it (pushSRI, removeStream).               *)
(***************************************************************************)
StreamsTrue == StreamsEnd /\ OneStreamPerInstance

(***************************************************************************)
(* The component is told of what happened between two packets it reads:    *)
(* lost samples, a new stream, another SRI (the flags of DataTransfer).    *)
(***************************************************************************)
ChangesReported ==
    [][\A s \in Streams : delivers(s) =>
          NewStreamReported(s) /\ SriChangeReported(s) /\ LossReported(s)]_vars
=============================================================================
