----------------------------- MODULE PySandbox ------------------------------
(***************************************************************************)
(* A source of the sandbox connected to a sink and to other ports.         *)
(*                                                                         *)
(* The source (io_helpers.py, DataSource, and bulkio_data_helpers.py,      *)
(* ArraySource): push queues a data set; a thread cuts it into packets and *)
(* pushes them, after the SRI if that has changed or a connection is new.  *)
(* One user makes all calls.  A sample is <<data set, index, length of the *)
(* data set>>.                                                             *)
(*                                                                         *)
(* The sink (ArraySink, and DataSink of io_helpers.py): packets are        *)
(* appended to one array, each with the position and time of its first     *)
(* sample; getData waits for an end of stream or for enough samples and    *)
(* takes them out.  Every operation holds port_cond but for the resets of  *)
(* the flags.                                                              *)
(***************************************************************************)
EXTENDS Naturals, Sequences, SequencesExt, FiniteSets

(***************************************************************************)
(* The sink                                                                *)
(***************************************************************************)
CONSTANTS Lengths,     \* the numbers of samples that are asked for; None: all
          Frame,       \* the frame length that each SRI tells, 0: not framed
          MaxReads,    \* bound on the calls of getData and of stop, reset and start
          None

VARIABLES data,        \* the samples that nobody took yet
          timestamps,  \* <<position in data, time>> of the packets in data
          gotEOS, breakBlock,
          sinkSRI,     \* the SRI pushed last
          reader,      \* the call of getData
          taken,       \* ghost: all samples taken so far
          packets,     \* ghost: <<position, time>> of every packet, from the very start
          last,        \* ghost: what the last call returned
          reads

sinkVars == <<data, timestamps, gotEOS, breakBlock, sinkSRI, reader, taken, packets, last, reads>>

Resting == [pc |-> "idle", length |-> 0]
Nothing == [base |-> 0, times |-> <<>>, asked |-> 0, count |-> 0, ended |-> FALSE]

SinkInit ==
    /\ data = <<>> /\ timestamps = <<>> /\ gotEOS = FALSE /\ breakBlock = FALSE
    /\ sinkSRI = None /\ reader = Resting
    /\ taken = <<>> /\ packets = {} /\ last = Nothing /\ reads = 0

_isActive == ~gotEOS /\ ~breakBlock

(* notifyAll: who waits looks again when it has the lock.                  *)
Notified == [reader EXCEPT !.pc = CASE @ = "eosAsleep" -> "eos"
                                    [] @ = "dataAsleep" -> "enough"
                                    [] OTHER -> @]

pushSRI(H) == sinkSRI' = H

pushPacket(samples, ts, EOS) ==
    /\ gotEOS' = EOS
    /\ data' = data \o samples
    /\ IF samples = <<>> THEN UNCHANGED <<timestamps, packets>>
       ELSE /\ timestamps' = Append(timestamps, <<Len(data), ts>>)
            /\ packets' = packets \cup {<<Len(taken) + Len(data), ts>>}
    /\ reader' = Notified
    /\ UNCHANGED <<breakBlock, taken, last, reads>>

getData(length, eos_block) ==
    /\ reader.pc = "idle" /\ reads < MaxReads
    /\ reads' = reads + 1
    /\ reader' = [pc |-> IF eos_block THEN "eos" ELSE "retrieve", length |-> length]
    /\ UNCHANGED <<data, timestamps, gotEOS, breakBlock, sinkSRI, taken, packets, last>>

waitEOS ==
    /\ reader.pc = "eos"
    /\ reader' = [reader EXCEPT !.pc = IF _isActive THEN "eosAsleep" ELSE "retrieve"]
    /\ UNCHANGED <<data, timestamps, gotEOS, breakBlock, sinkSRI, taken, packets, last, reads>>

(* The times that stay behind when length samples are taken out: their     *)
(* positions count from the first sample that stays.                       *)
Rebased_Not(length) == SelectSeq(timestamps, LAMBDA t : t[1] > length)
Rebased(length) ==
    LET kept == SelectSeq(timestamps, LAMBDA t : t[1] > length)
    IN [i \in DOMAIN kept |-> <<kept[i][1] - length, kept[i][2]>>]

Returned(length, count, times) ==
    /\ last' = [base |-> Len(taken), times |-> times, asked |-> length, count |-> count,
                ended |-> ~_isActive]
    /\ taken' = taken \o SubSeq(data, 1, count)
    /\ data' = SubSeq(data, count + 1, Len(data))
    /\ reader' = Resting

(* More than was asked for: the times come out latest first, and one whose *)
(* packet begins right behind the block comes with the block.              *)
TakeSome(length) ==
    /\ Len(data) > length
    /\ Returned(length, length, Reverse(SelectSeq(timestamps, LAMBDA t : t[1] <= length)))
    /\ timestamps' = Rebased(length)

TakeAll(length) ==
    /\ Len(data) <= length
    /\ Returned(length, Len(data), timestamps)
    /\ timestamps' = <<>>

Enough(length) == Len(data) >= length \/ ~_isActive

Sleep(length) ==
    /\ reader' = [pc |-> "dataAsleep", length |-> length]
    /\ UNCHANGED <<data, timestamps, taken, last>>

(* A length that is no whole number of frames is refused.                  *)
retrieveData ==
    /\ reader.pc \in {"retrieve", "enough"}
    /\ LET length == IF reader.length = None THEN Len(data) ELSE reader.length
           frame == Frame[sinkSRI]
       IN IF reader.pc = "retrieve" /\ frame # 0 /\ length % frame # 0
          THEN reader' = Resting /\ UNCHANGED <<data, timestamps, taken, last>>
          ELSE \/ Enough(length) /\ (TakeSome(length) \/ TakeAll(length))
               \/ ~Enough(length) /\ Sleep(length)
    /\ UNCHANGED <<gotEOS, breakBlock, sinkSRI, packets, reads>>

stop ==
    /\ reads < MaxReads /\ reads' = reads + 1
    /\ breakBlock' = TRUE /\ reader' = Notified
    /\ UNCHANGED <<data, timestamps, gotEOS, sinkSRI, taken, packets, last>>

reset ==
    /\ reads < MaxReads /\ reads' = reads + 1
    /\ ~_isActive
    /\ gotEOS' = FALSE /\ breakBlock' = FALSE
    /\ UNCHANGED <<data, timestamps, sinkSRI, reader, taken, packets, last>>

SinkNext ==
    \/ \E length \in Lengths, eos_block \in BOOLEAN : getData(length, eos_block)
    \/ waitEOS \/ retrieveData \/ stop \/ reset

(***************************************************************************)
(* The source                                                              *)
(***************************************************************************)
CONSTANTS Conns,       \* the connections; Sink is the one to the sink
          Sink,
          DefaultSRI,         \* the SRI that a port starts with
          DataSets, PktSize,  \* what a user pushes, the samples per packet
          MaxPushes, MaxUserCalls, MaxRepeats, MaxFaults   \* bounds

VARIABLES queue,       \* _dataQueue
          pending,     \* _packetsPending
          exit, exited, loop,   \* _exitThread, threadExited, _loop
          sri,         \* _sri
          clock,       \* _currentSampleTime, in samples
          thread,      \* pushThread: where it is, in which data set, at which sample
          user,        \* the call of the user
          port, refresh, portSRI, outPorts, \* ArraySource: exists, refreshSRI, sri, outPorts
          heard,       \* the SRI that each connection was told
          excused, misled,      \* ghosts, see SriFirst
          started, crossed,     \* ghosts, see StartedRuns
          stuck,       \* ghost: a data set was sent that will stay counted as pending
          holes,       \* ghost: packets that the sink was not sent
          ids, userCalls, repeats, faults

sourceVars == <<queue, pending, exit, exited, loop, sri, clock, thread, user, port, refresh,
                portSRI, outPorts, heard, excused, misled, started, crossed, stuck, holes, ids,
                userCalls, repeats, faults>>

NoSet == [id |-> 0, n |-> 0, eos |-> FALSE, sri |-> None, loop |-> None, ts |-> None]

SourceInit ==
    /\ queue = <<>> /\ pending = 0 /\ exit = FALSE /\ exited = None /\ loop = FALSE
    /\ sri = None /\ clock = 0
    /\ thread = [pc |-> "none", set |-> NoSet, at |-> 0, then |-> "none"]
    /\ user = "idle"
    /\ port = FALSE /\ refresh = FALSE /\ portSRI = DefaultSRI /\ outPorts = {}
    /\ heard = [c \in Conns |-> None]
    /\ excused = {} /\ misled = {} /\ started = FALSE /\ crossed = FALSE /\ stuck = FALSE
    /\ holes = 0 /\ ids = 0 /\ userCalls = 0 /\ repeats = 0 /\ faults = 0

UserCall == user = "idle" /\ userCalls < MaxUserCalls /\ userCalls' = userCalls + 1
Fault == faults < MaxFaults /\ faults' = faults + 1
At(pc) == thread.pc = pc
Goto(pc) == thread' = [thread EXCEPT !.pc = pc]

----------------------------------------------------------------------------
(* The user's calls.                                                       *)

push ==
    /\ user = "idle" /\ ids < MaxPushes /\ ids' = ids + 1
    /\ \E set \in DataSets : queue' = Append(queue, [set EXCEPT !.id = ids + 1])
    /\ user' = "queued"
    /\ UNCHANGED <<pending, exit, exited, loop, sri, clock, thread, port, refresh, portSRI,
                   outPorts, heard, excused, misled, started, crossed, stuck, holes, userCalls,
                   repeats, faults>>

(* The data set is counted after it was queued; the thread may have sent   *)
(* it before.                                                              *)
_packetQueued ==
    /\ user = "queued" /\ user' = "idle"
    /\ pending' = pending + 1
    /\ UNCHANGED <<queue, exit, exited, loop, sri, clock, thread, ids, port, refresh, portSRI,
                   outPorts, heard, excused, misled, started, crossed, stuck, holes, userCalls,
                   repeats, faults>>

AllSent == pending = 0

waitAllPacketsSent ==
    /\ UserCall
    /\ user' = IF AllSent THEN "waited" ELSE "waiting"
    /\ UNCHANGED <<queue, pending, exit, exited, loop, sri, clock, thread, ids, port, refresh,
                   portSRI, outPorts, heard, excused, misled, started, crossed, stuck, holes,
                   repeats, faults>>

(* The call returns, when all is sent or at its timeout.                   *)
WaitEnds ==
    /\ user \in {"waited", "waiting"} /\ user' = "idle"
    /\ UNCHANGED <<queue, pending, exit, exited, loop, sri, clock, thread, ids, port, refresh,
                   portSRI, outPorts, heard, excused, misled, started, crossed, stuck, holes,
                   userCalls, repeats, faults>>

Startable == thread.pc \in {"none", "ended"}      \* no thread, or not alive

start ==
    /\ UserCall
    /\ exit' = FALSE /\ started' = TRUE
    /\ thread' = IF Startable THEN [thread EXCEPT !.pc = "begin", !.set = NoSet, !.at = 0] ELSE thread
    /\ crossed' = (thread.pc = "leave")
    /\ UNCHANGED <<queue, pending, exited, loop, sri, clock, user, ids, port, refresh, portSRI,
                   outPorts, heard, excused, misled, stuck, holes, repeats, faults>>

sourceStop ==
    /\ UserCall
    /\ exit' = TRUE /\ loop' = FALSE /\ started' = FALSE
    /\ user' = IF exited = None THEN "stopped" ELSE "stopping"
    /\ UNCHANGED <<queue, pending, exited, sri, clock, thread, ids, port, refresh, portSRI,
                   outPorts, heard, excused, misled, crossed, stuck, holes, repeats, faults>>

(* Ten short waits for the thread, then an AssertionError.                 *)
stopEnds ==
    /\ \/ user = "stopping" /\ exited = TRUE /\ user' = "stopped"
       \/ user = "stopping" /\ exited # TRUE /\ user' = "idle"
       \/ user = "stopped" /\ user' = "idle"
    /\ UNCHANGED <<queue, pending, exit, exited, loop, sri, clock, thread, ids, port, refresh,
                   portSRI, outPorts, heard, excused, misled, started, crossed, stuck, holes,
                   userCalls, repeats, faults>>

(* getPort makes the ArraySource, with the default SRI, and connectPort    *)
(* has the SRI sent again.                                                 *)
Refreshed == TRUE

connectPort(c) ==
    /\ UserCall /\ c \notin outPorts
    /\ port' = TRUE /\ outPorts' = outPorts \cup {c} /\ refresh' = Refreshed
    /\ heard' = [heard EXCEPT ![c] = None]
    /\ excused' = IF thread.pc \in {"clear", "packet"} \/ (sri # None /\ portSRI # sri)
                  THEN excused \cup {c} ELSE excused \ {c}
    /\ UNCHANGED <<queue, pending, exit, exited, loop, sri, clock, thread, user, ids, portSRI,
                   misled, started, crossed, stuck, holes, repeats, faults>>

disconnectPort(c) ==
    /\ UserCall /\ c \in outPorts
    /\ outPorts' = outPorts \ {c}
    /\ holes' = IF c = Sink THEN holes + 1 ELSE holes
    /\ UNCHANGED <<queue, pending, exit, exited, loop, sri, clock, thread, user, ids, port,
                   refresh, portSRI, heard, excused, misled, started, crossed, stuck, repeats,
                   faults>>

----------------------------------------------------------------------------
(* pushThread.                                                             *)

Begun_Not == exited
Begun == FALSE

begin ==
    /\ At("begin")
    /\ IF exit THEN Goto("leave") /\ exited' = TRUE ELSE Goto("get") /\ exited' = Begun
    /\ UNCHANGED <<queue, pending, exit, loop, sri, clock, user, ids, port, refresh, portSRI,
                   outPorts, heard, excused, misled, started, crossed, stuck, holes, userCalls,
                   repeats, faults>>

(* A data set that is taken out when the thread is to exit is dropped.     *)
get ==
    /\ \/ At("get") /\ queue # <<>>
          /\ thread' = [thread EXCEPT !.pc = "got", !.set = Head(queue), !.at = 0]
          /\ queue' = Tail(queue)
          /\ UNCHANGED <<exited, stuck>>
       \/ At("get") /\ exit
          /\ Goto("leave") /\ exited' = TRUE /\ UNCHANGED <<queue, stuck>>
       \/ At("got") /\ exit
          /\ thread' = [thread EXCEPT !.pc = "leave", !.set = NoSet]
          /\ exited' = TRUE /\ stuck' = TRUE /\ UNCHANGED queue
       \/ At("leave") /\ Goto("ended") /\ UNCHANGED <<queue, exited, stuck>>
    /\ UNCHANGED <<pending, exit, loop, sri, clock, user, ids, port, refresh, portSRI, outPorts,
                   heard, excused, misled, started, crossed, holes, userCalls, repeats, faults>>

(* ArraySource.pushSRI: under the lock to each connection in turn; one     *)
(* that fails ends the loop.                                               *)
PushSRI(H, then) ==
    /\ portSRI' = H
    /\ \E reached \in SUBSET outPorts :
         /\ IF reached = outPorts THEN UNCHANGED faults ELSE Fault
         /\ heard' = [c \in Conns |-> IF c \in reached THEN H ELSE heard[c]]
         /\ excused' = (excused \ (IF H = sri' THEN reached ELSE {})) \cup (outPorts \ reached)
         /\ IF Sink \in reached THEN sinkSRI' = H ELSE UNCHANGED sinkSRI
    /\ thread' = [thread EXCEPT !.pc = "clear", !.then = then]

Candidate == IF thread.set.sri # None THEN thread.set.sri
             ELSE IF sri # None THEN sri ELSE DefaultSRI

newSRI ==
    /\ At("got") /\ ~exit
    /\ sri' = Candidate
    /\ loop' = IF thread.set.loop = None THEN loop ELSE thread.set.loop
    /\ clock' = IF thread.set.ts = None THEN clock ELSE thread.set.ts
    /\ IF sri' # sri /\ port
       THEN PushSRI(sri', "chunk")
       ELSE Goto("chunk") /\ UNCHANGED <<portSRI, heard, excused, faults, sinkSRI>>
    /\ UNCHANGED <<queue, pending, exit, exited, user, ids, port, refresh, outPorts, misled,
                   started, crossed, stuck, holes, userCalls, repeats>>

(* refreshSRI is cleared when the lock has been released.                  *)
clear ==
    /\ At("clear") /\ refresh' = FALSE
    /\ Goto(thread.then)
    /\ UNCHANGED <<queue, pending, exit, exited, loop, sri, clock, user, ids, port, portSRI,
                   outPorts, heard, excused, misled, started, crossed, stuck, holes, userCalls,
                   repeats, faults>>

(* A chunk that cannot be converted raises: the rest of the data set is    *)
(* not sent, and it is not counted as sent.                                *)
chunk ==
    /\ At("chunk")
    /\ \/ /\ port /\ refresh /\ UNCHANGED sri /\ PushSRI(portSRI, "packet")
          /\ UNCHANGED <<stuck, holes>>
       \/ /\ port /\ ~refresh /\ Goto("packet")
          /\ UNCHANGED <<sri, portSRI, heard, excused, stuck, holes, faults, sinkSRI>>
       \/ /\ ~port /\ (thread.set.n = 0 \/ ~loop) /\ Goto("sent")   \* a loop goes round until stop
          /\ UNCHANGED <<sri, portSRI, heard, excused, stuck, holes, faults, sinkSRI>>
       \/ /\ port /\ thread.set.n > 0 /\ Fault
          /\ thread' = [thread EXCEPT !.pc = "get", !.set = NoSet]
          /\ stuck' = TRUE /\ holes' = holes + 1
          /\ UNCHANGED <<sri, portSRI, heard, excused, sinkSRI>>
    /\ UNCHANGED <<queue, pending, exit, exited, loop, clock, user, ids, port, refresh, outPorts,
                   misled, started, crossed, userCalls, repeats>>

NextStart == thread.at + PktSize

LastChunk == thread.at + PktSize >= thread.set.n
PacketEOS == thread.set.eos /\ LastChunk

SetMin(x, y) == IF x < y THEN x ELSE y

(* ArraySource.pushPacket: an end of stream has the SRI sent again; one    *)
(* connection that fails ends the loop over them.                          *)
PushPacket(samples) ==
    /\ refresh' = (refresh \/ PacketEOS)
    /\ \E reached \in SUBSET outPorts :
         /\ IF reached = outPorts THEN UNCHANGED faults ELSE Fault
         /\ misled' = misled \cup {c \in reached \ excused : heard[c] # sri}
         /\ IF Sink \in reached
            THEN pushPacket(samples, clock, PacketEOS) /\ UNCHANGED <<sinkSRI, holes>>
            ELSE /\ holes' = IF Sink \in outPorts THEN holes + 1 ELSE holes
                 /\ UNCHANGED sinkVars

(* _pushPackets: a packet, then the next one, the next round of a loop or  *)
(* the end of the data set.                                                *)
packet ==
    /\ At("packet")
    /\ LET set == thread.set
           end == SetMin(thread.at + PktSize, set.n)
           samples == [i \in 1..(end - thread.at) |-> <<set.id, thread.at + i, set.n>>]
       IN PushPacket(samples) /\ clock' = clock + Len(samples)
    /\ \/ ~LastChunk /\ thread' = [thread EXCEPT !.pc = "chunk", !.at = NextStart] /\ UNCHANGED repeats
       \/ /\ LastChunk /\ loop /\ thread.set.n > 0 /\ repeats < MaxRepeats
          /\ thread' = [thread EXCEPT !.pc = "chunk", !.at = 0] /\ repeats' = repeats + 1
       \/ LastChunk /\ (thread.set.n = 0 \/ ~loop) /\ Goto("sent") /\ UNCHANGED repeats
    /\ UNCHANGED <<queue, pending, exit, exited, loop, sri, user, ids, port, portSRI, outPorts,
                   heard, excused, started, crossed, stuck, userCalls>>

Woken == IF pending = 1 /\ user = "waiting" THEN "waited" ELSE user      \* notifyAll

(* A data set that nobody counted yet raises an AssertionError instead,    *)
(* and stays counted.                                                      *)
_packetSent ==
    /\ At("sent")
    /\ thread' = [thread EXCEPT !.pc = "get", !.set = NoSet]
    /\ IF pending = 0 THEN stuck' = TRUE /\ UNCHANGED <<pending, user>>
       ELSE /\ pending' = pending - 1
            /\ user' = Woken
            /\ UNCHANGED stuck
    /\ UNCHANGED <<queue, exit, exited, loop, sri, clock, ids, port, refresh, portSRI, outPorts,
                   heard, excused, misled, started, crossed, holes, userCalls, repeats, faults>>

Next ==
    \/ /\ \/ push \/ _packetQueued \/ waitAllPacketsSent \/ WaitEnds
          \/ start \/ sourceStop \/ stopEnds
          \/ \E c \in Conns : connectPort(c) \/ disconnectPort(c)
          \/ begin \/ get \/ clear \/ _packetSent
       /\ UNCHANGED sinkVars
    \/ (newSRI \/ chunk) /\ UNCHANGED <<data, timestamps, gotEOS, breakBlock, reader, taken,
                                        packets, last, reads>>
    \/ packet
    \/ SinkNext /\ UNCHANGED sourceVars

Init == SinkInit /\ SourceInit

Spec == Init /\ [][Next]_<<sinkVars, sourceVars>>

----------------------------------------------------------------------------
(* Properties                                                              *)

Busy == thread.pc \in {"got", "clear", "chunk", "packet", "sent"}

(* When waitAllPacketsSent has returned without a timeout, everything that *)
(* was pushed before is out of the queue and sent (its docstring: "Wait    *)
(* until all of the packets queued on this source have been pushed").      *)
SentMeansSent == user = "waited" => queue = <<>> /\ ~Busy

(* Who waits for the packets to be sent waits for packets, unless a data   *)
(* set failed, was dropped, or was sent before it was counted (push,       *)
(* _packetSent).                                                           *)
WaitJustified == user = "waiting" => queue # <<>> \/ Busy \/ stuck

(* When stop has returned without an error nothing is pushed any more      *)
(* until the next start (DataSource.stop and pushThread).                  *)
StopStops == user = "stopped" => ~Busy

(* After start the thread runs, unless the start met a thread that was     *)
(* about to end and still alive (DataSource.start).                        *)
StartedRuns ==
    started /\ user = "idle" => thread.pc \notin {"none", "leave", "ended"} \/ crossed

(* A connection gets packets under the SRI they belong to, unless it was   *)
(* made while a packet was being pushed or before the port knew the SRI,   *)
(* or a failing connection kept the SRI from it (ArraySource.pushPacket,   *)
(* connectPort).                                                           *)
SriFirst == misled = {}

Arrived == taken \o data

(* The sink holds and hands out all samples in the order they were pushed, *)
(* without gaps but where a packet failed or the connection was cut        *)
(* (DataSource._pushPackets, ArraySink.pushPacket, retrieveData).          *)
ReadsContiguous ==
    Cardinality({i \in 1..(Len(Arrived) - 1) :
        LET x == Arrived[i]
            y == Arrived[i + 1]
        IN ~ \/ x[1] = y[1] /\ y[2] = x[2] + 1
             \/ x[1] <= y[1] /\ x[2] = x[3] /\ y[2] = 1}) <= holes

(* The end of a stream is told with the last packet of its data set        *)
(* (DataSource._pushPackets).                                              *)
EosWithLast == gotEOS /\ holes = 0 /\ Arrived # <<>> => Last(Arrived)[2] = Last(Arrived)[3]

(* Every time that getData returns belongs to a packet that begins at that *)
(* sample, however blocks and packets overlap (ArraySink.retrieveData).    *)
TimesTrue ==
    /\ \A i \in DOMAIN last.times : <<last.base + last.times[i][1], last.times[i][2]>> \in packets
    /\ \A i \in DOMAIN timestamps :
          <<Len(taken) + timestamps[i][1], timestamps[i][2]>> \in packets

(* Nobody sleeps who has reason to go on: every arrival and every stop     *)
(* wakes both kinds of waiters (ArraySink.waitEOS, retrieveData).          *)
ReaderAwake ==
    /\ reader.pc = "eosAsleep" => _isActive
    /\ reader.pc = "dataAsleep" => _isActive /\ Len(data) < reader.length

(* A call that returns less than was asked for was told of an end or of a  *)
(* stop (ArraySink.retrieveData).                                          *)
ShortOnlyAtEnd == last.count < last.asked => last.ended

============================================================================
