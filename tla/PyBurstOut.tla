----------------------------- MODULE PyBurstOut -----------------------------
(***************************************************************************)
(* The Python BurstIO output port (burstioInterfaces outports.py,          *)
(* usesport.py, executor.py).  Bursts are collected in queues, one for all *)
(* streams or one for each, and go out when a queue is long enough, when   *)
(* its stream ends, on flush, and when its oldest burst is older than the  *)
(* latency threshold, which a monitor thread checks.                       *)
(* A thread holds the port's _queueMutex from pushBurst, flush or a check  *)
(* to its end, the mutex of the queue it flushes, and _connectionMutex     *)
(* while it sends.  Time: a queue is young or old, and the check that was  *)
(* scheduled for its first burst is due once it is old.                    *)
(***************************************************************************)
EXTENDS Naturals, FiniteSets, SequencesExt

CONSTANTS Users,        \* the threads that use the port
          Streams, Connections,
          Default,      \* the default queue
          Limits,       \* values for the burst threshold of a queue
          Sizes,        \* sizes of a burst
          MaxMessage,   \* the largest batch that one call can carry
          MaxPushes, MaxOps,  \* bounds on the bursts and on the other calls
          None

Monitor == "monitor"
Threads == Users \cup {Monitor}
Queues == Streams \cup {Default}
Modes == {"interleaved", "all", "routed"}

VARIABLES mode, routes, conns, alive,
          held,        \* the bursts of each queue
          limit,       \* its threshold
          old,         \* the queues whose first burst is older than the latency threshold
          streamQueues,    \* the queue of each known stream, None for an unknown one
          fresh, stale, flushTasks,  \* the executor's tasks: the check for the present first burst
                                     \* of a queue, checks of earlier ones, threaded flushes
          running, monitor,          \* the executor's _running and where its thread is
          at,          \* where each thread is
          lock,        \* the holder of the port's _queueMutex
          sender,      \* the holder of _connectionMutex
          remote,      \* the call in progress to each connection
          pushed, sent, got, raised, \* ghosts: bursts accepted, handed to the connections, received
                                     \* by each; an exception left a flush before its end
          ops

outvars == <<mode, routes, conns, alive, held, limit, old, streamQueues, fresh, stale, flushTasks,
             running, monitor, at, lock, sender, remote, pushed, sent, got, raised, ops>>

Rest == [pc |-> "idle", queues |-> <<>>, ends |-> None, left |-> {}, parts |-> <<>>]

Init ==
    /\ mode = "interleaved" /\ routes = [s \in Streams |-> {}]
    /\ conns = {} /\ alive = [c \in Connections |-> FALSE]
    /\ held = [q \in Queues |-> <<>>] /\ old = {}
    /\ limit \in [Queues -> Limits] /\ \A q \in Queues : limit[q] = limit[Default]
    /\ streamQueues = [s \in Streams |-> None]
    /\ fresh = {} /\ stale = FALSE /\ flushTasks = {}
    /\ running = FALSE /\ monitor = "none"
    /\ at = [t \in Threads |-> Rest]
    /\ lock = None /\ sender = None /\ remote = [c \in Connections |-> None]
    /\ pushed = 0 /\ sent = {} /\ got = [c \in Connections |-> <<>>] /\ raised = FALSE
    /\ ops = 0

----------------------------------------------------------------------------
Interleaved == mode = "interleaved"

_getQueueForStream(s) ==
    CASE streamQueues[s] # None -> streamQueues[s]
      [] streamQueues[s] = None /\ Interleaved -> Default
      [] OTHER -> s

_getAllQueues ==
    IF Interleaved THEN {Default} ELSE {streamQueues[s] : s \in Streams} \ {None}

_isStreamRoutedToConnection(q, c) ==
    mode = "routed" => (q \in Streams /\ c \in routes[q])

Size(bursts) == FoldSeq(LAMBDA x, n : n + x.size, 0, bursts)
Op == ops < MaxOps /\ ops' = ops + 1

(* The bodies of the executor's schedule: the monitor thread is notified.  *)
Notified == IF monitor = "waiting" THEN "notified" ELSE monitor

(* The queues of a flush are looked at in any order.                       *)
Orders(qs) == SetToSeqs(qs)

Sending(t) == at[t].pc \in {"send", "checksend"}

(* The mutex of a queue is held by the thread that sends it.               *)
QueueFree(q) == \A t \in Threads : Sending(t) => Head(at[t].queues) # q

----------------------------------------------------------------------------
(* pushBurst: queue the burst, arm the latency check of a queue that was   *)
(* empty, and flush at the threshold and at the end of a stream.           *)

Arm(q) ==
    /\ IF held[q] = <<>>
       THEN /\ fresh' = fresh \cup {q} /\ old' = old \ {q}
            /\ monitor' = Notified
       ELSE UNCHANGED <<fresh, old, monitor>>
    /\ stale' = (stale \/ (held[q] = <<>> /\ q \in fresh))

pushBurst(t, s, size, eos) ==
    LET q == _getQueueForStream(s)
        isNew == streamQueues[s] = None
        lim == IF isNew /\ q # Default THEN limit[Default] ELSE limit[q]
        bursts == Append(held[q], [id |-> pushed + 1, stream |-> s, eos |-> eos, size |-> size])
        full == Len(bursts) >= lim
        now == IF full \/ (eos /\ ~Interleaved) THEN <<q>> ELSE <<>>
    IN
    /\ at[t].pc = "idle" /\ lock = None /\ QueueFree(q) /\ pushed < MaxPushes
    /\ limit' = [limit EXCEPT ![q] = lim]
    /\ Arm(q)
    /\ held' = [held EXCEPT ![q] = bursts]
    /\ pushed' = pushed + 1
    /\ IF now = <<>>
       THEN /\ streamQueues' = [streamQueues EXCEPT ![s] = IF eos THEN None ELSE q]
            /\ UNCHANGED <<at, lock>>
       ELSE /\ streamQueues' = [streamQueues EXCEPT ![s] = q]
            /\ at' = [at EXCEPT ![t] = [Rest EXCEPT !.pc = "flush", !.queues = now,
                                          !.ends = IF eos THEN s ELSE None]]
            /\ lock' = t
    /\ UNCHANGED <<mode, routes, conns, alive, flushTasks, running, sender, remote, sent, got,
                   raised, ops>>

(* OutPort.flush, and its part of stop.                                    *)
TakeAllQueues(t, pc) ==
    /\ lock = None /\ lock' = t
    /\ \E qs \in Orders(_getAllQueues) :
         at' = [at EXCEPT ![t] = [Rest EXCEPT !.pc = pc, !.queues = qs]]

flush(t) ==
    /\ t \in Users /\ at[t].pc = "idle" /\ Op
    /\ TakeAllQueues(t, "flush")
    /\ UNCHANGED <<mode, routes, conns, alive, held, limit, old, streamQueues, fresh, stale,
                   flushTasks, running, monitor, sender, remote, pushed, sent, got, raised>>

----------------------------------------------------------------------------
(* _flushQueue: send the queue to the routed connections, one at a time,   *)
(* then empty it.                                                          *)

(* _checkFlush passes over a queue that need not be flushed.               *)
Skip(t, q) ==
    \/ held[q] = <<>>
    \/ at[t].pc = "check" /\ Len(held[q]) < limit[q] /\ q \notin old

SkipQueue(t) ==
    /\ at[t].pc \in {"flush", "check"} /\ at[t].queues # <<>>
    /\ Skip(t, Head(at[t].queues)) /\ QueueFree(Head(at[t].queues))
    /\ at' = [at EXCEPT ![t].queues = Tail(@)]
    /\ UNCHANGED <<mode, routes, conns, alive, held, limit, old, streamQueues, fresh, stale,
                   flushTasks, running, monitor, lock, sender, remote, pushed, sent, got, raised,
                   ops>>

_sendBursts(t) ==
    /\ at[t].pc \in {"flush", "check"} /\ at[t].queues # <<>> /\ sender = None
    /\ ~Skip(t, Head(at[t].queues))
    /\ sender' = t
    /\ at' = [at EXCEPT ![t].left = {c \in conns :
                                       _isStreamRoutedToConnection(Head(at[t].queues), c)},
                        ![t].pc = IF @ = "flush" THEN "send" ELSE "checksend"]
    /\ UNCHANGED <<mode, routes, conns, alive, held, limit, old, streamQueues, fresh, stale,
                   flushTasks, running, monitor, lock, remote, pushed, sent, got, raised, ops>>

Call(t, c) ==
    /\ Sending(t) /\ c \in at[t].left /\ \A d \in Connections : remote[d] = None
    /\ remote' = [remote EXCEPT ![c] = [by |-> t, bursts |-> held[Head(at[t].queues)], part |-> FALSE]]
    /\ UNCHANGED <<mode, routes, conns, alive, held, limit, old, streamQueues, fresh, stale,
                   flushTasks, running, monitor, at, lock, sender, pushed, sent, got, raised, ops>>

(* What follows for the calling thread: the next part of a batch that was  *)
(* split, or the next connection.                                          *)
Proceed(t, c) ==
    IF at[t].parts = <<>>
    THEN /\ remote' = [remote EXCEPT ![c] = None]
         /\ at' = [at EXCEPT ![t].left = @ \ {c}]
    ELSE /\ remote' = [remote EXCEPT ![c] = [@ EXCEPT !.bursts = Head(at[t].parts), !.part = TRUE]]
         /\ at' = [at EXCEPT ![t].parts = Tail(@)]

(* The call returned.                                                      *)
Received(c) ==
    /\ remote[c] # None /\ Size(remote[c].bursts) <= MaxMessage
    /\ got' = [got EXCEPT ![c] = @ \o remote[c].bursts]
    /\ alive' = [alive EXCEPT ![c] = TRUE]
    /\ Proceed(remote[c].by, c)
    /\ UNCHANGED <<mode, routes, conns, held, limit, old, streamQueues, fresh, stale, flushTasks,
                   running, monitor, lock, sender, pushed, sent, raised, ops>>

(* An exception leaves _sendBursts: the mutexes are released and the queue *)
(* keeps its bursts.                                                       *)
Raise(t, c) ==
    /\ remote' = [remote EXCEPT ![c] = None]
    /\ at' = [at EXCEPT ![t] = Rest]
    /\ sender' = None
    /\ lock' = IF lock = t THEN None ELSE lock
    /\ monitor' = IF t = Monitor THEN "back" ELSE monitor
    /\ raised' = TRUE

(* The other end failed: reported once, except in a batch that was split,  *)
(* where only MARSHAL is expected.                                         *)
Failed(c) ==
    /\ remote[c] # None /\ ops < MaxOps /\ ops' = ops + 1
    /\ IF remote[c].part
       THEN Raise(remote[c].by, c) /\ UNCHANGED alive
       ELSE /\ alive' = [alive EXCEPT ![c] = FALSE]
            /\ Proceed(remote[c].by, c)
            /\ UNCHANGED <<sender, lock, monitor, raised>>
    /\ UNCHANGED <<mode, routes, conns, held, limit, old, streamQueues, fresh, stale, flushTasks,
                   running, pushed, sent, got>>

(* The halves of a batch in the order _partitionBursts sends them.         *)
Halves(bursts) == <<SubSeq(bursts, 1, Len(bursts) \div 2),
                    SubSeq(bursts, Len(bursts) \div 2 + 1, Len(bursts))>>

(* CORBA.MARSHAL: the batch is too large for one call.  A batch of one is  *)
(* given up; another is split, again if need be, and the recursion for a   *)
(* part of one burst that is too large by itself has no end but Python's   *)
(* limit, an exception that nobody expects.                                *)
_partitionBursts(c) ==
    /\ remote[c] # None /\ Size(remote[c].bursts) > MaxMessage
    /\ LET t == remote[c].by
           bursts == remote[c].bursts
           halves == Halves(bursts)
       IN \/ /\ Len(bursts) = 1 /\ ~remote[c].part
             /\ alive' = [alive EXCEPT ![c] = FALSE]
             /\ Proceed(t, c)
             /\ UNCHANGED <<sender, lock, monitor, raised>>
          \/ /\ Len(bursts) = 1 /\ remote[c].part
             /\ Raise(t, c) /\ UNCHANGED alive
          \/ /\ Len(bursts) > 1
             /\ remote' = [remote EXCEPT ![c] = [@ EXCEPT !.bursts = halves[1], !.part = TRUE]]
             /\ at' = [at EXCEPT ![t].parts = <<halves[2]>> \o @]
             /\ UNCHANGED <<alive, sender, lock, monitor, raised>>
    /\ UNCHANGED <<mode, routes, conns, held, limit, old, streamQueues, fresh, stale, flushTasks,
                   running, pushed, sent, got, ops>>

(* Every connection was called: the queue is empty again.                  *)
_flushQueue(t) ==
    /\ Sending(t) /\ at[t].left = {}
    /\ LET q == Head(at[t].queues) IN
       /\ sent' = sent \cup {held[q][i].id : i \in DOMAIN held[q]}
       /\ held' = [held EXCEPT ![q] = <<>>]
       /\ old' = old \ {q}
       /\ fresh' = fresh \ {q}
       /\ stale' = (stale \/ q \in fresh)
    /\ sender' = None
    /\ at' = [at EXCEPT ![t].queues = Tail(@),
                        ![t].pc = IF @ = "send" THEN "flush" ELSE "check"]
    /\ UNCHANGED <<mode, routes, conns, alive, limit, streamQueues, flushTasks, running, monitor,
                   lock, remote, pushed, got, raised, ops>>

(* The end of pushBurst, flush, a check or a threaded flush.               *)
Finish(t) ==
    /\ at[t].pc \in {"flush", "check"} /\ at[t].queues = <<>>
    /\ at' = [at EXCEPT ![t] = Rest]
    /\ streamQueues' = IF at[t].ends = None THEN streamQueues
                       ELSE [streamQueues EXCEPT ![at[t].ends] = None]
    /\ lock' = IF lock = t THEN None ELSE lock
    /\ monitor' = IF t = Monitor THEN "back" ELSE monitor
    /\ UNCHANGED <<mode, routes, conns, alive, held, limit, old, fresh, stale, flushTasks, running,
                   sender, remote, pushed, sent, got, raised, ops>>

----------------------------------------------------------------------------
(* ExecutorService: the monitor thread looks for a task that is due, runs  *)
(* it without its lock, and waits when there is none.  It looks at         *)
(* _running when it begins and when it was notified, not when it comes     *)
(* back from a task.                                                       *)

Looking == monitor = "back" \/ (monitor = "notified" /\ running)

(* Time passes: the first burst of a queue is older than the threshold.    *)
Age(q) ==
    /\ held[q] # <<>> /\ q \notin old
    /\ old' = old \cup {q}
    /\ UNCHANGED <<mode, routes, conns, alive, held, limit, streamQueues, fresh, stale, flushTasks,
                   running, monitor, at, lock, sender, remote, pushed, sent, got, raised, ops>>

(* A check that is due: the one of a queue's first burst, or one whose     *)
(* burst is gone already.  It is due from the threshold on and the queue is *)
(* old after it: the clock is taken to move between the two readings.      *)
TakeCheck ==
    /\ Looking
    /\ \/ \E q \in fresh \cap old : fresh' = fresh \ {q} /\ UNCHANGED stale
       \/ stale /\ stale' = FALSE /\ UNCHANGED fresh
    /\ monitor' = "checking"
    /\ UNCHANGED <<mode, routes, conns, alive, held, limit, old, streamQueues, flushTasks, running,
                   at, lock, sender, remote, pushed, sent, got, raised, ops>>

_checkQueues ==
    /\ monitor = "checking"
    /\ monitor' = "busy"
    /\ TakeAllQueues(Monitor, "check")
    /\ UNCHANGED <<mode, routes, conns, alive, held, limit, old, streamQueues, fresh, stale,
                   flushTasks, running, sender, remote, pushed, sent, got, raised, ops>>

_executeThreadedFlush ==
    /\ Looking
    /\ \E q \in flushTasks :
         /\ flushTasks' = flushTasks \ {q}
         /\ at' = [at EXCEPT ![Monitor] = [Rest EXCEPT !.pc = "flush", !.queues = <<q>>]]
    /\ monitor' = "busy"
    /\ UNCHANGED <<mode, routes, conns, alive, held, limit, old, streamQueues, fresh, stale,
                   running, lock, sender, remote, pushed, sent, got, raised, ops>>

(* The thread waits for a notify although a task has still to come.        *)
_runNoTimeout ==
    /\ Looking /\ fresh \cap old = {} /\ flushTasks = {}
    /\ monitor' = "waiting"
    /\ UNCHANGED <<mode, routes, conns, alive, held, limit, old, streamQueues, fresh, stale,
                   flushTasks, running, at, lock, sender, remote, pushed, sent, got, raised, ops>>

(* Nothing is due.  With no task at all the thread waits for a notify,     *)
(* whatever _running says; before the time of a task it only polls.        *)
_run ==
    /\ Looking /\ fresh \cap old = {} /\ flushTasks = {}
    /\ \/ fresh = {} /\ ~stale /\ monitor' = "waiting"
       \/ (fresh # {} \/ stale) /\ monitor = "back" /\ monitor' = "notified"
    /\ UNCHANGED <<mode, routes, conns, alive, held, limit, old, streamQueues, fresh, stale,
                   flushTasks, running, at, lock, sender, remote, pushed, sent, got, raised, ops>>

(* The thread is told to end.                                              *)
End ==
    /\ monitor = "notified" /\ ~running
    /\ monitor' = "ended"
    /\ UNCHANGED <<mode, routes, conns, alive, held, limit, old, streamQueues, fresh, stale,
                   flushTasks, running, at, lock, sender, remote, pushed, sent, got, raised, ops>>

----------------------------------------------------------------------------
(* start and stop: the monitor thread is started; it is stopped and waited *)
(* for, its tasks are removed, and the queues are flushed.                 *)

start(t) ==
    /\ t \in Users /\ at[t].pc = "idle" /\ Op
    /\ ~running /\ monitor = "none"
    /\ running' = TRUE /\ monitor' = "notified"
    /\ UNCHANGED <<mode, routes, conns, alive, held, limit, old, streamQueues, fresh, stale,
                   flushTasks, at, lock, sender, remote, pushed, sent, got, raised>>

stop(t) ==
    /\ t \in Users /\ at[t].pc = "idle" /\ Op
    /\ running' = FALSE
    /\ monitor' = IF running THEN Notified ELSE monitor
    /\ at' = [at EXCEPT ![t].pc = IF running THEN "join" ELSE "clear"]
    /\ UNCHANGED <<mode, routes, conns, alive, held, limit, old, streamQueues, fresh, stale,
                   flushTasks, lock, sender, remote, pushed, sent, got, raised>>

Joined(t) ==
    /\ at[t].pc = "join" /\ monitor = "ended"
    /\ monitor' = "none"
    /\ at' = [at EXCEPT ![t].pc = "clear"]
    /\ UNCHANGED <<mode, routes, conns, alive, held, limit, old, streamQueues, fresh, stale,
                   flushTasks, running, lock, sender, remote, pushed, sent, got, raised, ops>>

clear(t) ==
    /\ at[t].pc = "clear"
    /\ fresh' = {} /\ stale' = FALSE /\ flushTasks' = {}
    /\ monitor' = Notified
    /\ at' = [at EXCEPT ![t].pc = "cleared"]
    /\ UNCHANGED <<mode, routes, conns, alive, held, limit, old, streamQueues, running, lock,
                   sender, remote, pushed, sent, got, raised, ops>>

stopFlush(t) ==
    /\ at[t].pc = "cleared"
    /\ TakeAllQueues(t, "flush")
    /\ UNCHANGED <<mode, routes, conns, alive, held, limit, old, streamQueues, fresh, stale,
                   flushTasks, running, monitor, sender, remote, pushed, sent, got, raised, ops>>

----------------------------------------------------------------------------
(* Policies, routing and connections                                       *)

(* setMaxBursts and setByteThreshold: the new value is kept; the flush     *)
(* they would start when it is exceeded never is, since the debug message  *)
(* before it raises AttributeError.                                        *)
setMaxBursts(q, n) ==
    /\ Op /\ q \in {Default} \cup _getAllQueues /\ QueueFree(q) /\ n # limit[q]
    /\ limit' = [limit EXCEPT ![q] = n]
    /\ UNCHANGED <<mode, routes, conns, alive, held, old, streamQueues, fresh, stale, flushTasks,
                   running, monitor, at, lock, sender, remote, pushed, sent, got, raised>>

(* A new latency threshold has passed already, or is still to come.        *)
setLatencyThreshold(q) ==
    /\ Op /\ QueueFree(q) /\ held[q] # <<>>
    /\ \/ /\ old' = old \cup {q} /\ flushTasks' = flushTasks \cup {q}
          /\ UNCHANGED <<fresh, stale>>
       \/ /\ old' = old \ {q} /\ fresh' = fresh \cup {q}
          /\ stale' = (stale \/ q \in fresh)
          /\ UNCHANGED flushTasks
    /\ monitor' = Notified
    /\ UNCHANGED <<mode, routes, conns, alive, held, limit, streamQueues, running, at, lock,
                   sender, remote, pushed, sent, got, raised>>

(* The routing mode is chosen before the first burst: a later change would *)
(* leave bursts in queues that are not looked at any more.                 *)
setRoutingMode(m) ==
    /\ Op /\ m # mode /\ \A s \in Streams : streamQueues[s] = None
    /\ \A q \in Queues : held[q] = <<>>
    /\ mode' = m
    /\ UNCHANGED <<routes, conns, alive, held, limit, old, streamQueues, fresh, stale, flushTasks,
                   running, monitor, at, lock, sender, remote, pushed, sent, got, raised>>

addConnectionFilter(s, c) ==
    /\ Op /\ sender = None
    /\ c \notin routes[s]
    /\ routes' = [routes EXCEPT ![s] = @ \cup {c}]
    /\ UNCHANGED <<mode, conns, alive, held, limit, old, streamQueues, fresh, stale, flushTasks,
                   running, monitor, at, lock, sender, remote, pushed, sent, got, raised>>

removeConnectionFilter(s, c) ==
    /\ Op /\ sender = None
    /\ c \in routes[s]
    /\ routes' = [routes EXCEPT ![s] = @ \ {c}]
    /\ UNCHANGED <<mode, conns, alive, held, limit, old, streamQueues, fresh, stale, flushTasks,
                   running, monitor, at, lock, sender, remote, pushed, sent, got, raised>>

connectPort(c) ==
    /\ Op /\ sender = None
    /\ conns' = conns \cup {c}
    /\ alive' = [alive EXCEPT ![c] = TRUE]
    /\ UNCHANGED <<mode, routes, held, limit, old, streamQueues, fresh, stale, flushTasks,
                   running, monitor, at, lock, sender, remote, pushed, sent, got, raised>>

disconnectPort(c) ==
    /\ Op /\ sender = None /\ c \in conns
    /\ conns' = conns \ {c}
    /\ UNCHANGED <<mode, routes, alive, held, limit, old, streamQueues, fresh, stale, flushTasks,
                   running, monitor, at, lock, sender, remote, pushed, sent, got, raised>>

----------------------------------------------------------------------------
(* The steps of the port: what its users call, what its threads do.        *)

Calls ==
    \/ \E t \in Users : \/ \E s \in Streams, n \in Sizes, eos \in BOOLEAN : pushBurst(t, s, n, eos)
                        \/ flush(t) \/ start(t) \/ stop(t)
    \/ \E q \in Queues : setLatencyThreshold(q) \/ \E n \in Limits : setMaxBursts(q, n)
    \/ \E m \in Modes : setRoutingMode(m)
    \/ \E c \in Connections : \/ connectPort(c) \/ disconnectPort(c)
                              \/ \E s \in Streams : \/ addConnectionFilter(s, c)
                                                    \/ removeConnectionFilter(s, c)

ThreadStep(t) ==
    \/ SkipQueue(t) \/ _sendBursts(t) \/ _flushQueue(t) \/ Finish(t)
    \/ \E c \in Connections : Call(t, c)
    \/ Joined(t) \/ clear(t) \/ stopFlush(t)

MonitorStep == TakeCheck \/ _checkQueues \/ _executeThreadedFlush \/ _run \/ End

----------------------------------------------------------------------------
(* Properties                                                              *)

(* No burst is lost: one that pushBurst accepted has been sent, or is in a *)
(* queue that flush and the latency check still look at, whatever stream   *)
(* has ended in between (outports.py, pushBurst and _getAllQueues).        *)
NothingLost ==
    \A i \in 1..pushed :
        \/ i \in sent
        \/ \E q \in _getAllQueues : \E k \in DOMAIN held[q] : held[q][k].id = i

(* A connection receives the bursts of a stream in the order of pushBurst  *)
(* and each once, also when a batch had to be split (outports.py,          *)
(* _sendBursts and _partitionBursts), unless an exception left a flush.    *)
InOrder ==
    raised \/ \A c \in Connections : \A i, j \in DOMAIN got[c] :
                  i < j /\ got[c][i].stream = got[c][j].stream => got[c][i].id < got[c][j].id

(* The latency is watched: for every queue that holds bursts a check or a  *)
(* flush is scheduled or under way, whatever flushes, policy changes and   *)
(* restarts happened since its first burst (outports.py, _queueBurst,      *)
(* setLatencyThreshold, stop), unless an exception left a flush.           *)
CheckPending ==
    \A q \in Queues : held[q] # <<>> =>
        \/ raised \/ q \in fresh \cup flushTasks
        \/ monitor = "checking" /\ q \in old
        \/ \E t \in Threads : \/ at[t].pc = "cleared"
                              \/ q \in Range(at[t].queues)
                                 /\ (q \in old \/ at[t].pc \in {"flush", "send", "checksend"}
                                     \/ Len(held[q]) >= limit[q])

============================================================================
