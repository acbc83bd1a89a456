----------------------------- MODULE MCPyBurst -----------------------------
(***************************************************************************)
(* The two BurstIO ports, each alone with receivers or callers that may do *)
(* anything, and linked: the connection Wired of the output port leads to  *)
(* the input port.                                                         *)
(***************************************************************************)
EXTENDS Naturals, FiniteSets, SequencesExt

CONSTANTS Kinds,       \* what a run is about: each port alone, or the two linked
          Users, Streams, Connections, Limits, Sizes, MaxMessage, MaxPushes, MaxOps,
          Readers, Thresholds, MaxSettings,
          Wired,       \* the connection to the input port
          OtherBatch,  \* the number of bursts of a caller's batch
          MaxBatches,  \* bound on the batches of the callers of an input port alone
          None

VARIABLES kind,
          mode, routes, conns, alive, held, limit, old, streamQueues, fresh, stale, flushTasks,
          running, monitor, at, lock, sender, remote, pushed, sent, got, raised, ops,
          queue, threshold, started, blockOccurred, push, reader, flushes, dropped,
          accepted, taken, gone, settings

Callers == {"link", "other"}

Out == INSTANCE PyBurstOut WITH Default <- "default"
In == INSTANCE PyBurstIn WITH Pushers <- Callers

outvars == <<mode, routes, conns, alive, held, limit, old, streamQueues, fresh, stale, flushTasks,
             running, monitor, at, lock, sender, remote, pushed, sent, got, raised, ops>>
invars == <<queue, threshold, started, blockOccurred, push, reader, flushes, dropped,
            accepted, taken, gone, settings>>
vars == <<kind, outvars, invars>>

(* Linked ports are connected; either may be started before the other.     *)
Linked ==
    /\ conns = {Wired} /\ alive = [c \in Connections |-> c = Wired]
    /\ mode = "interleaved" /\ routes = [s \in Streams |-> {}]
    /\ held = [q \in Out!Queues |-> <<>>] /\ old = {}
    /\ limit = [q \in Out!Queues |-> CHOOSE n \in Limits : TRUE]
    /\ streamQueues = [s \in Streams |-> None]
    /\ fresh = {} /\ stale = FALSE /\ flushTasks = {}
    /\ running = TRUE /\ monitor = "notified"
    /\ at = [t \in Out!Threads |-> Out!Rest]
    /\ lock = None /\ sender = None /\ remote = [c \in Connections |-> None]
    /\ pushed = 0 /\ sent = {} /\ got = [c \in Connections |-> <<>>] /\ raised = FALSE
    /\ ops = 0

MCInit ==
    /\ kind \in Kinds
    /\ In!Init
    /\ IF kind = "link" THEN Linked ELSE Out!Init
    /\ kind # "in" => threshold = CHOOSE n \in Thresholds : TRUE
    /\ kind # "link" => \A n \in Limits : n <= limit["default"]

----------------------------------------------------------------------------
(* The call that the output port makes on the wired connection: it begins, *)
(* it returns, or it fails before it begins or when its reply is lost.     *)

Enter ==
    /\ kind = "link"
    /\ remote[Wired] # None /\ Out!Size(remote[Wired].bursts) <= MaxMessage
    /\ In!pushBursts("link", remote[Wired].bursts)
    /\ UNCHANGED <<kind, outvars>>

Return ==
    /\ kind = "link" /\ In!PushReturned("link") /\ Out!Received(Wired)
    /\ UNCHANGED kind

Lost ==
    /\ kind = "link" /\ In!PushReturned("link") /\ Out!Failed(Wired)
    /\ UNCHANGED kind

OutAlone == kind # "in" /\ UNCHANGED <<kind, invars>>
InAlone == kind # "out" /\ UNCHANGED <<kind, outvars>>

Answer ==
    \/ Enter \/ Return
    \/ \E c \in Connections : Out!_partitionBursts(c) /\ OutAlone
    \/ kind = "out" /\ OutAlone /\ \E c \in Connections : Out!Received(c)

Fault ==
    \/ Lost /\ ops = 0
    \/ kind = "out" /\ OutAlone /\ \E c \in Connections : Out!Failed(c)

(* A caller brings a batch that has not been seen yet.                     *)
Batch(n) == [i \in 1..OtherBatch |-> [id |-> n * OtherBatch + i, stream |-> "other", eos |-> FALSE,
                                      size |-> 1]]
Unused == {n \in 1..MaxBatches : /\ \A p \in Callers : push[p].bursts # Batch(n)
                                 /\ Range(Batch(n)) \cap Range(accepted) = {}}

OtherCall ==
    /\ kind = "in" /\ InAlone
    /\ \E p \in Callers, n \in Unused : (\A m \in Unused : n <= m) /\ In!pushBursts(p, Batch(n))
OtherReturn == kind = "in" /\ InAlone /\ \E p \in Callers : In!PushReturned(p)

(* Linked ports push, stop and read; each alone does everything.           *)
OutCalls ==
    /\ OutAlone
    /\ \/ kind = "out" /\ Out!Calls
       \/ kind = "link" /\ \E t \in Users :
            \/ Out!stop(t) /\ ops = 0
            \/ \E s \in Streams : Out!pushBurst(t, s, 1, FALSE)
OutThread(t) == Out!ThreadStep(t) /\ OutAlone
OutMonitor == Out!MonitorStep /\ OutAlone
Age == OutAlone /\ \E q \in Out!Queues : Out!Age(q)
InPush(p) == In!Resume(p) /\ InAlone
InLocal ==
    /\ InAlone
    /\ \/ kind = "in" /\ In!Local
       \/ kind = "link" /\ settings < 2 /\ (In!start \/ In!stop)
       \/ \E r \in Readers : kind = "link" /\ (In!getBurst(r, "getBurst", FALSE) \/ In!_waitBurst(r))

MCNext ==
    \/ OutCalls \/ (\E t \in Out!Threads : OutThread(t)) \/ OutMonitor \/ Age
    \/ Answer \/ Fault
    \/ OtherCall \/ OtherReturn \/ (\E p \in Callers : InPush(p)) \/ InLocal

(* Threads keep running, time passes, and the component keeps reading.     *)
ReaderStep(r) == (In!getBurst(r, "getBurst", FALSE) \/ In!_waitBurst(r)) /\ InAlone

MCFairness ==
    /\ \A t \in Out!Threads : WF_vars(OutThread(t))
    /\ WF_vars(OutMonitor) /\ WF_vars(Age) /\ WF_vars(Answer) /\ WF_vars(OtherReturn)
    /\ \A p \in Callers : WF_vars(InPush(p))
    /\ \A r \in Readers : WF_vars(ReaderStep(r))

MCSafety == MCInit /\ [][MCNext]_vars
MCSpec == MCSafety /\ MCFairness

----------------------------------------------------------------------------
(* The input queue holds less than a batch above its threshold: callers    *)
(* that are woken together look again before they add theirs (inports.py,  *)
(* pushBursts).                                                            *)
QueueBounded ==
    \A n \in Thresholds : (\A m \in Thresholds : m <= n) =>
        Len(queue) < n + (IF kind = "in" THEN OtherBatch ELSE MaxPushes)

(* No burst is lost, repeated or overtaken between the push and the read:  *)
(* accepted bursts are sent or in a queue that is visited, a stream        *)
(* arrives in order and once, the latency of queued bursts is watched      *)
(* (PyBurstOut); nobody waits for what has happened already, bursts are    *)
(* read in order and once or counted as dropped, where no burst was sent   *)
(* twice, and the input queue is bounded (PyBurstIn).                      *)
BurstsKept ==
    /\ Out!NothingLost /\ Out!InOrder /\ Out!CheckPending
    /\ In!NoLostWakeup /\ (raised \/ In!ReadInOrder) /\ QueueBounded

(* Bursts do not stay: while the monitor runs, what is queued goes out     *)
(* even if nothing else is pushed, as long as the component on the other   *)
(* side reads (executor.py _run, outports.py _checkQueues).                *)
QueuesDrain ==
    \A q \in Out!Queues : (held[q] # <<>> /\ running) ~> (held[q] = <<>> \/ ~running \/ raised)

(* stop returns: the monitor thread is waited for, and then "the queue(s)  *)
(* will be flushed anyway" (outports.py, OutPort.stop).                    *)
StopReturns == \A t \in Users : at[t].pc = "join" ~> at[t].pc # "join"

============================================================================
