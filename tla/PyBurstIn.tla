----------------------------- MODULE PyBurstIn -----------------------------
(***************************************************************************)
(* The Python BurstIO input port (burstioInterfaces inports.py): callers   *)
(* of pushBursts wait on _queueNotFull while the queue is at its           *)
(* threshold, readers wait on _queueNotEmpty, and stop wakes both.  Every  *)
(* method holds _queueLock except while it waits, so a step is a critical  *)
(* section between two waits.                                              *)
(***************************************************************************)
EXTENDS Naturals, FiniteSets, SequencesExt

CONSTANTS Pushers,     \* the remote callers of pushBursts
          Readers,     \* the threads of the component that read
          Thresholds,  \* the values setQueueThreshold is called with, all above zero
          MaxSettings, \* bound on the calls of setQueueThreshold, flush, start and stop
          None

VARIABLES queue,         \* the bursts waiting to be read
          threshold, started, blockOccurred,
          push,          \* for each pusher: the bursts it brings and where its call stands
          reader,        \* for each reader: where its call stands
          flushes, dropped,  \* ReceiverStatistics: _flushCount and _burstsDropped
          accepted, taken, gone, \* ghosts: the bursts queued so far, the ones read, the ones flushed
          settings

invars == <<queue, threshold, started, blockOccurred, push, reader, flushes, dropped,
            accepted, taken, gone, settings>>

Idle == [at |-> "idle", bursts |-> <<>>]
Calls == {"getBurst", "getBursts"}

Init ==
    /\ queue = <<>> /\ threshold \in Thresholds /\ started = FALSE /\ blockOccurred = FALSE
    /\ push = [p \in Pushers |-> Idle]
    /\ reader = [r \in Readers |-> [at |-> "idle", call |-> "getBurst", timed |-> FALSE]]
    /\ flushes = 0 /\ dropped = 0
    /\ accepted = <<>> /\ taken = <<>> /\ gone = {}
    /\ settings = 0

Full == started /\ Len(queue) >= threshold
Woken(who) == [x \in DOMAIN who |->
                 IF who[x].at = "waiting" THEN [who[x] EXCEPT !.at = "woken"] ELSE who[x]]

----------------------------------------------------------------------------
(* pushBursts: wait for room, then queue the whole batch.                   *)

Queued(p, bursts) ==
    /\ queue' = queue \o bursts
    /\ accepted' = accepted \o bursts
    /\ push' = [push EXCEPT ![p].at = "done"]
    /\ reader' = Woken(reader)

(* The rest of pushBursts once the loop's condition was false.             *)
Proceed(p, bursts) ==
    /\ ~Full
    /\ IF started
       THEN Queued(p, bursts)
       ELSE push' = [push EXCEPT ![p].at = "done"] /\ UNCHANGED <<queue, accepted, reader>>
    /\ UNCHANGED blockOccurred

Wait(p) ==
    /\ Full
    /\ push' = [push EXCEPT ![p].at = "waiting"]
    /\ blockOccurred' = (blockOccurred \/ push[p].at = "called")
    /\ UNCHANGED <<queue, accepted, reader>>

Resume(p) ==
    /\ push[p].at \in {"called", "woken"}
    /\ Proceed(p, push[p].bursts) \/ Wait(p)
    /\ UNCHANGED <<threshold, started, flushes, dropped, taken, gone, settings>>

pushBursts(p, bursts) ==
    /\ push[p].at = "idle"
    /\ push' = [push EXCEPT ![p] = [at |-> "called", bursts |-> bursts]]
    /\ UNCHANGED <<queue, threshold, started, blockOccurred, reader, flushes, dropped,
                   accepted, taken, gone, settings>>

PushReturned(p) ==
    /\ push[p].at = "done"
    /\ push' = [push EXCEPT ![p] = Idle]
    /\ UNCHANGED <<queue, threshold, started, blockOccurred, reader, flushes, dropped,
                   accepted, taken, gone, settings>>

----------------------------------------------------------------------------
(* getBurst takes the first burst, getBursts all of them.                  *)

TakeOne ==
    /\ taken' = Append(taken, Head(queue))
    /\ queue' = Tail(queue)
    /\ blockOccurred' = FALSE
    /\ push' = IF Len(queue) - 1 < threshold THEN Woken(push) ELSE push

TakeAll ==
    /\ taken' = taken \o queue
    /\ queue' = <<>>
    /\ push' = Woken(push)
    /\ UNCHANGED blockOccurred

Answered(r) == reader' = [reader EXCEPT ![r].at = "idle"]

(* What _waitBurst leads to: the bursts, an empty answer, or a wait.       *)
Serve(r, expired) ==
    /\ \/ /\ queue # <<>>
          /\ IF reader[r].call = "getBurst" THEN TakeOne ELSE TakeAll
          /\ Answered(r)
       \/ /\ queue = <<>> /\ (~started \/ expired)
          /\ Answered(r) /\ UNCHANGED <<queue, taken, blockOccurred, push>>
       \/ /\ queue = <<>> /\ started /\ ~expired
          /\ reader' = [reader EXCEPT ![r].at = "waiting"]
          /\ UNCHANGED <<queue, taken, blockOccurred, push>>
    /\ UNCHANGED <<threshold, started, flushes, dropped, accepted, gone, settings>>

getBurst(r, call, timed) ==
    /\ reader[r].at = "idle"
    /\ reader' = [reader EXCEPT ![r] = [at |-> "called", call |-> call, timed |-> timed]]
    /\ UNCHANGED <<queue, threshold, started, blockOccurred, push, flushes, dropped,
                   accepted, taken, gone, settings>>

_waitBurst(r) == reader[r].at \in {"called", "woken"} /\ Serve(r, FALSE)

(* The timeout of a reader is over, whether or not it was notified.        *)
Expire(r) == reader[r].at \in {"waiting", "woken"} /\ reader[r].timed /\ Serve(r, TRUE)

(* blockOccurred() reports and clears the flag.                            *)
ReadBlockOccurred ==
    /\ blockOccurred
    /\ blockOccurred' = FALSE
    /\ UNCHANGED <<queue, threshold, started, push, reader, flushes, dropped,
                   accepted, taken, gone, settings>>

----------------------------------------------------------------------------
(* Control of the port                                                     *)

Setting == settings < MaxSettings /\ settings' = settings + 1

(* Nobody is told of a larger threshold.                                   *)
setQueueThresholdSilent(count) ==
    /\ Setting /\ count # threshold
    /\ threshold' = count
    /\ UNCHANGED <<queue, started, blockOccurred, push, reader, flushes, dropped,
                   accepted, taken, gone>>

setQueueThreshold(count) ==
    /\ Setting /\ count # threshold
    /\ threshold' = count
    /\ push' = IF count > threshold THEN Woken(push) ELSE push
    /\ UNCHANGED <<queue, started, blockOccurred, reader, flushes, dropped,
                   accepted, taken, gone>>

flushOccurred(bursts) == flushes' = flushes + 1 /\ dropped' = dropped + bursts

flush ==
    /\ Setting
    /\ flushOccurred(Len(queue))
    /\ gone' = gone \cup Range(queue)
    /\ queue' = <<>>
    /\ push' = Woken(push)
    /\ UNCHANGED <<threshold, started, blockOccurred, reader, accepted, taken>>

start ==
    /\ Setting /\ ~started
    /\ started' = TRUE
    /\ UNCHANGED <<queue, threshold, blockOccurred, push, reader, flushes, dropped,
                   accepted, taken, gone>>

stop ==
    /\ Setting /\ started
    /\ started' = FALSE
    /\ push' = Woken(push) /\ reader' = Woken(reader)
    /\ UNCHANGED <<queue, threshold, blockOccurred, flushes, dropped,
                   accepted, taken, gone>>

(* Everything but the calls of the pushers.                                *)
Local ==
    \/ \E r \in Readers : \E call \in Calls, timed \in BOOLEAN : getBurst(r, call, timed)
    \/ \E r \in Readers : _waitBurst(r) \/ Expire(r)
    \/ ReadBlockOccurred
    \/ \E count \in Thresholds : setQueueThreshold(count)
    \/ flush \/ start \/ stop

----------------------------------------------------------------------------
(* Properties                                                              *)

(* No wakeup is lost: a pushBursts that waits has found the port started   *)
(* and at its threshold and nothing changed that since, and a reader that  *)
(* waits has nothing to read of a started port (inports.py, pushBursts,    *)
(* _waitBurst and every notifyAll).                                        *)
NoLostWakeup ==
    /\ \A p \in Pushers : push[p].at = "waiting" => Full
    /\ \A r \in Readers : reader[r].at = "waiting" => started /\ queue = <<>>

(* What was queued is read once and in order, or was dropped by a flush,   *)
(* which the statistics count, whatever callers of getBurst, getBursts and *)
(* flush overlap.                                                          *)
ReadInOrder ==
    /\ taken \o queue = SelectSeq(accepted, LAMBDA x : x \notin gone)
    /\ dropped = Cardinality(gone)

============================================================================
