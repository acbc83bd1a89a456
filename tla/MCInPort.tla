------------------------------ MODULE MCInPort ------------------------------
(***************************************************************************)
(* Ports for TLC, told apart by the frozen variable kind:                  *)
(*   "configured"  the constants of the configuration, with the upstream   *)
(*                 threads of Active only: in InPortFlush.cfg two streams  *)
(*                 on a short queue that is flushed, in InPortBlocking.cfg *)
(*                 one stream ID and everything a component may do to it;  *)
(*   "deep"        a queue that never overflows, streams that change their *)
(*                 SRI, read through the stream API;                       *)
(*   "blocking"    two blocking streams on a queue of one packet.          *)
(***************************************************************************)
EXTENDS InPort

CONSTANTS Kinds,    \* the kinds of port of the configuration
          Active    \* the stream IDs used in the port "configured"

FlushingSRIs == {[version |-> 1, blocking |-> FALSE], [version |-> 2, blocking |-> FALSE]}
OneFlushingSRI == {[version |-> 1, blocking |-> FALSE]}
OneBlockingSRI == {[version |-> 1, blocking |-> TRUE]}
MixedSRIs == {[version |-> 1, blocking |-> TRUE], [version |-> 1, blocking |-> FALSE]}

MaxDeepCalls == 6

Symmetry == Permutations(Streams)

VARIABLE kind

Deep == INSTANCE InPort
            WITH SRIs <- FlushingSRIs, QueueDepths <- {8}, MaxCalls <- MaxDeepCalls,
                 Environment <- {"update", "streams", "timeout", "emptyeos"}

Blocking == INSTANCE InPort
            WITH SRIs <- OneBlockingSRI, QueueDepths <- {1}, MaxCalls <- 4,
                 Environment <- {"streams"}

allCalls == MapThenSumSet(LAMBDA s : sent[s].calls, Streams)

mcVars == <<vars, kind>>

MCInit ==
    /\ kind \in Kinds
    /\ \/ kind = "configured" /\ Init
       \/ kind = "deep" /\ Deep!Init
       \/ kind = "blocking" /\ Blocking!Init

ConfiguredNext == Next /\ \A s \in Streams \ Active : sent'[s] = sent[s]

MCNext ==
    /\ UNCHANGED kind
    /\ \/ kind = "configured" /\ ConfiguredNext
       \/ kind = "deep" /\ Deep!Next /\ allCalls' <= MaxDeepCalls
       \/ kind = "blocking" /\ Blocking!Next

MCSpec == MCInit /\ [][MCNext]_mcVars

\* Calls go on, and the component keeps reading; nobody has to push.
MCFairness ==
    /\ \A s \in Streams :
          WF_mcVars(kind = "blocking" /\ Blocking!Upstream(s) /\ UNCHANGED kind)
    /\ WF_mcVars(kind = "blocking" /\ Blocking!Reader /\ UNCHANGED kind)

MCFairSpec == MCSpec /\ MCFairness

(***************************************************************************)
(* While the component reads, a push that waits for room in the queue of a *)
(* blocking port returns: as upstream makes MaxCalls calls at most, all of *)
(* them have returned in the end.                                          *)
(***************************************************************************)
BlockedPushReturns ==
    []<>(kind = "blocking" => \A s \in Streams : call[s].at = "idle")

(***************************************************************************)
(* While the component reads, every stream that upstream has ended is      *)
(* reported to the component as ended and leaves the port, which lets the  *)
(* next instance of its stream ID in.                                      *)
(***************************************************************************)
EndsAreReported ==
    []<>(kind = "blocking" =>
            \A s \in Streams : \A n \in DOMAIN objects(s) :
                objects(s)[n].instance > queuedEnds(s))

(***************************************************************************)
(* Nobody waits for ever at a blocking port that is read: neither upstream *)
(* in pushPacket nor the next instance of a stream ID.                     *)
(***************************************************************************)
NobodyStarves == BlockedPushReturns /\ EndsAreReported
=============================================================================
