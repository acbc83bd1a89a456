---------------------------- MODULE MCPyOutPort ----------------------------
(* What sends data: an output port of data, with a stream written through its *)
(* stream object (s1) or through the port (s2), an output port of             *)
(* attachments, or a source of the sandbox, with a sink that is read (link)   *)
(* or with all calls of the user (source).  The classes of ports share the    *)
(* variables of their base class.                                             *)
EXTENDS PyOutPort, TLC

CONSTANTS s1, s2, c1, c2, MaxPortCalls,
          Lengths, PktSize, MaxReads, MaxPushes, MaxUserCalls, MaxRepeats, MaxFaults

VARIABLES kind, container, connecting, removing, attached, rxSRI, calls, failed, raced, cut,
          data, timestamps, gotEOS, breakBlock, sinkSRI, reader, taken, packets, last, reads,
          queue, pending, exit, exited, loop, sri, clock, thread, user, port, refresh, portSRI,
          outPorts, heard, excused, misled, started, crossed, uncounted, holes, ids, userCalls,
          repeats, faults

A == INSTANCE PyAttachablePort

ASSUME OutConstants == None \notin BOOLEAN /\ None \notin {"remove", "add", "added"}

MCFrame == None :> 0 @@ s1 :> 0 @@ s2 :> 2
DataSet(n, eos, given, repeat, ts) ==
    [id |-> 0, n |-> n, eos |-> eos, sri |-> given, loop |-> repeat, ts |-> ts]
MCDataSets == {DataSet(3, TRUE, None, None, None), DataSet(3, FALSE, s2, None, None),
               DataSet(0, TRUE, None, None, 10), DataSet(2, FALSE, None, TRUE, None)}

S == INSTANCE PySandbox WITH Frame <- MCFrame, Sink <- c1, DefaultSRI <- s1,
        DataSets <- MCDataSets, stuck <- uncounted

dataVars == <<streams, w, rx, steady, control>>
attachVars == <<container, connecting, removing, attached, rxSRI, calls, failed, raced, cut>>

sandboxVars == <<data, timestamps, gotEOS, breakBlock, sinkSRI, reader, taken, packets, last,
                 reads, queue, pending, exit, exited, loop, sri, clock, thread, user, port,
                 refresh, portSRI, outPorts, heard, excused, misled, started, crossed, uncounted,
                 holes, ids, userCalls, repeats, faults>>

MCSRIs == {[mode |-> 0, subsize |-> 3, id |-> 1], [mode |-> 1, subsize |-> 0, id |-> 1]}
MCMaxCalls == s1 :> 6 @@ s2 :> 4
MCFilters == {{}, {<<s1, c1>>, <<s2, c1>>}}

MCInit == /\ kind \in {"stream", "direct", "attachable", "source", "link"}
          /\ Init /\ A!Init /\ S!Init

MCNext ==
    /\ UNCHANGED kind
    /\ \/ kind = "stream" /\ Next /\ w'[s2] = w[s2] /\ UNCHANGED <<attachVars, sandboxVars>>
       \/ kind = "direct" /\ Next /\ w'[s1] = w[s1] /\ UNCHANGED <<attachVars, sandboxVars>>
       \/ kind = "attachable" /\ A!Next /\ UNCHANGED <<dataVars, sandboxVars>>
       \/ kind = "source" /\ S!Next /\ reads' = 0 /\ UNCHANGED <<vars, attachVars>>
       \/ kind = "link" /\ S!Next /\ userCalls' <= 2 /\ faults' = 0 /\ UNCHANGED <<vars, attachVars>>

MCSpec == MCInit /\ [][MCNext]_<<vars, kind, attachVars, sandboxVars>>

\* What a receiver of an output port gets of a stream can be read: under the SRI
\* it was written under, in whole frames with true times, none missing, and the
\* stream ends at every receiver that loses its connection (PyOutPort).
PacketsTrue ==
    WrittenUnderSri /\ StampsTrue /\ WholeFrames /\ NothingLost /\ NoOrphanStreams

\* The attachments at the receivers are the ones the port knows, and the ones
\* the filter table asks for, and the port's record of who has which SRI is
\* true (PyAttachablePort).
AttachmentsTrue ==
    kind = "attachable" => A!AttachmentsKnown /\ A!AttachedIffRouted /\ A!SriRecordTrue

\* The calls of the user mean what they say: after waitAllPacketsSent all is
\* sent, who waits has something to wait for, after stop nothing is pushed, and
\* after start there is a thread (PySandbox).
SourceTrue == S!SentMeansSent /\ S!WaitJustified /\ S!StopStops /\ S!StartedRuns

\* What a source pushes is what a sink hands out: each connection has the SRI
\* first, samples are in order and without gaps, the end comes with the last
\* packet, times belong to their samples, and no reader sleeps on what it waits
\* for or gets less than it asked for before an end (PySandbox).
LinkTrue ==
    /\ S!SriFirst /\ S!ReadsContiguous /\ S!EosWithLast
    /\ S!TimesTrue /\ S!ReaderAwake /\ S!ShortOnlyAtEnd
============================================================================
