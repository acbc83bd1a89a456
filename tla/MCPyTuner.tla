----------------------------- MODULE MCPyTuner -----------------------------
(* A front end device: its allocations, the control ports between such     *)
(* devices, or one check of an allocation request.                         *)
EXTENDS PyTuner, TLC

CONSTANTS t1, t2, i1, i2, i3, h1, h2, c1, c2, Conns, Clients, Values, Default, MaxPortCalls

VARIABLES kind, port, parents, connections, port_lock, in_lock, val, reachable, client,
          portCalls, agreed, input

P == INSTANCE FrontendPorts

ASSUME ControlConstants == P!PortsConstants

portVars == <<port, parents, connections, port_lock, in_lock, val, reachable, client,
              portCalls, agreed>>

MCTypeMaps == {t1 :> "RX" @@ t2 :> "RX", t1 :> "RX" @@ t2 :> "CHANNELIZER"}

NoPorts ==
    /\ port = None /\ parents = {} /\ connections = {} /\ port_lock = None
    /\ in_lock = <<>> /\ val = <<>> /\ reachable = {} /\ client = <<>>
    /\ portCalls = 0 /\ agreed = None

NoDevice == Init /\ serial /\ tuner_type = t1 :> "RX" @@ t2 :> "RX"

MCInit ==
    \/ kind = "device" /\ Init /\ NoPorts /\ input = None
    \/ kind = "ports" /\ P!Init /\ NoDevice /\ input = None
    \/ kind = "request" /\ P!RequestInit /\ NoPorts /\ NoDevice

MCNext ==
    /\ UNCHANGED <<kind, input>>
    /\ \/ kind = "device" /\ Next /\ UNCHANGED portVars
       \/ kind = "ports" /\ P!Next /\ UNCHANGED vars

MCSpec == MCInit /\ [][MCNext]_<<vars, kind, portVars, input>>

\* Control goes where it is meant: a uses port asks one receiver and sets all of
\* them, no lock of a control port outlives its call, and a request whose
\* whole band its input and the device have is never refused (FrontendPorts).
ControlTrue ==
    /\ kind = "ports" => P!OneAnswer /\ P!AllAgree /\ P!LocksReleased
    /\ kind = "request" => P!FittingRequestsPass
============================================================================
