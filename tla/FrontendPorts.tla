--------------------------- MODULE FrontendPorts ---------------------------
(***************************************************************************)
(* Two parts of frontendInterfaces/libsrc/python around the tuner device:  *)
(* its control ports, and the check of an allocation request.              *)
(*                                                                         *)
(* The control ports, output_ports.py and input_ports.py: a uses port that *)
(* forwards one operation to its connections under port_lock, and the      *)
(* provides ports, each with a lock of its own around its parent.          *)
(* A behaviour is about one operation pair (get and set of one attribute)  *)
(* of one port class; clients also call the provides ports directly.       *)
(***************************************************************************)
EXTENDS Integers, FiniteSets

CONSTANTS Conns, Values, Clients, Default, MaxPortCalls, None

----------------------------------------------------------------------------
(* The operations of the port classes.                                     *)

Get(A) == {"get"} \X A
Set(A) == {"set"} \X A
GetSet(A) == {"get", "set"} \X A

TunerAttributes == {"TunerType", "TunerDeviceControl", "TunerGroupId", "TunerRfFlowId",
                    "TunerStatus"}
Front == {"TunerCenterFrequency", "TunerBandwidth", "TunerAgcEnable"}
Back == {"TunerGain", "TunerReferenceSource", "TunerEnable"}

OutFrontendTunerPort == Get(TunerAttributes)
OutAnalogTunerPort_status == Get(TunerAttributes)
OutAnalogTunerPort_front == GetSet(Front)
OutAnalogTunerPort_back == GetSet(Back)
OutDigitalTunerPort_status == Get(TunerAttributes)
OutDigitalTunerPort_front == GetSet(Front)
OutDigitalTunerPort_back == GetSet(Back)
OutDigitalTunerPort_rate == GetSet({"TunerOutputSampleRate"})
OutGPSPort == GetSet({"gps_info", "gps_time_pos"})
OutRFInfoPort == GetSet({"rf_flow_id", "rfinfo_pkt"})
OutRFSourcePort == GetSet({"available_rf_inputs", "current_rf_input"})
OutNavDataPort == GetSet({"nav_packet"})

OutOps ==
    [FrontendTuner |-> OutFrontendTunerPort,
     AnalogTuner   |-> OutAnalogTunerPort_status \cup OutAnalogTunerPort_front
                       \cup OutAnalogTunerPort_back,
     DigitalTuner  |-> OutDigitalTunerPort_status \cup OutDigitalTunerPort_front
                       \cup OutDigitalTunerPort_back \cup OutDigitalTunerPort_rate,
     GPS |-> OutGPSPort, RFInfo |-> OutRFInfoPort, RFSource |-> OutRFSourcePort,
     NavData |-> OutNavDataPort]

\* operations that name "true" and "false", which Python does not have
Unusable ==
    {"FrontendTuner"} \X OutFrontendTunerPort
    \cup {"AnalogTuner"} \X (OutAnalogTunerPort_status \cup Set({"TunerCenterFrequency"}))

InFrontendTunerPort == Get(TunerAttributes)
InAnalogTunerPort == InFrontendTunerPort \cup GetSet(Front \cup Back)
InDigitalTunerPort == InAnalogTunerPort \cup GetSet({"TunerOutputSampleRate"})
InDigitalScanningTunerPort ==
    InDigitalTunerPort \cup Get({"ScanStatus"}) \cup Set({"ScanStartTime", "ScanStrategy"})
InGPSPort == GetSet({"gps_info", "gps_time_pos"})
InRFInfoPort == GetSet({"rf_flow_id", "rfinfo_pkt"})
InRFSourcePort == GetSet({"available_rf_inputs", "current_rf_input"})
InNavDataPort == GetSet({"nav_packet"})

InOps ==
    [FrontendTuner |-> InFrontendTunerPort, AnalogTuner |-> InAnalogTunerPort,
     DigitalTuner |-> InDigitalScanningTunerPort, GPS |-> InGPSPort,
     RFInfo |-> InRFInfoPort, RFSource |-> InRFSourcePort, NavData |-> InNavDataPort]

Ports == {[class |-> c, attr |-> a] : c \in DOMAIN InOps,
                                      a \in {o[2] : o \in UNION {InOps[c] : c \in DOMAIN InOps}}}
\* the attributes of the class of a port
Kinds == {p \in Ports : \E k \in {"get", "set"} : <<k, p.attr>> \in InOps[p.class]}

\* the parents that ports have by default refuse the operations of tuners;
\* those of the other classes answer with a default and forget what they are told
tuner_delegation == {"FrontendTuner", "AnalogTuner", "DigitalTuner"}
default_delegation == {"GPS", "RFInfo", "RFSource", "NavData"}

----------------------------------------------------------------------------
VARIABLES
    port,            \* the class and the attribute of this behaviour, fixed
    parents,         \* receivers whose parent is a device, fixed
    connections,     \* connection IDs of the uses port (outConnections)
    port_lock,       \* client that holds the lock of the uses port, or None
    in_lock,         \* receiver -> client that holds the lock of its port, or None
    val,             \* receiver -> value of the attribute
    reachable,       \* receivers that answer
    client,          \* client -> its call
    portCalls,       \* calls, connections and failures so far
    agreed           \* ghost: the value the last call set at every connection, or None;
                     \* "mixed" once a provides port was set directly

vars == <<port, parents, connections, port_lock, in_lock, val, reachable, client, portCalls, agreed>>
fixed == <<port, parents>>

NoCall == [at |-> "idle"]

Init ==
    /\ port \in Kinds
    /\ parents \in SUBSET Conns
    /\ connections = {} /\ port_lock = None
    /\ in_lock = [c \in Conns |-> None]
    /\ val = [c \in Conns |-> Default]
    /\ reachable = Conns
    /\ client = [x \in Clients |-> NoCall]
    /\ portCalls = 0
    /\ agreed = None

Op(k) == <<k, port.attr>>
Count == portCalls < MaxPortCalls /\ portCalls' = portCalls + 1
Unless(a) == IF agreed = "mixed" THEN agreed ELSE a
End(x) == client' = [client EXCEPT ![x] = NoCall]

----------------------------------------------------------------------------
(* The uses port.                                                          *)

connectPort(c) ==
    /\ port_lock = None /\ c \notin connections /\ Count
    /\ connections' = connections \cup {c}
    /\ agreed' = Unless(None)
    /\ UNCHANGED <<fixed, port_lock, in_lock, val, reachable, client>>

disconnectPort(c) ==
    /\ port_lock = None /\ c \in connections /\ Count
    /\ connections' = connections \ {c}
    /\ UNCHANGED <<fixed, port_lock, in_lock, val, reachable, client, agreed>>

\* PortCallError: an answer needs one connection, a name needs that connection
evaluateRequestBasedOnConnections(k, name) ==
    /\ k = "get" => connections # {} /\ (name # None \/ Cardinality(connections) = 1)
    /\ name # None => name \in connections

\* an operation of the uses port; it takes port_lock and either raises at once
\* or calls the connections it is meant for
Call(x, k, v, name) ==
    /\ client[x] = NoCall /\ Op(k) \in OutOps[port.class]
    /\ port_lock = None /\ Count
    /\ IF /\ <<port.class, Op(k)>> \notin Unusable
          /\ evaluateRequestBasedOnConnections(k, name)
       THEN /\ port_lock' = x
            /\ client' = [client EXCEPT ![x] =
                 [at |-> "loop", kind |-> k, value |-> v, name |-> name, read |-> {},
                  conn |-> None, todo |-> IF name = None THEN connections ELSE {name}]]
            /\ agreed' = IF k = "set" THEN Unless(None) ELSE agreed
       ELSE UNCHANGED <<port_lock, client, agreed>>
    /\ UNCHANGED <<fixed, connections, in_lock, val, reachable>>

\* the next connection, in the order of the dictionary
Forward(x, c) ==
    /\ client[x].at = "loop" /\ c \in client[x].todo
    /\ IF c \in reachable
       THEN /\ in_lock[c] = None
            /\ in_lock' = [in_lock EXCEPT ![c] = x]
            /\ client' = [client EXCEPT ![x].at = "in", ![x].conn = c]
            /\ UNCHANGED port_lock
       ELSE /\ port_lock' = None /\ End(x)
            /\ UNCHANGED in_lock
    /\ UNCHANGED <<fixed, connections, val, reachable, portCalls, agreed>>

Answered(x) ==
    /\ client[x].at = "loop" /\ client[x].todo = {}
    /\ port_lock' = None /\ End(x)
    /\ agreed' = IF client[x].kind = "set" /\ client[x].name = None
               THEN Unless(client[x].value) ELSE agreed
    /\ UNCHANGED <<fixed, connections, in_lock, val, reachable, portCalls>>

----------------------------------------------------------------------------
(* The provides ports.                                                     *)

\* a client that has the reference of a provides port
Direct(x, c, k, v) ==
    /\ client[x] = NoCall /\ Op(k) \in InOps[port.class]
    /\ c \in reachable /\ in_lock[c] = None /\ Count
    /\ in_lock' = [in_lock EXCEPT ![c] = x]
    /\ client' = [client EXCEPT ![x] = [at |-> "direct", kind |-> k, value |-> v, conn |-> c]]
    /\ agreed' = IF k = "set" THEN "mixed" ELSE agreed
    /\ UNCHANGED <<fixed, connections, port_lock, val, reachable>>

\* the parent is called under the lock; one that does not support the
\* operation raises, which also ends a call of the uses port
Delegate(x) ==
    LET r == client[x]
        c == r.conn
        raises == c \notin parents /\ port.class \in tuner_delegation
        forgets == c \notin parents /\ port.class \in default_delegation
    IN  /\ r.at \in {"in", "direct"}
        /\ in_lock' = [in_lock EXCEPT ![c] = None]
        /\ val' = IF r.kind = "set" /\ ~raises /\ ~forgets THEN [val EXCEPT ![c] = r.value] ELSE val
        /\ IF r.at = "in" /\ ~raises
           THEN client' = [client EXCEPT ![x] =
                  [r EXCEPT !.at = "loop", !.read = @ \cup {c}, !.todo = @ \ {c}]]
           ELSE End(x)
        /\ port_lock' = IF r.at = "in" /\ raises THEN None ELSE port_lock
        /\ UNCHANGED <<fixed, connections, reachable, portCalls, agreed>>

Lose(c) ==
    /\ c \in reachable /\ in_lock[c] = None /\ Count
    /\ reachable' = reachable \ {c}
    /\ UNCHANGED <<fixed, connections, port_lock, in_lock, val, client, agreed>>

Next ==
    \/ \E c \in Conns : connectPort(c) \/ disconnectPort(c) \/ Lose(c)
    \/ \E x \in Clients, v \in Values :
         \/ \E name \in Conns \cup {None} : Call(x, "set", v, name)
         \/ \E c \in Conns : Direct(x, c, "set", v)
    \/ \E x \in Clients :
         \/ \E name \in Conns \cup {None} : Call(x, "get", None, name)
         \/ \E c \in Conns : Direct(x, c, "get", None) \/ Forward(x, c)
         \/ Answered(x) \/ Delegate(x)

Spec == Init /\ [][Next]_vars

----------------------------------------------------------------------------
PortsConstants == None \notin Clients \cup Conns \cup Values \cup {"mixed"} /\ "mixed" \notin Values

\* A call that returns a value asked one receiver, the one it was meant for:
\* connections do not change under a call.
OneAnswer == \A x \in Clients : client[x].at = "loop" => 
    LET r == client[x] IN
    r.kind = "get" => /\ Cardinality(r.read \cup r.todo) = 1
                      /\ r.name # None => r.read \cup r.todo = {r.name}

\* A set that returned without an error reached every connection: the devices
\* behind them have the same value until one of them is told another.
AllAgree == agreed \in Values => \A c \in connections \cap parents : val[c] = agreed

\* No lock outlives the call that took it, whichever call failed and where.
LocksReleased ==
    /\ port_lock # None => client[port_lock].at \in {"loop", "in"}
    /\ \A c \in Conns : in_lock[c] # None =>
         client[in_lock[c]].at \in {"in", "direct"} /\ client[in_lock[c]].conn = c

----------------------------------------------------------------------------
(* The helpers of tuner_device.py that check an allocation request against *)
(* the input of a tuner (a stream, or an analog RFInfo packet) and against *)
(* the device.  Frequencies and rates are integers in quarters of a unit,  *)
(* so that the halves and quarters the code takes are exact;               *)
(* floatingPointCompare is then the sign of the difference.                *)

validateRequestSingle(min, max, value) == value >= min /\ value <= max /\ min <= max

\* only the centre of the request is compared with the available range
validateRequest(min, max, reqMin, reqMax) ==
    LET center == (reqMin + reqMax) \div 2
    IN  center >= min /\ center <= max /\ min <= max /\ reqMin <= reqMax

\* [cf - width/factor, cf + width/factor] against a range
Within(min, max, cf, width, factor) ==
    validateRequest(min, max, cf - width \div factor, cf + width \div factor)

Factor(mode) == IF mode = 1 THEN 4 ELSE 2

validateRequestVsSRI(r, sri, mode) ==
    LET half == sri.sr \div Factor(sri.mode)
    IN  /\ sri.keywords = {"CHAN_RF", "FRONTEND::BANDWIDTH"}
        /\ Within(sri.cf - sri.bw \div 2, sri.cf + sri.bw \div 2, r.cf, r.bw, 2)
        /\ Within(sri.cf - half, sri.cf + half, r.cf, r.sr, Factor(mode))

\* the device: its centre frequencies, bandwidth and rate, then its whole band
DeviceSupports(cf, r, mode, dev) ==
    LET low == dev.min - dev.sr \div Factor(mode)
        high == dev.max + dev.sr \div Factor(mode)
    IN  /\ validateRequestSingle(dev.min, dev.max, cf)
        /\ validateRequestSingle(0, dev.bw, r.bw)
        /\ validateRequestSingle(0, dev.sr, r.sr)
        /\ Within(low, high, cf, r.bw, 2)
        /\ Within(low, high, cf, r.sr, Factor(mode))

validateRequestVsDeviceStream(r, sri, mode, dev) ==
    validateRequestVsSRI(r, sri, mode) /\ DeviceSupports(r.cf, r, mode, dev)

\* here complex data has the smaller factor
validateRequestVsRFInfo(r, rf, mode) ==
    LET low == rf.cf - rf.bw \div 2
        high == rf.cf + rf.bw \div 2
    IN  /\ Within(low, high, r.cf, r.bw, 2)
        /\ Within(low, high, r.cf, r.sr, IF mode = 1 THEN 2 ELSE 4)

IFCenter_Inverted(r, rf) ==
    IF r.type # "TX" /\ rf.ifcf > 0 /\ rf.cf > rf.ifcf
    THEN IF rf.inverted THEN rf.ifcf - (r.cf + rf.cf) ELSE rf.ifcf + (r.cf - rf.cf)
    ELSE r.cf

\* where the request lies at the intermediate frequency of the analog input
IFCenter(r, rf) ==
    IF r.type # "TX" /\ rf.ifcf > 0 /\ rf.cf > rf.ifcf
    THEN IF rf.inverted THEN rf.ifcf - (r.cf - rf.cf) ELSE rf.ifcf + (r.cf - rf.cf)
    ELSE r.cf

validateRequestVsDevice(r, rf, mode, dev) ==
    /\ r.type # "TX" => validateRequestVsRFInfo(r, rf, mode)
    /\ DeviceSupports(IFCenter(r, rf), r, mode, dev)

----------------------------------------------------------------------------
VARIABLE input     \* the arguments of one validation

Frequencies == {4, 8, 12}
Widths == {0, 8}
Requests == [cf : Frequencies, bw : Widths, sr : Widths, type : {"RX", "TX"}]
Devices == [min : {0, 8}, max : {8, 16}, bw : {0, 8}, sr : {8, 16}]
SRIs == [cf : {8}, bw : {0, 16}, sr : {8, 16}, mode : {0, 1},
         keywords : {{}, {"CHAN_RF"}, {"CHAN_RF", "FRONTEND::BANDWIDTH"}}]
RFInfos == [cf : {8, 16}, bw : {8, 16}, ifcf : {0, 8}, inverted : BOOLEAN]

RequestInit == \E r \in Requests, d \in Devices, m \in {0, 1} :
    \/ \E s \in SRIs : input = [kind |-> "stream", r |-> r, d |-> d, m |-> m, up |-> s]
    \/ \E f \in RFInfos : input = [kind |-> "analog", r |-> r, d |-> d, m |-> m, up |-> f]

----------------------------------------------------------------------------
(* The reference: the whole band of the request lies in the input, at the  *)
(* narrower of the sample rates the code takes for a mode, and in the      *)
(* device.                                                                 *)

Band(cf, width) == {f \in -16..40 : 2 * (f - cf) <= width /\ 2 * (cf - f) <= width}

InputHasAll(i) ==
    LET r == i.r
        need == Band(r.cf, r.bw) \cup Band(r.cf, r.sr)
    IN  IF i.kind = "stream"
        THEN /\ {"CHAN_RF", "FRONTEND::BANDWIDTH"} \subseteq i.up.keywords
             /\ need \subseteq Band(i.up.cf, i.up.bw)
             /\ need \subseteq Band(i.up.cf, i.up.sr \div 2)
        ELSE r.type = "TX" \/ need \subseteq Band(i.up.cf, i.up.bw)

\* offsets from the centre survive the conversion to an intermediate frequency
DeviceHasAll(i) ==
    LET r == i.r
        shift == IF i.kind = "analog" /\ r.type # "TX" /\ i.up.ifcf \in 1..(i.up.cf - 1)
                 THEN i.up.ifcf - i.up.cf ELSE 0
        mirrored == i.kind = "analog" /\ shift # 0 /\ i.up.inverted
        at(f) == IF mirrored THEN 2 * i.up.ifcf - (f + shift) ELSE f + shift
    IN  /\ \A f \in Band(r.cf, r.bw) \cup Band(r.cf, r.sr) : at(f) \in i.d.min..i.d.max
        /\ r.bw <= i.d.bw /\ r.sr <= i.d.sr

\* A request whose whole band its input and the device have is never refused,
\* also where the input inverts the spectrum.
FittingRequestsPass ==
    InputHasAll(input) /\ DeviceHasAll(input) =>
        IF input.kind = "stream"
        THEN validateRequestVsDeviceStream(input.r, input.up, input.m, input.d)
        ELSE validateRequestVsDevice(input.r, input.up, input.m, input.d)
=============================================================================
