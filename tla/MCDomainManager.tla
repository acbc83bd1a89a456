--------------------------- MODULE MCDomainManager ---------------------------
(***************************************************************************)
(* Two domains for TLC, told apart by the frozen variable kind:            *)
(*   "calls"     the constants of the configuration: a node with a device, *)
(*               a service and a connection between them in its DCD, whose *)
(*               applications may fail to be released, and a DomainManager *)
(*               that crashes twice, also while it restores its state;     *)
(*   "registry"  a node whose DeviceManager (m1) and device (d1) may be    *)
(*               started a second time (m1b, d1b), with one crash.         *)
(***************************************************************************)
EXTENDS DomainManager

CONSTANTS m1, m1b, d1, d1b, s, a, idM, idD, idS

IdentOf ==
    [o \in Objects |-> IF o \in Mgrs THEN idM
                       ELSE IF o \in Devs THEN idD ELSE idS]

LauncherOf == [o \in Devs \cup Svcs |-> IF o = d1b THEN m1b ELSE m1]

OneConnection == {[requester |-> idM, uses |-> idD, provides |-> idS]}

VARIABLE kind

Registry == INSTANCE DomainManager
                WITH Conns <- {}, Environment <- {"die"}, MaxCrashes <- 1

mcVars == <<vars, kind>>

MCInit ==
    \/ kind = "calls" /\ Init
    \/ kind = "registry" /\ Registry!Init

\* Nothing is started a second time.
CallsNext ==
    /\ Next
    /\ op'.obj \notin {m1b, d1b}
    /\ {m1b, d1b} \subseteq alive'

MCNext ==
    /\ UNCHANGED kind
    /\ \/ kind = "calls" /\ CallsNext
       \/ kind = "registry" /\ Registry!Next

\* The thread of a call goes on, and a DomainManager that is down is restarted.
MCSpec ==
    /\ MCInit /\ [][MCNext]_mcVars
    /\ WF_mcVars(kind = "calls" /\ Step /\ UNCHANGED kind)

(***************************************************************************)
(* Every call returns, and the restart of the DomainManager ends.          *)
(***************************************************************************)
CallsReturn == kind = "calls" /\ op.at # "idle" ~> op.at = "idle"
=============================================================================
