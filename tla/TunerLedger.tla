---------------------------- MODULE TunerLedger ----------------------------
(***************************************************************************)
(* What a tuner device promises its clients: an allocation ID holds one    *)
(* tuner, as its controller or as a listener; a tuner has at most one      *)
(* controller, only a controlled tuner has listeners, and the controller   *)
(* gives its tuner up after the listeners.                                 *)
(***************************************************************************)
CONSTANTS Ids, Tuners, None

VARIABLE ledger      \* allocation ID -> None or [tuner, role]

Entry(t, role) == [tuner |-> t, role |-> role]
Controlled(t) == \E i \in Ids : ledger[i] = Entry(t, "control")
Listeners(t) == {i \in Ids : ledger[i] = Entry(t, "listener")}

Init == ledger = [i \in Ids |-> None]

Control(i, t) ==
    /\ ledger[i] = None /\ ~Controlled(t)
    /\ ledger' = [ledger EXCEPT ![i] = Entry(t, "control")]

Listen(i, t) ==
    /\ ledger[i] = None /\ Controlled(t)
    /\ ledger' = [ledger EXCEPT ![i] = Entry(t, "listener")]

\* some listeners of a tuner leave it: one of them, or all of them at once
FreeListeners(t, L) ==
    /\ L # {} /\ L \subseteq Listeners(t)
    /\ ledger' = [i \in Ids |-> IF i \in L THEN None ELSE ledger[i]]

FreeControl(i, t) ==
    /\ ledger[i] = Entry(t, "control") /\ Listeners(t) = {}
    /\ ledger' = [ledger EXCEPT ![i] = None]

Next ==
    /\ ledger' # ledger
    /\ \E t \in Tuners :
         \/ \E i \in Ids : Control(i, t) \/ Listen(i, t) \/ FreeControl(i, t)
         \/ \E L \in SUBSET Ids : FreeListeners(t, L)

Spec == Init /\ [][Next]_ledger
=============================================================================
