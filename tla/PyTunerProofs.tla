--------------------------- MODULE PyTunerProofs ---------------------------
(***************************************************************************)
(* Proofs about PyTuner: its tables agree with each other and with the     *)
(* hardware, and calls that do not overlap keep the promise of TunerLedger.*)
(***************************************************************************)
EXTENDS MCPyTuner, FiniteSetTheorems, TLAPS

----------------------------------------------------------------------------
(* The inductive invariant: whatever calls overlap.                        *)

id(x) == call[x].req.id
at(x, pcs) == call[x].pc \in pcs

\* Two calls are of different IDs, and in a serial behaviour there are no two.
CallsApart ==
    \A x, y \in Threads : x # y /\ call[x] # Idle /\ call[y] # Idle =>
        id(x) # id(y) /\ ~serial

\* deallocateCapacity holds its lock from the beginning to the usage state.
LockHeld == \A x \in Threads :
    /\ at(x, {"unlisten", "notcontrol", "unlist", "relist"}) => capacityLock = x
    /\ capacityLock = x => at(x, {"find", "clear", "release", "wipe", "unlisten", "notcontrol",
                                  "unlist", "relist"})

\* Only the calls of an ID map it: what a call has found of its ID it finds again,
\* or nothing.
OwnMapping == \A x \in Threads :
    /\ at(x, {"allocate", "existing", "append"}) => mapping[id(x)] = None
    /\ at(x, {"clear", "release", "notcontrol"}) => mapping[id(x)] \in {call[x].tuner, None}

\* The IDs that a list, or a list about to be assigned, has after the first.
listed(i) ==
    \/ \E t \in Tuners : i \in csv[t].rest
    \/ \E x \in Threads : at(x, {"assign", "relist"}) /\ i \in call[x].csv.rest

\* No list has the controller of another tuner, or its own one, among the rest.
RestListens == \A i \in Ids : listed(i) => \A t \in Tuners : control[t] # i

\* Where calls overlap, an ID is unknown before its one allocation has chosen.
FirstUse == ~serial =>
    /\ \A x \in Threads : at(x, {"check", "allocate", "listen", "existing", "append"}) =>
         mapping[id(x)] = None /\ ~listed(id(x)) /\ made[id(x)] # 0
    /\ \A i \in Ids : made[i] = 0 => mapping[i] = None /\ ~listed(i)

----------------------------------------------------------------------------
(* The inductive invariant: calls that do not overlap.                     *)

\* A failed allocation that has not given its tuner back.
failing(x) ==
    /\ at(x, {"undo", "find", "clear", "release"}) /\ capacityLock # x
    /\ mapping[id(x)] # None

\* Only a tuner with a controller has listeners.
Carried == \A i \in Ids : mapping[i] # None => control[mapping[i]] # None

\* The lists are those of the tables, but for the one the call is changing.
ListsFollow(x) == \A t \in Tuners :
    \/ csv[t] = createAllocationIdCsv(t, control, mapping)
    \/ at(x, {"csv", "assign", "unlist", "relist"}) /\ t = call[x].tuner

\* The hardware is that of the tables, but for the tuner of a failed allocation.
DeviceFollows(x) == \A t \in Tuners :
    /\ t \in tuned <=> control[t] # None
    /\ IF failing(x) /\ t = mapping[id(x)] THEN t \notin enabled /\ control[t] = id(x)
       ELSE t \in enabled <=> t \in tuned

\* The usage state is that of the tables, until a call that takes a tuner or
\* gives one back sets it.
UsageFollows(x) ==
    IF failing(x) THEN usageState = Usage([control EXCEPT ![mapping[id(x)]] = None])
    ELSE \/ at(x, {"usage", "setusage"})
         \/ at(x, {"wipe"}) /\ capacityLock = x
         \/ usageState = Usage(control)

\* What the call knows of its tuner.
CallKnows(x) ==
    LET t == call[x].tuner IN
    /\ at(x, {"clear", "release", "notcontrol"}) => mapping[id(x)] = t
    /\ at(x, {"release"}) => csv[t].rest = {} /\ control[t] = id(x)
    /\ at(x, {"wipe"}) => control[t] = None
    /\ at(x, {"append"}) => control[t] # None
    /\ at(x, {"unlist"}) =>
         /\ control[t] # None /\ control[t] # id(x) /\ mapping[id(x)] = None
         /\ csv[t].first = control[t]
         /\ csv[t].rest \ {id(x)} = {i \in Ids : mapping[i] = t} \ {control[t]}
    /\ at(x, {"assign", "relist"}) =>
         call[x].csv = createAllocationIdCsv(t, control, mapping)
    /\ at(x, {"setusage"}) => call[x].usage = Usage(control)

CallInv(x) == ListsFollow(x) /\ DeviceFollows(x) /\ UsageFollows(x) /\ CallKnows(x)

ListsTrue == \A t \in Tuners : csv[t] = createAllocationIdCsv(t, control, mapping)
DeviceTrue == \A t \in Tuners : /\ t \in tuned <=> control[t] # None
                                /\ t \in enabled <=> t \in tuned
BetweenCalls == ListsTrue /\ DeviceTrue /\ usageState = Usage(control)

SerialInv == serial =>
    /\ Carried
    /\ Quiet => BetweenCalls
    /\ \A x \in Threads : call[x] # Idle => CallInv(x)

TunerInv ==
    /\ TypeOK /\ EnabledControlled /\ ControlMapped
    /\ CallsApart /\ LockHeld /\ OwnMapping /\ RestListens /\ FirstUse
    /\ SerialInv

----------------------------------------------------------------------------
(* Calls.                                                                  *)

\* What a call holds at each of its steps.
LEMMA CallFields ==
    ASSUME TypeOK, NEW x \in Threads
    PROVE  /\ call[x] \in Calls
           /\ call[x].pc = "idle" <=> call[x] = Idle
           /\ call[x] # Idle => call[x].req \in AnyRequest /\ id(x) \in Ids
           /\ at(x, {"append", "csv", "assign", "clear", "release", "wipe", "notcontrol",
                     "unlist", "relist"}) => call[x].tuner \in Tuners
           /\ at(x, {"assign", "relist"}) => call[x].csv \in Csvs
           /\ at(x, {"setusage"}) => call[x].usage \in Usages
           /\ at(x, {"listen", "existing"}) => call[x].req \in ListenerRequests
  <1>1. call[x] \in Calls
    BY DEF TypeOK
  <1>2. call[x] # Idle => call[x].req \in AnyRequest
    BY <1>1 DEF Calls, AnyRequest, Requests
  <1>3. \A r \in AnyRequest : r.id \in Ids
    BY DEF AnyRequest, Requests, Releases, TunerRequests, ListenerRequests
  <1>4. call[x].pc = "idle" <=> call[x] = Idle
    BY <1>1 DEF Calls, Idle
  <1>5. at(x, {"append", "csv", "assign", "clear", "release", "wipe", "notcontrol",
               "unlist", "relist"}) => call[x].tuner \in Tuners
    BY <1>1 DEF Calls, Idle, at
  <1>6. at(x, {"assign", "relist"}) => call[x].csv \in Csvs
    BY <1>1 DEF Calls, Idle, at
  <1>7. at(x, {"setusage"}) => call[x].usage \in Usages
    BY <1>1 DEF Calls, Idle, at
  <1>8. at(x, {"listen", "existing"}) => call[x].req \in ListenerRequests
    BY <1>1 DEF Calls, Idle, at
  <1> QED BY <1>1, <1>2, <1>3, <1>4, <1>5, <1>6, <1>7, <1>8 DEF id

\* The call of x goes on at pc, and the other calls stay.
goesOn(x, pc) ==
    /\ call' \in [Threads -> Calls]
    /\ \A y \in Threads \ {x} : call'[y] = call[y]
    /\ call'[x].pc = pc /\ call'[x].req = call[x].req /\ call'[x] # Idle

\* The call of x ends, and the other calls stay.
ends(x) ==
    /\ call' \in [Threads -> Calls]
    /\ \A y \in Threads \ {x} : call'[y] = call[y]
    /\ call'[x] = Idle

\* Return ends a call.
LEMMA ReturnEnds ==
    ASSUME TypeOK, NEW x \in Threads, Return(x)
    PROVE  ends(x)
  <1>1. call \in [Threads -> Calls] /\ Idle \in Calls
    BY DEF TypeOK, Calls
  <1> QED BY <1>1 DEF Return, ends

\* A step to a place with the same fields.
LEMMA GotoGoesOn ==
    ASSUME TypeOK, NEW x \in Threads, NEW pc, Goto(x, pc),
           \/ at(x, {"check", "undo"}) /\ pc \in {"allocate", "find"}
           \/ at(x, {"allocate"}) /\ pc = "undo"
           \/ at(x, {"listen"}) /\ pc = "existing"
           \/ at(x, {"append", "clear", "release", "wipe", "notcontrol"})
              /\ pc \in {"csv", "release", "wipe", "unlist", "usage"}
           \/ at(x, {"relist"}) /\ pc = "usage"
    PROVE  goesOn(x, pc) /\ call'[x].tuner = call[x].tuner
  <1>1. call \in [Threads -> Calls] /\ call[x] \in Calls
    BY DEF TypeOK
  <1>2. call' = [call EXCEPT ![x] = [call[x] EXCEPT !.pc = pc]]
    BY DEF Goto
  <1>3. /\ [call[x] EXCEPT !.pc = pc] \in Calls
        /\ [call[x] EXCEPT !.pc = pc].pc = pc
        /\ [call[x] EXCEPT !.pc = pc].req = call[x].req
        /\ [call[x] EXCEPT !.pc = pc].tuner = call[x].tuner
    BY <1>1 DEF Calls, Idle, at, AnyRequest, Requests
  <1>4. pc # "idle"
    OBVIOUS
  <1> QED BY <1>1, <1>2, <1>3, <1>4 DEF goesOn, Idle

\* A step that sets the tuner of the call.
LEMMA AtGoesOn ==
    ASSUME TypeOK, NEW x \in Threads, NEW pc, NEW t \in Tuners, At(x, pc, t),
           at(x, {"existing", "find", "unlisten"}), pc \in {"append", "clear", "notcontrol"}
    PROVE  goesOn(x, pc) /\ call'[x].tuner = t
  <1>1. call \in [Threads -> Calls] /\ call[x] \in Calls
    BY DEF TypeOK
  <1>2. call' = [call EXCEPT ![x] = [call[x] EXCEPT !.pc = pc, !.tuner = t]]
    BY DEF At
  <1> DEFINE c == [call[x] EXCEPT !.pc = pc, !.tuner = t]
  <1>7. call[x] \in [pc : {"listen", "existing", "find", "unlisten"}, req : AnyRequest,
                     tuner : {None}]
    BY <1>1 DEF Calls, Idle, at, AnyRequest, Requests
  <1>9. c.pc = pc /\ c.req = call[x].req /\ c.tuner = t /\ call[x].req \in AnyRequest
    BY <1>7
  <1>3. c \in Calls
    <2>1. c \in [pc : {"append", "csv", "clear", "release", "wipe", "notcontrol", "unlist",
                        "usage"}, req : AnyRequest, tuner : Tuners]
      BY <1>7
    <2> QED BY <2>1 DEF Calls
  <1>4. c # Idle
    BY <1>9 DEF Idle
  <1> HIDE DEF c
  <1>5. call'[x] = c
    BY <1>1, <1>2 DEF c
  <1>6. call' \in [Threads -> Calls] /\ \A y \in Threads \ {x} : call'[y] = call[y]
    BY <1>1, <1>2, <1>3 DEF c
  <1> QED BY <1>9, <1>4, <1>5, <1>6 DEF goesOn

\* A step that gives the call other fields.
LEMMA PutGoesOn ==
    ASSUME TypeOK, NEW x \in Threads, NEW c \in Calls \ {Idle},
           call' = [call EXCEPT ![x] = c], c.req = call[x].req
    PROVE  goesOn(x, c.pc) /\ call'[x] = c
  <1>1. call \in [Threads -> Calls]
    BY DEF TypeOK
  <1> QED BY <1>1 DEF goesOn

\* The call of x begins with r, at pc; there is no other call of its ID.
begins(x, r, pc) ==
    /\ MayCall(x, r.id)
    /\ call' = [call EXCEPT ![x] = [pc |-> pc, req |-> r, tuner |-> None]]
    /\ \/ r \in TunerRequests /\ pc = "check"
       \/ r \in ListenerRequests /\ pc = "listen"
       \/ r \in Releases /\ pc \in {"find", "unlisten"}

\* What the calls are after one has begun.
LEMMA BeginGoesOn ==
    ASSUME TypeOK, NEW x \in Threads, NEW r, NEW pc, begins(x, r, pc)
    PROVE  /\ call[x] = Idle
           /\ call' \in [Threads -> Calls]
           /\ \A y \in Threads \ {x} : call'[y] = call[y]
           /\ call'[x] = [pc |-> pc, req |-> r, tuner |-> None] /\ call'[x] # Idle
           /\ r.id \in Ids
  <1>1. call \in [Threads -> Calls] /\ call[x] = Idle
    BY DEF TypeOK, begins, MayCall
  <1>2. [pc |-> pc, req |-> r, tuner |-> None] \in Calls
    BY DEF begins, Calls, AnyRequest, Requests
  <1>3. pc # "idle"
    BY DEF begins
  <1>4. r.id \in Ids
    BY DEF begins, TunerRequests, ListenerRequests, Releases
  <1> QED BY <1>1, <1>2, <1>3, <1>4 DEF begins, Idle

\* The list of a tuner is one of IDs.
LEMMA CsvTypes ==
    ASSUME TypeOK, NEW t \in Tuners
    PROVE  /\ createAllocationIdCsv(t, control, mapping) \in Csvs
           /\ csv[t] \in Csvs /\ NoCsv \in Csvs
           /\ \A i \in Ids : WithoutId(csv[t], i) \subseteq Csvs
  <1>1. control[t] \in Ids \cup {None} /\ csv[t] \in Csvs
    BY DEF TypeOK
  <1>2. NoCsv \in Csvs
    BY DEF NoCsv, Csvs
  <1>3. createAllocationIdCsv(t, control, mapping) \in Csvs
    BY <1>1 DEF createAllocationIdCsv, Csvs
  <1>4. ASSUME NEW i \in Ids PROVE WithoutId(csv[t], i) \subseteq Csvs
    <2>1. [csv[t] EXCEPT !.rest = csv[t].rest \ {i}] \in Csvs
      BY <1>1 DEF Csvs
    <2>2. \A j \in csv[t].rest : [first |-> j, rest |-> csv[t].rest \ {j}] \in Csvs
      BY <1>1 DEF Csvs
    <2> QED BY <1>2, <2>1, <2>2 DEF WithoutId
  <1> QED BY <1>1, <1>2, <1>3, <1>4

\* The ways of a call.
Flow == {<<"check", "allocate">>, <<"allocate", "undo">>, <<"undo", "find">>,
         <<"listen", "existing">>, <<"existing", "append">>, <<"append", "csv">>,
         <<"csv", "assign">>, <<"find", "clear">>, <<"clear", "release">>, <<"release", "wipe">>,
         <<"unlisten", "notcontrol">>, <<"notcontrol", "unlist">>, <<"unlist", "relist">>,
         <<"usage", "setusage">>}

\* A step of a call ends it, releasing the lock it may hold, or takes it on.
advances(x) ==
    /\ call[x] # Idle
    /\ \/ ends(x) /\ capacityLock' = IF capacityLock = x THEN None ELSE capacityLock
       \/ /\ ends(x) /\ UNCHANGED capacityLock
          /\ at(x, {"check", "allocate", "undo", "listen", "existing", "assign", "setusage"})
       \/ goesOn(x, "usage") /\ capacityLock = x /\ capacityLock' = None
       \/ \E pc : goesOn(x, pc) /\ UNCHANGED capacityLock /\ <<call[x].pc, pc>> \in Flow

\* Every step takes its call on by its way, or ends it.
LEMMA StepsAdvance ==
    ASSUME TypeOK, NEW x \in Threads, Step(x)
    PROVE  advances(x)
  <1>i. Idle.pc = "idle"
    BY DEF Idle
  <1>r. ASSUME Return(x), UNCHANGED capacityLock,
               at(x, {"check", "allocate", "undo", "listen", "existing", "assign", "setusage"})
        PROVE  advances(x)
    BY <1>i, <1>r, ReturnEnds DEF advances, at
  <1>g. ASSUME NEW pc, Goto(x, pc), UNCHANGED capacityLock,
               <<call[x].pc, pc>> \in {<<"check", "allocate">>, <<"allocate", "undo">>,
                   <<"undo", "find">>, <<"listen", "existing">>, <<"append", "csv">>,
                   <<"clear", "release">>, <<"release", "wipe">>, <<"notcontrol", "unlist">>}
        PROVE  advances(x)
    <2>1. goesOn(x, pc)
      BY <1>g, GotoGoesOn DEF at
    <2> QED BY <1>g, <1>i, <2>1 DEF advances, Flow
  <1>a. ASSUME NEW pc, NEW t \in Tuners, At(x, pc, t), UNCHANGED capacityLock,
               <<call[x].pc, pc>> \in {<<"existing", "append">>, <<"find", "clear">>,
                   <<"unlisten", "notcontrol">>}
        PROVE  advances(x)
    <2>1. goesOn(x, pc)
      BY <1>a, AtGoesOn DEF at
    <2> QED BY <1>a, <1>i, <2>1 DEF advances, Flow
  <1>p. ASSUME NEW c \in Calls \ {Idle}, call' = [call EXCEPT ![x] = c], c.req = call[x].req,
               UNCHANGED capacityLock, <<call[x].pc, c.pc>> \in {<<"csv", "assign">>,
                   <<"unlist", "relist">>, <<"usage", "setusage">>}
        PROVE  advances(x)
    <2>1. goesOn(x, c.pc)
      BY <1>p, PutGoesOn
    <2> QED BY <1>p, <1>i, <2>1 DEF advances, Flow
  <1>l. /\ Leave(x, TRUE) /\ call[x].pc # "idle" => advances(x)
        /\ Leave(x, FALSE) /\ at(x, {"clear", "wipe", "relist"}) => advances(x)
    <2>1. CASE capacityLock = x
      <3>1. /\ Leave(x, TRUE) => Return(x) /\ capacityLock' = None
            /\ Leave(x, FALSE) => Goto(x, "usage") /\ capacityLock' = None
        BY <2>1 DEF Leave
      <3>2. at(x, {"clear", "wipe", "relist"}) /\ Goto(x, "usage") => goesOn(x, "usage")
        BY GotoGoesOn DEF at
      <3> QED BY <1>i, <2>1, <3>1, <3>2, ReturnEnds DEF advances, at
    <2>2. CASE capacityLock # x
      <3>1. /\ Leave(x, TRUE) => Return(x) /\ UNCHANGED capacityLock
            /\ Leave(x, FALSE) => Return(x) /\ UNCHANGED capacityLock
        BY <2>2 DEF Leave
      <3> QED BY <1>i, <2>2, <3>1, ReturnEnds DEF advances, at
    <2> QED BY <2>1, <2>2
  <1>1. ASSUME allocate_check(x) PROVE advances(x)
    <2>1. /\ call[x].pc = "check" /\ UNCHANGED capacityLock
          /\ Return(x) \/ Goto(x, "allocate")
      BY <1>1 DEF allocate_check, InCall
    <2> QED BY <1>g, <1>r, <2>1 DEF at
  <1>2. ASSUME allocate_control(x) PROVE advances(x)
    <2>1. /\ call[x].pc = "allocate" /\ UNCHANGED capacityLock
          /\ Return(x) \/ Goto(x, "undo")
      BY <1>2 DEF allocate_control, InCall
    <2> QED BY <1>g, <1>r, <2>1 DEF at
  <1>3. ASSUME allocate_listener(x) PROVE advances(x)
    <2>1. /\ call[x].pc = "allocate" /\ UNCHANGED capacityLock
          /\ Return(x) \/ Goto(x, "undo")
      BY <1>3 DEF allocate_listener, InCall
    <2> QED BY <1>g, <1>r, <2>1 DEF at
  <1>4. ASSUME allocate_undo(x) PROVE advances(x)
    <2>1. /\ call[x].pc = "undo" /\ UNCHANGED capacityLock
          /\ Return(x) \/ Goto(x, "find")
      BY <1>4 DEF allocate_undo, InCall
    <2> QED BY <1>g, <1>r, <2>1 DEF at
  <1>5. ASSUME listener_check(x) PROVE advances(x)
    <2>1. /\ call[x].pc = "listen" /\ UNCHANGED capacityLock
          /\ Return(x) \/ Goto(x, "existing")
      BY <1>5 DEF listener_check, InCall
    <2> QED BY <1>g, <1>r, <2>1 DEF at
  <1>6. ASSUME listener_tuner(x) PROVE advances(x)
    <2>1. call[x].req.existing \in Ids
      BY <1>6, CallFields DEF listener_tuner, InCall, at, ListenerRequests
    <2>2. mapping[call[x].req.existing] \in Tuners \cup {None}
      BY <2>1 DEF TypeOK
    <2>3. /\ call[x].pc = "existing" /\ UNCHANGED capacityLock
          /\ Return(x) \/ \E t \in Tuners : At(x, "append", t)
      BY <1>6, <2>2 DEF listener_tuner, InCall
    <2> QED BY <1>a, <1>r, <2>3 DEF at
  <1>7. ASSUME listener_append(x) PROVE advances(x)
    BY <1>7, <1>g DEF listener_append, InCall
  <1>8. ASSUME listener_csv(x) PROVE advances(x)
    <2>1. call[x].pc = "csv" /\ call[x].req \in AnyRequest /\ call[x].tuner \in Tuners
      BY <1>8, <1>i, CallFields DEF listener_csv, InCall, at
    <2>2. createAllocationIdCsv(call[x].tuner, control, mapping) \in Csvs
      <3>1. control[call[x].tuner] \in Ids \cup {None}
        BY <2>1 DEF TypeOK
      <3> QED BY <3>1 DEF createAllocationIdCsv, Csvs
    <2> DEFINE c == [pc |-> "assign", req |-> call[x].req, tuner |-> call[x].tuner,
                     csv |-> createAllocationIdCsv(call[x].tuner, control, mapping)]
    <2>3. c \in Calls \ {Idle} /\ c.req = call[x].req /\ c.pc = "assign"
      BY <2>1, <2>2 DEF Calls, Idle
    <2>4. call' = [call EXCEPT ![x] = c] /\ UNCHANGED capacityLock
      BY <1>8 DEF listener_csv
    <2> HIDE DEF c
    <2> QED BY <1>p, <2>1, <2>3, <2>4
  <1>9. ASSUME listener_assign(x) PROVE advances(x)
    BY <1>9, <1>r DEF listener_assign, InCall, at
  <1>10. ASSUME free_find(x) PROVE advances(x)
    <2>1. mapping[id(x)] \in Tuners \cup {None}
      BY <1>10, <1>i, CallFields DEF free_find, InCall, TypeOK
    <2>2. /\ call[x].pc = "find"
          /\ \/ Leave(x, TRUE)
             \/ UNCHANGED capacityLock /\ \E t \in Tuners : At(x, "clear", t)
      BY <1>10, <2>1 DEF free_find, InCall, id
    <2> QED BY <1>a, <1>l, <2>2 DEF at
  <1>11. ASSUME free_clear(x) PROVE advances(x)
    <2>1. /\ call[x].pc = "clear"
          /\ \/ Leave(x, TRUE) \/ Leave(x, FALSE)
             \/ UNCHANGED capacityLock /\ Goto(x, "release")
      BY <1>11 DEF free_clear, InCall
    <2> QED BY <1>g, <1>l, <2>1 DEF at
  <1>12. ASSUME free_release(x) PROVE advances(x)
    <2>1. /\ call[x].pc = "release"
          /\ Leave(x, TRUE) \/ (UNCHANGED capacityLock /\ Goto(x, "wipe"))
      BY <1>12 DEF free_release, InCall
    <2> QED BY <1>g, <1>l, <2>1 DEF at
  <1>13. ASSUME free_wipe(x) PROVE advances(x)
    BY <1>13, <1>l DEF free_wipe, InCall, at
  <1>14. ASSUME unlisten_find(x) PROVE advances(x)
    <2>1. mapping[id(x)] \in Tuners \cup {None}
      BY <1>14, <1>i, CallFields DEF unlisten_find, InCall, TypeOK
    <2>2. /\ call[x].pc = "unlisten"
          /\ \/ Leave(x, TRUE)
             \/ UNCHANGED capacityLock /\ \E t \in Tuners : At(x, "notcontrol", t)
      BY <1>14, <2>1 DEF unlisten_find, InCall, id
    <2> QED BY <1>a, <1>l, <2>2 DEF at
  <1>15. ASSUME unlisten_map(x) PROVE advances(x)
    <2>1. /\ call[x].pc = "notcontrol"
          /\ Leave(x, TRUE) \/ (UNCHANGED capacityLock /\ Goto(x, "unlist"))
      BY <1>15 DEF unlisten_map, InCall
    <2> QED BY <1>g, <1>l, <2>1 DEF at
  <1>16. ASSUME unlisten_read(x) PROVE advances(x)
    <2>1. call[x].pc = "unlist" /\ call[x].req \in AnyRequest /\ call[x].tuner \in Tuners
          /\ id(x) \in Ids
      BY <1>16, <1>i, CallFields DEF unlisten_read, InCall, at
    <2>2. PICK c \in WithoutId(csv[call[x].tuner], id(x)) :
            call' = [call EXCEPT ![x] = [pc |-> "relist", req |-> call[x].req,
                                         tuner |-> call[x].tuner, csv |-> c]]
      BY <1>16 DEF unlisten_read, id
    <2>3. c \in Csvs
      BY <2>1, <2>2, CsvTypes
    <2> DEFINE d == [pc |-> "relist", req |-> call[x].req, tuner |-> call[x].tuner, csv |-> c]
    <2>4. d \in Calls \ {Idle} /\ d.req = call[x].req /\ d.pc = "relist"
      BY <2>1, <2>3 DEF Calls, Idle
    <2>5. call' = [call EXCEPT ![x] = d] /\ UNCHANGED capacityLock
      BY <1>16, <2>2 DEF unlisten_read
    <2> HIDE DEF d
    <2> QED BY <1>p, <2>1, <2>4, <2>5
  <1>17. ASSUME unlisten_write(x) PROVE advances(x)
    BY <1>17, <1>l DEF unlisten_write, InCall, at
  <1>18. ASSUME deallocate_usage(x) PROVE advances(x)
    <2>1. call[x].pc = "usage" /\ call[x].req \in AnyRequest
      BY <1>18, <1>i, CallFields DEF deallocate_usage, InCall
    <2> DEFINE d == [pc |-> "setusage", req |-> call[x].req, usage |-> Usage(control)]
    <2>2. Usage(control) \in Usages
      BY DEF Usage, Usages
    <2>3. d \in Calls \ {Idle} /\ d.req = call[x].req /\ d.pc = "setusage"
      BY <2>1, <2>2 DEF Calls, Idle
    <2>4. call' = [call EXCEPT ![x] = d] /\ UNCHANGED capacityLock
      BY <1>18 DEF deallocate_usage
    <2> HIDE DEF d
    <2> QED BY <1>p, <2>1, <2>3, <2>4
  <1>19. ASSUME deallocate_setusage(x) PROVE advances(x)
    BY <1>19, <1>r DEF deallocate_setusage, InCall, at
  <1> QED BY <1>1, <1>2, <1>3, <1>4, <1>5, <1>6, <1>7, <1>8, <1>9, <1>10, <1>11, <1>12, <1>13,
             <1>14, <1>15, <1>16, <1>17, <1>18, <1>19 DEF Step

----------------------------------------------------------------------------
(* Types.                                                                  *)

\* An ID joins a tuner.
LEMMA AddIdTypes ==
    ASSUME TypeOK, NEW i \in Ids, NEW t \in Tuners, NEW ctl \in [Tuners -> Ids \cup {None}],
           AddId(i, t, ctl)
    PROVE  /\ mapping' \in [Ids -> Tuners \cup {None}]
           /\ csv' \in [Tuners -> Csvs]
  <1>1. mapping' = [mapping EXCEPT ![i] = t] /\ mapping \in [Ids -> Tuners \cup {None}]
        /\ csv \in [Tuners -> Csvs]
        /\ csv' = [csv EXCEPT ![t] = createAllocationIdCsv(t, ctl, mapping')]
    BY DEF AddId, TypeOK
  <1>2. createAllocationIdCsv(t, ctl, mapping') \in Csvs
    BY DEF createAllocationIdCsv, Csvs
  <1> QED BY <1>1, <1>2

\* An ID that is taken out leaves mapping and tuned of their types.
LEMMA RemoveMappingTypes ==
    ASSUME TypeOK, NEW i \in Ids, RemoveMapping(i)
    PROVE  mapping' \in [Ids -> Tuners \cup {None}] /\ tuned' \subseteq Tuners
  <1>1. mapping' = [mapping EXCEPT ![i] = None] /\ tuned' \subseteq tuned
    BY DEF RemoveMapping
  <1> QED BY <1>1 DEF TypeOK

\* Everything a step of a call leaves is of its type.
LEMMA StepTypes ==
    ASSUME TypeOK, NEW x \in Threads, Step(x)
    PROVE  TypeOK'
  <1>c. call' \in [Threads -> Calls]
    BY StepsAdvance DEF advances, ends, goesOn
  <1>t. /\ tuner_type \in TypeMaps /\ made \in [Ids -> Nat] /\ serial \in BOOLEAN
        /\ csv \in [Tuners -> Csvs] /\ control \in [Tuners -> Ids \cup {None}]
        /\ mapping \in [Ids -> Tuners \cup {None}] /\ usageState \in Usages
        /\ capacityLock \in Threads \cup {None} /\ tuned \subseteq Tuners /\ enabled \subseteq Tuners
    BY DEF TypeOK
  <1>f. call[x] # Idle /\ id(x) \in Ids
    BY StepsAdvance, CallFields DEF advances
  <1>u. \A ctl : Usage(ctl) \in Usages
    BY DEF Usage, Usages
  <1>l. \A raised \in BOOLEAN : Leave(x, raised) => capacityLock' \in Threads \cup {None}
    BY <1>t DEF Leave
  <1> USE DEF fixed, device, tables
  <1>1. CASE UNCHANGED <<tables, device, usageState, capacityLock, made, fixed>>
    BY <1>c, <1>t, <1>1 DEF TypeOK
  <1>2. CASE allocate_control(x)
    <2>1. Candidates(call[x].req) \subseteq Tuners
      BY DEF Candidates, Matching
    <2>2. CASE UNCHANGED <<tables, device, usageState>>
      BY <1>1, <1>2, <2>2 DEF allocate_control
    <2>3. ASSUME NEW t \in Tuners, NEW met \in BOOLEAN,
                 control' = [control EXCEPT ![t] = id(x)], AddId(id(x), t, control'),
                 tuned' = tuned \cup {t},
                 enabled' = IF met THEN enabled \cup {t} ELSE enabled,
                 usageState' = IF met THEN Usage(control') ELSE usageState
          PROVE  TypeOK'
      <3>1. control' \in [Tuners -> Ids \cup {None}]
        BY <1>t, <1>f, <2>3
      <3>2. mapping' \in [Ids -> Tuners \cup {None}] /\ csv' \in [Tuners -> Csvs]
        BY <1>f, <2>3, <3>1, AddIdTypes
      <3>3. tuned' \subseteq Tuners /\ enabled' \subseteq Tuners /\ usageState' \in Usages
        BY <1>t, <1>u, <2>3
      <3>4. UNCHANGED <<capacityLock, made, fixed>>
        BY <1>2 DEF allocate_control
      <3> QED BY <1>c, <1>t, <3>1, <3>2, <3>3, <3>4 DEF TypeOK
    <2> QED BY <1>2, <2>1, <2>2, <2>3 DEF allocate_control, id
  <1>3. CASE allocate_listener(x)
    <2>1. Candidates(call[x].req) \subseteq Tuners
      BY DEF Candidates, Matching
    <2>2. UNCHANGED <<control, device, capacityLock, made, fixed>>
      BY <1>3 DEF allocate_listener
    <2>3. CASE UNCHANGED <<csv, mapping, usageState>>
      BY <1>1, <2>2, <2>3
    <2>4. ASSUME NEW t \in Tuners, AddId(id(x), t, control), usageState' = Usage(control)
          PROVE  TypeOK'
      <3>1. mapping' \in [Ids -> Tuners \cup {None}] /\ csv' \in [Tuners -> Csvs]
        BY <1>f, <1>t, <2>4, AddIdTypes
      <3> QED BY <1>c, <1>t, <1>u, <2>2, <2>4, <3>1 DEF TypeOK
    <2> QED BY <1>3, <2>1, <2>3, <2>4 DEF allocate_listener, id
  <1>4. CASE listener_append(x)
    <2>1. call[x].tuner \in Tuners /\ mapping' = [mapping EXCEPT ![id(x)] = call[x].tuner]
      BY <1>4, CallFields DEF listener_append, InCall, at, id
    <2>2. UNCHANGED <<csv, control, device, usageState, capacityLock, made, fixed>>
      BY <1>4 DEF listener_append
    <2> QED BY <1>c, <1>f, <1>t, <2>1, <2>2 DEF TypeOK
  <1>5. CASE listener_assign(x)
    <2>1. call[x].tuner \in Tuners /\ call[x].csv \in Csvs
          /\ csv' = [csv EXCEPT ![call[x].tuner] = call[x].csv]
      BY <1>5, CallFields DEF listener_assign, InCall, at
    <2>2. UNCHANGED <<control, mapping, device, usageState, capacityLock, made, fixed>>
      BY <1>5 DEF listener_assign
    <2> QED BY <1>c, <1>t, <2>1, <2>2 DEF TypeOK
  <1>6. CASE free_find(x)
    <2>1. capacityLock' \in Threads \cup {None}
      BY <1>6, <1>l, <1>t DEF free_find
    <2> QED BY <1>6, <1>c, <1>t, <2>1 DEF TypeOK, free_find
  <1>7. CASE free_clear(x)
    <2> DEFINE u == mapping[id(x)]
               t == call[x].tuner
    <2>1. UNCHANGED <<enabled, usageState, made, fixed>>
      BY <1>7 DEF free_clear
    <2>2. capacityLock' \in Threads \cup {None}
      BY <1>7, <1>l, <1>t DEF free_clear
    <2>3. t \in Tuners
      BY <1>7, CallFields DEF free_clear, InCall, at
    <2>4. CASE UNCHANGED <<tables, tuned>>
      BY <1>c, <1>t, <2>1, <2>2, <2>4 DEF TypeOK
    <2>5. ASSUME NEW done,
                 mapping' = [j \in Ids |-> IF j \in done THEN None ELSE mapping[j]],
                 csv' = [csv EXCEPT ![t].rest = csv[t].rest \ done],
                 tuned' \subseteq tuned, UNCHANGED control
          PROVE  TypeOK'
      <3>1. mapping' \in [Ids -> Tuners \cup {None}]
        BY <1>t, <2>5
      <3>2. csv' \in [Tuners -> Csvs]
        <4>1. [csv[t] EXCEPT !.rest = csv[t].rest \ done] \in Csvs
          BY <2>3, CsvTypes DEF Csvs
        <4>2. csv' = [csv EXCEPT ![t] = [csv[t] EXCEPT !.rest = csv[t].rest \ done]]
          BY <2>5
        <4> QED BY <1>t, <4>1, <4>2
      <3> QED BY <1>c, <1>t, <2>1, <2>2, <2>5, <3>1, <3>2 DEF TypeOK
    <2>6. ASSUME RemoveMapping(id(x)), UNCHANGED control,
                 csv' = [csv EXCEPT ![t].rest = csv[t].rest \ {id(x)}]
          PROVE  TypeOK'
      <3>1. csv' \in [Tuners -> Csvs]
        <4>1. [csv[t] EXCEPT !.rest = csv[t].rest \ {id(x)}] \in Csvs
          BY <2>3, CsvTypes DEF Csvs
        <4>2. csv' = [csv EXCEPT ![t] = [csv[t] EXCEPT !.rest = csv[t].rest \ {id(x)}]]
          BY <2>6
        <4> QED BY <1>t, <4>1, <4>2
      <3> QED BY <1>c, <1>f, <1>t, <2>1, <2>2, <2>6, <3>1, RemoveMappingTypes DEF TypeOK
    <2>7. CASE u = None
      BY <1>7, <2>4, <2>7 DEF free_clear, id
    <2>8. CASE u # None /\ csv[u].first = id(x)
      <3>1. /\ UNCHANGED control
            /\ \E done :
                 /\ mapping' = [j \in Ids |-> IF j \in done THEN None ELSE mapping[j]]
                 /\ csv' = [csv EXCEPT ![t].rest = csv[t].rest \ done]
                 /\ tuned' \subseteq tuned
        BY <1>7, <2>8 DEF free_clear, id
      <3> QED BY <2>5, <3>1
    <2>9. CASE u # None /\ csv[u].first # id(x) /\ id(x) \in csv[u].rest
      <3>1. /\ RemoveMapping(id(x)) /\ UNCHANGED control
            /\ csv' = [csv EXCEPT ![t].rest = csv[t].rest \ {id(x)}]
        BY <1>7, <2>9 DEF free_clear, id
      <3> QED BY <2>6, <3>1
    <2>10. CASE u # None /\ csv[u].first # id(x) /\ id(x) \notin csv[u].rest
      BY <1>7, <2>4, <2>10 DEF free_clear, id
    <2> QED BY <2>7, <2>8, <2>9, <2>10
  <1>8. CASE free_release(x)
    <2> DEFINE t == call[x].tuner
    <2>1. UNCHANGED <<usageState, made, fixed>> /\ enabled' \subseteq enabled
      BY <1>8 DEF free_release
    <2>2. capacityLock' \in Threads \cup {None}
      BY <1>8, <1>l, <1>t DEF free_release
    <2>3. t \in Tuners
      BY <1>8, CallFields DEF free_release, InCall, at
    <2>4. CASE UNCHANGED <<tables, tuned>>
      BY <1>c, <1>t, <2>1, <2>2, <2>4 DEF TypeOK
    <2>5. ASSUME RemoveMapping(id(x)), csv' = [csv EXCEPT ![t] = NoCsv],
                 control' = [control EXCEPT ![t] = None] \/ control' = control
          PROVE  TypeOK'
      <3>1. csv' \in [Tuners -> Csvs]
        BY <1>t, <2>3, <2>5, CsvTypes
      <3>2. control' \in [Tuners -> Ids \cup {None}]
        BY <1>t, <2>5
      <3> QED BY <1>c, <1>f, <1>t, <2>1, <2>2, <2>5, <3>1, <3>2, RemoveMappingTypes DEF TypeOK
    <2> QED BY <1>8, <2>4, <2>5 DEF free_release, id
  <1>9. CASE free_wipe(x)
    <2>1. call[x].tuner \in Tuners /\ csv' = [csv EXCEPT ![call[x].tuner] = NoCsv]
      BY <1>9, CallFields DEF free_wipe, InCall, at
    <2>2. csv' \in [Tuners -> Csvs]
      BY <1>t, <2>1, CsvTypes
    <2>3. capacityLock' \in Threads \cup {None}
      BY <1>9, <1>l DEF free_wipe
    <2>4. UNCHANGED <<control, mapping, device, usageState, made, fixed>>
      BY <1>9 DEF free_wipe
    <2> QED BY <1>c, <1>t, <2>2, <2>3, <2>4 DEF TypeOK
  <1>10. CASE unlisten_find(x)
    <2>1. capacityLock' \in Threads \cup {None}
      BY <1>10, <1>l, <1>t DEF unlisten_find
    <2> QED BY <1>10, <1>c, <1>t, <2>1 DEF TypeOK, unlisten_find
  <1>11. CASE unlisten_map(x)
    <2>1. UNCHANGED <<csv, control, enabled, usageState, made, fixed>>
      BY <1>11 DEF unlisten_map
    <2>2. capacityLock' \in Threads \cup {None}
      BY <1>11, <1>l, <1>t DEF unlisten_map
    <2>3. UNCHANGED <<mapping, tuned>> \/ RemoveMapping(id(x))
      BY <1>11 DEF unlisten_map, id
    <2>4. mapping' \in [Ids -> Tuners \cup {None}] /\ tuned' \subseteq Tuners
      BY <1>f, <1>t, <2>3, RemoveMappingTypes
    <2> QED BY <1>c, <1>t, <2>1, <2>2, <2>4 DEF TypeOK
  <1>12. CASE unlisten_write(x)
    <2>1. call[x].tuner \in Tuners /\ call[x].csv \in Csvs
          /\ csv' = [csv EXCEPT ![call[x].tuner] = call[x].csv]
      BY <1>12, CallFields DEF unlisten_write, InCall, at
    <2>2. capacityLock' \in Threads \cup {None}
      BY <1>12, <1>l DEF unlisten_write
    <2>3. UNCHANGED <<control, mapping, device, usageState, made, fixed>>
      BY <1>12 DEF unlisten_write
    <2> QED BY <1>c, <1>t, <2>1, <2>2, <2>3 DEF TypeOK
  <1>13. CASE deallocate_setusage(x)
    <2>1. usageState' \in Usages
      BY <1>13, CallFields DEF deallocate_setusage, InCall, at
    <2> QED BY <1>13, <1>c, <1>t, <2>1 DEF TypeOK, deallocate_setusage
  <1>14. CASE \/ allocate_check(x) \/ allocate_undo(x) \/ listener_check(x) \/ listener_tuner(x)
              \/ listener_csv(x) \/ unlisten_read(x) \/ deallocate_usage(x)
    <2>1. UNCHANGED <<tables, device, usageState, capacityLock, made, fixed>>
      BY <1>14 DEF allocate_check, allocate_undo, listener_check, listener_tuner, listener_csv,
             unlisten_read, deallocate_usage
    <2> QED BY <1>1, <2>1
  <1> QED BY <1>2, <1>3, <1>4, <1>5, <1>6, <1>7, <1>8, <1>9, <1>10, <1>11, <1>12, <1>13,
             <1>14 DEF Step

\* No step changes the type of a member or of a call.
LEMMA TypesKept ==
    ASSUME TypeOK, [Next]_vars
    PROVE  TypeOK'
  <1> USE DEF fixed, device, tables
  <1>1. CASE UNCHANGED vars
    BY <1>1 DEF TypeOK, vars
  <1>2. ASSUME NEW x \in Threads, NEW r \in Requests, allocateCapacity(x, r) PROVE TypeOK'
    <2>1. ASSUME r \in TunerRequests PROVE call' \in [Threads -> Calls]
      <3>1. r.op = "tuner"
        BY <2>1 DEF TunerRequests
      <3>2. call' = call \/ begins(x, r, "check")
        BY <1>2, <2>1, <3>1 DEF allocateCapacity, begins
      <3> QED BY <3>2, BeginGoesOn DEF TypeOK
    <2>2. ASSUME r \in ListenerRequests PROVE call' \in [Threads -> Calls]
      <3>1. r.op = "listener"
        BY <2>2 DEF ListenerRequests
      <3>2. begins(x, r, "listen")
        BY <1>2, <2>2, <3>1 DEF allocateCapacity, begins
      <3> QED BY <3>2, BeginGoesOn
    <2>4. call' \in [Threads -> Calls]
      BY <2>1, <2>2 DEF Requests
    <2>3. made' \in [Ids -> Nat]
      <3>1. made \in [Ids -> Nat] /\ made' = [made EXCEPT ![r.id] = made[r.id] + 1]
        BY <1>2 DEF allocateCapacity, TypeOK
      <3>2. r.id \in Ids
        BY DEF Requests, TunerRequests, ListenerRequests
      <3>3. made[r.id] + 1 \in Nat
        BY <3>1, <3>2
      <3> QED BY <3>1, <3>3
    <2> QED BY <1>2, <2>3, <2>4 DEF allocateCapacity, TypeOK
  <1>3. ASSUME NEW x \in Threads, NEW r \in Releases, deallocateCapacity(x, r) PROVE TypeOK'
    <2>1. begins(x, r, IF r.op = "free" THEN "find" ELSE "unlisten")
      BY <1>3 DEF deallocateCapacity, begins, Releases
    <2>2. call' \in [Threads -> Calls]
      BY <2>1, BeginGoesOn DEF TypeOK
    <2> QED BY <1>3, <2>2 DEF deallocateCapacity, TypeOK
  <1>4. ASSUME NEW x \in Threads, Step(x) PROVE TypeOK'
    BY <1>4, StepTypes
  <1> QED BY <1>1, <1>2, <1>3, <1>4 DEF Next

----------------------------------------------------------------------------
(* Calls do not meet.                                                      *)

\* The step of a call that is at pc.
LEMMA StepAt ==
    ASSUME NEW x \in Threads, Step(x)
    PROVE  /\ call[x].pc = "check" => allocate_check(x)
           /\ call[x].pc = "allocate" => allocate_control(x) \/ allocate_listener(x)
           /\ call[x].pc = "undo" => allocate_undo(x)
           /\ call[x].pc = "listen" => listener_check(x)
           /\ call[x].pc = "existing" => listener_tuner(x)
           /\ call[x].pc = "append" => listener_append(x)
           /\ call[x].pc = "csv" => listener_csv(x)
           /\ call[x].pc = "assign" => listener_assign(x)
           /\ call[x].pc = "find" => free_find(x)
           /\ call[x].pc = "clear" => free_clear(x)
           /\ call[x].pc = "release" => free_release(x)
           /\ call[x].pc = "wipe" => free_wipe(x)
           /\ call[x].pc = "unlisten" => unlisten_find(x)
           /\ call[x].pc = "notcontrol" => unlisten_map(x)
           /\ call[x].pc = "unlist" => unlisten_read(x)
           /\ call[x].pc = "relist" => unlisten_write(x)
           /\ call[x].pc = "usage" => deallocate_usage(x)
           /\ call[x].pc = "setusage" => deallocate_setusage(x)
  BY DEF Step, allocate_check, allocate_control, allocate_listener, allocate_undo,
         listener_check, listener_tuner, listener_append, listener_csv, listener_assign,
         free_find, free_clear, free_release, free_wipe, unlisten_find, unlisten_map,
         unlisten_read, unlisten_write, deallocate_usage, deallocate_setusage, InCall

\* Whether calls overlap, and the types of the tuners, are fixed.
LEMMA SerialFixed ==
    ASSUME [Next]_vars
    PROVE  serial' = serial /\ tuner_type' = tuner_type
  <1>1. ASSUME NEW x \in Threads, Step(x) PROVE UNCHANGED fixed
    BY <1>1 DEF Step, allocate_check, allocate_control, allocate_listener, allocate_undo,
         listener_check, listener_tuner, listener_append, listener_csv, listener_assign,
         free_find, free_clear, free_release, free_wipe, unlisten_find, unlisten_map,
         unlisten_read, unlisten_write, deallocate_usage, deallocate_setusage
  <1>2. ASSUME NEW x \in Threads, NEW r, allocateCapacity(x, r) \/ deallocateCapacity(x, r)
        PROVE  UNCHANGED fixed
    BY <1>2 DEF allocateCapacity, deallocateCapacity
  <1> QED BY <1>1, <1>2 DEF Next, vars, fixed

\* A call that begins, changing nothing but the lock and the count of its ID.
starts(x) ==
    \E r, pc :
        /\ begins(x, r, pc)
        /\ UNCHANGED <<tables, device, usageState, fixed>>
        /\ \/ /\ pc \in {"check", "listen"} /\ UNCHANGED capacityLock
              /\ made[r.id] < (IF serial THEN MaxAllocations ELSE 1)
              /\ made' = [made EXCEPT ![r.id] = @ + 1]
           \/ /\ pc \in {"find", "unlisten"} /\ capacityLock = None /\ capacityLock' = x
              /\ UNCHANGED made

\* A request that is refused since the device is busy.
refused ==
    /\ UNCHANGED <<tables, device, usageState, capacityLock, call, fixed>>
    /\ \E i \in Ids : made' = [made EXCEPT ![i] = @ + 1] /\ (~serial => made[i] = 0)

\* What the next step may be.
LEMMA StepKinds ==
    ASSUME TypeOK, [Next]_vars
    PROVE  UNCHANGED vars \/ refused \/ \E x \in Threads : starts(x) \/ Step(x)
  <1>1. ASSUME NEW x \in Threads, NEW r \in TunerRequests, allocateCapacity(x, r)
        PROVE  refused \/ starts(x)
    <2>1. r.op = "tuner" /\ r.id \in Ids
      BY DEF TunerRequests
    <2>2. /\ made[r.id] < (IF serial THEN MaxAllocations ELSE 1)
          /\ made' = [made EXCEPT ![r.id] = @ + 1]
          /\ UNCHANGED <<tables, device, usageState, capacityLock, fixed>>
      BY <1>1 DEF allocateCapacity
    <2>3. ~serial => made[r.id] = 0
      <3>1. made[r.id] \in Nat
        BY <2>1 DEF TypeOK
      <3> QED BY <2>2, <3>1
    <2>4. call' = call \/ begins(x, r, "check")
      BY <1>1, <2>1 DEF allocateCapacity, begins
    <2>5. CASE call' = call
      BY <2>1, <2>2, <2>3, <2>5 DEF refused, tables, device, fixed
    <2>6. CASE begins(x, r, "check")
      BY <2>2, <2>6 DEF starts
    <2> QED BY <2>4, <2>5, <2>6
  <1>2. ASSUME NEW x \in Threads, NEW r \in ListenerRequests, allocateCapacity(x, r)
        PROVE  starts(x)
    <2>1. r.op = "listener"
      BY DEF ListenerRequests
    <2>2. /\ made[r.id] < (IF serial THEN MaxAllocations ELSE 1)
          /\ made' = [made EXCEPT ![r.id] = @ + 1]
          /\ UNCHANGED <<tables, device, usageState, capacityLock, fixed>>
      BY <1>2 DEF allocateCapacity
    <2>3. begins(x, r, "listen")
      BY <1>2, <2>1 DEF allocateCapacity, begins
    <2> QED BY <2>2, <2>3 DEF starts
  <1>3. ASSUME NEW x \in Threads, NEW r \in Releases, deallocateCapacity(x, r) PROVE starts(x)
    <2>1. begins(x, r, "find") \/ begins(x, r, "unlisten")
      BY <1>3 DEF deallocateCapacity, begins, Releases
    <2>2. /\ capacityLock = None /\ capacityLock' = x
          /\ UNCHANGED <<tables, device, usageState, made, fixed>>
      BY <1>3 DEF deallocateCapacity
    <2> QED BY <2>1, <2>2 DEF starts
  <1> QED BY <1>1, <1>2, <1>3 DEF Next, Requests

\* Calls stay of different IDs.
LEMMA ApartKept ==
    ASSUME TypeOK, CallsApart, [Next]_vars
    PROVE  CallsApart'
  <1>s. serial' = serial
    BY SerialFixed
  <1>i. \A y \in Threads : call'[y] = call[y] => id(y)' = id(y)
    BY DEF id
  <1>1. CASE call' = call
    BY <1>1, <1>s DEF CallsApart, id
  <1>2. ASSUME NEW x \in Threads, starts(x) PROVE CallsApart'
    <2>1. PICK r, pc : begins(x, r, pc)
      BY <1>2 DEF starts
    <2>2. /\ call[x] = Idle
          /\ \A y \in Threads \ {x} : call'[y] = call[y]
          /\ call'[x] = [pc |-> pc, req |-> r, tuner |-> None]
      BY <2>1, BeginGoesOn
    <2>3. id(x)' = r.id
      BY <2>2 DEF id
    <2>4. \A y \in Threads \ {x} : call[y] # Idle => id(y) # r.id /\ ~serial
      BY <2>1 DEF begins, MayCall, Quiet, id
    <2> QED BY <1>s, <1>i, <2>2, <2>3, <2>4 DEF CallsApart
  <1>3. ASSUME NEW x \in Threads, Step(x) PROVE CallsApart'
    <2>1. advances(x)
      BY <1>3, StepsAdvance
    <2>2. /\ \A y \in Threads \ {x} : call'[y] = call[y]
          /\ call[x] # Idle
          /\ call'[x] = Idle \/ id(x)' = id(x)
      BY <2>1 DEF advances, ends, goesOn, id
    <2> QED BY <1>s, <1>i, <2>2 DEF CallsApart
  <1> QED BY <1>1, <1>2, <1>3, StepKinds DEF refused, vars

\* The lock stays with the call that took it.
LEMMA LockKept ==
    ASSUME TypeOK, LockHeld, [Next]_vars
    PROVE  LockHeld'
  <1>n. None \notin Threads
    BY TunerConstants
  <1>1. CASE UNCHANGED <<call, capacityLock>>
    BY <1>1 DEF LockHeld, at
  <1>2. ASSUME NEW x \in Threads, starts(x) PROVE LockHeld'
    <2>1. PICK r, pc : /\ begins(x, r, pc)
                       /\ \/ pc \in {"check", "listen"} /\ UNCHANGED capacityLock
                          \/ /\ pc \in {"find", "unlisten"}
                             /\ capacityLock = None /\ capacityLock' = x
      BY <1>2 DEF starts
    <2>3. call'[x] = [pc |-> pc, req |-> r, tuner |-> None] /\ call[x] = Idle
          /\ \A y \in Threads \ {x} : call'[y] = call[y]
      BY <2>1, BeginGoesOn
    <2>2. /\ call[x].pc = "idle"
          /\ \A y \in Threads \ {x} : call'[y] = call[y]
          /\ call'[x].pc = pc
      BY <2>3 DEF Idle
    <2> QED BY <1>n, <2>1, <2>2 DEF LockHeld, at
  <1>3. ASSUME NEW x \in Threads, Step(x) PROVE LockHeld'
    <2>1. advances(x)
      BY <1>3, StepsAdvance
    <2>i. Idle.pc = "idle"
      BY DEF Idle
    <2>2. ASSUME NEW y \in Threads \ {x}
          PROVE  /\ at(y, {"unlisten", "notcontrol", "unlist", "relist"})' => capacityLock' = y
                 /\ capacityLock' = y => at(y, {"find", "clear", "release", "wipe", "unlisten",
                                                "notcontrol", "unlist", "relist"})'
      <3>1. call'[y] = call[y]
        BY <2>1 DEF advances, ends, goesOn
      <3>2. capacityLock' = capacityLock \/ (capacityLock = x /\ capacityLock' = None)
        BY <2>1 DEF advances
      <3> QED BY <1>n, <3>1, <3>2 DEF LockHeld, at
    <2>3. /\ at(x, {"unlisten", "notcontrol", "unlist", "relist"})' => capacityLock' = x
          /\ capacityLock' = x => at(x, {"find", "clear", "release", "wipe", "unlisten",
                                         "notcontrol", "unlist", "relist"})'
      <3>1. CASE ends(x)
        BY <1>n, <2>1, <2>i, <3>1 DEF advances, ends, goesOn, LockHeld, at
      <3>2. CASE goesOn(x, "usage") /\ capacityLock' = None
        BY <1>n, <3>2 DEF goesOn, at
      <3>3. ASSUME NEW pc, goesOn(x, pc), UNCHANGED capacityLock, <<call[x].pc, pc>> \in Flow
            PROVE  /\ at(x, {"unlisten", "notcontrol", "unlist", "relist"})' => capacityLock' = x
                   /\ capacityLock' = x => at(x, {"find", "clear", "release", "wipe", "unlisten",
                                                  "notcontrol", "unlist", "relist"})'
        BY <3>3 DEF goesOn, Flow, LockHeld, at
      <3> QED BY <2>1, <3>1, <3>2, <3>3 DEF advances
    <2> QED BY <2>2, <2>3 DEF LockHeld
  <1> QED BY <1>1, <1>2, <1>3, StepKinds DEF refused, vars

----------------------------------------------------------------------------
(* What the steps of calls do to the mapping and to the controllers.       *)

\* The call takes a tuner, as its controller.
takes(x, t) ==
    /\ at(x, {"allocate"}) /\ t \in Tuners /\ control[t] = None
    /\ control' = [control EXCEPT ![t] = id(x)]
    /\ mapping' = [mapping EXCEPT ![id(x)] = t]

\* It joins a tuner, as a listener.
joins(x, t) ==
    /\ t \in Tuners
    /\ \/ at(x, {"allocate"}) /\ control[t] # None
       \/ at(x, {"append"}) /\ t = call[x].tuner
    /\ UNCHANGED control
    /\ mapping' = [mapping EXCEPT ![id(x)] = t]

\* It takes IDs that its tuner lists after the first out of the mapping.
drops(x, L) ==
    /\ at(x, {"clear"}) /\ mapping[id(x)] # None /\ L \subseteq csv[mapping[id(x)]].rest
    /\ UNCHANGED control
    /\ mapping' = [i \in Ids |-> IF i \in L THEN None ELSE mapping[i]]

\* It takes its own ID out, which is no controller.
leaves(x) ==
    /\ at(x, {"notcontrol"}) /\ mapping[id(x)] # None /\ control[call[x].tuner] # id(x)
    /\ UNCHANGED control
    /\ mapping' = [mapping EXCEPT ![id(x)] = None]

\* It gives its tuner up.
releases(x) ==
    /\ at(x, {"release"}) /\ mapping[id(x)] # None
    /\ control' = IF control[call[x].tuner] = id(x)
                  THEN [control EXCEPT ![call[x].tuner] = None] ELSE control
    /\ mapping' = [mapping EXCEPT ![id(x)] = None]

\* A step does one of these to the two tables, or nothing.
LEMMA TableSteps ==
    ASSUME TypeOK, NEW x \in Threads, Step(x)
    PROVE  \/ UNCHANGED <<mapping, control>>
           \/ \E t : takes(x, t) \/ joins(x, t)
           \/ \E L : drops(x, L)
           \/ leaves(x) \/ releases(x)
  <1> DEFINE Kinds == \/ UNCHANGED <<mapping, control>>
                      \/ \E t : takes(x, t) \/ joins(x, t)
                      \/ \E L : drops(x, L)
                      \/ leaves(x) \/ releases(x)
  <1>t. mapping \in [Ids -> Tuners \cup {None}] /\ control \in [Tuners -> Ids \cup {None}]
    BY DEF TypeOK
  <1>f. id(x) \in Ids
    BY StepsAdvance, CallFields DEF advances
  <1>0. ASSUME \/ allocate_check(x) \/ allocate_undo(x) \/ listener_check(x) \/ listener_tuner(x)
               \/ listener_csv(x) \/ listener_assign(x) \/ free_find(x) \/ free_wipe(x)
               \/ unlisten_find(x) \/ unlisten_read(x) \/ unlisten_write(x)
               \/ deallocate_usage(x) \/ deallocate_setusage(x)
        PROVE  Kinds
    BY <1>0 DEF allocate_check, allocate_undo, listener_check, listener_tuner, listener_csv,
         listener_assign, free_find, free_wipe, unlisten_find, unlisten_read, unlisten_write,
         deallocate_usage, deallocate_setusage, tables
  <1>1. ASSUME allocate_control(x) PROVE Kinds
    <2>1. \/ UNCHANGED <<mapping, control>>
          \/ \E t \in Candidates(call[x].req) :
               control' = [control EXCEPT ![t] = id(x)] /\ AddId(id(x), t, control')
      BY <1>1 DEF allocate_control, tables, id
    <2>2. ASSUME NEW t \in Candidates(call[x].req),
                 control' = [control EXCEPT ![t] = id(x)], AddId(id(x), t, control')
          PROVE  takes(x, t)
      <3>1. t \in Tuners /\ control[t] = None
        BY <1>1, <2>2 DEF Candidates, Matching, allocate_control
      <3> QED BY <1>1, <2>2, <3>1 DEF takes, AddId, allocate_control, InCall, at
    <2> QED BY <2>1, <2>2
  <1>2. ASSUME allocate_listener(x) PROVE Kinds
    <2>1. /\ UNCHANGED control
          /\ \/ UNCHANGED mapping
             \/ \E t \in Candidates(call[x].req) : AddId(id(x), t, control)
      BY <1>2 DEF allocate_listener, id
    <2>2. ASSUME NEW t \in Candidates(call[x].req), AddId(id(x), t, control)
          PROVE  joins(x, t)
      <3>1. t \in Tuners /\ control[t] # None
        BY <1>2, <2>2 DEF Candidates, Matching, allocate_listener
      <3> QED BY <1>2, <2>1, <2>2, <3>1 DEF joins, AddId, allocate_listener, InCall, at
    <2> QED BY <2>1, <2>2
  <1>3. ASSUME listener_append(x) PROVE Kinds
    <2>1. joins(x, call[x].tuner)
      BY <1>3, CallFields DEF listener_append, InCall, at, joins, id
    <2> QED BY <2>1
  <1>4. ASSUME free_clear(x) PROVE Kinds
    <2> DEFINE u == mapping[id(x)]
    <2>1. CASE UNCHANGED tables
      BY <2>1 DEF tables
    <2>2. CASE u # None /\ csv[u].first = id(x)
      <3>1. PICK done : /\ done \subseteq csv[u].rest
                        /\ mapping' = [j \in Ids |-> IF j \in done THEN None ELSE mapping[j]]
        BY <1>4, <2>2 DEF free_clear, id
      <3>2. drops(x, done)
        BY <1>4, <2>2, <3>1 DEF drops, free_clear, InCall, at, id
      <3> QED BY <3>2
    <2>3. CASE u # None /\ csv[u].first # id(x) /\ id(x) \in csv[u].rest
      <3>1. RemoveMapping(id(x)) /\ UNCHANGED control /\ at(x, {"clear"})
        BY <1>4, <2>3 DEF free_clear, InCall, at, id
      <3>2. mapping' = [mapping EXCEPT ![id(x)] = None]
        BY <3>1 DEF RemoveMapping
      <3>3. mapping' = [j \in Ids |-> IF j \in {id(x)} THEN None ELSE mapping[j]]
        BY <1>f, <1>t, <3>2
      <3>4. drops(x, {id(x)})
        BY <2>3, <3>1, <3>3 DEF drops
      <3> QED BY <3>4
    <2>4. CASE u = None \/ (csv[u].first # id(x) /\ id(x) \notin csv[u].rest)
      <3>1. UNCHANGED tables
        BY <1>4, <2>4 DEF free_clear, id
      <3> QED BY <2>1, <3>1
    <2> QED BY <2>2, <2>3, <2>4
  <1>5. ASSUME free_release(x) PROVE Kinds
    <2>1. CASE mapping[id(x)] = None
      BY <1>5, <2>1 DEF free_release, tables, id
    <2>2. CASE mapping[id(x)] # None
      <3>1. releases(x)
        BY <1>5, <2>2 DEF releases, free_release, RemoveMapping, InCall, at, id
      <3> QED BY <3>1
    <2> QED BY <2>1, <2>2
  <1>6. ASSUME unlisten_map(x) PROVE Kinds
    <2>1. CASE control[call[x].tuner] = id(x) \/ mapping[id(x)] = None
      BY <1>6, <2>1 DEF unlisten_map, id
    <2>2. CASE control[call[x].tuner] # id(x) /\ mapping[id(x)] # None
      <3>1. leaves(x)
        BY <1>6, <2>2 DEF leaves, unlisten_map, RemoveMapping, InCall, at, id
      <3> QED BY <3>1
    <2> QED BY <2>1, <2>2
  <1> QED BY <1>0, <1>1, <1>2, <1>3, <1>4, <1>5, <1>6 DEF Step

\* An ID that gets on a list is mapped to its tuner and does not control it.
LEMMA ListsGrow ==
    ASSUME TypeOK, NEW x \in Threads, Step(x), NEW i \in Ids, listed(i)'
    PROVE  listed(i) \/ \E t \in Tuners : mapping'[i] = t /\ control'[t] # i
  <1> DEFINE new == \E t \in Tuners : mapping'[i] = t /\ control'[t] # i
             lists == \A t \in Tuners : i \in csv'[t].rest => listed(i) \/ new
             holds == at(x, {"assign", "relist"})' /\ i \in call'[x].csv.rest => listed(i) \/ new
  <1>a. advances(x)
    BY StepsAdvance
  <1>b. \A y \in Threads \ {x} : call'[y] = call[y]
    BY <1>a DEF advances, ends, goesOn
  <1>c. csv \in [Tuners -> Csvs]
    BY DEF TypeOK
  <1>d. \A t \in Tuners : i \in createAllocationIdCsv(t, control', mapping').rest => new
    BY DEF createAllocationIdCsv
  <1>e. csv' = csv => lists
    BY DEF listed
  <1>g. \A t \in Tuners : \A c :
          csv' = [csv EXCEPT ![t] = c] /\ (i \in c.rest => listed(i) \/ new) => lists
    BY <1>c DEF listed
  <1>n. i \notin NoCsv.rest
    BY DEF NoCsv
  <1>0. lists /\ holds => listed(i) \/ new
    BY <1>b DEF listed, at
  <1>1. ASSUME allocate_control(x) \/ allocate_listener(x) PROVE lists
    <2>1. csv' = csv \/ \E t \in Tuners : csv' = [csv EXCEPT ![t] =
                                                    createAllocationIdCsv(t, control', mapping')]
      <3>1. Candidates(call[x].req) \subseteq Tuners
        BY DEF Candidates, Matching
      <3>2. CASE allocate_control(x)
        BY <3>1, <3>2 DEF allocate_control, AddId, tables
      <3>3. CASE allocate_listener(x)
        <4>1. UNCHANGED control
          BY <3>3 DEF allocate_listener
        <4>2. csv' = csv \/ \E t \in Tuners : csv' = [csv EXCEPT ![t] =
                                                        createAllocationIdCsv(t, control, mapping')]
          BY <3>1, <3>3 DEF allocate_listener, AddId
        <4> QED BY <4>1, <4>2
      <3> QED BY <1>1, <3>2, <3>3
    <2>2. CASE csv' = csv
      BY <1>e, <2>2
    <2>3. ASSUME NEW t \in Tuners,
                 csv' = [csv EXCEPT ![t] = createAllocationIdCsv(t, control', mapping')]
          PROVE  lists
      BY <1>d, <1>g, <2>3
    <2> QED BY <2>1, <2>2, <2>3
  <1>2. ASSUME listener_assign(x) \/ unlisten_write(x) PROVE lists
    <2>1. at(x, {"assign", "relist"}) /\ csv' = [csv EXCEPT ![call[x].tuner] = call[x].csv]
      BY <1>2 DEF listener_assign, unlisten_write, InCall, at
    <2>2. call[x].tuner \in Tuners
      BY <2>1, CallFields DEF at
    <2>3. i \in call[x].csv.rest => listed(i)
      BY <2>1 DEF listed
    <2> QED BY <1>g, <2>1, <2>2, <2>3
  <1>3. ASSUME free_clear(x) PROVE lists
    <2>1. call[x].tuner \in Tuners
      BY <1>3, CallFields DEF free_clear, InCall, at
    <2>2. csv' = csv \/ \E done : csv' = [csv EXCEPT ![call[x].tuner].rest = @ \ done]
      BY <1>3 DEF free_clear, tables
    <2>3. ASSUME NEW done, csv' = [csv EXCEPT ![call[x].tuner].rest = @ \ done] PROVE lists
      <3>1. csv' = [csv EXCEPT ![call[x].tuner] =
                      [csv[call[x].tuner] EXCEPT !.rest = csv[call[x].tuner].rest \ done]]
        BY <2>3
      <3>2. [csv[call[x].tuner] EXCEPT !.rest = csv[call[x].tuner].rest \ done].rest
              \subseteq csv[call[x].tuner].rest
        BY <1>c, <2>1 DEF Csvs
      <3>3. i \in csv[call[x].tuner].rest => listed(i)
        BY <2>1 DEF listed
      <3> QED BY <1>g, <2>1, <3>1, <3>2, <3>3
    <2> QED BY <1>e, <2>2, <2>3
  <1>4. ASSUME free_release(x) \/ free_wipe(x) PROVE lists
    <2>1. call[x].tuner \in Tuners
      BY <1>4, CallFields DEF free_release, free_wipe, InCall, at
    <2>2. csv' = csv \/ csv' = [csv EXCEPT ![call[x].tuner] = NoCsv]
      BY <1>4 DEF free_release, free_wipe, tables
    <2> QED BY <1>e, <1>g, <1>n, <2>1, <2>2
  <1>5. ASSUME \/ allocate_check(x) \/ allocate_undo(x) \/ listener_check(x) \/ listener_tuner(x)
               \/ listener_append(x) \/ listener_csv(x) \/ free_find(x) \/ unlisten_find(x)
               \/ unlisten_map(x) \/ unlisten_read(x)
               \/ deallocate_usage(x) \/ deallocate_setusage(x)
        PROVE  lists
    <2>1. csv' = csv
      BY <1>5 DEF allocate_check, allocate_undo, listener_check, listener_tuner, listener_append,
         listener_csv, free_find, unlisten_find, unlisten_map, unlisten_read,
         deallocate_usage, deallocate_setusage, tables
    <2> QED BY <1>e, <2>1
  <1>6. lists
    BY <1>1, <1>2, <1>3, <1>4, <1>5 DEF Step
  <1>7. ASSUME at(x, {"assign", "relist"})' PROVE holds
    <2>1. call[x].pc = "csv" \/ call[x].pc = "unlist"
      BY <1>a, <1>7 DEF advances, ends, goesOn, Flow, at, Idle
    <2>2. CASE call[x].pc = "csv"
      <3>1. listener_csv(x)
        BY <2>2, StepAt
      <3>2. call'[x].csv = createAllocationIdCsv(call[x].tuner, control', mapping')
        BY <3>1 DEF listener_csv, tables, TypeOK
      <3>3. call[x].tuner \in Tuners
        BY <2>2, CallFields DEF at
      <3> QED BY <1>d, <3>2, <3>3
    <2>3. CASE call[x].pc = "unlist"
      <3>1. unlisten_read(x)
        BY <2>3, StepAt
      <3>2. call'[x].csv \in WithoutId(csv[call[x].tuner], id(x))
        BY <3>1 DEF unlisten_read, TypeOK, id
      <3>3. call[x].tuner \in Tuners
        BY <2>3, CallFields DEF at
      <3>4. csv[call[x].tuner] \in Csvs
        BY <1>c, <3>3
      <3>5. \A c \in WithoutId(csv[call[x].tuner], id(x)) : c.rest \subseteq csv[call[x].tuner].rest
        BY <3>4 DEF WithoutId, Csvs, NoCsv
      <3> QED BY <3>2, <3>3, <3>5 DEF listed
    <2> QED BY <2>1, <2>2, <2>3
  <1> QED BY <1>0, <1>6, <1>7

----------------------------------------------------------------------------
(* Whatever calls overlap.                                                 *)

\* An ID is on no list when its allocation chooses a tuner.
LEMMA AllocatesUnlisted ==
    ASSUME TunerInv, NEW x \in Threads, at(x, {"allocate"})
    PROVE  mapping[id(x)] = None /\ ~listed(id(x))
  <1>1. TypeOK /\ CallsApart /\ OwnMapping /\ FirstUse /\ SerialInv
    BY DEF TunerInv
  <1>2. mapping[id(x)] = None
    BY <1>1 DEF OwnMapping, at
  <1>3. call[x] # Idle /\ id(x) \in Ids
    BY <1>1, CallFields DEF Idle, at
  <1>4. CASE ~serial
    BY <1>1, <1>2, <1>4 DEF FirstUse, at
  <1>5. CASE serial
    <2>1. \A y \in Threads \ {x} : call[y] = Idle
      BY <1>1, <1>3, <1>5 DEF CallsApart
    <2>2. \A y \in Threads : ~at(y, {"assign", "relist"})
      BY <2>1 DEF at, Idle
    <2>3. ListsFollow(x)
      BY <1>1, <1>3, <1>5 DEF SerialInv, CallInv
    <2>4. \A t \in Tuners : csv[t] = createAllocationIdCsv(t, control, mapping)
      BY <2>3 DEF ListsFollow, at
    <2>5. None \notin Tuners
      BY TunerConstants
    <2>6. \A t \in Tuners : id(x) \notin csv[t].rest
      <3>1. \A t : createAllocationIdCsv(t, control, mapping).rest
                     = {i \in Ids : mapping[i] = t} \ {control[t]}
        BY DEF createAllocationIdCsv
      <3> QED BY <1>2, <2>4, <2>5, <3>1
    <2> QED BY <1>2, <2>2, <2>6 DEF listed
  <1> QED BY <1>4, <1>5

\* What a call has found of its own ID stays true.
LEMMA OwnKept ==
    ASSUME TunerInv, NEW x \in Threads, Step(x)
    PROVE  OwnMapping'
  <1>i. TypeOK /\ CallsApart /\ OwnMapping
    BY DEF TunerInv
  <1>t. mapping \in [Ids -> Tuners \cup {None}]
    BY <1>i DEF TypeOK
  <1>a. advances(x) /\ call[x] # Idle /\ id(x) \in Ids
    BY <1>i, StepsAdvance, CallFields DEF advances
  <1>b. Idle.pc = "idle"
    BY DEF Idle
  <1>1. \A i \in Ids \ {id(x)} : mapping'[i] = mapping[i] \/ mapping'[i] = None
    <2>1. ASSUME NEW t, takes(x, t) \/ joins(x, t)
          PROVE  \A i \in Ids \ {id(x)} : mapping'[i] = mapping[i] \/ mapping'[i] = None
      <3>1. mapping' = [mapping EXCEPT ![id(x)] = t]
        BY <2>1 DEF takes, joins
      <3> QED BY <1>t, <3>1
    <2>2. ASSUME NEW L, drops(x, L)
          PROVE  \A i \in Ids \ {id(x)} : mapping'[i] = mapping[i] \/ mapping'[i] = None
      BY <1>t, <2>2 DEF drops
    <2>3. ASSUME leaves(x) \/ releases(x)
          PROVE  \A i \in Ids \ {id(x)} : mapping'[i] = mapping[i] \/ mapping'[i] = None
      <3>1. mapping' = [mapping EXCEPT ![id(x)] = None]
        BY <2>3 DEF leaves, releases
      <3> QED BY <1>t, <3>1
    <2> QED BY <1>i, <2>1, <2>2, <2>3, TableSteps
  <1>2. \/ mapping'[id(x)] = mapping[id(x)] \/ mapping'[id(x)] = None
        \/ at(x, {"allocate", "append"})
    <2>1. ASSUME NEW t, takes(x, t) \/ joins(x, t) PROVE at(x, {"allocate", "append"})
      BY <2>1 DEF takes, joins, at
    <2>2. ASSUME NEW L, drops(x, L)
          PROVE  mapping'[id(x)] = mapping[id(x)] \/ mapping'[id(x)] = None
      BY <1>a, <1>t, <2>2 DEF drops
    <2>3. ASSUME leaves(x) \/ releases(x) PROVE mapping'[id(x)] = None
      BY <1>a, <1>t, <2>3 DEF leaves, releases
    <2> QED BY <1>i, <2>1, <2>2, <2>3, TableSteps
  <1>3. ASSUME NEW y \in Threads \ {x}
        PROVE  /\ at(y, {"allocate", "existing", "append"})' => mapping'[id(y)'] = None
               /\ at(y, {"clear", "release", "notcontrol"})' =>
                    mapping'[id(y)'] \in {call'[y].tuner, None}
    <2>1. call'[y] = call[y]
      BY <1>a DEF advances, ends, goesOn
    <2>2. CASE call[y] = Idle
      BY <1>b, <2>1, <2>2 DEF at
    <2>3. CASE call[y] # Idle
      <3>1. id(y) \in Ids /\ id(y) # id(x) /\ id(y)' = id(y)
        BY <1>a, <1>i, <2>1, <2>3, CallFields DEF CallsApart, id
      <3>2. mapping'[id(y)] = mapping[id(y)] \/ mapping'[id(y)] = None
        BY <1>1, <3>1
      <3> QED BY <1>i, <2>1, <3>1, <3>2 DEF OwnMapping, at
    <2> QED BY <2>2, <2>3
  <1>4. /\ at(x, {"allocate", "existing", "append"})' => mapping'[id(x)'] = None
        /\ at(x, {"clear", "release", "notcontrol"})' =>
             mapping'[id(x)'] \in {call'[x].tuner, None}
    <2>0. CASE call'[x] = Idle
      BY <1>b, <2>0 DEF at
    <2>1. CASE call'[x] # Idle
      <3>1. PICK pc : goesOn(x, pc) /\ (pc = "usage" \/ <<call[x].pc, pc>> \in Flow)
        BY <1>a, <2>1 DEF advances, ends
      <3>2. call'[x].pc = pc /\ id(x)' = id(x)
        BY <3>1 DEF goesOn, id
      <3>r. ~Return(x)
        BY <1>i, <2>1, ReturnEnds DEF ends
      <3>3. CASE pc = "allocate"
        <4>1. allocate_check(x)
          BY <3>1, <3>3, StepAt DEF Flow
        <4>2. mapping' = mapping /\ mapping[id(x)] = None
          BY <3>r, <4>1 DEF allocate_check, tables, id
        <4> QED BY <3>2, <3>3, <4>2 DEF at
      <3>4. CASE pc = "existing"
        <4>1. listener_check(x)
          BY <3>1, <3>4, StepAt DEF Flow
        <4>2. mapping' = mapping /\ mapping[id(x)] = None
          BY <3>r, <4>1 DEF listener_check, tables, id
        <4> QED BY <3>2, <3>4, <4>2 DEF at
      <3>5. CASE pc = "append"
        <4>1. listener_tuner(x) /\ call[x].pc = "existing"
          BY <3>1, <3>5, StepAt DEF Flow
        <4>2. mapping' = mapping /\ mapping[id(x)] = None
          BY <1>i, <4>1 DEF listener_tuner, tables, OwnMapping, at
        <4> QED BY <3>2, <3>5, <4>2 DEF at
      <3>6. CASE pc = "clear"
        <4>1. free_find(x) /\ call[x].pc = "find"
          BY <3>1, <3>6, StepAt DEF Flow
        <4>2. mapping' = mapping /\ mapping[id(x)] \in Tuners /\ At(x, "clear", mapping[id(x)])
          <5>1. Leave(x, TRUE) => Return(x)
            BY DEF Leave
          <5> QED BY <1>a, <1>t, <3>r, <4>1, <5>1 DEF free_find, tables, id
        <4>3. call'[x].tuner = mapping[id(x)]
          BY <1>i, <4>1, <4>2, AtGoesOn DEF at
        <4> QED BY <3>2, <3>6, <4>2, <4>3 DEF at
      <3>7. CASE pc = "notcontrol"
        <4>1. unlisten_find(x) /\ call[x].pc = "unlisten"
          BY <3>1, <3>7, StepAt DEF Flow
        <4>2. mapping' = mapping /\ mapping[id(x)] \in Tuners
              /\ At(x, "notcontrol", mapping[id(x)])
          <5>1. Leave(x, TRUE) => Return(x)
            BY DEF Leave
          <5> QED BY <1>a, <1>t, <3>r, <4>1, <5>1 DEF unlisten_find, tables, id
        <4>3. call'[x].tuner = mapping[id(x)]
          BY <1>i, <4>1, <4>2, AtGoesOn DEF at
        <4> QED BY <3>2, <3>7, <4>2, <4>3 DEF at
      <3>8. CASE pc = "release"
        <4>1. free_clear(x) /\ call[x].pc = "clear"
          BY <3>1, <3>8, StepAt DEF Flow
        <4>2. Goto(x, "release")
          <5>1. Leave(x, TRUE) => Return(x)
            BY DEF Leave
          <5>2. Leave(x, FALSE) => Return(x) \/ goesOn(x, "usage")
            BY <1>i, <4>1, GotoGoesOn DEF Leave, at
          <5>3. ~goesOn(x, "usage")
            BY <3>2, <3>8 DEF goesOn
          <5> QED BY <3>r, <4>1, <5>1, <5>2, <5>3 DEF free_clear
        <4>3. call'[x].tuner = call[x].tuner
          BY <1>i, <4>1, <4>2, GotoGoesOn DEF at
        <4>4. mapping[id(x)] \in {call[x].tuner, None}
          BY <1>i, <4>1 DEF OwnMapping, at
        <4> QED BY <1>2, <3>2, <3>8, <4>1, <4>3, <4>4 DEF at
      <3> QED BY <3>2, <3>3, <3>4, <3>5, <3>6, <3>7, <3>8 DEF at
    <2> QED BY <2>0, <2>1
  <1> QED BY <1>3, <1>4 DEF OwnMapping

\* A controller finds its tuner.
LEMMA ControlKept ==
    ASSUME TunerInv, NEW x \in Threads, Step(x)
    PROVE  ControlMapped'
  <1>i. TypeOK /\ ControlMapped /\ OwnMapping /\ RestListens
    BY DEF TunerInv
  <1>t. /\ mapping \in [Ids -> Tuners \cup {None}] /\ control \in [Tuners -> Ids \cup {None}]
        /\ id(x) \in Ids /\ None \notin Ids /\ None \notin Tuners
    BY <1>i, StepsAdvance, CallFields, TunerConstants DEF advances, TypeOK
  <1>m. \A t \in Tuners : control[t] # None => control[t] \in Ids /\ mapping[control[t]] = t
    BY <1>i, <1>t DEF ControlMapped
  <1>1. CASE UNCHANGED <<mapping, control>>
    BY <1>i, <1>1 DEF ControlMapped
  <1>2. ASSUME NEW t, takes(x, t) PROVE ControlMapped'
    <2>1. /\ t \in Tuners /\ control' = [control EXCEPT ![t] = id(x)]
          /\ mapping' = [mapping EXCEPT ![id(x)] = t] /\ mapping[id(x)] = None
      BY <1>2, AllocatesUnlisted DEF takes
    <2>2. \A u \in Tuners : control[u] # id(x)
      BY <1>m, <1>t, <2>1
    <2> QED BY <1>m, <1>t, <2>1, <2>2 DEF ControlMapped
  <1>3. ASSUME NEW t, joins(x, t) PROVE ControlMapped'
    <2>1. mapping[id(x)] = None
      BY <1>i, <1>3 DEF joins, OwnMapping, at
    <2>2. \A u \in Tuners : control[u] # id(x)
      BY <1>m, <1>t, <2>1
    <2>3. mapping' = [mapping EXCEPT ![id(x)] = t] /\ control' = control
      BY <1>3 DEF joins
    <2> QED BY <1>m, <1>t, <2>2, <2>3 DEF ControlMapped
  <1>4. ASSUME NEW L, drops(x, L) PROVE ControlMapped'
    <2>1. mapping[id(x)] \in Tuners
      BY <1>4, <1>t DEF drops
    <2>2. \A i \in Ids : i \in L => listed(i)
      BY <1>4, <2>1 DEF drops, listed
    <2>3. \A u \in Tuners : control[u] # None => control[u] \notin L
      BY <1>i, <1>m, <2>2 DEF RestListens
    <2>4. mapping' = [i \in Ids |-> IF i \in L THEN None ELSE mapping[i]] /\ control' = control
      BY <1>4 DEF drops
    <2> QED BY <1>m, <2>3, <2>4 DEF ControlMapped
  <1>5. ASSUME leaves(x) PROVE ControlMapped'
    <2>1. mapping[id(x)] = call[x].tuner /\ control[call[x].tuner] # id(x)
      BY <1>5, <1>i DEF leaves, OwnMapping, at
    <2>2. \A u \in Tuners : control[u] # id(x)
      BY <1>m, <1>t, <2>1
    <2>3. mapping' = [mapping EXCEPT ![id(x)] = None] /\ control' = control
      BY <1>5 DEF leaves
    <2> QED BY <1>m, <1>t, <2>2, <2>3 DEF ControlMapped
  <1>6. ASSUME releases(x) PROVE ControlMapped'
    <2>1. mapping[id(x)] = call[x].tuner /\ call[x].tuner \in Tuners
      BY <1>6, <1>i, CallFields DEF releases, OwnMapping, at
    <2>2. /\ mapping' = [mapping EXCEPT ![id(x)] = None]
          /\ control' = IF control[call[x].tuner] = id(x)
                        THEN [control EXCEPT ![call[x].tuner] = None] ELSE control
      BY <1>6 DEF releases
    <2>3. \A u \in Tuners : control'[u] # None => control'[u] = control[u] /\ control[u] # id(x)
      BY <1>m, <1>t, <2>1, <2>2
    <2> QED BY <1>m, <1>t, <2>2, <2>3 DEF ControlMapped
  <1> QED BY <1>i, <1>1, <1>2, <1>3, <1>4, <1>5, <1>6, TableSteps

\* A controller is on no list after the first.
LEMMA RestKept ==
    ASSUME TunerInv, NEW x \in Threads, Step(x)
    PROVE  RestListens'
  <1>i. TypeOK /\ ControlMapped' /\ RestListens /\ TypeOK'
    BY ControlKept, StepTypes DEF TunerInv
  <1>t. control \in [Tuners -> Ids \cup {None}] /\ id(x) \in Ids /\ None \notin Ids
    BY <1>i, StepsAdvance, CallFields, TunerConstants DEF advances, TypeOK
  <1> SUFFICES ASSUME NEW i \in Ids, listed(i)', NEW t \in Tuners, control'[t] = i PROVE FALSE
    BY DEF RestListens
  <1>1. mapping'[i] = t
    BY <1>i, <1>t DEF ControlMapped
  <1>2. listed(i)
    BY <1>1, <1>i, ListsGrow
  <1>3. control[t] # i
    BY <1>2, <1>i DEF RestListens
  <1>4. PICK u : takes(x, u)
    <2>1. control' # control
      BY <1>3
    <2>2. ~releases(x)
      <3>1. releases(x) => control'[t] = control[t] \/ control'[t] = None
        BY <1>t DEF releases
      <3> QED BY <1>3, <1>t, <3>1
    <2> QED BY <1>i, <2>1, <2>2, TableSteps DEF joins, drops, leaves
  <1>5. i = id(x) /\ at(x, {"allocate"})
    BY <1>3, <1>4, <1>t DEF takes
  <1> QED BY <1>2, <1>5, AllocatesUnlisted

\* An ID is unknown until its one allocation has chosen.
LEMMA FirstUseKept ==
    ASSUME TunerInv, NEW x \in Threads, Step(x)
    PROVE  FirstUse'
  <1>i. TypeOK /\ CallsApart /\ FirstUse /\ serial' = serial /\ made' = made
    <2>1. made' = made
      BY DEF Step, allocate_check, allocate_control, allocate_listener, allocate_undo,
         listener_check, listener_tuner, listener_append, listener_csv, listener_assign,
         free_find, free_clear, free_release, free_wipe, unlisten_find, unlisten_map,
         unlisten_read, unlisten_write, deallocate_usage, deallocate_setusage
    <2>2. serial' = serial
      BY SerialFixed DEF Next
    <2> QED BY <2>1, <2>2 DEF TunerInv
  <1> SUFFICES ASSUME ~serial
               PROVE  /\ \A y \in Threads :
                           at(y, {"check", "allocate", "listen", "existing", "append"})' =>
                             mapping'[id(y)'] = None /\ ~listed(id(y))' /\ made'[id(y)'] # 0
                      /\ \A i \in Ids : made'[i] = 0 => mapping'[i] = None /\ ~listed(i)'
    BY <1>i DEF FirstUse
  <1>a. advances(x) /\ call[x] # Idle /\ id(x) \in Ids /\ TypeOK'
    BY <1>i, StepsAdvance, StepTypes, CallFields DEF advances
  <1>t. mapping \in [Ids -> Tuners \cup {None}]
    BY <1>i DEF TypeOK
  <1>n. None \notin Tuners
    BY TunerConstants
  <1>b. Idle.pc = "idle"
    BY DEF Idle
  <1>1. ASSUME NEW i \in Ids, mapping[i] = None, ~listed(i),
               i # id(x) \/ ~at(x, {"allocate", "append"})
        PROVE  mapping'[i] = None /\ ~listed(i)'
    <2>1. mapping'[i] = None
      <3>1. ASSUME NEW t, takes(x, t) \/ joins(x, t) PROVE mapping'[i] = None
        <4>1. mapping' = [mapping EXCEPT ![id(x)] = t] /\ at(x, {"allocate", "append"})
          BY <3>1 DEF takes, joins, at
        <4> QED BY <1>1, <1>t, <4>1
      <3>2. ASSUME NEW L, drops(x, L) PROVE mapping'[i] = None
        BY <1>1, <3>2 DEF drops
      <3>3. ASSUME leaves(x) \/ releases(x) PROVE mapping'[i] = None
        <4>1. mapping' = [mapping EXCEPT ![id(x)] = None]
          BY <3>3 DEF leaves, releases
        <4> QED BY <1>1, <1>t, <4>1
      <3> QED BY <1>1, <1>i, <3>1, <3>2, <3>3, TableSteps
    <2>2. ~listed(i)'
      BY <1>1, <1>i, <1>n, <2>1, ListsGrow
    <2> QED BY <2>1, <2>2
  <1>2. ASSUME NEW y \in Threads, at(y, {"check", "allocate", "listen", "existing", "append"})'
        PROVE  mapping'[id(y)'] = None /\ ~listed(id(y))' /\ made'[id(y)'] # 0
    <2>1. /\ at(y, {"check", "allocate", "listen", "existing", "append"})
          /\ id(y)' = id(y) /\ id(y) \in Ids
          /\ y # x => id(y) # id(x)
          /\ y = x => ~at(x, {"allocate", "append"})
      <3>1. CASE y # x
        <4>1. call'[y] = call[y] /\ call[y] # Idle
          BY <1>a, <1>b, <1>2, <3>1 DEF advances, ends, goesOn, at
        <4>2. id(y) # id(x) /\ id(y) \in Ids
          BY <1>a, <1>i, <3>1, <4>1, CallFields DEF CallsApart
        <4> QED BY <1>2, <3>1, <4>1, <4>2 DEF at, id
      <3>2. CASE y = x
        <4>1. PICK pc : goesOn(x, pc) /\ (pc = "usage" \/ <<call[x].pc, pc>> \in Flow)
          BY <1>a, <1>b, <1>2, <3>2 DEF advances, ends, at
        <4> QED BY <1>a, <1>2, <3>2, <4>1 DEF goesOn, Flow, at, id
      <3> QED BY <3>1, <3>2
    <2>2. mapping[id(y)] = None /\ ~listed(id(y)) /\ made[id(y)] # 0
      BY <1>i, <2>1 DEF FirstUse
    <2>3. mapping'[id(y)] = None /\ ~listed(id(y))'
      <3>1. PICK i \in Ids : i = id(y)
        BY <2>1
      <3>2. mapping'[i] = None /\ ~listed(i)'
        BY <1>1, <2>1, <2>2, <3>1
      <3>3. listed(id(y))' <=> listed(i)'
        BY <2>1, <3>1 DEF listed
      <3> QED BY <3>1, <3>2, <3>3, <2>1
    <2> QED BY <1>i, <2>1, <2>2, <2>3
  <1>3. ASSUME NEW i \in Ids, made'[i] = 0 PROVE mapping'[i] = None /\ ~listed(i)'
    <2>1. mapping[i] = None /\ ~listed(i)
      BY <1>3, <1>i DEF FirstUse
    <2>2. at(x, {"allocate", "append"}) => i # id(x)
      BY <1>3, <1>i DEF FirstUse, at
    <2> QED BY <1>1, <2>1, <2>2
  <1> QED BY <1>2, <1>3

\* A tuner is enabled only while it has a controller.
LEMMA EnabledKept ==
    ASSUME TypeOK, EnabledControlled, NEW x \in Threads, Step(x)
    PROVE  EnabledControlled'
  <1>t. enabled \subseteq Tuners /\ control \in [Tuners -> Ids \cup {None}]
        /\ id(x) \in Ids /\ None \notin Ids
    BY StepsAdvance, CallFields, TunerConstants DEF advances, TypeOK
  <1>1. CASE UNCHANGED <<enabled, control>>
    BY <1>1 DEF EnabledControlled
  <1>2. CASE allocate_control(x)
    <2>1. \/ UNCHANGED <<enabled, control>>
          \/ \E t : enabled' \subseteq enabled \cup {t} /\ control' = [control EXCEPT ![t] = id(x)]
      BY <1>2 DEF allocate_control, tables, device, id
    <2>2. ASSUME NEW t, enabled' \subseteq enabled \cup {t},
                 control' = [control EXCEPT ![t] = id(x)]
          PROVE  EnabledControlled'
      <3>1. enabled' \subseteq Tuners
        BY StepTypes DEF TypeOK
      <3> QED BY <1>t, <2>2, <3>1 DEF EnabledControlled
    <2> QED BY <1>1, <2>1, <2>2
  <1>3. CASE free_release(x)
    <2>1. /\ enabled' = IF control[call[x].tuner] = id(x) THEN enabled \ {call[x].tuner}
                        ELSE enabled
          /\ control' = control \/ control' = IF control[call[x].tuner] = id(x)
                        THEN [control EXCEPT ![call[x].tuner] = None] ELSE control
      BY <1>3 DEF free_release, tables, id
    <2> QED BY <1>t, <2>1 DEF EnabledControlled
  <1>4. CASE ~allocate_control(x) /\ ~free_release(x)
    <2>1. UNCHANGED <<enabled, control>>
      BY <1>4 DEF Step, allocate_check, allocate_listener, allocate_undo,
         listener_check, listener_tuner, listener_append, listener_csv, listener_assign,
         free_find, free_clear, free_wipe, unlisten_find, unlisten_map,
         unlisten_read, unlisten_write, deallocate_usage, deallocate_setusage, tables, device
    <2> QED BY <1>1, <2>1
  <1> QED BY <1>2, <1>3, <1>4

----------------------------------------------------------------------------
(* Calls that do not overlap.                                              *)

\* What the one call that there is leaves: its invariant, or that of none.
Lands(x) == IF call[x] = Idle THEN BetweenCalls ELSE CallInv(x)

\* What a call that is alone finds.
LEMMA CallFinds ==
    ASSUME TunerInv, serial, NEW x \in Threads, call[x] # Idle
    PROVE  /\ Carried /\ CallInv(x)
           /\ ~at(x, {"csv", "assign", "unlist", "relist"}) => ListsTrue
           /\ ~failing(x) => DeviceTrue
           /\ ~failing(x) /\ ~at(x, {"usage", "setusage", "wipe"}) =>
                usageState = Usage(control)
           /\ failing(x) => control[mapping[id(x)]] = id(x)
  <1>1. Carried /\ CallInv(x)
    BY DEF TunerInv, SerialInv
  <1>2. ListsFollow(x) /\ DeviceFollows(x) /\ UsageFollows(x)
    BY <1>1 DEF CallInv
  <1>3. ~at(x, {"csv", "assign", "unlist", "relist"}) => ListsTrue
    BY <1>2 DEF ListsFollow, ListsTrue
  <1>4. ~failing(x) => DeviceTrue
    BY <1>2 DEF DeviceFollows, DeviceTrue
  <1>5. ~failing(x) /\ ~at(x, {"usage", "setusage", "wipe"}) => usageState = Usage(control)
    BY <1>2 DEF UsageFollows, at
  <1>6. failing(x) => control[mapping[id(x)]] = id(x)
    <2>1. SUFFICES ASSUME failing(x) PROVE control[mapping[id(x)]] = id(x)
      OBVIOUS
    <2>2. mapping[id(x)] \in Tuners
      <3>1. TypeOK /\ id(x) \in Ids
        BY CallFields DEF TunerInv
      <3>2. mapping \in [Ids -> Tuners \cup {None}]
        BY <3>1 DEF TypeOK
      <3> QED BY <2>1, <3>1, <3>2 DEF failing
    <2> QED BY <1>2, <2>1, <2>2 DEF DeviceFollows
  <1> QED BY <1>1, <1>3, <1>4, <1>5, <1>6

\* A call that returns.
LEMMA ReturnLands ==
    ASSUME TypeOK, NEW x \in Threads, Return(x), ListsTrue', DeviceTrue',
           usageState' = Usage(control')
    PROVE  Lands(x)'
  <1>1. call'[x] = Idle
    BY ReturnEnds DEF ends
  <1>2. BetweenCalls'
    BY DEF BetweenCalls
  <1> QED BY <1>1, <1>2 DEF Lands

\* A call that leaves the section of its lock.
LEMMA LeaveLands ==
    ASSUME TypeOK, NEW x \in Threads, NEW raised \in BOOLEAN, Leave(x, raised),
           raised \/ at(x, {"clear", "wipe", "relist"}), ListsTrue', DeviceTrue',
           raised \/ capacityLock # x => usageState' = Usage(control')
    PROVE  Lands(x)'
  <1>1. CASE Return(x) /\ (raised \/ capacityLock # x)
    BY <1>1, ReturnLands
  <1>2. CASE capacityLock = x /\ ~raised
    <2>1. goesOn(x, "usage")
      <3>1. Goto(x, "usage")
        BY <1>2 DEF Leave
      <3>2. \/ at(x, {"append", "clear", "release", "wipe", "notcontrol"})
            \/ at(x, {"relist"})
        BY <1>2 DEF at
      <3> QED BY <3>1, <3>2, GotoGoesOn
    <2>2. call'[x].pc = "usage" /\ call'[x] # Idle
      BY <2>1 DEF goesOn
    <2>3. ListsFollow(x)'
      BY DEF ListsTrue, ListsFollow
    <2>4. ~failing(x)'
      BY <2>2 DEF failing, at
    <2>5. DeviceFollows(x)'
      BY <2>4 DEF DeviceTrue, DeviceFollows
    <2>6. UsageFollows(x)'
      BY <2>2, <2>4 DEF UsageFollows, at
    <2>7. CallKnows(x)'
      BY <2>2 DEF CallKnows, at
    <2> QED BY <2>2, <2>3, <2>5, <2>6, <2>7 DEF Lands, CallInv
  <1> QED BY <1>1, <1>2 DEF Leave

\* A step that changes no table takes the invariant along.
LEMMA StaysTrue ==
    ASSUME TypeOK, NEW x \in Threads, NEW pc, goesOn(x, pc), CallInv(x),
           UNCHANGED <<tables, device, usageState, capacityLock>>,
           failing(x)' <=> failing(x),
           ~at(x, {"csv", "assign", "unlist", "relist", "usage", "setusage", "wipe"}),
           CallKnows(x)'
    PROVE  Lands(x)'
  <1>u. UNCHANGED <<csv, control, mapping, tuned, enabled, usageState, capacityLock>>
    BY DEF tables, device
  <1>1. call'[x] # Idle /\ id(x)' = id(x) /\ call'[x].pc = pc
    BY DEF goesOn, id
  <1>2. ListsFollow(x) /\ DeviceFollows(x) /\ UsageFollows(x)
    BY DEF CallInv
  <1>3. ListsFollow(x)'
    BY <1>u, <1>2 DEF ListsFollow, at
  <1>4. DeviceFollows(x)'
    BY <1>u, <1>1, <1>2 DEF DeviceFollows
  <1>5. UsageFollows(x)'
    BY <1>u, <1>1, <1>2 DEF UsageFollows, at
  <1> QED BY <1>1, <1>3, <1>4, <1>5 DEF Lands, CallInv

\* A step with sound tables, of a call whose allocation has not failed.
LEMMA SoundLands ==
    ASSUME NEW x \in Threads, NEW pc, goesOn(x, pc), ~failing(x)', DeviceTrue',
           usageState' = Usage(control') \/ (pc = "wipe" /\ capacityLock' = x)
             \/ pc \in {"usage", "setusage"},
           ListsFollow(x)', CallKnows(x)'
    PROVE  Lands(x)'
  <1>1. call'[x] # Idle /\ call'[x].pc = pc
    BY DEF goesOn
  <1>2. DeviceFollows(x)'
    BY DEF DeviceTrue, DeviceFollows
  <1>3. UsageFollows(x)'
    BY <1>1 DEF UsageFollows, at
  <1> QED BY <1>1, <1>2, <1>3 DEF Lands, CallInv

\* A step that only looks.
LEMMA LookingLands ==
    ASSUME TunerInv, serial, NEW x \in Threads, Step(x),
           at(x, {"check", "undo", "listen", "existing", "find", "unlisten"})
    PROVE  Carried' /\ Lands(x)'
  <1>i. TypeOK /\ LockHeld /\ OwnMapping /\ call[x] # Idle /\ id(x) \in Ids
    BY StepsAdvance, CallFields DEF TunerInv, advances
  <1>f. /\ Carried /\ CallInv(x) /\ ListsTrue
        /\ ~failing(x) => DeviceTrue /\ usageState = Usage(control)
    BY <1>i, CallFinds DEF at
  <1>t. mapping \in [Ids -> Tuners \cup {None}] /\ None \notin Tuners
    BY <1>i, TunerConstants DEF TypeOK
  <1>u. UNCHANGED <<tables, device, usageState>>
    BY StepAt DEF at, allocate_check, allocate_undo, listener_check, listener_tuner, free_find,
       unlisten_find
  <1>1. Carried'
    BY <1>f, <1>u DEF Carried, tables
  <1>r. /\ ~failing(x) /\ Return(x) => Lands(x)'
        /\ ~failing(x) /\ Leave(x, TRUE) => Lands(x)'
    <2>1. ~failing(x) => ListsTrue' /\ DeviceTrue' /\ usageState' = Usage(control')
      BY <1>f, <1>u DEF ListsTrue, DeviceTrue, tables, device
    <2> QED BY <1>i, <2>1, ReturnLands, LeaveLands
  <1>g. ASSUME NEW pc, goesOn(x, pc), UNCHANGED capacityLock, failing(x)' <=> failing(x),
               CallKnows(x)'
        PROVE  Lands(x)'
    <2>1. ~at(x, {"csv", "assign", "unlist", "relist", "usage", "setusage", "wipe"})
      BY DEF at
    <2>2. UNCHANGED <<tables, device, usageState, capacityLock>>
      BY <1>g, <1>u
    <2> QED BY <1>i, <1>f, <1>g, <2>1, <2>2, StaysTrue
  <1>2. ASSUME call[x].pc = "check" PROVE Lands(x)'
    <2>1. allocate_check(x) /\ ~failing(x)
      BY <1>2, StepAt DEF failing, at
    <2>2. Return(x) \/ (Goto(x, "allocate") /\ UNCHANGED capacityLock)
      BY <2>1 DEF allocate_check
    <2>3. ASSUME Goto(x, "allocate"), UNCHANGED capacityLock PROVE Lands(x)'
      <3>1. goesOn(x, "allocate")
        BY <1>2, <1>i, <2>3, GotoGoesOn DEF at
      <3>2. ~failing(x)' /\ CallKnows(x)'
        BY <3>1 DEF goesOn, failing, CallKnows, at
      <3> QED BY <1>g, <2>1, <2>3, <3>1, <3>2
    <2> QED BY <1>r, <2>1, <2>2, <2>3
  <1>3. ASSUME call[x].pc = "undo" PROVE Lands(x)'
    <2>1. allocate_undo(x) /\ capacityLock # x
      BY <1>3, <1>i, StepAt DEF LockHeld, at
    <2>2. CASE mapping[id(x)] = None
      <3>1. Return(x) /\ ~failing(x)
        BY <2>1, <2>2 DEF allocate_undo, failing, id
      <3> QED BY <1>r, <3>1
    <2>3. CASE mapping[id(x)] # None
      <3>1. Goto(x, "find") /\ UNCHANGED capacityLock /\ UNCHANGED mapping
        BY <2>1, <2>3 DEF allocate_undo, id, tables
      <3>2. goesOn(x, "find")
        BY <1>3, <1>i, <3>1, GotoGoesOn DEF at
      <3>3. (failing(x)' <=> failing(x)) /\ CallKnows(x)'
        BY <1>3, <3>1, <3>2 DEF goesOn, failing, CallKnows, at, id
      <3> QED BY <1>g, <3>1, <3>2, <3>3
    <2> QED BY <2>2, <2>3
  <1>4. ASSUME call[x].pc = "listen" PROVE Lands(x)'
    <2>1. listener_check(x) /\ ~failing(x)
      BY <1>4, StepAt DEF failing, at
    <2>2. Return(x) \/ (Goto(x, "existing") /\ UNCHANGED capacityLock)
      BY <2>1 DEF listener_check
    <2>3. ASSUME Goto(x, "existing"), UNCHANGED capacityLock PROVE Lands(x)'
      <3>1. goesOn(x, "existing")
        BY <1>4, <1>i, <2>3, GotoGoesOn DEF at
      <3>2. ~failing(x)' /\ CallKnows(x)'
        BY <3>1 DEF goesOn, failing, CallKnows, at
      <3> QED BY <1>g, <2>1, <2>3, <3>1, <3>2
    <2> QED BY <1>r, <2>1, <2>2, <2>3
  <1>5. ASSUME call[x].pc = "existing" PROVE Lands(x)'
    <2>1. listener_tuner(x) /\ ~failing(x)
      BY <1>5, StepAt DEF failing, at
    <2> DEFINE t == mapping[call[x].req.existing]
    <2>2. Return(x) \/ (t # None /\ At(x, "append", t) /\ UNCHANGED <<capacityLock, control>>)
      BY <2>1 DEF listener_tuner, tables
    <2>3. ASSUME t # None, At(x, "append", t), UNCHANGED <<capacityLock, control>>
          PROVE  Lands(x)'
      <3>0. call[x].req.existing \in Ids
        BY <1>5, <1>i, CallFields DEF ListenerRequests, at
      <3>1. t \in Tuners /\ control[t] # None
        BY <1>f, <1>t, <2>3, <3>0 DEF Carried
      <3>2. goesOn(x, "append") /\ call'[x].tuner = t
        BY <1>5, <1>i, <2>3, <3>1, AtGoesOn DEF at
      <3>3. ~failing(x)' /\ call'[x].pc = "append"
        BY <3>2 DEF goesOn, failing, at
      <3>4. control'[call'[x].tuner] # None
        BY <2>3, <3>1, <3>2
      <3>5. CallKnows(x)'
        BY <3>3, <3>4 DEF CallKnows, at
      <3> QED BY <1>g, <2>1, <2>3, <3>2, <3>3, <3>5
    <2> QED BY <1>r, <2>1, <2>2, <2>3
  <1>6. ASSUME call[x].pc = "find" PROVE Lands(x)'
    <2>1. free_find(x)
      BY <1>6, StepAt
    <2> DEFINE t == mapping[id(x)]
    <2>2. CASE t = None
      <3>1. Leave(x, TRUE) /\ ~failing(x)
        BY <2>1, <2>2 DEF free_find, failing, id
      <3> QED BY <1>r, <3>1
    <2>3. CASE t # None
      <3>1. At(x, "clear", t) /\ UNCHANGED <<capacityLock, mapping>> /\ t \in Tuners
        BY <1>t, <1>i, <2>1, <2>3 DEF free_find, id, tables
      <3>2. goesOn(x, "clear") /\ call'[x].tuner = t
        BY <1>6, <1>i, <3>1, AtGoesOn DEF at
      <3>3. call'[x].pc = "clear" /\ id(x)' = id(x)
        BY <3>2 DEF goesOn, id
      <3>4. failing(x)' <=> failing(x)
        BY <1>6, <3>1, <3>3 DEF failing, at
      <3>5. mapping'[id(x)'] = call'[x].tuner
        BY <3>1, <3>2, <3>3
      <3>6. CallKnows(x)'
        BY <3>3, <3>5 DEF CallKnows, at
      <3> QED BY <1>g, <3>1, <3>2, <3>4, <3>6
    <2> QED BY <2>2, <2>3
  <1>7. ASSUME call[x].pc = "unlisten" PROVE Lands(x)'
    <2>1. unlisten_find(x) /\ ~failing(x)
      BY <1>7, StepAt DEF failing, at
    <2> DEFINE t == mapping[id(x)]
    <2>2. CASE t = None
      <3>1. Leave(x, TRUE)
        BY <2>1, <2>2 DEF unlisten_find, id
      <3> QED BY <1>r, <2>1, <3>1
    <2>3. CASE t # None
      <3>1. At(x, "notcontrol", t) /\ UNCHANGED <<capacityLock, mapping>> /\ t \in Tuners
        BY <1>t, <1>i, <2>1, <2>3 DEF unlisten_find, id, tables
      <3>2. goesOn(x, "notcontrol") /\ call'[x].tuner = t
        BY <1>7, <1>i, <3>1, AtGoesOn DEF at
      <3>3. call'[x].pc = "notcontrol" /\ id(x)' = id(x)
        BY <3>2 DEF goesOn, id
      <3>4. ~failing(x)'
        BY <3>3 DEF failing, at
      <3>5. mapping'[id(x)'] = call'[x].tuner
        BY <3>1, <3>2, <3>3
      <3>6. CallKnows(x)'
        BY <3>3, <3>5 DEF CallKnows, at
      <3> QED BY <1>g, <2>1, <3>1, <3>2, <3>4, <3>6
    <2> QED BY <2>2, <2>3
  <1> QED BY <1>1, <1>2, <1>3, <1>4, <1>5, <1>6, <1>7 DEF at

\* The lists of the other tuners, when an ID joins or leaves one.
LEMMA OtherLists ==
    ASSUME TypeOK, NEW i \in Ids, NEW t \in Tuners, NEW u \in Tuners \ {t},
           NEW v \in {t, None}, mapping' = [mapping EXCEPT ![i] = v],
           mapping[i] \in {t, None}, control'[u] = control[u]
    PROVE  createAllocationIdCsv(u, control', mapping') = createAllocationIdCsv(u, control, mapping)
  <1>1. mapping \in [Ids -> Tuners \cup {None}] /\ None \notin Tuners
    BY TunerConstants DEF TypeOK
  <1>2. \A j \in Ids : mapping'[j] = u <=> mapping[j] = u
    BY <1>1
  <1> QED BY <1>2 DEF createAllocationIdCsv

\* An allocation of a tuner lands.
LEMMA AllocatingLands ==
    ASSUME TunerInv, serial, NEW x \in Threads, Step(x), at(x, {"allocate"})
    PROVE  Carried' /\ Lands(x)'
  <1>i. TypeOK /\ LockHeld /\ call[x] # Idle /\ id(x) \in Ids
    BY StepsAdvance, CallFields DEF TunerInv, advances
  <1>f. Carried /\ CallInv(x) /\ ListsTrue /\ DeviceTrue /\ usageState = Usage(control)
        /\ ~failing(x)
    BY <1>i, CallFinds DEF at, failing
  <1>t. /\ mapping \in [Ids -> Tuners \cup {None}] /\ None \notin Tuners /\ None \notin Ids
        /\ control \in [Tuners -> Ids \cup {None}] /\ csv \in [Tuners -> Csvs]
        /\ tuned \subseteq Tuners /\ enabled \subseteq Tuners
    BY <1>i, TunerConstants DEF TypeOK
  <1>l. capacityLock # x
    BY <1>i DEF LockHeld, at
  <1>m. mapping[id(x)] = None
    BY AllocatesUnlisted
  <1>0. ASSUME UNCHANGED <<tables, device, usageState, capacityLock>>,
               Return(x) \/ Goto(x, "undo")
        PROVE  Carried' /\ Lands(x)'
    <2>1. Carried' /\ ListsTrue' /\ DeviceTrue' /\ usageState' = Usage(control')
      BY <1>f, <1>0 DEF Carried, ListsTrue, DeviceTrue, tables, device
    <2>2. ASSUME Goto(x, "undo") PROVE Lands(x)'
      <3>1. goesOn(x, "undo")
        BY <1>i, <2>2, GotoGoesOn
      <3>2. mapping'[id(x)'] = None
        BY <1>0, <1>m, <3>1 DEF goesOn, id, tables
      <3>3. ~failing(x)' /\ CallKnows(x)'
        BY <3>1, <3>2 DEF goesOn, failing, CallKnows, at
      <3>4. ListsFollow(x)'
        BY <2>1 DEF ListsTrue, ListsFollow
      <3> QED BY <2>1, <3>1, <3>3, <3>4, SoundLands
    <2> QED BY <1>i, <1>0, <2>1, <2>2, ReturnLands
  <1>c. ASSUME NEW t \in Tuners, AddId(id(x), t, control'),
               \A u \in Tuners \ {t} : control'[u] = control[u]
        PROVE  ListsTrue'
    <2>1. /\ mapping' = [mapping EXCEPT ![id(x)] = t]
          /\ csv' = [csv EXCEPT ![t] = createAllocationIdCsv(t, control', mapping')]
      BY <1>c DEF AddId
    <2>2. \A u \in Tuners \ {t} : createAllocationIdCsv(u, control', mapping')
                                  = createAllocationIdCsv(u, control, mapping)
      BY <1>c, <1>i, <1>m, <2>1, OtherLists
    <2>3. \A u \in Tuners \ {t} : csv'[u] = createAllocationIdCsv(u, control, mapping)
      BY <1>f, <2>1 DEF ListsTrue
    <2>4. csv'[t] = createAllocationIdCsv(t, control', mapping')
      BY <1>t, <2>1
    <2> QED BY <2>2, <2>3, <2>4 DEF ListsTrue
  <1>1. ASSUME allocate_listener(x) PROVE Carried' /\ Lands(x)'
    <2>1. UNCHANGED <<control, device, capacityLock>>
      BY <1>1 DEF allocate_listener
    <2>2. CASE UNCHANGED <<csv, mapping, usageState>> /\ (Return(x) \/ Goto(x, "undo"))
      BY <1>0, <2>1, <2>2 DEF tables
    <2>3. ASSUME NEW t \in Candidates(call[x].req), AddId(call[x].req.id, t, control),
                 usageState' = Usage(control), Return(x)
          PROVE  Carried' /\ Lands(x)'
      <3>1. t \in Tuners /\ control[t] # None
        BY <1>1, <2>3 DEF Candidates, Matching, allocate_listener
      <3>2. AddId(id(x), t, control')
        BY <2>1, <2>3 DEF id
      <3>3. ListsTrue'
        BY <1>c, <2>1, <3>1, <3>2
      <3>4. DeviceTrue' /\ usageState' = Usage(control')
        BY <1>f, <2>1, <2>3 DEF DeviceTrue, device
      <3>5. Carried'
        <4>1. mapping' = [mapping EXCEPT ![id(x)] = t] /\ control' = control
          BY <2>1, <2>3 DEF AddId, id
        <4> QED BY <1>f, <1>t, <3>1, <4>1 DEF Carried
      <3> QED BY <1>i, <2>3, <3>3, <3>4, <3>5, ReturnLands
    <2> QED BY <1>1, <2>2, <2>3 DEF allocate_listener
  <1>2. ASSUME allocate_control(x) PROVE Carried' /\ Lands(x)'
    <2>1. UNCHANGED capacityLock
      BY <1>2 DEF allocate_control
    <2>2. CASE UNCHANGED <<tables, device, usageState>> /\ (Return(x) \/ Goto(x, "undo"))
      BY <1>0, <2>1, <2>2
    <2>3. ASSUME NEW t \in Candidates(call[x].req), NEW met \in BOOLEAN,
                 control' = [control EXCEPT ![t] = call[x].req.id],
                 AddId(call[x].req.id, t, control'),
                 tuned' = tuned \cup {t},
                 enabled' = IF met THEN enabled \cup {t} ELSE enabled,
                 usageState' = IF met THEN Usage(control') ELSE usageState,
                 IF met THEN Return(x) ELSE Goto(x, "undo")
          PROVE  Carried' /\ Lands(x)'
      <3>1. t \in Tuners /\ control[t] = None
        BY <1>2, <2>3 DEF Candidates, Matching, allocate_control
      <3>2. /\ AddId(id(x), t, control') /\ mapping' = [mapping EXCEPT ![id(x)] = t]
            /\ control' = [control EXCEPT ![t] = id(x)]
        BY <2>3 DEF id, AddId
      <3>3. ListsTrue'
        BY <1>c, <3>1, <3>2
      <3>5. Carried'
        BY <1>f, <1>t, <1>i, <3>1, <3>2 DEF Carried
      <3>6. \A u \in Tuners : u \in tuned' <=> control'[u] # None
        BY <1>f, <1>i, <1>t, <2>3, <3>1, <3>2 DEF DeviceTrue
      <3>7. CASE met
        <4>1. \A u \in Tuners : u \in enabled' <=> u \in tuned'
          BY <1>f, <2>3, <3>7 DEF DeviceTrue
        <4>2. DeviceTrue' /\ usageState' = Usage(control') /\ Return(x)
          BY <2>3, <3>6, <3>7, <4>1 DEF DeviceTrue
        <4> QED BY <1>i, <3>3, <3>5, <4>2, ReturnLands
      <3>8. CASE ~met
        <4>1. goesOn(x, "undo")
          BY <1>i, <2>3, <3>8, GotoGoesOn
        <4>2. id(x)' = id(x) /\ call'[x].pc = "undo" /\ call'[x] # Idle
          BY <4>1 DEF goesOn, id
        <4>3. mapping'[id(x)'] = t
          BY <1>i, <1>t, <3>2, <4>2
        <4>4. ListsFollow(x)' /\ CallKnows(x)'
          BY <3>3, <4>2 DEF ListsTrue, ListsFollow, CallKnows, at
        <4>5. t \notin enabled' /\ control'[t] = id(x)
          BY <1>f, <1>t, <2>3, <3>1, <3>2, <3>8 DEF DeviceTrue
        <4>6. \A u \in Tuners \ {t} : u \in enabled' <=> u \in tuned'
          BY <1>f, <2>3, <3>8 DEF DeviceTrue
        <4>10. failing(x)'
          BY <1>l, <1>t, <2>1, <3>1, <4>2, <4>3 DEF failing, at
        <4>7. DeviceFollows(x)'
          <5>1. t \notin enabled' /\ control'[t] = id(x)'
            BY <4>2, <4>5
          <5> QED BY <3>6, <4>3, <4>6, <4>10, <5>1 DEF DeviceFollows
        <4>8. [control' EXCEPT ![t] = None] = control
          BY <1>t, <3>1, <3>2
        <4>9. usageState' = Usage([control' EXCEPT ![mapping'[id(x)']] = None])
          BY <1>f, <2>3, <3>8, <4>3, <4>8
        <4>11. UsageFollows(x)'
          BY <4>9, <4>10 DEF UsageFollows
        <4> QED BY <3>5, <4>2, <4>4, <4>7, <4>11 DEF Lands, CallInv
      <3> QED BY <3>7, <3>8
    <2> QED BY <1>2, <2>2, <2>3 DEF allocate_control
  <1> QED BY <1>1, <1>2, StepAt DEF at

\* A listener that is added to a tuner lands.
LEMMA ListeningLands ==
    ASSUME TunerInv, serial, NEW x \in Threads, Step(x), at(x, {"append", "csv", "assign"})
    PROVE  Carried' /\ Lands(x)'
  <1>i. TypeOK /\ OwnMapping /\ call[x] # Idle /\ id(x) \in Ids /\ call[x].tuner \in Tuners
    BY StepsAdvance, CallFields DEF TunerInv, advances, at
  <1>f. /\ Carried /\ CallInv(x) /\ DeviceTrue /\ usageState = Usage(control)
        /\ at(x, {"append"}) => ListsTrue
        /\ ListsFollow(x) /\ CallKnows(x)
    BY <1>i, CallFinds DEF at, failing, CallInv
  <1>t. /\ mapping \in [Ids -> Tuners \cup {None}] /\ None \notin Tuners /\ None \notin Ids
        /\ csv \in [Tuners -> Csvs]
    BY <1>i, TunerConstants DEF TypeOK
  <1> DEFINE t == call[x].tuner
  <1>u. UNCHANGED <<control, device, usageState, capacityLock>>
    BY StepAt DEF at, listener_append, listener_csv, listener_assign, tables
  <1>d. DeviceTrue' /\ usageState' = Usage(control')
    BY <1>f, <1>u DEF DeviceTrue, device
  <1>1. ASSUME call[x].pc = "append" PROVE Carried' /\ Lands(x)'
    <2>1. /\ mapping' = [mapping EXCEPT ![id(x)] = t] /\ Goto(x, "csv")
          /\ UNCHANGED <<csv, control>>
      BY <1>1, StepAt DEF listener_append, id
    <2>2. mapping[id(x)] = None
      BY <1>1, <1>i DEF OwnMapping, at
    <2>3. control[t] # None
      BY <1>1, <1>f DEF CallKnows, at
    <2>4. Carried'
      BY <1>f, <1>i, <1>t, <2>1, <2>3 DEF Carried
    <2>5. goesOn(x, "csv") /\ call'[x].tuner = t
      BY <1>1, <1>i, <2>1, GotoGoesOn DEF at
    <2>6. \A u \in Tuners \ {t} : createAllocationIdCsv(u, control', mapping')
                                  = createAllocationIdCsv(u, control, mapping)
      BY <1>i, <2>1, <2>2, OtherLists
    <2>7. \A u \in Tuners \ {t} : csv'[u] = createAllocationIdCsv(u, control', mapping')
      BY <1>1, <1>f, <2>1, <2>6 DEF ListsTrue, at
    <2>8. ListsFollow(x)'
      BY <2>5, <2>7 DEF ListsFollow, goesOn, at
    <2>9. ~failing(x)' /\ CallKnows(x)'
      BY <2>5 DEF goesOn, failing, CallKnows, at
    <2> QED BY <1>d, <2>4, <2>5, <2>8, <2>9, SoundLands
  <1>2. ASSUME call[x].pc = "csv" PROVE Carried' /\ Lands(x)'
    <2>1. listener_csv(x)
      BY <1>2, StepAt
    <2>2. PICK c : c = [pc |-> "assign", req |-> call[x].req, tuner |-> t,
                        csv |-> createAllocationIdCsv(t, control, mapping)]
      OBVIOUS
    <2>3. call' = [call EXCEPT ![x] = c] /\ UNCHANGED tables
      BY <2>1, <2>2 DEF listener_csv
    <2>4. c \in Calls \ {Idle}
      <3>1. createAllocationIdCsv(t, control, mapping) \in Csvs
        BY <1>i, CsvTypes
      <3>2. call[x].req \in AnyRequest
        BY <1>i, CallFields
      <3> QED BY <1>i, <2>2, <3>1, <3>2 DEF Calls, Idle
    <2>5. goesOn(x, "assign") /\ call'[x] = c
      BY <1>i, <2>2, <2>3, <2>4, PutGoesOn
    <2>6. call'[x].tuner = t /\ call'[x].csv = createAllocationIdCsv(t, control', mapping')
      BY <2>2, <2>3, <2>5 DEF tables
    <2>7. CallKnows(x)' /\ ~failing(x)'
      BY <2>5, <2>6 DEF CallKnows, failing, goesOn, at
    <2>8. ListsFollow(x)'
      BY <1>f, <2>3, <2>5, <2>6 DEF ListsFollow, goesOn, at, tables
    <2>9. Carried'
      BY <1>f, <2>3 DEF Carried, tables
    <2> QED BY <1>d, <2>5, <2>7, <2>8, <2>9, SoundLands
  <1>3. ASSUME call[x].pc = "assign" PROVE Carried' /\ Lands(x)'
    <2>1. /\ csv' = [csv EXCEPT ![t] = call[x].csv] /\ Return(x) /\ UNCHANGED <<control, mapping>>
      BY <1>3, StepAt DEF listener_assign
    <2>2. call[x].csv = createAllocationIdCsv(t, control, mapping)
      BY <1>3, <1>f DEF CallKnows, at
    <2>3. ListsTrue'
      BY <1>f, <1>i, <1>t, <2>1, <2>2 DEF ListsFollow, ListsTrue
    <2>4. Carried'
      BY <1>f, <2>1 DEF Carried
    <2> QED BY <1>d, <1>i, <2>1, <2>3, <2>4, ReturnLands
  <1> QED BY <1>1, <1>2, <1>3 DEF at

\* What a list that follows the tables has.
LEMMA FollowedList ==
    ASSUME ListsTrue, NEW t \in Tuners
    PROVE  csv[t].first = control[t] /\ csv[t].rest = {j \in Ids : mapping[j] = t} \ {control[t]}
  <1>1. csv[t] = createAllocationIdCsv(t, control, mapping)
    BY DEF ListsTrue
  <1>2. csv[t] = [first |-> control[t], rest |-> {j \in Ids : mapping[j] = t} \ {control[t]}]
    BY <1>1 DEF createAllocationIdCsv
  <1> QED BY <1>2

\* The controller clears its list, or a listener leaves it.
LEMMA ClearingLands ==
    ASSUME TunerInv, serial, NEW x \in Threads, Step(x), at(x, {"clear"})
    PROVE  Carried' /\ Lands(x)'
  <1>i. TypeOK /\ call[x] # Idle /\ id(x) \in Ids /\ call[x].tuner \in Tuners
    BY StepsAdvance, CallFields DEF TunerInv, advances, at
  <1>f. /\ Carried /\ CallInv(x) /\ ListsTrue /\ DeviceFollows(x) /\ UsageFollows(x)
        /\ ~failing(x) => DeviceTrue /\ usageState = Usage(control)
        /\ failing(x) => control[mapping[id(x)]] = id(x)
    BY <1>i, CallFinds DEF at, CallInv
  <1>t. /\ mapping \in [Ids -> Tuners \cup {None}] /\ None \notin Tuners /\ None \notin Ids
        /\ csv \in [Tuners -> Csvs]
    BY <1>i, TunerConstants DEF TypeOK
  <1>p. PICK i \in Ids, t \in Tuners : i = id(x) /\ t = call[x].tuner
    BY <1>i
  <1>m. mapping[i] = t
    BY <1>f, <1>p DEF CallInv, CallKnows, at
  <1>c. csv[t].first = control[t] /\ csv[t].rest = {j \in Ids : mapping[j] = t} \ {control[t]}
    BY <1>f, FollowedList
  <1>u. free_clear(x) /\ UNCHANGED <<enabled, usageState>>
    BY StepAt DEF at, free_clear
  <1>1. CASE control[t] = i
    <2> DEFINE L == csv[t].rest
    <2>1. \A j \in L : j \in Ids /\ mapping[j] = t /\ j # i
      BY <1>1, <1>c
    <2>2. /\ mapping' = [j \in Ids |-> IF j \in L THEN None ELSE mapping[j]]
          /\ csv' = [csv EXCEPT ![t].rest = csv[t].rest \ L]
          /\ Goto(x, "release") /\ UNCHANGED <<capacityLock, control>>
          /\ tuned' = tuned \ {mapping[j] : j \in {k \in L : csv[mapping[k]].first = k}}
      <3>1. {j \in L : mapping[j] = None} = {}
        BY <1>t, <2>1
      <3>2. mapping[id(x)] = t /\ mapping[call[x].req.id] = t /\ t # None /\ csv[t].first = id(x)
            /\ csv[t].first = call[x].req.id
        BY <1>1, <1>c, <1>m, <1>p, <1>t DEF id
      <3>3. \E done \in {L} :
              /\ mapping' = [j \in Ids |-> IF j \in done THEN None ELSE mapping[j]]
              /\ csv' = [csv EXCEPT ![t].rest = csv[t].rest \ done]
              /\ IF done = L THEN Goto(x, "release") /\ UNCHANGED capacityLock
                 ELSE Leave(x, TRUE)
              /\ tuned' = tuned \ {mapping[j] : j \in {k \in done : csv[mapping[k]].first = k}}
              /\ UNCHANGED control
        <4>1. call[x].tuner = t /\ call[x].req.id = i
          BY <1>p DEF id
        <4>2. csv[mapping[i]].first = i /\ mapping[i] # None
          BY <3>2, <1>p, <1>m
        <4>3. \E done \in IF {j \in csv[mapping[i]].rest : mapping[j] = None} = {}
                          THEN {csv[mapping[i]].rest}
                          ELSE SUBSET (csv[mapping[i]].rest
                                        \ {j \in csv[mapping[i]].rest : mapping[j] = None}) :
              /\ mapping' = [j \in Ids |-> IF j \in done THEN None ELSE mapping[j]]
              /\ csv' = [csv EXCEPT ![t].rest = csv[t].rest \ done]
              /\ IF done = csv[mapping[i]].rest THEN Goto(x, "release") /\ UNCHANGED capacityLock
                 ELSE Leave(x, TRUE)
              /\ tuned' = tuned \ {mapping[j] : j \in {k \in done : csv[mapping[k]].first = k}}
              /\ UNCHANGED control
          BY <1>u, <4>1, <4>2 DEF free_clear
        <4> QED BY <1>m, <3>1, <4>3
      <3> QED BY <3>3
    <2>3. tuned' = tuned
      <3>1. {k \in L : csv[mapping[k]].first = k} = {}
        BY <1>1, <1>c, <2>1
      <3> QED BY <2>2, <3>1
    <2>4. csv'[t] = [csv[t] EXCEPT !.rest = {}] /\ \A u \in Tuners \ {t} : csv'[u] = csv[u]
      BY <1>t, <2>2
    <2>9. csv'[t].first = i /\ csv'[t].rest = {} /\ csv'[t] = [first |-> i, rest |-> {}]
      <3>1. csv[t] \in [first : Ids \cup {None}, rest : SUBSET Ids] /\ csv[t].first = i
        BY <1>1, <1>c, <1>t DEF Csvs
      <3> QED BY <2>4, <3>1
    <2>5. ListsTrue'
      <3>1. {j \in Ids : mapping'[j] = t} \ {control'[t]} = {}
        BY <1>1, <1>c, <1>t, <2>2
      <3>2. csv'[t] = createAllocationIdCsv(t, control', mapping')
        BY <1>1, <2>2, <2>9, <3>1 DEF createAllocationIdCsv
      <3>3. ASSUME NEW u \in Tuners \ {t} PROVE csv'[u] = createAllocationIdCsv(u, control', mapping')
        <4>1. \A j \in Ids : mapping'[j] = u <=> mapping[j] = u
          BY <1>t, <2>1, <2>2
        <4>2. createAllocationIdCsv(u, control', mapping') = createAllocationIdCsv(u, control, mapping)
          BY <2>2, <4>1 DEF createAllocationIdCsv
        <4> QED BY <1>f, <2>4, <4>2 DEF ListsTrue
      <3> QED BY <3>2, <3>3 DEF ListsTrue
    <2>6. Carried'
      BY <1>f, <1>t, <2>2 DEF Carried
    <2>7. goesOn(x, "release") /\ call'[x].tuner = t
      BY <1>i, <1>p, <2>2, GotoGoesOn DEF at
    <2>8. id(x)' = i /\ call'[x].pc = "release" /\ call'[x] # Idle /\ mapping'[id(x)'] = t
      <3>1. mapping'[i] = mapping[i]
        BY <2>1, <2>2
      <3>2. id(x)' = i /\ call'[x].pc = "release" /\ call'[x] # Idle
        BY <1>p, <2>7 DEF goesOn, id
      <3> QED BY <1>m, <3>1, <3>2
    <2>10. failing(x)' <=> failing(x)
      BY <1>m, <1>p, <2>2, <2>8 DEF failing, at
    <2>11. DeviceFollows(x)'
      BY <1>f, <1>m, <1>p, <1>u, <2>2, <2>3, <2>8, <2>10 DEF DeviceFollows
    <2>12. UsageFollows(x)'
      BY <1>f, <1>m, <1>p, <1>u, <2>2, <2>8, <2>10 DEF UsageFollows, at
    <2>13. CallKnows(x)'
      BY <1>1, <2>2, <2>7, <2>8, <2>9 DEF CallKnows, at
    <2>14. ListsFollow(x)'
      BY <2>5 DEF ListsTrue, ListsFollow
    <2> QED BY <2>6, <2>8, <2>11, <2>12, <2>13, <2>14 DEF Lands, CallInv
  <1>2. CASE control[t] # i
    <2>1. i \in csv[t].rest /\ csv[t].first # i /\ t # None
      BY <1>2, <1>c, <1>m, <1>t
    <2>2. /\ RemoveMapping(i) /\ csv' = [csv EXCEPT ![t].rest = csv[t].rest \ {i}]
          /\ Leave(x, FALSE) /\ UNCHANGED control
      <3>1. call[x].req.id = i
        BY <1>p DEF id
      <3> QED BY <1>m, <1>p, <1>u, <2>1, <3>1 DEF free_clear
    <2>3. mapping' = [mapping EXCEPT ![i] = None] /\ tuned' = tuned
      BY <1>m, <2>1, <2>2 DEF RemoveMapping
    <2>4. csv'[t] = [csv[t] EXCEPT !.rest = csv[t].rest \ {i}]
          /\ \A u \in Tuners \ {t} : csv'[u] = csv[u]
      BY <1>t, <2>2
    <2>5. ListsTrue'
      <3>1. {j \in Ids : mapping'[j] = t} \ {control'[t]} = csv[t].rest \ {i}
        BY <1>c, <1>t, <2>2, <2>3
      <3>2. csv'[t] = [first |-> control[t], rest |-> csv[t].rest \ {i}]
        <4>1. csv[t] \in [first : Ids \cup {None}, rest : SUBSET Ids]
          BY <1>t DEF Csvs
        <4> QED BY <1>c, <2>4, <4>1
      <3>3. csv'[t] = createAllocationIdCsv(t, control', mapping')
        BY <2>2, <3>1, <3>2 DEF createAllocationIdCsv
      <3>4. \A u \in Tuners \ {t} : createAllocationIdCsv(u, control', mapping')
                                    = createAllocationIdCsv(u, control, mapping)
        BY <1>i, <1>m, <2>2, <2>3, OtherLists
      <3> QED BY <1>f, <2>4, <3>3, <3>4 DEF ListsTrue
    <2>6. Carried'
      BY <1>f, <1>t, <2>2, <2>3 DEF Carried
    <2>7. ~failing(x)
      BY <1>2, <1>f, <1>m, <1>p
    <2>8. DeviceTrue' /\ usageState' = Usage(control')
      BY <1>f, <1>u, <2>2, <2>3, <2>7 DEF DeviceTrue
    <2> QED BY <1>i, <2>2, <2>5, <2>6, <2>8, LeaveLands DEF at
  <1> QED BY <1>1, <1>2

\* The tuner is given up.
LEMMA ReleasingLands ==
    ASSUME TunerInv, serial, NEW x \in Threads, Step(x), at(x, {"release", "wipe"})
    PROVE  Carried' /\ Lands(x)'
  <1>i. TypeOK /\ call[x] # Idle /\ id(x) \in Ids /\ call[x].tuner \in Tuners
    BY StepsAdvance, CallFields DEF TunerInv, advances, at
  <1>f. /\ Carried /\ ListsTrue /\ DeviceFollows(x) /\ UsageFollows(x) /\ CallKnows(x)
        /\ ~failing(x) => DeviceTrue
    BY <1>i, CallFinds DEF at, CallInv
  <1>t. /\ mapping \in [Ids -> Tuners \cup {None}] /\ None \notin Tuners /\ None \notin Ids
        /\ control \in [Tuners -> Ids \cup {None}] /\ csv \in [Tuners -> Csvs]
    BY <1>i, TunerConstants DEF TypeOK
  <1>p. PICK i \in Ids, t \in Tuners : i = id(x) /\ t = call[x].tuner
    BY <1>i
  <1>c. csv[t].first = control[t] /\ csv[t].rest = {j \in Ids : mapping[j] = t} \ {control[t]}
    BY <1>f, FollowedList
  <1>1. ASSUME call[x].pc = "release" PROVE Carried' /\ Lands(x)'
    <2>1. free_release(x) /\ mapping[i] = t /\ csv[t].rest = {} /\ control[t] = i
      BY <1>1, <1>f, <1>p, StepAt DEF CallKnows, at
    <2>2. /\ enabled' = enabled \ {t} /\ RemoveMapping(i) /\ csv' = [csv EXCEPT ![t] = NoCsv]
          /\ control' = [control EXCEPT ![t] = None]
          /\ Goto(x, "wipe") /\ UNCHANGED <<capacityLock, usageState>>
      <3>1. call[x].req.id = i /\ mapping[i] # None
        BY <1>p, <1>t, <2>1 DEF id
      <3> QED BY <1>p, <2>1, <3>1 DEF free_release
    <2>3. mapping' = [mapping EXCEPT ![i] = None] /\ tuned' = tuned \ {t}
      BY <1>c, <2>1, <2>2 DEF RemoveMapping
    <2>4. \A j \in Ids : mapping'[j] # t
      BY <1>c, <1>t, <2>1, <2>3
    <2>5. ListsTrue'
      <3>1. createAllocationIdCsv(t, control', mapping') = NoCsv
        <4>1. control'[t] = None /\ {j \in Ids : mapping'[j] = t} \ {control'[t]} = {}
          BY <1>t, <2>2, <2>4
        <4> QED BY <4>1 DEF createAllocationIdCsv, NoCsv
      <3>2. \A u \in Tuners \ {t} : createAllocationIdCsv(u, control', mapping')
                                    = createAllocationIdCsv(u, control, mapping)
        BY <1>i, <1>t, <2>1, <2>2, <2>3, OtherLists
      <3> QED BY <1>f, <1>t, <2>2, <3>1, <3>2 DEF ListsTrue
    <2>6. Carried'
      BY <1>f, <1>t, <2>2, <2>3, <2>4 DEF Carried
    <2>7. DeviceTrue'
      <3>1. ASSUME NEW u \in Tuners \ {t} PROVE /\ u \in tuned <=> control[u] # None
                                                /\ u \in enabled <=> u \in tuned
        BY <1>f, <1>p, <2>1 DEF DeviceFollows
      <3> QED BY <1>t, <2>2, <2>3, <3>1 DEF DeviceTrue
    <2>8. goesOn(x, "wipe") /\ call'[x].tuner = t
      BY <1>1, <1>i, <1>p, <2>2, GotoGoesOn DEF at
    <2>9. ~failing(x)' /\ CallKnows(x)'
      <3>1. control'[t] = None
        BY <1>t, <2>2
      <3> QED BY <2>8, <3>1 DEF goesOn, failing, CallKnows, at
    <2>10. capacityLock' = x \/ usageState' = Usage(control')
      <3>1. CASE capacityLock # x
        <4>1. failing(x)
          BY <1>1, <1>p, <1>t, <2>1, <3>1 DEF failing, at
        <4>2. usageState = Usage([control EXCEPT ![t] = None])
          BY <1>f, <1>p, <2>1, <4>1 DEF UsageFollows
        <4> QED BY <2>2, <4>2
      <3>2. CASE capacityLock = x
        BY <2>2, <3>2
      <3> QED BY <3>1, <3>2
    <2>11. ListsFollow(x)'
      BY <2>5 DEF ListsTrue, ListsFollow
    <2> QED BY <2>6, <2>7, <2>8, <2>9, <2>10, <2>11, SoundLands
  <1>2. ASSUME call[x].pc = "wipe" PROVE Carried' /\ Lands(x)'
    <2>1. /\ csv' = [csv EXCEPT ![t] = NoCsv] /\ Leave(x, FALSE)
          /\ UNCHANGED <<control, mapping, device, usageState>>
      BY <1>2, <1>p, StepAt DEF free_wipe
    <2>2. control[t] = None /\ ~failing(x)
      BY <1>2, <1>f, <1>p DEF CallKnows, failing, at
    <2>3. csv[t] = NoCsv
      <3>1. {j \in Ids : mapping[j] = t} \ {control[t]} = {}
        BY <1>f, <1>t, <2>2 DEF Carried
      <3> QED BY <1>f, <2>2, <3>1 DEF ListsTrue, createAllocationIdCsv, NoCsv
    <2>4. csv' = csv
      BY <1>t, <2>1, <2>3
    <2>5. Carried' /\ ListsTrue' /\ DeviceTrue'
      BY <1>f, <2>1, <2>2, <2>4 DEF Carried, ListsTrue, DeviceTrue, device
    <2>6. capacityLock # x => usageState' = Usage(control')
      BY <1>2, <1>f, <2>1, <2>2 DEF UsageFollows, at
    <2> QED BY <1>2, <1>i, <2>1, <2>5, <2>6, LeaveLands DEF at
  <1> QED BY <1>1, <1>2 DEF at

\* A listener leaves its tuner.
LEMMA UnlistingLands ==
    ASSUME TunerInv, serial, NEW x \in Threads, Step(x), at(x, {"notcontrol", "unlist", "relist"})
    PROVE  Carried' /\ Lands(x)'
  <1>i. /\ TypeOK /\ call[x] # Idle /\ id(x) \in Ids /\ call[x].tuner \in Tuners
        /\ capacityLock = x
    BY StepsAdvance, CallFields DEF TunerInv, advances, LockHeld, at
  <1>f. /\ Carried /\ ListsFollow(x) /\ CallKnows(x) /\ DeviceTrue /\ usageState = Usage(control)
        /\ at(x, {"notcontrol"}) => ListsTrue
    BY <1>i, CallFinds DEF at, failing, CallInv
  <1>t. /\ mapping \in [Ids -> Tuners \cup {None}] /\ None \notin Tuners /\ None \notin Ids
        /\ csv \in [Tuners -> Csvs]
    BY <1>i, TunerConstants DEF TypeOK
  <1>p. PICK i \in Ids, t \in Tuners : i = id(x) /\ t = call[x].tuner
    BY <1>i
  <1>1. ASSUME call[x].pc = "notcontrol" PROVE Carried' /\ Lands(x)'
    <2>1. unlisten_map(x) /\ mapping[i] = t /\ ListsTrue
      BY <1>1, <1>f, <1>p, StepAt DEF CallKnows, at
    <2>c. csv[t].first = control[t] /\ csv[t].rest = {j \in Ids : mapping[j] = t} \ {control[t]}
      BY <2>1, FollowedList
    <2>u. UNCHANGED <<csv, control, enabled, usageState>>
      BY <2>1 DEF unlisten_map
    <2>2. CASE control[t] = i
      <3>1. Leave(x, TRUE) /\ UNCHANGED <<mapping, tuned>>
        BY <1>p, <2>1, <2>2 DEF unlisten_map, id
      <3>2. Carried' /\ ListsTrue' /\ DeviceTrue' /\ usageState' = Usage(control')
        BY <1>f, <2>1, <2>u, <3>1 DEF Carried, ListsTrue, DeviceTrue
      <3> QED BY <1>i, <3>1, <3>2, LeaveLands
    <2>3. CASE control[t] # i
      <3>1. RemoveMapping(i) /\ Goto(x, "unlist") /\ UNCHANGED capacityLock
        BY <1>p, <1>t, <2>1, <2>3 DEF unlisten_map, id
      <3>2. mapping' = [mapping EXCEPT ![i] = None] /\ tuned' = tuned
        BY <2>1, <2>3, <2>c, <3>1 DEF RemoveMapping
      <3>3. goesOn(x, "unlist") /\ call'[x].tuner = t
        BY <1>1, <1>i, <1>p, <3>1, GotoGoesOn DEF at
      <3>4. id(x)' = i /\ call'[x].pc = "unlist"
        BY <1>p, <3>3 DEF goesOn, id
      <3>5. Carried' /\ DeviceTrue' /\ usageState' = Usage(control')
        BY <1>f, <1>t, <2>u, <3>2 DEF Carried, DeviceTrue
      <3>6. control[t] # None
        BY <1>f, <1>t, <2>1 DEF Carried
      <3>7. /\ mapping'[i] = None
            /\ csv[t].rest \ {i} = {j \in Ids : mapping'[j] = t} \ {control[t]}
        BY <1>t, <2>1, <2>c, <3>2
      <3>8. CallKnows(x)'
        <4>1. /\ control'[t] # None /\ control'[t] # id(x)' /\ mapping'[id(x)'] = None
              /\ csv'[t].first = control'[t]
              /\ csv'[t].rest \ {id(x)'} = {j \in Ids : mapping'[j] = t} \ {control'[t]}
          BY <2>3, <2>c, <2>u, <3>4, <3>6, <3>7
        <4> QED BY <3>3, <3>4, <4>1 DEF CallKnows, at
      <3>9. ~failing(x)'
        BY <3>4 DEF failing, at
      <3>10. ListsFollow(x)'
        <4>1. \A u \in Tuners \ {t} : createAllocationIdCsv(u, control', mapping')
                                      = createAllocationIdCsv(u, control, mapping)
          BY <1>i, <2>1, <2>u, <3>2, OtherLists
        <4>2. \A u \in Tuners \ {t} : csv'[u] = createAllocationIdCsv(u, control', mapping')
          BY <2>1, <2>u, <4>1 DEF ListsTrue
        <4> QED BY <3>3, <3>4, <4>2 DEF ListsFollow, at
      <3> QED BY <3>3, <3>5, <3>8, <3>9, <3>10, SoundLands
    <2> QED BY <2>2, <2>3
  <1>2. ASSUME call[x].pc = "unlist" PROVE Carried' /\ Lands(x)'
    <2>0. unlisten_read(x)
      BY <1>2, StepAt
    <2>1. PICK d \in WithoutId(csv[t], i) :
            call' = [call EXCEPT ![x] = [pc |-> "relist", req |-> call[x].req, tuner |-> t,
                                         csv |-> d]]
      BY <1>p, <2>0 DEF unlisten_read, id
    <2>2. UNCHANGED <<tables, device, usageState, capacityLock>>
      BY <2>0 DEF unlisten_read
    <2>3. d = createAllocationIdCsv(t, control, mapping) /\ d \in Csvs
      <3>1. /\ control[t] # i /\ csv[t].first = control[t]
            /\ csv[t].rest \ {i} = {j \in Ids : mapping[j] = t} \ {control[t]}
        BY <1>2, <1>f, <1>p DEF CallKnows, at
      <3>2. d = [csv[t] EXCEPT !.rest = csv[t].rest \ {i}]
        BY <2>1, <3>1 DEF WithoutId
      <3>3. csv[t] \in [first : Ids \cup {None}, rest : SUBSET Ids]
        BY <1>t DEF Csvs
      <3>4. d = [first |-> control[t], rest |-> csv[t].rest \ {i}]
        BY <3>1, <3>2, <3>3
      <3> QED BY <1>i, <3>1, <3>4, CsvTypes DEF createAllocationIdCsv
    <2>4. PICK c : c = [pc |-> "relist", req |-> call[x].req, tuner |-> t, csv |-> d]
      OBVIOUS
    <2>5. c \in Calls \ {Idle}
      <3>1. call[x].req \in AnyRequest
        BY <1>i, CallFields
      <3> QED BY <2>3, <2>4, <3>1 DEF Calls, Idle
    <2>6. goesOn(x, "relist") /\ call'[x] = c
      BY <1>i, <2>1, <2>4, <2>5, PutGoesOn
    <2>7. call'[x].tuner = t /\ call'[x].csv = createAllocationIdCsv(t, control', mapping')
      BY <2>2, <2>3, <2>4, <2>6 DEF tables
    <2>8. CallKnows(x)' /\ ~failing(x)'
      BY <2>6, <2>7 DEF CallKnows, failing, goesOn, at
    <2>9. ListsFollow(x)'
      BY <1>f, <1>p, <2>2, <2>6, <2>7 DEF ListsFollow, goesOn, at, tables
    <2>10. Carried' /\ DeviceTrue' /\ usageState' = Usage(control')
      BY <1>f, <2>2 DEF Carried, DeviceTrue, tables, device
    <2> QED BY <2>6, <2>8, <2>9, <2>10, SoundLands
  <1>3. ASSUME call[x].pc = "relist" PROVE Carried' /\ Lands(x)'
    <2>1. /\ csv' = [csv EXCEPT ![t] = call[x].csv] /\ Leave(x, FALSE)
          /\ UNCHANGED <<control, mapping, device, usageState>>
      BY <1>3, <1>p, StepAt DEF unlisten_write
    <2>2. call[x].csv = createAllocationIdCsv(t, control, mapping)
      BY <1>3, <1>f, <1>p DEF CallKnows, at
    <2>3. ListsTrue'
      BY <1>f, <1>p, <1>t, <2>1, <2>2 DEF ListsFollow, ListsTrue
    <2>4. Carried' /\ DeviceTrue' /\ usageState' = Usage(control')
      BY <1>f, <2>1 DEF Carried, DeviceTrue, device
    <2> QED BY <1>3, <1>i, <2>1, <2>3, <2>4, LeaveLands DEF at
  <1> QED BY <1>1, <1>2, <1>3 DEF at

\* The usage state is computed and set.
LEMMA UsageLands ==
    ASSUME TunerInv, serial, NEW x \in Threads, Step(x), at(x, {"usage", "setusage"})
    PROVE  Carried' /\ Lands(x)'
  <1>i. TypeOK /\ call[x] # Idle
    BY StepsAdvance DEF TunerInv, advances
  <1>f. Carried /\ ListsTrue /\ DeviceTrue /\ CallKnows(x)
    BY <1>i, CallFinds DEF at, failing, CallInv
  <1>u. UNCHANGED <<tables, device>>
    BY StepAt DEF at, deallocate_usage, deallocate_setusage
  <1>0. Carried' /\ ListsTrue' /\ DeviceTrue'
    BY <1>f, <1>u DEF Carried, ListsTrue, DeviceTrue, tables, device
  <1>1. ASSUME call[x].pc = "usage" PROVE Lands(x)'
    <2>1. PICK c : c = [pc |-> "setusage", req |-> call[x].req, usage |-> Usage(control)]
      OBVIOUS
    <2>2. call' = [call EXCEPT ![x] = c]
      BY <1>1, <2>1, StepAt DEF deallocate_usage
    <2>3. c \in Calls \ {Idle}
      <3>1. Usage(control) \in Usages
        BY DEF Usage, Usages
      <3>2. call[x].req \in AnyRequest
        BY <1>i, CallFields
      <3> QED BY <2>1, <3>1, <3>2 DEF Calls, Idle
    <2>4. goesOn(x, "setusage") /\ call'[x] = c
      BY <1>i, <2>1, <2>2, <2>3, PutGoesOn
    <2>5. call'[x].usage = Usage(control')
      BY <1>u, <2>1, <2>4 DEF tables
    <2>6. CallKnows(x)' /\ ~failing(x)'
      BY <2>4, <2>5 DEF CallKnows, failing, goesOn, at
    <2>7. ListsFollow(x)'
      BY <1>0 DEF ListsTrue, ListsFollow
    <2> QED BY <1>0, <2>4, <2>6, <2>7, SoundLands
  <1>2. ASSUME call[x].pc = "setusage" PROVE Lands(x)'
    <2>1. usageState' = call[x].usage /\ Return(x)
      BY <1>2, StepAt DEF deallocate_setusage
    <2>2. call[x].usage = Usage(control)
      BY <1>2, <1>f DEF CallKnows, at
    <2>3. usageState' = Usage(control')
      BY <1>u, <2>1, <2>2 DEF tables
    <2> QED BY <1>0, <1>i, <2>1, <2>3, ReturnLands
  <1> QED BY <1>0, <1>1, <1>2 DEF at

\* The invariant of calls that do not overlap is kept.
LEMMA SerialKept ==
    ASSUME TunerInv, NEW x \in Threads, Step(x)
    PROVE  SerialInv'
  <1>1. serial' = serial
    BY SerialFixed DEF Next
  <1>2. SUFFICES ASSUME serial
                 PROVE  /\ Carried' /\ (Quiet' => BetweenCalls')
                        /\ \A y \in Threads : call'[y] # Idle => CallInv(y)'
    BY <1>1 DEF SerialInv
  <1>3. TypeOK /\ CallsApart /\ advances(x) /\ call[x] # Idle
    BY StepsAdvance DEF TunerInv, advances
  <1>4. \A y \in Threads \ {x} : call'[y] = Idle
    BY <1>2, <1>3 DEF advances, ends, goesOn, CallsApart
  <1>5. at(x, {"check", "undo", "listen", "existing", "find", "unlisten", "allocate", "append",
               "csv", "assign", "clear", "release", "wipe", "notcontrol", "unlist", "relist",
               "usage", "setusage"})
    <2>1. call[x] \in Calls
      BY <1>3, CallFields
    <2> QED BY <1>3, <2>1 DEF Calls, at
  <1>6. Carried' /\ Lands(x)'
    BY <1>2, <1>5, LookingLands, AllocatingLands, ListeningLands, ClearingLands, ReleasingLands,
       UnlistingLands, UsageLands DEF at
  <1> QED BY <1>4, <1>6 DEF Lands, Quiet

----------------------------------------------------------------------------
(* The invariant holds.                                                    *)

\* The invariant holds at the start.
LEMMA TunerInit ==
    Init => TunerInv
  <1> SUFFICES ASSUME Init PROVE TunerInv
    OBVIOUS
  <1>n. None \notin Tuners /\ None \notin Ids /\ None \notin Threads
    BY TunerConstants
  <1>0. /\ \A t \in Tuners : csv[t] = NoCsv /\ control[t] = None
        /\ \A i \in Ids : mapping[i] = None /\ made[i] = 0
        /\ \A y \in Threads : call[y] = Idle
        /\ tuned = {} /\ enabled = {} /\ usageState = "IDLE" /\ capacityLock = None
    BY DEF Init
  <1>1. TypeOK
    <2>1. NoCsv \in Csvs /\ Idle \in Calls /\ "IDLE" \in Usages
      BY DEF NoCsv, Csvs, Calls, Usages
    <2> QED BY <2>1 DEF Init, TypeOK
  <1>2. EnabledControlled /\ ControlMapped /\ CallsApart
    BY <1>0 DEF EnabledControlled, ControlMapped, CallsApart
  <1>3. \A y \in Threads : \A pcs : "idle" \notin pcs => ~at(y, pcs)
    BY <1>0 DEF at, Idle
  <1>4. LockHeld /\ OwnMapping
    BY <1>0, <1>3, <1>n DEF LockHeld, OwnMapping
  <1>5. \A i \in Ids : ~listed(i)
    <2>1. NoCsv.rest = {}
      BY DEF NoCsv
    <2> QED BY <1>0, <1>3, <2>1 DEF listed
  <1>6. RestListens /\ FirstUse
    BY <1>0, <1>3, <1>5 DEF RestListens, FirstUse
  <1>7. SerialInv
    <2>1. \A t \in Tuners : createAllocationIdCsv(t, control, mapping) = NoCsv
      BY <1>0, <1>n DEF createAllocationIdCsv, NoCsv
    <2>2. usageState = Usage(control)
      <3>1. {t \in Tuners : control[t] # None} = {}
        BY <1>0
      <3>2. Cardinality({t \in Tuners : control[t] # None}) = 0
        BY <3>1, FS_EmptySet
      <3> QED BY <1>0, <3>2 DEF Usage
    <2>3. ListsTrue /\ DeviceTrue /\ Carried
      BY <1>0, <2>1 DEF ListsTrue, DeviceTrue, Carried
    <2> QED BY <1>0, <2>2, <2>3 DEF SerialInv, BetweenCalls
  <1> QED BY <1>1, <1>2, <1>4, <1>6, <1>7 DEF TunerInv

\* The parts that are about the tables alone hold while these do not change.
LEMMA TablesAlone ==
    ASSUME EnabledControlled, ControlMapped, UNCHANGED <<tables, device>>
    PROVE  EnabledControlled' /\ ControlMapped'
  BY DEF EnabledControlled, ControlMapped, tables, device

\* A request that is refused changes the count of its ID.
LEMMA RefusedKeeps ==
    ASSUME TunerInv, [Next]_vars, refused \/ UNCHANGED vars
    PROVE  TunerInv'
  <1>i. /\ TypeOK /\ EnabledControlled /\ ControlMapped /\ CallsApart /\ LockHeld /\ OwnMapping
        /\ RestListens /\ FirstUse /\ SerialInv
    BY DEF TunerInv
  <1>u. UNCHANGED <<csv, control, mapping, tuned, enabled, usageState, capacityLock, call, serial>>
    BY DEF refused, vars, tables, device, fixed
  <1>1. TypeOK' /\ CallsApart' /\ LockHeld'
    BY <1>i, TypesKept, ApartKept, LockKept
  <1>2. EnabledControlled' /\ ControlMapped'
    BY <1>i, <1>u, TablesAlone DEF tables, device
  <1>3. OwnMapping'
    BY <1>i, <1>u DEF OwnMapping, at, id
  <1>4. \A i \in Ids : listed(i)' <=> listed(i)
    BY <1>u DEF listed, at
  <1>5. RestListens'
    BY <1>i, <1>u, <1>4 DEF RestListens
  <1>6. FirstUse'
    <2>1. ASSUME NEW i \in Ids, ~serial PROVE made[i] # 0 => made'[i] # 0
      <3>1. made \in [Ids -> Nat]
        BY <1>i DEF TypeOK
      <3>2. CASE UNCHANGED vars
        BY <3>2 DEF vars
      <3>3. CASE refused
        <4>1. PICK j \in Ids : made' = [made EXCEPT ![j] = made[j] + 1] /\ made[j] = 0
          BY <2>1, <3>3 DEF refused
        <4> QED BY <3>1, <4>1
      <3> QED BY <3>2, <3>3
    <2>2. \A y \in Threads : call[y] # Idle => id(y) \in Ids
      BY <1>i, CallFields
    <2>3. ASSUME ~serial,
                 NEW y \in Threads, at(y, {"check", "allocate", "listen", "existing", "append"})'
          PROVE  mapping'[id(y)'] = None /\ ~listed(id(y))' /\ made'[id(y)'] # 0
      <3>1. at(y, {"check", "allocate", "listen", "existing", "append"})
        BY <1>u, <2>3 DEF at
      <3>2. PICK i \in Ids : i = id(y)
        BY <2>2, <3>1 DEF at, Idle
      <3>3. mapping[i] = None /\ ~listed(i) /\ made[i] # 0
        BY <1>i, <2>3, <3>1, <3>2 DEF FirstUse
      <3>4. id(y)' = i /\ (listed(id(y))' <=> listed(i)')
        BY <1>u, <3>2 DEF id, listed
      <3> QED BY <1>u, <1>4, <2>1, <2>3, <3>3, <3>4
    <2>4. ASSUME ~serial, NEW i \in Ids, made'[i] = 0 PROVE mapping'[i] = None /\ ~listed(i)'
      <3>1. made[i] = 0
        BY <2>1, <2>4
      <3> QED BY <1>i, <1>u, <1>4, <2>4, <3>1 DEF FirstUse
    <2> QED BY <1>u, <2>3, <2>4 DEF FirstUse
  <1>7. SerialInv'
    <2>1. Carried' <=> Carried
      BY <1>u DEF Carried
    <2>2. (Quiet' <=> Quiet) /\ (BetweenCalls' <=> BetweenCalls)
      BY <1>u DEF Quiet, BetweenCalls, ListsTrue, DeviceTrue
    <2>3. ASSUME NEW y \in Threads PROVE CallInv(y)' <=> CallInv(y)
      <3>1. failing(y)' <=> failing(y)
        BY <1>u DEF failing, at, id
      <3>2. ListsFollow(y)' <=> ListsFollow(y)
        BY <1>u DEF ListsFollow, at
      <3>3. DeviceFollows(y)' <=> DeviceFollows(y)
        BY <1>u, <3>1 DEF DeviceFollows, id
      <3>4. UsageFollows(y)' <=> UsageFollows(y)
        BY <1>u, <3>1 DEF UsageFollows, at, id
      <3>5. CallKnows(y)' <=> CallKnows(y)
        BY <1>u DEF CallKnows, at, id
      <3> QED BY <3>2, <3>3, <3>4, <3>5 DEF CallInv
    <2> QED BY <1>i, <1>u, <2>1, <2>2, <2>3 DEF SerialInv
  <1> QED BY <1>1, <1>2, <1>3, <1>5, <1>6, <1>7 DEF TunerInv

\* A call that begins.
LEMMA StartKeeps ==
    ASSUME TunerInv, [Next]_vars, NEW x \in Threads, starts(x)
    PROVE  TunerInv'
  <1>i. /\ TypeOK /\ EnabledControlled /\ ControlMapped /\ CallsApart /\ LockHeld /\ OwnMapping
        /\ RestListens /\ FirstUse /\ SerialInv
    BY DEF TunerInv
  <1>p. PICK r, pc :
          /\ begins(x, r, pc)
          /\ UNCHANGED <<tables, device, usageState, fixed>>
          /\ \/ /\ pc \in {"check", "listen"} /\ UNCHANGED capacityLock
                /\ made[r.id] < (IF serial THEN MaxAllocations ELSE 1)
                /\ made' = [made EXCEPT ![r.id] = made[r.id] + 1]
             \/ /\ pc \in {"find", "unlisten"} /\ capacityLock = None /\ capacityLock' = x
                /\ UNCHANGED made
    BY DEF starts
  <1>b. /\ call[x] = Idle /\ r.id \in Ids
        /\ \A y \in Threads \ {x} : call'[y] = call[y]
        /\ call'[x] = [pc |-> pc, req |-> r, tuner |-> None] /\ call'[x] # Idle
    BY <1>i, <1>p, BeginGoesOn
  <1>c. call'[x].pc = pc /\ id(x)' = r.id /\ pc \in {"check", "listen", "find", "unlisten"}
    BY <1>b, <1>p DEF id
  <1>d. Idle.pc = "idle"
    BY DEF Idle
  <1>u. UNCHANGED <<csv, control, mapping, tuned, enabled, usageState, serial>>
    BY <1>p DEF tables, device, fixed
  <1>1. TypeOK' /\ CallsApart' /\ LockHeld'
    BY <1>i, TypesKept, ApartKept, LockKept
  <1>2. EnabledControlled' /\ ControlMapped'
    BY <1>i, <1>u, TablesAlone DEF tables, device
  <1>3. OwnMapping'
    <2>1. \A y \in Threads \ {x} : id(y)' = id(y)
      BY <1>b DEF id
    <2> QED BY <1>b, <1>c, <1>i, <1>u, <2>1 DEF OwnMapping, at
  <1>4. \A i \in Ids : listed(i)' <=> listed(i)
    BY <1>b, <1>c, <1>d, <1>u DEF listed, at
  <1>5. RestListens'
    BY <1>i, <1>u, <1>4 DEF RestListens
  <1>6. FirstUse'
    <2> SUFFICES ASSUME ~serial
                 PROVE  /\ \A y \in Threads :
                             at(y, {"check", "allocate", "listen", "existing", "append"})' =>
                               mapping'[id(y)'] = None /\ ~listed(id(y))' /\ made'[id(y)'] # 0
                        /\ \A i \in Ids : made'[i] = 0 => mapping'[i] = None /\ ~listed(i)'
      BY <1>u DEF FirstUse
    <2>t. made \in [Ids -> Nat]
      BY <1>i DEF TypeOK
    <2>1. \A i \in Ids : made[i] # 0 => made'[i] # 0
      BY <1>b, <1>p, <2>t
    <2>2. \A i \in Ids : made'[i] = 0 => mapping'[i] = None /\ ~listed(i)'
      BY <1>i, <1>u, <1>4, <2>1 DEF FirstUse
    <2>3. ASSUME NEW y \in Threads, at(y, {"check", "allocate", "listen", "existing", "append"})'
          PROVE  mapping'[id(y)'] = None /\ ~listed(id(y))' /\ made'[id(y)'] # 0
      <3>1. CASE y = x
        <4>1. pc \in {"check", "listen"}
          BY <1>c, <2>3, <3>1 DEF at
        <4>2. made[r.id] = 0 /\ made'[r.id] # 0
          BY <1>b, <1>p, <2>t, <4>1
        <4>3. mapping[r.id] = None /\ ~listed(r.id)
          BY <1>b, <1>i, <4>2 DEF FirstUse
        <4>4. PICK i \in Ids : i = r.id
          BY <1>b
        <4>5. listed(id(y))' <=> listed(i)'
          BY <1>c, <3>1, <4>4 DEF listed
        <4>6. listed(r.id) <=> listed(i)
          BY <4>4
        <4>7. ~listed(i)'
          BY <1>4, <4>3, <4>6
        <4> QED BY <1>c, <1>u, <3>1, <4>2, <4>3, <4>5, <4>7
      <3>2. CASE y # x
        <4>1. call'[y] = call[y] /\ at(y, {"check", "allocate", "listen", "existing", "append"})
          BY <1>b, <2>3, <3>2 DEF at
        <4>2. PICK i \in Ids : i = id(y)
          BY <1>d, <1>i, <4>1, CallFields DEF at
        <4>3. mapping[i] = None /\ ~listed(i) /\ made[i] # 0
          BY <1>i, <4>1, <4>2 DEF FirstUse
        <4>4. id(y)' = i /\ (listed(id(y))' <=> listed(i)')
          BY <4>1, <4>2 DEF id, listed
        <4> QED BY <1>u, <1>4, <2>1, <4>3, <4>4
      <3> QED BY <3>1, <3>2
    <2> QED BY <2>2, <2>3
  <1>7. SerialInv'
    <2> SUFFICES ASSUME serial
                 PROVE  /\ Carried' /\ (Quiet' => BetweenCalls')
                        /\ \A y \in Threads : call'[y] # Idle => CallInv(y)'
      BY <1>u DEF SerialInv
    <2>1. Quiet
      BY <1>p DEF begins, MayCall
    <2>2. Carried /\ BetweenCalls
      BY <1>i, <2>1 DEF SerialInv
    <2>3. Carried' /\ ListsTrue' /\ DeviceTrue' /\ usageState' = Usage(control')
      BY <1>u, <2>2 DEF Carried, BetweenCalls, ListsTrue, DeviceTrue
    <2>4. ~Quiet'
      BY <1>b DEF Quiet
    <2>5. \A y \in Threads \ {x} : call'[y] = Idle
      BY <1>b, <2>1 DEF Quiet
    <2>6. CallInv(x)'
      <3>1. ~failing(x)'
        <4>1. pc = "find" => capacityLock' = x
          BY <1>p
        <4> QED BY <1>c, <4>1 DEF failing, at
      <3>2. ListsFollow(x)' /\ DeviceFollows(x)' /\ UsageFollows(x)'
        BY <2>3, <3>1 DEF ListsTrue, DeviceTrue, ListsFollow, DeviceFollows, UsageFollows
      <3>3. CallKnows(x)'
        BY <1>c DEF CallKnows, at
      <3> QED BY <3>2, <3>3 DEF CallInv
    <2> QED BY <2>3, <2>4, <2>5, <2>6
  <1> QED BY <1>1, <1>2, <1>3, <1>5, <1>6, <1>7 DEF TunerInv

\* Every step keeps the invariant.
LEMMA TunerInvStep ==
    ASSUME TunerInv, [Next]_vars
    PROVE  TunerInv'
  <1>i. TypeOK /\ EnabledControlled /\ CallsApart /\ LockHeld
    BY DEF TunerInv
  <1>1. ASSUME NEW x \in Threads, Step(x) PROVE TunerInv'
    <2>1. TypeOK' /\ CallsApart' /\ LockHeld'
      BY <1>i, TypesKept, ApartKept, LockKept
    <2>2. EnabledControlled' /\ ControlMapped' /\ OwnMapping' /\ RestListens' /\ FirstUse'
          /\ SerialInv'
      BY <1>i, <1>1, EnabledKept, ControlKept, OwnKept, RestKept, FirstUseKept, SerialKept
    <2> QED BY <2>1, <2>2 DEF TunerInv
  <1> QED BY <1>i, <1>1, RefusedKeeps, StartKeeps, StepKinds

\* The invariant holds of every behaviour.
LEMMA TunerInvariant ==
    Spec => []TunerInv
  <1>1. TunerInv /\ [Next]_vars => TunerInv'
    BY TunerInvStep
  <1> QED BY <1>1, TunerInit, PTL DEF Spec

\* The tables of a tuner device agree with each other and, between calls that do
\* not overlap, with the hardware, the lists and the usage state: of the calls of
\* allocateCapacity and deallocateCapacity, in any order of their sections.
THEOREM TablesAgree ==
    Spec => []AllocationsTrue
  <1>1. ASSUME TunerInv PROVE AllocationsTrue
    <2>1. TypeOK /\ EnabledControlled /\ ControlMapped
      BY <1>1 DEF TunerInv
    <2>2. serial /\ Quiet => ListsTrue /\ DeviceTrue /\ usageState = Usage(control)
      BY <1>1 DEF TunerInv, SerialInv, BetweenCalls
    <2>3. CsvTrue /\ UsageTrue
      BY <2>2 DEF CsvTrue, UsageTrue, ListsTrue
    <2>4. HardwareFollows
      <3>1. tuned \subseteq Tuners /\ enabled \subseteq Tuners
        BY <2>1 DEF TypeOK
      <3> QED BY <2>2, <3>1 DEF HardwareFollows, DeviceTrue
    <2> QED BY <2>1, <2>3, <2>4 DEF AllocationsTrue
  <1>2. TunerInv => AllocationsTrue
    BY <1>1
  <1> QED BY <1>2, TunerInvariant, PTL

----------------------------------------------------------------------------
(* The promise of TunerLedger.                                             *)

\* The ledger of the tables.
book ==
    [i \in Ids |-> IF ~serial \/ mapping[i] = None THEN None
                   ELSE [tuner |-> mapping[i],
                         role |-> IF control[mapping[i]] = i THEN "control" ELSE "listener"]]
entry(t, role) == [tuner |-> t, role |-> role]

\* What is written of an ID.
LEMMA BookEntries ==
    ASSUME TypeOK, serial, NEW i \in Ids, NEW t \in Tuners
    PROVE  /\ book[i] = None <=> mapping[i] = None
           /\ book[i] = entry(t, "control") <=> mapping[i] = t /\ control[t] = i
           /\ book[i] = entry(t, "listener") <=> mapping[i] = t /\ control[t] # i
  <1>t. mapping[i] \in Tuners \cup {None} /\ None \notin Tuners
    BY TunerConstants DEF TypeOK
  <1>n. \A u \in Tuners : entry(u, "control") # None /\ entry(u, "listener") # None
    BY TunerConstants DEF entry
  <1>e. \A u, v : /\ entry(u, "control") = entry(v, "control") => u = v
                  /\ entry(u, "listener") = entry(v, "listener") => u = v
                  /\ entry(u, "control") # entry(v, "listener")
    BY DEF entry
  <1>1. CASE mapping[i] = None
    <2>1. book[i] = None
      BY <1>1 DEF book
    <2> QED BY <1>1, <1>n, <1>t, <2>1
  <1>2. CASE mapping[i] \in Tuners
    <2>1. book[i] = IF control[mapping[i]] = i THEN entry(mapping[i], "control")
                    ELSE entry(mapping[i], "listener")
      BY <1>2, <1>t DEF book, entry
    <2> QED BY <1>2, <1>e, <1>n, <1>t, <2>1
  <1> QED BY <1>t, <1>1, <1>2

\* The entry of an ID is kept with its tuner and the controller of that.
LEMMA EntryKept ==
    ASSUME TypeOK, serial, serial', NEW i \in Ids, mapping'[i] = mapping[i],
           mapping[i] # None =>
             (control'[mapping[i]] = i <=> control[mapping[i]] = i)
    PROVE  book'[i] = book[i]
  BY DEF book

\* The actions of the ledger, said of the book.
LEMMA BookActions ==
    ASSUME NEW i \in Ids, NEW t \in Tuners, NEW L \in SUBSET Ids
    PROVE  /\ Ledger!Control(i, t) <=>
                /\ book[i] = None /\ \A j \in Ids : book[j] # entry(t, "control")
                /\ book' = [book EXCEPT ![i] = entry(t, "control")]
           /\ Ledger!Listen(i, t) <=>
                /\ book[i] = None /\ \E j \in Ids : book[j] = entry(t, "control")
                /\ book' = [book EXCEPT ![i] = entry(t, "listener")]
           /\ Ledger!FreeControl(i, t) <=>
                /\ book[i] = entry(t, "control")
                /\ {j \in Ids : book[j] = entry(t, "listener")} = {}
                /\ book' = [book EXCEPT ![i] = None]
           /\ Ledger!FreeListeners(t, L) <=>
                /\ L # {} /\ L \subseteq {j \in Ids : book[j] = entry(t, "listener")}
                /\ book' = [j \in Ids |-> IF j \in L THEN None ELSE book[j]]
  <1>1. \A u, role : Ledger!Entry(u, role) = entry(u, role)
    BY DEF Ledger!Entry, entry
  <1>2. Ledger!Control(i, t) <=>
                /\ book[i] = None /\ ~Ledger!Controlled(t)
                /\ book' = [book EXCEPT ![i] = Ledger!Entry(t, "control")]
    BY DEF Ledger!Control, book
  <1>3. Ledger!Controlled(t) <=> \E j \in Ids : book[j] = Ledger!Entry(t, "control")
    BY DEF Ledger!Controlled, book
  <1>4. Ledger!Listen(i, t) <=>
                /\ book[i] = None /\ Ledger!Controlled(t)
                /\ book' = [book EXCEPT ![i] = Ledger!Entry(t, "listener")]
    BY DEF Ledger!Listen, book
  <1>5. Ledger!Listeners(t) = {j \in Ids : book[j] = Ledger!Entry(t, "listener")}
    BY DEF Ledger!Listeners, book
  <1>6. Ledger!FreeControl(i, t) <=>
                /\ book[i] = Ledger!Entry(t, "control") /\ Ledger!Listeners(t) = {}
                /\ book' = [book EXCEPT ![i] = None]
    BY DEF Ledger!FreeControl, book
  <1>7. Ledger!FreeListeners(t, L) <=>
                /\ L # {} /\ L \subseteq Ledger!Listeners(t)
                /\ book' = [j \in Ids |-> IF j \in L THEN None ELSE book[j]]
    BY DEF Ledger!FreeListeners, book
  <1> QED BY <1>1, <1>2, <1>3, <1>4, <1>5, <1>6, <1>7

\* A step of the ledger, or none.
writes == \E t \in Tuners :
    \/ \E i \in Ids : Ledger!Control(i, t) \/ Ledger!Listen(i, t) \/ Ledger!FreeControl(i, t)
    \/ \E L \in SUBSET Ids : Ledger!FreeListeners(t, L)

\* A step of a call is one of the ledger, or none.
LEMMA LedgerStep ==
    ASSUME TunerInv, TunerInv', [Next]_vars
    PROVE  book' = book \/ writes
  <1>1. serial' = serial
    BY SerialFixed
  <1>2. CASE ~serial
    BY <1>1, <1>2 DEF book
  <1>3. CASE UNCHANGED <<mapping, control>>
    BY <1>1, <1>3 DEF book
  <1>4. ASSUME serial, NEW x \in Threads, Step(x)
        PROVE  UNCHANGED <<mapping, control>> \/ book' = book \/ writes
    <2>i. /\ TypeOK /\ TypeOK' /\ OwnMapping /\ ControlMapped /\ call[x] # Idle /\ id(x) \in Ids
          /\ Carried /\ CallKnows(x) /\ serial'
          /\ at(x, {"clear", "release"}) => ListsTrue
      BY <1>1, <1>4, StepsAdvance, CallFields, CallFinds DEF TunerInv, advances, at, CallInv
    <2>t. /\ mapping \in [Ids -> Tuners \cup {None}] /\ None \notin Tuners /\ None \notin Ids
          /\ control \in [Tuners -> Ids \cup {None}]
      BY <2>i, TunerConstants DEF TypeOK
    <2>p. PICK i \in Ids : i = id(x)
      BY <2>i
    <2>k. \A j \in Ids : /\ mapping'[j] = mapping[j]
                         /\ mapping[j] # None => (control'[mapping[j]] = j <=> control[mapping[j]] = j)
                         => book'[j] = book[j]
      BY <1>4, <2>i, EntryKept
    <2>b. book = [j \in Ids |-> book[j]] /\ book' = [j \in Ids |-> book'[j]]
      BY DEF book
    <2>1. ASSUME NEW t, takes(x, t) PROVE writes
      <3>1. /\ t \in Tuners /\ control[t] = None /\ control' = [control EXCEPT ![t] = i]
            /\ mapping' = [mapping EXCEPT ![i] = t] /\ mapping[i] = None
        BY <2>1, <2>p, AllocatesUnlisted DEF takes
      <3>2. book[i] = None /\ \A j \in Ids : book[j] # entry(t, "control")
        BY <1>4, <2>i, <2>t, <3>1, BookEntries
      <3>3. book'[i] = entry(t, "control")
        <4>1. serial' /\ TypeOK' /\ mapping'[i] = t /\ control'[t] = i
          BY <2>i, <2>t, <3>1
        <4> QED BY <2>t, <3>1, <4>1 DEF book, entry
      <3>4. \A j \in Ids \ {i} : book'[j] = book[j]
        BY <2>i, <2>k, <2>t, <3>1 DEF Carried
      <3>5. book' = [book EXCEPT ![i] = entry(t, "control")]
        BY <2>b, <3>3, <3>4
      <3>6. Ledger!Control(i, t)
        BY <3>1, <3>2, <3>5, BookActions
      <3> QED BY <3>1, <3>6 DEF writes
    <2>2. ASSUME NEW t, joins(x, t) PROVE writes
      <3>1. /\ t \in Tuners /\ control[t] # None /\ control' = control
            /\ mapping' = [mapping EXCEPT ![i] = t] /\ mapping[i] = None
        BY <2>2, <2>i, <2>p DEF joins, CallKnows, OwnMapping, at
      <3>2. control[t] \in Ids /\ mapping[control[t]] = t
        BY <2>i, <2>t, <3>1 DEF ControlMapped
      <3>3. book[i] = None /\ book[control[t]] = entry(t, "control")
        BY <1>4, <2>i, <3>1, <3>2, BookEntries
      <3>4. book'[i] = entry(t, "listener")
        <4>1. mapping'[i] = t /\ control'[t] # i
          BY <2>t, <3>1, <3>2
        <4> QED BY <2>i, <2>t, <3>1, <4>1 DEF book, entry
      <3>5. \A j \in Ids \ {i} : book'[j] = book[j]
        BY <2>k, <2>t, <3>1
      <3>6. book' = [book EXCEPT ![i] = entry(t, "listener")]
        BY <2>b, <3>4, <3>5
      <3>7. Ledger!Listen(i, t)
        BY <3>1, <3>2, <3>3, <3>6, BookActions
      <3> QED BY <3>1, <3>7 DEF writes
    <2>f. ASSUME NEW t \in Tuners, NEW L \in SUBSET Ids, L # {}, control' = control,
                 mapping' = [j \in Ids |-> IF j \in L THEN None ELSE mapping[j]],
                 \A j \in L : mapping[j] = t /\ control[t] # j
          PROVE  writes
      <3>1. \A j \in L : book[j] = entry(t, "listener")
        BY <1>4, <2>f, <2>i, BookEntries
      <3>2. \A j \in L : book'[j] = None
        BY <2>f DEF book
      <3>3. \A j \in Ids \ L : book'[j] = book[j]
        BY <2>f, <2>k
      <3>4. book' = [j \in Ids |-> IF j \in L THEN None ELSE book[j]]
        BY <2>b, <3>2, <3>3
      <3>5. L \subseteq {j \in Ids : book[j] = entry(t, "listener")}
        BY <3>1
      <3>6. PICK j \in Ids : j \in L
        BY <2>f
      <3>7. Ledger!FreeListeners(t, L)
        BY <2>f, <3>4, <3>5, <3>6, BookActions
      <3> QED BY <3>7 DEF writes
    <2>3. ASSUME NEW L, drops(x, L) PROVE book' = book \/ writes
      <3>1. PICK t \in Tuners : t = mapping[i]
        BY <2>3, <2>p, <2>t DEF drops
      <3>2. /\ L \subseteq csv[t].rest /\ control' = control
            /\ mapping' = [j \in Ids |-> IF j \in L THEN None ELSE mapping[j]]
            /\ ListsTrue
        BY <2>3, <2>i, <2>p, <3>1 DEF drops, at
      <3>3. csv[t].rest = {j \in Ids : mapping[j] = t} \ {control[t]}
        BY <3>2, FollowedList
      <3>4. L \in SUBSET Ids /\ \A j \in L : mapping[j] = t /\ control[t] # j
        BY <3>2, <3>3
      <3>5. CASE L = {}
        <4>1. \A j \in Ids : mapping'[j] = mapping[j]
          BY <3>2, <3>5
        <4>2. \A j \in Ids : book'[j] = book[j]
          BY <2>k, <3>2, <4>1
        <4> QED BY <2>b, <4>2
      <3> QED BY <2>f, <3>2, <3>4, <3>5
    <2>4. ASSUME leaves(x) PROVE writes
      <3>1. PICK t \in Tuners : t = mapping[i]
        BY <2>4, <2>p, <2>t DEF leaves
      <3>2. /\ call[x].tuner = t /\ control[t] # i /\ control' = control
            /\ mapping' = [mapping EXCEPT ![i] = None]
        BY <2>4, <2>i, <2>p, <2>t, <3>1 DEF leaves, OwnMapping, at
      <3>3. PICK L : L = {i}
        OBVIOUS
      <3>4. mapping' = [j \in Ids |-> IF j \in L THEN None ELSE mapping[j]]
        BY <2>t, <3>2, <3>3
      <3>5. L \in SUBSET Ids /\ L # {} /\ \A j \in L : mapping[j] = t /\ control[t] # j
        BY <3>1, <3>2, <3>3
      <3> QED BY <2>f, <3>2, <3>4, <3>5
    <2>5. ASSUME releases(x) PROVE writes
      <3>1. PICK t \in Tuners : t = mapping[i]
        BY <2>5, <2>p, <2>t DEF releases
      <3>2. call[x].tuner = t /\ control[t] = i /\ csv[t].rest = {} /\ ListsTrue
        BY <2>5, <2>i, <2>p, <2>t, <3>1 DEF releases, CallKnows, at
      <3>3. control' = [control EXCEPT ![t] = None] /\ mapping' = [mapping EXCEPT ![i] = None]
        BY <2>5, <2>p, <3>2 DEF releases
      <3>4. \A j \in Ids \ {i} : mapping[j] # t
        <4>1. {j \in Ids : mapping[j] = t} \ {control[t]} = {}
          BY <3>2, FollowedList
        <4> QED BY <3>2, <4>1
      <3>5. book[i] = entry(t, "control")
        BY <1>4, <2>i, <3>1, <3>2, BookEntries
      <3>6. {j \in Ids : book[j] = entry(t, "listener")} = {}
        BY <1>4, <2>i, <3>2, <3>4, BookEntries
      <3>7. book'[i] = None
        <4>1. mapping'[i] = None
          BY <2>t, <3>3
        <4> QED BY <4>1 DEF book
      <3>8. \A j \in Ids \ {i} : book'[j] = book[j]
        BY <2>k, <2>t, <3>3, <3>4
      <3>9. book' = [book EXCEPT ![i] = None]
        BY <2>b, <3>7, <3>8
      <3>10. Ledger!FreeControl(i, t)
        BY <3>5, <3>6, <3>9, BookActions
      <3> QED BY <3>10 DEF writes
    <2> QED BY <1>4, <2>i, <2>1, <2>2, <2>3, <2>4, <2>5, TableSteps
  <1>5. ASSUME NEW x \in Threads, starts(x) PROVE UNCHANGED <<mapping, control>>
    BY <1>5 DEF starts, tables
  <1>6. refused \/ UNCHANGED vars => UNCHANGED <<mapping, control>>
    BY DEF refused, vars, tables
  <1> QED BY <1>2, <1>3, <1>4, <1>5, <1>6, StepKinds DEF TunerInv

\* Calls that do not overlap keep the promise of TunerLedger: every sequence of
\* sections of allocateCapacity and deallocateCapacity takes and gives back tuners as
\* it says, each in one step.
THEOREM LedgerIsKept ==
    Spec => LedgerKept
  <1>1. Init => Ledger!Init
    BY DEF Init, Ledger!Init
  <1>2. TunerInv /\ TunerInv' /\ [Next]_vars => [Ledger!Next]_book
    <2> SUFFICES ASSUME TunerInv, TunerInv', [Next]_vars PROVE [Ledger!Next]_book
      OBVIOUS
    <2>1. book' = book \/ writes
      BY LedgerStep
    <2>2. writes /\ book' # book => Ledger!Next
      BY DEF writes, Ledger!Next, book
    <2> QED BY <2>1, <2>2
  <1>3. TunerInv /\ TunerInv' /\ [Next]_vars => [Ledger!Next]_([i \in Ids |->
                   IF ~serial \/ mapping[i] = None THEN None
                   ELSE [tuner |-> mapping[i],
                         role |-> IF control[mapping[i]] = i THEN "control" ELSE "listener"]])
    BY <1>2 DEF book
  <1> QED BY <1>1, <1>3, TunerInvariant, PTL DEF Spec, LedgerKept, Ledger!Spec

----------------------------------------------------------------------------
(* The control ports and the checks of requests (FrontendPorts).           *)

ForwardedCalls ==
    [at : {"loop", "in"}, kind : {"get", "set"}, value : Values \cup {None},
     name : Conns \cup {None}, read : SUBSET Conns, conn : Conns \cup {None}, todo : SUBSET Conns]
DirectCalls == [at : {"direct"}, kind : {"get", "set"}, value : Values \cup {None}, conn : Conns]

PortsType ==
    /\ parents \in SUBSET Conns /\ connections \in SUBSET Conns /\ reachable \in SUBSET Conns
    /\ port_lock \in Clients \cup {None}
    /\ in_lock \in [Conns -> Clients \cup {None}]
    /\ val \in [Conns -> Values \cup {Default}]
    /\ client \in [Clients -> ForwardedCalls \cup DirectCalls \cup {P!NoCall}]

Forwards(x) == client[x].at \in {"loop", "in"}
Inside(x, c) == client[x].at \in {"in", "direct"} /\ client[x].conn = c

\* who holds which lock
LocksTrue ==
    /\ \A x \in Clients : port_lock = x <=> Forwards(x)
    /\ \A x \in Clients, c \in Conns : in_lock[c] = x <=> Inside(x, c)

\* whom a call of the uses port has asked and will ask
AskedTrue ==
    \A x \in Clients : Forwards(x) =>
        LET r == client[x] IN
        /\ r.at = "in" => r.conn \in r.todo
        /\ r.kind = "get" => /\ P!Cardinality(r.read \cup r.todo) = 1
                             /\ r.name # None => r.read \cup r.todo = {r.name}
        /\ r.kind = "set" => r.value \in Values
        /\ r.kind = "set" /\ r.name = None => r.read \cup r.todo = connections

\* whom a call of the uses port has told
ToldTrue ==
    \A x \in Clients :
        /\ client[x].at = "direct" /\ client[x].kind = "set" =>
              agreed = "mixed" /\ client[x].value \in Values
        /\ Forwards(x) /\ client[x].kind = "set" =>
              /\ agreed \in {None, "mixed"}
              /\ agreed = None => \A c \in client[x].read \cap parents : val[c] = client[x].value

PortsInv == PortsType /\ LocksTrue /\ AskedTrue /\ ToldTrue /\ P!AllAgree

USE DEF Forwards, Inside

\* Ports before their first call satisfy the invariant.
LEMMA PortsInit == ASSUME P!PortsConstants, P!Init PROVE PortsInv
<1>1. PortsType
  BY DEF P!Init, PortsType
<1>2. \A x \in Clients : client[x] = P!NoCall
  BY DEF P!Init
<1>3. LocksTrue /\ AskedTrue /\ ToldTrue
  BY <1>2 DEF P!Init, P!NoCall, LocksTrue, AskedTrue, ToldTrue, P!PortsConstants
<1>4. P!AllAgree
  BY DEF P!Init, P!AllAgree, P!PortsConstants
<1> QED BY <1>1, <1>3, <1>4 DEF PortsInv

\* A call's place says which kind of record it is.
LEMMA AnyCall ==
    ASSUME PortsType, NEW x \in Clients
    PROVE  /\ client[x] \in ForwardedCalls \/ client[x] \in DirectCalls \/ client[x] = P!NoCall
           /\ Forwards(x) => client[x] \in ForwardedCalls
           /\ client[x].at = "direct" => client[x] \in DirectCalls
           /\ P!NoCall.at = "idle"
  BY DEF PortsType, ForwardedCalls, DirectCalls, P!NoCall

\* Steps that leave these variables alone keep the invariant.
LEMMA Unmoved ==
    ASSUME PortsInv, UNCHANGED <<parents, connections, port_lock, in_lock, val, reachable, client, agreed>>
    PROVE  PortsInv'
<1>1. PortsType' /\ LocksTrue'
  BY DEF PortsInv, PortsType, LocksTrue
<1>2. AskedTrue'
  BY DEF PortsInv, AskedTrue
<1>3. ToldTrue' /\ P!AllAgree'
  BY DEF PortsInv, ToldTrue, P!AllAgree
<1> QED BY <1>1, <1>2, <1>3 DEF PortsInv

\* connectPort, disconnectPort and the loss of a receiver keep the invariant: connections
\* only change while nobody forwards, and a new one ends the agreement.
LEMMA ConnectKeeps ==
    ASSUME P!PortsConstants, PortsInv, NEW c \in Conns, P!connectPort(c) \/ P!disconnectPort(c) \/ P!Lose(c)
    PROVE  PortsInv'
<1>0. UNCHANGED <<parents, port_lock, in_lock, val, client>>
  BY DEF P!connectPort, P!disconnectPort, P!Lose, P!fixed
<1>1. PortsType'
  BY <1>0 DEF P!connectPort, P!disconnectPort, P!Lose, PortsInv, PortsType
<1>2. LocksTrue'
  BY <1>0 DEF PortsInv, LocksTrue
<1>3. connections' = connections \/ \A x \in Clients : ~Forwards(x)
  BY DEF PortsInv, LocksTrue, P!connectPort, P!disconnectPort, P!Lose, P!PortsConstants
<1>4. AskedTrue'
  BY <1>0, <1>3 DEF PortsInv, AskedTrue
<1>5. agreed' = agreed \/ (agreed # "mixed" /\ agreed' = None)
  BY DEF P!connectPort, P!disconnectPort, P!Lose, P!Unless, PortsInv, LocksTrue, P!PortsConstants
<1>6. ToldTrue'
  <2>1. CASE agreed' = agreed
    BY <1>0, <2>1 DEF PortsInv, ToldTrue
  <2>2. CASE agreed' # agreed
    <3>1. P!connectPort(c)
      BY <2>2 DEF P!connectPort, P!disconnectPort, P!Lose
    <3>2. port_lock = None
      BY <3>1 DEF P!connectPort
    <3>3. \A x \in Clients : ~Forwards(x)
      BY <3>2 DEF PortsInv, LocksTrue, P!PortsConstants
    <3> QED BY <1>0, <1>5, <2>2, <3>3 DEF PortsInv, ToldTrue
  <2> QED BY <2>1, <2>2
<1>7. P!AllAgree'
  BY <1>0 DEF P!connectPort, P!disconnectPort, P!Lose, P!Unless, PortsInv, P!AllAgree, P!PortsConstants
<1> QED BY <1>1, <1>2, <1>4, <1>6, <1>7 DEF PortsInv

\* An operation of the uses port keeps the invariant, whether it raises at once or takes
\* port_lock and the list of connections to ask.
LEMMA CallKeeps ==
    ASSUME P!PortsConstants, PortsInv, NEW x \in Clients, NEW k \in {"get", "set"}, NEW v, NEW name \in Conns \cup {None},
           k = "set" => v \in Values, k = "get" => v = None, P!Call(x, k, v, name)
    PROVE  PortsInv'
<1> DEFINE r == [at |-> "loop", kind |-> k, value |-> v, name |-> name, read |-> {},
                 conn |-> None, todo |-> IF name = None THEN connections ELSE {name}]
<1>0. UNCHANGED <<parents, connections, in_lock, val, reachable>> /\ port_lock = None /\ client[x] = P!NoCall
  BY DEF P!Call, P!fixed
<1>1. CASE UNCHANGED <<port_lock, client, agreed>>
  BY <1>0, <1>1, Unmoved DEF P!fixed
<1>2. CASE ~UNCHANGED <<port_lock, client, agreed>>
  <2>1. /\ port_lock' = x /\ client' = [client EXCEPT ![x] = r]
        /\ agreed' = IF k = "set" THEN P!Unless(None) ELSE agreed
        /\ P!evaluateRequestBasedOnConnections(k, name)
    BY <1>2 DEF P!Call
  <2>2. r \in ForwardedCalls
    BY DEF ForwardedCalls, PortsInv, PortsType
  <2>3. client' = [y \in Clients |-> IF y = x THEN r ELSE client[y]]
    BY <2>1 DEF PortsInv, PortsType
  <2>4. r.at = "loop" /\ r.kind = k /\ r.value = v /\ r.name = name /\ r.read = {}
        /\ r.todo = IF name = None THEN connections ELSE {name}
    OBVIOUS
  <2>5. k = "get" => P!Cardinality(r.read \cup r.todo) = 1
    <3>1. name # None => P!Cardinality({name}) = 1
      <4>1. P!Cardinality({name}) = Cardinality({name})
        BY DEF P!Cardinality, Cardinality
      <4> QED BY <4>1, FS_Singleton
    <3>2. r.read \cup r.todo = r.todo
      BY <2>4
    <3> QED BY <2>1, <2>4, <3>1, <3>2 DEF P!evaluateRequestBasedOnConnections
  <2> HIDE DEF r
  <2>6. PortsType'
    BY <1>0, <2>1, <2>2 DEF PortsInv, PortsType
  <2>7. \A y \in Clients : ~Forwards(y)
    BY <1>0 DEF PortsInv, LocksTrue, P!PortsConstants
  <2>8. LocksTrue'
    BY <1>0, <2>1, <2>3, <2>4, <2>7 DEF PortsInv, LocksTrue, P!NoCall
  <2>9. AskedTrue'
    BY <1>0, <2>3, <2>4, <2>5, <2>7 DEF PortsInv, AskedTrue
  <2>10. agreed' = agreed \/ (agreed # "mixed" /\ agreed' = None)
    BY <2>1 DEF P!Unless
  <2>11. ToldTrue'
    <3> SUFFICES ASSUME NEW y \in Clients
                 PROVE  /\ client'[y].at = "direct" /\ client'[y].kind = "set" =>
                              agreed' = "mixed" /\ client'[y].value \in Values
                        /\ Forwards(y)' /\ client'[y].kind = "set" =>
                              /\ agreed' \in {None, "mixed"}
                              /\ agreed' = None => \A c \in client'[y].read \cap parents' : val'[c] = client'[y].value
      BY DEF ToldTrue
    <3>1. CASE y = x
      BY <3>1, <2>1, <2>3, <2>4 DEF P!Unless
    <3>2. CASE y # x
      BY <3>2, <2>3, <2>7, <2>10 DEF PortsInv, ToldTrue
    <3> QED BY <3>1, <3>2
  <2>12. P!AllAgree'
    BY <1>0, <2>10 DEF PortsInv, P!AllAgree, P!PortsConstants
  <2> QED BY <2>6, <2>8, <2>9, <2>11, <2>12 DEF PortsInv
<1> QED BY <1>1, <1>2

\* A client that calls a provides port directly keeps the invariant: from there on nothing
\* is promised of the agreement of the receivers.
LEMMA DirectKeeps ==
    ASSUME P!PortsConstants, PortsInv, NEW x \in Clients, NEW k \in {"get", "set"}, NEW v \in Values \cup {None}, NEW c \in Conns,
           k = "set" => v \in Values, P!Direct(x, c, k, v)
    PROVE  PortsInv'
<1> DEFINE r == [at |-> "direct", kind |-> k, value |-> v, conn |-> c]
<1>0. /\ UNCHANGED <<parents, connections, port_lock, val, reachable>> /\ client[x] = P!NoCall /\ in_lock[c] = None
      /\ in_lock' = [in_lock EXCEPT ![c] = x] /\ client' = [client EXCEPT ![x] = r]
      /\ agreed' = IF k = "set" THEN "mixed" ELSE agreed
  BY DEF P!Direct, P!fixed
<1>1. r \in DirectCalls /\ r.at = "direct" /\ r.kind = k /\ r.conn = c /\ r.value = v
  BY DEF DirectCalls
<1>2. client' = [y \in Clients |-> IF y = x THEN r ELSE client[y]] /\ in_lock' = [d \in Conns |-> IF d = c THEN x ELSE in_lock[d]]
  BY <1>0 DEF PortsInv, PortsType
<1> HIDE DEF r
<1>3. PortsType'
  BY <1>0, <1>1 DEF PortsInv, PortsType
<1>4. LocksTrue'
  BY <1>0, <1>1, <1>2 DEF PortsInv, LocksTrue, P!NoCall, P!PortsConstants
<1>5. AskedTrue'
  BY <1>0, <1>1, <1>2 DEF PortsInv, AskedTrue
<1>6. ToldTrue' /\ P!AllAgree'
  BY <1>0, <1>1, <1>2 DEF PortsInv, ToldTrue, P!AllAgree, P!PortsConstants
<1> QED BY <1>3, <1>4, <1>5, <1>6 DEF PortsInv

\* The call of the next connection keeps the invariant, also where it cannot be reached and
\* the operation ends half-way.
LEMMA ForwardKeeps ==
    ASSUME P!PortsConstants, PortsInv, NEW x \in Clients, NEW c \in Conns, P!Forward(x, c)
    PROVE  PortsInv'
<1>0. UNCHANGED <<parents, connections, val, reachable, agreed>> /\ client[x].at = "loop" /\ c \in client[x].todo
  BY DEF P!Forward, P!fixed
<1>1. client[x] \in ForwardedCalls
  BY <1>0, AnyCall DEF PortsInv
<1>2. CASE c \in reachable
  <2> DEFINE r == [client[x] EXCEPT !.at = "in", !.conn = c]
  <2>1. in_lock[c] = None /\ in_lock' = [in_lock EXCEPT ![c] = x] /\ UNCHANGED port_lock /\ client' = [client EXCEPT ![x] = r]
    BY <1>2 DEF P!Forward
  <2>2. r \in ForwardedCalls /\ r.at = "in" /\ r.conn = c /\ r.kind = client[x].kind /\ r.value = client[x].value
        /\ r.name = client[x].name /\ r.read = client[x].read /\ r.todo = client[x].todo
    BY <1>1 DEF ForwardedCalls
  <2>3. client' = [y \in Clients |-> IF y = x THEN r ELSE client[y]] /\ in_lock' = [d \in Conns |-> IF d = c THEN x ELSE in_lock[d]]
    BY <2>1 DEF PortsInv, PortsType
  <2> HIDE DEF r
  <2>4. PortsType'
    BY <1>0, <2>1, <2>2 DEF PortsInv, PortsType
  <2>5. LocksTrue'
    BY <1>0, <2>1, <2>2, <2>3 DEF PortsInv, LocksTrue, P!PortsConstants
  <2>6. AskedTrue'
    BY <1>0, <2>2, <2>3 DEF PortsInv, AskedTrue
  <2>7. ToldTrue' /\ P!AllAgree'
    BY <1>0, <2>2, <2>3 DEF PortsInv, ToldTrue, P!AllAgree
  <2> QED BY <2>4, <2>5, <2>6, <2>7 DEF PortsInv
<1>3. CASE c \notin reachable
  <2>1. port_lock' = None /\ UNCHANGED in_lock /\ client' = [y \in Clients |-> IF y = x THEN P!NoCall ELSE client[y]]
    BY <1>3 DEF P!Forward, P!End, PortsInv, PortsType
  <2>2. PortsType'
    BY <1>0, <2>1 DEF PortsInv, PortsType
  <2>3. \A y \in Clients \ {x} : ~Forwards(y)
    BY <1>0 DEF PortsInv, LocksTrue
  <2>4. LocksTrue'
    BY <1>0, <2>1, <2>3 DEF PortsInv, LocksTrue, P!NoCall, P!PortsConstants
  <2>5. AskedTrue' /\ ToldTrue' /\ P!AllAgree'
    BY <1>0, <2>1 DEF PortsInv, AskedTrue, ToldTrue, P!AllAgree, P!NoCall
  <2> QED BY <2>2, <2>4, <2>5 DEF PortsInv
<1> QED BY <1>2, <1>3

\* The end of an operation keeps the invariant: a set has told all connections, which are
\* those it began with.
LEMMA AnsweredKeeps ==
    ASSUME P!PortsConstants, PortsInv, NEW x \in Clients, P!Answered(x)
    PROVE  PortsInv'
<1>0. /\ UNCHANGED <<parents, connections, in_lock, val, reachable>> /\ client[x].at = "loop" /\ client[x].todo = {}
      /\ port_lock' = None
      /\ agreed' = IF client[x].kind = "set" /\ client[x].name = None THEN P!Unless(client[x].value) ELSE agreed
  BY DEF P!Answered, P!fixed
<1>1. client[x] \in ForwardedCalls
  BY <1>0, AnyCall DEF PortsInv
<1>2. client' = [y \in Clients |-> IF y = x THEN P!NoCall ELSE client[y]]
  BY DEF P!Answered, P!End, PortsInv, PortsType
<1>3. PortsType'
  BY <1>0, <1>2 DEF PortsInv, PortsType
<1>4. \A y \in Clients \ {x} : ~Forwards(y)
  BY <1>0 DEF PortsInv, LocksTrue
<1>5. LocksTrue' /\ AskedTrue'
  BY <1>0, <1>2, <1>4 DEF PortsInv, LocksTrue, AskedTrue, P!NoCall, P!PortsConstants
<1>6. ToldTrue'
  BY <1>0, <1>2, <1>4 DEF PortsInv, ToldTrue, P!NoCall, P!Unless
<1>7. P!AllAgree'
  <2>1. CASE client[x].kind = "set" /\ client[x].name = None /\ agreed # "mixed"
    BY <1>0, <2>1 DEF PortsInv, AskedTrue, ToldTrue, P!AllAgree, P!Unless
  <2>2. CASE ~(client[x].kind = "set" /\ client[x].name = None /\ agreed # "mixed")
    BY <1>0, <2>2 DEF PortsInv, P!AllAgree, P!Unless
  <2> QED BY <2>1, <2>2
<1> QED BY <1>3, <1>5, <1>6, <1>7 DEF PortsInv

\* The answer or the exception of a parent keeps the invariant and gives its lock back.
LEMMA DelegateKeeps ==
    ASSUME P!PortsConstants, PortsInv, NEW x \in Clients, P!Delegate(x)
    PROVE  PortsInv'
<1> DEFINE c == client[x].conn
           raises == c \notin parents /\ port.class \in P!tuner_delegation
           forgets == c \notin parents /\ port.class \in P!default_delegation
           r == [client[x] EXCEPT !.at = "loop", !.read = @ \cup {c}, !.todo = @ \ {c}]
           stays == client[x].at = "in" /\ ~raises
<1>0. /\ client[x].at \in {"in", "direct"} /\ in_lock' = [in_lock EXCEPT ![c] = None]
      /\ UNCHANGED <<parents, connections, reachable, agreed>>
      /\ val' = IF client[x].kind = "set" /\ ~raises /\ ~forgets THEN [val EXCEPT ![c] = client[x].value] ELSE val
      /\ IF stays THEN client' = [client EXCEPT ![x] = r] ELSE P!End(x)
      /\ port_lock' = IF client[x].at = "in" /\ raises THEN None ELSE port_lock
  BY DEF P!Delegate, P!fixed
<1>1. /\ client[x].at = "in" => client[x] \in ForwardedCalls /\ c \in client[x].todo
      /\ client[x].at = "direct" => client[x] \in DirectCalls
  BY <1>0, AnyCall DEF PortsInv, AskedTrue
<1>2. c \in Conns /\ client[x].kind \in {"get", "set"} /\ client[x].value \in Values \cup {None}
  BY <1>0, <1>1 DEF ForwardedCalls, DirectCalls
<1>3. client[x].kind = "set" => agreed \in {None, "mixed"}
  BY <1>0 DEF PortsInv, ToldTrue
<1>4. stays => /\ r \in ForwardedCalls /\ r.at = "loop" /\ r.kind = client[x].kind /\ r.value = client[x].value
               /\ r.name = client[x].name /\ r.read = client[x].read \cup {c} /\ r.todo = client[x].todo \ {c}
               /\ r.read \cup r.todo = client[x].read \cup client[x].todo
  BY <1>1, <1>2 DEF ForwardedCalls
<1>5. client' = [y \in Clients |-> IF y = x THEN IF stays THEN r ELSE P!NoCall ELSE client[y]]
  BY <1>0 DEF P!End, PortsInv, PortsType
<1>6. in_lock' = [d \in Conns |-> IF d = c THEN None ELSE in_lock[d]]
  BY <1>0 DEF PortsInv, PortsType
<1>7. /\ client[x].kind = "get" => val' = val
      /\ \A d \in parents : d # c => val'[d] = val[d]
      /\ c \in parents /\ client[x].kind = "set" => val'[c] = client[x].value
  BY <1>0, <1>2 DEF PortsInv, PortsType
<1>8. in_lock[c] = x /\ (client[x].at = "in" => port_lock = x)
  BY <1>0, <1>2 DEF PortsInv, LocksTrue
<1>9. val' \in [Conns -> Values \cup {Default}]
  <2>1. client[x].kind = "set" /\ client[x].at = "in" => client[x].value \in Values
    BY DEF PortsInv, AskedTrue
  <2> QED BY <1>0, <1>2, <2>1 DEF PortsInv, PortsType, ToldTrue
<1> HIDE DEF c, raises, forgets, r, stays
<1>10. PortsType'
  BY <1>0, <1>4, <1>5, <1>6, <1>9 DEF PortsInv, PortsType
<1>11. \A y \in Clients \ {x} : ~Inside(y, c) /\ (client[x].at = "in" => ~Forwards(y))
  BY <1>2, <1>8 DEF PortsInv, LocksTrue
<1>12. LocksTrue'
  <2>1. \A y \in Clients : port_lock' = y <=> Forwards(y)'
    BY <1>0, <1>4, <1>5, <1>8, <1>11 DEF PortsInv, LocksTrue, P!NoCall, P!PortsConstants, stays
  <2>2. \A y \in Clients, d \in Conns : in_lock'[d] = y <=> Inside(y, d)'
    BY <1>0, <1>4, <1>5, <1>6, <1>8, <1>11 DEF PortsInv, LocksTrue, P!NoCall, P!PortsConstants, stays, c
  <2> QED BY <2>1, <2>2 DEF LocksTrue
<1>13. AskedTrue'
  BY <1>0, <1>4, <1>5 DEF PortsInv, AskedTrue, P!NoCall, stays
<1>14. ToldTrue'
  <2> SUFFICES ASSUME NEW y \in Clients
               PROVE  /\ client'[y].at = "direct" /\ client'[y].kind = "set" =>
                            agreed' = "mixed" /\ client'[y].value \in Values
                      /\ Forwards(y)' /\ client'[y].kind = "set" =>
                            /\ agreed' \in {None, "mixed"}
                            /\ agreed' = None => \A d \in client'[y].read \cap parents' : val'[d] = client'[y].value
    BY DEF ToldTrue
  <2>1. CASE y # x
    <3>1. client'[y] = client[y]
      BY <1>5, <2>1
    <3>2. client[x].at = "direct" /\ client[x].kind = "set" => agreed = "mixed"
      BY DEF PortsInv, ToldTrue
    <3>3. Forwards(y) /\ agreed = None => val' = val
      <4> SUFFICES ASSUME Forwards(y), agreed = None PROVE val' = val
        OBVIOUS
      <4>1. client[x].at # "in"
        BY <1>11, <2>1
      <4>2. client[x].kind # "set"
        BY <1>0, <3>2, <4>1 DEF P!PortsConstants
      <4> QED BY <1>2, <1>7, <4>2
    <3> QED BY <1>0, <3>1, <3>3 DEF PortsInv, ToldTrue
  <2>2. CASE y = x /\ ~stays
    BY <1>5, <2>2 DEF P!NoCall
  <2>3. CASE y = x /\ stays
    BY <1>0, <1>3, <1>4, <1>5, <1>7, <2>3 DEF PortsInv, ToldTrue, stays
  <2> QED BY <2>1, <2>2, <2>3
<1>15. P!AllAgree'
  BY <1>0, <1>2, <1>3, <1>7 DEF PortsInv, P!AllAgree, P!PortsConstants
<1> QED BY <1>10, <1>12, <1>13, <1>14, <1>15 DEF PortsInv

\* Every step of the control ports keeps the invariant.
LEMMA PortsStep == ASSUME P!PortsConstants PROVE PortsInv /\ [P!Next]_(P!vars) => PortsInv'
<1> SUFFICES ASSUME PortsInv, [P!Next]_(P!vars) PROVE PortsInv'
  OBVIOUS
<1>1. CASE UNCHANGED P!vars
  BY <1>1, Unmoved DEF P!vars
<1>2. CASE P!Next
  BY <1>2, ConnectKeeps, CallKeeps, DirectKeeps, ForwardKeeps, AnsweredKeeps, DelegateKeeps DEF P!Next
<1> QED BY <1>1, <1>2

\* The centre of a request lies in each of its bands.
LEMMA CentreInBand ==
    ASSUME NEW r \in P!Requests
    PROVE  r.cf \in P!Band(r.cf, r.bw) \cup P!Band(r.cf, r.sr)
  BY DEF P!Requests, P!Frequencies, P!Widths, P!Band

\* validateRequest compares the centre of a band, so that any band with its centre in range
\* passes, whatever its width and the factor taken for the mode.
LEMMA CentrePasses ==
    ASSUME NEW min \in Int, NEW max \in Int, NEW cf \in Int, NEW width \in Nat, NEW factor \in {2, 4},
           min <= cf, cf <= max
    PROVE  P!Within(min, max, cf, width, factor)
<1> DEFINE d == width \div factor
<1>1. d \in Nat
  <2>1. CASE factor = 2
    BY <2>1
  <2>2. CASE factor = 4
    BY <2>2
  <2> QED BY <2>1, <2>2
<1> HIDE DEF d
<1>2. ((cf - d) + (cf + d)) \div 2 = cf
  <2>1. (cf - d) + (cf + d) = 2 * cf
    BY <1>1
  <2>2. (2 * cf) \div 2 = cf
    OBVIOUS
  <2> QED BY <2>1, <2>2
<1>3. P!validateRequest(min, max, cf - d, cf + d)
  BY <1>1, <1>2 DEF P!validateRequest
<1> QED BY <1>3 DEF P!Within, d

\* A centre in the device's range, with a bandwidth and a rate it has, passes the checks
\* against the device, whose whole band is no smaller.
LEMMA DevicePasses ==
    ASSUME NEW r \in P!Requests, NEW mode \in {0, 1}, NEW dev \in P!Devices, NEW cf \in Int,
           cf \in dev.min..dev.max, r.bw <= dev.bw, r.sr <= dev.sr
    PROVE  P!DeviceSupports(cf, r, mode, dev)
<1>1. /\ r.bw \in {0, 8} /\ r.sr \in {0, 8} /\ r.bw \in Nat /\ r.sr \in Nat
      /\ dev.min \in Int /\ dev.max \in Int /\ dev.bw \in Nat /\ dev.sr \in {8, 16}
  BY DEF P!Requests, P!Devices, P!Widths
<1>2. P!Factor(mode) \in {2, 4}
  BY DEF P!Factor
<1> DEFINE s == dev.sr \div P!Factor(mode)
<1>3. s \in Nat
  BY <1>1 DEF P!Factor
<1> HIDE DEF s
<1>4. /\ dev.min - s \in Int /\ dev.max + s \in Int
      /\ dev.min - s <= cf /\ cf <= dev.max + s
  BY <1>1, <1>3
<1>5. /\ P!Within(dev.min - s, dev.max + s, cf, r.bw, 2)
      /\ P!Within(dev.min - s, dev.max + s, cf, r.sr, P!Factor(mode))
  BY <1>1, <1>2, <1>4, CentrePasses
<1>6. /\ P!validateRequestSingle(dev.min, dev.max, cf)
      /\ P!validateRequestSingle(0, dev.bw, r.bw)
      /\ P!validateRequestSingle(0, dev.sr, r.sr)
  BY <1>1 DEF P!validateRequestSingle
<1> QED BY <1>5, <1>6 DEF P!DeviceSupports, s

\* A centre in the stream's band, at the narrower of its rates, passes validateRequestVsSRI.
LEMMA StreamPasses ==
    ASSUME NEW r \in P!Requests, NEW s \in P!SRIs, NEW mode \in {0, 1},
           {"CHAN_RF", "FRONTEND::BANDWIDTH"} \subseteq s.keywords,
           r.cf \in P!Band(s.cf, s.bw), r.cf \in P!Band(s.cf, s.sr \div 2)
    PROVE  P!validateRequestVsSRI(r, s, mode)
<1>1. /\ r.cf \in Int /\ r.bw \in Nat /\ r.sr \in Nat /\ P!Factor(mode) \in {2, 4}
      /\ s.cf = 8 /\ s.bw \in {0, 16} /\ s.sr \in {8, 16} /\ s.mode \in {0, 1}
  BY DEF P!Requests, P!SRIs, P!Frequencies, P!Widths, P!Factor
<1>2. s.keywords = {"CHAN_RF", "FRONTEND::BANDWIDTH"}
  <2>1. s.keywords \in {{}, {"CHAN_RF"}, {"CHAN_RF", "FRONTEND::BANDWIDTH"}}
    BY DEF P!SRIs
  <2> QED BY <2>1
<1>3. P!Within(s.cf - s.bw \div 2, s.cf + s.bw \div 2, r.cf, r.bw, 2)
  <2>1. /\ s.cf - s.bw \div 2 \in Int /\ s.cf + s.bw \div 2 \in Int
        /\ s.cf - s.bw \div 2 <= r.cf /\ r.cf <= s.cf + s.bw \div 2
    BY <1>1 DEF P!Band
  <2> QED BY <1>1, <2>1, CentrePasses
<1> DEFINE half == s.sr \div P!Factor(s.mode)
<1>4. P!Within(s.cf - half, s.cf + half, r.cf, r.sr, P!Factor(mode))
  <2>1. /\ s.cf - half \in Int /\ s.cf + half \in Int
        /\ s.cf - half <= r.cf /\ r.cf <= s.cf + half
    BY <1>1 DEF P!Band, P!Factor
  <2> HIDE DEF half
  <2> QED BY <1>1, <2>1, CentrePasses
<1> QED BY <1>2, <1>3, <1>4 DEF P!validateRequestVsSRI

\* A centre in the band of the RFInfo packet passes validateRequestVsRFInfo.
LEMMA AnalogPasses ==
    ASSUME NEW r \in P!Requests, NEW rf \in P!RFInfos, NEW mode \in {0, 1}, r.cf \in P!Band(rf.cf, rf.bw)
    PROVE  P!validateRequestVsRFInfo(r, rf, mode)
<1>1. /\ r.cf \in Int /\ r.bw \in Nat /\ r.sr \in Nat
      /\ rf.cf \in {8, 16} /\ rf.bw \in {8, 16}
  BY DEF P!Requests, P!RFInfos, P!Frequencies, P!Widths
<1> DEFINE low == rf.cf - rf.bw \div 2
           high == rf.cf + rf.bw \div 2
           factor == IF mode = 1 THEN 2 ELSE 4
<1>2. low \in Int /\ high \in Int /\ low <= r.cf /\ r.cf <= high
  <2>1. 2 * (r.cf - rf.cf) <= rf.bw /\ 2 * (rf.cf - r.cf) <= rf.bw
    BY DEF P!Band
  <2>2. CASE rf.bw = 8
    <3>1. rf.bw \div 2 = 4
      BY <2>2
    <3> QED BY <1>1, <2>1, <2>2, <3>1
  <2>3. CASE rf.bw = 16
    <3>1. rf.bw \div 2 = 8
      BY <2>3
    <3> QED BY <1>1, <2>1, <2>3, <3>1
  <2> QED BY <1>1, <2>2, <2>3
<1>3. factor \in {2, 4}
  OBVIOUS
<1> HIDE DEF low, high, factor
<1>4. P!Within(low, high, r.cf, r.bw, 2) /\ P!Within(low, high, r.cf, r.sr, factor)
  BY <1>1, <1>2, <1>3, CentrePasses
<1> QED BY <1>4 DEF P!validateRequestVsRFInfo, low, high, factor

\* No fitting request is refused: the intermediate frequency the code computes is where the
\* reference puts the centre, mirrored or not.
LEMMA RequestsPass == ASSUME P!RequestInit PROVE P!FittingRequestsPass
<1>1. PICK r \in P!Requests, d \in P!Devices, m \in {0, 1} :
          \/ \E s \in P!SRIs : input = [kind |-> "stream", r |-> r, d |-> d, m |-> m, up |-> s]
          \/ \E f \in P!RFInfos : input = [kind |-> "analog", r |-> r, d |-> d, m |-> m, up |-> f]
  BY DEF P!RequestInit
<1> SUFFICES ASSUME P!InputHasAll(input), P!DeviceHasAll(input)
             PROVE  IF input.kind = "stream"
                    THEN P!validateRequestVsDeviceStream(input.r, input.up, input.m, input.d)
                    ELSE P!validateRequestVsDevice(input.r, input.up, input.m, input.d)
  BY DEF P!FittingRequestsPass
<1>2. input.r = r /\ input.d = d /\ input.m = m /\ input.kind \in {"stream", "analog"}
  BY <1>1
<1> DEFINE need == P!Band(r.cf, r.bw) \cup P!Band(r.cf, r.sr)
<1>3. r.cf \in need /\ r.cf \in Int
  BY CentreInBand DEF P!Requests, P!Frequencies
<1> HIDE DEF need
<1>4. r.bw <= d.bw /\ r.sr <= d.sr
  BY <1>2 DEF P!DeviceHasAll
<1>5. CASE input.kind = "stream"
  <2>1. PICK s \in P!SRIs : input.up = s
    BY <1>1, <1>5
  <2>2. P!validateRequestVsSRI(r, s, m)
    <3>1. /\ {"CHAN_RF", "FRONTEND::BANDWIDTH"} \subseteq s.keywords
          /\ need \subseteq P!Band(s.cf, s.bw) /\ need \subseteq P!Band(s.cf, s.sr \div 2)
      BY <1>2, <1>5, <2>1 DEF P!InputHasAll, need
    <3> QED BY <1>3, <3>1, StreamPasses
  <2>3. r.cf \in d.min..d.max
    <3>1. r.cf + 0 \in d.min..d.max
      BY <1>2, <1>3, <1>5 DEF P!DeviceHasAll, need
    <3> QED BY <1>3, <3>1
  <2>4. P!DeviceSupports(r.cf, r, m, d)
    BY <1>3, <1>4, <2>3, DevicePasses
  <2> QED BY <1>2, <1>5, <2>1, <2>2, <2>4 DEF P!validateRequestVsDeviceStream
<1>6. CASE input.kind = "analog"
  <2>1. PICK f \in P!RFInfos : input.up = f
    BY <1>1, <1>6
  <2>2. r.type # "TX" => P!validateRequestVsRFInfo(r, f, m)
    <3>1. r.type # "TX" => need \subseteq P!Band(f.cf, f.bw)
      BY <1>2, <1>6, <2>1 DEF P!InputHasAll, need
    <3> QED BY <1>3, <3>1, AnalogPasses
  <2>3. P!IFCenter(r, f) \in d.min..d.max /\ P!IFCenter(r, f) \in Int
    <3>1. f.ifcf \in Int /\ f.cf \in Int /\ f.inverted \in BOOLEAN
      BY DEF P!RFInfos
    <3> DEFINE shift == IF r.type # "TX" /\ f.ifcf \in 1..(f.cf - 1) THEN f.ifcf - f.cf ELSE 0
               mirrored == shift # 0 /\ f.inverted
               there == IF mirrored THEN 2 * f.ifcf - (r.cf + shift) ELSE r.cf + shift
    <3>2. there \in d.min..d.max
      BY <1>2, <1>3, <1>6, <2>1 DEF P!DeviceHasAll, need
    <3>3. there = P!IFCenter(r, f)
      BY <1>3, <3>1 DEF P!IFCenter
    <3> HIDE DEF there
    <3> QED BY <3>2, <3>3
  <2>4. P!DeviceSupports(P!IFCenter(r, f), r, m, d)
    BY <1>4, <2>3, DevicePasses
  <2> QED BY <1>2, <1>6, <2>1, <2>2, <2>4 DEF P!validateRequestVsDevice
<1> QED BY <1>2, <1>5, <1>6

\* What the three parts of this module's behaviours keep.
ControlInv ==
    /\ kind \in {"device", "ports", "request"}
    /\ kind = "ports" => PortsInv
    /\ kind = "request" => P!FittingRequestsPass

\* The invariant is enough for the promises of the control ports.
LEMMA PortsPromise == ASSUME PortsInv, P!PortsConstants PROVE P!OneAnswer /\ P!AllAgree /\ P!LocksReleased
<1>1. P!OneAnswer
  BY DEF PortsInv, AskedTrue, P!OneAnswer
<1>2. P!LocksReleased
  BY DEF PortsInv, PortsType, LocksTrue, P!LocksReleased
<1> QED BY <1>1, <1>2 DEF PortsInv

\* Control goes where it is meant, for every set of connections, clients and values: a call that
\* returns a value asked the one receiver it was meant for, a set that returned without an error
\* left all receivers with the same value, no lock outlives its call whichever call failed, and no
\* request that fits its input and the device is refused.
THEOREM ControlIsTrue == MCSpec => []ControlTrue
<1>1. MCInit => ControlInv
  <2>1. CASE kind = "device" /\ Init /\ NoPorts /\ input = None
    BY <2>1 DEF ControlInv
  <2>2. CASE kind = "ports" /\ P!Init /\ NoDevice /\ input = None
    BY <2>2, ControlConstants, PortsInit DEF ControlInv
  <2>3. CASE kind = "request" /\ P!RequestInit /\ NoPorts /\ NoDevice
    BY <2>3, RequestsPass DEF ControlInv
  <2> QED BY <2>1, <2>2, <2>3 DEF MCInit
<1>2. ControlInv /\ [MCNext]_<<vars, kind, portVars, input>> => ControlInv'
  <2> SUFFICES ASSUME ControlInv, [MCNext]_<<vars, kind, portVars, input>> PROVE ControlInv'
    OBVIOUS
  <2>1. UNCHANGED <<kind, input>>
    BY DEF MCNext
  <2>2. kind = "request" => P!FittingRequestsPass'
    BY <2>1 DEF ControlInv, P!FittingRequestsPass, P!InputHasAll, P!DeviceHasAll
  <2>3. kind = "ports" => [P!Next]_(P!vars)
    BY DEF MCNext, portVars, P!vars
  <2>4. kind = "ports" => PortsInv'
    BY <2>3, ControlConstants, PortsStep DEF ControlInv
  <2> QED BY <2>1, <2>2, <2>4 DEF ControlInv
<1>3. ControlInv => ControlTrue
  BY ControlConstants, PortsPromise DEF ControlInv, ControlTrue
<1> QED BY <1>1, <1>2, <1>3, PTL DEF MCSpec
============================================================================
