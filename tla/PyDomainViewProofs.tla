------------------------- MODULE PyDomainViewProofs -------------------------
(***************************************************************************)
(* Proofs about PyDomainView: what a client knows of a domain is true once *)
(* the domain's events are handled.                                        *)
(***************************************************************************)
EXTENDS PyDomainView, TLAPS

Plus(o) == <<"added", o>>
Minus(o) == <<"removed", o>>

\* an event is on its way, behind the i-th or anywhere
Later(i, e) == \E j \in DOMAIN channel : j > i /\ channel[j] = e
Queued(e) == \E i \in DOMAIN channel : channel[i] = e

\* the removal of o was handled
Gone(o) == o \in told /\ ~Queued(Minus(o))

\* o took over the identifier of x
Newer(x, o) == Name[x] = Name[o] /\ x < o

Pcs == {"idle", "fetch", "sync", "list", "created", "remove", "release"}
Calls == [pc : Pcs, obj : Objects \cup {None}, snap : SUBSET Objects, begun : SUBSET Objects,
          ever : SUBSET Objects, disturbed : BOOLEAN]

ListType ==
    /\ variety \in {"app", "device", "service", "state"} /\ odm \in BOOLEAN
    /\ used \subseteq Objects
    /\ channel \in Seq({"added", "removed"} \X Objects)
    /\ handler \in Objects \cup {None}
    /\ view \in [Identifiers -> Objects \cup {None, Broken}]
    /\ call \in [Clients -> Calls]
    /\ lock \in Clients \cup {None}

CallTrue(t) ==
    /\ call[t].pc \in {"created", "remove", "release"} => variety = "app" /\ call[t].obj \in Objects
    /\ call[t].pc = "created" \/ (odm /\ call[t].pc = "remove") => call[t].obj \in used
    /\ call[t].pc = "list" => ~odm
    /\ call[t].pc = "fetch" => call[t].snap = {}
    /\ lock = t <=> odm /\ call[t].pc \in {"fetch", "sync"}
    /\ \A x, y \in call[t].snap : Name[x] = Name[y] => x = y

DomainTrue ==
    /\ listed \subseteq used /\ told \subseteq used /\ listed \cap told = {}
    /\ alive \subseteq used
    /\ \A x, o \in used : Newer(x, o) => x \in told /\ variety # "app"

\* a removal is followed by the next owner's arrival, an arrival by its removal
EventTrue(i) ==
    \A x \in Objects :
        /\ channel[i] = Minus(x) => x \in told /\ \A o \in used : Newer(x, o) => Later(i, Plus(o))
        /\ channel[i] = Plus(x) => x \in used /\ (x \in told => Later(i, Minus(x)))
ChannelTrue == \A i \in DOMAIN channel : EventTrue(i)

HandlerTrue ==
    handler # None => /\ handler \in used /\ ~Gone(handler) /\ variety # "app"
                      /\ \A o \in used : Newer(handler, o) => Queued(Plus(o))

\* x left None in the list when its proxy was made
Fails(x) == variety # "app" /\ (x \in forgotten \/ (variety = "device" /\ x \notin alive))

\* what is in the list has not been handled as removed
SoundAt(n) ==
    /\ view[n] \in Objects => view[n] \in used /\ Name[view[n]] = n /\ (view[n] \in zombies \/ ~Gone(view[n]))
    /\ view[n] = Broken => \E x \in used : Name[x] = n /\ ~Gone(x) /\ Fails(x)
ViewSound ==
    /\ zombies # {} => variety = "app"
    /\ \A n \in Identifiers : SoundAt(n)

\* what is not in the list is on its way there, or excused
Coming(o) ==
    \/ o \in forgotten
    \/ variety # "service" /\ o \notin alive
    \/ handler = o
    \/ Queued(Plus(o))
Releasing(o) == \E t \in Clients : call[t].pc = "release" /\ call[t].obj = o
ViewComplete == cached => \A o \in listed : view[Name[o]] = o \/ Coming(o) \/ Releasing(o)

\* what a client has read is still to come, or is going
SnapTrue(t) ==
    call[t].pc = "sync" => /\ \A o \in call[t].snap : o \in used /\ ~Gone(o)
                           /\ \A o \in listed \ call[t].snap : Coming(o)

Following ==
    ChannelTrue /\ HandlerTrue /\ ViewSound /\ ViewComplete /\ \A t \in Clients : SnapTrue(t)

\* without the channel: a call knows what was listed meanwhile
AccessTrue(t) ==
    /\ call[t].pc \in {"fetch", "sync", "list"} => listed \subseteq call[t].ever /\ call[t].begun \subseteq used
    /\ call[t].pc = "sync" => /\ call[t].snap \subseteq call[t].ever
                              /\ ~call[t].disturbed => call[t].begun \cap listed \subseteq call[t].snap
    /\ call[t].pc = "list" /\ ~call[t].disturbed => Plausible(t)
Polling ==
    /\ channel = <<>> /\ handler = None
    /\ \A t \in Clients : AccessTrue(t)
    /\ \A n \in Identifiers : view[n] = Broken => variety # "app"

ViewInv ==
    /\ ListType /\ DomainTrue /\ (\A t \in Clients : CallTrue(t)) /\ ListenersAgree /\ ~wrong
    /\ (odm => Following) /\ (~odm => Polling)

----------------------------------------------------------------------------
\* The arrival and the removal of objects are different events.
LEMMA EventsDiffer ==
    ASSUME NEW x, NEW o
    PROVE  Plus(x) # Minus(o) /\ (Plus(x) = Plus(o) => x = o) /\ (Minus(x) = Minus(o) => x = o)
BY DEF Plus, Minus

\* An event on its way is the arrival or the removal of one object.
LEMMA EventIs ==
    ASSUME ListType, NEW i \in DOMAIN channel
    PROVE  \E o \in Objects : /\ channel[i] = Plus(o) \/ channel[i] = Minus(o)
                              /\ channel[i][2] = o
                              /\ channel[i][1] = "added" <=> channel[i] = Plus(o)
<1>1. channel[i] \in {"added", "removed"} \X Objects
  BY DEF ListType
<1> QED BY <1>1 DEF Plus, Minus

\* An event that is sent comes behind all others.
LEMMA Appended ==
    ASSUME NEW S, channel \in Seq(S), NEW e \in S, channel' = Append(channel, e)
    PROVE  /\ \A x : Queued(x)' <=> Queued(x) \/ x = e
           /\ \A i \in DOMAIN channel : /\ i \in DOMAIN channel' /\ channel'[i] = channel[i]
                                        /\ \A x : Later(i, x)' <=> Later(i, x) \/ x = e
           /\ \A i \in DOMAIN channel' : i \in DOMAIN channel \/ channel'[i] = e
<1>1. /\ DOMAIN channel = 1..Len(channel) /\ Len(channel) \in Nat /\ DOMAIN channel' = 1..Len(channel) + 1
      /\ \A i \in 1..Len(channel) : channel'[i] = channel[i]
      /\ channel'[Len(channel) + 1] = e
  OBVIOUS
<1> QED BY <1>1 DEF Queued, Later

\* The event that is taken is the first; the others keep their order.
LEMMA Popped ==
    ASSUME NEW S, channel \in Seq(S), channel # <<>>, channel' = Tail(channel)
    PROVE  /\ 1 \in DOMAIN channel /\ Head(channel) = channel[1]
           /\ \A x : Queued(x)' <=> Later(1, x)
           /\ \A x : Queued(x) <=> Queued(x)' \/ x = Head(channel)
           /\ \A i \in DOMAIN channel' : /\ i + 1 \in DOMAIN channel /\ channel'[i] = channel[i + 1]
                                         /\ \A x : Later(i, x)' <=> Later(i + 1, x)
<1>1. /\ DOMAIN channel = 1..Len(channel) /\ Len(channel) \in Nat \ {0} /\ DOMAIN channel' = 1..Len(channel) - 1
      /\ \A i \in 1..Len(channel) - 1 : channel'[i] = channel[i + 1]
      /\ Head(channel) = channel[1]
  OBVIOUS
<1>2. 1 \in DOMAIN channel /\ \A i \in DOMAIN channel' : i + 1 \in DOMAIN channel /\ channel'[i] = channel[i + 1]
  BY <1>1
<1>3. \A x : Queued(x)' <=> Later(1, x)
  <2> SUFFICES ASSUME NEW x PROVE Queued(x)' <=> Later(1, x)
    OBVIOUS
  <2>1. Queued(x)' => Later(1, x)
    BY <1>1 DEF Queued, Later
  <2>2. ASSUME NEW j \in DOMAIN channel, j > 1, channel[j] = x PROVE Queued(x)'
    <3>1. j - 1 \in DOMAIN channel' /\ channel'[j - 1] = x
      BY <1>1, <2>2
    <3> QED BY <3>1 DEF Queued
  <2> QED BY <2>1, <2>2 DEF Later
<1>4. \A x : Queued(x) <=> Queued(x)' \/ x = Head(channel)
  <2>1. \A j \in DOMAIN channel : j = 1 \/ j > 1
    BY <1>1
  <2>2. \A x : Queued(x) <=> Later(1, x) \/ x = channel[1]
    BY <1>2, <2>1 DEF Queued, Later
  <2> QED BY <1>1, <1>3, <2>2
<1>5. ASSUME NEW i \in DOMAIN channel', NEW x PROVE Later(i, x)' <=> Later(i + 1, x)
  <2>1. Later(i, x)' => Later(i + 1, x)
    BY <1>1 DEF Later
  <2>2. ASSUME NEW j \in DOMAIN channel, j > i + 1, channel[j] = x PROVE Later(i, x)'
    <3>1. j - 1 \in DOMAIN channel' /\ channel'[j - 1] = x /\ j - 1 > i
      BY <1>1, <2>2
    <3> QED BY <3>1 DEF Later
  <2> QED BY <2>1, <2>2 DEF Later
<1> QED BY <1>1, <1>2, <1>3, <1>4, <1>5

\* What __add puts into the list: the object, what was there, or None in place of one whose proxy
\* could not be made; what else keeps a live object out is an entry that cannot be compared.
LEMMA AddedIs ==
    ASSUME ViewConstants, ListType, variety # "state", NEW o \in Objects, NEW failing
    PROVE  /\ Added(o, failing) \in {view[Name[o]], o, Broken}
           /\ Added(o, failing) = Broken /\ view[Name[o]] # Broken =>
                 variety # "app" /\ (o \in failing \/ (variety = "device" /\ o \notin alive))
           /\ Added(o, failing) = None => view[Name[o]] = None /\ variety = "app" /\ (o \notin alive \/ o \in failing)
           /\ Added(o, failing) \in Objects \cup {None, Broken}
           /\ (o \in alive \/ variety = "service") /\ o \notin failing /\ Added(o, failing) # o =>
                 \/ view[Name[o]] = Broken
                 \/ variety = "service" /\ view[Name[o]] \in Objects \ {o}
<1>1. variety \in {"app", "device", "service"} /\ view[Name[o]] \in Objects \cup {None, Broken}
  BY DEF ListType, Identifiers
<1>2. CASE variety = "app"
  BY <1>1, <1>2 DEF ViewConstants, Added, Kept, Created, newApplication
<1>3. CASE variety = "device"
  BY <1>1, <1>3 DEF ViewConstants, Added, Kept, Created, newDevice
<1>4. CASE variety = "service"
  BY <1>1, <1>4 DEF ViewConstants, Added, Kept, Created, newService
<1> QED BY <1>1, <1>2, <1>3, <1>4

\* What add does; an object whose proxy could not be made is on record.
LEMMA AddIs ==
    ASSUME NEW o, add(o)
    PROVE  \E failing \in SUBSET {o} : /\ view' = [view EXCEPT ![Name[o]] = Added(o, failing)]
                                       /\ forgotten' = forgotten \cup failing
BY DEF add, Failures, Fail

\* Listeners hear of what __add adds.
LEMMA AddAgrees ==
    ASSUME ViewConstants, ListType, variety # "state", ListenersAgree, NEW o \in Objects, add(o), cached' = cached
    PROVE  ListenersAgree' /\ view' \in [Identifiers -> Objects \cup {None, Broken}]
<1>1. PICK failing : /\ view' = [view EXCEPT ![Name[o]] = Added(o, failing)] /\ Name[o] \in Identifiers
                     /\ announced' = IF view' = view THEN announced ELSE announced \cup {Name[o]}
  BY DEF add, Identifiers
<1>2. view' \in [Identifiers -> Objects \cup {None, Broken}]
  BY <1>1, AddedIs DEF ListType
<1>3. CASE Added(o, failing) = None
  <2>1. view[Name[o]] = None
    BY <1>3, AddedIs
  <2>2. view' = view
    BY <1>1, <1>3, <2>1 DEF ListType
  <2> QED BY <1>1, <1>2, <2>2 DEF ListenersAgree, Entries
<1>4. CASE Added(o, failing) # None
  <2>1. Entries' = Entries \cup {Name[o]}
    BY <1>1, <1>4 DEF Entries, ListType
  <2>2. CASE view' = view
    BY <1>1, <1>2, <2>2 DEF ListenersAgree, Entries
  <2>3. CASE view' # view
    BY <1>1, <1>2, <2>1, <2>3 DEF ListenersAgree
  <2> QED BY <2>2, <2>3
<1> QED BY <1>3, <1>4

\* Listeners hear of what __remove removes.
LEMMA RemoveAgrees ==
    ASSUME ListType, ListenersAgree, NEW n \in Identifiers, remove(n), cached' = cached
    PROVE  ListenersAgree' /\ view' \in [Identifiers -> Objects \cup {None, Broken}]
<1>1. view' = [view EXCEPT ![n] = None] /\ announced' = announced \ {n}
  BY DEF remove
<1>2. Entries' = Entries \ {n}
  BY <1>1 DEF Entries, ListType
<1> QED BY <1>1, <1>2 DEF ListenersAgree, ListType

\* The announcement of a new object keeps the events in order.
LEMMA ChannelAdds ==
    ASSUME ListType, DomainTrue, ChannelTrue, NEW o \in Objects, o \notin used, used' = used \cup {o}, told' = told,
           channel' = Append(channel, Plus(o))
    PROVE  ChannelTrue'
<1>1. Plus(o) \in {"added", "removed"} \X Objects
  BY DEF Plus
<1>3. \A i \in DOMAIN channel : /\ i \in DOMAIN channel' /\ channel'[i] = channel[i]
                               /\ \A e : Later(i, e)' <=> Later(i, e) \/ e = Plus(o)
  <2> DEFINE S == {"added", "removed"} \X Objects
  <2>1. channel \in Seq(S) /\ Plus(o) \in S
    BY <1>1 DEF ListType
  <2> HIDE DEF S
  <2> QED BY <2>1, Appended
<1>2. ASSUME NEW i \in DOMAIN channel', NEW x \in Objects
      PROVE  /\ channel'[i] = Minus(x) => x \in told' /\ \A y \in used' : Newer(x, y) => Later(i, Plus(y))'
             /\ channel'[i] = Plus(x) => x \in used' /\ (x \in told' => Later(i, Minus(x))')
  <2>1. CASE i \in DOMAIN channel
    <3>1. channel'[i] = channel[i] /\ \A e : Later(i, e)' <=> Later(i, e) \/ e = Plus(o)
      BY <1>3, <2>1
    <3>2. EventTrue(i)
      BY <2>1 DEF ChannelTrue
    <3> QED BY <3>1, <3>2 DEF EventTrue
  <2>2. CASE i \notin DOMAIN channel
    <3>1. channel'[i] = Plus(o)
      BY <1>1, <1>2, <2>2, Appended DEF ListType
    <3>2. o \in used' /\ o \notin told'
      BY DEF DomainTrue
    <3> QED BY <3>1, <3>2, EventsDiffer
  <2> QED BY <2>1, <2>2
<1> QED BY <1>2 DEF ChannelTrue, EventTrue, Newer

\* The announcement of a removal keeps the events in order.
LEMMA ChannelRemoves ==
    ASSUME ListType, DomainTrue, ChannelTrue, NEW o \in used, o \notin told, used' = used, told' = told \cup {o},
           channel' = Append(channel, Minus(o))
    PROVE  ChannelTrue'
<1>1. Minus(o) \in {"added", "removed"} \X Objects
  BY DEF Minus, ListType
<1>3. \A i \in DOMAIN channel : /\ i \in DOMAIN channel' /\ channel'[i] = channel[i]
                               /\ \A e : Later(i, e)' <=> Later(i, e) \/ e = Minus(o)
  <2> DEFINE S == {"added", "removed"} \X Objects
  <2>1. channel \in Seq(S) /\ Minus(o) \in S
    BY <1>1 DEF ListType
  <2> HIDE DEF S
  <2> QED BY <2>1, Appended
<1>2. ASSUME NEW i \in DOMAIN channel', NEW x \in Objects
      PROVE  /\ channel'[i] = Minus(x) => x \in told' /\ \A y \in used' : Newer(x, y) => Later(i, Plus(y))'
             /\ channel'[i] = Plus(x) => x \in used' /\ (x \in told' => Later(i, Minus(x))')
  <2>1. CASE i \in DOMAIN channel
    <3>1. channel'[i] = channel[i] /\ \A e : Later(i, e)' <=> Later(i, e) \/ e = Minus(o)
      BY <1>3, <2>1
    <3>2. EventTrue(i)
      BY <2>1 DEF ChannelTrue
    <3> QED BY <3>1, <3>2 DEF EventTrue
  <2>2. CASE i \notin DOMAIN channel
    <3>1. channel'[i] = Minus(o)
      BY <1>1, <1>2, <2>2, Appended DEF ListType
    <3>2. \A y \in used : ~Newer(o, y)
      BY DEF DomainTrue
    <3> QED BY <3>1, <3>2, EventsDiffer
  <2> QED BY <2>1, <2>2
<1> QED BY <1>2 DEF ChannelTrue, EventTrue, Newer

\* The events that are left stay in order, and the one taken was in order.
LEMMA ChannelPops ==
    ASSUME ListType, ChannelTrue, used' = used, told' = told, channel # <<>>, channel' = Tail(channel)
    PROVE  ChannelTrue' /\ EventTrue(1) /\ Head(channel) = channel[1]
<1>1. 1 \in DOMAIN channel /\ Head(channel) = channel[1]
  BY Popped DEF ListType
<1>2. ASSUME NEW i \in DOMAIN channel', NEW x \in Objects
      PROVE  /\ channel'[i] = Minus(x) => x \in told' /\ \A y \in used' : Newer(x, y) => Later(i, Plus(y))'
             /\ channel'[i] = Plus(x) => x \in used' /\ (x \in told' => Later(i, Minus(x))')
  <2>1. i + 1 \in DOMAIN channel /\ channel'[i] = channel[i + 1] /\ \A e : Later(i, e)' <=> Later(i + 1, e)
    BY Popped DEF ListType
  <2>2. EventTrue(i + 1)
    BY <2>1 DEF ChannelTrue
  <2> QED BY <2>1, <2>2 DEF EventTrue
<1>3. ChannelTrue'
  BY <1>2 DEF ChannelTrue, EventTrue, Newer
<1> QED BY <1>1, <1>3 DEF ChannelTrue

----------------------------------------------------------------------------
\* the call m is the call k, later
Alike(k, m) ==
    /\ m.pc = k.pc /\ m.obj = k.obj /\ m.snap = k.snap /\ m.begun = k.begun
    /\ k.ever \subseteq m.ever /\ (k.disturbed => m.disturbed)

\* A call is like itself.
LEMMA AlikeSame == ASSUME NEW k PROVE Alike(k, k)
BY DEF Alike

\* A registration may be seen by the calls under way, and changes nothing else of them.
LEMMA KnownIs ==
    ASSUME ListType, NEW o \in Objects
    PROVE  /\ Known(o) \in [Clients -> Calls]
           /\ odm => Known(o) = call
           /\ \A u \in Clients : /\ Alike(call[u], Known(o)[u])
                                 /\ ~odm /\ call[u].pc \in {"fetch", "sync", "list"} => o \in Known(o)[u].ever
<1>1. ASSUME NEW u \in Clients
      PROVE  /\ Known(o)[u] \in Calls /\ Alike(call[u], Known(o)[u])
             /\ ~odm /\ call[u].pc \in {"fetch", "sync", "list"} => o \in Known(o)[u].ever
             /\ odm => Known(o)[u] = call[u]
  <2>1. call[u] \in Calls
    BY DEF ListType
  <2>2. CASE odm \/ call[u].pc \notin {"fetch", "sync", "list"}
    <3>1. Known(o)[u] = call[u]
      BY <2>2 DEF Known
    <3> QED BY <2>1, <2>2, <3>1, AlikeSame
  <2>3. CASE ~(odm \/ call[u].pc \notin {"fetch", "sync", "list"})
    <3>1. Known(o)[u] = [call[u] EXCEPT !.ever = @ \cup {o}]
      BY <2>3 DEF Known
    <3> QED BY <2>1, <2>3, <3>1 DEF Calls, Alike
  <2> QED BY <2>2, <2>3
<1>2. Known(o) = [u \in Clients |-> Known(o)[u]]
  BY DEF Known
<1>3. odm => Known(o) = call
  BY <1>1, <1>2 DEF ListType, Known
<1> QED BY <1>1, <1>2, <1>3

\* A change of the list disturbs the calls that read it, and changes nothing else of them.
LEMMA DisturbedIs ==
    ASSUME ListType, NEW t \in Clients
    PROVE  /\ Disturbed(t) \in [Clients -> Calls]
           /\ \A u \in Clients : /\ Alike(call[u], Disturbed(t)[u])
                                 /\ u # t /\ call[u].pc \in {"fetch", "sync", "list"} => Disturbed(t)[u].disturbed
           /\ Disturbed(t)[t] = call[t]
<1>1. ASSUME NEW u \in Clients
      PROVE  /\ Disturbed(t)[u] \in Calls /\ Alike(call[u], Disturbed(t)[u])
             /\ u # t /\ call[u].pc \in {"fetch", "sync", "list"} => Disturbed(t)[u].disturbed
             /\ u = t => Disturbed(t)[u] = call[u]
  <2>1. call[u] \in Calls
    BY DEF ListType
  <2>2. CASE u = t \/ call[u].pc \notin {"fetch", "sync", "list"}
    <3>1. Disturbed(t)[u] = call[u]
      BY <2>2 DEF Disturbed
    <3> QED BY <2>1, <2>2, <3>1, AlikeSame
  <2>3. CASE ~(u = t \/ call[u].pc \notin {"fetch", "sync", "list"})
    <3>1. Disturbed(t)[u] = [call[u] EXCEPT !.disturbed = TRUE]
      BY <2>3 DEF Disturbed
    <3> QED BY <2>1, <2>3, <3>1 DEF Calls, Alike
  <2> QED BY <2>2, <2>3
<1>2. Disturbed(t) = [u \in Clients |-> Disturbed(t)[u]]
  BY DEF Disturbed
<1> QED BY <1>1, <1>2

\* A call that goes on as it was stays right.
LEMMA CallStays ==
    ASSUME NEW u \in Clients, CallTrue(u), Alike(call[u], call'[u]), UNCHANGED <<variety, odm>>, used \subseteq used',
           (lock' = u) <=> (lock = u)
    PROVE  CallTrue(u)'
BY DEF CallTrue, Alike

\* An access without the channel stays right while the domain changes, and is disturbed when the
\* list does.
LEMMA AccessStays ==
    ASSUME NEW u \in Clients, AccessTrue(u), Alike(call[u], call'[u]), used \subseteq used',
           call'[u].pc \in {"fetch", "sync", "list"} => listed' \subseteq call'[u].ever,
           listed' \cap used \subseteq listed, alive' \cap used \subseteq alive,
           view' = view \/ (call[u].pc \in {"fetch", "sync", "list"} => call'[u].disturbed)
    PROVE  AccessTrue(u)'
<1>1. call[u].pc \in {"fetch", "sync", "list"} => call'[u].begun \subseteq used'
  BY DEF AccessTrue, Alike
<1>2. call'[u].pc = "sync" => /\ call'[u].snap \subseteq call'[u].ever
                              /\ ~call'[u].disturbed => call'[u].begun \cap listed' \subseteq call'[u].snap
  BY DEF AccessTrue, Alike
<1>3. ASSUME call'[u].pc = "list", ~call'[u].disturbed PROVE Plausible(u)'
  <2>1. view' = view /\ Plausible(u)
    BY <1>3 DEF AccessTrue, Alike
  <2>2. call[u].begun \subseteq used /\ call'[u].begun = call[u].begun /\ call[u].ever \subseteq call'[u].ever
    BY <1>3 DEF AccessTrue, Alike
  <2> QED BY <2>1, <2>2 DEF Plausible, Entries
<1> QED BY <1>1, <1>2, <1>3 DEF AccessTrue, Alike

\* What a client has read stays right while no removal is handled and what is to come still comes.
LEMMA SnapStays ==
    ASSUME NEW u \in Clients, SnapTrue(u), Alike(call[u], call'[u]), used \subseteq used',
           \A o \in used : Gone(o)' => Gone(o),
           \A o \in listed' : IF o \in listed THEN Coming(o) => Coming(o)' ELSE Coming(o)'
    PROVE  SnapTrue(u)'
BY DEF SnapTrue, Alike

\* An application that is being released is so until its call ends.
LEMMA ReleasingStays ==
    ASSUME NEW o, Releasing(o), \A u \in Clients : Alike(call[u], call'[u])
    PROVE  Releasing(o)'
BY DEF Releasing, Alike

\* An object whose identifier another one still holds in the list is announced and not yet handled.
LEMMA Blocked ==
    ASSUME ViewConstants, ListType, DomainTrue, ChannelTrue, NEW x \in used, NEW o \in used \ told, Name[x] = Name[o],
           x # o, ~Gone(x)
    PROVE  Queued(Plus(o))
<1>1. Newer(x, o)
  BY DEF ViewConstants, ListType, DomainTrue, Newer
<1>2. PICK i \in DOMAIN channel : channel[i] = Minus(x)
  BY <1>1 DEF DomainTrue, Gone, Queued
<1>3. Later(i, Plus(o))
  BY <1>1, <1>2 DEF ChannelTrue, EventTrue, ListType
<1> QED BY <1>3 DEF Later, Queued

\* No two objects of the domain have the same identifier; of applications none ever had.
LEMMA OnlyOne ==
    ASSUME ViewConstants, ListType, DomainTrue, NEW x \in used, NEW o \in used, Name[x] = Name[o],
           (x \notin told /\ o \notin told) \/ variety = "app"
    PROVE  x = o
BY DEF ViewConstants, ListType, DomainTrue, Newer

----------------------------------------------------------------------------
\* An entry that is left alone stays sound while no removal of its object is handled.
LEMMA SoundStays ==
    ASSUME NEW n \in Identifiers, SoundAt(n), view'[n] = view[n], variety' = variety, used \subseteq used',
           alive' \cap used \subseteq alive, zombies \subseteq zombies', forgotten \subseteq forgotten',
           \A x \in used : Name[x] = n /\ Gone(x)' => Gone(x)
    PROVE  SoundAt(n)'
BY DEF SoundAt, Fails

\* __add keeps the list sound if the removal of what it adds was not handled, or that is on record.
LEMMA AddSound ==
    ASSUME ViewConstants, ListType, variety # "state", ViewSound, NEW o \in used,
           NEW failing, view' = [view EXCEPT ![Name[o]] = Added(o, failing)], forgotten' = forgotten \cup failing,
           UNCHANGED <<variety, used, alive>>, zombies \subseteq zombies',
           zombies' # {} => variety = "app", \A x \in used : Gone(x)' => Gone(x), o \in zombies' \/ ~Gone(o)'
    PROVE  ViewSound'
<1>1. o \in Objects /\ Name[o] \in Identifiers /\ DOMAIN view = Identifiers
  BY DEF ListType, Identifiers
<1>2. view'[Name[o]] = Added(o, failing) /\ \A n \in Identifiers : n # Name[o] => view'[n] = view[n]
  BY <1>1
<1>3. ASSUME NEW n \in Identifiers PROVE SoundAt(n)'
  <2>1. SoundAt(n)
    BY DEF ViewSound
  <2>2. CASE view'[n] = view[n]
    BY <2>1, <2>2, SoundStays
  <2>3. CASE view'[n] # view[n]
    <3>1. n = Name[o] /\ view'[n] = Added(o, failing)
      BY <1>2, <2>3
    <3>2. /\ Added(o, failing) \in {o, Broken}
          /\ Added(o, failing) = Broken => variety # "app" /\ (o \in failing \/ (variety = "device" /\ o \notin alive))
      BY <1>1, <2>3, <3>1, AddedIs
    <3>3. Added(o, failing) = Broken => Fails(o)'
      BY <3>2 DEF Fails
    <3> QED BY <1>1, <3>1, <3>2, <3>3 DEF SoundAt, ViewConstants
  <2> QED BY <2>2, <2>3
<1> QED BY <1>3 DEF ViewSound

\* What keeps a listed object off the list when it is added comes to an end: the object is dead, on
\* record, or
\* its arrival will be handled after the removal of the entry that is in its way.
LEMMA AddedOr ==
    ASSUME ViewConstants, ListType, DomainTrue, variety # "state", ViewSound, ChannelTrue, NEW o \in listed,
           NEW failing, Added(o, failing) # o
    PROVE  \/ variety # "service" /\ o \notin alive
           \/ o \in forgotten \cup failing
           \/ variety # "app" /\ Queued(Plus(o))
<1>1. o \in Objects /\ o \in used \ told /\ Name[o] \in Identifiers
  BY DEF ListType, DomainTrue, Identifiers
<1>2. SoundAt(Name[o])
  BY <1>1 DEF ViewSound
<1> SUFFICES ASSUME o \in alive \/ variety = "service", o \notin forgotten \cup failing
             PROVE  variety # "app" /\ Queued(Plus(o))
  OBVIOUS
<1>3. CASE view[Name[o]] = Broken
  <2>1. PICK x \in used : Name[x] = Name[o] /\ ~Gone(x) /\ Fails(x)
    BY <1>2, <1>3 DEF SoundAt
  <2>2. x # o /\ variety # "app"
    BY <2>1 DEF Fails
  <2> QED BY <1>1, <2>1, <2>2, Blocked
<1>4. CASE variety = "service" /\ view[Name[o]] \in Objects \ {o}
  <2>1. PICK x \in used : x = view[Name[o]] /\ Name[x] = Name[o] /\ x # o /\ (x \in zombies \/ ~Gone(x))
    BY <1>2, <1>4 DEF SoundAt
  <2>2. ~Gone(x)
    BY <1>4, <2>1 DEF ViewSound
  <2> QED BY <1>1, <1>4, <2>1, <2>2, Blocked
<1> QED BY <1>1, <1>3, <1>4, AddedIs

\* __add keeps the list complete: a newer object of the same identifier is still to come.
LEMMA AddComplete ==
    ASSUME ViewConstants, ListType, DomainTrue, variety # "state", ViewSound, ChannelTrue, ViewComplete, NEW o \in used,
           NEW failing, view' = [view EXCEPT ![Name[o]] = Added(o, failing)], forgotten' = forgotten \cup failing,
           UNCHANGED <<variety, listed, alive, cached>>,
           \A y \in listed : y # o /\ Coming(y) => Coming(y)', \A y \in listed : Releasing(y) => Releasing(y)',
           \A y \in used : Newer(o, y) => Coming(y)', variety # "app" => channel' = channel
    PROVE  ViewComplete'
<1>1. o \in Objects /\ Name[o] \in Identifiers /\ DOMAIN view = Identifiers /\ listed \subseteq used \ told
  BY DEF ListType, Identifiers, DomainTrue
<1>2. view'[Name[o]] = Added(o, failing) /\ \A n \in Identifiers : n # Name[o] => view'[n] = view[n]
  BY <1>1
<1>3. ASSUME cached, NEW y \in listed
      PROVE  view'[Name[y]] = y \/ Coming(y)' \/ Releasing(y)'
  <2>1. view[Name[y]] = y \/ Coming(y) \/ Releasing(y)
    BY <1>3 DEF ViewComplete
  <2>2. y \in used \ told /\ Name[y] \in Identifiers
    BY <1>1 DEF ListType, Identifiers
  <2>3. CASE Name[y] # Name[o]
    <3>1. y # o
      BY <2>3
    <3> QED BY <1>2, <2>1, <2>2, <2>3, <3>1
  <2>4. CASE Name[y] = Name[o] /\ y # o
    <3>1. Newer(o, y) \/ Newer(y, o)
      BY <2>2, <2>4 DEF Newer, ViewConstants, ListType
    <3> QED BY <2>2, <3>1 DEF DomainTrue
  <2>5. CASE y = o
    <3>1. \/ Added(o, failing) = o \/ (variety # "service" /\ o \notin alive)
          \/ (variety # "app" /\ Queued(Plus(o))) \/ o \in forgotten'
      BY <2>5, AddedOr
    <3>2. variety # "app" /\ Queued(Plus(o)) => Queued(Plus(o))'
      BY DEF Queued
    <3> QED BY <1>2, <2>5, <3>1, <3>2 DEF Coming
  <2> QED BY <2>3, <2>4, <2>5
<1> QED BY <1>3 DEF ViewComplete

\* __remove keeps the list sound.
LEMMA RemoveSound ==
    ASSUME ViewConstants, ListType, ViewSound, NEW n \in Identifiers, view' = [view EXCEPT ![n] = None],
           UNCHANGED <<variety, used, alive, zombies, forgotten>>, \A x \in used : Name[x] # n /\ Gone(x)' => Gone(x)
    PROVE  ViewSound'
<1>1. ASSUME NEW m \in Identifiers PROVE SoundAt(m)'
  <2>1. CASE m = n
    BY <2>1 DEF SoundAt, ViewConstants, ListType
  <2>2. CASE m # n
    <3>1. SoundAt(m) /\ view'[m] = view[m]
      BY <2>2 DEF ViewSound, ListType
    <3> QED BY <2>2, <3>1, SoundStays
  <2> QED BY <2>1, <2>2
<1> QED BY <1>1 DEF ViewSound

\* sync leaves in each entry nothing, or what __add makes of an object that was read; every live
\* object that was read is added.
LEMMA SyncedIs ==
    ASSUME ViewConstants, ListType, variety # "state", NEW t \in Clients, CallTrue(t),
           NEW late \in SUBSET (call[t].snap \ alive), NEW failing
    PROVE  /\ Synced(call[t].snap, late, failing) \in [Identifiers -> Objects \cup {None, Broken}]
           /\ \A n \in Identifiers : \/ Synced(call[t].snap, late, failing)[n] = None
                                     \/ \E o \in call[t].snap : Name[o] = n /\ Synced(call[t].snap, late, failing)[n] = Added(o, failing)
           /\ \A o \in call[t].snap : o \in alive \/ variety = "service" => Synced(call[t].snap, late, failing)[Name[o]] = Added(o, failing)
<1> DEFINE snap == call[t].snap
           valid == {o \in snap : variety = "service" \/ o \in alive \cup late}
           Pick(n) == CHOOSE o \in valid : Name[o] = n
<1>1. snap \subseteq Objects /\ \A x, y \in snap : Name[x] = Name[y] => x = y
  BY DEF ListType, Calls, CallTrue
<1>2. Synced(snap, late, failing) = [n \in Identifiers |-> IF \E o \in valid : Name[o] = n THEN Added(Pick(n), failing) ELSE None]
  BY DEF Synced, Stale
<1> HIDE DEF snap
<1>3. \A n : (\E o \in valid : Name[o] = n) => Pick(n) \in valid /\ Name[Pick(n)] = n
  OBVIOUS
<1>4. valid \subseteq snap /\ \A o \in snap : o \in alive \/ variety = "service" => o \in valid
  OBVIOUS
<1> HIDE DEF valid, Pick
<1>5. \A o \in snap : Added(o, failing) \in Objects \cup {None, Broken} /\ Name[o] \in Identifiers
  BY <1>1, AddedIs DEF Identifiers
<1>6. Synced(snap, late, failing) \in [Identifiers -> Objects \cup {None, Broken}]
  BY <1>2, <1>3, <1>4, <1>5
<1>7. \A n \in Identifiers : \/ Synced(snap, late, failing)[n] = None
                             \/ \E o \in snap : Name[o] = n /\ Synced(snap, late, failing)[n] = Added(o, failing)
  BY <1>2, <1>3, <1>4
<1>8. ASSUME NEW o \in snap, o \in alive \/ variety = "service" PROVE Synced(snap, late, failing)[Name[o]] = Added(o, failing)
  <2>1. o \in valid /\ Name[o] \in Identifiers
    BY <1>4, <1>5, <1>8
  <2>2. Pick(Name[o]) = o
    BY <1>1, <1>3, <1>4, <2>1
  <2> QED BY <1>2, <2>1, <2>2
<1> QED BY <1>6, <1>7, <1>8 DEF snap

----------------------------------------------------------------------------
\* A registration keeps the view right: the object's arrival is on its way.
LEMMA RegisteredFollows ==
    ASSUME ViewConstants, ViewInv, variety # "state", NEW o \in Objects, Registered(o),
           UNCHANGED <<variety, odm, handler, cached, view, zombies, forgotten>>,
           odm => \A u \in Clients : IF call'[u] = call[u] THEN TRUE
                                     ELSE call[u].pc # "release" /\ call'[u].pc # "sync"
    PROVE  /\ DomainTrue' /\ used \subseteq used' /\ o \notin used /\ used' \subseteq Objects
           /\ channel' \in Seq({"added", "removed"} \X Objects)
           /\ (odm => Following') /\ (~odm => channel' = channel)
<1>1. /\ used' = used \cup {o} /\ listed' = listed \cup {o} /\ alive' = alive \cup {o} /\ told' = told
      /\ channel' = (IF odm THEN Append(channel, Plus(o)) ELSE channel)
      /\ o \notin used /\ \A x \in used : x < o
      /\ \A x \in used : Name[x] = Name[o] => variety # "app" /\ x \in told
  <2>1. Registrable(o)
    BY DEF Registered
  <2>2. o \notin used
    <3>1. o \in Nat /\ \A x \in used : x < o
      BY <2>1 DEF Registrable, ViewConstants
    <3> QED BY <3>1
  <2> QED BY <2>1, <2>2 DEF Registered, Registrable, Send, Plus
<1>2. DomainTrue' /\ used \subseteq used' /\ used' \subseteq Objects
  <2>1. \A x, y \in used' : Newer(x, y) => x \in told' /\ variety' # "app"
    <3> SUFFICES ASSUME NEW x \in used', NEW y \in used', Newer(x, y) PROVE x \in told' /\ variety' # "app"
      OBVIOUS
    <3>1. x # o
      BY <1>1 DEF Newer, ViewInv, ListType, ViewConstants
    <3>2. CASE y = o
      BY <1>1, <3>1, <3>2 DEF Newer
    <3>3. CASE y # o
      BY <1>1, <3>1, <3>3 DEF ViewInv, DomainTrue
    <3> QED BY <3>2, <3>3
  <2> QED BY <1>1, <2>1 DEF ViewInv, ListType, DomainTrue, Newer
<1>3. channel' \in Seq({"added", "removed"} \X Objects)
  BY <1>1 DEF ViewInv, ListType, Plus
<1>4. ASSUME odm PROVE Following'
  <2>0. ListType /\ DomainTrue /\ ViewSound /\ ChannelTrue /\ HandlerTrue /\ ViewComplete
    BY <1>4 DEF ViewInv, Following
  <2>1. ChannelTrue'
    BY <1>1, <1>4, <2>0, ChannelAdds
  <2>2. \A e : Queued(e)' <=> Queued(e) \/ e = Plus(o)
    <3>1. Plus(o) \in {"added", "removed"} \X Objects
      BY DEF Plus
    <3> DEFINE S == {"added", "removed"} \X Objects
    <3>2. channel \in Seq(S) /\ Plus(o) \in S /\ channel' = Append(channel, Plus(o))
      BY <1>1, <1>4, <2>0, <3>1 DEF ListType
    <3> HIDE DEF S
    <3> QED BY <3>2, Appended
  <2>3. \A x : Gone(x)' <=> Gone(x)
    BY <1>1, <2>2, EventsDiffer DEF Gone
  <2>4. \A y \in used : Coming(y) => Coming(y)'
    BY <1>1, <2>2 DEF Coming
  <2>5. Coming(o)'
    BY <2>2 DEF Coming
  <2>6. HandlerTrue'
    BY <1>1, <2>0, <2>2, <2>3 DEF HandlerTrue, Newer
  <2>7. ViewSound'
    <3>1. ASSUME NEW n \in Identifiers PROVE SoundAt(n)'
      BY <1>1, <2>0, <2>3, SoundStays DEF ViewSound
    <3> QED BY <2>0, <3>1 DEF ViewSound
  <2>8. ViewComplete'
    <3>1. ASSUME NEW y \in listed, Releasing(y) PROVE Releasing(y)'
      <4>1. PICK u \in Clients : call[u].pc = "release" /\ call[u].obj = y
        BY <3>1 DEF Releasing
      <4>2. call'[u] = call[u]
        BY <1>4, <4>1
      <4> QED BY <4>1, <4>2 DEF Releasing
    <3>2. ASSUME NEW y \in listed', cached' PROVE view'[Name[y]] = y \/ Coming(y)' \/ Releasing(y)'
      BY <1>1, <2>0, <2>4, <2>5, <3>1, <3>2 DEF ViewComplete, DomainTrue
    <3> QED BY <3>2 DEF ViewComplete
  <2>9. ASSUME NEW u \in Clients PROVE SnapTrue(u)'
    <3>1. CASE call'[u] = call[u]
      <4>1. SnapTrue(u) /\ Alike(call[u], call'[u])
        BY <1>4, <3>1, AlikeSame DEF ViewInv, Following
      <4>2. \A y \in listed' : IF y \in listed THEN Coming(y) => Coming(y)' ELSE Coming(y)'
        BY <1>1, <2>0, <2>4, <2>5 DEF DomainTrue
      <4> QED BY <1>2, <2>3, <4>1, <4>2, SnapStays
    <3>2. CASE call'[u] # call[u]
      BY <1>4, <3>2 DEF SnapTrue
    <3> QED BY <3>1, <3>2
  <2> QED BY <2>1, <2>6, <2>7, <2>8, <2>9 DEF Following
<1> QED BY <1>1, <1>2, <1>3, <1>4

\* The parts of the invariant.
LEMMA Together ==
    ASSUME ListType', DomainTrue', \A u \in Clients : CallTrue(u)', ListenersAgree', ~wrong',
           odm' => Following', ~odm' => Polling'
    PROVE  ViewInv'
BY DEF ViewInv

\* A registration by the domain keeps the invariant.
LEMMA ObjectRegisterKeeps ==
    ASSUME ViewConstants, ViewInv, variety # "state", NEW o \in Objects, Register(o), UNCHANGED <<variety, odm>>
    PROVE  ViewInv'
<1>1. /\ Registered(o) /\ call' = Known(o)
      /\ UNCHANGED <<handler, cached, view, lock, announced, zombies, forgotten, wrong>>
  BY DEF Register
<1>2. /\ call' \in [Clients -> Calls] /\ (odm => call' = call)
      /\ \A u \in Clients : /\ Alike(call[u], call'[u])
                            /\ ~odm /\ call[u].pc \in {"fetch", "sync", "list"} => o \in call'[u].ever
  BY <1>1, KnownIs DEF ViewInv
<1>3. /\ DomainTrue' /\ used \subseteq used' /\ o \notin used /\ used' \subseteq Objects
      /\ channel' \in Seq({"added", "removed"} \X Objects)
      /\ (odm => Following') /\ (~odm => channel' = channel)
  BY <1>1, <1>2, RegisteredFollows
<1>4. ListType' /\ ListenersAgree' /\ ~wrong'
  BY <1>1, <1>2, <1>3 DEF ViewInv, ListType, ListenersAgree, Entries
<1>5. ASSUME NEW u \in Clients PROVE CallTrue(u)'
  BY <1>1, <1>2, <1>3, CallStays DEF ViewInv
<1>6. ASSUME ~odm PROVE Polling'
  <2>1. ASSUME NEW u \in Clients PROVE AccessTrue(u)'
    <3>1. listed' = listed \cup {o} /\ alive' = alive \cup {o} /\ AccessTrue(u)
      BY <1>1, <1>6 DEF Registered, ViewInv, Polling
    <3>2. call'[u].pc \in {"fetch", "sync", "list"} => listed' \subseteq call'[u].ever
      BY <1>2, <1>6, <3>1 DEF AccessTrue, Alike
    <3> QED BY <1>1, <1>2, <1>3, <3>1, <3>2, AccessStays
  <2> QED BY <1>1, <1>3, <1>6, <2>1 DEF ViewInv, Polling
<1> QED BY <1>3, <1>4, <1>5, <1>6, Together

\* Objects that leave the domain's list or die keep the invariant.
LEMMA UnlistKeeps ==
    ASSUME ViewConstants, ViewInv, variety # "state", NEW o \in Objects, Unlist(o) \/ Die(o), UNCHANGED <<variety, odm>>
    PROVE  ViewInv'
<1>1. /\ listed' \subseteq listed /\ alive' \subseteq alive
      /\ UNCHANGED <<used, told, channel, handler, cached, view, lock, call, announced, zombies, forgotten, wrong>>
  BY DEF Unlist, Die
<1>2. ListType' /\ ListenersAgree' /\ ~wrong' /\ DomainTrue'
  BY <1>1 DEF ViewInv, ListType, ListenersAgree, Entries, DomainTrue
<1>3. ASSUME NEW u \in Clients PROVE CallTrue(u)' /\ Alike(call[u], call'[u])
  BY <1>1, CallStays, AlikeSame DEF ViewInv
<1>4. ASSUME odm PROVE Following'
  <2>1. ChannelTrue' /\ HandlerTrue'
    BY <1>1, <1>4 DEF ViewInv, Following, ChannelTrue, EventTrue, Later, HandlerTrue, Gone, Queued
  <2>2. (\A x : Gone(x)' <=> Gone(x)) /\ (\A y : Coming(y) => Coming(y)') /\ (\A y : Releasing(y) <=> Releasing(y)')
    BY <1>1 DEF Gone, Queued, Coming, Releasing
  <2>3. ViewSound'
    <3>1. ASSUME NEW n \in Identifiers PROVE SoundAt(n)'
      BY <1>1, <1>4, <2>2, SoundStays DEF ViewInv, Following, ViewSound
    <3> QED BY <1>1, <1>4, <3>1 DEF ViewInv, Following, ViewSound
  <2>4. ViewComplete'
    BY <1>1, <1>4, <2>2 DEF ViewInv, Following, ViewComplete
  <2>5. ASSUME NEW u \in Clients PROVE SnapTrue(u)'
    BY <1>1, <1>3, <1>4, <2>2, SnapStays DEF ViewInv, Following
  <2> QED BY <2>1, <2>3, <2>4, <2>5 DEF Following
<1>5. ASSUME ~odm PROVE Polling'
  <2>1. ASSUME NEW u \in Clients PROVE AccessTrue(u)'
    <3>1. AccessTrue(u)
      BY <1>5 DEF ViewInv, Polling
    <3>2. call'[u].pc \in {"fetch", "sync", "list"} => listed' \subseteq call'[u].ever
      BY <1>1, <3>1 DEF AccessTrue
    <3> QED BY <1>1, <1>3, <3>1, <3>2, AccessStays
  <2> QED BY <1>1, <1>5, <2>1 DEF ViewInv, Polling
<1> QED BY <1>2, <1>3, <1>4, <1>5, Together

\* The announcement of a removal keeps the invariant: the entry is sound until it is handled.
LEMMA RemovalKeeps ==
    ASSUME ViewConstants, ViewInv, variety # "state", NEW o \in Objects, sendRemoveEvent(o), UNCHANGED <<variety, odm>>
    PROVE  ViewInv'
<1>1. /\ o \in used \ (listed \cup told) /\ told' = told \cup {o}
      /\ channel' = (IF odm THEN Append(channel, Minus(o)) ELSE channel)
      /\ UNCHANGED <<used, listed, alive, handler, cached, view, lock, call, announced, zombies, forgotten, wrong>>
  BY DEF sendRemoveEvent, Send, Minus
<1>2. ListType' /\ ListenersAgree' /\ ~wrong' /\ DomainTrue'
  BY <1>1 DEF ViewInv, ListType, ListenersAgree, Entries, DomainTrue, Minus, Newer
<1>3. ASSUME NEW u \in Clients PROVE CallTrue(u)' /\ Alike(call[u], call'[u])
  BY <1>1, CallStays, AlikeSame DEF ViewInv
<1>4. ASSUME odm PROVE Following'
  <2>0. ListType /\ DomainTrue /\ ChannelTrue
    BY <1>4 DEF ViewInv, Following
  <2>1. ChannelTrue'
    BY <1>1, <1>4, <2>0, ChannelRemoves
  <2>2. \A e : Queued(e)' <=> Queued(e) \/ e = Minus(o)
    <3>1. Minus(o) \in {"added", "removed"} \X Objects
      BY DEF Minus
    <3> DEFINE S == {"added", "removed"} \X Objects
    <3>2. channel \in Seq(S) /\ Minus(o) \in S /\ channel' = Append(channel, Minus(o))
      BY <1>1, <1>4, <2>0, <3>1 DEF ListType
    <3> HIDE DEF S
    <3> QED BY <3>2, Appended
  <2>3. \A x : Gone(x)' => Gone(x)
    BY <1>1, <2>2 DEF Gone
  <2>4. (\A y : Coming(y) => Coming(y)') /\ (\A y : Releasing(y) <=> Releasing(y)')
    BY <1>1, <2>2 DEF Coming, Releasing
  <2>5. HandlerTrue'
    BY <1>1, <1>4, <2>2, <2>3 DEF ViewInv, Following, HandlerTrue, Newer
  <2>6. ViewSound'
    <3>1. ASSUME NEW n \in Identifiers PROVE SoundAt(n)'
      BY <1>1, <1>4, <2>3, SoundStays DEF ViewInv, Following, ViewSound
    <3> QED BY <1>1, <1>4, <3>1 DEF ViewInv, Following, ViewSound
  <2>7. ViewComplete'
    BY <1>1, <1>4, <2>4 DEF ViewInv, Following, ViewComplete
  <2>8. ASSUME NEW u \in Clients PROVE SnapTrue(u)'
    BY <1>1, <1>3, <1>4, <2>3, <2>4, SnapStays DEF ViewInv, Following
  <2> QED BY <2>1, <2>5, <2>6, <2>7, <2>8 DEF Following
<1>5. ASSUME ~odm PROVE Polling'
  <2>1. ASSUME NEW u \in Clients PROVE AccessTrue(u)'
    <3>1. AccessTrue(u)
      BY <1>5 DEF ViewInv, Polling
    <3>2. call'[u].pc \in {"fetch", "sync", "list"} => listed' \subseteq call'[u].ever
      BY <1>1, <3>1 DEF AccessTrue
    <3> QED BY <1>1, <1>3, <3>1, <3>2, AccessStays
  <2> QED BY <1>1, <1>5, <2>1 DEF ViewInv, Polling
<1> QED BY <1>2, <1>3, <1>4, <1>5, Together

----------------------------------------------------------------------------
\* A step of one call that leaves list, events and domain alone keeps the invariant.
LEMMA QuietKeeps ==
    ASSUME ViewInv, NEW t \in Clients, UNCHANGED <<variety, odm, used, told, alive, channel, handler, cached, view, announced,
                                                  zombies>>, ~wrong',
           listed' \subseteq listed, forgotten \subseteq forgotten',
           call' \in [Clients -> Calls], lock' \in Clients \cup {None},
           \A u \in Clients : u # t => call'[u] = call[u] /\ (lock' = u <=> lock = u),
           CallTrue(t)', odm => SnapTrue(t)', ~odm => AccessTrue(t)',
           \A o \in listed' : call[t].pc = "release" /\ call[t].obj = o => o \in forgotten'
    PROVE  ViewInv'
<1>1. ListType' /\ ListenersAgree' /\ ~wrong' /\ DomainTrue'
  BY DEF ViewInv, ListType, ListenersAgree, Entries, DomainTrue, Newer
<1>2. ASSUME NEW u \in Clients PROVE CallTrue(u)' /\ (u # t => Alike(call[u], call'[u]))
  BY CallStays, AlikeSame DEF ViewInv
<1>3. ASSUME odm PROVE Following'
  <2>1. ChannelTrue' /\ HandlerTrue'
    BY <1>3 DEF ViewInv, Following, ChannelTrue, EventTrue, Later, HandlerTrue, Gone, Queued
  <2>2. (\A x : Gone(x)' <=> Gone(x)) /\ (\A y : Coming(y) => Coming(y)')
    BY DEF Gone, Queued, Coming
  <2>3. ViewSound'
    <3>1. ASSUME NEW n \in Identifiers PROVE SoundAt(n)'
      BY <1>3, <2>2, SoundStays DEF ViewInv, Following, ViewSound
    <3> QED BY <1>3, <3>1 DEF ViewInv, Following, ViewSound
  <2>4. ASSUME NEW y \in listed', Releasing(y) PROVE Releasing(y)' \/ Coming(y)'
    BY <2>4 DEF Releasing, Coming
  <2>5. ViewComplete'
    BY <1>3, <2>2, <2>4 DEF ViewInv, Following, ViewComplete
  <2>6. ASSUME NEW u \in Clients PROVE SnapTrue(u)'
    BY <1>2, <1>3, <2>2, SnapStays DEF ViewInv, Following
  <2> QED BY <2>1, <2>3, <2>5, <2>6 DEF Following
<1>4. ASSUME ~odm PROVE Polling'
  <2>1. ASSUME NEW u \in Clients, u # t PROVE AccessTrue(u)'
    <3>1. AccessTrue(u)
      BY <1>4 DEF ViewInv, Polling
    <3>2. call'[u].pc \in {"fetch", "sync", "list"} => listed' \subseteq call'[u].ever
      BY <2>1, <3>1 DEF AccessTrue
    <3> QED BY <1>2, <2>1, <3>1, <3>2, AccessStays
  <2> QED BY <1>4, <2>1 DEF ViewInv, Polling
<1> QED BY <1>1, <1>2, <1>3, <1>4, Together

\* A call that begins knows what is listed, where there is no channel.
LEMMA BeginIs ==
    ASSUME ListType, NEW t \in Clients, NEW pc \in Pcs, NEW o \in Objects \cup {None}, Begin(t, pc, o),
           listed \subseteq Objects
    PROVE  /\ call' \in [Clients -> Calls] /\ call[t].pc = "idle"
           /\ \A u \in Clients : u # t => call'[u] = call[u]
           /\ call'[t].pc = pc /\ call'[t].obj = o /\ call'[t].snap = {} /\ call'[t].begun = Seen /\ call'[t].ever = Seen
<1> DEFINE k == [Idle EXCEPT !.pc = pc, !.obj = o, !.begun = Seen, !.ever = Seen]
<1>1. /\ k.pc = pc /\ k.obj = o /\ k.snap = {} /\ k.begun = Seen /\ k.ever = Seen /\ k.disturbed = FALSE
      /\ k \in [pc : {pc}, obj : {o}, snap : {{}}, begun : {Seen}, ever : {Seen}, disturbed : {FALSE}]
  BY DEF Idle
<1>2. k \in Calls
  <2>1. Seen \subseteq Objects
    BY DEF Seen
  <2> HIDE DEF k
  <2> QED BY <1>1, <2>1 DEF Calls
<1>3. call' = [call EXCEPT ![t] = k] /\ call[t].pc = "idle"
  BY DEF Begin
<1> HIDE DEF k
<1> QED BY <1>1, <1>2, <1>3 DEF ListType

\* An access to a list that is not known yet keeps the invariant when it begins.
LEMMA ValuesKeeps ==
    ASSUME ViewConstants, ViewInv, NEW t \in Clients, values(t), UNCHANGED <<variety, odm>>
    PROVE  ViewInv'
<1>1. /\ lock = None /\ Begin(t, "fetch", None) /\ lock' = IF odm THEN t ELSE None
      /\ UNCHANGED <<domainVars, channel, handler, cached, view, announced, zombies, forgotten, wrong>>
  BY DEF values
<1>2. /\ call' \in [Clients -> Calls] /\ call[t].pc = "idle"
      /\ \A u \in Clients : u # t => call'[u] = call[u]
      /\ call'[t].pc = "fetch" /\ call'[t].obj = None /\ call'[t].snap = {} /\ call'[t].begun = Seen /\ call'[t].ever = Seen
  BY <1>1, BeginIs DEF ViewInv, ListType, DomainTrue, Pcs
<1>3. CallTrue(t)'
  BY <1>1, <1>2 DEF CallTrue, ViewConstants
<1>4. \A u \in Clients : u # t => (lock' = u <=> lock = u)
  BY <1>1 DEF ViewConstants
<1>5. ~odm => AccessTrue(t)'
  BY <1>1, <1>2 DEF AccessTrue, Seen, domainVars, ViewInv, DomainTrue
<1>6. SnapTrue(t)'
  BY <1>2 DEF SnapTrue
<1> QED BY <1>1, <1>2, <1>3, <1>4, <1>5, <1>6, QuietKeeps DEF domainVars, ViewInv

\* The remote call for the domain's list keeps the invariant: a failure forgets what is listed.
LEMMA FetchKeeps ==
    ASSUME ViewConstants, ViewInv, NEW t \in Clients, fetch(t), UNCHANGED <<variety, odm>>
    PROVE  ViewInv'
<1>1. /\ call[t].pc = "fetch" /\ call[t] \in Calls /\ CallTrue(t) /\ call[t].snap = {}
      /\ UNCHANGED <<domainVars, channel, handler, cached, view, lock, announced, zombies, wrong>>
  BY DEF fetch, ViewInv, ListType, CallTrue
<1>2. UNCHANGED <<used, listed, told, alive, channel, handler>>
  BY <1>1 DEF domainVars
<1>3. CASE call' = [call EXCEPT ![t].pc = "sync", ![t].snap = listed] /\ UNCHANGED forgotten
  <2>1. /\ call' \in [Clients -> Calls]
        /\ \A u \in Clients : u # t => call'[u] = call[u]
        /\ call'[t].pc = "sync" /\ call'[t].snap = listed /\ call'[t].ever = call[t].ever
        /\ call'[t].begun = call[t].begun /\ call'[t].obj = call[t].obj
    BY <1>1, <1>3 DEF ViewInv, ListType, Calls, DomainTrue, Pcs
  <2>2. \A x, y \in listed : Name[x] = Name[y] => x = y
    BY OnlyOne DEF ViewInv, DomainTrue
  <2>3. CallTrue(t)'
    BY <1>1, <2>1, <2>2 DEF CallTrue
  <2>4. SnapTrue(t)'
    BY <1>2, <2>1 DEF SnapTrue, ViewInv, DomainTrue, Gone
  <2>5. ~odm => AccessTrue(t)'
    BY <1>1, <1>2, <2>1 DEF AccessTrue, ViewInv, Polling
  <2> QED BY <1>1, <1>2, <1>3, <2>1, <2>3, <2>4, <2>5, QuietKeeps DEF ViewInv, ListType
<1>4. CASE call' = [call EXCEPT ![t].pc = "sync", ![t].disturbed = TRUE] /\ forgotten' = forgotten \cup listed
  <2>1. /\ call' \in [Clients -> Calls]
        /\ \A u \in Clients : u # t => call'[u] = call[u]
        /\ call'[t].pc = "sync" /\ call'[t].snap = {} /\ call'[t].ever = call[t].ever /\ call'[t].disturbed
        /\ call'[t].begun = call[t].begun /\ call'[t].obj = call[t].obj
    BY <1>1, <1>4 DEF ViewInv, ListType, Calls, Pcs
  <2>2. CallTrue(t)'
    BY <1>1, <2>1 DEF CallTrue
  <2>3. SnapTrue(t)'
    BY <1>2, <1>4, <2>1 DEF SnapTrue, Coming
  <2>4. ~odm => AccessTrue(t)'
    BY <1>1, <1>2, <2>1 DEF AccessTrue, ViewInv, Polling
  <2> QED BY <1>1, <1>2, <1>4, <2>1, <2>2, <2>3, <2>4, QuietKeeps DEF ViewInv, ListType
<1> QED BY <1>3, <1>4 DEF fetch

\* The return of an access keeps the invariant: undisturbed, its list was true during the call.
LEMMA ListKeeps ==
    ASSUME ViewConstants, ViewInv, NEW t \in Clients, list(t), UNCHANGED <<variety, odm>>
    PROVE  ViewInv'
<1>1. /\ call[t].pc = "list" /\ CallTrue(t) /\ ~odm /\ AccessTrue(t)
      /\ wrong' = (wrong \/ (~call[t].disturbed /\ ~Plausible(t)))
      /\ call' = [call EXCEPT ![t] = Idle]
      /\ UNCHANGED <<domainVars, channel, handler, cached, view, lock, announced, zombies, forgotten>>
  BY DEF list, ViewInv, CallTrue, Polling
<1>2. ~wrong'
  BY <1>1 DEF AccessTrue, ViewInv
<1>3. Idle \in Calls /\ Idle.pc = "idle" /\ Idle.snap = {}
  BY DEF Idle, Calls, Pcs
<1>4. /\ call' \in [Clients -> Calls] /\ call'[t] = Idle
      /\ \A u \in Clients : u # t => call'[u] = call[u]
  BY <1>1, <1>3 DEF ViewInv, ListType
<1>5. CallTrue(t)' /\ AccessTrue(t)'
  BY <1>1, <1>3, <1>4 DEF CallTrue, AccessTrue
<1> QED BY <1>1, <1>2, <1>4, <1>5, QuietKeeps DEF domainVars, ViewInv, ListType

\* removeApplication keeps the invariant when it begins, of an application that is on the list.
LEMMA RemoveApplicationKeeps ==
    ASSUME ViewConstants, ViewInv, NEW t \in Clients, NEW o \in Objects, removeApplication(t, o), UNCHANGED <<variety, odm>>
    PROVE  ViewInv'
<1>1. /\ variety = "app" /\ Begin(t, "remove", o)
      /\ UNCHANGED <<domainVars, channel, handler, cached, view, lock, announced, zombies, forgotten, wrong>>
  BY DEF removeApplication
<1>2. /\ call' \in [Clients -> Calls] /\ call[t].pc = "idle"
      /\ \A u \in Clients : u # t => call'[u] = call[u]
      /\ call'[t].pc = "remove" /\ call'[t].obj = o /\ call'[t].snap = {}
  BY <1>1, BeginIs DEF ViewInv, ListType, DomainTrue, Pcs
<1>3. odm => o \in used
  <2>1. view[Name[o]] = o /\ Name[o] \in Identifiers
    BY DEF removeApplication, Identifiers
  <2>2. odm => SoundAt(Name[o])
    BY <2>1 DEF ViewInv, Following, ViewSound
  <2> QED BY <2>1, <2>2 DEF SoundAt
<1>4. CallTrue(t)' /\ SnapTrue(t)' /\ AccessTrue(t)'
  BY <1>1, <1>2, <1>3 DEF CallTrue, SnapTrue, AccessTrue, ViewInv, domainVars
<1> QED BY <1>1, <1>2, <1>4, QuietKeeps DEF domainVars, ViewInv, ListType

\* releaseObject keeps the invariant: the application leaves the domain, or is forgotten.
LEMMA AppReleaseKeeps ==
    ASSUME ViewConstants, ViewInv, NEW t \in Clients, releaseObject(t), UNCHANGED <<variety, odm>>
    PROVE  ViewInv'
<1>1. /\ call[t].pc = "release" /\ CallTrue(t) /\ call' = [call EXCEPT ![t] = Idle]
      /\ UNCHANGED <<used, told, alive, channel, handler, cached, view, lock, announced, zombies, wrong>>
      /\ listed' \subseteq listed /\ forgotten \subseteq forgotten'
      /\ call[t].obj \notin listed' \/ call[t].obj \in forgotten'
  BY DEF releaseObject, ViewInv
<1>2. Idle \in Calls /\ Idle.pc = "idle" /\ Idle.snap = {}
  BY DEF Idle, Calls, Pcs
<1>3. /\ call' \in [Clients -> Calls] /\ call'[t] = Idle
      /\ \A u \in Clients : u # t => call'[u] = call[u]
  BY <1>1, <1>2 DEF ViewInv, ListType
<1>4. CallTrue(t)' /\ SnapTrue(t)' /\ AccessTrue(t)'
  BY <1>1, <1>2, <1>3 DEF CallTrue, SnapTrue, AccessTrue
<1> QED BY <1>1, <1>3, <1>4, QuietKeeps DEF ViewInv, ListType

----------------------------------------------------------------------------
\* A removal that was announced and is not on its way was handled.
LEMMA HandledIs == ASSUME NEW o PROVE Handled(o) <=> Gone(o)
BY DEF Handled, Gone, Queued, Minus, ToSet

\* createApplication keeps the invariant when the domain registers the application.
LEMMA AppCreateKeeps ==
    ASSUME ViewConstants, ViewInv, NEW t \in Clients, NEW o \in Objects, createApplication(t, o), UNCHANGED <<variety, odm>>
    PROVE  ViewInv'
<1> DEFINE k == [Idle EXCEPT !.pc = "created", !.obj = o]
<1>1. /\ variety = "app" /\ call[t].pc = "idle" /\ Registered(o) /\ call' = [Known(o) EXCEPT ![t] = k]
      /\ UNCHANGED <<handler, cached, view, lock, announced, zombies, forgotten, wrong>>
  BY DEF createApplication
<1>2. /\ k \in [pc : {"created"}, obj : {o}, snap : {{}}, begun : {{}}, ever : {{}}, disturbed : {FALSE}]
      /\ k.pc = "created" /\ k.obj = o /\ k.snap = {}
  BY DEF Idle
<1> HIDE DEF k
<1>3. k \in Calls
  BY <1>2 DEF Calls, Pcs
<1>4. /\ Known(o) \in [Clients -> Calls] /\ (odm => Known(o) = call)
      /\ \A u \in Clients : /\ Alike(call[u], Known(o)[u])
                            /\ ~odm /\ call[u].pc \in {"fetch", "sync", "list"} => o \in Known(o)[u].ever
  BY KnownIs DEF ViewInv
<1>5. /\ call' \in [Clients -> Calls] /\ call'[t] = k
      /\ \A u \in Clients : u # t => call'[u] = Known(o)[u]
  BY <1>1, <1>3, <1>4
<1>6. /\ DomainTrue' /\ used \subseteq used' /\ o \notin used /\ used' \subseteq Objects
      /\ channel' \in Seq({"added", "removed"} \X Objects)
      /\ (odm => Following') /\ (~odm => channel' = channel)
  BY <1>1, <1>2, <1>4, <1>5, RegisteredFollows
<1>7. ListType' /\ ListenersAgree' /\ ~wrong'
  BY <1>1, <1>5, <1>6 DEF ViewInv, ListType, ListenersAgree, Entries
<1>8. ASSUME NEW u \in Clients PROVE CallTrue(u)'
  <2>1. CASE u = t
    <3>1. o \in used' /\ CallTrue(t)
      BY <1>1 DEF Registered, ViewInv
    <3> QED BY <1>1, <1>2, <1>5, <2>1, <3>1 DEF CallTrue
  <2>2. CASE u # t
    BY <1>1, <1>4, <1>5, <1>6, <2>2, CallStays DEF ViewInv
  <2> QED BY <2>1, <2>2
<1>9. ASSUME ~odm PROVE Polling'
  <2>1. ASSUME NEW u \in Clients PROVE AccessTrue(u)'
    <3>1. listed' = listed \cup {o} /\ alive' = alive \cup {o} /\ AccessTrue(u)
      BY <1>1, <1>9 DEF Registered, ViewInv, Polling
    <3>2. CASE u = t
      BY <1>2, <1>5, <3>2 DEF AccessTrue
    <3>3. CASE u # t
      <4>1. Alike(call[u], call'[u])
        BY <1>4, <1>5, <3>3
      <4>2. call'[u].pc \in {"fetch", "sync", "list"} => listed' \subseteq call'[u].ever
        BY <1>4, <1>5, <1>9, <3>1, <3>3 DEF AccessTrue, Alike
      <4> QED BY <1>1, <1>6, <3>1, <4>1, <4>2, AccessStays
    <3> QED BY <3>2, <3>3
  <2> QED BY <1>1, <1>6, <1>9, <2>1 DEF ViewInv, Polling
<1> QED BY <1>6, <1>7, <1>8, <1>9, Together

\* A step that changes the list with the lock free keeps the invariant if list, events and calls
\* stay right: nobody is reading.
LEMMA UnderLock ==
    ASSUME ViewConstants, ViewInv, lock = None, UNCHANGED <<variety, odm, used, listed, told, alive, lock, cached>>,
           view' \in [Identifiers -> Objects \cup {None, Broken}], ListenersAgree', ~wrong',
           handler' \in Objects \cup {None}, channel' \in Seq({"added", "removed"} \X Objects),
           call' \in [Clients -> Calls], \A u \in Clients : CallTrue(u)',
           odm => ChannelTrue' /\ HandlerTrue' /\ ViewSound' /\ ViewComplete',
           ~odm => Polling'
    PROVE  ViewInv'
<1>1. ASSUME odm PROVE Following'
  <2>1. ASSUME NEW u \in Clients PROVE SnapTrue(u)'
    BY <1>1, u # None DEF CallTrue, SnapTrue, ViewConstants
  <2> QED BY <1>1, <2>1 DEF Following
<1>2. ListType' /\ DomainTrue'
  BY DEF ViewInv, ListType, DomainTrue, Newer
<1> QED BY <1>1, <1>2, Together

\* The addition of a created application keeps the invariant; one whose removal was handled is on
\* record.
LEMMA AddCreatedKeeps ==
    ASSUME ViewConstants, ViewInv, NEW t \in Clients, addCreated(t), UNCHANGED <<variety, odm>>
    PROVE  ViewInv'
<1>1. PICK o \in used :
          /\ o = call[t].obj /\ call[t].pc = "created" /\ variety = "app" /\ lock = None
          /\ add(o) /\ zombies' = (IF Handled(o) THEN zombies \cup {o} ELSE zombies)
          /\ call' = [Disturbed(t) EXCEPT ![t] = Idle]
          /\ UNCHANGED <<used, listed, told, alive, channel, handler, cached, lock, wrong>>
  BY DEF addCreated, ViewInv, CallTrue, domainVars, add
<1>2. /\ Disturbed(t) \in [Clients -> Calls]
      /\ \A u \in Clients : /\ Alike(call[u], Disturbed(t)[u])
                            /\ u # t /\ call[u].pc \in {"fetch", "sync", "list"} => Disturbed(t)[u].disturbed
  BY DisturbedIs DEF ViewInv
<1>3. Idle \in Calls /\ Idle.pc = "idle" /\ Idle.snap = {}
  BY DEF Idle, Calls, Pcs
<1>4. /\ call' \in [Clients -> Calls] /\ call'[t] = Idle
      /\ \A u \in Clients : u # t => call'[u] = Disturbed(t)[u] /\ Alike(call[u], call'[u])
  BY <1>1, <1>2, <1>3
<1>5. ASSUME NEW u \in Clients PROVE CallTrue(u)'
  <2>1. CASE u = t
    BY <1>1, <1>3, <1>4, <2>1 DEF CallTrue, ViewInv
  <2>2. CASE u # t
    BY <1>1, <1>4, <2>2, CallStays DEF ViewInv
  <2> QED BY <2>1, <2>2
<1>6. PICK failing : /\ view' = [view EXCEPT ![Name[o]] = Added(o, failing)] /\ forgotten' = forgotten \cup failing
                     /\ o \in Objects /\ o \notin {None, Broken}
                     /\ ListenersAgree' /\ view' \in [Identifiers -> Objects \cup {None, Broken}]
  <2>1. o \in Objects /\ o \notin {None, Broken}
    BY DEF ViewInv, ListType, ViewConstants
  <2>2. ListenersAgree' /\ view' \in [Identifiers -> Objects \cup {None, Broken}]
    BY <1>1, <2>1, AddAgrees DEF ViewInv
  <2> QED BY <1>1, <2>1, <2>2, AddIs
<1>7. ASSUME odm PROVE ChannelTrue' /\ HandlerTrue' /\ ViewSound' /\ ViewComplete'
  <2>1. ChannelTrue' /\ HandlerTrue'
    BY <1>1, <1>7 DEF ViewInv, Following, ChannelTrue, EventTrue, Later, HandlerTrue, Gone, Queued
  <2>2. (\A x : Gone(x)' <=> Gone(x)) /\ (\A y : Coming(y) => Coming(y)')
    BY <1>1, <1>6 DEF Gone, Queued, Coming
  <2>3. ViewSound'
    <3>1. zombies \subseteq zombies' /\ (o \in zombies' \/ ~Gone(o)')
      BY <1>1, <2>2, HandledIs
    <3> QED BY <1>1, <1>6, <1>7, <2>2, <3>1, AddSound DEF ViewInv, Following
  <2>4. ASSUME NEW y \in listed, Releasing(y) PROVE Releasing(y)'
    <3>1. PICK u \in Clients : call[u].pc = "release" /\ call[u].obj = y
      BY <2>4 DEF Releasing
    <3>2. u # t /\ Alike(call[u], call'[u])
      BY <1>1, <1>4, <3>1
    <3> QED BY <3>1, <3>2 DEF Releasing, Alike
  <2>5. \A y \in used : ~Newer(o, y)
    BY <1>1 DEF ViewInv, DomainTrue
  <2>6. ViewComplete'
    BY <1>1, <1>6, <1>7, <2>2, <2>4, <2>5, AddComplete DEF ViewInv, Following
  <2> QED BY <2>1, <2>3, <2>6
<1>8. ASSUME ~odm PROVE Polling'
  <2>1. ASSUME NEW u \in Clients PROVE AccessTrue(u)'
    <3>1. CASE u = t
      BY <1>3, <1>4, <3>1 DEF AccessTrue
    <3>2. CASE u # t
      <4>1. AccessTrue(u)
        BY <1>8 DEF ViewInv, Polling
      <4>2. call'[u].pc \in {"fetch", "sync", "list"} => listed' \subseteq call'[u].ever
        BY <1>1, <1>4, <3>2, <4>1 DEF AccessTrue, Alike
      <4> QED BY <1>1, <1>2, <1>4, <3>2, <4>1, <4>2, AccessStays
    <3> QED BY <3>1, <3>2
  <2>2. ASSUME NEW n \in Identifiers, view'[n] = Broken PROVE FALSE
    <3>1. view[n] # Broken
      BY <1>1, <1>8 DEF ViewInv, Polling
    <3>2. Added(o, failing) # Broken
      <4>1. view[Name[o]] # Broken
        BY <1>1, <1>6, <1>8 DEF ViewInv, Polling, Identifiers
      <4> QED BY <1>1, <1>6, <4>1, AddedIs DEF ViewInv
    <3> QED BY <1>6, <2>2, <3>1, <3>2 DEF ViewInv, ListType
  <2> QED BY <1>1, <1>8, <2>1, <2>2 DEF ViewInv, Polling
<1> QED BY <1>1, <1>4, <1>5, <1>6, <1>7, <1>8, UnderLock DEF ViewInv, ListType

\* The removal of an application's entry keeps the invariant: the call is about to release it.
LEMMA RemoveEntryKeeps ==
    ASSUME ViewConstants, ViewInv, variety # "state", NEW t \in Clients, removeEntry(t), UNCHANGED <<variety, odm>>
    PROVE  ViewInv'
<1>1. PICK o \in Objects :
          /\ o = call[t].obj /\ call[t].pc = "remove" /\ variety = "app" /\ lock = None
          /\ UNCHANGED <<used, listed, told, alive, channel, handler, cached, lock, zombies, forgotten, wrong>>
  BY DEF removeEntry, ViewInv, CallTrue, domainVars
<1>2. CASE call' = [call EXCEPT ![t] = Idle] /\ UNCHANGED <<view, announced>>
  <2>1. Idle \in Calls /\ Idle.pc = "idle" /\ Idle.snap = {}
    BY DEF Idle, Calls, Pcs
  <2>2. /\ call' \in [Clients -> Calls] /\ call'[t] = Idle
        /\ \A u \in Clients : u # t => call'[u] = call[u]
    BY <1>2, <2>1 DEF ViewInv, ListType
  <2>3. CallTrue(t)' /\ SnapTrue(t)' /\ AccessTrue(t)'
    BY <1>1, <2>1, <2>2 DEF CallTrue, SnapTrue, AccessTrue, ViewInv
  <2> QED BY <1>1, <1>2, <2>2, <2>3, QuietKeeps DEF ViewInv, ListType
<1>3. CASE remove(Name[o]) /\ call' = [Disturbed(t) EXCEPT ![t].pc = "release"]
  <2>1. /\ Disturbed(t) \in [Clients -> Calls] /\ Disturbed(t)[t] = call[t]
        /\ \A u \in Clients : /\ Alike(call[u], Disturbed(t)[u])
                              /\ u # t /\ call[u].pc \in {"fetch", "sync", "list"} => Disturbed(t)[u].disturbed
    BY DisturbedIs DEF ViewInv
  <2>2. /\ call' \in [Clients -> Calls] /\ call'[t].pc = "release" /\ call'[t].obj = o /\ call'[t].snap = call[t].snap
        /\ \A u \in Clients : u # t => call'[u] = Disturbed(t)[u] /\ Alike(call[u], call'[u])
    BY <1>1, <1>3, <2>1 DEF Calls, Pcs
  <2>3. ASSUME NEW u \in Clients PROVE CallTrue(u)'
    <3>1. CASE u = t
      BY <1>1, <2>2, <3>1 DEF CallTrue, ViewInv
    <3>2. CASE u # t
      BY <1>1, <2>2, <3>2, CallStays DEF ViewInv
    <3> QED BY <3>1, <3>2
  <2>4. /\ view' = [view EXCEPT ![Name[o]] = None] /\ Name[o] \in Identifiers
        /\ ListenersAgree' /\ view' \in [Identifiers -> Objects \cup {None, Broken}]
    BY <1>1, <1>3, RemoveAgrees DEF remove, ViewInv, Identifiers
  <2>5. ASSUME odm PROVE ChannelTrue' /\ HandlerTrue' /\ ViewSound' /\ ViewComplete'
    <3>1. ChannelTrue' /\ HandlerTrue'
      BY <1>1, <2>5 DEF ViewInv, Following, ChannelTrue, EventTrue, Later, HandlerTrue, Gone,
         Queued
    <3>2. (\A x : Gone(x)' <=> Gone(x)) /\ (\A y : Coming(y) => Coming(y)')
      BY <1>1 DEF Gone, Queued, Coming
    <3>3. ViewSound'
      BY <1>1, <2>4, <2>5, <3>2, RemoveSound DEF ViewInv, Following
    <3>4. ASSUME NEW y, Releasing(y) PROVE Releasing(y)'
      <4>1. PICK u \in Clients : call[u].pc = "release" /\ call[u].obj = y
        BY <3>4 DEF Releasing
      <4>2. u # t /\ Alike(call[u], call'[u])
        BY <1>1, <2>2, <4>1
      <4> QED BY <4>1, <4>2 DEF Releasing, Alike
    <3>5. Releasing(o)'
      BY <2>2 DEF Releasing
    <3>6. ASSUME cached, NEW y \in listed PROVE view'[Name[y]] = y \/ Coming(y)' \/ Releasing(y)'
      <4>1. view[Name[y]] = y \/ Coming(y) \/ Releasing(y)
        BY <2>5, <3>6 DEF ViewInv, Following, ViewComplete
      <4>2. y \in used /\ Name[y] \in Identifiers
        BY DEF ViewInv, DomainTrue, ListType, Identifiers
      <4>3. CASE Name[y] # Name[o]
        BY <2>4, <3>2, <3>4, <4>1, <4>2, <4>3 DEF ViewInv, ListType
      <4>4. CASE Name[y] = Name[o] /\ view[Name[y]] = y
        <5>1. o \in used
          BY <1>1, <2>5 DEF ViewInv, CallTrue
        <5>2. y = o
          BY <1>1, <4>2, <4>4, <5>1, OnlyOne DEF ViewInv
        <5> QED BY <3>5, <5>2
      <4> QED BY <3>2, <3>4, <4>1, <4>3, <4>4
    <3> QED BY <1>1, <3>1, <3>3, <3>6 DEF ViewComplete
  <2>6. ASSUME ~odm PROVE Polling'
    <3>1. ASSUME NEW u \in Clients PROVE AccessTrue(u)'
      <4>1. CASE u = t
        BY <2>2, <4>1 DEF AccessTrue
      <4>2. CASE u # t
        <5>1. AccessTrue(u)
          BY <2>6 DEF ViewInv, Polling
        <5>2. call'[u].pc \in {"fetch", "sync", "list"} => listed' \subseteq call'[u].ever
          BY <1>1, <2>2, <4>2, <5>1 DEF AccessTrue, Alike
        <5> QED BY <1>1, <2>1, <2>2, <4>2, <5>1, <5>2, AccessStays
      <4> QED BY <4>1, <4>2
    <3>2. \A n \in Identifiers : view'[n] # Broken
      BY <1>1, <2>4, <2>6 DEF ViewInv, Polling, ListType, ViewConstants
    <3> QED BY <1>1, <2>6, <3>1, <3>2 DEF ViewInv, Polling
  <2> QED BY <1>1, <2>2, <2>3, <2>4, <2>5, <2>6, UnderLock DEF ViewInv, ListType
<1> QED BY <1>1, <1>2, <1>3 DEF removeEntry

\* sync keeps the invariant: what it drops and what it cannot add is gone, dead or to come.
LEMMA SyncKeeps ==
    ASSUME ViewConstants, ViewInv, variety # "state", NEW t \in Clients, sync(t), UNCHANGED <<variety, odm>>
    PROVE  ViewInv'
<1> DEFINE snap == call[t].snap
<1>1. PICK late \in SUBSET (snap \ alive), failing \in SUBSET snap :
          /\ view' = Synced(snap, late, failing)
          /\ forgotten' = forgotten \cup failing
          /\ call' = [Disturbed(t) EXCEPT ![t] = After(t, failing)]
  BY DEF sync, Failures, Fail
<1> DEFINE k == After(t, failing)
<1>2. /\ call[t].pc = "sync" /\ call[t] \in Calls /\ lock = (IF odm THEN t ELSE None) /\ lock' = None /\ cached'
      /\ announced' = {n \in Identifiers : view'[n] # None}
      /\ UNCHANGED <<used, listed, told, alive, channel, handler, zombies, wrong>>
  BY DEF sync, domainVars, ViewInv, ListType
<1>3. /\ view' \in [Identifiers -> Objects \cup {None, Broken}]
      /\ \A n \in Identifiers : view'[n] = None \/ \E o \in snap : Name[o] = n /\ view'[n] = Added(o, failing)
      /\ \A o \in snap : o \in alive \/ variety = "service" => view'[Name[o]] = Added(o, failing)
  <2>1. late \in SUBSET (snap \ alive) /\ view' = Synced(snap, late, failing)
    BY <1>1
  <2>2. ListType /\ CallTrue(t)
    BY DEF ViewInv
  <2>3. /\ Synced(snap, late, failing) \in [Identifiers -> Objects \cup {None, Broken}]
        /\ \A n \in Identifiers : \/ Synced(snap, late, failing)[n] = None
                                  \/ \E o \in snap : Name[o] = n /\ Synced(snap, late, failing)[n] = Added(o, failing)
        /\ \A o \in snap : o \in alive \/ variety = "service" => Synced(snap, late, failing)[Name[o]] = Added(o, failing)
    BY <2>1, <2>2, SyncedIs
  <2> HIDE DEF snap
  <2> QED BY <2>1, <2>3
<1>4. /\ Disturbed(t) \in [Clients -> Calls] /\ Disturbed(t)[t] = call[t]
      /\ \A u \in Clients : /\ Alike(call[u], Disturbed(t)[u])
                            /\ u # t /\ call[u].pc \in {"fetch", "sync", "list"} => Disturbed(t)[u].disturbed
  BY DisturbedIs DEF ViewInv
<1>5. /\ k \in Calls /\ (odm => k.pc = "idle" /\ k.snap = {})
      /\ ~odm => /\ k.pc = "list" /\ k.snap = {} /\ k.ever = call[t].ever /\ k.begun = call[t].begun
                 /\ k.disturbed = (call[t].disturbed \/ failing # {}) /\ k.obj = call[t].obj
  BY <1>2 DEF Idle, Calls, Pcs, After
<1>6. call' = [Disturbed(t) EXCEPT ![t] = k]
  BY <1>1
<1> HIDE DEF k
<1>7. /\ call' \in [Clients -> Calls] /\ call'[t] = k
      /\ \A u \in Clients : u # t => call'[u] = Disturbed(t)[u] /\ Alike(call[u], call'[u])
  BY <1>4, <1>5, <1>6
<1>8. ASSUME NEW u \in Clients PROVE CallTrue(u)'
  <2>1. u # None /\ t # None
    BY DEF ViewConstants
  <2>2. CASE u = t
    BY <1>2, <1>5, <1>7, <2>1, <2>2 DEF CallTrue
  <2>3. CASE u # t
    BY <1>2, <1>7, <2>1, <2>3, CallStays DEF ViewInv
  <2> QED BY <2>2, <2>3
<1>9. ListType' /\ DomainTrue' /\ ListenersAgree' /\ ~wrong'
  BY <1>2, <1>3, <1>7 DEF ViewInv, ListType, DomainTrue, Newer, ListenersAgree, Entries
<1>10. ASSUME odm PROVE Following'
  <2>0. ListType /\ DomainTrue /\ ChannelTrue /\ ViewSound /\ HandlerTrue /\ SnapTrue(t)
    BY <1>10 DEF ViewInv, Following
  <2>1. ChannelTrue' /\ HandlerTrue'
    BY <1>2, <2>0 DEF ChannelTrue, EventTrue, Later, HandlerTrue, Gone, Queued
  <2>2. (\A x : Gone(x)' <=> Gone(x)) /\ (\A y : Coming(y) => Coming(y)')
    BY <1>1, <1>2 DEF Gone, Queued, Coming
  <2>3. /\ \A o \in snap : o \in used /\ ~Gone(o)
        /\ \A o \in listed \ snap : Coming(o)
    BY <1>2, <2>0 DEF SnapTrue
  <2>4. ViewSound'
    <3>1. ASSUME NEW n \in Identifiers PROVE SoundAt(n)'
      <4>1. SoundAt(n)
        BY <2>0 DEF ViewSound
      <4>2. CASE view'[n] = view[n]
        BY <1>1, <1>2, <2>2, <4>1, <4>2, SoundStays
      <4>3. CASE view'[n] = None
        BY <4>3 DEF SoundAt, ViewConstants
      <4>4. CASE view'[n] # view[n] /\ view'[n] # None
        <5>1. PICK o \in snap : Name[o] = n /\ view'[n] = Added(o, failing)
          BY <1>3, <4>4
        <5>2. o \in used /\ ~Gone(o)' /\ o \in Objects
          BY <2>0, <2>2, <2>3 DEF ListType
        <5>3. Added(o, failing) \in {o, Broken} /\ (Added(o, failing) = Broken => Fails(o)')
          BY <1>1, <1>2, <2>0, <4>4, <5>1, <5>2, AddedIs DEF Fails
        <5> QED BY <1>2, <5>1, <5>2, <5>3 DEF SoundAt, ViewConstants
      <4> QED BY <4>2, <4>3, <4>4
    <3> QED BY <1>2, <2>0, <3>1 DEF ViewSound
  <2>5. ASSUME NEW y \in listed' PROVE view'[Name[y]] = y \/ Coming(y)'
    <3>1. CASE y \notin snap
      BY <1>2, <2>2, <2>3, <3>1
    <3>2. CASE y \in snap /\ (y \in alive \/ variety = "service")
      <4>1. view'[Name[y]] = Added(y, failing)
        BY <1>3, <3>2
      <4>2. Added(y, failing) = y \/ Coming(y)'
        BY <1>1, <1>2, <2>0, <2>2, AddedOr DEF Coming
      <4> QED BY <2>2, <4>1, <4>2
    <3>3. CASE ~(y \in alive \/ variety = "service")
      BY <1>2, <3>3 DEF Coming
    <3> QED BY <3>1, <3>2, <3>3
  <2>6. ASSUME NEW u \in Clients PROVE call'[u].pc # "sync"
    <3>1. CASE u = t
      BY <1>5, <1>7, <1>10, <3>1
    <3>2. CASE u # t
      BY <1>2, <1>7, <1>10, <3>2 DEF ViewInv, CallTrue, Alike
    <3> QED BY <3>1, <3>2
  <2> QED BY <2>1, <2>4, <2>5, <2>6 DEF Following, ViewComplete, SnapTrue
<1>11. ASSUME ~odm PROVE Polling'
  <2>1. AccessTrue(t) /\ \A n \in Identifiers : view[n] = Broken => variety # "app"
    BY <1>11 DEF ViewInv, Polling
  <2>2. ASSUME ~call[t].disturbed, failing = {} PROVE Plausible(t)'
    <3>1. call'[t].begun \cap listed' \subseteq snap /\ snap \subseteq call'[t].ever /\ snap \subseteq Objects
      BY <1>2, <1>5, <1>7, <1>11, <2>1, <2>2 DEF AccessTrue, Calls
    <3>2. ASSUME NEW o \in call'[t].begun \cap listed' \cap alive' PROVE Name[o] \in Entries'
      <4>1. o \in snap /\ o \in alive /\ o \in Objects /\ Name[o] \in Identifiers
        BY <1>2, <3>1 DEF Identifiers
      <4>2. view'[Name[o]] = Added(o, failing) /\ Added(o, failing) # None
        BY <1>3, <2>2, <4>1, AddedIs DEF ViewInv
      <4> QED BY <4>1, <4>2 DEF Entries
    <3>3. ASSUME NEW n \in Entries' PROVE \E o \in call'[t].ever : Name[o] = n
      BY <1>3, <3>1 DEF Entries
    <3> QED BY <3>2, <3>3 DEF Plausible
  <2>3. ASSUME NEW u \in Clients PROVE AccessTrue(u)'
    <3>1. CASE u = t
      <4>1. listed' \subseteq call'[t].ever /\ call'[t].begun \subseteq used'
        BY <1>2, <1>5, <1>7, <1>11, <2>1 DEF AccessTrue
      <4> QED BY <1>5, <1>7, <1>11, <2>2, <3>1, <4>1 DEF AccessTrue
    <3>2. CASE u # t
      <4>1. AccessTrue(u)
        BY <1>11 DEF ViewInv, Polling
      <4>2. call'[u].pc \in {"fetch", "sync", "list"} => listed' \subseteq call'[u].ever
        BY <1>2, <1>7, <3>2, <4>1 DEF AccessTrue, Alike
      <4> QED BY <1>2, <1>4, <1>7, <3>2, <4>1, <4>2, AccessStays
    <3> QED BY <3>1, <3>2
  <2>4. ASSUME NEW n \in Identifiers, view'[n] = Broken PROVE variety' # "app"
    <3>1. PICK o \in snap : Name[o] = n /\ view'[n] = Added(o, failing)
      BY <1>3, <2>4 DEF ViewConstants
    <3>2. o \in Objects
      BY <1>2 DEF Calls
    <3> QED BY <2>1, <2>4, <3>1, <3>2, AddedIs DEF ViewInv
  <2> QED BY <1>2, <1>11, <2>3, <2>4 DEF ViewInv, Polling
<1> QED BY <1>8, <1>9, <1>10, <1>11, Together

----------------------------------------------------------------------------
\* What is known of the event that ODMListener.push handles.
LEMMA PopIs ==
    ASSUME ViewInv, NEW event \in {"added", "removed"}, push(event), UNCHANGED <<used, told>>
    PROVE  /\ odm /\ handler = None /\ ChannelTrue' /\ channel' \in Seq({"added", "removed"} \X Objects)
           /\ \E o \in Objects :
                 /\ Head(channel)[2] = o
                 /\ \A e : Queued(e) <=> Queued(e)' \/ e = <<event, o>>
                 /\ event = "added" => o \in used /\ (o \in told => Queued(Minus(o))')
                 /\ event = "removed" => o \in told /\ \A y \in used : Newer(o, y) => Queued(Plus(y))'
<1>1. channel # <<>> /\ handler = None /\ Head(channel)[1] = event /\ channel' = Tail(channel) /\ ListType
  BY DEF push, ViewInv
<1>2. odm /\ ChannelTrue
  BY <1>1 DEF ViewInv, Polling, Following, ListType
<1>3. ChannelTrue' /\ EventTrue(1) /\ Head(channel) = channel[1]
  BY <1>1, <1>2, ChannelPops
<1> DEFINE S == {"added", "removed"} \X Objects
<1>4. channel \in Seq(S)
  BY <1>1 DEF ListType
<1> HIDE DEF S
<1>5. channel' \in Seq(S)
  BY <1>1, <1>4
<1>6. /\ 1 \in DOMAIN channel
      /\ \A e : Queued(e)' <=> Later(1, e)
      /\ \A e : Queued(e) <=> Queued(e)' \/ e = channel[1]
  BY <1>1, <1>3, <1>4, Popped
<1>7. PICK o \in Objects : /\ channel[1] = Plus(o) \/ channel[1] = Minus(o)
                           /\ channel[1][2] = o
                           /\ channel[1][1] = "added" <=> channel[1] = Plus(o)
  BY <1>1, <1>6, EventIs
<1>8. channel[1] = <<event, o>> /\ (event = "added" => channel[1] = Plus(o)) /\ (event = "removed" => channel[1] = Minus(o))
  BY <1>1, <1>3, <1>7 DEF Plus, Minus
<1>9. /\ event = "added" => o \in used /\ (o \in told => Later(1, Minus(o)))
      /\ event = "removed" => o \in told /\ \A y \in used : Newer(o, y) => Later(1, Plus(y))
  BY <1>3, <1>8 DEF EventTrue
<1>10. \A e : Queued(e) <=> Queued(e)' \/ e = <<event, o>>
  BY <1>6, <1>8
<1> QED BY <1>1, <1>2, <1>3, <1>5, <1>6, <1>7, <1>9, <1>10 DEF S

\* The handler of an application's arrival keeps the invariant.
LEMMA ApplicationAddedKeeps ==
    ASSUME ViewConstants, ViewInv, applicationAddedEvent, UNCHANGED <<variety, odm>>
    PROVE  ViewInv'
<1>1. /\ variety = "app" /\ push("added") /\ add(Head(channel)[2]) /\ lock = None
      /\ UNCHANGED <<used, listed, told, alive, handler, cached, lock, call, zombies, wrong>>
  BY DEF applicationAddedEvent, domainVars, add
<1>2. /\ odm /\ handler = None /\ ChannelTrue' /\ channel' \in Seq({"added", "removed"} \X Objects)
      /\ ListType /\ DomainTrue /\ ViewSound /\ ViewComplete /\ ChannelTrue /\ ListenersAgree
  BY <1>1, PopIs DEF ViewInv, Following
<1>3. PICK o \in Objects : /\ Head(channel)[2] = o
                           /\ \A e : Queued(e) <=> Queued(e)' \/ e = Plus(o)
                           /\ o \in used /\ (o \in told => Queued(Minus(o))')
  BY <1>1, PopIs DEF Plus
<1>4. PICK failing : /\ view' = [view EXCEPT ![Name[o]] = Added(o, failing)] /\ ListenersAgree'
                     /\ forgotten' = forgotten \cup failing
                     /\ view' \in [Identifiers -> Objects \cup {None, Broken}]
  BY <1>1, <1>2, <1>3, AddIs, AddAgrees
<1>5. (\A x : Gone(x)' <=> Gone(x)) /\ ~Gone(o)'
  BY <1>1, <1>3, EventsDiffer DEF Gone
<1>6. \A y : y # o /\ Coming(y) => Coming(y)'
  BY <1>1, <1>3, <1>4, EventsDiffer DEF Coming
<1>7. ViewSound'
  BY <1>1, <1>2, <1>3, <1>4, <1>5, AddSound
<1>8. ViewComplete'
  <2>1. (\A y \in used : ~Newer(o, y)) /\ \A y : Releasing(y) => Releasing(y)'
    BY <1>1, <1>2, <1>3 DEF DomainTrue, Releasing
  <2> QED BY <1>1, <1>2, <1>3, <1>4, <1>6, <2>1, AddComplete
<1>9. ASSUME NEW u \in Clients PROVE CallTrue(u)'
  BY <1>1, AlikeSame, CallStays DEF ViewInv
<1>10. HandlerTrue'
  BY <1>1, <1>2 DEF HandlerTrue
<1> QED BY <1>1, <1>2, <1>4, <1>7, <1>8, <1>9, <1>10, UnderLock DEF ViewInv, ListType

\* The addition of a device or service of the manager keeps the invariant, though it comes after
\* the question whether it is one.
LEMMA AddOwnKeeps ==
    ASSUME ViewConstants, ViewInv, variety # "state", addOwn, UNCHANGED <<variety, odm>>
    PROVE  ViewInv'
<1>1. /\ handler # None /\ handler' = None /\ add(handler) /\ lock = None
      /\ UNCHANGED <<used, listed, told, alive, channel, cached, lock, call, zombies, wrong>>
  BY DEF addOwn, domainVars, add
<1>2. /\ odm /\ ChannelTrue /\ HandlerTrue
      /\ ListType /\ DomainTrue /\ ViewSound /\ ViewComplete /\ ListenersAgree
  BY <1>1 DEF ViewInv, Following, Polling, ListType
<1>3. PICK o \in used : /\ o = handler /\ o \in Objects /\ ~Gone(o) /\ variety # "app"
                        /\ \A y \in used : Newer(o, y) => Queued(Plus(y))
  BY <1>1, <1>2 DEF HandlerTrue, ListType
<1>4. PICK failing : /\ view' = [view EXCEPT ![Name[o]] = Added(o, failing)] /\ ListenersAgree'
                     /\ forgotten' = forgotten \cup failing
                     /\ view' \in [Identifiers -> Objects \cup {None, Broken}]
  BY <1>1, <1>2, <1>3, AddIs, AddAgrees
<1>5. (\A x : Gone(x)' <=> Gone(x)) /\ (\A e : Queued(e)' <=> Queued(e)) /\ \A i, e : Later(i, e)' <=> Later(i, e)
  BY <1>1 DEF Gone, Queued, Later
<1>6. \A y : y # o /\ Coming(y) => Coming(y)'
  BY <1>1, <1>3, <1>4, <1>5 DEF Coming
<1>7. ViewSound'
  BY <1>1, <1>2, <1>3, <1>4, <1>5, AddSound DEF ViewSound
<1>8. ViewComplete'
  <2>1. (\A y \in used : Newer(o, y) => Coming(y)') /\ \A y : Releasing(y) => Releasing(y)'
    BY <1>1, <1>3, <1>4, <1>5 DEF Coming, Releasing
  <2> QED BY <1>1, <1>2, <1>3, <1>4, <1>6, <2>1, AddComplete
<1>9. ASSUME NEW u \in Clients PROVE CallTrue(u)'
  BY <1>1, AlikeSame, CallStays DEF ViewInv
<1>10. HandlerTrue' /\ ChannelTrue'
  BY <1>1, <1>2, <1>5 DEF HandlerTrue, ChannelTrue, EventTrue
<1> QED BY <1>1, <1>2, <1>4, <1>7, <1>8, <1>9, <1>10, UnderLock DEF ViewInv, ListType

\* The handlers of removals keep the invariant: the entry of the identifier goes, and a newer object
\* of it is still to come.
LEMMA RemovedKeeps ==
    ASSUME ViewConstants, ViewInv, removedEvent, UNCHANGED <<variety, odm>>
    PROVE  ViewInv'
<1>1. /\ push("removed") /\ lock = None
      /\ UNCHANGED <<used, listed, told, alive, handler, cached, lock, call, zombies, forgotten, wrong>>
  BY DEF removedEvent, domainVars
<1>2. /\ odm /\ handler = None /\ ChannelTrue' /\ channel' \in Seq({"added", "removed"} \X Objects)
      /\ ListType /\ DomainTrue /\ ViewSound /\ ViewComplete /\ ListenersAgree
  BY <1>1, PopIs DEF ViewInv, Following
<1>3. PICK o \in Objects : /\ Head(channel)[2] = o
                           /\ \A e : Queued(e) <=> Queued(e)' \/ e = Minus(o)
                           /\ o \in told /\ \A y \in used : Newer(o, y) => Queued(Plus(y))'
  BY <1>1, PopIs DEF Minus
<1>4. /\ view' = [view EXCEPT ![Name[o]] = None] /\ ListenersAgree' /\ Name[o] \in Identifiers
      /\ view' \in [Identifiers -> Objects \cup {None, Broken}]
  <2>1. Name[o] \in Identifiers
    BY DEF Identifiers
  <2>2. CASE Absent(Name[o]) /\ UNCHANGED <<view, announced>>
    BY <1>1, <1>2, <2>1, <2>2 DEF Absent, ListType, ListenersAgree, Entries
  <2>3. CASE remove(Name[o])
    BY <1>1, <1>2, <2>1, <2>3, RemoveAgrees DEF remove
  <2> QED BY <1>3, <2>1, <2>2, <2>3 DEF removedEvent
<1>5. \A x : x # o /\ Gone(x)' => Gone(x)
  BY <1>1, <1>3, EventsDiffer DEF Gone
<1>6. (\A y : Coming(y) => Coming(y)') /\ \A y : Releasing(y) => Releasing(y)'
  BY <1>1, <1>3, EventsDiffer DEF Coming, Releasing
<1>7. ViewSound'
  BY <1>1, <1>2, <1>4, <1>5, RemoveSound
<1>8. ASSUME cached, NEW y \in listed PROVE view'[Name[y]] = y \/ Coming(y)' \/ Releasing(y)'
  <2>1. y \in used \ told /\ Name[y] \in Identifiers /\ o \in used
    BY <1>2, <1>3 DEF DomainTrue, ListType, Identifiers
  <2>2. CASE Name[y] # Name[o]
    BY <1>2, <1>4, <1>6, <1>8, <2>1, <2>2 DEF ViewComplete, ListType
  <2>3. CASE Name[y] = Name[o]
    <3>1. o # y /\ o \in Nat /\ y \in Nat
      BY <1>2, <1>3, <2>1 DEF ViewConstants, ListType
    <3>2. Newer(y, o) \/ Newer(o, y)
      BY <2>3, <3>1 DEF Newer
    <3>3. Newer(o, y)
      BY <1>2, <2>1, <3>2 DEF DomainTrue
    <3> QED BY <1>3, <2>1, <3>3 DEF Coming
  <2> QED BY <2>2, <2>3
<1>9. ASSUME NEW u \in Clients PROVE CallTrue(u)'
  BY <1>1, AlikeSame, CallStays DEF ViewInv
<1>10. HandlerTrue' /\ ViewComplete'
  BY <1>1, <1>2, <1>8 DEF HandlerTrue, ViewComplete
<1> QED BY <1>1, <1>2, <1>4, <1>7, <1>9, <1>10, UnderLock DEF ViewInv, ListType

\* The question whether a device or service is one of the manager's keeps the invariant.
LEMMA AskKeeps ==
    ASSUME ViewConstants, ViewInv, variety \notin {"state", "app"}, push("added"), NEW o \in Objects, o = Head(channel)[2],
           UNCHANGED <<variety, odm, used, listed, told, alive, cached, view, lock, call, announced, zombies, wrong>>,
           handler' \in {None, o} \cup listed, forgotten \subseteq forgotten',
           o \in listed => handler' = o \/ o \in forgotten' \/ (variety # "service" /\ o \notin alive)
    PROVE  ViewInv'
<1>1. /\ odm /\ handler = None /\ ChannelTrue' /\ channel' \in Seq({"added", "removed"} \X Objects)
      /\ ListType /\ DomainTrue /\ ViewSound /\ ViewComplete
  BY PopIs DEF ViewInv, Following
<1>2. /\ \A e : Queued(e) <=> Queued(e)' \/ e = Plus(o)
      /\ o \in used /\ (o \in told => Queued(Minus(o))')
  BY PopIs DEF Plus
<1>3. (\A x : Gone(x)' <=> Gone(x)) /\ ~Gone(o)'
  BY <1>2, EventsDiffer DEF Gone
<1>4. ASSUME NEW y \in listed, Coming(y) PROVE Coming(y)'
  <2>1. CASE y = o
    BY <2>1 DEF Coming
  <2>2. CASE y # o
    BY <1>1, <1>2, <1>4, <2>2, EventsDiffer DEF Coming, ViewConstants, ListType, DomainTrue
  <2> QED BY <2>1, <2>2
<1>5. HandlerTrue'
  <2>1. ASSUME handler' = o, NEW y \in used, Newer(o, y) PROVE Queued(Plus(y))'
    <3>1. Queued(Minus(o))'
      BY <1>1, <1>2, <2>1 DEF DomainTrue
    <3>2. PICK i \in DOMAIN channel' : channel'[i] = Minus(o)
      BY <3>1 DEF Queued
    <3>3. Later(i, Plus(y))'
      BY <1>1, <2>1, <3>2 DEF ChannelTrue, EventTrue, Newer
    <3> QED BY <3>3 DEF Later, Queued
  <2>2. ASSUME NEW x \in listed, handler' = x PROVE HandlerTrue'
    <3>1. x \in used /\ ~Gone(x)' /\ \A y \in used : ~Newer(x, y)
      BY <1>1, <1>3 DEF DomainTrue, Gone
    <3> QED BY <2>2, <3>1 DEF HandlerTrue, Newer
  <2>3. CASE handler' = None
    BY <2>3 DEF HandlerTrue
  <2>4. CASE handler' = o
    BY <1>2, <1>3, <2>1, <2>4 DEF HandlerTrue, Newer
  <2>5. CASE handler' \in listed
    BY <2>2, <2>5
  <2> QED BY <2>3, <2>4, <2>5
<1>6. ViewSound'
  <2>1. ASSUME NEW n \in Identifiers PROVE SoundAt(n)'
    BY <1>1, <1>3, SoundStays DEF ViewSound
  <2> QED BY <1>1, <2>1 DEF ViewSound
<1>7. ViewComplete'
  BY <1>1, <1>4 DEF ViewComplete, Releasing
<1>8. ASSUME NEW u \in Clients PROVE CallTrue(u)' /\ SnapTrue(u)'
  <2>1. CallTrue(u) /\ SnapTrue(u) /\ Alike(call[u], call'[u])
    BY <1>1, AlikeSame DEF ViewInv, Following
  <2>2. CallTrue(u)'
    BY <2>1, CallStays
  <2>3. SnapTrue(u)'
    BY <1>3, <1>4, <2>1, SnapStays
  <2> QED BY <2>2, <2>3
<1>9. ListType' /\ DomainTrue' /\ ListenersAgree' /\ ~wrong'
  BY <1>1 DEF ViewInv, ListType, DomainTrue, Newer, ListenersAgree, Entries
<1>10. Following'
  BY <1>1, <1>5, <1>6, <1>7, <1>8 DEF Following
<1> QED BY <1>1, <1>8, <1>9, <1>10, Together

\* The handlers of the arrivals of devices and services keep the invariant.
LEMMA DeviceAddedKeeps ==
    ASSUME ViewConstants, ViewInv, deviceAddedEvent \/ serviceAddedEvent, UNCHANGED <<variety, odm>>
    PROVE  ViewInv'
<1>1. /\ push("added") /\ variety \in {"device", "service"} /\ handler = None /\ ListType /\ DomainTrue
      /\ UNCHANGED <<used, listed, told, alive, cached, view, lock, call, announced, zombies, wrong>>
  BY DEF deviceAddedEvent, serviceAddedEvent, Ask, domainVars, push, ViewInv
<1>2. PICK o \in Objects : o = Head(channel)[2] /\ o \in used
  BY <1>1, PopIs
<1>3. /\ handler' \in {None, o} \cup listed /\ forgotten \subseteq forgotten'
      /\ o \in listed => handler' = o \/ o \in forgotten' \/ (variety # "service" /\ o \notin alive)
  <2>1. Own(o) \subseteq listed /\ (o \in listed => o \in Own(o))
    BY DEF Own
  <2>2. CASE deviceAddedEvent
    BY <1>1, <1>2, <2>1, <2>2 DEF deviceAddedEvent, Ask
  <2>3. CASE serviceAddedEvent
    <3> DEFINE x == CHOOSE x \in Own(o) : TRUE
    <3>1. Ask(o, IF Own(o) = {} THEN None ELSE x)
      BY <1>2, <2>3 DEF serviceAddedEvent
    <3>2. Own(o) # {} => x \in Own(o)
      OBVIOUS
    <3> HIDE DEF x
    <3>3. o \in listed => x = o
      <4>1. ASSUME o \in listed PROVE x = o
        <5>1. x \in listed /\ Name[x] = Name[o] /\ x \in used \ told /\ o \in used \ told
          BY <1>1, <2>1, <3>2, <4>1 DEF DomainTrue, Own
        <5> QED BY <1>1, <5>1, OnlyOne
      <4> QED BY <4>1
    <3> QED BY <1>1, <2>1, <3>1, <3>2, <3>3 DEF Ask
  <2> QED BY <2>2, <2>3
<1> QED BY <1>1, <1>2, <1>3, AskKeeps

\* Every step of the domain, the client and its event thread keeps the invariant.
LEMMA ListKept ==
    ASSUME ViewConstants, ViewInv, variety # "state", ListNext
    PROVE  ViewInv'
<1>1. UNCHANGED <<variety, odm>>
  BY DEF ListNext
<1>2. ASSUME NEW o \in Objects, Register(o) \/ Unlist(o) \/ sendRemoveEvent(o) \/ Die(o) PROVE ViewInv'
  BY <1>1, <1>2, ObjectRegisterKeeps, UnlistKeeps, RemovalKeeps
<1>3. ASSUME NEW t \in Clients, values(t) \/ fetch(t) \/ sync(t) \/ list(t) PROVE ViewInv'
  BY <1>1, <1>3, ValuesKeeps, FetchKeeps, SyncKeeps, ListKeeps
<1>4. ASSUME NEW t \in Clients, addCreated(t) \/ removeEntry(t) \/ releaseObject(t) PROVE ViewInv'
  BY <1>1, <1>4, AddCreatedKeeps, RemoveEntryKeeps, AppReleaseKeeps
<1>5. ASSUME NEW t \in Clients, NEW o \in Objects, createApplication(t, o) \/ removeApplication(t, o) PROVE ViewInv'
  BY <1>1, <1>5, AppCreateKeeps, RemoveApplicationKeeps
<1>6. CASE applicationAddedEvent \/ deviceAddedEvent \/ serviceAddedEvent \/ addOwn \/ removedEvent
  BY <1>1, <1>6, ApplicationAddedKeeps, DeviceAddedKeeps, AddOwnKeeps, RemovedKeeps
<1> QED BY <1>2, <1>3, <1>4, <1>5, <1>6 DEF ListNext

\* Steps of the attribute keep the invariant of the list.
LEMMA ListIdle ==
    ASSUME ViewInv, UNCHANGED listVars
    PROVE  ViewInv'
<1>1. UNCHANGED <<variety, odm, used, listed, told, alive, channel, handler, cached, view, lock, call, announced, zombies,
                  forgotten, wrong>>
  BY DEF listVars, domainVars
<1>2. ListType' /\ DomainTrue' /\ ListenersAgree' /\ ~wrong'
  BY <1>1 DEF ViewInv, ListType, DomainTrue, Newer, ListenersAgree, Entries
<1>3. ASSUME NEW u \in Clients PROVE CallTrue(u)' /\ (SnapTrue(u) => SnapTrue(u)') /\ (AccessTrue(u) => AccessTrue(u)')
  BY <1>1 DEF ViewInv, CallTrue, SnapTrue, AccessTrue, Gone, Queued, Coming, Plausible, Entries
<1>4. odm => Following'
  BY <1>1, <1>3 DEF ViewInv, Following, ChannelTrue, EventTrue, Later, Newer, HandlerTrue, Gone,
     Queued, ViewSound, SoundAt, Fails,
                    ViewComplete, Coming, Releasing
<1>5. ~odm => Polling'
  BY <1>1, <1>3 DEF ViewInv, Polling
<1> QED BY <1>1, <1>2, <1>3, <1>4, <1>5, Together

\* A list that was never read satisfies the invariant.
LEMMA ListStart == ASSUME ViewConstants, ListInit PROVE ViewInv
<1>1. Idle \in Calls /\ Idle.pc = "idle" /\ Idle.snap = {}
  BY DEF Idle, Calls, Pcs
<1>2. /\ used = {} /\ listed = {} /\ told = {} /\ alive = {} /\ channel = <<>> /\ handler = None /\ ~cached
      /\ view = [n \in Identifiers |-> None] /\ lock = None /\ call = [t \in Clients |-> Idle]
      /\ zombies = {} /\ wrong = FALSE /\ variety \in {"app", "device", "service", "state"} /\ odm \in BOOLEAN
  BY DEF ListInit
<1>3. ListType /\ DomainTrue /\ ListenersAgree
  BY <1>1, <1>2 DEF ListType, DomainTrue, ListenersAgree
<1>4. ASSUME NEW t \in Clients PROVE CallTrue(t) /\ SnapTrue(t) /\ AccessTrue(t)
  BY <1>1, <1>2 DEF CallTrue, SnapTrue, AccessTrue, ViewConstants
<1>5. Following
  <2>1. ChannelTrue /\ HandlerTrue /\ ViewComplete
    BY <1>2 DEF ChannelTrue, HandlerTrue, ViewComplete
  <2>2. ViewSound
    BY <1>2 DEF ViewSound, SoundAt, ViewConstants
  <2> QED BY <1>4, <2>1, <2>2 DEF Following
<1>6. Polling
  BY <1>2, <1>4 DEF Polling, ViewConstants
<1> QED BY <1>2, <1>3, <1>4, <1>5, <1>6 DEF ViewInv

\* The invariant is enough for what the client knows of the list.
LEMMA ListKnown == ASSUME ViewConstants, ViewInv PROVE ViewTrue /\ ListenersAgree /\ ListsTrue
<1>1. ASSUME odm, cached, Settled PROVE /\ \A n \in Identifiers : view[n] \in Objects => view[n] \in listed \cup zombies
                                        /\ \A o \in listed : \/ view[Name[o]] = o \/ o \in forgotten
                                                             \/ (variety # "service" /\ o \notin alive)
  <2>1. ViewSound /\ ViewComplete /\ channel = <<>> /\ handler = None /\ used \subseteq listed \cup told
    BY <1>1 DEF ViewInv, Following, Settled
  <2>2. \A e : ~Queued(e)
    BY <2>1 DEF Queued
  <2>3. \A o : ~Releasing(o)
    BY <1>1 DEF Settled, Releasing
  <2>4. ASSUME NEW n \in Identifiers, view[n] \in Objects PROVE view[n] \in listed \cup zombies
    BY <2>1, <2>2, <2>4 DEF ViewSound, SoundAt, Gone
  <2>5. ASSUME NEW o \in listed
        PROVE  view[Name[o]] = o \/ o \in forgotten \/ (variety # "service" /\ o \notin alive)
    <3>1. o # None
      BY DEF ViewInv, ListType, DomainTrue, ViewConstants
    <3> QED BY <1>1, <2>1, <2>2, <2>3, <3>1 DEF ViewComplete, Coming
  <2> QED BY <2>4, <2>5
<1> QED BY <1>1 DEF ViewTrue, ListsTrue, ViewInv

----------------------------------------------------------------------------
\* what the device has said of its state
Truth == IF sending = None THEN state ELSE sending
AttributeType ==
    /\ reports \in Seq(States) /\ state \in States /\ sending \in States \cup {None}
    /\ copy \in States \cup {None} /\ excused \in BOOLEAN
AttributeInv ==
    /\ AttributeType
    /\ reports # <<>> => reports[Len(reports)] = Truth
    /\ reports = <<>> /\ copy # None => copy = Truth \/ excused

\* A copy that was never read satisfies the invariant.
LEMMA AttributeStart == ASSUME ViewConstants, AttributeInit PROVE AttributeInv
<1>1. (CHOOSE s \in States : TRUE) \in States
  BY DEF ViewConstants
<1>2. state \in States /\ sending = None /\ reports = <<>> /\ copy = None /\ excused \in BOOLEAN
  BY <1>1 DEF AttributeInit
<1>3. reports \in Seq(States)
  BY <1>2
<1> QED BY <1>2, <1>3 DEF AttributeInv, AttributeType

\* The announcement of a state keeps the invariant: the last report is what the device says.
LEMMA AnnounceIs ==
    ASSUME ViewConstants, AttributeInv, NEW s \in States, Announce(s), UNCHANGED <<state, copy, excused>>
    PROVE  AttributeInv'
<1>1. sending' = s /\ reports' = Append(reports, s) /\ reports \in Seq(States) /\ s # None
  BY DEF Announce, AttributeInv, AttributeType, ViewConstants
<1>2. reports' \in Seq(States) /\ reports' # <<>> /\ reports'[Len(reports')] = s
  BY <1>1
<1> QED BY <1>1, <1>2 DEF AttributeInv, AttributeType, Truth

\* Every step of the device and the copy of its state keeps the invariant.
LEMMA AttributeKept == ASSUME ViewConstants, AttributeInv, AttributeNext PROVE AttributeInv'
<1>1. ASSUME NEW s \in States, changeState(s) PROVE AttributeInv'
  BY <1>1, AnnounceIs DEF changeState
<1>2. ASSUME NEW s \in States, set_value(s) PROVE AttributeInv'
  <2>1. CASE Announce(s)
    BY <1>2, <2>1, AnnounceIs DEF set_value
  <2>2. CASE UNCHANGED <<sending, reports>>
    BY <1>2, <2>2 DEF set_value, AttributeInv, AttributeType, Truth
  <2> QED BY <1>2, <2>1, <2>2 DEF set_value
<1>3. CASE storeState
  BY <1>3 DEF storeState, AttributeInv, AttributeType, Truth, ViewConstants
<1>4. CASE get_value \/ syncValue
  <2>1. Fetched /\ UNCHANGED <<state, sending, reports>>
    BY <1>4 DEF get_value, syncValue
  <2>2. excused' \in BOOLEAN
    BY <2>1 DEF Fetched
  <2> QED BY <2>1, <2>2 DEF Fetched, AttributeInv, AttributeType, Truth
<1>5. CASE update
  <2>1. /\ reports # <<>> /\ reports \in Seq(States) /\ reports' = Tail(reports)
        /\ copy' = (IF copy = None THEN None ELSE Head(reports))
        /\ UNCHANGED <<state, sending, excused>>
    BY <1>5 DEF update, AttributeInv, AttributeType
  <2>2. /\ Head(reports) = reports[1] /\ reports[1] \in States /\ reports' \in Seq(States)
        /\ reports' # <<>> => reports'[Len(reports')] = reports[Len(reports)]
        /\ reports' = <<>> => Len(reports) = 1
    <3>1. Head(reports) = reports[1] /\ reports[1] \in States /\ reports' \in Seq(States)
      BY <2>1
    <3>2. /\ Len(reports) \in Nat \ {0} /\ Len(reports') = Len(reports) - 1
          /\ \A i \in 1..Len(reports) - 1 : reports'[i] = reports[i + 1]
      BY <2>1
    <3>3. reports' = <<>> <=> Len(reports') = 0
      BY <3>1
    <3>4. ASSUME reports' # <<>> PROVE reports'[Len(reports')] = reports[Len(reports)]
      <4>1. Len(reports') \in 1..Len(reports) - 1 /\ Len(reports') + 1 = Len(reports)
        BY <3>2, <3>3, <3>4
      <4> QED BY <3>2, <4>1
    <3> QED BY <3>1, <3>2, <3>3, <3>4
  <2>3. reports[Len(reports)] = Truth /\ Truth' = Truth
    BY <2>1 DEF AttributeInv, Truth
  <2>4. AttributeType'
    BY <2>1, <2>2 DEF AttributeInv, AttributeType
  <2>5. reports' = <<>> /\ copy' # None => copy' = Truth'
    BY <2>1, <2>2, <2>3
  <2> QED BY <2>2, <2>3, <2>4, <2>5 DEF AttributeInv
<1> QED BY <1>1, <1>2, <1>3, <1>4, <1>5 DEF AttributeNext

----------------------------------------------------------------------------
\* the invariant of the whole view
ViewTogether == ViewInv /\ AttributeInv

\* A client that knows nothing satisfies the invariant.
LEMMA ViewStart == ASSUME ViewConstants, Init PROVE ViewTogether
BY ListStart, AttributeStart DEF Init, ViewTogether

\* Steps of the list keep the invariant of the attribute.
LEMMA AttributeIdle == ASSUME AttributeInv, UNCHANGED attributeVars PROVE AttributeInv'
BY DEF AttributeInv, AttributeType, Truth, attributeVars

\* Every step of the client's view keeps the invariant.
LEMMA ViewStep == ASSUME ViewConstants, ViewTogether, Next PROVE ViewTogether'
BY ListKept, ListIdle, AttributeKept, AttributeIdle DEF Next, ViewTogether

\* Steps of other parts keep the invariant of the client's view.
LEMMA ViewIdle == ASSUME ViewTogether, UNCHANGED <<listVars, attributeVars>> PROVE ViewTogether'
BY ListIdle, AttributeIdle DEF ViewTogether

\* The invariant is enough for what the client knows.
LEMMA ViewKnown == ASSUME ViewConstants, ViewTogether PROVE ViewTrue /\ ListenersAgree /\ ListsTrue /\ CopyTrue
<1>1. CopyTrue
  BY DEF ViewTogether, AttributeInv, CopyTrue, Truth
<1> QED BY <1>1, ListKnown DEF ViewTogether

\* Once the events of the domain are handled the client's list is the domain's
\* and its copy of a device's state is the device's; who listened knows what is on
\* the list, and without the channel each access returns a list that was true.
THEOREM ViewIsTrue ==
    ASSUME ViewConstants
    PROVE  Init /\ [][Next]_<<listVars, attributeVars>>
           => [](ViewTrue /\ ListenersAgree /\ ListsTrue /\ CopyTrue)
<1>1. Init => ViewTogether
  BY ViewStart
<1>2. ViewTogether /\ [Next]_<<listVars, attributeVars>> => ViewTogether'
  <2>1. ViewTogether /\ Next => ViewTogether'
    BY ViewStep
  <2>2. ViewTogether /\ UNCHANGED <<listVars, attributeVars>> => ViewTogether'
    BY ViewIdle
  <2> QED BY <2>1, <2>2
<1>3. ViewTogether => ViewTrue /\ ListenersAgree /\ ListsTrue /\ CopyTrue
  BY ViewKnown
<1> QED BY <1>1, <1>2, <1>3, PTL

=============================================================================
