------------------------------ MODULE PyMessages ------------------------------
(***************************************************************************)
(* ossie.events.MessageSupplierPort and MessageConsumerPort: messages from *)
(* one component to the consumers connected, each with a queue and a       *)
(* thread of its own.                                                      *)
(*                                                                         *)
(* Messages go out as a list in one CORBA call.  A list that is larger     *)
(* than the ORB allows is refused, unless the consumer is in the same      *)
(* process, where nothing is marshalled; sendMessages then sends the       *)
(* messages one by one.  Any other failure of a call is logged, and the    *)
(* consumer misses what was in it.                                         *)
(***************************************************************************)
EXTENDS Integers, Sequences, SequencesExt, FiniteSets

CONSTANTS Connections, Local,    \* those to consumers in the same process
          Senders,
          Batches,               \* lists of messages that are sent
          Size, Limit,           \* of messages, and of a call
          Unknown,               \* messages whose content the consumer cannot read
          MaxOps,                \* bound on calls
          None

VARIABLES connected,   \* _connections
          proxy,       \* the Consumer_i each of them pushes to
          stuck,       \* portInterfaceAccess was never given back
          call,        \* sendMessages of each sender
          queue,       \* actionQueue of each consumer
          instances,   \* instance_counter of each consumer
          consumers,   \* the Consumer_i on record: <<connection, instance>>
          orphans,     \* ghost: Consumer_i that no disconnectPort will reach
          alive,       \* the consumers' threads
          delivered,   \* ghost: messages handed to callbacks
          put,         \* ghost: messages that reached the consumer
          ops

vars == <<connected, proxy, stuck, call, queue, instances, consumers, orphans, alive, delivered, put,
          ops>>

Init ==
    /\ connected = {} /\ consumers = {} /\ orphans = {}
    /\ proxy = [c \in Connections |-> 0]
    /\ instances = [c \in Connections |-> 0]
    /\ stuck = FALSE
    /\ call = [s \in Senders |-> None]
    /\ queue = [c \in Connections |-> <<>>]
    /\ alive = Connections
    /\ delivered = [c \in Connections |-> <<>>]
    /\ put = [c \in Connections |-> <<>>]
    /\ ops = 0

Called == ops < MaxOps /\ ops' = ops + 1

\* portInterfaceAccess can be had
Free == ~stuck

----------------------------------------------------------------------------
(* The supplier                                                            *)

\* a sender's call from now on misses what it would have sent here
Unsteady(c) == [s \in Senders |-> IF call[s] = None THEN None
                                  ELSE [call[s] EXCEPT !.steady = @ \ {c}]]

\* obtain_push_consumer: the consumer puts a new Consumer_i on record
Obtained(c) == instances[c] + 1

\* A connection under an ID in use takes its place, and nobody tells the old
\* Consumer_i.  An exception of the channel leaves the lock taken, and comes
\* before or after the Consumer_i is on record.
connectPort(c, answer) ==
    /\ Called /\ Free
    /\ IF answer = "refused" THEN UNCHANGED <<instances, consumers>>
       ELSE /\ instances' = [instances EXCEPT ![c] = Obtained(c)]
            /\ consumers' = consumers \union {<<c, Obtained(c)>>}
    /\ IF answer = "done"
       THEN /\ connected' = connected \union {c}
            /\ proxy' = [proxy EXCEPT ![c] = Obtained(c)]
            /\ orphans' = IF c \in connected THEN orphans \union {<<c, proxy[c]>>} ELSE orphans
            /\ UNCHANGED stuck
       ELSE /\ stuck' = TRUE
            /\ orphans' = IF answer = "recorded"
                          THEN orphans \union {<<c, Obtained(c)>>} ELSE orphans
            /\ UNCHANGED <<connected, proxy>>
    /\ UNCHANGED <<call, queue, alive, delivered, put>>

\* the Consumer_i is told, and its record goes when the thread gets there; an
\* exception comes before or after, and the connection stays
disconnectPort(c, answer) ==
    /\ Called /\ Free /\ c \in connected
    /\ IF answer = "refused" THEN UNCHANGED queue
       ELSE queue' = [queue EXCEPT ![c] = Append(@, [act |-> "destroy", msg |-> proxy[c]])]
    /\ IF answer = "done" THEN connected' = connected \ {c} /\ call' = Unsteady(c)
       ELSE UNCHANGED <<connected, call>>
    /\ UNCHANGED <<proxy, stuck, instances, consumers, orphans, alive, delivered, put>>

SizeOf(msgs) == FoldLeft(LAMBDA n, m : n + Size[m], 0, msgs)

\* CORBA.MARSHAL
Refused(msgs, c) == SizeOf(msgs) > Limit /\ c \notin Local

\* a list is beyond the limit if a message in it is, and one of a single message only then
MessagesConstants ==
    /\ Batches \subseteq Seq(DOMAIN Size)
    /\ \A b \in Batches :
        /\ \A i \in DOMAIN b : /\ SizeOf(<<b[i]>>) > Limit <=> Size[b[i]] > Limit
                               /\ Size[b[i]] > Limit => SizeOf(b) > Limit
        /\ Len(b) <= 1 /\ SizeOf(b) > Limit => \E i \in DOMAIN b : Size[b[i]] > Limit

\* the connections that a push reaches: of the others some fail, and some come
\* after the one that refuses the list
Reached(msgs) == SUBSET {c \in connected : ~Refused(msgs, c)}

\* whether one of those to refuse the list does, or they all fail otherwise
Refusals(msgs) == IF \E c \in connected : Refused(msgs, c) THEN BOOLEAN ELSE {FALSE}

\* _push of one call's list
Pushed(s, msgs, R) ==
    /\ queue' = [c \in Connections |->
                    IF c \in R
                    THEN queue[c] \o [i \in DOMAIN msgs |-> [act |-> "message", msg |-> msgs[i]]]
                    ELSE queue[c]]
    /\ put' = [c \in Connections |-> IF c \in R THEN put[c] \o msgs ELSE put[c]]

\* who has missed nothing: a list that is refused is sent again
Steady(s, R, refused) == IF refused THEN call[s].steady ELSE call[s].steady \cap R

Got(s, msgs, R) == [c \in Connections |-> IF c \in R THEN call[s].got[c] \o msgs ELSE call[s].got[c]]

sendMessages(s, b) ==
    /\ Called /\ Free /\ call[s] = None
    /\ call' = [call EXCEPT ![s] = [pc |-> "whole", batch |-> b, next |-> 1, steady |-> connected,
                                    got |-> [c \in Connections |-> <<>>], again |-> FALSE]]
    /\ UNCHANGED <<connected, proxy, stuck, queue, instances, consumers, orphans, alive, delivered,
                   put>>

Resend == 1

\* the whole list; when it is refused and has several messages, the first one
\* is next
sendWhole(s) ==
    /\ call[s] # None /\ call[s].pc = "whole" /\ Free
    /\ LET batch == call[s].batch
       IN \E R \in Reached(batch), refused \in Refusals(batch) :
          /\ Pushed(s, batch, R)
          /\ call' = [call EXCEPT ![s].pc = IF refused /\ Len(batch) > 1 THEN "each" ELSE "return",
                                  ![s].next = Resend,
                                  ![s].again = refused,
                                  ![s].steady = Steady(s, R, refused),
                                  ![s].got = Got(s, batch, R)]
    /\ UNCHANGED <<connected, proxy, stuck, instances, consumers, orphans, alive, delivered, ops>>

\* one message; one that is refused ends the call
sendEach(s) ==
    /\ call[s] # None /\ call[s].pc = "each" /\ Free
    /\ LET i == call[s].next
           one == <<call[s].batch[i]>>
       IN \E R \in Reached(one), refused \in Refusals(one) :
          /\ Pushed(s, one, R)
          /\ call' = [call EXCEPT ![s].pc = IF refused \/ i = Len(call[s].batch) THEN "return" ELSE "each",
                                  ![s].next = i + 1,
                                  ![s].steady = Steady(s, R, refused),
                                  ![s].got = Got(s, one, R)]
    /\ UNCHANGED <<connected, proxy, stuck, instances, consumers, orphans, alive, delivered, ops>>

sent(s) ==
    /\ call[s] # None /\ call[s].pc = "return"
    /\ call' = [call EXCEPT ![s] = None]
    /\ UNCHANGED <<connected, proxy, stuck, queue, instances, consumers, orphans, alive, delivered,
                   put, ops>>

----------------------------------------------------------------------------
(* The consumer's thread                                                   *)

\* _run: a message that cannot be read ends the thread
Loop(a) == a.act = "message" /\ a.msg \in Unknown

Rest(c) == Tail(queue[c])

Destroys_Never(a) == FALSE
Destroys(a) == a.act = "destroy"

_run(c) ==
    /\ c \in alive /\ queue[c] # <<>>
    /\ LET item == Head(queue[c])
       IN /\ queue' = [queue EXCEPT ![c] = Rest(c)]
          /\ alive' = IF Loop(item) THEN alive \ {c} ELSE alive
          /\ consumers' = IF Destroys(item) THEN consumers \ {<<c, item.msg>>} ELSE consumers
          /\ delivered' = IF item.act = "message" /\ item.msg \notin Unknown
                          THEN [delivered EXCEPT ![c] = Append(@, item.msg)] ELSE delivered
    /\ UNCHANGED <<connected, proxy, stuck, call, instances, orphans, put, ops>>

----------------------------------------------------------------------------
Sending(s) == sendWhole(s) \/ sendEach(s) \/ sent(s)

Next ==
    \/ \E c \in Connections, answer \in {"done", "recorded", "refused"} : connectPort(c, answer)
    \/ \E c \in Connections, answer \in {"done", "lost", "refused"} : disconnectPort(c, answer)
    \/ \E s \in Senders : Sending(s) \/ \E b \in Batches : sendMessages(s, b)
    \/ \E c \in Connections : _run(c)

\* the threads get on
Fairness == /\ \A c \in Connections : WF_vars(_run(c))
            /\ \A s \in Senders : WF_vars(Sending(s))

Spec == Init /\ [][Next]_vars /\ Fairness

----------------------------------------------------------------------------
\* the messages up to the first one that no remote call can carry
Carried(b) ==
    LET large == {i \in DOMAIN b : Size[b[i]] > Limit}
    IN IF large = {} THEN b ELSE SubSeq(b, 1, (CHOOSE i \in large : \A j \in large : i <= j) - 1)

\* When sendMessages returns, a consumer that was connected all the time and
\* whose calls came through has the list once and in order, up to a message that
\* is too large by itself, whatever became of the calls of the others.  A
\* consumer in the same process may have it a second time.
BatchesWhole ==
    \A s \in Senders : call[s] # None /\ call[s].pc = "return" =>
        \A c \in call[s].steady :
            LET batch == call[s].batch
            IN IF c \notin Local THEN call[s].got[c] = Carried(batch)
               ELSE \/ call[s].got[c] = batch
                    \/ call[s].again /\ \E first, rest \in 0..Len(batch) :
                          call[s].got[c] = SubSeq(batch, 1, first) \o SubSeq(batch, 1, rest)

\* A message that reached a consumer is handed to its callbacks, in the order
\* of arrival, for as long as no message that cannot be read ended the thread.
Drained ==
    \A c \in Connections :
        (queue[c] # <<>>) ~> (c \notin alive \/ delivered[c] = put[c])

\* The Consumer_i of a connection that is gone is forgotten, unless its ID was
\* used again or its connectPort failed.
Forgotten ==
    \A c \in Connections, i \in 1..MaxOps :
        (<<c, i>> \in consumers \ orphans /\ (c \in connected => proxy[c] # i))
            ~> (<<c, i>> \notin consumers \ orphans \/ c \notin alive)
============================================================================
