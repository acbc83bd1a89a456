--------------------------- MODULE SampleChannel ---------------------------
(* What the sized reads of BulkIO streams promise, whatever packets the       *)
(* samples came in: for every stream ID a channel of samples that the         *)
(* producer extends, that may lose samples, and whose front the reader looks  *)
(* at and consumes.  A sample is a record [id, inst, sri]: its number, the    *)
(* instance of the stream it was sent on, and the SRI it was sent with; the   *)
(* numbers order the samples of a channel.                                    *)
EXTENDS Naturals, Sequences

CONSTANT Streams

VARIABLES chan,     \* the samples of a stream ID on their way to the reader
          block     \* the samples of the last block of a stream ID

Init == /\ chan = [s \in Streams |-> {}]
        /\ block = [s \in Streams |-> <<>>]

\* c and d are the samples of a stream ID before and after a step, b the block

\* samples are lost, new ones come behind all others
Write(c, d) == \A x \in c, y \in d \ c : x.id < y.id

\* a block is the front of the channel in order, and the reader consumes the
\* whole of it or a front part; an empty block is that of a skip, which consumes
\* any front part of the channel
Read(c, d, b) ==
    /\ \A i \in 1..Len(b) :
          /\ b[i] \in c
          /\ {x \in c : x.id < b[i].id} = {b[j] : j \in 1..(i - 1)}
    /\ d \subseteq c
    /\ \A x \in c \ d : \A y \in d : x.id < y.id
    /\ b # <<>> => c \ d \subseteq {b[i] : i \in 1..Len(b)}

\* one call is served at a time; a flush of the queue may lose samples of every
\* stream ID while it makes room for those of one
Next ==
    \/ /\ \A s \in Streams : Write(chan[s], chan'[s])
       /\ UNCHANGED block
    \/ \E s \in Streams :
          /\ Read(chan[s], chan'[s], block'[s])
          /\ \A t \in Streams \ {s} : chan'[t] = chan[t] /\ block'[t] = block[t]

Spec == Init /\ [][Next]_<<chan, block>>

============================================================================
