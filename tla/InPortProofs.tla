---------------------------- MODULE InPortProofs ----------------------------
(***************************************************************************)
(* Proofs about InPort, in three parts.  The first: types, and what is     *)
(* read of a stream ID is in the order it was pushed.  The second, from    *)
(* "Ends of streams" on: every EOS is read, and the InputStreams are those *)
(* of the instances that upstream has made and the component has not yet   *)
(* seen the end of.  The third, from "What the component is told" on:      *)
(* whatever is flushed, what is read says of a new stream, of another SRI  *)
(* and of lost samples.  The last two are about ports whose component      *)
(* disables no stream and never sets the queue depth to 0 (NoDiscards).    *)
(***************************************************************************)
EXTENDS InPort, FiniteSetTheorems, SequenceTheorems, TLAPS

-----------------------------------------------------------------------------
(* What the component and upstream are assumed to do.                      *)

NoDiscards == "disable" \notin Environment /\ 0 \notin QueueDepths

NoEmptyPackets == Environment \cap {"empty", "emptyeos"} = {}

-----------------------------------------------------------------------------
(* The inductive invariant: the threads.                                   *)

inHand == {"create", "count", "new", "looked", "waiting", "woken", "full", "ended"}

\* A call that has looked the SRI up finds the stream ID known until it is done.
SRIKnown == \A s \in Streams : call[s].at \in inHand => currentHs[s] # NoSRI

\* The component's thread knows the stream it is working on ...
ReaderKnows ==
    /\ reader.at \in {"fetched", "turnoff", "remove", "peeked", "disabling"}
          => reader.id \in Streams
    /\ reader.at = "got" /\ reader.id # NoStream => streams[reader.id] # NoStream

\* ... which cannot leave the port between its EOS being read and recorded.
ReaderHolds ==
    "streams" \in Environment /\ reader.at \in {"fetched", "turnoff"}
        => /\ streams[reader.id] # NoStream
           /\ streams[reader.id].enabled

\* It discards packets only if the component disables streams.
ReaderDiscards == reader.at = "disabling" => "disable" \in Environment

ThreadsInv == SRIKnown /\ ReaderKnows /\ ReaderHolds /\ ReaderDiscards

-----------------------------------------------------------------------------
(* The inductive invariant: packets in order.                              *)

before(p, r) ==
    \/ p.instance < r.instance
    \/ /\ p.instance = r.instance
       /\ ~p.EOS
       /\ r.buffer = Empty \/ p.buffer[2] < r.buffer[2]

own(p) == p.buffer \in {Empty} \cup ({p.instance} \X Nat)

pushed(s, p) ==
    /\ p.instance \in 1 .. sent[s].instance
    /\ p.instance = sent[s].instance =>
          /\ p.buffer[2] <= sent[s].data
          /\ p.EOS => call[s].at = "ended"

ordered(q) ==
    \A i, j \in DOMAIN q :
        i < j /\ q[i].streamID = q[j].streamID => before(q[i], q[j])

ahead(p, s, q) == \A i \in DOMAIN q : q[i].streamID = s => before(p, q[i])

QueueOrder == ordered(packetQueue)

LastBefore ==
    \A s \in Streams : last[s] # NoPacket => ahead(last[s], s, packetQueue)

allPushed(q) == \A i \in DOMAIN q : own(q[i]) /\ pushed(q[i].streamID, q[i])

Pushed ==
    /\ \A s \in Streams : sent[s].instance >= 1
    /\ allPushed(packetQueue)
    /\ \A s \in Streams : last[s] # NoPacket => pushed(s, last[s])

\* After an instance that upstream has ended, its EOS is in the queue.
endOf(p, i, q) ==
    \E k \in DOMAIN q :
        /\ i <= k
        /\ q[k].streamID = p.streamID
        /\ q[k].instance = p.instance
        /\ q[k].EOS

\* Upstream has ended the instance of packet p.
closed(p) == p.instance < sent[p.streamID].instance \/ call[p.streamID].at = "ended"

endFollows(q) == \A i \in DOMAIN q : closed(q[i]) => endOf(q[i], i, q)

EndFollows == NoDiscards => endFollows(packetQueue)

noneEmpty(q) == \A i \in DOMAIN q : q[i].buffer # Empty

CallsCarryData ==
    NoEmptyPackets =>
        \A s \in Streams :
            call[s].at \in {"accepted", "new", "looked", "waiting", "woken", "full"}
                => call[s].data

AllEnabled ==
    NoDiscards =>
        /\ \A s \in Streams :
              /\ streams[s] # NoStream => streams[s].enabled
              /\ \A n \in DOMAIN pendingStreams[s] : pendingStreams[s][n].enabled
              /\ call[s].at \notin {"refused", "off"}
        /\ reader.at # "disabling"

PacketsInv ==
    /\ QueueOrder /\ LastBefore /\ Pushed /\ EndFollows
    /\ NoEmptyPackets => noneEmpty(packetQueue)

OrderInv == PacketsInv /\ CallsCarryData /\ AllEnabled

SamplesStay == NoDiscards \/ NoEmptyPackets

-----------------------------------------------------------------------------
(* Positions in a queue. *)

below(K, i) == {j \in K : j <= i}

\* Counting the elements of K up to i numbers them in their order.
LEMMA Ranks ==
    ASSUME NEW K \in SUBSET Nat, IsFiniteSet(K)
    PROVE  /\ Cardinality(K) \in Nat
           /\ \A i \in K : Cardinality(below(K, i)) \in 1 .. Cardinality(K)
           /\ \A i, j \in K : i < j => Cardinality(below(K, i)) < Cardinality(below(K, j))
           /\ \A n \in 1 .. Cardinality(K) : \E i \in K : Cardinality(below(K, i)) = n
  <1> DEFINE rank == [i \in K |-> Cardinality(below(K, i))]
             T == 1 .. Cardinality(K)
  <1>0. \A k \in K : k \in Nat
    OBVIOUS
  <1>1. Cardinality(K) \in Nat
    BY FS_CardinalityType
  <1>2. ASSUME NEW i \in K
        PROVE  IsFiniteSet(below(K, i)) /\ Cardinality(below(K, i)) \in T
    <2>1. below(K, i) \in SUBSET K /\ i \in below(K, i)
      BY DEF below
    <2>2. IsFiniteSet(below(K, i)) /\ Cardinality(below(K, i)) <= Cardinality(K)
      BY <2>1, FS_Subset
    <2>3. Cardinality(below(K, i)) \in Nat /\ Cardinality(below(K, i)) # 0
      BY <2>1, <2>2, FS_CardinalityType, FS_EmptySet
    <2> QED BY <1>1, <2>2, <2>3
  <1>3. ASSUME NEW i \in K, NEW j \in K, i < j
        PROVE  Cardinality(below(K, i)) < Cardinality(below(K, j))
    <2>1. below(K, i) \in SUBSET below(K, j)
      <3>1. \A k \in K : k <= i => k <= j
        BY <1>0, <1>3
      <3> QED BY <3>1 DEF below
    <2>2. j \in below(K, j) /\ j \notin below(K, i)
      BY <1>0, <1>3 DEF below
    <2>3. /\ Cardinality(below(K, i)) <= Cardinality(below(K, j))
          /\ Cardinality(below(K, j)) = Cardinality(below(K, i)) => below(K, j) = below(K, i)
      BY <2>1, <1>2, FS_Subset
    <2> QED BY <2>2, <2>3, <1>2
  <1>4. rank \in Injection(K, T)
    BY <1>2, <1>3 DEF Injection, IsInjective
  <1>5. IsFiniteSet(T) /\ Cardinality(T) = Cardinality(K)
    BY <1>1, FS_Interval
  <1>6. rank \in Surjection(K, T)
    BY <1>4, <1>5, FS_Injection
  <1>7. \A n \in T : \E i \in K : rank[i] = n
    BY <1>6 DEF Surjection
  <1> QED BY <1>1, <1>2, <1>3, <1>7

\* nth enumerates K in its order.
LEMMA NthProperties ==
    ASSUME NEW K \in SUBSET Nat, IsFiniteSet(K)
    PROVE  /\ Cardinality(K) \in Nat
           /\ \A n \in 1 .. Cardinality(K) : nth(K, n) \in K
           /\ \A m, n \in 1 .. Cardinality(K) : m < n => nth(K, m) < nth(K, n)
           /\ \A i \in K : \E n \in 1 .. Cardinality(K) : nth(K, n) = i
  <1>1. /\ Cardinality(K) \in Nat
        /\ \A i \in K : Cardinality(below(K, i)) \in 1 .. Cardinality(K)
        /\ \A i, j \in K : i < j => Cardinality(below(K, i)) < Cardinality(below(K, j))
        /\ \A n \in 1 .. Cardinality(K) : \E i \in K : Cardinality(below(K, i)) = n
    BY Ranks
  <1>2. \A n : nth(K, n) = CHOOSE i \in K : Cardinality(below(K, i)) = n
    BY DEF nth, below
  <1>3. \A n \in 1 .. Cardinality(K) :
           nth(K, n) \in K /\ Cardinality(below(K, nth(K, n))) = n
    BY <1>1, <1>2
  <1>4. \A m, n \in 1 .. Cardinality(K) : m < n => nth(K, m) < nth(K, n)
    <2> SUFFICES ASSUME NEW m \in 1 .. Cardinality(K), NEW n \in 1 .. Cardinality(K), m < n,
                        ~(nth(K, m) < nth(K, n))
                 PROVE  FALSE
      OBVIOUS
    <2>1. nth(K, m) \in Nat /\ nth(K, n) \in Nat
      BY <1>3
    <2>2. nth(K, n) < nth(K, m) \/ nth(K, n) = nth(K, m)
      BY <2>1
    <2>3. Cardinality(below(K, nth(K, m))) = m /\ Cardinality(below(K, nth(K, n))) = n
      BY <1>3
    <2>4. nth(K, n) \in K /\ nth(K, m) \in K
      BY <1>3
    <2>5. CASE nth(K, n) < nth(K, m)
      <3>1. Cardinality(below(K, nth(K, n))) < Cardinality(below(K, nth(K, m)))
        BY <1>1, <2>4, <2>5
      <3> QED BY <2>3, <3>1
    <2>6. CASE nth(K, n) = nth(K, m)
      BY <2>3, <2>6
    <2> QED BY <2>2, <2>5, <2>6
  <1>5. \A i \in K : \E n \in 1 .. Cardinality(K) : nth(K, n) = i
    <2> SUFFICES ASSUME NEW i \in K PROVE nth(K, Cardinality(below(K, i))) = i
      BY <1>1
    <2> DEFINE n == Cardinality(below(K, i))
    <2>1. n \in 1 .. Cardinality(K)
      BY <1>1
    <2>2. PICK j \in K : j = nth(K, n) /\ Cardinality(below(K, j)) = n
      BY <1>3, <2>1
    <2>3. i \in Nat /\ j \in Nat
      OBVIOUS
    <2>4. n < n => FALSE
      BY <1>1, <2>1
    <2>5. ~(j < i) /\ ~(i < j)
      BY <1>1, <2>2, <2>4
    <2> QED BY <2>2, <2>3, <2>5
  <1> QED BY <1>1, <1>3, <1>4, <1>5

\* A set of positions that is not empty has a first and a last element.
LEMMA FirstAndNewest ==
    ASSUME NEW K \in SUBSET Nat, IsFiniteSet(K), K # {}
    PROVE  (\E i \in K : first(K) = {i}) /\ (\E i \in K : newest(K) = {i})
  <1> DEFINE N == Cardinality(K)
  <1>1. /\ N \in Nat
        /\ \A n \in 1 .. N : nth(K, n) \in K
        /\ \A m, n \in 1 .. N : m < n => nth(K, m) < nth(K, n)
        /\ \A i \in K : \E n \in 1 .. N : nth(K, n) = i
    BY NthProperties
  <1> HIDE DEF N
  <1>0. \A i \in K : i \in Nat
    OBVIOUS
  <1>2. 1 \in 1 .. N /\ N \in 1 .. N
    <2>1. PICK i \in K : TRUE
      OBVIOUS
    <2>2. PICK n \in 1 .. N : nth(K, n) = i
      BY <1>1
    <2> QED BY <1>1, <2>2
  <1>3. PICK a \in K, b \in K : a = nth(K, 1) /\ b = nth(K, N)
    BY <1>1, <1>2
  <1>4. ASSUME NEW i \in K PROVE a <= i /\ i <= b
    <2>1. PICK n \in 1 .. N : nth(K, n) = i
      BY <1>1
    <2>2. n = 1 \/ (1 < n /\ n \in 1 .. N)
      BY <1>1
    <2>3. n = N \/ (n < N /\ n \in 1 .. N)
      BY <1>1
    <2>4. a = i \/ a < i
      BY <1>1, <1>2, <1>3, <2>1, <2>2
    <2>5. i = b \/ i < b
      BY <1>1, <1>2, <1>3, <2>1, <2>3
    <2> QED BY <1>0, <2>4, <2>5
  <1>5. a \in Nat /\ b \in Nat
    BY <1>0
  <1>6. ASSUME NEW i \in K PROVE (i <= a => i = a) /\ (b <= i => i = b)
    BY <1>0, <1>4, <1>5
  <1>7. first(K) = {a}
    BY <1>4, <1>6 DEF first
  <1>8. newest(K) = {b}
    BY <1>4, <1>6 DEF newest
  <1> QED BY <1>7, <1>8

\* Taking the packet at i out of a queue moves the later ones up.
LEMMA RemoveAtProperties ==
    ASSUME NEW S, NEW q \in Seq(S), NEW i \in 1 .. Len(q)
    PROVE  /\ RemoveAt(q, i) \in Seq(S)
           /\ Len(RemoveAt(q, i)) = Len(q) - 1
           /\ \A n \in 1 .. Len(q) - 1 :
                 RemoveAt(q, i)[n] = IF n < i THEN q[n] ELSE q[n + 1]
  <1> DEFINE a == SubSeq(q, 1, i - 1)
             b == SubSeq(q, i + 1, Len(q))
  <1>1. Len(q) \in Nat /\ i \in Nat /\ \A n \in 1 .. Len(q) : q[n] \in S
    OBVIOUS
  <1>2. /\ a \in Seq(S) /\ Len(a) = i - 1
        /\ \A n \in 1 .. i - 1 : a[n] = q[n]
    <2>1. \A n \in 1 .. i - 1 : q[n] \in S
      BY <1>1
    <2>2. /\ a \in Seq(S) /\ Len(a) = IF 1 <= i - 1 THEN (i - 1) - 1 + 1 ELSE 0
          /\ \A n \in 1 .. (i - 1) - 1 + 1 : a[n] = q[1 + n - 1]
      BY <2>1, <1>1, SubSeqProperties
    <2> QED BY <2>2, <1>1
  <1>3. /\ b \in Seq(S) /\ Len(b) = Len(q) - i
        /\ \A n \in 1 .. Len(q) - i : b[n] = q[i + n]
    <2>1. \A n \in i + 1 .. Len(q) : q[n] \in S
      BY <1>1
    <2>2. /\ b \in Seq(S) /\ Len(b) = IF i + 1 <= Len(q) THEN Len(q) - (i + 1) + 1 ELSE 0
          /\ \A n \in 1 .. Len(q) - (i + 1) + 1 : b[n] = q[(i + 1) + n - 1]
      BY <2>1, <1>1, SubSeqProperties
    <2> QED BY <2>2, <1>1
  <1>4. /\ a \o b \in Seq(S)
        /\ Len(a \o b) = Len(a) + Len(b)
        /\ \A n \in 1 .. Len(a) + Len(b) :
              (a \o b)[n] = IF n <= Len(a) THEN a[n] ELSE b[n - Len(a)]
    BY <1>2, <1>3, ConcatProperties
  <1>5. RemoveAt(q, i) = a \o b
    BY DEF RemoveAt
  <1> HIDE DEF a, b
  <1>6. Len(a) + Len(b) = Len(q) - 1
    BY <1>1, <1>2, <1>3
  <1>7. ASSUME NEW n \in 1 .. Len(q) - 1
        PROVE  (a \o b)[n] = IF n < i THEN q[n] ELSE q[n + 1]
    <2>1. (a \o b)[n] = IF n <= Len(a) THEN a[n] ELSE b[n - Len(a)]
      BY <1>4, <1>6
    <2>2. CASE n < i
      BY <1>1, <1>2, <2>1, <2>2
    <2>3. CASE ~(n < i)
      <3>1. n - (i - 1) \in 1 .. Len(q) - i
        BY <1>1, <2>3
      <3>2. b[n - (i - 1)] = q[i + (n - (i - 1))]
        BY <1>3, <3>1
      <3>3. i + (n - (i - 1)) = n + 1
        BY <1>1
      <3>4. ~(n <= Len(a))
        BY <1>1, <1>2, <2>3
      <3> QED BY <1>2, <2>1, <2>3, <3>2, <3>3, <3>4
    <2> QED BY <2>2, <2>3
  <1> QED BY <1>4, <1>5, <1>6, <1>7

-----------------------------------------------------------------------------
(* Types.                                                                  *)

\* What is known of the positions of a queue.
LEMMA QueuePositions ==
    ASSUME NEW q \in Seq(Packet)
    PROVE  /\ Len(q) \in Nat /\ DOMAIN q = 1 .. Len(q)
           /\ \A i \in DOMAIN q : i \in Nat /\ q[i] \in Packet
           /\ \A K \in SUBSET DOMAIN q : K \in SUBSET Nat /\ IsFiniteSet(K)
           /\ \A s : positions(q, s) \in SUBSET DOMAIN q
           /\ kept(q) \in SUBSET DOMAIN q
  <1>1. Len(q) \in Nat /\ DOMAIN q = 1 .. Len(q) /\ \A i \in 1 .. Len(q) : q[i] \in Packet
    OBVIOUS
  <1>2. IsFiniteSet(DOMAIN q)
    BY <1>1, FS_Interval
  <1>3. \A K \in SUBSET DOMAIN q : IsFiniteSet(K)
    BY <1>2, FS_Subset
  <1>4. \A K \in SUBSET DOMAIN q : K \in SUBSET Nat
    BY <1>1
  <1>5. (\A s : positions(q, s) \in SUBSET DOMAIN q) /\ kept(q) \in SUBSET DOMAIN q
    BY DEF positions, kept
  <1> QED BY <1>1, <1>3, <1>4, <1>5

\* _flushQueue changes neither the identity of a packet nor its place.
LEMMA MergedProperties ==
    ASSUME NEW q \in Seq(Packet), NEW i \in DOMAIN q
    PROVE  /\ merged(q, i) \in Packet
           /\ merged(q, i).streamID = q[i].streamID
           /\ merged(q, i).instance = q[i].instance
           /\ merged(q, i).EOS = q[i].EOS
           /\ merged(q, i).SRI = q[i].SRI
           /\ merged(q, i).sriChanged = (q[i].sriChanged \/ changes(q, i))
           /\ merged(q, i).inputQueueFlushed = (q[i].inputQueueFlushed \/ drops(q, i))
           /\ \E j \in taken(q, i) \cup {i} :
                  /\ j = i <=> taken(q, i) = {}
                  /\ merged(q, i).buffer = q[j].buffer
  <1>1. q[i] \in Packet /\ \A k \in DOMAIN q : q[k] \in Packet
    BY QueuePositions
  <1>2. i \notin taken(q, i) /\ taken(q, i) \subseteq DOMAIN q
    <2>1. absorbed(q, i) \subseteq DOMAIN q /\ \A j \in absorbed(q, i) : j < i
      BY DEF absorbed, positions
    <2>2. i \in Nat
      BY QueuePositions
    <2> QED BY <2>1, <2>2 DEF taken, newest, samples
  <1>3. changes(q, i) \in BOOLEAN /\ drops(q, i) \in BOOLEAN
    BY DEF changes, drops
  <1>4. CASE taken(q, i) = {}
    <2>1. merged(q, i) = [q[i] EXCEPT !.inputQueueFlushed = @ \/ drops(q, i),
                                      !.sriChanged = @ \/ changes(q, i)]
      BY <1>1, <1>4 DEF merged, Packet
    <2> QED BY <1>1, <1>3, <1>4, <2>1 DEF Packet
  <1>5. CASE taken(q, i) # {}
    <2> DEFINE j == CHOOSE j \in taken(q, i) : TRUE
    <2>1. j \in taken(q, i)
      BY <1>5
    <2> HIDE DEF j
    <2>2. q[j] \in Packet
      BY <1>1, <1>2, <2>1
    <2>3. merged(q, i) = [q[i] EXCEPT !.buffer = q[j].buffer,
                                      !.inputQueueFlushed = @ \/ drops(q, i),
                                      !.sriChanged = @ \/ changes(q, i)]
      BY <1>1, <1>5 DEF merged, Packet, j
    <2> QED BY <1>1, <1>2, <1>3, <2>1, <2>2, <2>3 DEF Packet
  <1> QED BY <1>4, <1>5

-----------------------------------------------------------------------------
(* What the port does to its queue.                                        *)

(***************************************************************************)
(* r is what is left of the queue q: the packet at n was at f[n], and its  *)
(* samples are those of the packet at g[n].                                *)
(***************************************************************************)
Thinned(r, q, f, g) ==
    /\ r \in Seq(Packet)
    /\ f \in [DOMAIN r -> DOMAIN q]
    /\ g \in [DOMAIN r -> DOMAIN q]
    /\ \A m, n \in DOMAIN r : m < n => f[m] < f[n]
    /\ \A n \in DOMAIN r :
          /\ r[n].streamID = q[f[n]].streamID
          /\ r[n].instance = q[f[n]].instance
          /\ r[n].EOS = q[f[n]].EOS
          /\ r[n].buffer = q[g[n]].buffer
          /\ q[g[n]].streamID = q[f[n]].streamID
          /\ q[g[n]].instance = q[f[n]].instance
          /\ g[n] <= f[n]
    /\ \A m, n \in DOMAIN r :
          m < n /\ r[m].streamID = r[n].streamID => f[m] < g[n]

\* Every EOS stays.
keepsEnds(r, q, f) == \A k \in DOMAIN q : q[k].EOS => \E n \in DOMAIN r : f[n] = k

\* Every EOS stays, unless it was ahead of all that is left of its stream ID.
keepsFollowing(r, q, f) ==
    \A k \in DOMAIN q : q[k].EOS =>
        \/ \E n \in DOMAIN r : f[n] = k
        \/ \A n \in DOMAIN r : r[n].streamID = q[k].streamID => k < f[n]

\* The packets that stay when the one at i is removed.
others(q, i) == [n \in 1 .. Len(q) - 1 |-> IF n < i THEN n ELSE n + 1]

\* Removing a packet thins the queue.
LEMMA RemoveAtThins ==
    ASSUME NEW q \in Seq(Packet), NEW i \in DOMAIN q
    PROVE  /\ Thinned(RemoveAt(q, i), q, others(q, i), others(q, i))
           /\ \A n \in DOMAIN RemoveAt(q, i) : RemoveAt(q, i)[n] = q[others(q, i)[n]]
           /\ \A k \in DOMAIN q \ {i} :
                 \E n \in DOMAIN RemoveAt(q, i) : others(q, i)[n] = k
           /\ \A n \in DOMAIN RemoveAt(q, i) : others(q, i)[n] # i
  <1> DEFINE r == RemoveAt(q, i)
             f == others(q, i)
  <1>1. /\ Len(q) \in Nat /\ DOMAIN q = 1 .. Len(q) /\ i \in 1 .. Len(q)
        /\ \A k \in 1 .. Len(q) : q[k] \in Packet
    BY QueuePositions
  <1>2. /\ r \in Seq(Packet) /\ DOMAIN r = 1 .. Len(q) - 1
        /\ \A n \in 1 .. Len(q) - 1 : r[n] = IF n < i THEN q[n] ELSE q[n + 1]
    <2>1. /\ r \in Seq(Packet) /\ Len(r) = Len(q) - 1
          /\ \A n \in 1 .. Len(q) - 1 : r[n] = IF n < i THEN q[n] ELSE q[n + 1]
      BY <1>1, RemoveAtProperties
    <2> QED BY <2>1, QueuePositions
  <1> HIDE DEF r
  <1>3. f \in [DOMAIN r -> DOMAIN q]
    BY <1>1, <1>2 DEF others
  <1>4. \A n \in DOMAIN r : f[n] = IF n < i THEN n ELSE n + 1
    BY <1>2 DEF others
  <1> HIDE DEF f
  <1>6. \A m, n \in DOMAIN r : m < n => f[m] < f[n]
    BY <1>1, <1>2, <1>4
  <1>7. \A n \in DOMAIN r : r[n] = q[f[n]] /\ f[n] # i
    BY <1>1, <1>2, <1>4
  <1>8. ASSUME NEW k \in DOMAIN q \ {i} PROVE \E n \in DOMAIN r : f[n] = k
    <2>1. CASE k < i
      BY <1>1, <1>2, <1>4, <2>1
    <2>2. CASE ~(k < i)
      <3>1. k - 1 \in DOMAIN r /\ ~(k - 1 < i) /\ (k - 1) + 1 = k
        BY <1>1, <1>2, <2>2
      <3> QED BY <1>4, <3>1
    <2> QED BY <2>1, <2>2
  <1>9. \A n \in DOMAIN r : f[n] \in Nat
    BY <1>1, <1>3
  <1>10. Thinned(r, q, f, f)
    BY <1>2, <1>3, <1>6, <1>7, <1>9 DEF Thinned
  <1> QED BY <1>7, <1>8, <1>10 DEF r, f

\* So does keeping the packets at the positions K only.
LEMMA RestrictionThins ==
    ASSUME NEW q \in Seq(Packet), NEW K \in SUBSET DOMAIN q
    PROVE  LET r == [n \in 1 .. Cardinality(K) |-> q[nth(K, n)]]
               f == [n \in 1 .. Cardinality(K) |-> nth(K, n)]
           IN  /\ Thinned(r, q, f, f)
               /\ \A n \in DOMAIN r : r[n] = q[f[n]] /\ f[n] \in K
  <1> DEFINE N == Cardinality(K)
             r == [n \in 1 .. N |-> q[nth(K, n)]]
             f == [n \in 1 .. N |-> nth(K, n)]
  <1>1. /\ N \in Nat
        /\ \A n \in 1 .. N : nth(K, n) \in K
        /\ \A m, n \in 1 .. N : m < n => nth(K, m) < nth(K, n)
    BY QueuePositions, NthProperties
  <1>2. \A k \in K : k \in DOMAIN q /\ k \in Nat /\ q[k] \in Packet
    BY QueuePositions
  <1> HIDE DEF N
  <1>3. r \in Seq(Packet) /\ DOMAIN r = 1 .. N
    BY <1>1, <1>2
  <1>4. f \in [DOMAIN r -> DOMAIN q] /\ \A n \in DOMAIN r : f[n] = nth(K, n) /\ r[n] = q[f[n]]
    BY <1>1, <1>2, <1>3
  <1> HIDE DEF r, f
  <1>5. \A n \in DOMAIN r : f[n] \in K /\ f[n] \in Nat
    BY <1>1, <1>2, <1>3, <1>4
  <1>6. \A m, n \in DOMAIN r : m < n => f[m] < f[n]
    BY <1>1, <1>3, <1>4
  <1>7. Thinned(r, q, f, f)
    BY <1>3, <1>4, <1>5, <1>6 DEF Thinned
  <1> QED BY <1>4, <1>5, <1>7 DEF r, f, N

\* The packets that _flushQueue keeps, in their order.
keptAt(q) == [n \in 1 .. Cardinality(kept(q)) |-> nth(kept(q), n)]

\* _flushQueue merges the packets it keeps and leaves them in order.
LEMMA FlushProperties ==
    ASSUME NEW q \in Seq(Packet)
    PROVE  LET F == flushQueue(q)
               f == keptAt(q)
           IN  /\ F \in Seq(Packet)
               /\ f \in [DOMAIN F -> DOMAIN q]
               /\ \A n \in DOMAIN F : f[n] \in kept(q) /\ f[n] \in Nat /\ F[n] = merged(q, f[n])
               /\ \A m, n \in DOMAIN F : m < n => f[m] < f[n]
               /\ \A k \in kept(q) : \E n \in DOMAIN F : f[n] = k
               /\ Len(F) = Cardinality(kept(q))
  <1> DEFINE N == Cardinality(kept(q))
             F == flushQueue(q)
             f == keptAt(q)
  <1>1. /\ N \in Nat
        /\ \A n \in 1 .. N : nth(kept(q), n) \in kept(q)
        /\ \A m, n \in 1 .. N : m < n => nth(kept(q), m) < nth(kept(q), n)
        /\ \A i \in kept(q) : \E n \in 1 .. N : nth(kept(q), n) = i
    BY QueuePositions, NthProperties
  <1>2. \A k \in kept(q) : k \in DOMAIN q /\ k \in Nat /\ merged(q, k) \in Packet
    BY QueuePositions, MergedProperties
  <1>3. F = [n \in 1 .. N |-> merged(q, nth(kept(q), n))]
    BY DEF flushQueue
  <1>4. f = [n \in 1 .. N |-> nth(kept(q), n)]
    BY DEF keptAt
  <1> HIDE DEF N, F, f
  <1>5. F \in Seq(Packet) /\ DOMAIN F = 1 .. N /\ Len(F) = N
    BY <1>1, <1>2, <1>3
  <1>6. f \in [DOMAIN F -> DOMAIN q]
    BY <1>1, <1>2, <1>4, <1>5
  <1>7. \A n \in DOMAIN F : f[n] = nth(kept(q), n) /\ F[n] = merged(q, f[n])
    BY <1>3, <1>4, <1>5
  <1>8. \A n \in DOMAIN F : f[n] \in kept(q) /\ f[n] \in Nat
    BY <1>1, <1>2, <1>5, <1>7
  <1>9. \A m, n \in DOMAIN F : m < n => f[m] < f[n]
    BY <1>1, <1>5, <1>7
  <1>10. \A k \in kept(q) : \E n \in DOMAIN F : f[n] = k
    BY <1>1, <1>5, <1>7
  <1> QED BY <1>5, <1>6, <1>7, <1>8, <1>9, <1>10 DEF N, F, f

\* If no packet takes over the samples of another instance, it thins the
\* queue, and it keeps every EOS.
LEMMA FlushThins ==
    ASSUME NEW q \in Seq(Packet),
           \A i \in kept(q) : \A j \in taken(q, i) : q[j].instance = q[i].instance
    PROVE  /\ \E g : Thinned(flushQueue(q), q, keptAt(q), g)
           /\ keepsEnds(flushQueue(q), q, keptAt(q))
  <1> DEFINE F == flushQueue(q)
             f == keptAt(q)
             g == [n \in DOMAIN F |->
                     IF taken(q, f[n]) = {} THEN f[n] ELSE CHOOSE j \in taken(q, f[n]) : TRUE]
  <1>1. /\ F \in Seq(Packet)
        /\ f \in [DOMAIN F -> DOMAIN q]
        /\ \A n \in DOMAIN F : f[n] \in kept(q) /\ f[n] \in Nat /\ F[n] = merged(q, f[n])
        /\ \A m, n \in DOMAIN F : m < n => f[m] < f[n]
        /\ \A k \in kept(q) : \E n \in DOMAIN F : f[n] = k
    BY FlushProperties
  <1> HIDE DEF F, f
  <1>2. ASSUME NEW i \in kept(q), NEW j \in taken(q, i)
        PROVE  /\ j \in DOMAIN q /\ j \in Nat /\ j < i
               /\ q[j].streamID = q[i].streamID
               /\ \A k \in kept(q) : q[k].streamID = q[i].streamID /\ k < i => k < j
    <2>1. j \in absorbed(q, i)
      BY DEF taken, newest, samples
    <2>2. kept(q) \subseteq DOMAIN q /\ \A k \in DOMAIN q : k \in Nat
      BY QueuePositions
    <2>3. ASSUME NEW k \in kept(q), q[k].streamID = q[i].streamID, k < i
          PROVE  k < j
      <3>1. k \in kept(q) \cap positions(q, q[i].streamID)
        BY <2>2, <2>3 DEF positions
      <3>2. ~(k >= i)
        BY <2>2, <2>3
      <3> QED BY <2>1, <3>1, <3>2 DEF absorbed
    <2> QED BY <2>1, <2>2, <2>3 DEF absorbed, positions
  <1>3. ASSUME NEW i \in kept(q), taken(q, i) # {}, NEW j \in taken(q, i)
        PROVE  merged(q, i).buffer = q[j].buffer
    <2>1. i \in DOMAIN q
      BY QueuePositions
    <2>2. \A k \in taken(q, i) : k = j
      <3>1. \A k \in taken(q, i) : k <= j /\ j <= k
        BY DEF taken, newest
      <3> QED BY <1>2, <3>1
    <2>3. PICK k \in taken(q, i) \cup {i} :
              (k = i <=> taken(q, i) = {}) /\ merged(q, i).buffer = q[k].buffer
      BY <2>1, MergedProperties
    <2> QED BY <1>3, <2>2, <2>3
  <1>4. ASSUME NEW i \in kept(q), taken(q, i) = {}
        PROVE  merged(q, i).buffer = q[i].buffer
    BY <1>4, QueuePositions, MergedProperties
  <1>5. ASSUME NEW n \in DOMAIN F
        PROVE  \/ taken(q, f[n]) = {} /\ g[n] = f[n]
               \/ taken(q, f[n]) # {} /\ g[n] \in taken(q, f[n])
    OBVIOUS
  <1>6. DOMAIN g = DOMAIN F
    OBVIOUS
  <1>7. ASSUME NEW n \in DOMAIN F
        PROVE  g[n] \in DOMAIN q /\ g[n] \in Nat
    BY <1>1, <1>2, <1>5
  <1>8. g \in [DOMAIN F -> DOMAIN q]
    BY <1>7
  <1> HIDE DEF g
  <1>9. ASSUME NEW n \in DOMAIN F
        PROVE  /\ F[n].streamID = q[f[n]].streamID
               /\ F[n].instance = q[f[n]].instance
               /\ F[n].EOS = q[f[n]].EOS
               /\ F[n].buffer = q[g[n]].buffer
               /\ q[g[n]].streamID = q[f[n]].streamID
               /\ q[g[n]].instance = q[f[n]].instance
               /\ g[n] <= f[n]
    <2>1. /\ F[n].streamID = q[f[n]].streamID
          /\ F[n].instance = q[f[n]].instance
          /\ F[n].EOS = q[f[n]].EOS
      BY <1>1, MergedProperties
    <2>2. f[n] \in kept(q) /\ f[n] \in Nat /\ F[n] = merged(q, f[n])
      BY <1>1
    <2>3. CASE taken(q, f[n]) = {}
      <3>1. g[n] = f[n] /\ merged(q, f[n]).buffer = q[f[n]].buffer
        BY <1>4, <1>5, <2>2, <2>3
      <3> QED BY <2>1, <2>2, <3>1
    <2>4. CASE taken(q, f[n]) # {}
      <3>1. g[n] \in taken(q, f[n])
        BY <1>5, <2>4
      <3>2. /\ q[g[n]].instance = q[f[n]].instance
            /\ q[g[n]].streamID = q[f[n]].streamID
            /\ g[n] < f[n] /\ g[n] \in Nat
        BY <1>2, <2>2, <3>1
      <3>3. merged(q, f[n]).buffer = q[g[n]].buffer
        BY <1>3, <2>2, <2>4, <3>1
      <3> QED BY <2>1, <2>2, <3>2, <3>3
    <2> QED BY <2>3, <2>4
  <1>10. ASSUME NEW m \in DOMAIN F, NEW n \in DOMAIN F,
                m < n, F[m].streamID = F[n].streamID
         PROVE  f[m] < g[n]
    <2>1. f[m] \in kept(q) /\ f[n] \in kept(q) /\ f[m] < f[n]
      BY <1>1, <1>10
    <2>2. q[f[m]].streamID = q[f[n]].streamID
      BY <1>9, <1>10
    <2> QED BY <1>2, <1>5, <2>1, <2>2
  <1>11. Thinned(F, q, f, g)
    BY <1>1, <1>8, <1>9, <1>10 DEF Thinned
  <1>12. keepsEnds(F, q, f)
    <2> SUFFICES ASSUME NEW k \in DOMAIN q, q[k].EOS
                 PROVE  \E n \in DOMAIN F : f[n] = k
      BY DEF keepsEnds
    <2>1. k \in kept(q)
      BY DEF kept
    <2> QED BY <1>1, <2>1
  <1> QED BY <1>11, <1>12 DEF F, f

\* Thinning what has been thinned thins.
LEMMA ThinnedTwice ==
    ASSUME NEW q \in Seq(Packet), NEW p, NEW r, NEW f, NEW g, NEW h,
           Thinned(p, q, f, g), Thinned(r, p, h, h)
    PROVE  Thinned(r, q, [n \in DOMAIN r |-> f[h[n]]], [n \in DOMAIN r |-> g[h[n]]])
  <1> DEFINE ff == [n \in DOMAIN r |-> f[h[n]]]
             gg == [n \in DOMAIN r |-> g[h[n]]]
  <1>1. /\ p \in Seq(Packet)
        /\ f \in [DOMAIN p -> DOMAIN q] /\ g \in [DOMAIN p -> DOMAIN q]
        /\ \A m, n \in DOMAIN p : m < n => f[m] < f[n]
        /\ \A n \in DOMAIN p :
              /\ p[n].streamID = q[f[n]].streamID
              /\ p[n].instance = q[f[n]].instance
              /\ p[n].EOS = q[f[n]].EOS
              /\ p[n].buffer = q[g[n]].buffer
              /\ q[g[n]].streamID = q[f[n]].streamID
              /\ q[g[n]].instance = q[f[n]].instance
              /\ g[n] <= f[n]
        /\ \A m, n \in DOMAIN p :
              m < n /\ p[m].streamID = p[n].streamID => f[m] < g[n]
    BY DEF Thinned
  <1>2. /\ r \in Seq(Packet)
        /\ h \in [DOMAIN r -> DOMAIN p]
        /\ \A m, n \in DOMAIN r : m < n => h[m] < h[n]
        /\ \A n \in DOMAIN r :
              /\ r[n].streamID = p[h[n]].streamID
              /\ r[n].instance = p[h[n]].instance
              /\ r[n].EOS = p[h[n]].EOS
              /\ r[n].buffer = p[h[n]].buffer
    BY DEF Thinned
  <1>3. ff \in [DOMAIN r -> DOMAIN q] /\ gg \in [DOMAIN r -> DOMAIN q]
    BY <1>1, <1>2
  <1>4. \A n \in DOMAIN r : ff[n] = f[h[n]] /\ gg[n] = g[h[n]] /\ h[n] \in DOMAIN p
    BY <1>2
  <1> HIDE DEF ff, gg
  <1>5. \A m, n \in DOMAIN r : m < n => ff[m] < ff[n]
    BY <1>1, <1>2, <1>4
  <1>6. \A n \in DOMAIN r :
              /\ r[n].streamID = q[ff[n]].streamID
              /\ r[n].instance = q[ff[n]].instance
              /\ r[n].EOS = q[ff[n]].EOS
              /\ r[n].buffer = q[gg[n]].buffer
              /\ q[gg[n]].streamID = q[ff[n]].streamID
              /\ q[gg[n]].instance = q[ff[n]].instance
              /\ gg[n] <= ff[n]
    BY <1>1, <1>2, <1>4
  <1>7. \A m, n \in DOMAIN r :
              m < n /\ r[m].streamID = r[n].streamID => ff[m] < gg[n]
    BY <1>1, <1>2, <1>4
  <1>8. Thinned(r, q, ff, gg)
    BY <1>2, <1>3, <1>5, <1>6, <1>7 DEF Thinned
  <1> QED BY <1>8 DEF ff, gg

-----------------------------------------------------------------------------
(* Type correctness.                                                       *)

TypeInv == TypeOK /\ ThreadsInv

\* An idle upstream thread.
LEMMA NoCallType == NoCall \in Call
  BY DEF NoCall, DefaultSRI, SRI, Call, CallPlaces

\* The places an upstream thread can be at.
LEMMA Places ==
    /\ "idle" \in CallPlaces /\ "create" \in CallPlaces /\ "count" \in CallPlaces
    /\ "again" \in CallPlaces /\ "new" \in CallPlaces /\ "refused" \in CallPlaces
    /\ "off" \in CallPlaces /\ "accepted" \in CallPlaces /\ "looked" \in CallPlaces
    /\ "waiting" \in CallPlaces /\ "woken" \in CallPlaces /\ "full" \in CallPlaces
    /\ "ended" \in CallPlaces
  BY DEF CallPlaces

\* What a step does to the locals of one call leaves them of their type.
LEMMA CallUpdate ==
    ASSUME call \in [Streams -> Call], NEW s \in Streams
    PROVE  /\ call[s] \in Call
           /\ \A p \in CallPlaces : [call EXCEPT ![s].at = p] \in [Streams -> Call]
           /\ \A c \in Call : [call EXCEPT ![s] = c] \in [Streams -> Call]
           /\ [call EXCEPT ![s] = NoCall] \in [Streams -> Call]
  <1>1. call[s] \in Call
    OBVIOUS
  <1>2. \A p \in CallPlaces : [call EXCEPT ![s].at = p] \in [Streams -> Call]
    BY DEF Call
  <1> QED BY <1>1, <1>2, NoCallType

\* The port and the threads as they are made.
LEMMA TypeInit == Init => TypeInv
  <1> SUFFICES ASSUME Init PROVE TypeInv
    OBVIOUS
  <1>1. TypeOK
    <2>1. packetQueue \in Seq(Packet) /\ pendingStreams \in [Streams -> Seq(Stream)]
      BY DEF Init
    <2>2. call \in [Streams -> Call]
      BY DEF Init, NoCall, DefaultSRI, SRI, Call, CallPlaces
    <2>3. reader \in ReaderState
      BY DEF Init, ReaderState, ReaderPlaces
    <2>4. sent \in [Streams -> Sent]
      BY InPortConstants DEF Init, Sent
    <2> QED BY <2>1, <2>2, <2>3, <2>4 DEF Init, TypeOK
  <1>2. ThreadsInv
    BY DEF Init, ThreadsInv, SRIKnown, ReaderKnows, ReaderHolds, ReaderDiscards, NoCall, inHand
  <1> QED BY <1>1, <1>2 DEF TypeInv

\* Counting the EOS packets of a stream ID.
LEMMA EosCountType ==
    ASSUME TypeOK, NEW s \in Streams
    PROVE  eosCount(s) \in Nat
  <1>1. packetQueue \in Seq(Packet)
    BY DEF TypeOK
  <1>2. {i \in positions(packetQueue, s) : packetQueue[i].EOS} \in SUBSET DOMAIN packetQueue
    BY <1>1, QueuePositions
  <1> QED BY <1>1, <1>2, QueuePositions, FS_CardinalityType DEF eosCount

\* Waking threads up changes where they are, and nothing else.
LEMMA WakingType ==
    ASSUME TypeOK
    PROVE  /\ dataAvailable \in ReaderState
           /\ dataAvailable.id = reader.id
           /\ dataAvailable.at = reader.at \/ dataAvailable.at = "peek"
           /\ dataAvailable.at = "peek" <=> reader.at \in {"peek", "sleeping"}
           /\ queueAvailable \in [Streams -> Call]
           /\ \A s \in Streams :
                 queueAvailable[s].at = IF call[s].at = "waiting" THEN "woken" ELSE call[s].at
  <1>1. /\ dataAvailable \in ReaderState
        /\ dataAvailable.id = reader.id
        /\ dataAvailable.at = reader.at \/ dataAvailable.at = "peek"
        /\ dataAvailable.at = "peek" <=> reader.at \in {"peek", "sleeping"}
    BY DEF dataAvailable, TypeOK, ReaderState, ReaderPlaces
  <1>2. /\ queueAvailable \in [Streams -> Call]
        /\ \A s \in Streams :
                 queueAvailable[s].at = IF call[s].at = "waiting" THEN "woken" ELSE call[s].at
    BY DEF queueAvailable, TypeOK, Call, CallPlaces
  <1> QED BY <1>1, <1>2

\* A packet that joins the queue.
LEMMA EnqueueType ==
    ASSUME TypeOK, NEW s \in Streams, NEW q \in Seq(Packet),
           NEW c \in BOOLEAN, NEW fl \in BOOLEAN, enqueue(s, q, c, fl)
    PROVE  /\ packetQueue' \in Seq(Packet)
           /\ call' \in [Streams -> Call]
           /\ reader' \in ReaderState
           /\ sent' \in [Streams -> Sent]
  <1> DEFINE n == IF call[s].data THEN sent[s].data + 1 ELSE sent[s].data
             p == [streamID |-> s, instance |-> sent[s].instance,
                   buffer |-> IF call[s].data THEN <<sent[s].instance, n>> ELSE Empty,
                   EOS |-> call[s].EOS, SRI |-> call[s].SRI,
                   sriChanged |-> c, inputQueueFlushed |-> fl]
  <1>0. sent \in [Streams -> Sent] /\ call \in [Streams -> Call]
    BY DEF TypeOK
  <1>1. n \in Nat /\ sent[s].instance \in Nat
    BY <1>0 DEF Sent
  <1>2. p \in Packet
    BY <1>0, <1>1 DEF Packet, Call, Empty
  <1>3. packetQueue' = Append(q, p) /\ sent' = [sent EXCEPT ![s].data = n]
    BY DEF enqueue
  <1>4. packetQueue' \in Seq(Packet)
    BY <1>2, <1>3
  <1>5. sent' \in [Streams -> Sent]
    BY <1>0, <1>1, <1>3 DEF Sent
  <1>6. call' \in [Streams -> Call]
    <2>1. call' = [call EXCEPT ![s].at = "ended"] \/ call' = [call EXCEPT ![s] = NoCall]
      BY DEF enqueue
    <2> QED BY <1>0, <2>1, CallUpdate, Places
  <1>7. reader' \in ReaderState
    BY WakingType DEF enqueue, TypeOK
  <1> QED BY <1>4, <1>5, <1>6, <1>7

\* The steps of upstream leave the members and locals of their types.
LEMMA UpstreamType ==
    ASSUME TypeInv, NEW s \in Streams, Push(s) \/ Upstream(s)
    PROVE  TypeOK'
  <1> USE DEF TypeInv
  <1>c. call \in [Streams -> Call]
    BY DEF TypeOK
  <1>h. currentHs \in [Streams -> KnownSRI \cup {NoSRI}]
    BY DEF TypeOK
  <1>r. reader \in ReaderState
    BY DEF TypeOK
  <1>s. sent \in [Streams -> Sent]
    BY DEF TypeOK
  <1>t. streams \in [Streams -> Stream \cup {NoStream}]
    BY DEF TypeOK
  <1>n. nextInstance(s) \in [Streams -> Sent]
    <2>0. sent[s] \in Sent /\ sent[s].instance + 1 \in Nat
      BY <1>s DEF Sent
    <2>1. [sent[s] EXCEPT !.instance = sent[s].instance + 1, !.data = 0] \in Sent
      BY <2>0 DEF Sent
    <2>2. nextInstance(s) = [sent EXCEPT ![s] = [sent[s] EXCEPT !.instance = @ + 1, !.data = 0]]
      BY <1>s DEF nextInstance, Sent
    <2> HIDE DEF Sent
    <2> QED BY <1>s, <2>1, <2>2
  <1>1. ASSUME NEW H \in SRIs, pushSRI(s, H) PROVE TypeOK'
    <2>1. H \in SRI
      BY InPortConstants
    <2>2. currentHs' \in [Streams -> KnownSRI \cup {NoSRI}]
      <3>1. [SRI |-> H, changed |-> TRUE] \in KnownSRI
        BY <2>1 DEF KnownSRI
      <3>2. \/ UNCHANGED currentHs
            \/ currentHs' = [currentHs EXCEPT ![s] = [SRI |-> H, changed |-> TRUE]]
        BY <1>1 DEF pushSRI
      <3> QED BY <1>h, <3>1, <3>2
    <2>3. call' \in [Streams -> Call]
      <3>1. [call[s] EXCEPT !.at = "count", !.SRI = H, !.eosCount = eosCount(s)] \in Call
        BY <1>c, <2>1, EosCountType DEF Call, CallPlaces
      <3>2. \/ call' = [call EXCEPT ![s].at = "create"]
            \/ call' = [call EXCEPT ![s] = [call[s] EXCEPT !.at = "count", !.SRI = H,
                                                         !.eosCount = eosCount(s)]]
        BY <1>1 DEF pushSRI
      <3> QED BY <1>c, <3>1, <3>2, CallUpdate, Places
    <2>4. sent' \in [Streams -> Sent]
      <3>1. sent' = counted(s) /\ sent[s].calls < MaxCalls
        BY <1>1 DEF pushSRI, mayCall
      <3> QED BY <1>s, <3>1, InPortConstants DEF counted, Sent
    <2>5. blocking' \in BOOLEAN
      BY <1>1, <2>1 DEF pushSRI, TypeOK, SRI
    <2> QED BY <1>1, <2>2, <2>3, <2>4, <2>5 DEF pushSRI, TypeOK
  <1>2. ASSUME NEW data \in BOOLEAN, NEW EOS \in BOOLEAN, pushPacket(s, data, EOS)
        PROVE  TypeOK'
    <2>1. call' \in [Streams -> Call]
      <3>1. \E p \in {"idle", "refused", "accepted"}, d, e \in BOOLEAN :
               call' = [call EXCEPT ![s] = [call[s] EXCEPT !.at = p, !.data = d, !.EOS = e]]
        BY <1>2 DEF pushPacket
      <3>2. PICK p \in {"idle", "refused", "accepted"}, d \in BOOLEAN, e \in BOOLEAN :
               call' = [call EXCEPT ![s] = [call[s] EXCEPT !.at = p, !.data = d, !.EOS = e]]
        BY <3>1
      <3>3. [call[s] EXCEPT !.at = p, !.data = d, !.EOS = e] \in Call
        BY <1>c DEF Call, CallPlaces
      <3> QED BY <1>c, <3>2, <3>3, CallUpdate
    <2>2. sent' \in [Streams -> Sent]
      <3>1. sent[s].calls < MaxCalls
        BY <1>2 DEF pushPacket, mayCall
      <3>2. counted(s) \in [Streams -> Sent]
        BY <1>s, <3>1, InPortConstants DEF counted, Sent
      <3>3. \/ sent' = [counted(s) EXCEPT ![s].instance = @ + 1, ![s].data = 0]
            \/ sent' = [counted(s) EXCEPT ![s].instance = @, ![s].data = @]
        BY <1>2 DEF pushPacket
      <3> HIDE DEF counted
      <3> QED BY <3>2, <3>3 DEF Sent
    <2>3. streams' \in [Streams -> Stream \cup {NoStream}]
      BY <1>t, <1>2 DEF pushPacket
    <2>4. reader' \in ReaderState
      BY <1>r, <1>2 DEF pushPacket, ReaderState
    <2> QED BY <1>2, <2>1, <2>2, <2>3, <2>4 DEF pushPacket, TypeOK
  <1>3. CASE pushSRIDecide(s)
    <2>1. currentHs' \in [Streams -> KnownSRI \cup {NoSRI}]
      <3>1. updated(s) \in KnownSRI
        BY <1>c DEF updated, KnownSRI, Call
      <3>2. UNCHANGED currentHs \/ currentHs' = [currentHs EXCEPT ![s] = updated(s)]
        BY <1>3 DEF pushSRIDecide
      <3> QED BY <1>h, <3>1, <3>2
    <2>2. call' \in [Streams -> Call]
      <3>1. call' = [call EXCEPT ![s].at = "again"] \/ call' = [call EXCEPT ![s] = NoCall]
        BY <1>3 DEF pushSRIDecide
      <3> QED BY <1>c, <3>1, CallUpdate, Places
    <2> QED BY <1>3, <2>1, <2>2 DEF pushSRIDecide, TypeOK
  <1>4. CASE createStream(s)
    <2>1. NewStream(s) \in Stream
      BY DEF NewStream, Stream, EosState, TypeOK, Sent
    <2>2. streams' \in [Streams -> Stream \cup {NoStream}]
      BY <1>t, <1>4, <2>1 DEF createStream
    <2>3. pendingStreams' \in [Streams -> Seq(Stream)]
      <3>1. pendingStreams[s] \in Seq(Stream)
        BY DEF TypeOK
      <3>2. Append(pendingStreams[s], NewStream(s)) \in Seq(Stream)
        BY <2>1, <3>1
      <3> QED BY <1>4, <3>2 DEF createStream, TypeOK
    <2>4. call' \in [Streams -> Call]
      <3>1. \/ call' = [call EXCEPT ![s] = [call[s] EXCEPT !.at = "looked"]]
            \/ call' = [call EXCEPT ![s] = NoCall]
        BY <1>4 DEF createStream
      <3>2. [call[s] EXCEPT !.at = "looked"] \in Call
        BY <1>c DEF Call, CallPlaces
      <3> QED BY <1>c, <3>1, <3>2, CallUpdate
    <2> QED BY <1>4, <2>2, <2>3, <2>4 DEF createStream, TypeOK
  <1>5. CASE refusedEOS(s) \/ refusedOff(s)
    <2>1. call' \in [Streams -> Call]
      <3>1. call' = [call EXCEPT ![s].at = "off"] \/ call' = [call EXCEPT ![s] = NoCall]
        BY <1>5 DEF refusedEOS, refusedOff
      <3> QED BY <1>c, <3>1, CallUpdate, Places
    <2>2. sent' \in [Streams -> Sent]
      <3>1. UNCHANGED sent \/ sent' = nextInstance(s)
        BY <1>5 DEF refusedEOS, refusedOff
      <3> QED BY <1>s, <1>n, <3>1
    <2> QED BY <1>5, <2>1, <2>2 DEF refusedEOS, refusedOff, port, TypeOK
  <1>6. CASE lookupSRI(s)
    <2>1. currentHs' \in [Streams -> KnownSRI \cup {NoSRI}]
      <3>1. [SRI |-> DefaultSRI, changed |-> FALSE] \in KnownSRI
        BY DEF KnownSRI, DefaultSRI, SRI
      <3>2. CASE currentHs[s] # NoSRI
        <4>1. currentHs' = [currentHs EXCEPT ![s].changed = FALSE]
          BY <1>6, <3>2 DEF lookupSRI
        <4> QED BY <1>h, <3>2, <4>1 DEF KnownSRI
      <3>3. CASE currentHs[s] = NoSRI
        <4>1. currentHs' = [currentHs EXCEPT ![s] = [SRI |-> DefaultSRI, changed |-> FALSE]]
          BY <1>6, <3>3 DEF lookupSRI
        <4> QED BY <1>h, <3>1, <4>1
      <3> QED BY <3>2, <3>3
    <2>2. call' \in [Streams -> Call]
      <3>1. CASE currentHs[s] # NoSRI
        <4>1. call' = [call EXCEPT ![s] =
                 [call[s] EXCEPT !.at = "looked", !.SRI = currentHs[s].SRI,
                                 !.sriChanged = currentHs[s].changed]]
          BY <1>6, <3>1 DEF lookupSRI
        <4>2. currentHs[s].SRI \in SRI /\ currentHs[s].changed \in BOOLEAN
          BY <1>h, <3>1 DEF KnownSRI
        <4>3. [call[s] EXCEPT !.at = "looked", !.SRI = currentHs[s].SRI,
                              !.sriChanged = currentHs[s].changed] \in Call
          BY <1>c, <4>2 DEF Call, CallPlaces
        <4> QED BY <1>c, <4>1, <4>3, CallUpdate
      <3>2. CASE currentHs[s] = NoSRI
        <4>1. call' = [call EXCEPT ![s] =
                 [call[s] EXCEPT !.at = "new", !.SRI = DefaultSRI, !.sriChanged = TRUE]]
          BY <1>6, <3>2 DEF lookupSRI
        <4>2. DefaultSRI \in SRI
          BY DEF DefaultSRI, SRI
        <4>3. [call[s] EXCEPT !.at = "new", !.SRI = DefaultSRI, !.sriChanged = TRUE] \in Call
          BY <1>c, <4>2 DEF Call, CallPlaces
        <4> QED BY <1>c, <4>1, <4>3, CallUpdate
      <3> QED BY <3>1, <3>2
    <2> QED BY <1>6, <2>1, <2>2 DEF lookupSRI, TypeOK
  <1>7. CASE queuePacket(s) \/ woken(s)
    <2>1. packetQueue \in Seq(Packet) /\ call[s].sriChanged \in BOOLEAN
      BY <1>c DEF TypeOK, Call
    <2>2. CASE enqueue(s, packetQueue, call[s].sriChanged, FALSE)
      <3>1. /\ packetQueue' \in Seq(Packet)
            /\ call' \in [Streams -> Call]
            /\ reader' \in ReaderState
            /\ sent' \in [Streams -> Sent]
        BY <2>1, <2>2, EnqueueType
      <3>2. UNCHANGED <<maxQueue, blocking, breakBlock, currentHs, streams,
                        pendingStreams, last>>
        BY <1>7 DEF queuePacket, woken
      <3> QED BY <3>1, <3>2 DEF TypeOK
    <2>3. CASE ~enqueue(s, packetQueue, call[s].sriChanged, FALSE)
      <3>1. call' \in [Streams -> Call]
        <4>1. \E p \in {"waiting", "full"} : call' = [call EXCEPT ![s].at = p]
          BY <1>7, <2>3 DEF queuePacket, woken
        <4> QED BY <1>c, <4>1, CallUpdate, Places
      <3> QED BY <1>7, <2>3, <3>1 DEF queuePacket, woken, TypeOK
    <2> QED BY <2>2, <2>3
  <1>8. CASE flushAndQueue(s)
    <2> DEFINE q == flushQueue(packetQueue)
    <2>1. q \in Seq(Packet) /\ call[s].sriChanged \in BOOLEAN
      BY FlushProperties DEF TypeOK, Call, CallPlaces
    <2> HIDE DEF q
    <2>2. ASSUME NEW i \in positions(q, s), replace(s, i, q) PROVE TypeOK'
      <3>1. i \in DOMAIN q /\ q[i] \in Packet
        BY <2>1, QueuePositions DEF positions
      <3>2. RemoveAt(q, i) \in Seq(Packet) /\ q[i].sriChanged \in BOOLEAN
        BY <2>1, <3>1, RemoveAtProperties DEF Packet
      <3>3. currentHs[s] # NoSRI
        BY <1>8 DEF flushAndQueue, ThreadsInv, SRIKnown, inHand
      <3>4. currentHs' \in [Streams -> KnownSRI \cup {NoSRI}]
        BY <1>h, <2>2, <3>3 DEF replace, KnownSRI
      <3>5. enqueue(s, RemoveAt(q, i), q[i].sriChanged, TRUE)
        BY <2>2 DEF replace
      <3> QED BY <1>8, <3>2, <3>4, <3>5, EnqueueType DEF flushAndQueue, TypeOK
    <2>3. CASE enqueue(s, q, call[s].sriChanged, FALSE) /\ UNCHANGED currentHs
      BY <1>8, <2>1, <2>3, EnqueueType DEF flushAndQueue, TypeOK
    <2> QED BY <1>8, <2>2, <2>3 DEF flushAndQueue, newest, q
  <1>9. CASE forgetSRI(s)
    <2>1. call' \in [Streams -> Call]
      BY <1>c, <1>9, CallUpdate DEF forgetSRI
    <2>2. sent' \in [Streams -> Sent]
      BY <1>n, <1>9 DEF forgetSRI
    <2>3. currentHs' \in [Streams -> KnownSRI \cup {NoSRI}]
      BY <1>h, <1>9 DEF forgetSRI
    <2> QED BY <1>9, <2>1, <2>2, <2>3, WakingType DEF forgetSRI, TypeOK
  <1> QED
    BY <1>1, <1>2, <1>3, <1>4, <1>5, <1>6, <1>7, <1>8, <1>9 DEF Push, Upstream

\* The places the reader can be at.
LEMMA PlacesOfReader ==
    /\ "ready" \in ReaderPlaces /\ "fetched" \in ReaderPlaces
    /\ "turnoff" \in ReaderPlaces /\ "remove" \in ReaderPlaces
    /\ "peek" \in ReaderPlaces /\ "checked" \in ReaderPlaces
    /\ "sleeping" \in ReaderPlaces /\ "peeked" \in ReaderPlaces
    /\ "got" \in ReaderPlaces /\ "disabling" \in ReaderPlaces
  BY DEF ReaderPlaces

\* Where the reader goes, with a stream ID or without.
LEMMA ReaderUpdate ==
    /\ \A p \in ReaderPlaces, i \in Streams \cup {NoStream} : [at |-> p, id |-> i] \in ReaderState
    /\ \A r \in ReaderState, p \in ReaderPlaces : [r EXCEPT !.at = p] \in ReaderState
  BY DEF ReaderState

\* What is read: one packet fewer in the queue.
LEMMA NextPacketType ==
    ASSUME TypeOK, NEW s \in Streams, nextPacket(s)
    PROVE  /\ packetQueue' \in Seq(Packet)
           /\ last' \in [Streams -> Packet \cup {NoPacket}]
           /\ call' \in [Streams -> Call]
           /\ reader' \in ReaderState
  <1>1. PICK i \in fetchPacket(s) :
            /\ packetQueue' = RemoveAt(packetQueue, i)
            /\ last' = [last EXCEPT ![s] = packetQueue[i]]
            /\ call' = queueAvailable
            /\ reader' = [at |-> IF packetQueue[i].EOS THEN "fetched" ELSE "ready",
                          id |-> s]
    BY DEF nextPacket
  <1>2. packetQueue \in Seq(Packet) /\ last \in [Streams -> Packet \cup {NoPacket}]
    BY DEF TypeOK
  <1>3. i \in 1 .. Len(packetQueue) /\ packetQueue[i] \in Packet
    BY <1>2, QueuePositions DEF fetchPacket, first, positions
  <1>4. packetQueue' \in Seq(Packet)
    BY <1>1, <1>2, <1>3, RemoveAtProperties
  <1>5. last' \in [Streams -> Packet \cup {NoPacket}]
    BY <1>1, <1>2, <1>3
  <1>6. call' \in [Streams -> Call]
    BY <1>1, WakingType
  <1>7. reader' \in ReaderState
    BY <1>1, ReaderUpdate, PlacesOfReader
  <1> QED BY <1>4, <1>5, <1>6, <1>7

\* The steps of the reader leave the members and locals of their types.
LEMMA ReaderType ==
    ASSUME TypeInv, Reader
    PROVE  TypeOK'
  <1> USE DEF TypeInv
  <1>r. reader \in ReaderState /\ reader.id \in Streams \cup {NoStream}
    BY DEF TypeOK, ReaderState
  <1>t. streams \in [Streams -> Stream \cup {NoStream}]
    BY DEF TypeOK
  <1>q. packetQueue \in Seq(Packet)
    BY DEF TypeOK
  <1>1. ASSUME NEW s \in Streams, nextPacket(s) PROVE TypeOK'
    <2>1. UNCHANGED <<maxQueue, blocking, breakBlock, currentHs, streams,
                      pendingStreams, sent>>
      BY <1>1 DEF nextPacket
    <2> QED BY <1>1, <2>1, NextPacketType DEF TypeOK
  <1>2. ASSUME NEW p \in ReaderPlaces, NEW i \in Streams \cup {NoStream}, goto(p, i)
        PROVE  TypeOK'
    <2>1. reader' \in ReaderState
      BY <1>2, ReaderUpdate DEF goto
    <2> QED BY <1>2, <2>1 DEF goto, port, TypeOK
  <1>3. ASSUME finished(reader.id), reader.id \in Streams,
               "streams" \in Environment => streams[reader.id] # NoStream
        PROVE  /\ streams' \in [Streams -> Stream \cup {NoStream}]
               /\ reader' \in ReaderState
    <2>1. CASE "streams" \notin Environment
      BY <1>t, <1>3, <2>1, ReaderUpdate, PlacesOfReader DEF finished
    <2>2. CASE "streams" \in Environment
      <3>1. streams' = [streams EXCEPT ![reader.id].eos = "REACHED"]
        BY <1>3, <2>2 DEF finished
      <3>2. streams[reader.id] \in Stream
        BY <1>t, <1>3, <2>2
      <3>3. streams' \in [Streams -> Stream \cup {NoStream}]
        BY <1>t, <1>3, <3>1, <3>2 DEF Stream, EosState
      <3> QED BY <1>3, <2>2, <3>3, ReaderUpdate, PlacesOfReader DEF finished
    <2> QED BY <2>1, <2>2
  <1>4. CASE handleEOS \/ turnOff
    <2>1. /\ reader.id \in Streams
          /\ "streams" \in Environment => streams[reader.id] # NoStream
      BY <1>4 DEF handleEOS, turnOff, ThreadsInv, ReaderKnows, ReaderHolds
    <2>2. \/ finished(reader.id)
          \/ reader' = [reader EXCEPT !.at = "turnoff"] /\ UNCHANGED streams
      BY <1>4 DEF handleEOS, turnOff
    <2>3. streams' \in [Streams -> Stream \cup {NoStream}] /\ reader' \in ReaderState
      BY <1>3, <1>r, <1>t, <2>1, <2>2, ReaderUpdate, PlacesOfReader
    <2>4. /\ blocking' \in BOOLEAN
          /\ UNCHANGED <<packetQueue, maxQueue, breakBlock, currentHs,
                         pendingStreams, call, sent, last>>
      BY <1>4 DEF handleEOS, turnOff, TypeOK
    <2> QED BY <2>3, <2>4 DEF TypeOK
  <1>5. CASE removeStream
    <2>1. reader.id \in Streams
      BY <1>5 DEF removeStream, ThreadsInv, ReaderKnows
    <2>2. pendingStreams \in [Streams -> Seq(Stream)]
      BY DEF TypeOK
    <2>3. /\ streams' \in [Streams -> Stream \cup {NoStream}]
          /\ pendingStreams' \in [Streams -> Seq(Stream)]
      <3>1. CASE pendingStreams[reader.id] # <<>>
        <4>1. /\ Head(pendingStreams[reader.id]) \in Stream
              /\ Tail(pendingStreams[reader.id]) \in Seq(Stream)
          BY <2>1, <2>2, <3>1
        <4>2. /\ streams' = [streams EXCEPT ![reader.id] = Head(pendingStreams[reader.id])]
              /\ pendingStreams' = [pendingStreams EXCEPT
                                       ![reader.id] = Tail(pendingStreams[reader.id])]
          BY <1>5, <3>1 DEF removeStream
        <4> QED BY <1>t, <2>2, <4>1, <4>2
      <3>2. CASE pendingStreams[reader.id] = <<>>
        <4>1. /\ streams' = [streams EXCEPT ![reader.id] = NoStream]
              /\ UNCHANGED pendingStreams
          BY <1>5, <3>2 DEF removeStream
        <4> QED BY <1>t, <2>2, <4>1
      <3> QED BY <3>1, <3>2
    <2>4. reader' \in ReaderState
      BY <1>5, <1>r, ReaderUpdate, PlacesOfReader DEF removeStream
    <2>5. UNCHANGED <<packetQueue, maxQueue, blocking, breakBlock, currentHs,
                      call, sent, last>>
      BY <1>5 DEF removeStream
    <2> QED BY <2>3, <2>4, <2>5 DEF TypeOK
  <1>6. CASE getCurrentStream
    <2>1. goto("peek", NoStream) \/ \E s \in Streams : goto("got", s)
      BY <1>6 DEF getCurrentStream
    <2> QED BY <1>2, <2>1, PlacesOfReader
  <1>7. CASE peekPacket
    <2>1. packetQueue # <<>> => Head(packetQueue).streamID \in Streams
      <3>1. packetQueue # <<>> => Head(packetQueue) \in Packet
        BY <1>q
      <3> QED BY <3>1 DEF Packet
    <2>2. \/ goto("ready", NoStream) \/ goto("checked", NoStream)
          \/ packetQueue # <<>> /\ goto("peeked", Head(packetQueue).streamID)
      BY <1>7 DEF peekPacket
    <2> QED BY <1>2, <2>1, <2>2, PlacesOfReader
  <1>8. CASE wait \/ getStream \/ readNothing
    <2>1. \/ goto("ready", NoStream) \/ goto("sleeping", NoStream)
          \/ goto("got", reader.id) \/ goto("remove", reader.id)
          \/ goto("ready", reader.id)
      BY <1>8 DEF wait, getStream, readNothing
    <2> QED BY <1>2, <1>r, <2>1, PlacesOfReader
  <1>9. CASE read
    BY <1>1, <1>9, <1>r DEF read, readable
  <1>10. CASE discardPacketsForStream
    <2> DEFINE rest == DOMAIN packetQueue \ discarded(reader.id)
               left == [n \in 1 .. Cardinality(rest) |-> packetQueue[nth(rest, n)]]
               at == [n \in 1 .. Cardinality(rest) |-> nth(rest, n)]
    <2>1. /\ packetQueue' = left
          /\ reader' = [reader EXCEPT !.at = "ready"]
          /\ UNCHANGED <<maxQueue, blocking, breakBlock, currentHs, streams,
                         pendingStreams, sent, last>>
      BY <1>10 DEF discardPacketsForStream
    <2>2. rest \in SUBSET DOMAIN packetQueue
      OBVIOUS
    <2>3. Thinned(left, packetQueue, at, at)
      BY <1>q, <2>2, RestrictionThins
    <2>4. packetQueue' \in Seq(Packet)
      BY <2>1, <2>3 DEF Thinned
    <2>5. PICK W : call' = [t \in Streams |-> IF t \in W THEN [call[t] EXCEPT !.at = "woken"]
                                               ELSE call[t]]
      BY <1>10 DEF discardPacketsForStream
    <2>6. call' \in [Streams -> Call]
      <3>1. call \in [Streams -> Call]
        BY DEF TypeOK
      <3>2. \A t \in Streams : call[t] \in Call /\ [call[t] EXCEPT !.at = "woken"] \in Call
        BY <3>1 DEF Call, CallPlaces
      <3> QED BY <2>5, <3>2
    <2>7. reader' \in ReaderState
      BY <1>r, <2>1, ReaderUpdate, PlacesOfReader
    <2> QED BY <2>1, <2>4, <2>6, <2>7 DEF TypeOK
  <1> QED
    <2>1. ASSUME NEW s \in Streams, getPacket(s) PROVE TypeOK'
      BY <1>1, <2>1 DEF getPacket
    <2>2. ASSUME NEW s \in Streams, eos(s) PROVE TypeOK'
      BY <1>2, <2>2, PlacesOfReader DEF eos
    <2> QED BY <1>4, <1>5, <1>6, <1>7, <1>8, <1>9, <1>10, <2>1, <2>2 DEF Reader

\* So do starting, stopping, enabling and sizing the port.
LEMMA ControlType ==
    ASSUME TypeInv, Control
    PROVE  TypeOK'
  <1> USE DEF TypeInv
  <1>r. reader \in ReaderState
    BY DEF TypeOK
  <1>t. streams \in [Streams -> Stream \cup {NoStream}]
    BY DEF TypeOK
  <1>1. ASSUME NEW s \in Streams, enable(s) \/ disable(s) PROVE TypeOK'
    <2>1. streams' \in [Streams -> Stream \cup {NoStream}]
      <3>1. \E b \in BOOLEAN : streams' = [streams EXCEPT ![s].enabled = b]
        BY <1>1 DEF enable, disable
      <3>2. streams[s] \in Stream
        BY <1>1, <1>t DEF enable, disable
      <3> QED BY <1>t, <3>1, <3>2 DEF Stream
    <2>2. reader' \in ReaderState
      <3>1. reader' \in {reader, [at |-> "disabling", id |-> s]}
        BY <1>1 DEF enable, disable
      <3> QED BY <1>r, <3>1, ReaderUpdate, PlacesOfReader
    <2>3. UNCHANGED <<packetQueue, maxQueue, blocking, breakBlock, currentHs,
                      pendingStreams, call, sent, last>>
      BY <1>1 DEF enable, disable
    <2> QED BY <2>1, <2>2, <2>3 DEF TypeOK
  <1>2. CASE block \/ unblock
    BY <1>2, WakingType DEF block, unblock, TypeOK
  <1>3. ASSUME NEW depth \in QueueDepths, setMaxQueueDepth(depth) PROVE TypeOK'
    BY <1>3 DEF setMaxQueueDepth, TypeOK
  <1> QED BY <1>1, <1>2, <1>3 DEF Control

\* Every step leaves the members and locals of their types.
LEMMA TypeStep ==
    ASSUME TypeInv, [Next]_vars
    PROVE  TypeOK'
  <1>1. CASE UNCHANGED vars
    BY <1>1 DEF TypeInv, TypeOK, vars
  <1>2. CASE Next
    BY <1>2, UpstreamType, ReaderType, ControlType DEF Next
  <1> QED BY <1>1, <1>2

-----------------------------------------------------------------------------
(* What a step of one thread leaves alone.                                 *)

\* Upstream of one stream ID disturbs nothing of another, and reads nothing.
LEMMA UpstreamFrame ==
    ASSUME TypeOK, NEW s \in Streams, Push(s) \/ Upstream(s)
    PROVE  /\ \A t \in Streams \ {s} :
                  /\ call'[t] = call[t] /\ currentHs'[t] = currentHs[t]
                  /\ sent'[t] = sent[t] /\ streams'[t] = streams[t]
                  /\ pendingStreams'[t] = pendingStreams[t]
           /\ UNCHANGED <<last, maxQueue, breakBlock>>
  <1> DEFINE alone(x) == \A t \in Streams \ {s} : x'[t] = x[t]
  <1>c. call \in [Streams -> Call]
    BY DEF TypeOK
  <1>h. currentHs \in [Streams -> KnownSRI \cup {NoSRI}]
    BY DEF TypeOK
  <1>s. sent \in [Streams -> Sent]
    BY DEF TypeOK
  <1>t. streams \in [Streams -> Stream \cup {NoStream}]
    BY DEF TypeOK
  <1>p. pendingStreams \in [Streams -> Seq(Stream)]
    BY DEF TypeOK
  <1>e. ASSUME NEW q, NEW c, NEW f, enqueue(s, q, c, f)
        PROVE  \A t \in Streams \ {s} : call'[t] = call[t] /\ sent'[t] = sent[t]
    <2>1. \/ call' = [call EXCEPT ![s].at = "ended"] \/ call' = [call EXCEPT ![s] = NoCall]
      BY <1>e DEF enqueue
    <2>2. \E n : sent' = [sent EXCEPT ![s].data = n]
      BY <1>e DEF enqueue
    <2> QED BY <1>c, <1>s, <2>1, <2>2
  <1>1. \A t \in Streams \ {s} : call'[t] = call[t]
    <2>1. CASE \E H \in SRIs : pushSRI(s, H)
      BY <1>c, <2>1 DEF pushSRI
    <2>2. CASE \E data, EOS \in BOOLEAN : pushPacket(s, data, EOS)
      BY <1>c, <2>2 DEF pushPacket
    <2>3. CASE pushSRIDecide(s) \/ createStream(s)
      BY <1>c, <2>3 DEF pushSRIDecide, createStream
    <2>4. CASE refusedEOS(s) \/ refusedOff(s) \/ forgetSRI(s)
      BY <1>c, <2>4 DEF refusedEOS, refusedOff, forgetSRI
    <2>5. CASE lookupSRI(s)
      BY <1>c, <2>5 DEF lookupSRI
    <2>6. CASE queuePacket(s) \/ woken(s)
      <3>1. \/ enqueue(s, packetQueue, call[s].sriChanged, FALSE)
            \/ \E p : call' = [call EXCEPT ![s].at = p]
        BY <2>6 DEF queuePacket, woken
      <3> QED BY <1>c, <1>e, <3>1
    <2>7. CASE flushAndQueue(s)
      BY <1>e, <2>7 DEF flushAndQueue, replace
    <2> QED BY <2>1, <2>2, <2>3, <2>4, <2>5, <2>6, <2>7 DEF Push, Upstream
  <1>2. \A t \in Streams \ {s} : sent'[t] = sent[t]
    <2>1. CASE \E H \in SRIs : pushSRI(s, H)
      BY <1>s, <2>1 DEF pushSRI, counted
    <2>2. CASE \E data, EOS \in BOOLEAN : pushPacket(s, data, EOS)
      BY <1>s, <2>2 DEF pushPacket, counted
    <2>3. CASE pushSRIDecide(s) \/ createStream(s) \/ lookupSRI(s)
      BY <1>s, <2>3 DEF pushSRIDecide, createStream, lookupSRI
    <2>4. CASE refusedEOS(s) \/ refusedOff(s) \/ forgetSRI(s)
      <3>1. UNCHANGED sent \/ sent' = nextInstance(s)
        BY <2>4 DEF refusedEOS, refusedOff, forgetSRI
      <3> QED BY <1>s, <3>1 DEF nextInstance
    <2>6. CASE queuePacket(s) \/ woken(s)
      <3>1. \/ enqueue(s, packetQueue, call[s].sriChanged, FALSE)
            \/ UNCHANGED sent
        BY <2>6 DEF queuePacket, woken
      <3> QED BY <1>s, <1>e, <3>1
    <2>7. CASE flushAndQueue(s)
      BY <1>e, <2>7 DEF flushAndQueue, replace
    <2> QED BY <2>1, <2>2, <2>3, <2>4, <2>6, <2>7 DEF Push, Upstream
  <1>3. \A t \in Streams \ {s} : currentHs'[t] = currentHs[t]
    <2>1. CASE \E H \in SRIs : pushSRI(s, H)
      BY <1>h, <2>1 DEF pushSRI
    <2>2. CASE \E data, EOS \in BOOLEAN : pushPacket(s, data, EOS)
      BY <1>h, <2>2 DEF pushPacket
    <2>3. CASE pushSRIDecide(s) \/ createStream(s) \/ lookupSRI(s)
      BY <1>h, <2>3 DEF pushSRIDecide, createStream, lookupSRI
    <2>4. CASE refusedEOS(s) \/ refusedOff(s) \/ forgetSRI(s)
      BY <1>h, <2>4 DEF refusedEOS, refusedOff, forgetSRI, port
    <2>6. CASE queuePacket(s) \/ woken(s)
      BY <1>h, <2>6 DEF queuePacket, woken
    <2>7. CASE flushAndQueue(s)
      BY <1>h, <2>7 DEF flushAndQueue, replace
    <2> QED BY <2>1, <2>2, <2>3, <2>4, <2>6, <2>7 DEF Push, Upstream
  <1>4. /\ \A t \in Streams \ {s} :
              streams'[t] = streams[t] /\ pendingStreams'[t] = pendingStreams[t]
        /\ UNCHANGED <<last, maxQueue, breakBlock>>
    <2>1. CASE \E H \in SRIs : pushSRI(s, H)
      BY <2>1 DEF pushSRI
    <2>2. CASE \E data, EOS \in BOOLEAN : pushPacket(s, data, EOS)
      BY <1>t, <2>2 DEF pushPacket
    <2>3. CASE pushSRIDecide(s) \/ createStream(s) \/ lookupSRI(s)
      BY <1>t, <1>p, <2>3 DEF pushSRIDecide, createStream, lookupSRI
    <2>4. CASE refusedEOS(s) \/ refusedOff(s) \/ forgetSRI(s)
      BY <2>4 DEF refusedEOS, refusedOff, forgetSRI, port
    <2>6. CASE queuePacket(s) \/ woken(s) \/ flushAndQueue(s)
      BY <2>6 DEF queuePacket, woken, flushAndQueue
    <2> QED BY <2>1, <2>2, <2>3, <2>4, <2>6 DEF Push, Upstream
  <1> QED BY <1>1, <1>2, <1>3, <1>4

\* The component pushes nothing and knows nothing of SRIs; it wakes pushes up.
LEMMA ComponentFrame ==
    ASSUME TypeOK, Reader \/ Control
    PROVE  /\ UNCHANGED <<currentHs, sent>>
           /\ \A t \in Streams :
                 \/ call'[t] = call[t]
                 \/ /\ call[t].at = "waiting"
                    /\ call'[t] = [call[t] EXCEPT !.at = "woken"]
  <1> DEFINE wakes == \A t \in Streams : \/ call'[t] = call[t]
                                         \/ /\ call[t].at = "waiting"
                                            /\ call'[t] = [call[t] EXCEPT !.at = "woken"]
  <1>c. call \in [Streams -> Call]
    BY DEF TypeOK
  <1>1. ASSUME NEW s \in Streams, nextPacket(s) PROVE wakes /\ UNCHANGED <<currentHs, sent>>
    <2>1. call' = queueAvailable /\ UNCHANGED <<currentHs, sent>>
      BY <1>1 DEF nextPacket
    <2> QED BY <1>c, <2>1 DEF queueAvailable
  <1>2. ASSUME NEW p, NEW i, goto(p, i) PROVE wakes /\ UNCHANGED <<currentHs, sent>>
    BY <1>2 DEF goto, port
  <1>3. CASE Reader
    <2>1. CASE \E s \in Streams : getPacket(s) \/ (reader.id = s /\ read)
      <3>1. PICK s \in Streams : nextPacket(s)
        BY <2>1 DEF getPacket, read
      <3> QED BY <1>1, <3>1
    <2>2. CASE (\E s \in Streams : eos(s)) \/ getCurrentStream \/ peekPacket
               \/ wait \/ getStream \/ readNothing
      <3>1. PICK p, i : goto(p, i)
        BY <2>2 DEF eos, getCurrentStream, peekPacket, wait, getStream, readNothing
      <3> QED BY <1>2, <3>1
    <2>3. CASE handleEOS \/ turnOff \/ removeStream
      BY <2>3 DEF handleEOS, turnOff, removeStream
    <2>4. CASE discardPacketsForStream
      <3>1. PICK W \in SUBSET {t \in Streams : call[t].at = "waiting"} :
                call' = [t \in Streams |-> IF t \in W THEN [call[t] EXCEPT !.at = "woken"]
                                           ELSE call[t]]
        BY <2>4 DEF discardPacketsForStream
      <3>2. wakes
        BY <1>c, <3>1
      <3> QED BY <2>4, <3>2 DEF discardPacketsForStream
    <2>5. read => reader.id \in Streams
      BY DEF read, readable, TypeOK, ReaderState
    <2> QED BY <1>3, <2>1, <2>2, <2>3, <2>4, <2>5 DEF Reader
  <1>4. CASE Control
    BY <1>4 DEF Control, enable, disable, block, unblock, setMaxQueueDepth
  <1> QED BY <1>3, <1>4

-----------------------------------------------------------------------------
(* The threads.                                                            *)

\* What enqueue does to the locals of the threads.
LEMMA EnqueueThreads ==
    ASSUME TypeOK, NEW s \in Streams, NEW q, NEW c, NEW f, enqueue(s, q, c, f)
    PROVE  /\ \/ call[s].EOS /\ call'[s] = [call[s] EXCEPT !.at = "ended"]
              \/ ~call[s].EOS /\ call'[s] = NoCall
           /\ reader' = reader \/ reader' = dataAvailable
           /\ sent'[s] = [sent[s] EXCEPT !.data = IF call[s].data THEN @ + 1 ELSE @]
  <1>c. call \in [Streams -> Call]
    BY DEF TypeOK
  <1>s. sent \in [Streams -> Sent]
    BY DEF TypeOK
  <1>1. \/ call[s].EOS /\ call'[s] = [call[s] EXCEPT !.at = "ended"]
        \/ ~call[s].EOS /\ call'[s] = NoCall
    BY <1>c DEF enqueue
  <1>2. reader' = reader \/ reader' = dataAvailable
    BY DEF enqueue
  <1>3. sent'[s] = [sent[s] EXCEPT !.data = IF call[s].data THEN @ + 1 ELSE @]
    <2>1. sent' = [sent EXCEPT ![s].data =
              IF call[s].data THEN sent[s].data + 1 ELSE sent[s].data]
      BY DEF enqueue
    <2> QED BY <1>s, <2>1
  <1> QED BY <1>1, <1>2, <1>3

(***************************************************************************)
(* Where upstream leaves the reader: it wakes it up, or takes its stream   *)
(* away in pushPacket, and that only if the stream is disabled.            *)
(***************************************************************************)
LEMMA UpstreamReader ==
    ASSUME TypeOK, NEW s \in Streams, Push(s) \/ Upstream(s)
    PROVE  \/ /\ reader' = reader \/ reader' = dataAvailable
              /\ streams[s] # NoStream => streams'[s] = streams[s]
           \/ /\ streams[s] # NoStream /\ ~streams[s].enabled
              /\ streams'[s] = NoStream
              /\ IF reader.at = "got" /\ reader.id = s
                 THEN reader' = [reader EXCEPT !.id = NoStream]
                 ELSE reader' = reader
  <1>t. streams \in [Streams -> Stream \cup {NoStream}]
    BY DEF TypeOK
  <1>1. CASE \E H \in SRIs : pushSRI(s, H)
    BY <1>1 DEF pushSRI
  <1>2. CASE \E data, EOS \in BOOLEAN : pushPacket(s, data, EOS)
    BY <1>t, <1>2 DEF pushPacket, acceptPacket
  <1>3. CASE pushSRIDecide(s) \/ createStream(s) \/ lookupSRI(s)
    BY <1>3 DEF pushSRIDecide, createStream, lookupSRI
  <1>4. CASE refusedEOS(s) \/ refusedOff(s) \/ forgetSRI(s)
    BY <1>4 DEF refusedEOS, refusedOff, forgetSRI, port
  <1>5. CASE queuePacket(s) \/ woken(s) \/ flushAndQueue(s)
    <2>1. UNCHANGED streams
      BY <1>5 DEF queuePacket, woken, flushAndQueue
    <2>2. reader' = reader \/ \E q, c, f : enqueue(s, q, c, f)
      BY <1>5 DEF queuePacket, woken, flushAndQueue, replace
    <2> QED BY <2>1, <2>2, EnqueueThreads
  <1> QED BY <1>1, <1>2, <1>3, <1>4, <1>5 DEF Push, Upstream

\* Upstream looks the SRI up before it goes on with the packet.
LEMMA UpstreamSRI ==
    ASSUME TypeInv, NEW s \in Streams, Push(s) \/ Upstream(s)
    PROVE  SRIKnown'
  <1> USE DEF TypeInv
  <1>c. call \in [Streams -> Call]
    BY DEF TypeOK
  <1>h. currentHs \in [Streams -> KnownSRI \cup {NoSRI}]
    BY DEF TypeOK
  <1>k. [SRI |-> DefaultSRI, changed |-> FALSE] # NoSRI
    <2>1. DefaultSRI \in SRI
      BY DEF DefaultSRI, SRI
    <2>2. [SRI |-> DefaultSRI, changed |-> FALSE] \in KnownSRI
      BY <2>1 DEF KnownSRI
    <2> QED BY <2>2, InPortConstants
  <1>i. call[s].at \in inHand => currentHs[s] # NoSRI
    BY DEF ThreadsInv, SRIKnown
  <1>n. NoCall.at \notin inHand
    BY DEF NoCall, inHand
  <1> SUFFICES call'[s].at \in inHand => currentHs'[s] # NoSRI
    BY UpstreamFrame DEF ThreadsInv, SRIKnown
  <1>1. CASE \E H \in SRIs : pushSRI(s, H)
    <2>1. PICK H \in SRIs : pushSRI(s, H)
      BY <1>1
    <2>2. CASE currentHs[s] = NoSRI
      <3>1. currentHs'[s] = [SRI |-> H, changed |-> TRUE]
        BY <1>h, <2>1, <2>2 DEF pushSRI
      <3>2. currentHs'[s] \in KnownSRI
        BY <3>1, InPortConstants DEF KnownSRI
      <3> QED BY <3>2, InPortConstants
    <2>3. CASE currentHs[s] # NoSRI
      BY <2>1, <2>3 DEF pushSRI
    <2> QED BY <2>2, <2>3
  <1>2. CASE \E data, EOS \in BOOLEAN : pushPacket(s, data, EOS)
    <2>1. call'[s].at \in {"idle", "refused", "accepted"}
      BY <1>c, <1>2 DEF pushPacket, Call
    <2> QED BY <2>1 DEF inHand
  <1>3. CASE pushSRIDecide(s) \/ refusedEOS(s) \/ refusedOff(s) \/ forgetSRI(s)
    <2>1. call'[s] = NoCall \/ call'[s].at \in {"again", "off"}
      BY <1>c, <1>3 DEF pushSRIDecide, refusedEOS, refusedOff, forgetSRI, Call
    <2> QED BY <1>n, <2>1 DEF inHand
  <1>4. CASE createStream(s)
    <2>1. UNCHANGED currentHs /\ (call'[s] = NoCall \/ call[s].at = "new")
      BY <1>c, <1>4 DEF createStream
    <2> QED BY <1>i, <1>n, <2>1 DEF inHand
  <1>5. CASE lookupSRI(s)
    <2>1. CASE currentHs[s] # NoSRI
      <3>1. currentHs' = [currentHs EXCEPT ![s].changed = FALSE]
        BY <1>5, <2>1 DEF lookupSRI
      <3>2. currentHs'[s] \in KnownSRI
        BY <1>h, <2>1, <3>1 DEF KnownSRI
      <3> QED BY <3>2, InPortConstants
    <2>2. CASE currentHs[s] = NoSRI
      BY <1>h, <1>k, <1>5, <2>2 DEF lookupSRI
    <2> QED BY <2>1, <2>2
  <1>6. CASE queuePacket(s) \/ woken(s) \/ flushAndQueue(s)
    <2>1. currentHs[s] # NoSRI
      BY <1>i, <1>6 DEF queuePacket, woken, flushAndQueue, inHand
    <2>2. \/ UNCHANGED currentHs
          \/ currentHs' = [currentHs EXCEPT ![s].changed = FALSE]
      BY <1>6 DEF queuePacket, woken, flushAndQueue, replace
    <2>3. currentHs'[s] \in KnownSRI
      BY <1>h, <2>1, <2>2 DEF KnownSRI
    <2> QED BY <2>3, InPortConstants
  <1> QED BY <1>1, <1>2, <1>3, <1>4, <1>5, <1>6 DEF Push, Upstream

\* Upstream leaves the reader with the stream it is working on.
LEMMA UpstreamThreads ==
    ASSUME TypeInv, NEW s \in Streams, Push(s) \/ Upstream(s)
    PROVE  ThreadsInv'
  <1> USE DEF TypeInv
  <1>r. reader \in ReaderState
    BY DEF TypeOK
  <1>w. /\ dataAvailable.id = reader.id
        /\ dataAvailable.at = reader.at \/ dataAvailable.at = "peek"
    BY WakingType
  <1>f. \A t \in Streams \ {s} : streams'[t] = streams[t]
    BY UpstreamFrame
  <1>1. ReaderKnows'
    <2>1. CASE /\ reader' = reader \/ reader' = dataAvailable
               /\ streams[s] # NoStream => streams'[s] = streams[s]
      <3>1. reader'.id = reader.id /\ (reader'.at = reader.at \/ reader'.at = "peek")
        BY <1>w, <2>1
      <3> QED BY <1>f, <1>r, <2>1, <3>1 DEF ReaderKnows, ThreadsInv, ReaderState
    <2>2. CASE /\ streams'[s] = NoStream
               /\ IF reader.at = "got" /\ reader.id = s
                  THEN reader' = [reader EXCEPT !.id = NoStream]
                  ELSE reader' = reader
      BY <1>f, <1>r, <2>2 DEF ReaderKnows, ThreadsInv, ReaderState
    <2> QED BY <2>1, <2>2, UpstreamReader
  <1>2. ReaderHolds'
    <2>1. CASE /\ reader' = reader \/ reader' = dataAvailable
               /\ streams[s] # NoStream => streams'[s] = streams[s]
      <3>1. reader'.id = reader.id /\ (reader'.at = reader.at \/ reader'.at = "peek")
        BY <1>w, <2>1
      <3> QED BY <1>f, <1>r, <2>1, <3>1 DEF ReaderHolds, ReaderKnows, ThreadsInv
    <2>2. CASE /\ streams[s] # NoStream /\ ~streams[s].enabled
               /\ IF reader.at = "got" /\ reader.id = s
                  THEN reader' = [reader EXCEPT !.id = NoStream]
                  ELSE reader' = reader
      BY <1>f, <1>r, <2>2 DEF ReaderHolds, ReaderKnows, ThreadsInv, ReaderState
    <2> QED BY <2>1, <2>2, UpstreamReader
  <1>3. ReaderDiscards'
    BY <1>r, <1>w, UpstreamReader DEF ThreadsInv, ReaderDiscards, ReaderState
  <1> QED BY <1>1, <1>2, <1>3, UpstreamSRI DEF ThreadsInv

\* The component wakes pushes up, and knows the stream it goes on with.
LEMMA ComponentThreads ==
    ASSUME TypeInv, Reader \/ Control
    PROVE  ThreadsInv'
  <1> USE DEF TypeInv
  <1>r. reader \in ReaderState
    BY DEF TypeOK
  <1>t. streams \in [Streams -> Stream \cup {NoStream}]
    BY DEF TypeOK
  <1>1. SRIKnown'
    <2>1. \A t \in Streams : call[t] \in Call
      BY DEF TypeOK
    <2>2. \A t \in Streams : call'[t].at = call[t].at
                               \/ (call'[t].at = "woken" /\ call[t].at = "waiting")
      BY <2>1, ComponentFrame DEF Call
    <2> QED BY <2>2, ComponentFrame DEF ThreadsInv, SRIKnown, inHand
  <1>2. ASSUME NEW s \in Streams, nextPacket(s),
               "streams" \in Environment => streams[s] # NoStream /\ streams[s].enabled
        PROVE  ReaderKnows' /\ ReaderHolds'
    <2>1. \/ reader' = [at |-> "fetched", id |-> s]
          \/ reader' = [at |-> "ready", id |-> s]
      BY <1>2 DEF nextPacket
    <2>2. UNCHANGED streams
      BY <1>2 DEF nextPacket
    <2> QED BY <1>2, <2>1, <2>2 DEF ReaderKnows, ReaderHolds
  <1>3. ASSUME NEW p, NEW i, goto(p, i),
               p \in {"ready", "checked", "peek", "sleeping"}
                 \/ (p \in {"peeked", "remove"} /\ i \in Streams)
                 \/ (p = "got" /\ streams[i] # NoStream)
        PROVE  ReaderKnows' /\ ReaderHolds'
    BY <1>3 DEF goto, port, ReaderKnows, ReaderHolds
  <1>4. ASSUME finished(reader.id), reader.id \in Streams
        PROVE  ReaderKnows' /\ ReaderHolds'
    <2>1. \/ reader' = [at |-> "ready", id |-> reader.id]
          \/ reader' = [at |-> "remove", id |-> reader.id]
      BY <1>4 DEF finished
    <2> QED BY <1>4, <2>1 DEF ReaderKnows, ReaderHolds
  <1>5. ASSUME Reader PROVE ReaderKnows' /\ ReaderHolds'
    <2>1. ASSUME NEW s \in Streams, getPacket(s) PROVE ReaderKnows' /\ ReaderHolds'
      BY <1>2, <2>1 DEF getPacket
    <2>2. CASE read
      <3>1. /\ reader.id \in Streams /\ nextPacket(reader.id)
            /\ streams[reader.id] # NoStream /\ streams[reader.id].enabled
        BY <1>r, <2>2 DEF read, readable, ThreadsInv, ReaderKnows, ReaderState
      <3> QED BY <1>2, <3>1
    <2>3. CASE handleEOS \/ turnOff
      <3>1. reader.id \in Streams
        BY <2>3 DEF handleEOS, turnOff, ThreadsInv, ReaderKnows
      <3>2. CASE finished(reader.id)
        BY <1>4, <3>1, <3>2
      <3>3. CASE reader' = [reader EXCEPT !.at = "turnoff"] /\ UNCHANGED streams
        BY <1>r, <2>3, <3>1, <3>3
           DEF handleEOS, turnOff, ThreadsInv, ReaderKnows, ReaderHolds, ReaderState
      <3> QED BY <2>3, <3>2, <3>3 DEF handleEOS, turnOff
    <2>4. CASE removeStream \/ discardPacketsForStream
      <3>1. reader'.at = "ready"
        BY <1>r, <2>4 DEF removeStream, discardPacketsForStream, ReaderState
      <3> QED BY <3>1 DEF ReaderKnows, ReaderHolds
    <2>5. CASE getCurrentStream
      <3>1. goto("peek", NoStream) \/ \E s \in Streams : goto("got", s) /\ streams[s] # NoStream
        BY <2>5 DEF getCurrentStream
      <3> QED BY <1>3, <3>1
    <2>6. CASE peekPacket
      <3>1. packetQueue # <<>> => Head(packetQueue).streamID \in Streams
        <4>1. packetQueue # <<>> => Head(packetQueue) \in Packet
          BY DEF TypeOK
        <4> QED BY <4>1 DEF Packet
      <3>2. \/ goto("ready", NoStream) \/ goto("checked", NoStream)
            \/ packetQueue # <<>> /\ goto("peeked", Head(packetQueue).streamID)
        BY <2>6 DEF peekPacket
      <3> QED BY <1>3, <3>1, <3>2
    <2>7. CASE wait \/ getStream
      <3>1. \/ goto("ready", NoStream) \/ goto("sleeping", NoStream)
            \/ goto("got", reader.id) /\ streams[reader.id] # NoStream
        BY <2>7 DEF wait, getStream
      <3> QED BY <1>3, <3>1
    <2>8. CASE readNothing
      <3>1. \/ goto("ready", NoStream) \/ goto("ready", reader.id)
            \/ goto("remove", reader.id) /\ reader.id # NoStream
        BY <2>8 DEF readNothing
      <3> QED BY <1>3, <1>r, <3>1 DEF ReaderState
    <2>9. ASSUME NEW s \in Streams, eos(s) PROVE ReaderKnows' /\ ReaderHolds'
      BY <1>3, <2>9 DEF eos
    <2> QED BY <1>5, <2>1, <2>2, <2>3, <2>4, <2>5, <2>6, <2>7, <2>8, <2>9 DEF Reader
  <1>6. ASSUME Control PROVE ReaderKnows' /\ ReaderHolds'
    <2>1. ASSUME NEW s \in Streams, enable(s) \/ disable(s)
          PROVE  ReaderKnows' /\ ReaderHolds'
      <3>1. \/ reader' = reader /\ reader.at = "ready"
            \/ reader' = [at |-> "disabling", id |-> s]
        BY <2>1 DEF enable, disable
      <3> QED BY <3>1 DEF ReaderKnows, ReaderHolds
    <2>2. CASE block \/ unblock
      <3>1. UNCHANGED streams /\ reader' \in {reader, dataAvailable}
        BY <2>2 DEF block, unblock
      <3>2. /\ reader'.id = reader.id
            /\ reader'.at = reader.at \/ reader'.at = "peek"
        BY <3>1, WakingType
      <3> QED BY <3>1, <3>2 DEF ThreadsInv, ReaderKnows, ReaderHolds
    <2>3. ASSUME NEW depth \in QueueDepths, setMaxQueueDepth(depth)
          PROVE  ReaderKnows' /\ ReaderHolds'
      BY <2>3 DEF setMaxQueueDepth, ThreadsInv, ReaderKnows, ReaderHolds
    <2> QED BY <1>6, <2>1, <2>2, <2>3 DEF Control
  <1>7. ReaderDiscards'
    <2>1. CASE \E s \in Streams : disable(s)
      BY <2>1 DEF disable, ReaderDiscards
    <2>2. CASE (\E s \in Streams : enable(s)) \/ (\E d \in QueueDepths : setMaxQueueDepth(d))
      BY <2>2 DEF enable, setMaxQueueDepth, ThreadsInv, ReaderDiscards
    <2>3. CASE block \/ unblock
      BY <1>r, <2>3, WakingType DEF block, unblock, ThreadsInv, ReaderDiscards
    <2>4. ASSUME NEW s \in Streams, nextPacket(s) PROVE ReaderDiscards'
      BY <2>4 DEF nextPacket, ReaderDiscards
    <2>5. CASE (\E s \in Streams : getPacket(s)) \/ read
      <3>1. read => reader.id \in Streams
        BY <1>r DEF read, readable, ReaderState
      <3>2. PICK s \in Streams : nextPacket(s)
        BY <2>5, <3>1 DEF getPacket, read
      <3> QED BY <2>4, <3>2
    <2>6. ASSUME NEW p, NEW i, goto(p, i), p # "disabling" PROVE ReaderDiscards'
      BY <2>6 DEF goto, ReaderDiscards
    <2>7. CASE (\E s \in Streams : eos(s)) \/ getCurrentStream \/ peekPacket
      BY <2>6, <2>7 DEF eos, getCurrentStream, peekPacket
    <2>8. CASE wait \/ getStream \/ readNothing
      BY <2>6, <2>8 DEF wait, getStream, readNothing
    <2>9. CASE handleEOS \/ turnOff \/ removeStream \/ discardPacketsForStream
      <3>1. reader'.at \in {"turnoff", "remove", "ready"}
        BY <1>r, <2>9 DEF handleEOS, turnOff, removeStream, discardPacketsForStream,
                          finished, ReaderState
      <3> QED BY <3>1 DEF ReaderDiscards
    <2> QED BY <2>1, <2>2, <2>3, <2>5, <2>7, <2>8, <2>9 DEF Reader, Control
  <1> QED BY <1>1, <1>5, <1>6, <1>7 DEF ThreadsInv

\* Types and threads together are preserved by every step.
LEMMA TypeInvStep ==
    ASSUME TypeInv, [Next]_vars
    PROVE  TypeInv'
  <1>1. CASE UNCHANGED vars
    <2>1. ThreadsInv'
      BY <1>1 DEF TypeInv, ThreadsInv, SRIKnown, ReaderKnows, ReaderHolds, ReaderDiscards, vars
    <2> QED BY <2>1, TypeStep DEF TypeInv
  <1>2. CASE Next
    BY <1>2, TypeStep, UpstreamThreads, ComponentThreads DEF Next, TypeInv
  <1> QED BY <1>1, <1>2

(***************************************************************************)
(* The members of the port and the locals of its threads have their types, *)
(* whatever the environment does; the upstream threads and the component's *)
(* never lose the SRI or the InputStream they have in hand.                *)
(***************************************************************************)
THEOREM TypeCorrect == Spec => []TypeInv
  <1>1. TypeInv /\ [Next]_vars => TypeInv'
    BY TypeInvStep
  <1> QED BY <1>1, TypeInit, PTL DEF Spec

\* TypeOK is the part of it that the runs check.
THEOREM TypesHold == Spec => []TypeOK
  <1>1. TypeInv => TypeOK
    BY DEF TypeInv
  <1> QED BY <1>1, TypeCorrect, PTL

-----------------------------------------------------------------------------
(* What thinning preserves.                                                *)

\* A queue is what is left of it when nothing is removed.
LEMMA NothingThinned ==
    ASSUME NEW q \in Seq(Packet)
    PROVE  LET id == [i \in DOMAIN q |-> i]
           IN  Thinned(q, q, id, id) /\ keepsEnds(q, q, id)
  <1>1. \A i \in DOMAIN q : i \in Nat
    BY QueuePositions
  <1>2. DOMAIN q = 1 .. Len(q)
    OBVIOUS
  <1> QED BY <1>1 DEF Thinned, keepsEnds

\* Packets that are ordered stay so, and their samples stay with the instance.
LEMMA ThinnedOrder ==
    ASSUME NEW q \in Seq(Packet), NEW r, NEW f, NEW g, Thinned(r, q, f, g)
    PROVE  /\ ordered(q) => ordered(r)
           /\ allPushed(q) => allPushed(r)
           /\ noneEmpty(q) => noneEmpty(r)
           /\ \A p, s : ahead(p, s, q) => ahead(p, s, r)
  <1>1. /\ f \in [DOMAIN r -> DOMAIN q] /\ g \in [DOMAIN r -> DOMAIN q]
        /\ \A m, n \in DOMAIN r : m < n => f[m] < f[n]
        /\ \A n \in DOMAIN r :
              /\ r[n].streamID = q[f[n]].streamID
              /\ r[n].instance = q[f[n]].instance
              /\ r[n].EOS = q[f[n]].EOS
              /\ r[n].buffer = q[g[n]].buffer
              /\ q[g[n]].streamID = q[f[n]].streamID
              /\ q[g[n]].instance = q[f[n]].instance
              /\ g[n] <= f[n]
        /\ \A m, n \in DOMAIN r :
              m < n /\ r[m].streamID = r[n].streamID => f[m] < g[n]
    BY DEF Thinned
  <1>2. \A n \in DOMAIN r : f[n] \in DOMAIN q /\ f[n] \in Nat /\ g[n] \in DOMAIN q /\ g[n] \in Nat
    BY <1>1, QueuePositions
  <1>3. ASSUME ordered(q) PROVE ordered(r)
    <2> SUFFICES ASSUME NEW m \in DOMAIN r, NEW n \in DOMAIN r,
                        m < n, r[m].streamID = r[n].streamID
                 PROVE  before(r[m], r[n])
      BY DEF ordered
    <2>1. f[m] < g[n] /\ g[m] < g[n]
      BY <1>1, <1>2
    <2>2. before(q[f[m]], q[g[n]]) /\ before(q[g[m]], q[g[n]])
      BY <1>1, <1>2, <1>3, <2>1 DEF ordered
    <2>3. /\ r[m].instance = q[f[m]].instance /\ r[m].EOS = q[f[m]].EOS
          /\ r[m].buffer = q[g[m]].buffer /\ q[g[m]].instance = q[f[m]].instance
          /\ r[n].instance = q[g[n]].instance /\ r[n].buffer = q[g[n]].buffer
      BY <1>1
    <2>4. q[f[m]].instance \in Nat /\ q[g[n]].instance \in Nat
      BY <1>2, QueuePositions DEF Packet
    <2> QED BY <2>2, <2>3, <2>4 DEF before
  <1>4. ASSUME allPushed(q) PROVE allPushed(r)
    <2> SUFFICES ASSUME NEW n \in DOMAIN r
                 PROVE  own(r[n]) /\ pushed(r[n].streamID, r[n])
      BY DEF allPushed
    <2>1. /\ own(q[f[n]]) /\ pushed(q[f[n]].streamID, q[f[n]])
          /\ own(q[g[n]]) /\ pushed(q[g[n]].streamID, q[g[n]])
      BY <1>2, <1>4 DEF allPushed
    <2>2. /\ r[n].streamID = q[f[n]].streamID
          /\ r[n].instance = q[f[n]].instance
          /\ r[n].EOS = q[f[n]].EOS
          /\ r[n].buffer = q[g[n]].buffer
          /\ q[g[n]].streamID = q[f[n]].streamID
          /\ q[g[n]].instance = q[f[n]].instance
      BY <1>1
    <2> QED BY <2>1, <2>2 DEF own, pushed
  <1>5. ASSUME noneEmpty(q) PROVE noneEmpty(r)
    BY <1>1, <1>2, <1>5 DEF noneEmpty
  <1>6. ASSUME NEW p, NEW s, ahead(p, s, q) PROVE ahead(p, s, r)
    <2> SUFFICES ASSUME NEW n \in DOMAIN r, r[n].streamID = s PROVE before(p, r[n])
      BY DEF ahead
    <2>1. before(p, q[g[n]])
      BY <1>1, <1>2, <1>6 DEF ahead
    <2> QED BY <1>1, <2>1 DEF before
  <1> QED BY <1>3, <1>4, <1>5, <1>6

\* So does the EOS that follows a packet.
LEMMA ThinnedEnds ==
    ASSUME NEW q \in Seq(Packet), NEW r, NEW f, NEW g,
           Thinned(r, q, f, g), keepsFollowing(r, q, f), endFollows(q)
    PROVE  endFollows(r)
  <1>1. /\ r \in Seq(Packet)
        /\ f \in [DOMAIN r -> DOMAIN q]
        /\ \A m, n \in DOMAIN r : m < n => f[m] < f[n]
        /\ \A n \in DOMAIN r :
              /\ r[n].streamID = q[f[n]].streamID
              /\ r[n].instance = q[f[n]].instance
              /\ r[n].EOS = q[f[n]].EOS
    BY DEF Thinned
  <1>2. \A n \in DOMAIN r : n \in Nat /\ f[n] \in DOMAIN q /\ f[n] \in Nat
    BY <1>1, QueuePositions
  <1> SUFFICES ASSUME NEW i \in DOMAIN r, closed(r[i])
               PROVE  endOf(r[i], i, r)
    BY DEF endFollows
  <1>3. endOf(q[f[i]], f[i], q)
    <2>1. /\ f[i] \in DOMAIN q
          /\ q[f[i]].streamID = r[i].streamID
          /\ q[f[i]].instance = r[i].instance
      BY <1>1, <1>2
    <2> QED BY <2>1 DEF endFollows, closed
  <1>4. PICK k \in DOMAIN q : /\ f[i] <= k
                              /\ q[k].streamID = r[i].streamID
                              /\ q[k].instance = r[i].instance
                              /\ q[k].EOS
    BY <1>1, <1>2, <1>3 DEF endOf
  <1>5. k \in Nat
    BY QueuePositions
  <1>6. PICK n \in DOMAIN r : f[n] = k
    BY <1>2, <1>4, <1>5 DEF keepsFollowing
  <1>7. i <= n
    <2>1. i \in Nat /\ n \in Nat /\ f[i] \in Nat /\ f[n] \in Nat /\ f[i] <= f[n]
      BY <1>2, <1>4, <1>6
    <2>2. n < i => f[n] < f[i]
      BY <1>1
    <2> QED BY <2>1, <2>2
  <1> QED BY <1>1, <1>4, <1>6, <1>7 DEF endOf

(***************************************************************************)
(* _flushQueue moves samples to another packet of their instance only: the *)
(* EOS of an earlier instance would be between the two packets.            *)
(***************************************************************************)
LEMMA TakenStays ==
    ASSUME TypeOK, SamplesStay, OrderInv
    PROVE  \A i \in kept(packetQueue) : \A j \in taken(packetQueue, i) :
              packetQueue[j].instance = packetQueue[i].instance
  <1> DEFINE q == packetQueue
  <1>q. q \in Seq(Packet)
    BY DEF TypeOK
  <1> HIDE DEF q
  <1> SUFFICES ASSUME NEW i \in kept(q), NEW j \in taken(q, i)
               PROVE  q[j].instance = q[i].instance
    BY DEF q
  <1>1. i \in DOMAIN q /\ \A k \in DOMAIN q : k \in Nat /\ q[k] \in Packet
    BY <1>q, QueuePositions
  <1>2. q[i].buffer = Empty /\ j \in absorbed(q, i)
    BY DEF taken, newest, samples
  <1>3. CASE NoEmptyPackets
    BY <1>1, <1>2, <1>3 DEF OrderInv, PacketsInv, noneEmpty, q
  <1>4. CASE NoDiscards
    <2>1. /\ j \in DOMAIN q /\ q[j].streamID = q[i].streamID /\ j \notin kept(q) /\ j < i
          /\ \A k \in kept(q) : q[k].streamID = q[i].streamID => k < j \/ k >= i
      <3>1. \A k \in kept(q) : k \in DOMAIN q
        BY <1>q, QueuePositions
      <3> QED BY <1>2, <3>1 DEF absorbed, positions
    <2>2. before(q[j], q[i]) /\ q[j].instance \in Nat /\ q[i].instance \in Nat
      BY <1>1, <2>1 DEF OrderInv, PacketsInv, QueueOrder, ordered, q, Packet
    <2>3. CASE q[j].instance = q[i].instance
      BY <2>3
    <2>4. CASE q[j].instance < q[i].instance
      <3>1. q[i].instance <= sent[q[i].streamID].instance
        BY <1>1 DEF OrderInv, PacketsInv, Pushed, allPushed, pushed, q
      <3>2. q[i].streamID \in Streams /\ sent[q[i].streamID].instance \in Nat
        BY <1>1 DEF TypeOK, Packet, Sent
      <3>3. closed(q[j])
        BY <2>1, <2>2, <2>4, <3>1, <3>2 DEF closed
      <3>4. endOf(q[j], j, q)
        BY <1>4, <2>1, <3>3 DEF OrderInv, PacketsInv, EndFollows, endFollows, q
      <3>5. PICK k \in DOMAIN q : /\ j <= k
                                  /\ q[k].streamID = q[i].streamID
                                  /\ q[k].instance = q[j].instance
                                  /\ q[k].EOS
        BY <2>1, <3>4 DEF endOf
      <3>6. k \in kept(q) /\ k >= i /\ k # i
        <4>1. k \in kept(q)
          BY <3>5 DEF kept
        <4> QED BY <1>1, <2>1, <2>2, <2>4, <3>5, <4>1
      <3>7. before(q[i], q[k])
        BY <1>1, <3>5, <3>6 DEF OrderInv, PacketsInv, QueueOrder, ordered, q
      <3> QED BY <2>2, <2>4, <3>5, <3>7 DEF before
    <2> QED BY <2>2, <2>3, <2>4 DEF before
  <1> QED BY <1>3, <1>4 DEF SamplesStay

-----------------------------------------------------------------------------
(* The kinds of steps.                                                     *)

sameSent(s) == sent'[s].instance = sent[s].instance /\ sent'[s].data = sent[s].data

sameEnd(s) == call'[s].at = "ended" <=> call[s].at = "ended"

Quiet ==
    /\ UNCHANGED <<packetQueue, last>>
    /\ \A s \in Streams : sameSent(s) /\ sameEnd(s)

\* Upstream is through with an instance of s.
Renewed(s) ==
    /\ UNCHANGED <<packetQueue, last>>
    /\ sent'[s].instance = sent[s].instance + 1
    /\ sent'[s].data = 0
    /\ NoDiscards => call[s].at = "ended" /\ call'[s].at # "ended"
    /\ \A t \in Streams \ {s} : sameSent(t) /\ sameEnd(t)

\* A packet p of s joins what is left of the queue.
Queued(s, p) ==
    /\ UNCHANGED last
    /\ \E q, f, g :
          /\ Thinned(q, packetQueue, f, g)
          /\ keepsEnds(q, packetQueue, f)
          /\ packetQueue' = Append(q, p)
    /\ p \in Packet
    /\ p.streamID = s
    /\ p.instance = sent[s].instance
    /\ sent'[s].instance = sent[s].instance
    /\ \/ sent'[s].data = sent[s].data + 1 /\ p.buffer = <<p.instance, sent'[s].data>>
       \/ sent'[s].data = sent[s].data /\ p.buffer = Empty /\ ~NoEmptyPackets
    /\ call[s].at # "ended"
    /\ call'[s].at = "ended" <=> p.EOS
    /\ \A t \in Streams \ {s} : sameSent(t) /\ sameEnd(t)

\* The packet at i, the first of s, is read.
Taken(s, i) ==
    /\ i \in fetchPacket(s)
    /\ DataFree
    /\ packetQueue' = RemoveAt(packetQueue, i)
    /\ last' = [last EXCEPT ![s] = packetQueue[i]]
    /\ \A t \in Streams : sameSent(t) /\ sameEnd(t)

Discarded ==
    /\ "disable" \in Environment
    /\ \E f : Thinned(packetQueue', packetQueue, f, f)
    /\ UNCHANGED last
    /\ \A s \in Streams : sameSent(s) /\ sameEnd(s)

\* What the component does to the queue.
LEMMA ComponentKinds ==
    ASSUME TypeInv, Reader \/ Control, AllEnabled
    PROVE  Quiet \/ Discarded \/ \E s \in Streams : \E i \in fetchPacket(s) : Taken(s, i)
  <1> USE DEF TypeInv
  <1>1. \A s \in Streams : sameSent(s) /\ sameEnd(s)
    <2>1. \A s \in Streams : call[s] \in Call
      BY DEF TypeOK
    <2>2. \A s \in Streams : \/ call'[s] = call[s]
                             \/ call[s].at = "waiting" /\ call'[s].at = "woken"
      BY <2>1, ComponentFrame DEF Call
    <2> QED BY <2>2, ComponentFrame DEF sameSent, sameEnd
  <1>2. ASSUME NEW s \in Streams, nextPacket(s)
        PROVE  \E i \in fetchPacket(s) : Taken(s, i)
    BY <1>1, <1>2 DEF nextPacket, Taken
  <1>3. CASE Control
    <2>1. UNCHANGED <<packetQueue, last>>
      BY <1>3 DEF Control, enable, disable, block, unblock, setMaxQueueDepth
    <2> QED BY <1>1, <2>1 DEF Quiet
  <1>4. CASE (\E s \in Streams : getPacket(s)) \/ read
    <2>1. read => reader.id \in Streams
      BY DEF read, readable, TypeOK, ReaderState
    <2>2. PICK s \in Streams : nextPacket(s)
      BY <1>4, <2>1 DEF getPacket, read
    <2> QED BY <1>2, <2>2
  <1>5. CASE (\E s \in Streams : eos(s)) \/ getCurrentStream \/ peekPacket
             \/ wait \/ getStream \/ readNothing
    <2>1. PICK p, i : goto(p, i)
      BY <1>5 DEF eos, getCurrentStream, peekPacket, wait, getStream, readNothing
    <2> QED BY <1>1, <2>1 DEF goto, port, Quiet
  <1>6. CASE handleEOS \/ turnOff \/ removeStream
    BY <1>1, <1>6 DEF handleEOS, turnOff, removeStream, Quiet
  <1>7. CASE discardPacketsForStream
    <2> DEFINE rest == DOMAIN packetQueue \ discarded(reader.id)
               at == [n \in 1 .. Cardinality(rest) |-> nth(rest, n)]
    <2>1. /\ packetQueue' = [n \in 1 .. Cardinality(rest) |-> packetQueue[nth(rest, n)]]
          /\ UNCHANGED last
          /\ reader.at = "disabling"
      BY <1>7 DEF discardPacketsForStream
    <2>2. rest \in SUBSET DOMAIN packetQueue /\ packetQueue \in Seq(Packet)
      BY DEF TypeOK
    <2>3. Thinned(packetQueue', packetQueue, at, at)
      BY <2>1, <2>2, RestrictionThins
    <2>4. "disable" \in Environment
      BY <2>1 DEF ThreadsInv, ReaderDiscards
    <2> HIDE DEF at
    <2> QED BY <1>1, <2>1, <2>3, <2>4 DEF Discarded
  <1> QED BY <1>3, <1>4, <1>5, <1>6, <1>7 DEF Reader

\* A packet joins what a push has left of the queue.
LEMMA EnqueueKind ==
    ASSUME TypeInv, NEW s \in Streams, Push(s) \/ Upstream(s), OrderInv,
           NEW q, NEW f, NEW g, NEW c \in BOOLEAN, NEW fl \in BOOLEAN,
           Thinned(q, packetQueue, f, g), keepsEnds(q, packetQueue, f),
           enqueue(s, q, c, fl), call[s].at \in {"looked", "woken", "full"}
    PROVE  \E p : Queued(s, p)
  <1> USE DEF TypeInv
  <1> DEFINE n == IF call[s].data THEN sent[s].data + 1 ELSE sent[s].data
             p == [streamID |-> s, instance |-> sent[s].instance,
                   buffer |-> IF call[s].data THEN <<sent[s].instance, n>> ELSE Empty,
                   EOS |-> call[s].EOS, SRI |-> call[s].SRI,
                   sriChanged |-> c, inputQueueFlushed |-> fl]
  <1>0. sent \in [Streams -> Sent] /\ call \in [Streams -> Call]
    BY DEF TypeOK
  <1>1. n \in Nat /\ sent[s].instance \in Nat
    BY <1>0 DEF Sent
  <1>2. p \in Packet
    BY <1>0, <1>1 DEF Packet, Call, Empty
  <1>3. packetQueue' = Append(q, p) /\ sent' = [sent EXCEPT ![s].data = n]
    BY DEF enqueue
  <1>4. /\ p.streamID = s /\ p.instance = sent[s].instance /\ p.EOS = call[s].EOS
        /\ p.buffer = IF call[s].data THEN <<sent[s].instance, n>> ELSE Empty
    OBVIOUS
  <1>5. sent'[s].instance = sent[s].instance /\ sent'[s].data = n
    BY <1>0, <1>3 DEF Sent
  <1>6. ~call[s].data => ~NoEmptyPackets
    BY DEF OrderInv, CallsCarryData
  <1>7. \/ sent'[s].data = sent[s].data + 1 /\ p.buffer = <<p.instance, sent'[s].data>>
        \/ sent'[s].data = sent[s].data /\ p.buffer = Empty /\ ~NoEmptyPackets
    BY <1>4, <1>5, <1>6
  <1> HIDE DEF p, n
  <1>8. call[s].at # "ended"
    OBVIOUS
  <1>9. call'[s].at = "ended" <=> p.EOS
    <2>1. \/ call[s].EOS /\ call'[s] = [call[s] EXCEPT !.at = "ended"]
          \/ ~call[s].EOS /\ call'[s] = NoCall
      BY EnqueueThreads
    <2>2. CASE call[s].EOS
      BY <1>0, <1>4, <2>1, <2>2 DEF Call
    <2>3. CASE ~call[s].EOS
      BY <1>0, <1>4, <2>1, <2>3 DEF NoCall
    <2> QED BY <2>2, <2>3
  <1>10. UNCHANGED last /\ \A t \in Streams \ {s} : sameSent(t) /\ sameEnd(t)
    BY UpstreamFrame DEF sameSent, sameEnd
  <1> QED BY <1>2, <1>3, <1>4, <1>5, <1>7, <1>8, <1>9, <1>10 DEF Queued

\* What upstream of s does to the queue.
LEMMA UpstreamKinds ==
    ASSUME TypeInv, NEW s \in Streams, Push(s) \/ Upstream(s), SamplesStay, OrderInv
    PROVE  Quiet \/ Renewed(s) \/ \E p : Queued(s, p)
  <1> USE DEF TypeInv
  <1>c. call \in [Streams -> Call]
    BY DEF TypeOK
  <1>s. sent \in [Streams -> Sent]
    BY DEF TypeOK
  <1>q. packetQueue \in Seq(Packet)
    BY DEF TypeOK
  <1>f. UNCHANGED last /\ \A t \in Streams \ {s} : sameSent(t) /\ sameEnd(t)
    BY UpstreamFrame DEF sameSent, sameEnd
  <1>n. NoCall.at = "idle"
    BY DEF NoCall
  <1>1. CASE \E H \in SRIs : pushSRI(s, H)
    <2>1. UNCHANGED packetQueue /\ sameSent(s) /\ sameEnd(s)
      BY <1>c, <1>s, <1>1 DEF pushSRI, counted, mayCall, sameSent, sameEnd, Call, Sent
    <2> QED BY <1>f, <2>1 DEF Quiet
  <1>2. CASE \E data, EOS \in BOOLEAN : pushPacket(s, data, EOS)
    <2>1. PICK data \in BOOLEAN, EOS \in BOOLEAN : pushPacket(s, data, EOS)
      BY <1>2
    <2>2. UNCHANGED packetQueue /\ sameEnd(s)
      BY <1>c, <2>1 DEF pushPacket, mayCall, sameEnd, Call
    <2> DEFINE dropped == acceptPacket(s) /\ (maxQueue = 0 \/ ~(data \/ EOS))
    <2>3. CASE EOS /\ dropped
      <3>1. sent' = [counted(s) EXCEPT ![s].instance = @ + 1, ![s].data = 0]
        BY <2>1, <2>3 DEF pushPacket
      <3>2. sent'[s].instance = sent[s].instance + 1 /\ sent'[s].data = 0
        BY <1>s, <3>1 DEF counted, Sent
      <3>3. ~NoDiscards
        BY <2>3 DEF NoDiscards, TypeOK
      <3> QED BY <1>f, <2>2, <3>2, <3>3 DEF Renewed
    <2>4. CASE ~(EOS /\ dropped)
      <3>1. sent' = [counted(s) EXCEPT ![s].instance = @, ![s].data = @]
        BY <2>1, <2>4 DEF pushPacket
      <3>2. sameSent(s)
        BY <1>s, <3>1 DEF counted, Sent, sameSent
      <3> QED BY <1>f, <2>2, <3>2 DEF Quiet
    <2> QED BY <2>3, <2>4
  <1>3. CASE pushSRIDecide(s) \/ createStream(s) \/ lookupSRI(s)
    <2>1. UNCHANGED packetQueue /\ sameSent(s)
      BY <1>3 DEF pushSRIDecide, createStream, lookupSRI, sameSent
    <2>2. call[s].at # "ended" /\ call'[s].at # "ended"
      BY <1>c, <1>n, <1>3 DEF pushSRIDecide, createStream, lookupSRI, Call
    <2> QED BY <1>f, <2>1, <2>2 DEF Quiet, sameEnd
  <1>4. CASE refusedEOS(s) \/ refusedOff(s)
    <2>1. UNCHANGED packetQueue
      BY <1>4 DEF refusedEOS, refusedOff, port
    <2>2. call[s].at \in {"refused", "off"} /\ call'[s].at # "ended"
      BY <1>c, <1>n, <1>4 DEF refusedEOS, refusedOff, Call
    <2>3. CASE UNCHANGED sent
      BY <1>f, <2>1, <2>2, <2>3 DEF Quiet, sameSent, sameEnd
    <2>4. CASE sent' = nextInstance(s)
      <3>1. sent'[s].instance = sent[s].instance + 1 /\ sent'[s].data = 0
        BY <1>s, <2>4 DEF nextInstance, Sent
      <3>2. ~NoDiscards
        BY <2>2 DEF OrderInv, AllEnabled
      <3> QED BY <1>f, <2>1, <3>1, <3>2 DEF Renewed
    <2> QED BY <1>4, <2>3, <2>4 DEF refusedEOS, refusedOff
  <1>5. CASE forgetSRI(s)
    <2>1. sent'[s].instance = sent[s].instance + 1 /\ sent'[s].data = 0
      BY <1>s, <1>5 DEF forgetSRI, nextInstance, Sent
    <2>2. call'[s] = NoCall
      BY <1>c, <1>5 DEF forgetSRI
    <2> QED BY <1>f, <1>n, <1>5, <2>1, <2>2 DEF forgetSRI, Renewed
  <1>6. CASE queuePacket(s) \/ woken(s)
    <2> DEFINE id == [i \in DOMAIN packetQueue |-> i]
    <2>1. Thinned(packetQueue, packetQueue, id, id) /\ keepsEnds(packetQueue, packetQueue, id)
      BY <1>q, NothingThinned
    <2> HIDE DEF id
    <2>2. CASE enqueue(s, packetQueue, call[s].sriChanged, FALSE)
      <3>1. call[s].at \in {"looked", "woken", "full"} /\ call[s].sriChanged \in BOOLEAN
        BY <1>c, <1>6 DEF queuePacket, woken, Call
      <3> QED BY <2>1, <2>2, <3>1, EnqueueKind
    <2>3. CASE ~enqueue(s, packetQueue, call[s].sriChanged, FALSE)
      <3>1. UNCHANGED packetQueue /\ sameSent(s)
        BY <1>6, <2>3 DEF queuePacket, woken, sameSent
      <3>2. call[s].at # "ended" /\ call'[s].at # "ended"
        BY <1>c, <1>6, <2>3 DEF queuePacket, woken, Call
      <3> QED BY <1>f, <3>1, <3>2 DEF Quiet, sameEnd
    <2> QED BY <2>2, <2>3
  <1>7. CASE flushAndQueue(s)
    <2> DEFINE q == flushQueue(packetQueue)
               f == keptAt(packetQueue)
    <2>1. PICK g : Thinned(q, packetQueue, f, g)
      BY <1>q, FlushThins, TakenStays
    <2>2. keepsEnds(q, packetQueue, f)
      BY <1>q, FlushThins, TakenStays
    <2>3. q \in Seq(Packet)
      BY <2>1 DEF Thinned
    <2>4. call[s].at \in {"looked", "woken", "full"} /\ call[s].sriChanged \in BOOLEAN
      BY <1>c, <1>7 DEF flushAndQueue, Call
    <2> HIDE DEF q, f
    <2>5. CASE enqueue(s, q, call[s].sriChanged, FALSE)
      BY <2>1, <2>2, <2>4, <2>5, EnqueueKind
    <2>6. ASSUME NEW i \in positions(q, s), ~q[i].EOS, replace(s, i, q)
          PROVE  \E p : Queued(s, p)
      <3> DEFINE r == RemoveAt(q, i)
                 h == others(q, i)
                 ff == [n \in DOMAIN r |-> f[h[n]]]
                 gg == [n \in DOMAIN r |-> g[h[n]]]
      <3>1. i \in DOMAIN q /\ q[i] \in Packet
        BY <2>3, QueuePositions DEF positions
      <3>2. /\ Thinned(r, q, h, h)
            /\ \A k \in DOMAIN q \ {i} : \E n \in DOMAIN r : h[n] = k
        BY <2>3, <3>1, RemoveAtThins
      <3> HIDE DEF r, h
      <3>3. Thinned(r, packetQueue, ff, gg)
        BY <1>q, <2>1, <3>2, ThinnedTwice
      <3>4. \A n \in DOMAIN r : ff[n] = f[h[n]]
        OBVIOUS
      <3> HIDE DEF ff, gg
      <3>5. keepsEnds(r, packetQueue, ff)
        <4> SUFFICES ASSUME NEW k \in DOMAIN packetQueue, packetQueue[k].EOS
                     PROVE  \E n \in DOMAIN r : ff[n] = k
          BY DEF keepsEnds
        <4>1. PICK m \in DOMAIN q : f[m] = k
          <5>1. /\ \A k1 \in kept(packetQueue) : \E m \in DOMAIN q : f[m] = k1
                /\ k \in kept(packetQueue)
            BY <1>q, FlushProperties DEF kept, q, f
          <5> QED BY <5>1
        <4>2. q[m].EOS
          BY <2>1, <4>1 DEF Thinned
        <4>3. PICK n \in DOMAIN r : h[n] = m
          BY <2>6, <3>2, <4>2
        <4> QED BY <3>4, <4>1, <4>3
      <3>6. enqueue(s, r, q[i].sriChanged, TRUE) /\ q[i].sriChanged \in BOOLEAN
        BY <2>6, <3>1 DEF replace, r, Packet
      <3> QED BY <2>4, <3>3, <3>5, <3>6, EnqueueKind
    <2> QED BY <1>7, <2>5, <2>6 DEF flushAndQueue, newest, q
  <1> QED BY <1>1, <1>2, <1>3, <1>4, <1>5, <1>6, <1>7 DEF Push, Upstream

-----------------------------------------------------------------------------
(* Packets in order.                                                       *)

\* What was pushed of an instance stays pushed as upstream goes on.
LEMMA StaysPushed ==
    ASSUME TypeOK, NEW s \in Streams, NEW p \in Packet, pushed(s, p),
           \/ sent'[s].instance = sent[s].instance + 1
           \/ /\ sent'[s].instance = sent[s].instance
              /\ sent'[s].data \in Nat /\ sent'[s].data >= sent[s].data
              /\ call[s].at = "ended" => call'[s].at = "ended"
    PROVE  /\ p.instance \in 1 .. sent'[s].instance
           /\ p.instance = sent'[s].instance =>
                 /\ p.buffer[2] <= sent'[s].data
                 /\ p.EOS => call'[s].at = "ended"
  <1>1. sent[s].instance \in Nat /\ sent[s].data \in Nat
    BY DEF TypeOK, Sent
  <1>2. p.instance \in Nat /\ p.buffer[2] \in Nat
    BY DEF Packet
  <1> QED BY <1>1, <1>2 DEF pushed

\* A packet of the current instance comes after all that was pushed.
LEMMA QueuedLast ==
    ASSUME TypeOK, NEW s \in Streams, NEW p, Queued(s, p),
           NEW r \in Packet, pushed(s, r)
    PROVE  before(r, p)
  <1>1. sent[s].instance \in Nat /\ sent[s].data \in Nat
    BY DEF TypeOK, Sent
  <1>2. r.instance \in Nat /\ r.buffer[2] \in Nat
    BY DEF Packet
  <1>3. /\ p.instance = sent[s].instance /\ call[s].at # "ended"
        /\ p.buffer = Empty \/ p.buffer[2] = sent[s].data + 1
    BY DEF Queued
  <1> QED BY <1>1, <1>2, <1>3 DEF pushed, before

\* The new packet itself.
LEMMA QueuedPushed ==
    ASSUME TypeOK, NEW s \in Streams, NEW p, Queued(s, p), sent[s].instance >= 1
    PROVE  /\ own(p)
           /\ p.instance \in 1 .. sent'[s].instance
           /\ p.instance = sent'[s].instance =>
                 /\ p.buffer[2] <= sent'[s].data
                 /\ p.EOS => call'[s].at = "ended"
           /\ NoEmptyPackets => p.buffer # Empty
           /\ sent'[s].data \in Nat /\ sent'[s].data >= sent[s].data
  <1>1. sent[s].instance \in Nat /\ sent[s].data \in Nat
    BY DEF TypeOK, Sent
  <1>2. p.instance = sent[s].instance /\ sent'[s].instance = sent[s].instance
    BY DEF Queued
  <1>3. p.EOS => call'[s].at = "ended"
    BY DEF Queued
  <1>4. CASE sent'[s].data = sent[s].data + 1 /\ p.buffer = <<p.instance, sent'[s].data>>
    BY <1>1, <1>2, <1>3, <1>4 DEF own, Empty
  <1>5. CASE sent'[s].data = sent[s].data /\ p.buffer = Empty /\ ~NoEmptyPackets
    BY <1>1, <1>2, <1>3, <1>5 DEF own, Empty
  <1> QED BY <1>4, <1>5 DEF Queued

\* What is in the queue, or has been read, stays as upstream goes on.
LEMMA PushedStays ==
    ASSUME TypeOK, NEW q \in Seq(Packet), allPushed(q),
           \A s \in Streams :
              \/ sent'[s].instance = sent[s].instance + 1
              \/ /\ sent'[s].instance = sent[s].instance
                 /\ sent'[s].data \in Nat /\ sent'[s].data >= sent[s].data
                 /\ call[s].at = "ended" => call'[s].at = "ended"
    PROVE  allPushed(q)'
  <1> SUFFICES ASSUME NEW i \in DOMAIN q
               PROVE  /\ own(q[i])
                      /\ q[i].instance \in 1 .. sent'[q[i].streamID].instance
                      /\ q[i].instance = sent'[q[i].streamID].instance =>
                            /\ q[i].buffer[2] <= sent'[q[i].streamID].data
                            /\ q[i].EOS => call'[q[i].streamID].at = "ended"
    BY DEF allPushed, pushed, own
  <1>1. q[i] \in Packet /\ q[i].streamID \in Streams
    BY QueuePositions DEF Packet
  <1>2. own(q[i]) /\ pushed(q[i].streamID, q[i])
    BY DEF allPushed
  <1> QED BY <1>1, <1>2, StaysPushed

\* The packets of a queue whose instances upstream had ended already.
LEMMA EndsStay ==
    ASSUME NEW q \in Seq(Packet), endFollows(q),
           \A i \in DOMAIN q : closed(q[i])' => closed(q[i])
    PROVE  endFollows(q)'
  BY DEF endFollows, endOf

\* A step that leaves the queue alone leaves it in order.
LEMMA QuietOrder ==
    ASSUME TypeOK, PacketsInv, Quiet
    PROVE  PacketsInv'
  <1>q. packetQueue \in Seq(Packet) /\ \A i \in DOMAIN packetQueue : packetQueue[i].streamID \in Streams
    <2>1. packetQueue \in Seq(Packet)
      BY DEF TypeOK
    <2> QED BY <2>1, QueuePositions DEF Packet
  <1>0. UNCHANGED <<packetQueue, last>> /\ \A s \in Streams : sameSent(s) /\ sameEnd(s)
    BY DEF Quiet
  <1>1. QueueOrder' /\ LastBefore' /\ (NoEmptyPackets => noneEmpty(packetQueue))'
    BY <1>0 DEF PacketsInv, QueueOrder, LastBefore, ordered, ahead, noneEmpty
  <1>2. \A s \in Streams :
            /\ sent'[s].instance = sent[s].instance
            /\ sent'[s].data \in Nat /\ sent'[s].data >= sent[s].data
            /\ call[s].at = "ended" => call'[s].at = "ended"
    BY <1>0 DEF sameSent, sameEnd, TypeOK, Sent
  <1>3. Pushed'
    <2>1. allPushed(packetQueue)'
      BY <1>q, <1>0, <1>2, PushedStays DEF PacketsInv, Pushed
    <2>2. \A s \in Streams : last[s] # NoPacket => pushed(s, last[s])'
      <3>1. \A s \in Streams : last[s] # NoPacket => last[s] \in Packet /\ pushed(s, last[s])
        BY DEF TypeOK, PacketsInv, Pushed
      <3> QED BY <1>0, <1>2, <3>1, StaysPushed DEF pushed
    <2> QED BY <1>0, <1>2, <2>1, <2>2 DEF PacketsInv, Pushed
  <1>4. EndFollows'
    <2>1. \A i \in DOMAIN packetQueue : closed(packetQueue[i])' => closed(packetQueue[i])
      BY <1>q, <1>0 DEF closed, sameSent, sameEnd
    <2> QED BY <1>q, <1>0, <2>1, EndsStay DEF PacketsInv, EndFollows
  <1> QED BY <1>1, <1>3, <1>4 DEF PacketsInv

\* So does one that ends an instance.
LEMMA RenewedOrder ==
    ASSUME TypeOK, PacketsInv, NEW s \in Streams, Renewed(s)
    PROVE  PacketsInv'
  <1>q. packetQueue \in Seq(Packet) /\ \A i \in DOMAIN packetQueue : packetQueue[i].streamID \in Streams
    <2>1. packetQueue \in Seq(Packet)
      BY DEF TypeOK
    <2> QED BY <2>1, QueuePositions DEF Packet
  <1>0. /\ UNCHANGED <<packetQueue, last>>
        /\ sent'[s].instance = sent[s].instance + 1
        /\ \A t \in Streams \ {s} : sameSent(t) /\ sameEnd(t)
    BY DEF Renewed
  <1>1. QueueOrder' /\ LastBefore' /\ (NoEmptyPackets => noneEmpty(packetQueue))'
    BY <1>0 DEF PacketsInv, QueueOrder, LastBefore, ordered, ahead, noneEmpty
  <1>2. \A t \in Streams :
            \/ sent'[t].instance = sent[t].instance + 1
            \/ /\ sent'[t].instance = sent[t].instance
               /\ sent'[t].data \in Nat /\ sent'[t].data >= sent[t].data
               /\ call[t].at = "ended" => call'[t].at = "ended"
    BY <1>0 DEF sameSent, sameEnd, TypeOK, Sent
  <1>3. Pushed'
    <2>1. allPushed(packetQueue)'
      BY <1>q, <1>0, <1>2, PushedStays DEF PacketsInv, Pushed
    <2>2. \A t \in Streams : last[t] # NoPacket => pushed(t, last[t])'
      <3>1. \A t \in Streams : last[t] # NoPacket => last[t] \in Packet /\ pushed(t, last[t])
        BY DEF TypeOK, PacketsInv, Pushed
      <3> QED BY <1>0, <1>2, <3>1, StaysPushed DEF pushed
    <2>3. \A t \in Streams : sent'[t].instance >= 1
      <3>1. \A t \in Streams : sent[t].instance \in Nat /\ sent[t].instance >= 1
        BY DEF TypeOK, Sent, PacketsInv, Pushed
      <3> QED BY <1>2, <3>1
    <2> QED BY <1>0, <2>1, <2>2, <2>3 DEF Pushed
  <1>4. EndFollows'
    <2> SUFFICES ASSUME NoDiscards PROVE endFollows(packetQueue)'
      BY DEF EndFollows, NoDiscards
    <2>1. call[s].at = "ended"
      BY DEF Renewed
    <2>2. \A i \in DOMAIN packetQueue : closed(packetQueue[i])' => closed(packetQueue[i])
      BY <1>q, <1>0, <2>1 DEF closed, sameSent, sameEnd
    <2> QED BY <1>q, <1>0, <2>2, EndsStay DEF PacketsInv, EndFollows
  <1> QED BY <1>1, <1>3, <1>4 DEF PacketsInv

\* A packet that joins the queue joins it at its place.
LEMMA QueuedOrder ==
    ASSUME TypeOK, PacketsInv, NEW s \in Streams, NEW p, Queued(s, p)
    PROVE  PacketsInv'
  <1>o. packetQueue \in Seq(Packet)
    BY DEF TypeOK
  <1>p. /\ p \in Packet /\ p.streamID = s /\ p.instance = sent[s].instance
        /\ sent'[s].instance = sent[s].instance /\ UNCHANGED last
        /\ call[s].at # "ended" /\ (call'[s].at = "ended" <=> p.EOS)
        /\ \A t \in Streams \ {s} : sameSent(t) /\ sameEnd(t)
    BY DEF Queued
  <1>q. PICK q, f, g : /\ Thinned(q, packetQueue, f, g)
                      /\ keepsEnds(q, packetQueue, f)
                      /\ packetQueue' = Append(q, p)
    BY DEF Queued
  <1>1. /\ q \in Seq(Packet) /\ Len(q) \in Nat /\ DOMAIN q = 1 .. Len(q)
        /\ \A i \in DOMAIN q : i \in Nat /\ q[i] \in Packet /\ q[i].streamID \in Streams
    <2>1. q \in Seq(Packet)
      BY <1>q DEF Thinned
    <2> QED BY <2>1, QueuePositions DEF Packet
  <1>2. /\ DOMAIN packetQueue' = 1 .. Len(q) + 1
        /\ \A i \in 1 .. Len(q) : packetQueue'[i] = q[i]
        /\ packetQueue'[Len(q) + 1] = p
    BY <1>p, <1>q, <1>1
  <1>3. /\ ordered(q) /\ allPushed(q)
        /\ NoEmptyPackets => noneEmpty(q)
        /\ \A t \in Streams : last[t] # NoPacket => ahead(last[t], t, q)
        /\ NoDiscards => endFollows(q)
    BY <1>o, <1>q, ThinnedOrder, ThinnedEnds
       DEF keepsEnds, keepsFollowing, PacketsInv, QueueOrder, Pushed, LastBefore, EndFollows
  <1>4. \A i \in DOMAIN q : pushed(q[i].streamID, q[i])
    BY <1>3 DEF allPushed
  <1>5. QueueOrder'
    <2> SUFFICES ASSUME NEW i \in 1 .. Len(q) + 1, NEW j \in 1 .. Len(q) + 1, i < j,
                        packetQueue'[i].streamID = packetQueue'[j].streamID
                 PROVE  before(packetQueue'[i], packetQueue'[j])
      BY <1>2 DEF QueueOrder, ordered, before
    <2>1. i \in DOMAIN q /\ packetQueue'[i] = q[i]
      BY <1>1, <1>2
    <2>2. CASE j \in 1 .. Len(q)
      BY <1>1, <1>2, <1>3, <2>1, <2>2 DEF ordered
    <2>3. CASE j = Len(q) + 1
      <3>1. q[i] \in Packet /\ pushed(s, q[i])
        BY <1>1, <1>2, <1>4, <1>p, <2>1, <2>3
      <3> QED BY <1>2, <2>1, <2>3, <3>1, QueuedLast
    <2> QED BY <1>1, <2>2, <2>3
  <1>6. LastBefore'
    <2> SUFFICES ASSUME NEW t \in Streams, last[t] # NoPacket,
                        NEW i \in 1 .. Len(q) + 1, packetQueue'[i].streamID = t
                 PROVE  before(last[t], packetQueue'[i])
      BY <1>2, <1>p DEF LastBefore, ahead, before
    <2>1. CASE i \in 1 .. Len(q)
      BY <1>1, <1>2, <1>3, <2>1 DEF ahead
    <2>2. CASE i = Len(q) + 1
      <3>1. last[s] \in Packet /\ pushed(s, last[s]) /\ t = s
        BY <1>2, <1>p, <2>2 DEF TypeOK, PacketsInv, Pushed
      <3> QED BY <1>2, <2>2, <3>1, QueuedLast
    <2> QED BY <1>1, <2>1, <2>2
  <1>7. /\ own(p)
        /\ p.instance \in 1 .. sent'[s].instance
        /\ p.instance = sent'[s].instance =>
              /\ p.buffer[2] <= sent'[s].data
              /\ p.EOS => call'[s].at = "ended"
        /\ NoEmptyPackets => p.buffer # Empty
        /\ sent'[s].data \in Nat /\ sent'[s].data >= sent[s].data
    BY QueuedPushed DEF PacketsInv, Pushed
  <1>8. \A t \in Streams :
            /\ sent'[t].instance = sent[t].instance
            /\ sent'[t].data \in Nat /\ sent'[t].data >= sent[t].data
            /\ call[t].at = "ended" => call'[t].at = "ended"
    BY <1>p, <1>7 DEF sameSent, sameEnd, TypeOK, Sent
  <1>9. Pushed'
    <2>1. allPushed(q)'
      BY <1>1, <1>3, <1>8, PushedStays
    <2>2. allPushed(packetQueue)'
      <3> SUFFICES ASSUME NEW i \in 1 .. Len(q) + 1
                   PROVE  /\ own(packetQueue'[i])
                          /\ pushed(packetQueue[i].streamID, packetQueue[i])'
        BY <1>2 DEF allPushed, own
      <3>1. CASE i \in 1 .. Len(q)
        BY <1>1, <1>2, <2>1, <3>1 DEF allPushed, pushed, own
      <3>2. CASE i = Len(q) + 1
        BY <1>2, <1>7, <1>p, <3>2 DEF pushed
      <3> QED BY <1>1, <3>1, <3>2
    <2>3. \A t \in Streams : last[t] # NoPacket => pushed(t, last[t])'
      <3>1. \A t \in Streams : last[t] # NoPacket => last[t] \in Packet /\ pushed(t, last[t])
        BY DEF TypeOK, PacketsInv, Pushed
      <3> QED BY <1>p, <1>8, <3>1, StaysPushed DEF pushed
    <2> QED BY <1>8, <1>p, <2>2, <2>3 DEF PacketsInv, Pushed
  <1>10. EndFollows'
    <2> SUFFICES ASSUME NoDiscards, NEW i \in 1 .. Len(q) + 1, closed(packetQueue[i])'
                 PROVE  endOf(packetQueue[i], i, packetQueue)'
      BY <1>2 DEF EndFollows, endFollows, NoDiscards
    <2>1. p.EOS => Len(q) + 1 \in DOMAIN packetQueue' /\ packetQueue'[Len(q) + 1].EOS
      BY <1>1, <1>2
    <2>2. CASE i = Len(q) + 1
      <3>1. p.EOS
        <4>1. sent[s].instance \in Nat
          BY DEF TypeOK, Sent
        <4> QED BY <1>2, <1>p, <2>2, <4>1 DEF closed
      <3> QED BY <1>1, <1>2, <2>1, <2>2, <3>1 DEF endOf
    <2>3. CASE i \in 1 .. Len(q)
      <3>1. i \in DOMAIN q /\ packetQueue'[i] = q[i] /\ q[i].streamID \in Streams
        BY <1>1, <1>2, <2>3
      <3>2. CASE closed(q[i])
        <4>1. PICK k \in DOMAIN q : /\ i <= k
                                    /\ q[k].streamID = q[i].streamID
                                    /\ q[k].instance = q[i].instance
                                    /\ q[k].EOS
          BY <1>3, <3>1, <3>2 DEF endFollows, endOf
        <4>2. k \in DOMAIN packetQueue' /\ packetQueue'[k] = q[k]
          BY <1>1, <1>2
        <4> QED BY <3>1, <4>1, <4>2 DEF endOf
      <3>3. CASE ~closed(q[i])
        <4>1. q[i].streamID = s /\ call'[s].at = "ended"
          BY <1>8, <1>p, <3>1, <3>3 DEF closed, sameSent, sameEnd
        <4>2. q[i].instance = p.instance
          <5>1. q[i].instance \in Nat /\ sent[s].instance \in Nat
            BY <1>1, <3>1 DEF TypeOK, Sent, Packet
          <5>2. q[i].instance <= sent[s].instance
            BY <1>4, <3>1, <4>1, <5>1 DEF pushed
          <5> QED BY <1>p, <3>3, <4>1, <5>1, <5>2 DEF closed
        <4> QED BY <1>1, <1>2, <1>p, <2>1, <3>1, <4>1, <4>2 DEF endOf
      <3> QED BY <3>2, <3>3
    <2> QED BY <1>1, <2>2, <2>3
  <1>11. (NoEmptyPackets => noneEmpty(packetQueue))'
    <2> SUFFICES ASSUME NoEmptyPackets, NEW i \in 1 .. Len(q) + 1
                 PROVE  packetQueue'[i].buffer # Empty
      BY <1>2 DEF noneEmpty, NoEmptyPackets, Empty
    <2> QED BY <1>1, <1>2, <1>3, <1>7 DEF noneEmpty
  <1> QED BY <1>5, <1>6, <1>9, <1>10, <1>11 DEF PacketsInv

\* The packet read is the first one pushed of those in the queue.
LEMMA TakenOrder ==
    ASSUME TypeOK, PacketsInv, NEW s \in Streams, NEW i, Taken(s, i)
    PROVE  /\ PacketsInv'
           /\ packetQueue[i] \in Packet /\ packetQueue[i].streamID = s
           /\ last[s] # NoPacket => before(last[s], packetQueue[i])
  <1>e. PICK q, r : q = packetQueue /\ r = RemoveAt(q, i)
    OBVIOUS
  <1> DEFINE f == others(q, i)
  <1>q. q \in Seq(Packet)
    BY <1>e DEF TypeOK
  <1>0. /\ i \in DOMAIN q /\ q[i].streamID = s
        /\ \A k \in DOMAIN q : q[k].streamID = s => i <= k
    BY <1>e DEF Taken, fetchPacket, first, positions
  <1>1. q[i] \in Packet /\ \A k \in DOMAIN q : k \in Nat
    BY <1>q, <1>0, QueuePositions
  <1>2. /\ Thinned(r, q, f, f)
        /\ \A n \in DOMAIN r : r[n] = q[f[n]] /\ f[n] # i
        /\ \A k \in DOMAIN q \ {i} : \E n \in DOMAIN r : f[n] = k
    <2>0. i \in DOMAIN q
      BY <1>0
    <2>1. Thinned(RemoveAt(q, i), q, f, f)
      BY <1>q, <2>0, RemoveAtThins
    <2>2. \A n \in DOMAIN RemoveAt(q, i) : RemoveAt(q, i)[n] = q[f[n]]
      BY <1>q, <2>0, RemoveAtThins
    <2>3. \A k \in DOMAIN q \ {i} : \E n \in DOMAIN RemoveAt(q, i) : f[n] = k
      BY <1>q, <2>0, RemoveAtThins
    <2>4. \A n \in DOMAIN RemoveAt(q, i) : f[n] # i
      BY <1>q, <2>0, RemoveAtThins
    <2> HIDE DEF f
    <2> QED BY <1>e, <2>1, <2>2, <2>3, <2>4
  <1> HIDE DEF f
  <1>3. r \in Seq(Packet) /\ f \in [DOMAIN r -> DOMAIN q]
    BY <1>2 DEF Thinned
  <1>4. packetQueue' = r /\ last' = [last EXCEPT ![s] = q[i]]
    BY <1>e DEF Taken
  <1>5. \A n \in DOMAIN r : r[n].streamID = s => i < f[n]
    BY <1>0, <1>1, <1>2, <1>3
  <1>6. keepsFollowing(r, q, f)
    BY <1>0, <1>2, <1>5 DEF keepsFollowing
  <1>7. /\ ordered(r) /\ allPushed(r)
        /\ NoEmptyPackets => noneEmpty(r)
        /\ \A t \in Streams : last[t] # NoPacket => ahead(last[t], t, r)
        /\ NoDiscards => endFollows(r)
    BY <1>e, <1>q, <1>2, <1>6, ThinnedOrder, ThinnedEnds
       DEF PacketsInv, QueueOrder, Pushed, LastBefore, EndFollows
  <1>8. \A t \in Streams : sameSent(t) /\ sameEnd(t)
    BY DEF Taken
  <1>9. \A t \in Streams :
            /\ sent'[t].instance = sent[t].instance
            /\ sent'[t].data \in Nat /\ sent'[t].data >= sent[t].data
            /\ call[t].at = "ended" => call'[t].at = "ended"
    BY <1>8 DEF sameSent, sameEnd, TypeOK, Sent
  <1>l. last \in [Streams -> Packet \cup {NoPacket}]
    BY DEF TypeOK
  <1>10. QueueOrder' /\ (NoEmptyPackets => noneEmpty(packetQueue))'
    BY <1>4, <1>7 DEF QueueOrder, ordered, before, noneEmpty, NoEmptyPackets, Empty
  <1>11. LastBefore'
    <2> SUFFICES ASSUME NEW t \in Streams, last'[t] # NoPacket, NEW n \in DOMAIN r,
                        r[n].streamID = t
                 PROVE  before(last'[t], r[n])
      BY <1>4 DEF LastBefore, ahead, before
    <2>1. CASE t = s
      <3>1. last'[t] = q[i] /\ f[n] \in DOMAIN q /\ i < f[n] /\ r[n] = q[f[n]]
        BY <1>2, <1>3, <1>4, <1>5, <1>l, <2>1
      <3>2. before(q[i], q[f[n]])
        BY <1>e, <1>0, <2>1, <3>1 DEF PacketsInv, QueueOrder, ordered
      <3> QED BY <3>1, <3>2
    <2>2. CASE t # s
      <3>1. last'[t] = last[t]
        BY <1>4, <1>l, <2>2
      <3>2. before(last[t], r[n])
        BY <1>7, <3>1 DEF ahead
      <3> QED BY <3>1, <3>2
    <2> QED BY <2>1, <2>2
  <1>12. pushed(s, q[i])
    BY <1>e, <1>0 DEF PacketsInv, Pushed, allPushed
  <1>13. Pushed'
    <2>1. allPushed(r)'
      BY <1>3, <1>7, <1>9, PushedStays
    <2>2. \A t \in Streams : last'[t] # NoPacket => pushed(t, last[t])'
      <3>1. \A t \in Streams : last'[t] # NoPacket => last'[t] \in Packet /\ pushed(t, last'[t])
        <4> SUFFICES ASSUME NEW t \in Streams, last'[t] # NoPacket
                     PROVE  last'[t] \in Packet /\ pushed(t, last'[t])
          OBVIOUS
        <4>1. CASE t = s
          BY <1>1, <1>4, <1>l, <1>12, <4>1
        <4>2. CASE t # s
          BY <1>4, <1>l, <4>2 DEF PacketsInv, Pushed
        <4> QED BY <4>1, <4>2
      <3> QED BY <1>9, <3>1, StaysPushed DEF pushed
    <2>3. allPushed(packetQueue)'
      BY <1>4, <2>1 DEF allPushed, pushed, own
    <2> QED BY <1>9, <2>2, <2>3 DEF PacketsInv, Pushed
  <1>14. EndFollows'
    <2> SUFFICES ASSUME NoDiscards PROVE endFollows(packetQueue)'
      BY DEF EndFollows, NoDiscards
    <2>1. \A n \in DOMAIN r : r[n].streamID \in Streams
      BY <1>3, QueuePositions DEF Packet
    <2>2. \A n \in DOMAIN r : closed(r[n])' => closed(r[n])
      BY <1>8, <2>1 DEF closed, sameSent, sameEnd
    <2>3. endFollows(r)'
      BY <1>3, <1>7, <2>2, EndsStay
    <2> QED BY <1>4, <2>3 DEF endFollows, endOf, closed
  <1>15. last[s] # NoPacket => before(last[s], q[i])
    BY <1>e, <1>0 DEF PacketsInv, LastBefore, ahead
  <1> QED BY <1>e, <1>0, <1>1, <1>10, <1>11, <1>13, <1>14, <1>15 DEF PacketsInv

\* Discarding packets leaves the others in order.
LEMMA DiscardedOrder ==
    ASSUME TypeOK, PacketsInv, Discarded
    PROVE  PacketsInv'
  <1>q. packetQueue \in Seq(Packet)
    BY DEF TypeOK
  <1>1. PICK f : Thinned(packetQueue', packetQueue, f, f)
    BY DEF Discarded
  <1>2. packetQueue' \in Seq(Packet)
    BY <1>1 DEF Thinned
  <1>3. /\ ordered(packetQueue') /\ allPushed(packetQueue')
        /\ NoEmptyPackets => noneEmpty(packetQueue')
        /\ \A t \in Streams : last[t] # NoPacket => ahead(last[t], t, packetQueue')
    BY <1>q, <1>1, ThinnedOrder DEF PacketsInv, QueueOrder, Pushed, LastBefore
  <1>4. UNCHANGED last /\ \A s \in Streams : sameSent(s) /\ sameEnd(s)
    BY DEF Discarded
  <1>5. \A t \in Streams :
            /\ sent'[t].instance = sent[t].instance
            /\ sent'[t].data \in Nat /\ sent'[t].data >= sent[t].data
            /\ call[t].at = "ended" => call'[t].at = "ended"
    BY <1>4 DEF sameSent, sameEnd, TypeOK, Sent
  <1>6. QueueOrder' /\ LastBefore' /\ (NoEmptyPackets => noneEmpty(packetQueue))'
    BY <1>3, <1>4
       DEF QueueOrder, LastBefore, ordered, ahead, before, noneEmpty, NoEmptyPackets, Empty
  <1>7. Pushed'
    <2> DEFINE r == packetQueue'
    <2>1. allPushed(packetQueue)'
      <3> SUFFICES ASSUME NEW i \in DOMAIN r
                   PROVE  /\ own(r[i])
                          /\ r[i].instance \in 1 .. sent'[r[i].streamID].instance
                          /\ r[i].instance = sent'[r[i].streamID].instance =>
                                /\ r[i].buffer[2] <= sent'[r[i].streamID].data
                                /\ r[i].EOS => call'[r[i].streamID].at = "ended"
        BY DEF allPushed, pushed, own
      <3>1. r[i] \in Packet /\ r[i].streamID \in Streams
        BY <1>2, QueuePositions DEF Packet
      <3>2. own(r[i]) /\ pushed(r[i].streamID, r[i])
        BY <1>3 DEF allPushed
      <3> QED BY <1>5, <3>1, <3>2, StaysPushed
    <2>2. \A t \in Streams : last[t] # NoPacket => pushed(t, last[t])'
      <3>1. \A t \in Streams : last[t] # NoPacket => last[t] \in Packet /\ pushed(t, last[t])
        BY DEF TypeOK, PacketsInv, Pushed
      <3> QED BY <1>4, <1>5, <3>1, StaysPushed DEF pushed
    <2> QED BY <1>4, <1>5, <2>1, <2>2 DEF PacketsInv, Pushed
  <1>8. EndFollows'
    BY DEF Discarded, NoDiscards, EndFollows
  <1> QED BY <1>6, <1>7, <1>8 DEF PacketsInv

\* No empty packets: a call that has passed the checks carries samples.
LEMMA CarriesStep ==
    ASSUME TypeInv, CallsCarryData, [Next]_vars
    PROVE  CallsCarryData'
  <1> USE DEF TypeInv
  <1> SUFFICES ASSUME NoEmptyPackets, NEW t \in Streams,
                      call'[t].at \in {"accepted", "new", "looked", "waiting", "woken", "full"}
               PROVE  call'[t].data
    BY DEF CallsCarryData, NoEmptyPackets
  <1>c. call \in [Streams -> Call]
    BY DEF TypeOK
  <1>0. call[t].at \in {"accepted", "new", "looked", "waiting", "woken", "full"} => call[t].data
    BY DEF CallsCarryData
  <1>n. NoCall.at = "idle"
    BY DEF NoCall
  <1>1. CASE UNCHANGED vars
    BY <1>0, <1>1 DEF vars
  <1>2. CASE Reader \/ Control
    BY <1>c, <1>0, <1>2, ComponentFrame DEF Call
  <1>3. ASSUME NEW s \in Streams, Push(s) \/ Upstream(s), s # t PROVE call'[t].data
    BY <1>0, <1>3, UpstreamFrame
  <1>4. CASE Push(t) \/ Upstream(t)
    <2>1. CASE \E H \in SRIs : pushSRI(t, H)
      <3>1. PICK H \in SRIs : pushSRI(t, H)
        BY <2>1
      <3>2. \/ call' = [call EXCEPT ![t].at = "create"]
            \/ call' = [call EXCEPT ![t] = [call[t] EXCEPT !.at = "count", !.SRI = H,
                                                         !.eosCount = eosCount(t)]]
        BY <3>1 DEF pushSRI
      <3>3. call'[t].at \in {"create", "count"}
        BY <1>c, <3>2 DEF Call
      <3> QED BY <3>3
    <2>2. CASE \E data, EOS \in BOOLEAN : pushPacket(t, data, EOS)
      <3>1. PICK data \in BOOLEAN, EOS \in BOOLEAN : pushPacket(t, data, EOS)
        BY <2>2
      <3>2. data
        BY <3>1 DEF pushPacket, NoEmptyPackets
      <3>3. call'[t].at = "accepted" => call'[t].data
        BY <1>c, <3>1, <3>2 DEF pushPacket, Call
      <3>4. call'[t].at \in {"idle", "refused", "accepted"}
        BY <1>c, <3>1 DEF pushPacket, Call
      <3> QED BY <3>3, <3>4
    <2>3. CASE pushSRIDecide(t) \/ refusedEOS(t) \/ refusedOff(t) \/ forgetSRI(t)
      BY <1>c, <1>n, <2>3 DEF pushSRIDecide, refusedEOS, refusedOff, forgetSRI, Call
    <2>4. CASE createStream(t) \/ lookupSRI(t)
      BY <1>c, <1>n, <1>0, <2>4 DEF createStream, lookupSRI, Call
    <2>5. ASSUME NEW q, NEW c, NEW f, enqueue(t, q, c, f) PROVE call'[t].data
      BY <1>c, <1>n, <2>5, EnqueueThreads DEF Call
    <2>6. CASE queuePacket(t) \/ woken(t)
      <3>1. CASE enqueue(t, packetQueue, call[t].sriChanged, FALSE)
        BY <2>5, <3>1
      <3>2. CASE ~enqueue(t, packetQueue, call[t].sriChanged, FALSE)
        BY <1>c, <1>0, <2>6, <3>2 DEF queuePacket, woken, Call
      <3> QED BY <3>1, <3>2
    <2>7. CASE flushAndQueue(t)
      BY <2>5, <2>7 DEF flushAndQueue, replace
    <2> QED BY <1>4, <2>1, <2>2, <2>3, <2>4, <2>6, <2>7 DEF Push, Upstream
  <1> QED BY <1>1, <1>2, <1>3, <1>4 DEF Next

\* Streams are enabled if the component never disables one.
LEMMA EnabledStep ==
    ASSUME TypeInv, AllEnabled, [Next]_vars
    PROVE  AllEnabled'
  <1> USE DEF TypeInv
  <1> SUFFICES ASSUME NoDiscards
               PROVE  /\ \A s \in Streams :
                            /\ streams'[s] # NoStream => streams'[s].enabled
                            /\ \A n \in DOMAIN pendingStreams'[s] : pendingStreams'[s][n].enabled
                            /\ call'[s].at \notin {"refused", "off"}
                      /\ reader'.at # "disabling"
    BY DEF AllEnabled, NoDiscards
  <1>c. call \in [Streams -> Call]
    BY DEF TypeOK
  <1>t. streams \in [Streams -> Stream \cup {NoStream}]
    BY DEF TypeOK
  <1>p. pendingStreams \in [Streams -> Seq(Stream)]
    BY DEF TypeOK
  <1>n. NoCall.at = "idle"
    BY DEF NoCall
  <1>0. \A s \in Streams :
            /\ streams[s] # NoStream => streams[s].enabled
            /\ \A n \in DOMAIN pendingStreams[s] : pendingStreams[s][n].enabled
            /\ call[s].at \notin {"refused", "off"}
    BY DEF AllEnabled
  <1>d. reader'.at # "disabling"
    <2>1. TypeInv'
      BY TypeInvStep
    <2> QED BY <2>1 DEF ThreadsInv, ReaderDiscards, NoDiscards
  <1>1. CASE UNCHANGED vars
    BY <1>0, <1>1, <1>d DEF vars
  <1>2. CASE Reader \/ Control
    <2>1. \A s \in Streams : call'[s].at \notin {"refused", "off"}
      BY <1>c, <1>0, <1>2, ComponentFrame DEF Call
    <2>2. ASSUME UNCHANGED pendingStreams,
                 UNCHANGED streams \/ \E s \in Streams :
                    /\ streams[s] # NoStream
                    /\ streams' = [streams EXCEPT ![s].eos = "REACHED"]
          PROVE  \A s \in Streams :
                   /\ streams'[s] # NoStream => streams'[s].enabled
                   /\ \A n \in DOMAIN pendingStreams'[s] : pendingStreams'[s][n].enabled
      <3>1. CASE UNCHANGED streams
        BY <1>0, <2>2, <3>1
      <3>2. ASSUME NEW u \in Streams, streams[u] # NoStream,
                   streams' = [streams EXCEPT ![u].eos = "REACHED"],
                   NEW s \in Streams, streams'[s] # NoStream
            PROVE  streams'[s].enabled
        <4>1. CASE s # u
          BY <1>0, <1>t, <3>2, <4>1
        <4>2. CASE s = u
          <5>1. streams[u] \in Stream /\ streams[u].enabled
            BY <1>0, <1>t, <3>2
          <5> QED BY <1>t, <3>2, <4>2, <5>1 DEF Stream
        <4> QED BY <4>1, <4>2
      <3> QED BY <1>0, <2>2, <3>1, <3>2
    <2>3. CASE handleEOS \/ turnOff
      <3>1. UNCHANGED streams \/ finished(reader.id)
        BY <2>3 DEF handleEOS, turnOff
      <3>2. /\ UNCHANGED pendingStreams
            /\ reader.id \in Streams
            /\ "streams" \in Environment => streams[reader.id] # NoStream
        BY <2>3 DEF handleEOS, turnOff, ThreadsInv, ReaderKnows, ReaderHolds
      <3>3. \/ UNCHANGED streams
            \/ "streams" \in Environment
               /\ streams' = [streams EXCEPT ![reader.id].eos = "REACHED"]
        BY <3>1 DEF finished
      <3> QED BY <1>d, <2>1, <2>2, <3>2, <3>3
    <2>4. CASE removeStream
      <3>1. reader.id \in Streams
        BY <2>4 DEF removeStream, ThreadsInv, ReaderKnows
      <3>2. CASE pendingStreams[reader.id] = <<>>
        <4>1. streams' = [streams EXCEPT ![reader.id] = NoStream] /\ UNCHANGED pendingStreams
          BY <2>4, <3>2 DEF removeStream
        <4> QED BY <1>0, <1>d, <1>t, <2>1, <4>1
      <3>3. CASE pendingStreams[reader.id] # <<>>
        <4> DEFINE P == pendingStreams[reader.id]
        <4>1. /\ streams' = [streams EXCEPT ![reader.id] = Head(P)]
              /\ pendingStreams' = [pendingStreams EXCEPT ![reader.id] = Tail(P)]
          BY <2>4, <3>3 DEF removeStream
        <4>2. P \in Seq(Stream) /\ P # <<>> /\ \A n \in DOMAIN P : P[n].enabled
          BY <1>0, <1>p, <3>1, <3>3
        <4> HIDE DEF P
        <4>3. Head(P).enabled /\ \A n \in DOMAIN Tail(P) : Tail(P)[n].enabled
          BY <4>2
        <4> QED BY <1>0, <1>d, <1>t, <1>p, <2>1, <4>1, <4>3
      <3> QED BY <3>2, <3>3
    <2>5. CASE Reader /\ ~(handleEOS \/ turnOff \/ removeStream)
      <3>1. UNCHANGED <<streams, pendingStreams>>
        BY <2>5 DEF Reader, getPacket, read, nextPacket, eos, getCurrentStream, peekPacket,
                    wait, getStream, readNothing, discardPacketsForStream, goto, port
      <3> QED BY <1>0, <1>d, <2>1, <3>1
    <2>6. CASE Control
      <3>1. UNCHANGED <<streams, pendingStreams>>
        BY <2>6 DEF Control, enable, disable, block, unblock, setMaxQueueDepth, NoDiscards
      <3> QED BY <1>0, <1>d, <2>1, <3>1
    <2> QED BY <1>2, <1>d, <2>3, <2>4, <2>5, <2>6
  <1>3. ASSUME NEW s \in Streams, Push(s) \/ Upstream(s)
        PROVE  \A u \in Streams :
                   /\ streams'[u] # NoStream => streams'[u].enabled
                   /\ \A n \in DOMAIN pendingStreams'[u] : pendingStreams'[u][n].enabled
                   /\ call'[u].at \notin {"refused", "off"}
    <2> SUFFICES /\ streams'[s] # NoStream => streams'[s].enabled
                 /\ \A n \in DOMAIN pendingStreams'[s] : pendingStreams'[s][n].enabled
                 /\ call'[s].at \notin {"refused", "off"}
      BY <1>0, <1>3, UpstreamFrame
    <2>1. CASE \E H \in SRIs : pushSRI(s, H)
      <3>1. PICK H \in SRIs : pushSRI(s, H)
        BY <2>1
      <3>2. UNCHANGED <<streams, pendingStreams>>
        BY <3>1 DEF pushSRI
      <3>3. \/ call' = [call EXCEPT ![s].at = "create"]
            \/ call' = [call EXCEPT ![s] = [call[s] EXCEPT !.at = "count", !.SRI = H,
                                                         !.eosCount = eosCount(s)]]
        BY <3>1 DEF pushSRI
      <3>4. call'[s].at \in {"create", "count"}
        BY <1>c, <3>3 DEF Call
      <3> QED BY <1>0, <3>2, <3>4
    <2>2. CASE \E data, EOS \in BOOLEAN : pushPacket(s, data, EOS)
      <3>1. acceptPacket(s)
        BY <1>0 DEF acceptPacket
      <3>2. UNCHANGED <<streams, pendingStreams>> /\ call'[s].at \in {"idle", "accepted"}
        BY <1>c, <2>2, <3>1 DEF pushPacket, Call
      <3> QED BY <1>0, <3>2
    <2>3. CASE createStream(s)
      <3>1. NewStream(s).enabled
        BY DEF NewStream
      <3>2. call'[s].at \in {"looked", "idle"}
        BY <1>c, <1>n, <2>3 DEF createStream, Call
      <3>3. CASE streams[s] = NoStream
        <4>1. streams' = [streams EXCEPT ![s] = NewStream(s)] /\ UNCHANGED pendingStreams
          BY <2>3, <3>3 DEF createStream
        <4> QED BY <1>0, <1>t, <3>1, <3>2, <4>1
      <3>4. CASE streams[s] # NoStream
        <4> DEFINE P == pendingStreams[s]
        <4>1. pendingStreams' = [pendingStreams EXCEPT ![s] = Append(P, NewStream(s))]
              /\ UNCHANGED streams
          BY <2>3, <3>4 DEF createStream
        <4>2. P \in Seq(Stream) /\ \A n \in DOMAIN P : P[n].enabled
          BY <1>0, <1>p
        <4>3. pendingStreams'[s] = Append(P, NewStream(s))
          BY <1>p, <4>1
        <4> HIDE DEF P
        <4>4. \A n \in DOMAIN Append(P, NewStream(s)) : Append(P, NewStream(s))[n].enabled
          BY <3>1, <4>2
        <4> QED BY <1>0, <3>2, <4>1, <4>3, <4>4
      <3> QED BY <3>3, <3>4
    <2>4. CASE pushSRIDecide(s) \/ lookupSRI(s) \/ forgetSRI(s)
      <3>1. UNCHANGED <<streams, pendingStreams>>
        BY <2>4 DEF pushSRIDecide, lookupSRI, forgetSRI
      <3>2. call'[s].at \in {"again", "idle", "looked", "new"}
        BY <1>c, <1>n, <2>4 DEF pushSRIDecide, lookupSRI, forgetSRI, Call
      <3> QED BY <1>0, <3>1, <3>2
    <2>5. CASE queuePacket(s) \/ woken(s) \/ flushAndQueue(s)
      <3>1. UNCHANGED <<streams, pendingStreams>>
        BY <2>5 DEF queuePacket, woken, flushAndQueue
      <3>2. \/ call'[s].at \in {"waiting", "full"}
            \/ \E q, c, f : enqueue(s, q, c, f)
        BY <1>c, <2>5 DEF queuePacket, woken, flushAndQueue, replace, Call
      <3>3. call'[s].at \in {"waiting", "full", "ended", "idle"}
        BY <1>c, <1>n, <3>2, EnqueueThreads DEF Call
      <3> QED BY <1>0, <3>1, <3>3
    <2>6. ~refusedEOS(s) /\ ~refusedOff(s)
      BY <1>0 DEF refusedEOS, refusedOff
    <2> QED BY <1>3, <2>1, <2>2, <2>3, <2>4, <2>5, <2>6 DEF Push, Upstream
  <1> QED BY <1>d, <1>1, <1>2, <1>3 DEF Next

\* What every step does to the queue.
LEMMA StepKinds ==
    ASSUME TypeInv, SamplesStay, OrderInv, [Next]_vars
    PROVE  \/ Quiet \/ Discarded
           \/ \E s \in Streams : \/ Renewed(s)
                               \/ \E p : Queued(s, p)
                               \/ \E i \in fetchPacket(s) : Taken(s, i)
  <1>1. CASE UNCHANGED vars
    BY <1>1 DEF vars, Quiet, sameSent, sameEnd
  <1>2. CASE Reader \/ Control
    BY <1>2, ComponentKinds DEF OrderInv
  <1>3. CASE \E s \in Streams : Push(s) \/ Upstream(s)
    BY <1>3, UpstreamKinds
  <1> QED BY <1>1, <1>2, <1>3 DEF Next

\* The queue is empty at first, and every step leaves it in order.
LEMMA OrderInit == Init => OrderInv
  <1> SUFFICES ASSUME Init PROVE OrderInv
    OBVIOUS
  <1>1. packetQueue = <<>> /\ \A s \in Streams : last[s] = NoPacket
    BY DEF Init
  <1>2. \A s \in Streams : /\ sent[s].instance = 1 /\ call[s].at = "idle"
                           /\ streams[s] = NoStream /\ pendingStreams[s] = <<>>
    BY DEF Init, NoCall
  <1>3. reader.at = "ready"
    BY DEF Init
  <1>4. PacketsInv
    BY <1>1, <1>2 DEF PacketsInv, QueueOrder, ordered, LastBefore, Pushed, allPushed,
                      EndFollows, endFollows, noneEmpty
  <1>5. CallsCarryData
    BY <1>2 DEF CallsCarryData
  <1>6. AllEnabled
    BY <1>2, <1>3 DEF AllEnabled
  <1> QED BY <1>4, <1>5, <1>6 DEF OrderInv

\* Every step keeps the packets in order, and what that rests on.
LEMMA OrderStep ==
    ASSUME TypeInv, SamplesStay, OrderInv, [Next]_vars
    PROVE  OrderInv'
  <1>1. PacketsInv'
    <2>1. TypeOK /\ PacketsInv
      BY DEF TypeInv, OrderInv
    <2> QED BY <2>1, StepKinds, QuietOrder, RenewedOrder, QueuedOrder, TakenOrder, DiscardedOrder
  <1>2. CallsCarryData' /\ AllEnabled'
    BY CarriesStep, EnabledStep DEF OrderInv
  <1> QED BY <1>1, <1>2 DEF OrderInv

\* The invariant holds in every state, if samples stay with their instances.
LEMMA OrderHolds == ASSUME SamplesStay PROVE Spec => [](TypeInv /\ OrderInv)
  <1>1. Init => TypeInv /\ OrderInv
    BY TypeInit, OrderInit
  <1>2. TypeInv /\ OrderInv /\ [Next]_vars => (TypeInv /\ OrderInv)'
    BY TypeInvStep, OrderStep
  <1> QED BY <1>1, <1>2, PTL DEF Spec

(***************************************************************************)
(* Packets of a stream ID are read in the order they were pushed, nothing  *)
(* of an instance after its EOS (nextPacket, _flushQueue, queuePacket), if *)
(* nothing makes the port discard an EOS, or nobody pushes empty packets.  *)
(***************************************************************************)
THEOREM ReadInOrder == SamplesStay => (Spec => DeliveryInOrder)
  <1> SUFFICES ASSUME SamplesStay PROVE Spec => DeliveryInOrder
    OBVIOUS
  <1>1. ASSUME TypeInv, OrderInv, [Next]_vars
        PROVE  [\A s \in Streams :
                  delivers(s) /\ last[s] # NoPacket =>
                     \/ last[s].instance < last'[s].instance
                     \/ /\ last[s].instance = last'[s].instance
                        /\ ~last[s].EOS
                        /\ last'[s].buffer # Empty =>
                              last[s].buffer[2] < last'[s].buffer[2]]_vars
    <2> SUFFICES ASSUME NEW s \in Streams, delivers(s), last[s] # NoPacket
                 PROVE  before(last[s], last'[s])
      BY DEF before
    <2>1. last \in [Streams -> Packet \cup {NoPacket}]
      BY <1>1 DEF TypeInv, TypeOK
    <2>2. ~UNCHANGED last
      BY DEF delivers
    <2>3. PICK t \in Streams : \E i \in fetchPacket(t) : Taken(t, i)
      BY <1>1, <2>2, StepKinds DEF Quiet, Discarded, Renewed, Queued
    <2>4. PICK i \in fetchPacket(t) : Taken(t, i)
      BY <2>3
    <2>5. last' = [last EXCEPT ![t] = packetQueue[i]] /\ t = s
      BY <2>1, <2>4 DEF Taken, delivers
    <2> QED BY <1>1, <2>1, <2>4, <2>5, TakenOrder DEF TypeInv, OrderInv
  <1> QED BY <1>1, OrderHolds, PTL DEF Spec, DeliveryInOrder

(***************************************************************************)
(* The packets of different instances of a stream ID are apart in the      *)
(* queue, and none holds the samples of another instance (_flushQueue).    *)
(***************************************************************************)
THEOREM InstancesStayApart == SamplesStay => (Spec => []InstancesApart)
  <1> SUFFICES ASSUME SamplesStay PROVE Spec => []InstancesApart
    OBVIOUS
  <1>1. ASSUME TypeInv, OrderInv PROVE InstancesApart
    <2>1. \A i \in DOMAIN packetQueue :
              packetQueue[i].buffer \in {Empty} \cup ({packetQueue[i].instance} \X Nat)
      BY <1>1 DEF OrderInv, PacketsInv, Pushed, allPushed, own
    <2>2. ASSUME NEW s \in Streams, NEW i \in positions(packetQueue, s),
                 NEW j \in positions(packetQueue, s), i < j
          PROVE  before(packetQueue[i], packetQueue[j])
      BY <1>1, <2>2 DEF OrderInv, PacketsInv, QueueOrder, ordered, positions
    <2> QED BY <2>1, <2>2 DEF InstancesApart, before
  <1> QED BY <1>1, OrderHolds, PTL

-----------------------------------------------------------------------------
(* The inductive invariant: ends of streams.                               *)

\* The EOS of instance n of s is in the queue q.
endIn(s, n, q) ==
    \E i \in DOMAIN q : q[i].streamID = s /\ q[i].instance = n /\ q[i].EOS

\* An EOS is read only after upstream has let go of the queue, and it is in
\* the queue until it is read.
EndsInv ==
    \A s \in Streams :
        /\ ended(s) < sent[s].instance
        /\ \A n \in ended(s) + 1 .. queuedEnds(s) : endIn(s, n, packetQueue)

-----------------------------------------------------------------------------
(* The inductive invariant: InputStreams.                                  *)

\* Upstream has made the InputStream of its current instance.
made(s) == currentHs[s] # NoSRI /\ call[s].at \notin {"create", "new"}

fetched(s) == reader.at = "fetched" /\ reader.id = s
removing(s) == reader.at \in {"turnoff", "remove"} /\ reader.id = s
reached(s) == streams[s] # NoStream /\ streams[s].eos = "REACHED"

\* The active stream will be removed; its EOS no longer keeps pushSRI from
\* making another one, the lookup being over.
leaving(s) == reached(s) \/ removing(s)

\* The EOS of the active stream has been read.
over(s) == leaving(s) \/ fetched(s)

ActiveStream(s) ==
    IF streams[s] = NoStream
    THEN /\ pendingStreams[s] = <<>>
         /\ ended(s) = sent[s].instance - 1
         /\ ~over(s) /\ ~made(s)
    ELSE /\ streams[s].instance = IF over(s) THEN ended(s) ELSE ended(s) + 1
         /\ "streams" \notin Environment => streams[s].eos = "NONE"

\* The streams that wait are numbered on, up to the instance last made.
StreamsInWait(s) ==
    streams[s] # NoStream =>
        /\ \A n \in DOMAIN pendingStreams[s] :
              /\ pendingStreams[s][n].instance = streams[s].instance + n
              /\ pendingStreams[s][n].eos = "NONE"
        /\ streams[s].instance + Len(pendingStreams[s])
               = IF made(s) THEN sent[s].instance ELSE sent[s].instance - 1

\* The EOS packets counted by pushSRI are not those of all the streams there
\* will be when the count is compared, as the current instance has none.
Counting(s) ==
    /\ call[s].at # "again"
    /\ call[s].at = "count" =>
          call[s].eosCount <= sent[s].instance - streams[s].instance
                                 - (IF leaving(s) THEN 1 ELSE 0)

StreamInv(s) == ActiveStream(s) /\ StreamsInWait(s) /\ Counting(s)

\* Upstream pushes packets of an instance that has its stream.
MadeQueued ==
    \A s \in Streams : \A i \in positions(packetQueue, s) :
        packetQueue[i].instance = sent[s].instance => made(s)

StreamsInv == EndsInv /\ MadeQueued /\ \A s \in Streams : StreamInv(s)

-----------------------------------------------------------------------------
(* Ends of streams.                                                        *)

\* The packets in the queue come after what was read and are of instances
\* that upstream has begun.
LEMMA AheadOfRead ==
    ASSUME TypeOK, PacketsInv, NEW s \in Streams
    PROVE  /\ ended(s) \in Nat /\ sent[s].instance \in Nat
           /\ \A i \in DOMAIN packetQueue : packetQueue[i].streamID = s =>
                 /\ packetQueue[i].instance \in Nat
                 /\ ended(s) < packetQueue[i].instance
                 /\ packetQueue[i].instance <= sent[s].instance
                 /\ packetQueue[i].EOS => packetQueue[i].instance <= queuedEnds(s)
  <1>q. packetQueue \in Seq(Packet)
    BY DEF TypeOK
  <1>l. last[s] # NoPacket => last[s] \in Packet /\ pushed(s, last[s])
    BY DEF TypeOK, PacketsInv, Pushed
  <1>s. sent[s].instance \in Nat
    BY DEF TypeOK, Sent
  <1>1. ended(s) \in Nat
    BY <1>l DEF ended, pushed, Packet
  <1>2. ASSUME NEW i \in DOMAIN packetQueue, packetQueue[i].streamID = s
        PROVE  /\ packetQueue[i].instance \in Nat
               /\ ended(s) < packetQueue[i].instance
               /\ packetQueue[i].instance <= sent[s].instance
               /\ packetQueue[i].EOS => packetQueue[i].instance <= queuedEnds(s)
    <2>1. packetQueue[i] \in Packet
      BY <1>q, QueuePositions
    <2>2. pushed(s, packetQueue[i])
      BY <1>2 DEF PacketsInv, Pushed, allPushed
    <2>3. last[s] # NoPacket => before(last[s], packetQueue[i])
      BY <1>2 DEF PacketsInv, LastBefore, ahead
    <2>4. packetQueue[i].instance \in Nat /\ packetQueue[i].instance >= 1
      BY <1>s, <2>1, <2>2 DEF pushed, Packet
    <2>5. ended(s) < packetQueue[i].instance
      BY <1>l, <2>3, <2>4 DEF ended, before, pushed, Packet
    <2>6. packetQueue[i].EOS => packetQueue[i].instance <= queuedEnds(s)
      BY <1>s, <2>2, <2>4 DEF pushed, queuedEnds
    <2> QED BY <1>s, <2>2, <2>4, <2>5, <2>6 DEF pushed
  <1> QED BY <1>1, <1>s, <1>2

\* The next packet read is of the instance that has not ended.
LEMMA FirstNext ==
    ASSUME TypeOK, PacketsInv, EndsInv, NEW s \in Streams, NEW i \in fetchPacket(s)
    PROVE  packetQueue[i].instance = ended(s) + 1
  <1>q. packetQueue \in Seq(Packet)
    BY DEF TypeOK
  <1>1. /\ i \in DOMAIN packetQueue /\ packetQueue[i].streamID = s
        /\ \A k \in DOMAIN packetQueue : packetQueue[k].streamID = s => i <= k
    BY DEF fetchPacket, first, positions
  <1>2. /\ ended(s) \in Nat /\ sent[s].instance \in Nat /\ packetQueue[i].instance \in Nat
        /\ ended(s) < packetQueue[i].instance
        /\ packetQueue[i].instance <= sent[s].instance
    BY <1>1, AheadOfRead
  <1> SUFFICES ASSUME ended(s) + 1 < packetQueue[i].instance PROVE FALSE
    BY <1>2
  <1>3. ended(s) + 1 \in ended(s) + 1 .. queuedEnds(s)
    BY <1>2 DEF queuedEnds
  <1>4. PICK k \in DOMAIN packetQueue : /\ packetQueue[k].streamID = s
                                      /\ packetQueue[k].instance = ended(s) + 1
    BY <1>3 DEF EndsInv, endIn
  <1>5. i < k
    <2>1. i \in Nat /\ k \in Nat /\ i <= k /\ i # k
      BY <1>q, <1>1, <1>2, <1>4, QueuePositions
    <2> QED BY <2>1
  <1>6. before(packetQueue[i], packetQueue[k])
    BY <1>1, <1>4, <1>5 DEF PacketsInv, QueueOrder, ordered
  <1> QED BY <1>2, <1>4, <1>6 DEF before

\* The EOS packets that are queued and not yet read are in the queue, each
\* once and in order.
LEMMA EndsInQueue ==
    ASSUME TypeOK, PacketsInv, EndsInv
    PROVE  EosNeverLost
  <1>q. packetQueue \in Seq(Packet)
    BY DEF TypeOK
  <1> SUFFICES ASSUME NEW s \in Streams
               PROVE  LET ends == {i \in positions(packetQueue, s) : packetQueue[i].EOS}
                      IN  /\ {packetQueue[i].instance : i \in ends}
                                 = ended(s) + 1 .. queuedEnds(s)
                          /\ \A i, j \in ends :
                                i < j => packetQueue[i].instance < packetQueue[j].instance
    BY DEF EosNeverLost
  <1> DEFINE ends == {i \in positions(packetQueue, s) : packetQueue[i].EOS}
  <1>1. \A i : i \in ends <=> /\ i \in DOMAIN packetQueue
                              /\ packetQueue[i].streamID = s /\ packetQueue[i].EOS
    BY DEF positions
  <1> HIDE DEF ends
  <1>2. /\ ended(s) \in Nat /\ sent[s].instance \in Nat
        /\ \A i \in ends : /\ packetQueue[i].instance \in Nat
                           /\ ended(s) < packetQueue[i].instance
                           /\ packetQueue[i].instance <= queuedEnds(s)
    BY <1>1, AheadOfRead
  <1>3. queuedEnds(s) \in Int
    BY <1>2 DEF queuedEnds
  <1>4. \A i \in ends : packetQueue[i].instance \in ended(s) + 1 .. queuedEnds(s)
    BY <1>2, <1>3
  <1>5. \A n \in ended(s) + 1 .. queuedEnds(s) : \E i \in ends : packetQueue[i].instance = n
    BY <1>1 DEF EndsInv, endIn
  <1>6. \A i, j \in ends : i < j => packetQueue[i].instance < packetQueue[j].instance
    BY <1>1 DEF PacketsInv, QueueOrder, ordered, before
  <1> QED BY <1>4, <1>5, <1>6 DEF ends

\* Nothing has been pushed or read at first.
LEMMA EndsInit == Init => EndsInv
  <1> SUFFICES ASSUME Init, NEW s \in Streams
               PROVE  ended(s) = 0 /\ sent[s].instance = 1 /\ queuedEnds(s) = 0
    BY DEF EndsInv
  <1>1. last[s] = NoPacket /\ sent[s].instance = 1 /\ call[s] = NoCall
    BY DEF Init
  <1> QED BY <1>1 DEF ended, queuedEnds, NoCall

\* A step that changes neither what is read, nor what is queued.
LEMMA EndsKept ==
    ASSUME EndsInv, UNCHANGED packetQueue,
           \A s \in Streams : /\ ended(s)' = ended(s)
                              /\ queuedEnds(s)' = queuedEnds(s)
                              /\ ended(s) < sent'[s].instance
    PROVE  EndsInv'
  <1> SUFFICES ASSUME NEW s \in Streams
               PROVE  \A n \in ended(s) + 1 .. queuedEnds(s) : endIn(s, n, packetQueue)'
    BY DEF EndsInv
  <1> QED BY DEF EndsInv, endIn

\* A packet joins a queue that has kept its EOS packets.
LEMMA EndsQueued ==
    ASSUME TypeOK, PacketsInv, EndsInv, NEW s \in Streams, NEW p, Queued(s, p)
    PROVE  EndsInv'
  <1>o. packetQueue \in Seq(Packet)
    BY DEF TypeOK
  <1>p. /\ p \in Packet /\ p.streamID = s /\ p.instance = sent[s].instance
        /\ sent'[s].instance = sent[s].instance /\ UNCHANGED last
        /\ call[s].at # "ended" /\ (call'[s].at = "ended" <=> p.EOS)
        /\ \A t \in Streams \ {s} : sameSent(t) /\ sameEnd(t)
    BY DEF Queued
  <1>q. PICK q, f, g : /\ Thinned(q, packetQueue, f, g)
                      /\ keepsEnds(q, packetQueue, f)
                      /\ packetQueue' = Append(q, p)
    BY DEF Queued
  <1>1. q \in Seq(Packet) /\ Len(q) \in Nat /\ DOMAIN q = 1 .. Len(q)
    BY <1>q, QueuePositions DEF Thinned
  <1>2. /\ DOMAIN packetQueue' = 1 .. Len(q) + 1
        /\ \A i \in 1 .. Len(q) : packetQueue'[i] = q[i]
        /\ packetQueue'[Len(q) + 1] = p
    BY <1>p, <1>q, <1>1
  <1>3. ASSUME NEW t \in Streams, NEW n, endIn(t, n, packetQueue)
        PROVE  endIn(t, n, packetQueue')
    <2>1. PICK k \in DOMAIN packetQueue : /\ packetQueue[k].streamID = t
                                          /\ packetQueue[k].instance = n
                                          /\ packetQueue[k].EOS
      BY <1>3 DEF endIn
    <2>2. PICK m \in DOMAIN q : f[m] = k
      BY <1>q, <2>1 DEF keepsEnds
    <2>3. q[m].streamID = t /\ q[m].instance = n /\ q[m].EOS
      BY <1>q, <2>1, <2>2 DEF Thinned
    <2>4. m \in DOMAIN packetQueue' /\ packetQueue'[m] = q[m]
      BY <1>1, <1>2
    <2> QED BY <2>3, <2>4 DEF endIn
  <1>4. \A t \in Streams : ended(t)' = ended(t) /\ sent'[t].instance = sent[t].instance
    BY <1>p DEF ended, sameSent
  <1>5. \A t \in Streams \ {s} : queuedEnds(t)' = queuedEnds(t)
    BY <1>p DEF queuedEnds, sameSent, sameEnd
  <1>6. ASSUME NEW n \in ended(s) + 1 .. queuedEnds(s)'
        PROVE  endIn(s, n, packetQueue')
    <2>1. /\ sent[s].instance \in Nat
          /\ queuedEnds(s) = sent[s].instance - 1
          /\ queuedEnds(s)' = IF p.EOS THEN sent[s].instance ELSE sent[s].instance - 1
      BY <1>p DEF queuedEnds, TypeOK, Sent
    <2>2. ended(s) \in Nat
      BY AheadOfRead
    <2>3. n \in ended(s) + 1 .. queuedEnds(s) \/ (n = sent[s].instance /\ p.EOS)
      BY <2>1, <2>2
    <2>4. CASE n \in ended(s) + 1 .. queuedEnds(s)
      BY <1>3, <2>4 DEF EndsInv
    <2>5. CASE n = sent[s].instance /\ p.EOS
      <3>1. Len(q) + 1 \in DOMAIN packetQueue'
        BY <1>1, <1>2
      <3> QED BY <1>2, <1>p, <2>5, <3>1 DEF endIn
    <2> QED BY <2>3, <2>4, <2>5
  <1>7. \A t \in Streams \ {s} :
           \A n \in ended(t) + 1 .. queuedEnds(t)' : endIn(t, n, packetQueue')
    BY <1>3, <1>5 DEF EndsInv
  <1> SUFFICES ASSUME NEW t \in Streams
               PROVE  /\ ended(t)' < sent'[t].instance
                      /\ \A n \in ended(t)' + 1 .. queuedEnds(t)' : endIn(t, n, packetQueue')
    BY DEF EndsInv, endIn
  <1>8. ended(t)' < sent'[t].instance
    BY <1>4 DEF EndsInv
  <1> QED BY <1>4, <1>6, <1>7, <1>8

\* An EOS leaves the queue when it is read, and no other one does.
LEMMA EndsTaken ==
    ASSUME TypeOK, PacketsInv, EndsInv, NEW s \in Streams, NEW i, Taken(s, i)
    PROVE  /\ EndsInv'
           /\ ended(s)' = IF packetQueue[i].EOS THEN ended(s) + 1 ELSE ended(s)
           /\ \A t \in Streams \ {s} : ended(t)' = ended(t)
  <1>e. PICK q, r : q = packetQueue /\ r = RemoveAt(q, i)
    OBVIOUS
  <1> DEFINE f == others(q, i)
  <1>q. q \in Seq(Packet) /\ last \in [Streams -> Packet \cup {NoPacket}]
    BY <1>e DEF TypeOK
  <1>0. i \in fetchPacket(s) /\ i \in DOMAIN q /\ q[i].streamID = s
    BY <1>e DEF Taken, fetchPacket, first, positions
  <1>1. q[i] \in Packet /\ q[i].instance = ended(s) + 1
    BY <1>e, <1>q, <1>0, QueuePositions, FirstNext
  <1>2. /\ Thinned(r, q, f, f)
        /\ \A k \in DOMAIN q \ {i} : \E n \in DOMAIN r : f[n] = k
    <2>0. i \in DOMAIN q
      BY <1>0
    <2>1. Thinned(RemoveAt(q, i), q, f, f)
      BY <1>q, <2>0, RemoveAtThins
    <2>2. \A k \in DOMAIN q \ {i} : \E n \in DOMAIN RemoveAt(q, i) : f[n] = k
      BY <1>q, <2>0, RemoveAtThins
    <2> HIDE DEF f
    <2> QED BY <1>e, <2>1, <2>2
  <1> HIDE DEF f
  <1>3. packetQueue' = r /\ last' = [last EXCEPT ![s] = q[i]]
    BY <1>e DEF Taken
  <1>4. /\ ended(s) \in Nat
        /\ \A t \in Streams : sent'[t].instance = sent[t].instance /\ call[t].at # "ended"
        /\ \A t \in Streams : queuedEnds(t)' = queuedEnds(t)
    <2>1. \A t \in Streams : sameSent(t) /\ sameEnd(t) /\ call[t].at # "ended"
      BY DEF Taken, DataFree
    <2> QED BY <2>1, AheadOfRead DEF sameSent, sameEnd, queuedEnds
  <1>5. ended(s)' = IF q[i].EOS THEN ended(s) + 1 ELSE ended(s)
    <2>1. last'[s] = q[i] /\ q[i] # NoPacket
      BY <1>q, <1>1, <1>3, InPortConstants
    <2> QED BY <1>1, <1>4, <2>1 DEF ended
  <1>6. \A t \in Streams \ {s} : ended(t)' = ended(t)
    BY <1>q, <1>3 DEF ended
  <1>7. ASSUME NEW t \in Streams, NEW n, endIn(t, n, q), ~(t = s /\ q[i].EOS /\ n = ended(s) + 1)
        PROVE  endIn(t, n, r)
    <2>1. PICK k \in DOMAIN q : q[k].streamID = t /\ q[k].instance = n /\ q[k].EOS
      BY <1>7 DEF endIn
    <2>2. k # i
      BY <1>0, <1>1, <1>7, <2>1
    <2>3. PICK m \in DOMAIN r : f[m] = k
      BY <1>2, <2>2
    <2> QED BY <1>2, <2>1, <2>3 DEF endIn, Thinned
  <1>8. ASSUME NEW t \in Streams
        PROVE  /\ ended(t)' < sent'[t].instance
               /\ \A n \in ended(t)' + 1 .. queuedEnds(t)' : endIn(t, n, packetQueue')
    <2>1. CASE t # s
      BY <1>3, <1>4, <1>6, <1>7, <1>e, <2>1 DEF EndsInv
    <2>2. CASE t = s
      <3>1. sent[s].instance \in Nat
        BY DEF TypeOK, Sent
      <3>2. queuedEnds(s) \in Int
        BY <3>1 DEF queuedEnds
      <3>3. q[i].EOS => ended(s) + 1 <= queuedEnds(s)
        BY <1>e, <1>0, <1>1, AheadOfRead
      <3>4. ended(s)' < sent'[s].instance
        BY <1>4, <1>5, <3>1, <3>3 DEF queuedEnds, EndsInv
      <3>5. ASSUME NEW n \in ended(s)' + 1 .. queuedEnds(s)
            PROVE  endIn(s, n, packetQueue')
        <4>1. n \in ended(s) + 1 .. queuedEnds(s) /\ ~(q[i].EOS /\ n = ended(s) + 1)
          BY <1>4, <1>5, <3>2, <3>5
        <4> QED BY <1>3, <1>7, <1>e, <4>1 DEF EndsInv
      <3> QED BY <1>4, <2>2, <3>4, <3>5
    <2> QED BY <2>1, <2>2
  <1>9. EndsInv'
    BY <1>8 DEF EndsInv, endIn
  <1> QED BY <1>e, <1>5, <1>6, <1>9

\* No step loses an EOS.
LEMMA EndsStep ==
    ASSUME TypeInv, NoDiscards, OrderInv, EndsInv, [Next]_vars
    PROVE  EndsInv'
  <1>t. TypeOK /\ PacketsInv /\ SamplesStay
    BY DEF TypeInv, OrderInv, SamplesStay
  <1>s. \A s \in Streams : sent[s].instance \in Nat /\ ended(s) \in Nat
    BY <1>t, AheadOfRead
  <1>1. CASE Quiet
    <2>1. \A s \in Streams : /\ ended(s)' = ended(s) /\ queuedEnds(s)' = queuedEnds(s)
                             /\ sent'[s].instance = sent[s].instance
      BY <1>1 DEF Quiet, sameSent, sameEnd, ended, queuedEnds
    <2>2. \A s \in Streams : ended(s) < sent'[s].instance
      BY <2>1 DEF EndsInv
    <2> QED BY <1>1, <2>1, <2>2, EndsKept DEF Quiet
  <1>2. ASSUME NEW s \in Streams, Renewed(s) PROVE EndsInv'
    <2>1. \A t \in Streams : ended(t)' = ended(t)
      BY <1>2 DEF Renewed, ended
    <2>2. \A t \in Streams \ {s} : queuedEnds(t)' = queuedEnds(t)
                                   /\ sent'[t].instance = sent[t].instance
      BY <1>2 DEF Renewed, sameSent, sameEnd, queuedEnds
    <2>3. queuedEnds(s)' = queuedEnds(s) /\ sent'[s].instance = sent[s].instance + 1
      BY <1>s, <1>2 DEF Renewed, queuedEnds
    <2>4. \A t \in Streams : ended(t) < sent'[t].instance
      BY <1>s, <2>2, <2>3 DEF EndsInv
    <2>5. UNCHANGED packetQueue
      BY <1>2 DEF Renewed
    <2> QED BY <2>1, <2>2, <2>3, <2>4, <2>5, EndsKept
  <1>3. ASSUME NEW s \in Streams, NEW p, Queued(s, p) PROVE EndsInv'
    BY <1>t, <1>3, EndsQueued
  <1>4. ASSUME NEW s \in Streams, NEW i, Taken(s, i) PROVE EndsInv'
    BY <1>t, <1>4, EndsTaken
  <1>5. ~Discarded
    BY DEF Discarded, NoDiscards
  <1> QED BY <1>t, <1>1, <1>2, <1>3, <1>4, <1>5, StepKinds

-----------------------------------------------------------------------------
(* InputStreams.                                                           *)

\* What matters of the stream ID s to its InputStreams stays as it is.
Kept(s) ==
    /\ streams'[s] = streams[s] /\ pendingStreams'[s] = pendingStreams[s]
    /\ sent'[s].instance = sent[s].instance
    /\ ended(s)' = ended(s)
    /\ made(s)' <=> made(s)
    /\ leaving(s)' <=> leaving(s)
    /\ over(s)' <=> over(s)
    /\ call'[s].at # "again"
    /\ call'[s].at = "count" =>
          call[s].at = "count" /\ call'[s].eosCount = call[s].eosCount

\* Then so do the InputStreams.
LEMMA KeptStream ==
    ASSUME NEW s \in Streams, StreamInv(s), Kept(s)
    PROVE  StreamInv(s)'
  <1>1. ActiveStream(s)'
    BY DEF StreamInv, ActiveStream, Kept
  <1>2. StreamsInWait(s)'
    BY DEF StreamInv, StreamsInWait, Kept
  <1>3. Counting(s)'
    BY DEF StreamInv, Counting, Kept
  <1> QED BY <1>1, <1>2, <1>3 DEF StreamInv

\* A stream whose EOS has been read has not left the port yet.
LEMMA OverIsActive ==
    ASSUME NEW s \in Streams, StreamInv(s)
    PROVE  /\ over(s) => streams[s] # NoStream /\ streams[s].instance = ended(s)
           /\ made(s) => streams[s] # NoStream
  BY DEF StreamInv, ActiveStream

\* The EOS packets in the queue that pushSRI counts are those of instances
\* that were made and not read to their end.
LEMMA EosCounted ==
    ASSUME TypeOK, PacketsInv, EndsInv, NEW s \in Streams, call[s].at # "ended"
    PROVE  eosCount(s) <= sent[s].instance - 1 - ended(s)
  <1> DEFINE E == {i \in positions(packetQueue, s) : packetQueue[i].EOS}
             T == ended(s) + 1 .. sent[s].instance - 1
             f == [i \in E |-> packetQueue[i].instance]
  <1>q. packetQueue \in Seq(Packet)
    BY DEF TypeOK
  <1>1. \A i : i \in E <=> /\ i \in DOMAIN packetQueue
                           /\ packetQueue[i].streamID = s /\ packetQueue[i].EOS
    BY DEF positions
  <1>2. /\ ended(s) \in Nat /\ sent[s].instance \in Nat
        /\ \A i \in E : f[i] \in T
    <2>1. queuedEnds(s) = sent[s].instance - 1
      BY DEF queuedEnds
    <2> QED BY <1>1, <2>1, AheadOfRead
  <1>3. \A i, j \in E : i < j => f[i] # f[j]
    <2>1. \A i, j \in E : i < j => before(packetQueue[i], packetQueue[j])
      BY <1>1 DEF PacketsInv, QueueOrder, ordered
    <2>2. \A i \in E : packetQueue[i].EOS /\ packetQueue[i].instance \in Nat
      BY <1>1, AheadOfRead
    <2> QED BY <2>1, <2>2 DEF before
  <1>4. \A i \in E : i \in Nat
    BY <1>q, <1>1, QueuePositions
  <1>5. \A i, j \in E : f[i] = f[j] => i = j
    <2>1. \A i, j \in E : i < j \/ j < i \/ i = j
      BY <1>4
    <2> QED BY <1>3, <2>1
  <1>6. f \in Injection(E, T)
    BY <1>2, <1>5 DEF Injection, IsInjective
  <1>7. IsFiniteSet(T) /\ Cardinality(T) = IF ended(s) + 1 > sent[s].instance - 1 THEN 0
                                           ELSE sent[s].instance - 1 - (ended(s) + 1) + 1
    <2>1. \A a, b \in Int : /\ IsFiniteSet(a .. b)
                            /\ Cardinality(a .. b) = IF a > b THEN 0 ELSE b - a + 1
      BY FS_Interval
    <2>2. ended(s) + 1 \in Int /\ sent[s].instance - 1 \in Int
      BY <1>2
    <2> QED BY <2>1, <2>2
  <1>8. Cardinality(E) <= Cardinality(T) /\ Cardinality(E) \in Nat
    <2> HIDE DEF E, T, f
    <2>1. IsFiniteSet(E) /\ Cardinality(E) <= Cardinality(T)
      BY <1>6, <1>7, FS_Injection
    <2> QED BY <2>1, FS_CardinalityType
  <1> HIDE DEF f, T
  <1>9. eosCount(s) = Cardinality(E)
    BY DEF eosCount
  <1>10. ended(s) < sent[s].instance
    BY DEF EndsInv
  <1> HIDE DEF E
  <1> QED BY <1>2, <1>7, <1>8, <1>9, <1>10

(***************************************************************************)
(* Upstream of one stream ID keeps the streams of the others, and does not *)
(* move the reader on.                                                     *)
(***************************************************************************)
LEMMA UpstreamReads ==
    ASSUME TypeInv, NoDiscards, AllEnabled, NEW s \in Streams, Push(s) \/ Upstream(s)
    PROVE  /\ \A t \in Streams : /\ ended(t)' = ended(t)
                                 /\ fetched(t)' <=> fetched(t)
                                 /\ removing(t)' <=> removing(t)
           /\ streams[s] # NoStream => streams'[s] = streams[s]
  <1>t. TypeOK
    BY DEF TypeInv
  <1>1. UNCHANGED last
    BY <1>t, UpstreamFrame
  <1>2. streams[s] # NoStream => streams[s].enabled
    BY DEF AllEnabled
  <1>3. /\ reader' = reader \/ reader' = dataAvailable
        /\ streams[s] # NoStream => streams'[s] = streams[s]
    BY <1>t, <1>2, UpstreamReader
  <1>4. /\ reader'.id = reader.id
        /\ reader'.at = reader.at \/ (reader.at = "sleeping" /\ reader'.at = "peek")
    <2>1. reader \in ReaderState
      BY <1>t DEF TypeOK
    <2> QED BY <1>3, <2>1 DEF dataAvailable, ReaderState
  <1> QED BY <1>1, <1>3, <1>4 DEF ended, fetched, removing

\* Upstream threads of the other stream IDs.
LEMMA OtherStreams ==
    ASSUME TypeInv, NoDiscards, AllEnabled, NEW s \in Streams, Push(s) \/ Upstream(s),
           NEW t \in Streams \ {s}, StreamInv(t)
    PROVE  Kept(t)
  <1>1. /\ call'[t] = call[t] /\ currentHs'[t] = currentHs[t]
        /\ sent'[t] = sent[t] /\ streams'[t] = streams[t]
        /\ pendingStreams'[t] = pendingStreams[t]
    BY UpstreamFrame DEF TypeInv
  <1>2. /\ ended(t)' = ended(t)
        /\ fetched(t)' <=> fetched(t)
        /\ removing(t)' <=> removing(t)
    BY UpstreamReads
  <1>3. made(t)' <=> made(t)
    BY <1>1 DEF made
  <1>4. (leaving(t)' <=> leaving(t)) /\ (over(t)' <=> over(t))
    BY <1>1, <1>2 DEF leaving, over, reached
  <1>5. call[t].at # "again"
    BY DEF StreamInv, Counting
  <1> QED BY <1>1, <1>2, <1>3, <1>4, <1>5 DEF Kept

(***************************************************************************)
(* Upstream of s.  Most of its steps change nothing of its streams.        *)
(***************************************************************************)
LEMMA UpstreamKeeps ==
    ASSUME TypeInv, NoDiscards, AllEnabled, NEW s \in Streams, Push(s) \/ Upstream(s),
           UNCHANGED <<streams, pendingStreams>>,
           sent'[s].instance = sent[s].instance,
           made(s)' <=> made(s),
           call'[s].at \notin {"count", "again"}
    PROVE  Kept(s)
  <1>1. /\ ended(s)' = ended(s)
        /\ fetched(s)' <=> fetched(s)
        /\ removing(s)' <=> removing(s)
    BY UpstreamReads
  <1>2. (leaving(s)' <=> leaving(s)) /\ (over(s)' <=> over(s))
    BY <1>1 DEF leaving, over, reached
  <1> QED BY <1>1, <1>2 DEF Kept

\* pushSRI finds the stream ID known and counts the EOS packets of its streams.
LEMMA CountedStream ==
    ASSUME TypeInv, NoDiscards, OrderInv, EndsInv, NEW s \in Streams, StreamInv(s),
           NEW H \in SRIs, pushSRI(s, H), currentHs[s] # NoSRI
    PROVE  StreamInv(s)' /\ (made(s)' <=> made(s))
  <1>o. TypeOK /\ PacketsInv /\ AllEnabled
    BY DEF TypeInv, OrderInv
  <1>c. call \in [Streams -> Call]
    BY <1>o DEF TypeOK
  <1>s. sent \in [Streams -> Sent]
    BY <1>o DEF TypeOK
  <1>p. Push(s) \/ Upstream(s)
    BY DEF Push
  <1>1. /\ call' = [call EXCEPT ![s] = [call[s] EXCEPT !.at = "count", !.SRI = H,
                                                       !.eosCount = eosCount(s)]]
        /\ UNCHANGED <<currentHs, streams, pendingStreams>>
        /\ sent' = counted(s)
        /\ call[s].at = "idle"
    BY DEF pushSRI, mayCall
  <1>2. call'[s].at = "count" /\ call'[s].eosCount = eosCount(s)
    BY <1>c, <1>1 DEF Call
  <1>3. sent'[s].instance = sent[s].instance
    BY <1>s, <1>1 DEF counted, Sent
  <1>4. made(s) /\ made(s)'
    BY <1>1, <1>2 DEF made
  <1>5. /\ ended(s)' = ended(s)
        /\ fetched(s)' <=> fetched(s)
        /\ removing(s)' <=> removing(s)
    BY <1>o, <1>p, UpstreamReads
  <1>6. (leaving(s)' <=> leaving(s)) /\ (over(s)' <=> over(s))
    BY <1>1, <1>5 DEF leaving, over, reached
  <1>7. ActiveStream(s)' /\ StreamsInWait(s)'
    BY <1>1, <1>3, <1>4, <1>5, <1>6 DEF StreamInv, ActiveStream, StreamsInWait
  <1>8. Counting(s)'
    <2>1. streams[s].instance = IF over(s) THEN ended(s) ELSE ended(s) + 1
      BY <1>4 DEF StreamInv, ActiveStream
    <2>2. ended(s) \in Nat /\ sent[s].instance \in Nat
      BY <1>o, AheadOfRead
    <2>3. eosCount(s) <= sent[s].instance - 1 - ended(s)
      BY <1>o, <1>1, EosCounted
    <2>4. eosCount(s) \in Nat
      BY <1>o, EosCountType
    <2>5. ~over(s) => ~leaving(s)
      BY DEF over
    <2>6. streams[s].instance + Len(pendingStreams[s]) = sent[s].instance
      BY <1>4 DEF StreamInv, ActiveStream, StreamsInWait
    <2>7. eosCount(s) <= sent[s].instance - streams[s].instance
                            - (IF leaving(s) THEN 1 ELSE 0)
      BY <2>1, <2>2, <2>3, <2>4, <2>5, <2>6
    <2> QED BY <1>1, <1>2, <1>3, <1>6, <2>7 DEF Counting
  <1> QED BY <1>4, <1>7, <1>8 DEF StreamInv

\* createStream makes the stream of an instance that has none.
LEMMA CreatedStream ==
    ASSUME TypeInv, NoDiscards, OrderInv, EndsInv, NEW s \in Streams, StreamInv(s),
           createStream(s)
    PROVE  StreamInv(s)' /\ made(s)' /\ sent'[s].instance = sent[s].instance
  <1>o. TypeOK /\ PacketsInv /\ AllEnabled
    BY DEF TypeInv, OrderInv
  <1>c. call \in [Streams -> Call]
    BY <1>o DEF TypeOK
  <1>t. streams \in [Streams -> Stream \cup {NoStream}]
    BY <1>o DEF TypeOK
  <1>w. pendingStreams \in [Streams -> Seq(Stream)]
    BY <1>o DEF TypeOK
  <1>s. sent[s].instance \in Nat /\ ended(s) \in Nat
    BY <1>o, AheadOfRead
  <1>1. /\ call[s].at \in {"create", "new"}
        /\ UNCHANGED <<currentHs, reader, sent, last>>
        /\ call' = [call EXCEPT
              ![s] = IF @.at = "new" THEN [@ EXCEPT !.at = "looked"] ELSE NoCall]
    BY DEF createStream, StreamInv, Counting
  <1>2. call'[s].at \in {"looked", "idle"}
    BY <1>c, <1>1 DEF Call, NoCall
  <1>3. currentHs[s] # NoSRI
    BY <1>1 DEF TypeInv, ThreadsInv, SRIKnown, inHand
  <1>4. ~made(s) /\ made(s)'
    BY <1>1, <1>2, <1>3 DEF made
  <1>5. /\ ended(s)' = ended(s) /\ sent'[s].instance = sent[s].instance
        /\ fetched(s)' <=> fetched(s)
        /\ removing(s)' <=> removing(s)
    BY <1>1 DEF ended, fetched, removing
  <1>n. /\ NewStream(s) \in Stream /\ NewStream(s) # NoStream
        /\ NewStream(s).instance = sent[s].instance /\ NewStream(s).eos = "NONE"
    <2>1. NewStream(s) \in Stream
      BY <1>s DEF NewStream, Stream, EosState
    <2> QED BY <2>1, InPortConstants DEF NewStream
  <1>6. Counting(s)'
    BY <1>2 DEF Counting
  <1>7. CASE streams[s] = NoStream
    <2>1. streams'[s] = NewStream(s) /\ pendingStreams'[s] = <<>>
      BY <1>t, <1>7 DEF createStream, StreamInv, ActiveStream
    <2>2. ended(s) = sent[s].instance - 1 /\ ~removing(s) /\ ~fetched(s)
      BY <1>7 DEF StreamInv, ActiveStream, over, leaving
    <2>3. ~over(s)'
      BY <1>5, <1>n, <2>1, <2>2 DEF over, leaving, reached
    <2>4. ActiveStream(s)'
      BY <1>s, <1>5, <1>n, <2>1, <2>2, <2>3 DEF ActiveStream
    <2>5. StreamsInWait(s)'
      BY <1>s, <1>4, <1>5, <1>n, <2>1 DEF StreamsInWait
    <2> QED BY <1>4, <1>5, <1>6, <2>4, <2>5 DEF StreamInv
  <1>8. CASE streams[s] # NoStream
    <2> DEFINE P == pendingStreams[s]
    <2>1. streams'[s] = streams[s] /\ pendingStreams'[s] = Append(P, NewStream(s))
      BY <1>w, <1>8 DEF createStream
    <2>2. (leaving(s)' <=> leaving(s)) /\ (over(s)' <=> over(s))
      BY <1>5, <2>1 DEF over, leaving, reached
    <2>3. ActiveStream(s)'
      BY <1>5, <1>8, <2>1, <2>2 DEF StreamInv, ActiveStream
    <2>4. /\ P \in Seq(Stream) /\ streams[s].instance \in Nat
          /\ \A n \in DOMAIN P : /\ P[n].instance = streams[s].instance + n
                                 /\ P[n].eos = "NONE"
          /\ streams[s].instance + Len(P) = sent[s].instance - 1
      BY <1>t, <1>w, <1>4, <1>8 DEF StreamInv, StreamsInWait, Stream
    <2> HIDE DEF P
    <2>5. PICK Q : Q = Append(P, NewStream(s))
      OBVIOUS
    <2>6. /\ Len(Q) = Len(P) + 1
          /\ \A n \in DOMAIN Q : /\ Q[n].instance = streams[s].instance + n
                                 /\ Q[n].eos = "NONE"
      <3>1. /\ Len(P) \in Nat /\ DOMAIN P = 1 .. Len(P)
            /\ Len(Q) = Len(P) + 1 /\ DOMAIN Q = 1 .. Len(P) + 1
            /\ \A n \in 1 .. Len(P) : Q[n] = P[n]
            /\ Q[Len(P) + 1] = NewStream(s)
        BY <1>n, <2>4, <2>5
      <3>2. streams[s].instance + (Len(P) + 1) = sent[s].instance
        BY <1>s, <2>4, <3>1
      <3>3. \A n \in DOMAIN Q : n \in 1 .. Len(P) \/ n = Len(P) + 1
        BY <3>1
      <3> QED BY <1>n, <2>4, <3>1, <3>2, <3>3
    <2>7. streams[s].instance + Len(Q) = sent[s].instance
      <3>1. Len(P) \in Nat /\ streams[s].instance \in Nat
        BY <2>4
      <3>2. streams[s].instance + Len(P) = sent[s].instance - 1 /\ Len(Q) = Len(P) + 1
        BY <2>4, <2>6
      <3> QED BY <1>s, <3>1, <3>2
    <2>8. /\ pendingStreams'[s] = Q
          /\ \A n \in DOMAIN pendingStreams'[s] :
                /\ pendingStreams'[s][n].instance = streams'[s].instance + n
                /\ pendingStreams'[s][n].eos = "NONE"
      BY <2>1, <2>5, <2>6
    <2>9. streams'[s].instance + Len(pendingStreams'[s]) = sent'[s].instance
      BY <1>5, <2>1, <2>7, <2>8
    <2>10. StreamsInWait(s)'
      BY <1>4, <2>8, <2>9 DEF StreamsInWait
    <2> QED BY <1>4, <1>5, <1>6, <2>3, <2>10 DEF StreamInv
  <1> QED BY <1>7, <1>8

\* forgetSRI ends the instance; the next one has no stream yet.
LEMMA ForgottenStream ==
    ASSUME TypeInv, NoDiscards, OrderInv, EndsInv, NEW s \in Streams, StreamInv(s),
           forgetSRI(s)
    PROVE  StreamInv(s)' /\ sent'[s].instance = sent[s].instance + 1
  <1>o. TypeOK /\ PacketsInv /\ AllEnabled
    BY DEF TypeInv, OrderInv
  <1>c. call \in [Streams -> Call]
    BY <1>o DEF TypeOK
  <1>h. currentHs \in [Streams -> KnownSRI \cup {NoSRI}]
    BY <1>o DEF TypeOK
  <1>s. sent \in [Streams -> Sent]
    BY <1>o DEF TypeOK
  <1>p. Push(s) \/ Upstream(s)
    BY DEF Upstream
  <1>1. /\ call[s].at = "ended"
        /\ currentHs' = [currentHs EXCEPT ![s] = NoSRI]
        /\ call' = [call EXCEPT ![s] = NoCall]
        /\ sent' = nextInstance(s)
        /\ UNCHANGED <<streams, pendingStreams>>
    BY DEF forgetSRI
  <1>2. made(s) /\ ~made(s)' /\ call'[s].at = "idle"
    BY <1>c, <1>h, <1>1 DEF made, NoCall, TypeInv, ThreadsInv, SRIKnown, inHand
  <1>3. sent'[s].instance = sent[s].instance + 1 /\ sent[s].instance \in Nat
    BY <1>s, <1>1 DEF nextInstance, Sent
  <1>4. /\ ended(s)' = ended(s)
        /\ fetched(s)' <=> fetched(s)
        /\ removing(s)' <=> removing(s)
    BY <1>o, <1>p, UpstreamReads
  <1>5. (leaving(s)' <=> leaving(s)) /\ (over(s)' <=> over(s))
    BY <1>1, <1>4 DEF leaving, over, reached
  <1>6. streams[s] # NoStream
    BY <1>2, OverIsActive
  <1>7. ActiveStream(s)'
    BY <1>1, <1>4, <1>5, <1>6 DEF StreamInv, ActiveStream
  <1>8. StreamsInWait(s)'
    <2>1. sent'[s].instance - 1 = sent[s].instance
      BY <1>3
    <2> QED BY <1>1, <1>2, <1>6, <2>1 DEF StreamInv, StreamsInWait
  <1>9. Counting(s)'
    BY <1>2 DEF Counting
  <1> QED BY <1>3, <1>7, <1>8, <1>9 DEF StreamInv

(***************************************************************************)
(* pushSRI of a known stream ID makes no stream: at least the stream of    *)
(* the current instance has not received its EOS.                          *)
(***************************************************************************)
LEMMA NeverAllEnded ==
    ASSUME TypeInv, OrderInv, NEW s \in Streams, StreamInv(s), call[s].at = "count"
    PROVE  ~allEnded(s) /\ currentHs[s] # NoSRI /\ made(s)
  <1>o. TypeOK /\ PacketsInv
    BY DEF TypeInv, OrderInv
  <1>1. currentHs[s] # NoSRI
    BY DEF TypeInv, ThreadsInv, SRIKnown, inHand
  <1>2. made(s)
    BY <1>1 DEF made
  <1>3. streams[s] # NoStream
    BY <1>2, OverIsActive
  <1>4. streams[s].instance \in Nat
    BY <1>3, <1>o DEF TypeOK, Stream
  <1>5. Len(pendingStreams[s]) \in Nat
    <2>1. pendingStreams[s] \in Seq(Stream)
      BY <1>o DEF TypeOK
    <2> QED BY <2>1
  <1>6. call[s].eosCount \in Nat /\ sent[s].instance \in Nat
    BY <1>o DEF TypeOK, Call, Sent
  <1>7. streams[s].instance + Len(pendingStreams[s]) = sent[s].instance
    BY <1>2, <1>3 DEF StreamInv, StreamsInWait
  <1>8. call[s].eosCount <= sent[s].instance - streams[s].instance
                                - (IF leaving(s) THEN 1 ELSE 0)
    BY DEF StreamInv, Counting
  <1>9. ~(1 + Len(pendingStreams[s]) = call[s].eosCount)
    BY <1>4, <1>5, <1>6, <1>7, <1>8
  <1> QED BY <1>1, <1>2, <1>9 DEF allEnded

\* Each step of the upstream thread of s fits its streams to its instances.
LEMMA UpstreamStream ==
    ASSUME TypeInv, NoDiscards, OrderInv, EndsInv, NEW s \in Streams, StreamInv(s),
           Push(s) \/ Upstream(s)
    PROVE  /\ StreamInv(s)'
           /\ made(s) => made(s)' \/ sent'[s].instance = sent[s].instance + 1
  <1>o. TypeOK /\ PacketsInv /\ AllEnabled
    BY DEF TypeInv, OrderInv
  <1>c. call \in [Streams -> Call]
    BY <1>o DEF TypeOK
  <1>h. currentHs \in [Streams -> KnownSRI \cup {NoSRI}]
    BY <1>o DEF TypeOK
  <1>s. sent \in [Streams -> Sent]
    BY <1>o DEF TypeOK
  <1>n. NoCall.at = "idle"
    BY DEF NoCall
  <1>a. /\ streams[s] # NoStream => streams[s].enabled
        /\ call[s].at \notin {"refused", "off"}
    BY <1>o DEF AllEnabled
  <1>g. call[s].at # "again"
    BY DEF StreamInv, Counting
  <1>k. ASSUME UNCHANGED <<streams, pendingStreams>>,
               sent'[s].instance = sent[s].instance,
               made(s)' <=> made(s),
               call'[s].at \notin {"count", "again"}
        PROVE  /\ StreamInv(s)'
               /\ made(s) => made(s)' \/ sent'[s].instance = sent[s].instance + 1
    <2>1. Kept(s)
      BY <1>o, <1>k, UpstreamKeeps
    <2> QED BY <1>k, <2>1, KeptStream
  <1>1. ASSUME NEW H \in SRIs, pushSRI(s, H), currentHs[s] = NoSRI
        PROVE  /\ StreamInv(s)'
               /\ made(s) => made(s)' \/ sent'[s].instance = sent[s].instance + 1
    <2>1. /\ call' = [call EXCEPT ![s].at = "create"]
          /\ sent' = counted(s)
          /\ UNCHANGED <<streams, pendingStreams>>
      BY <1>1 DEF pushSRI
    <2>2. call'[s].at = "create"
      BY <1>c, <2>1 DEF Call
    <2>3. sent'[s].instance = sent[s].instance
      BY <1>s, <2>1 DEF counted, Sent
    <2>4. ~made(s) /\ ~made(s)'
      BY <1>1, <2>2 DEF made
    <2> QED BY <1>k, <2>1, <2>2, <2>3, <2>4
  <1>2. ASSUME NEW H \in SRIs, pushSRI(s, H), currentHs[s] # NoSRI
        PROVE  /\ StreamInv(s)'
               /\ made(s) => made(s)' \/ sent'[s].instance = sent[s].instance + 1
    BY <1>2, CountedStream
  <1>3. ASSUME NEW data \in BOOLEAN, NEW EOS \in BOOLEAN, pushPacket(s, data, EOS)
        PROVE  /\ StreamInv(s)'
               /\ made(s) => made(s)' \/ sent'[s].instance = sent[s].instance + 1
    <2>1. acceptPacket(s) /\ maxQueue # 0
      BY <1>o, <1>a DEF acceptPacket, TypeOK, NoDiscards
    <2> DEFINE dropped == ~(data \/ EOS)
    <2>2. /\ call[s].at = "idle"
          /\ call' = [call EXCEPT ![s] =
                  [call[s] EXCEPT !.at = IF dropped THEN "idle" ELSE "accepted",
                                  !.data = data /\ ~dropped,
                                  !.EOS = EOS /\ ~dropped]]
          /\ sent' = [counted(s) EXCEPT ![s].instance = counted(s)[s].instance,
                                        ![s].data = counted(s)[s].data]
          /\ UNCHANGED <<currentHs, streams, pendingStreams>>
      BY <1>3, <2>1 DEF pushPacket, mayCall
    <2>3. call'[s].at \in {"idle", "accepted"}
      BY <1>c, <2>2 DEF Call
    <2>4. sent'[s].instance = sent[s].instance
      BY <1>s, <2>2 DEF counted, Sent
    <2>5. made(s)' <=> made(s)
      BY <2>2, <2>3 DEF made
    <2> QED BY <1>k, <2>2, <2>3, <2>4, <2>5
  <1>4. CASE pushSRIDecide(s)
    <2>1. /\ call[s].at = "count"
          /\ UNCHANGED <<streams, pendingStreams, sent>>
      BY <1>4 DEF pushSRIDecide
    <2>2. ~allEnded(s) /\ currentHs[s] # NoSRI /\ made(s)
      BY <2>1, NeverAllEnded
    <2>3. /\ call' = [call EXCEPT ![s] = NoCall]
          /\ currentHs' = currentHs \/ currentHs' = [currentHs EXCEPT ![s] = updated(s)]
      BY <1>4, <2>2 DEF pushSRIDecide
    <2>4. updated(s) # NoSRI
      <3>1. call[s].SRI \in SRI
        BY <1>c DEF Call
      <3>2. updated(s) \in KnownSRI
        BY <3>1 DEF updated, KnownSRI
      <3> QED BY <3>2, InPortConstants
    <2>5. call'[s].at = "idle" /\ currentHs'[s] # NoSRI
      BY <1>c, <1>h, <1>n, <2>2, <2>3, <2>4
    <2>6. made(s)'
      BY <2>5 DEF made
    <2> QED BY <1>k, <2>1, <2>2, <2>5, <2>6
  <1>5. CASE createStream(s)
    BY <1>5, CreatedStream
  <1>6. CASE lookupSRI(s)
    <2>1. /\ call[s].at = "accepted"
          /\ UNCHANGED <<streams, pendingStreams, sent>>
      BY <1>6 DEF lookupSRI
    <2>2. CASE currentHs[s] # NoSRI
      <3>1. /\ call' = [call EXCEPT ![s] =
                  [call[s] EXCEPT !.at = "looked", !.SRI = currentHs[s].SRI,
                                  !.sriChanged = currentHs[s].changed]]
            /\ currentHs' = [currentHs EXCEPT ![s].changed = FALSE]
        BY <1>6, <2>2 DEF lookupSRI
      <3>2. currentHs'[s] \in KnownSRI
        BY <1>h, <2>2, <3>1 DEF KnownSRI
      <3>3. call'[s].at = "looked"
        BY <1>c, <3>1 DEF Call
      <3>4. made(s) /\ made(s)'
        BY <2>1, <2>2, <3>2, <3>3, InPortConstants DEF made
      <3> QED BY <1>k, <2>1, <3>3, <3>4
    <2>3. CASE currentHs[s] = NoSRI
      <3>1. call' = [call EXCEPT ![s] =
                  [call[s] EXCEPT !.at = "new", !.SRI = DefaultSRI, !.sriChanged = TRUE]]
        BY <1>6, <2>3 DEF lookupSRI
      <3>2. call'[s].at = "new"
        BY <1>c, <3>1 DEF Call
      <3>3. ~made(s) /\ ~made(s)'
        BY <2>3, <3>2 DEF made
      <3> QED BY <1>k, <2>1, <3>2, <3>3
    <2> QED BY <2>2, <2>3
  <1>7. CASE queuePacket(s) \/ woken(s) \/ flushAndQueue(s)
    <2>1. call[s].at \in {"looked", "woken", "full"} /\ UNCHANGED <<streams, pendingStreams>>
      BY <1>7 DEF queuePacket, woken, flushAndQueue
    <2>2. currentHs[s] # NoSRI
      BY <2>1 DEF TypeInv, ThreadsInv, SRIKnown, inHand
    <2>3. \/ \E q, c, f : enqueue(s, q, c, f)
          \/ /\ sent' = sent
             /\ \E p \in {"waiting", "full"} : call' = [call EXCEPT ![s].at = p]
      BY <1>7 DEF queuePacket, woken, flushAndQueue, replace
    <2>4. call'[s].at \in {"ended", "idle", "waiting", "full"}
          /\ sent'[s].instance = sent[s].instance
      <3>1. CASE \E q, c, f : enqueue(s, q, c, f)
        <4>1. /\ \/ call[s].EOS /\ call'[s] = [call[s] EXCEPT !.at = "ended"]
                 \/ ~call[s].EOS /\ call'[s] = NoCall
              /\ sent'[s] = [sent[s] EXCEPT !.data = IF call[s].data THEN @ + 1 ELSE @]
          BY <1>o, <3>1, EnqueueThreads
        <4> QED BY <1>c, <1>s, <1>n, <4>1 DEF Call, Sent
      <3>2. CASE /\ sent' = sent
                 /\ \E p \in {"waiting", "full"} : call' = [call EXCEPT ![s].at = p]
        BY <1>c, <3>2 DEF Call
      <3> QED BY <2>3, <3>1, <3>2
    <2>5. currentHs'[s] # NoSRI
      <3>1. currentHs' = currentHs \/ currentHs' = [currentHs EXCEPT ![s].changed = FALSE]
        BY <1>7 DEF queuePacket, woken, flushAndQueue, replace
      <3>2. currentHs'[s] \in KnownSRI
        BY <1>h, <2>2, <3>1 DEF KnownSRI
      <3> QED BY <3>2, InPortConstants
    <2>6. made(s) /\ made(s)'
      BY <2>1, <2>2, <2>4, <2>5 DEF made
    <2> QED BY <1>k, <2>1, <2>4, <2>6
  <1>8. CASE forgetSRI(s)
    BY <1>8, ForgottenStream
  <1>9. ~refusedEOS(s) /\ ~refusedOff(s)
    BY <1>a DEF refusedEOS, refusedOff
  <1> QED BY <1>1, <1>2, <1>3, <1>4, <1>5, <1>6, <1>7, <1>8, <1>9 DEF Push, Upstream

-----------------------------------------------------------------------------
(* The component.                                                          *)

\* The component makes no stream, and counts nothing.
LEMMA ComponentCalls ==
    ASSUME TypeOK, Reader \/ Control, NEW s \in Streams, StreamInv(s)
    PROVE  /\ sent'[s].instance = sent[s].instance
           /\ made(s)' <=> made(s)
           /\ call'[s].at # "again"
           /\ call'[s].at = "count" =>
                 call[s].at = "count" /\ call'[s].eosCount = call[s].eosCount
  <1>1. /\ UNCHANGED <<currentHs, sent>>
        /\ \/ call'[s] = call[s]
           \/ /\ call[s].at = "waiting"
              /\ call'[s] = [call[s] EXCEPT !.at = "woken"]
    BY ComponentFrame
  <1>2. call[s] \in Call /\ call[s].at # "again"
    BY DEF TypeOK, StreamInv, Counting
  <1>3. call'[s] = call[s] \/ (call[s].at = "waiting" /\ call'[s].at = "woken")
    BY <1>1, <1>2 DEF Call
  <1>4. made(s)' <=> made(s)
    BY <1>1, <1>3 DEF made
  <1> QED BY <1>1, <1>2, <1>3, <1>4

\* Nothing of the stream s is read or removed.
LEMMA ComponentKeeps ==
    ASSUME TypeOK, Reader \/ Control, NEW s \in Streams, StreamInv(s),
           streams'[s] = streams[s], pendingStreams'[s] = pendingStreams[s],
           ended(s)' = ended(s),
           leaving(s)' <=> leaving(s),
           over(s)' <=> over(s)
    PROVE  StreamInv(s)' /\ (made(s)' <=> made(s))
  <1>1. Kept(s) /\ (made(s)' <=> made(s))
    BY ComponentCalls DEF Kept
  <1> QED BY <1>1, KeptStream

\* The reader goes on without reading or removing anything.
LEMMA GotoKeeps ==
    ASSUME TypeOK, Reader \/ Control, \A s \in Streams : StreamInv(s),
           NEW p, NEW i, goto(p, i),
           reader.at \notin {"fetched", "turnoff", "remove"},
           p \notin {"fetched", "turnoff"},
           p = "remove" => reached(i)
    PROVE  \A s \in Streams : StreamInv(s)' /\ (made(s)' <=> made(s))
  <1> SUFFICES ASSUME NEW s \in Streams
               PROVE  StreamInv(s)' /\ (made(s)' <=> made(s))
    OBVIOUS
  <1>1. reader' = [at |-> p, id |-> i] /\ UNCHANGED <<streams, pendingStreams, last>>
    BY DEF goto, port
  <1>2. ended(s)' = ended(s) /\ (reached(s)' <=> reached(s))
    BY <1>1 DEF ended, reached
  <1>3. ~fetched(s) /\ ~fetched(s)' /\ ~removing(s) /\ (removing(s)' => reached(s))
    BY <1>1 DEF fetched, removing
  <1>4. (leaving(s)' <=> leaving(s)) /\ (over(s)' <=> over(s))
    BY <1>2, <1>3 DEF leaving, over
  <1> QED BY <1>1, <1>2, <1>4, ComponentKeeps

\* Starting, stopping and sizing the port.
LEMMA ControlKeeps ==
    ASSUME TypeOK, NoDiscards, Control, \A s \in Streams : StreamInv(s)
    PROVE  \A s \in Streams : StreamInv(s)' /\ (made(s)' <=> made(s))
  <1> SUFFICES ASSUME NEW s \in Streams
               PROVE  StreamInv(s)' /\ (made(s)' <=> made(s))
    OBVIOUS
  <1>1. /\ UNCHANGED <<streams, pendingStreams, last>>
        /\ reader' = reader \/ reader' = dataAvailable
    BY DEF NoDiscards, Control, enable, disable, block, unblock, setMaxQueueDepth
  <1>2. /\ reader'.id = reader.id
        /\ reader'.at = reader.at \/ (reader.at = "sleeping" /\ reader'.at = "peek")
    <2>1. reader \in ReaderState
      BY DEF TypeOK
    <2> QED BY <1>1, <2>1 DEF dataAvailable, ReaderState
  <1>3. ended(s)' = ended(s) /\ (reached(s)' <=> reached(s))
    BY <1>1 DEF ended, reached
  <1>4. (fetched(s)' <=> fetched(s)) /\ (removing(s)' <=> removing(s))
    BY <1>2 DEF fetched, removing
  <1>5. (leaving(s)' <=> leaving(s)) /\ (over(s)' <=> over(s))
    BY <1>3, <1>4 DEF leaving, over
  <1> QED BY <1>1, <1>3, <1>5, ComponentKeeps

\* A packet is read: only if it is an EOS does it matter to its stream.
LEMMA TakenStream ==
    ASSUME TypeInv, NoDiscards, OrderInv, EndsInv, MadeQueued,
           \A s \in Streams : StreamInv(s),
           Reader \/ Control, NEW u \in Streams, nextPacket(u),
           reader.at \in {"ready", "got"},
           ~reached(u)
    PROVE  \A s \in Streams : StreamInv(s)' /\ (made(s)' <=> made(s))
  <1>o. TypeOK /\ PacketsInv /\ AllEnabled
    BY DEF TypeInv, OrderInv
  <1>1. PICK i \in fetchPacket(u) :
            /\ DataFree
            /\ packetQueue' = RemoveAt(packetQueue, i)
            /\ last' = [last EXCEPT ![u] = packetQueue[i]]
            /\ reader' = [at |-> IF packetQueue[i].EOS THEN "fetched" ELSE "ready",
                          id |-> u]
            /\ UNCHANGED <<streams, pendingStreams>>
    BY DEF nextPacket
  <1>2. Taken(u, i)
    <2>1. \A s \in Streams : call[s] \in Call
      BY <1>o DEF TypeOK
    <2>2. \A s \in Streams : \/ call'[s] = call[s]
                             \/ call[s].at = "waiting" /\ call'[s].at = "woken"
      BY <1>o, <2>1, ComponentFrame DEF Call
    <2>3. \A s \in Streams : sameSent(s) /\ sameEnd(s)
      BY <1>o, <2>2, ComponentFrame DEF sameSent, sameEnd
    <2> QED BY <1>1, <2>3 DEF Taken
  <1>3. /\ ended(u)' = IF packetQueue[i].EOS THEN ended(u) + 1 ELSE ended(u)
        /\ \A t \in Streams \ {u} : ended(t)' = ended(t)
    BY <1>o, <1>2, EndsTaken
  <1>4. \A s \in Streams : /\ ~fetched(s) /\ ~removing(s) /\ ~removing(s)'
                           /\ fetched(s)' <=> (s = u /\ packetQueue[i].EOS)
                           /\ reached(s)' <=> reached(s)
    BY <1>1 DEF fetched, removing, reached
  <1>5. \A s \in Streams : /\ leaving(s)' <=> leaving(s)
                           /\ over(s)' <=> (over(s) \/ (s = u /\ packetQueue[i].EOS))
    BY <1>4 DEF leaving, over
  <1>6. ASSUME NEW s \in Streams, ~(s = u /\ packetQueue[i].EOS)
        PROVE  StreamInv(s)' /\ (made(s)' <=> made(s))
    <2>1. ended(s)' = ended(s)
      BY <1>3, <1>6
    <2> QED BY <1>o, <1>1, <1>5, <1>6, <2>1, ComponentKeeps
  <1>7. ASSUME packetQueue[i].EOS
        PROVE  StreamInv(u)' /\ (made(u)' <=> made(u))
    <2>1. /\ sent'[u].instance = sent[u].instance
          /\ made(u)' <=> made(u)
          /\ call'[u].at # "again"
          /\ call'[u].at = "count" =>
                 call[u].at = "count" /\ call'[u].eosCount = call[u].eosCount
      BY <1>o, ComponentCalls
    <2>2. ~over(u) /\ over(u)' /\ (leaving(u)' <=> leaving(u)) /\ ended(u)' = ended(u) + 1
      BY <1>3, <1>4, <1>5, <1>7 DEF over, leaving
    <2>3. streams[u] # NoStream
      <3>1. packetQueue[i].instance = ended(u) + 1
        BY <1>o, FirstNext
      <3>2. i \in DOMAIN packetQueue /\ packetQueue[i].streamID = u
        BY DEF fetchPacket, first, positions
      <3>3. sent[u].instance \in Nat
        BY <1>o DEF TypeOK, Sent
      <3>4. packetQueue[i].instance = sent[u].instance => made(u)
        BY <3>2 DEF MadeQueued, positions
      <3> QED BY <3>1, <3>3, <3>4 DEF StreamInv, ActiveStream
    <2>4. ActiveStream(u)'
      BY <1>1, <2>2, <2>3 DEF StreamInv, ActiveStream
    <2>5. StreamsInWait(u)'
      BY <1>1, <2>1, <2>3 DEF StreamInv, StreamsInWait
    <2>6. Counting(u)'
      BY <1>1, <2>1, <2>2 DEF StreamInv, Counting
    <2> QED BY <2>1, <2>4, <2>5, <2>6 DEF StreamInv
  <1> QED BY <1>6, <1>7

\* The EOS that was read is recorded: its stream will be removed.
LEMMA LeavingStream ==
    ASSUME TypeOK, Reader \/ Control, NEW u \in Streams, StreamInv(u),
           over(u), over(u)', leaving(u)',
           \/ streams'[u] = streams[u]
           \/ "streams" \in Environment
              /\ streams'[u] = [streams[u] EXCEPT !.eos = "REACHED"],
           pendingStreams'[u] = pendingStreams[u],
           ended(u)' = ended(u),
           call[u].at = "count" => leaving(u)
    PROVE  StreamInv(u)' /\ (made(u)' <=> made(u))
  <1>1. /\ sent'[u].instance = sent[u].instance
        /\ made(u)' <=> made(u)
        /\ call'[u].at # "again"
        /\ call'[u].at = "count" =>
               call[u].at = "count" /\ call'[u].eosCount = call[u].eosCount
    BY ComponentCalls
  <1>2. streams[u] # NoStream /\ streams[u].instance = ended(u)
    BY OverIsActive
  <1>3. /\ streams'[u] # NoStream
        /\ streams'[u].instance = streams[u].instance
        /\ "streams" \notin Environment => streams'[u].eos = streams[u].eos
    <2>1. streams[u] \in Stream
      BY <1>2 DEF TypeOK
    <2>2. [streams[u] EXCEPT !.eos = "REACHED"] \in Stream
          /\ [streams[u] EXCEPT !.eos = "REACHED"].instance = streams[u].instance
      BY <2>1 DEF Stream, EosState
    <2> QED BY <1>2, <2>2, InPortConstants
  <1>4. ActiveStream(u)'
    BY <1>2, <1>3 DEF StreamInv, ActiveStream
  <1>5. StreamsInWait(u)'
    BY <1>1, <1>2, <1>3 DEF StreamInv, StreamsInWait
  <1>6. Counting(u)'
    BY <1>1, <1>3 DEF StreamInv, Counting
  <1> QED BY <1>1, <1>4, <1>5, <1>6 DEF StreamInv

\* handleEOS and turnOff, which finish reading an EOS.
LEMMA FinishedStreams ==
    ASSUME TypeInv, handleEOS \/ turnOff, \A s \in Streams : StreamInv(s)
    PROVE  \A s \in Streams : StreamInv(s)' /\ (made(s)' <=> made(s))
  <1>o. TypeOK /\ (Reader \/ Control)
    BY DEF TypeInv, Reader
  <1>t. streams \in [Streams -> Stream \cup {NoStream}] /\ reader \in ReaderState
    BY <1>o DEF TypeOK
  <1>1. PICK u \in Streams :
            /\ u = reader.id
            /\ reader.at \in {"fetched", "turnoff"}
            /\ reader.at = "fetched" => SriFree
            /\ UNCHANGED <<pendingStreams, last>>
            /\ \/ /\ reader.at = "fetched"
                  /\ reader' = [reader EXCEPT !.at = "turnoff"]
                  /\ UNCHANGED streams
               \/ finished(u)
    <2>1. reader.id \in Streams
      BY DEF handleEOS, turnOff, TypeInv, ThreadsInv, ReaderKnows
    <2> QED BY <2>1 DEF handleEOS, turnOff
  <1>3. over(u) /\ streams[u] # NoStream
    <2>1. over(u)
      BY <1>1 DEF over, leaving, fetched, removing
    <2> QED BY <2>1, OverIsActive
  <1>4. \/ /\ UNCHANGED streams
           /\ reader'.at \in {"turnoff", "remove"} /\ reader'.id = u
        \/ /\ "streams" \in Environment
           /\ streams' = [streams EXCEPT ![u].eos = "REACHED"]
           /\ reader'.at \in {"remove", "ready"} /\ reader'.id = u
    BY <1>t, <1>1 DEF finished, ReaderState
  <1>5. /\ \/ streams'[u] = streams[u] /\ removing(u)'
           \/ "streams" \in Environment
              /\ streams'[u] = [streams[u] EXCEPT !.eos = "REACHED"]
              /\ reached(u)'
        /\ \A s \in Streams \ {u} : streams'[s] = streams[s]
    <2>1. CASE UNCHANGED streams /\ reader'.at \in {"turnoff", "remove"} /\ reader'.id = u
      BY <2>1 DEF removing
    <2>2. CASE /\ "streams" \in Environment
               /\ streams' = [streams EXCEPT ![u].eos = "REACHED"]
      <3>1. streams[u] \in Stream
        BY <1>t, <1>3
      <3>2. streams'[u] = [streams[u] EXCEPT !.eos = "REACHED"]
            /\ \A s \in Streams \ {u} : streams'[s] = streams[s]
        BY <1>t, <2>2
      <3>3. streams'[u] \in Stream /\ streams'[u].eos = "REACHED"
        BY <3>1, <3>2 DEF Stream, EosState
      <3>4. reached(u)'
        BY <3>3, InPortConstants DEF reached
      <3> QED BY <2>2, <3>2, <3>4
    <2> QED BY <1>4, <2>1, <2>2
  <1>6. leaving(u)' /\ over(u)'
    BY <1>5 DEF leaving, over
  <1>7. call[u].at = "count" => leaving(u)
    BY <1>1 DEF SriFree, leaving, removing
  <1>8. \A s \in Streams : ended(s)' = ended(s)
    BY <1>1 DEF ended
  <1>9. StreamInv(u)' /\ (made(u)' <=> made(u))
    <2>1. pendingStreams'[u] = pendingStreams[u]
      BY <1>1
    <2>2. ended(u)' = ended(u)
      BY <1>8
    <2> QED BY <1>o, <1>3, <1>5, <1>6, <1>7, <2>1, <2>2, LeavingStream
  <1>10. ASSUME NEW s \in Streams \ {u} PROVE StreamInv(s)' /\ (made(s)' <=> made(s))
    <2>1. /\ ~fetched(s) /\ ~fetched(s)' /\ ~removing(s) /\ ~removing(s)'
          /\ reached(s)' <=> reached(s)
      <3>1. reader.id = u
        BY <1>1
      <3> QED BY <1>4, <1>5, <3>1 DEF fetched, removing, reached
    <2>2. (leaving(s)' <=> leaving(s)) /\ (over(s)' <=> over(s))
      BY <2>1 DEF leaving, over
    <2>3. /\ streams'[s] = streams[s] /\ pendingStreams'[s] = pendingStreams[s]
          /\ ended(s)' = ended(s)
      BY <1>1, <1>5, <1>8
    <2> QED BY <1>o, <2>2, <2>3, ComponentKeeps
  <1> QED BY <1>9, <1>10

\* removeStream: the stream that waited longest takes the place of the one
\* that has ended.
LEMMA RemovedStreams ==
    ASSUME TypeInv, EndsInv, removeStream, \A s \in Streams : StreamInv(s)
    PROVE  \A s \in Streams : StreamInv(s)' /\ (made(s)' <=> made(s))
  <1>o. TypeOK /\ (Reader \/ Control)
    BY DEF TypeInv, Reader
  <1>t. streams \in [Streams -> Stream \cup {NoStream}] /\ reader \in ReaderState
    BY <1>o DEF TypeOK
  <1>w. pendingStreams \in [Streams -> Seq(Stream)]
    BY <1>o DEF TypeOK
  <1>1. PICK u \in Streams :
            /\ reader.id = u /\ reader.at = "remove"
            /\ reader'.at = "ready" /\ reader'.id = u
            /\ UNCHANGED last
            /\ IF pendingStreams[u] # <<>>
               THEN /\ streams' = [streams EXCEPT ![u] = Head(pendingStreams[u])]
                    /\ pendingStreams' = [pendingStreams EXCEPT ![u] = Tail(@)]
               ELSE /\ streams' = [streams EXCEPT ![u] = NoStream]
                    /\ UNCHANGED pendingStreams
    <2>1. reader.at = "remove" /\ reader.id \in Streams
      BY DEF removeStream, TypeInv, ThreadsInv, ReaderKnows
    <2>2. reader'.at = "ready" /\ reader'.id = reader.id
      BY <1>t DEF removeStream, ReaderState
    <2> QED BY <2>1, <2>2 DEF removeStream
  <1>2. /\ \A s \in Streams : ended(s)' = ended(s)
        /\ \A s \in Streams : ~fetched(s)' /\ ~removing(s)' /\ ~fetched(s)
        /\ \A s \in Streams : removing(s) <=> s = u
    BY <1>1 DEF ended, fetched, removing
  <1>3. leaving(u) /\ over(u)
    BY <1>2 DEF leaving, over
  <1>4. streams[u] # NoStream /\ streams[u].instance = ended(u)
    BY <1>3, OverIsActive
  <1>5. /\ sent'[u].instance = sent[u].instance
        /\ made(u)' <=> made(u)
        /\ call'[u].at # "again"
        /\ call'[u].at = "count" =>
               call[u].at = "count" /\ call'[u].eosCount = call[u].eosCount
    BY <1>o, ComponentCalls
  <1>6. streams[u].instance \in Nat /\ sent[u].instance \in Nat /\ call[u].eosCount \in Nat
    BY <1>o, <1>4 DEF TypeOK, Stream, Sent, Call
  <1>7. ASSUME pendingStreams[u] # <<>> PROVE StreamInv(u)'
    <2>1. PICK P : P = pendingStreams[u]
      OBVIOUS
    <2>2. P \in Seq(Stream) /\ P # <<>>
      BY <1>w, <1>7, <2>1
    <2>3. /\ \A n \in DOMAIN P : /\ P[n].instance = streams[u].instance + n
                                 /\ P[n].eos = "NONE"
          /\ streams[u].instance + Len(P)
                 = IF made(u) THEN sent[u].instance ELSE sent[u].instance - 1
      BY <1>4, <2>1 DEF StreamInv, StreamsInWait
    <2>4. /\ Len(P) \in Nat /\ Len(P) >= 1 /\ DOMAIN P = 1 .. Len(P)
          /\ Head(P) = P[1] /\ P[1] \in Stream
          /\ Tail(P) \in Seq(Stream) /\ Len(Tail(P)) = Len(P) - 1
          /\ \A n \in 1 .. Len(P) - 1 : Tail(P)[n] = P[n + 1]
      BY <2>2
    <2>5. PICK T : T = Tail(P)
      OBVIOUS
    <2>6. streams'[u] = P[1] /\ pendingStreams'[u] = T
      BY <1>t, <1>w, <1>1, <1>7, <2>1, <2>4, <2>5
    <2>7. P[1].instance = streams[u].instance + 1 /\ P[1].eos = "NONE" /\ P[1] # NoStream
      BY <2>3, <2>4, InPortConstants
    <2>8. ~reached(u)' /\ ~leaving(u)' /\ ~over(u)'
      BY <1>2, <2>6, <2>7 DEF reached, leaving, over
    <2>9. ActiveStream(u)'
      BY <1>2, <1>4, <2>6, <2>7, <2>8 DEF ActiveStream
    <2>10. \A n \in DOMAIN T : /\ T[n].instance = P[1].instance + n
                               /\ T[n].eos = "NONE"
      <3>1. DOMAIN T = 1 .. Len(P) - 1
        BY <2>4, <2>5
      <3> SUFFICES ASSUME NEW n \in 1 .. Len(P) - 1
                   PROVE  T[n].instance = P[1].instance + n /\ T[n].eos = "NONE"
        BY <3>1
      <3>2. T[n] = P[n + 1] /\ n + 1 \in DOMAIN P
        BY <2>4, <2>5
      <3>3. P[n + 1].instance = streams[u].instance + (n + 1) /\ P[n + 1].eos = "NONE"
        BY <2>3, <3>2
      <3>4. n \in Int
        BY <2>4
      <3> QED BY <1>6, <2>7, <3>2, <3>3, <3>4
    <2>11. P[1].instance + Len(T)
               = IF made(u) THEN sent[u].instance ELSE sent[u].instance - 1
      <3>1. Len(P) \in Nat /\ Len(T) = Len(P) - 1
        BY <2>4, <2>5
      <3>2. P[1].instance + Len(T) = streams[u].instance + Len(P)
        BY <1>6, <2>7, <3>1
      <3> QED BY <2>3, <3>2
    <2>12. StreamsInWait(u)'
      <3>1. \A n \in DOMAIN pendingStreams'[u] :
               /\ pendingStreams'[u][n].instance = streams'[u].instance + n
               /\ pendingStreams'[u][n].eos = "NONE"
        BY <2>6, <2>10
      <3>2. streams'[u].instance + Len(pendingStreams'[u])
                = IF made(u)' THEN sent'[u].instance ELSE sent'[u].instance - 1
        BY <1>5, <2>6, <2>11
      <3> QED BY <3>1, <3>2 DEF StreamsInWait
    <2>13. Counting(u)'
      <3>1. call[u].at = "count" =>
               call[u].eosCount <= sent[u].instance - streams[u].instance - 1
        BY <1>3 DEF StreamInv, Counting
      <3>2. call[u].at = "count" =>
               call[u].eosCount <= sent[u].instance - P[1].instance - 0
        BY <1>6, <2>7, <3>1
      <3> QED BY <1>5, <2>6, <2>8, <3>2 DEF Counting
    <2> QED BY <1>5, <2>9, <2>12, <2>13 DEF StreamInv
  <1>8. ASSUME pendingStreams[u] = <<>> PROVE StreamInv(u)'
    <2>1. streams'[u] = NoStream /\ pendingStreams'[u] = <<>>
      BY <1>t, <1>1, <1>8
    <2>2. ended(u) = IF made(u) THEN sent[u].instance ELSE sent[u].instance - 1
      <3>1. streams[u].instance + Len(pendingStreams[u])
                = IF made(u) THEN sent[u].instance ELSE sent[u].instance - 1
        BY <1>4 DEF StreamInv, StreamsInWait
      <3>2. Len(pendingStreams[u]) = 0
        BY <1>8
      <3> QED BY <1>4, <1>6, <3>1, <3>2
    <2>3. ended(u) < sent[u].instance
      BY DEF EndsInv
    <2>4. ~made(u) /\ ended(u) = sent[u].instance - 1
      BY <1>6, <2>2, <2>3
    <2>5. ~leaving(u)' /\ ~over(u)'
      BY <1>2, <2>1 DEF reached, leaving, over
    <2>6. ActiveStream(u)'
      BY <1>2, <1>5, <2>1, <2>4, <2>5 DEF ActiveStream
    <2>7. StreamsInWait(u)'
      BY <2>1 DEF StreamsInWait
    <2>8. call[u].at # "count"
      BY <2>4 DEF made, TypeInv, ThreadsInv, SRIKnown, inHand
    <2>9. Counting(u)'
      BY <1>5, <2>8 DEF Counting
    <2> QED BY <1>5, <2>6, <2>7, <2>9 DEF StreamInv
  <1>9. ASSUME NEW s \in Streams \ {u} PROVE StreamInv(s)' /\ (made(s)' <=> made(s))
    <2>1. streams'[s] = streams[s] /\ pendingStreams'[s] = pendingStreams[s]
      BY <1>t, <1>w, <1>1
    <2>2. (reached(s)' <=> reached(s)) /\ ~removing(s)
      BY <1>2, <2>1 DEF reached
    <2>3. (leaving(s)' <=> leaving(s)) /\ (over(s)' <=> over(s))
      BY <1>2, <2>2 DEF leaving, over
    <2> QED BY <1>o, <1>2, <2>1, <2>3, ComponentKeeps
  <1> QED BY <1>5, <1>7, <1>8, <1>9

\* Each step of the component fits the streams to their instances.
LEMMA ComponentStreams ==
    ASSUME TypeInv, NoDiscards, OrderInv, EndsInv, MadeQueued,
           \A s \in Streams : StreamInv(s),
           Reader \/ Control
    PROVE  \A s \in Streams : StreamInv(s)' /\ (made(s)' <=> made(s))
  <1>o. TypeOK /\ AllEnabled
    BY DEF TypeInv, OrderInv
  <1>1. CASE Control
    BY <1>o, <1>1, ControlKeeps
  <1>2. ASSUME NEW u \in Streams, getPacket(u)
        PROVE  \A s \in Streams : StreamInv(s)' /\ (made(s)' <=> made(s))
    <2>1. "streams" \notin Environment /\ reader.at = "ready" /\ nextPacket(u)
      BY <1>2 DEF getPacket
    <2>2. ~reached(u)
      BY <2>1 DEF reached, StreamInv, ActiveStream
    <2> QED BY <2>1, <2>2, TakenStream
  <1>3. CASE read
    <2>1. PICK u \in Streams : u = reader.id /\ nextPacket(u) /\ ~reached(u)
      BY <1>o, <1>3 DEF read, readable, reached, TypeOK, ReaderState
    <2>2. reader.at = "got"
      BY <1>3 DEF read
    <2> QED BY <2>1, <2>2, TakenStream
  <1>4. CASE (\E s \in Streams : eos(s)) \/ getCurrentStream \/ peekPacket
             \/ wait \/ getStream \/ readNothing
    <2>1. PICK p, i : /\ goto(p, i)
                      /\ reader.at \notin {"fetched", "turnoff", "remove"}
                      /\ p \notin {"fetched", "turnoff"}
                      /\ p = "remove" => reached(i)
      <3>1. CASE \E s \in Streams : eos(s)
        BY <3>1 DEF eos, reached
      <3>2. CASE getCurrentStream \/ peekPacket \/ wait \/ getStream
        BY <3>2 DEF getCurrentStream, peekPacket, wait, getStream
      <3>3. CASE readNothing
        <4>1. reader.at = "got" /\ (reader.id # NoStream => streams[reader.id] # NoStream)
          BY <3>3 DEF readNothing, TypeInv, ThreadsInv, ReaderKnows
        <4> QED BY <3>3, <4>1 DEF readNothing, reached
      <3> QED BY <1>4, <3>1, <3>2, <3>3
    <2> QED BY <1>o, <2>1, GotoKeeps
  <1>5. CASE handleEOS \/ turnOff
    BY <1>5, FinishedStreams
  <1>6. CASE removeStream
    BY <1>6, RemovedStreams
  <1>7. ~discardPacketsForStream
    BY <1>o DEF AllEnabled, discardPacketsForStream
  <1> QED BY <1>1, <1>2, <1>3, <1>4, <1>5, <1>6, <1>7 DEF Reader

-----------------------------------------------------------------------------
(* The invariant.                                                          *)

\* Only a push that has looked its stream ID up changes the queue.
LEMMA UpstreamQueues ==
    ASSUME TypeInv, NEW s \in Streams, Push(s) \/ Upstream(s), packetQueue' # packetQueue
    PROVE  made(s)
  <1>1. call[s].at \in {"looked", "woken", "full"}
    BY DEF Push, Upstream, pushSRI, pushPacket, pushSRIDecide, createStream, refusedEOS,
           refusedOff, lookupSRI, queuePacket, woken, flushAndQueue, forgetSRI, port
  <1>2. currentHs[s] # NoSRI
    BY <1>1 DEF TypeInv, ThreadsInv, SRIKnown, inHand
  <1> QED BY <1>1, <1>2 DEF made

\* Packet p has its stream after the step.
stillMade(p) ==
    \A s \in Streams : p.streamID = s /\ p.instance = sent'[s].instance => made(s)'

\* What is left of the queue keeps its stream.
LEMMA StillMade ==
    ASSUME TypeOK, PacketsInv, MadeQueued,
           \A t \in Streams : \/ sent'[t].instance = sent[t].instance /\ (made(t) => made(t)')
                              \/ sent'[t].instance = sent[t].instance + 1
    PROVE  /\ \A k \in DOMAIN packetQueue : stillMade(packetQueue[k])
           /\ \A q, f, g : Thinned(q, packetQueue, f, g) =>
                 \A n \in DOMAIN q : stillMade(q[n])
  <1>1. ASSUME NEW k \in DOMAIN packetQueue PROVE stillMade(packetQueue[k])
    <2> SUFFICES ASSUME NEW t \in Streams, packetQueue[k].streamID = t,
                        packetQueue[k].instance = sent'[t].instance
                 PROVE  made(t)'
      BY DEF stillMade
    <2>1. /\ sent[t].instance \in Nat /\ packetQueue[k].instance \in Nat
          /\ packetQueue[k].instance <= sent[t].instance
      BY AheadOfRead
    <2>2. packetQueue[k].instance = sent[t].instance => made(t)
      BY DEF MadeQueued, positions
    <2>3. \/ sent'[t].instance = sent[t].instance /\ (made(t) => made(t)')
          \/ sent'[t].instance = sent[t].instance + 1
      OBVIOUS
    <2> QED BY <2>1, <2>2, <2>3
  <1>2. ASSUME NEW q, NEW f, NEW g, Thinned(q, packetQueue, f, g), NEW n \in DOMAIN q
        PROVE  stillMade(q[n])
    <2>1. PICK k \in DOMAIN packetQueue : /\ q[n].streamID = packetQueue[k].streamID
                                          /\ q[n].instance = packetQueue[k].instance
      BY <1>2 DEF Thinned
    <2> QED BY <1>1, <2>1 DEF stillMade
  <1> QED BY <1>1, <1>2

\* Then so has all of the queue after the step.
LEMMA AllStillMade ==
    ASSUME \A k \in DOMAIN packetQueue' : stillMade(packetQueue'[k])
    PROVE  MadeQueued'
  <1> SUFFICES ASSUME NEW s \in Streams, NEW i \in DOMAIN packetQueue',
                      packetQueue'[i].streamID = s,
                      packetQueue'[i].instance = sent'[s].instance
               PROVE  made(s)'
    BY DEF MadeQueued, positions
  <1> QED BY DEF stillMade

\* At first nothing is queued, and no stream ID is known.
LEMMA StreamsInit == Init => StreamsInv
  <1> SUFFICES ASSUME Init PROVE StreamsInv
    OBVIOUS
  <1>1. EndsInv
    BY EndsInit
  <1>2. MadeQueued
    BY DEF Init, MadeQueued, positions
  <1>3. ASSUME NEW s \in Streams PROVE StreamInv(s)
    <2>1. /\ streams[s] = NoStream /\ pendingStreams[s] = <<>>
          /\ last[s] = NoPacket /\ sent[s].instance = 1
          /\ call[s].at = "idle" /\ currentHs[s] = NoSRI
          /\ reader.at = "ready"
      BY DEF Init, NoCall
    <2>2. ended(s) = 0 /\ ~made(s)
      BY <2>1 DEF ended, made
    <2>3. ~over(s)
      BY <2>1 DEF over, leaving, reached, removing, fetched
    <2> QED BY <2>1, <2>2, <2>3 DEF StreamInv, ActiveStream, StreamsInWait, Counting
  <1> QED BY <1>1, <1>2, <1>3 DEF StreamsInv

\* Every step keeps the InputStreams fitting their instances.
LEMMA StreamsStep ==
    ASSUME TypeInv, NoDiscards, OrderInv, StreamsInv, [Next]_vars
    PROVE  StreamsInv'
  <1>o. /\ TypeOK /\ PacketsInv /\ AllEnabled /\ EndsInv /\ MadeQueued
        /\ \A s \in Streams : StreamInv(s)
    BY DEF TypeInv, OrderInv, StreamsInv
  <1>q. packetQueue \in Seq(Packet)
    BY <1>o DEF TypeOK
  <1>s. \A s \in Streams : sent[s].instance \in Nat
    BY <1>o DEF TypeOK, Sent
  <1>e. EndsInv'
    BY <1>o, EndsStep
  <1>1. CASE UNCHANGED vars
    BY <1>1, <1>e DEF vars, StreamsInv, MadeQueued, positions, StreamInv, ActiveStream, StreamsInWait,
                      Counting, made, leaving, over, reached, fetched, removing, ended
  <1>2. CASE Reader \/ Control
    <2>1. \A s \in Streams : StreamInv(s)' /\ (made(s)' <=> made(s))
      BY <1>o, <1>2, ComponentStreams
    <2>2. \A t \in Streams : sent'[t].instance = sent[t].instance /\ (made(t) => made(t)')
      BY <1>o, <1>2, <2>1, ComponentCalls
    <2>3. \/ packetQueue' = packetQueue
          \/ \E i \in DOMAIN packetQueue : packetQueue' = RemoveAt(packetQueue, i)
      <3>1. ~Discarded
        BY DEF Discarded, NoDiscards
      <3>2. Quiet \/ \E s \in Streams : \E i \in fetchPacket(s) : Taken(s, i)
        BY <1>o, <1>2, <3>1, ComponentKinds
      <3> QED BY <3>2 DEF Quiet, Taken, fetchPacket, first, positions
    <2>4. \A k \in DOMAIN packetQueue' : stillMade(packetQueue'[k])
      <3>1. CASE packetQueue' = packetQueue
        BY <1>o, <2>2, <3>1, StillMade
      <3>2. ASSUME NEW i \in DOMAIN packetQueue, packetQueue' = RemoveAt(packetQueue, i)
            PROVE  \A k \in DOMAIN packetQueue' : stillMade(packetQueue'[k])
        <4>1. PICK f : Thinned(packetQueue', packetQueue, f, f)
          BY <1>q, <3>2, RemoveAtThins
        <4> QED BY <1>o, <2>2, <4>1, StillMade
      <3> QED BY <2>3, <3>1, <3>2
    <2>5. MadeQueued'
      BY <2>4, AllStillMade
    <2> QED BY <1>e, <2>1, <2>5 DEF StreamsInv
  <1>3. ASSUME NEW s \in Streams, Push(s) \/ Upstream(s) PROVE StreamsInv'
    <2>1. /\ StreamInv(s)'
          /\ made(s) => made(s)' \/ sent'[s].instance = sent[s].instance + 1
      BY <1>o, <1>3, UpstreamStream
    <2>2. \A t \in Streams \ {s} : Kept(t)
      BY <1>o, <1>3, OtherStreams
    <2>3. \A t \in Streams : StreamInv(t)'
      BY <1>o, <2>1, <2>2, KeptStream
    <2>4. Quiet \/ Renewed(s) \/ \E p : Queued(s, p)
      BY <1>3, UpstreamKinds DEF SamplesStay
    <2>5. sent'[s].instance \in {sent[s].instance, sent[s].instance + 1}
      BY <2>4 DEF Quiet, Renewed, Queued, sameSent
    <2>6. \A t \in Streams : \/ sent'[t].instance = sent[t].instance /\ (made(t) => made(t)')
                             \/ sent'[t].instance = sent[t].instance + 1
      BY <1>s, <2>1, <2>2, <2>5 DEF Kept
    <2>7. \A k \in DOMAIN packetQueue' : stillMade(packetQueue'[k])
      <3>1. CASE packetQueue' = packetQueue
        BY <1>o, <2>6, <3>1, StillMade
      <3>2. CASE packetQueue' # packetQueue
        <4>1. PICK p : Queued(s, p)
          BY <2>4, <3>2 DEF Quiet, Renewed
        <4>2. PICK q, f, g : /\ Thinned(q, packetQueue, f, g)
                            /\ packetQueue' = Append(q, p)
          BY <4>1 DEF Queued
        <4>3. p \in Packet /\ p.streamID = s /\ sent'[s].instance = sent[s].instance
          BY <4>1 DEF Queued
        <4>4. stillMade(p)
          <5>1. made(s)
            BY <1>3, <3>2, UpstreamQueues
          <5>2. made(s)'
            BY <1>s, <2>1, <4>3, <5>1
          <5> QED BY <4>3, <5>2 DEF stillMade
        <4>5. \A k \in DOMAIN q : stillMade(q[k])
          BY <1>o, <2>6, <4>2, StillMade
        <4>6. q \in Seq(Packet) /\ Len(q) \in Nat /\ DOMAIN q = 1 .. Len(q)
          BY <4>2, QueuePositions DEF Thinned
        <4>7. /\ DOMAIN packetQueue' = 1 .. Len(q) + 1
              /\ \A k \in 1 .. Len(q) : packetQueue'[k] = q[k]
              /\ packetQueue'[Len(q) + 1] = p
          BY <4>2, <4>3, <4>6
        <4>8. \A k \in DOMAIN packetQueue' : k \in DOMAIN q \/ k = Len(q) + 1
          BY <4>6, <4>7
        <4> QED BY <4>4, <4>5, <4>6, <4>7, <4>8
      <3> QED BY <3>1, <3>2
    <2>8. MadeQueued'
      BY <2>7, AllStillMade
    <2> QED BY <1>e, <2>3, <2>8 DEF StreamsInv
  <1> QED BY <1>1, <1>2, <1>3 DEF Next

\* The invariant holds in every state, if no EOS is discarded.
LEMMA StreamsHold == ASSUME NoDiscards PROVE Spec => [](TypeInv /\ OrderInv /\ StreamsInv)
  <1>1. Init => TypeInv /\ OrderInv /\ StreamsInv
    BY TypeInit, OrderInit, StreamsInit
  <1>2. TypeInv /\ OrderInv /\ StreamsInv /\ [Next]_vars => (TypeInv /\ OrderInv /\ StreamsInv)'
    BY TypeInvStep, OrderStep, StreamsStep DEF SamplesStay
  <1> QED BY <1>1, <1>2, PTL DEF Spec

-----------------------------------------------------------------------------
(* What the invariant implies.                                             *)

\* The InputStreams of s are numbered on from the active one.
LEMMA ObjectsNumbered ==
    ASSUME TypeOK, NEW s \in Streams, StreamInv(s)
    PROVE  /\ streams[s] = NoStream => DOMAIN objects(s) = {}
           /\ streams[s] # NoStream =>
                 /\ streams[s].instance \in Nat /\ Len(pendingStreams[s]) \in Nat
                 /\ DOMAIN objects(s) = 1 .. 1 + Len(pendingStreams[s])
                 /\ objects(s)[1] = streams[s]
                 /\ \A n \in DOMAIN objects(s) :
                       objects(s)[n].instance = streams[s].instance + (n - 1)
  <1>1. pendingStreams[s] \in Seq(Stream)
    BY DEF TypeOK
  <1>2. CASE streams[s] = NoStream
    <2>1. objects(s) = <<>> \o <<>>
      BY <1>2 DEF StreamInv, ActiveStream, objects
    <2> QED BY <1>2, <2>1
  <1>3. CASE streams[s] # NoStream
    <2>1. streams[s] \in Stream
      BY <1>3 DEF TypeOK
    <2>2. PICK a, P : a = <<streams[s]>> /\ P = pendingStreams[s]
      OBVIOUS
    <2>3. /\ a \in Seq(Stream) /\ Len(a) = 1 /\ a[1] = streams[s]
          /\ P \in Seq(Stream) /\ Len(P) \in Nat /\ DOMAIN P = 1 .. Len(P)
      BY <1>1, <2>1, <2>2
    <2>4. objects(s) = a \o P
      BY <1>3, <2>2 DEF objects
    <2>5. /\ a \o P \in Seq(Stream)
          /\ Len(a \o P) = 1 + Len(P)
          /\ \A n \in 1 .. 1 + Len(P) :
                (a \o P)[n] = IF n <= 1 THEN a[n] ELSE P[n - 1]
      <3>1. Len(a) = 1
        BY <2>3
      <3>2. /\ a \o P \in Seq(Stream)
            /\ Len(a \o P) = Len(a) + Len(P)
            /\ \A n \in 1 .. Len(a) + Len(P) :
                  (a \o P)[n] = IF n <= Len(a) THEN a[n] ELSE P[n - Len(a)]
        BY <2>3, ConcatProperties
      <3> QED BY <3>1, <3>2
    <2>6. DOMAIN objects(s) = 1 .. 1 + Len(P)
      BY <2>4, <2>5
    <2>7. objects(s)[1] = streams[s]
      BY <2>3, <2>4, <2>5
    <2>8. \A n \in DOMAIN P : P[n].instance = streams[s].instance + n
      BY <1>3, <2>2 DEF StreamInv, StreamsInWait
    <2>9. ASSUME NEW n \in DOMAIN objects(s)
          PROVE  objects(s)[n].instance = streams[s].instance + (n - 1)
      <3>1. CASE n = 1
        BY <2>1, <2>7, <3>1 DEF Stream
      <3>2. CASE n # 1
        <4>1. n - 1 \in DOMAIN P /\ n \in 1 .. 1 + Len(P) /\ ~(n <= 1)
          BY <2>3, <2>6, <3>2
        <4>2. objects(s)[n] = P[n - 1]
          BY <2>4, <2>5, <4>1
        <4> QED BY <2>8, <4>1, <4>2
      <3> QED BY <3>1, <3>2
    <2>10. streams[s].instance \in Nat
      BY <2>1 DEF Stream
    <2> QED BY <1>3, <2>2, <2>3, <2>6, <2>7, <2>9, <2>10
  <1> QED BY <1>2, <1>3

\* The active stream is of the instance being read, or of the one after it.
LEMMA ActiveInstance ==
    ASSUME TypeOK, PacketsInv, NEW s \in Streams, StreamInv(s), streams[s] # NoStream
    PROVE  /\ ended(s) \in Nat /\ sent[s].instance \in Nat
           /\ streams[s].instance = IF over(s) THEN ended(s) ELSE ended(s) + 1
  BY AheadOfRead DEF StreamInv, ActiveStream

\* What is queued can be read.
LEMMA QueueHasStreams ==
    ASSUME TypeOK, PacketsInv, StreamsInv
    PROVE  PacketsHaveStream
  <1> SUFFICES ASSUME NEW i \in DOMAIN packetQueue, NEW s \in Streams,
                      packetQueue[i].streamID = s
               PROVE  /\ streams[s] # NoStream
                      /\ \E n \in DOMAIN objects(s) :
                             objects(s)[n].instance = packetQueue[i].instance
    <2>1. \A i \in DOMAIN packetQueue : packetQueue[i].streamID \in Streams
      BY QueuePositions DEF TypeOK, Packet
    <2> QED BY <2>1 DEF PacketsHaveStream
  <1>i. StreamInv(s) /\ MadeQueued
    BY DEF StreamsInv
  <1>1. /\ ended(s) \in Nat /\ sent[s].instance \in Nat
        /\ packetQueue[i].instance \in Nat
        /\ ended(s) < packetQueue[i].instance
        /\ packetQueue[i].instance <= sent[s].instance
    BY AheadOfRead
  <1>2. packetQueue[i].instance = sent[s].instance => made(s)
    BY <1>i DEF MadeQueued, positions
  <1>3. streams[s] # NoStream
    BY <1>1, <1>2, <1>i DEF StreamInv, ActiveStream
  <1>4. streams[s].instance = IF over(s) THEN ended(s) ELSE ended(s) + 1
    BY <1>3, <1>i, ActiveInstance
  <1>5. /\ streams[s].instance \in Nat /\ Len(pendingStreams[s]) \in Nat
        /\ DOMAIN objects(s) = 1 .. 1 + Len(pendingStreams[s])
        /\ \A n \in DOMAIN objects(s) :
              objects(s)[n].instance = streams[s].instance + (n - 1)
    BY <1>3, <1>i, ObjectsNumbered
  <1>6. streams[s].instance + Len(pendingStreams[s])
            = IF made(s) THEN sent[s].instance ELSE sent[s].instance - 1
    BY <1>3, <1>i DEF StreamInv, StreamsInWait
  <1>7. PICK n : n = packetQueue[i].instance - streams[s].instance + 1
    OBVIOUS
  <1>8. n \in 1 .. 1 + Len(pendingStreams[s])
    <2>1. Len(pendingStreams[s]) \in Nat /\ streams[s].instance \in Nat
      BY <1>5
    <2>2. streams[s].instance <= packetQueue[i].instance
      BY <1>1, <1>4, <2>1
    <2>3. packetQueue[i].instance <= streams[s].instance + Len(pendingStreams[s])
      BY <1>1, <1>2, <1>6, <2>1
    <2> QED BY <1>1, <1>7, <2>1, <2>2, <2>3
  <1>9. objects(s)[n].instance = packetQueue[i].instance
    <2>1. objects(s)[n].instance = streams[s].instance + (n - 1) /\ streams[s].instance \in Nat
      BY <1>5, <1>8
    <2> QED BY <1>1, <1>7, <2>1
  <1> QED BY <1>3, <1>5, <1>8, <1>9

\* Instances have one stream each, and find their ends.
LEMMA StreamsFit ==
    ASSUME TypeOK, PacketsInv, StreamsInv
    PROVE  StreamsTrue
  <1>1. ASSUME NEW s \in Streams, NEW i \in DOMAIN objects(s), NEW j \in DOMAIN objects(s),
               i < j
        PROVE  objects(s)[i].instance < objects(s)[j].instance
    <2>1. StreamInv(s)
      BY DEF StreamsInv
    <2>2. streams[s] # NoStream
      BY <2>1, ObjectsNumbered
    <2>3. /\ streams[s].instance \in Nat /\ Len(pendingStreams[s]) \in Nat
          /\ DOMAIN objects(s) = 1 .. 1 + Len(pendingStreams[s])
      BY <2>1, <2>2, ObjectsNumbered
    <2>4. /\ objects(s)[i].instance = streams[s].instance + (i - 1)
          /\ objects(s)[j].instance = streams[s].instance + (j - 1)
      BY <2>1, <2>2, ObjectsNumbered
    <2>5. i \in Nat /\ j \in Nat
      BY <2>3
    <2>6. i - 1 < j - 1 /\ i - 1 \in Int /\ j - 1 \in Int
      BY <1>1, <2>5
    <2> QED BY <2>3, <2>4, <2>6
  <1>2. ASSUME NEW s \in Streams, NEW n \in DOMAIN objects(s),
               objects(s)[n].eos = "NONE",
               objects(s)[n].instance < sent[s].instance,
               ~(reader.at \in {"fetched", "turnoff", "remove"} /\ reader.id = s)
        PROVE  \E i \in positions(packetQueue, s) :
                   /\ packetQueue[i].EOS
                   /\ packetQueue[i].instance = objects(s)[n].instance
    <2>1. StreamInv(s)
      BY DEF StreamsInv
    <2>2. streams[s] # NoStream
      BY <2>1, ObjectsNumbered
    <2>3. /\ streams[s].instance \in Nat /\ Len(pendingStreams[s]) \in Nat
          /\ DOMAIN objects(s) = 1 .. 1 + Len(pendingStreams[s])
          /\ objects(s)[1] = streams[s]
          /\ objects(s)[n].instance = streams[s].instance + (n - 1)
      BY <2>1, <2>2, ObjectsNumbered
    <2>4. /\ ended(s) \in Nat /\ sent[s].instance \in Nat
          /\ streams[s].instance = IF over(s) THEN ended(s) ELSE ended(s) + 1
      BY <2>1, <2>2, ActiveInstance
    <2>5. over(s) => n # 1
      <3>1. over(s) => reached(s)
        BY <1>2 DEF over, leaving, removing, fetched
      <3>2. n = 1 => ~reached(s)
        BY <1>2, <2>3 DEF reached
      <3> QED BY <3>1, <3>2
    <2>6. n \in Nat /\ n >= 1
      BY <2>3
    <2>7. objects(s)[n].instance \in ended(s) + 1 .. queuedEnds(s)
      <3>1. objects(s)[n].instance = streams[s].instance + (n - 1)
        BY <2>3
      <3>2. objects(s)[n].instance \in Nat /\ ended(s) + 1 <= objects(s)[n].instance
        BY <2>3, <2>4, <2>5, <2>6, <3>1
      <3>3. objects(s)[n].instance <= queuedEnds(s) /\ queuedEnds(s) \in Int
        BY <1>2, <2>4, <3>2 DEF queuedEnds
      <3> QED BY <2>4, <3>2, <3>3
    <2>8. endIn(s, objects(s)[n].instance, packetQueue)
      BY <2>7 DEF StreamsInv, EndsInv
    <2> QED BY <2>8 DEF endIn, positions
  <1>3. \A s \in Streams : \A n \in DOMAIN objects(s) :
            /\ objects(s)[n].instance \in Nat
            /\ sent[s].instance \in Nat
    <2> SUFFICES ASSUME NEW s \in Streams, NEW n \in DOMAIN objects(s)
                 PROVE  objects(s)[n].instance \in Nat /\ sent[s].instance \in Nat
      OBVIOUS
    <2>1. StreamInv(s)
      BY DEF StreamsInv
    <2>2. streams[s] # NoStream
      BY <2>1, ObjectsNumbered
    <2>3. /\ streams[s].instance \in Nat /\ Len(pendingStreams[s]) \in Nat
          /\ DOMAIN objects(s) = 1 .. 1 + Len(pendingStreams[s])
          /\ objects(s)[n].instance = streams[s].instance + (n - 1)
      BY <2>1, <2>2, ObjectsNumbered
    <2>4. n \in Nat /\ n >= 1
      BY <2>3
    <2> QED BY <2>3, <2>4 DEF TypeOK, Sent
  <1>4. StreamsEnd
    <2> SUFFICES ASSUME NEW s \in Streams, NEW n \in DOMAIN objects(s),
                        objects(s)[n].eos = "NONE",
                        ~(objects(s)[n].instance >= sent[s].instance),
                        ~(reader.at \in {"fetched", "turnoff", "remove"} /\ reader.id = s)
                 PROVE  \E i \in positions(packetQueue, s) :
                            /\ packetQueue[i].EOS
                            /\ packetQueue[i].instance = objects(s)[n].instance
      BY DEF StreamsEnd
    <2>1. objects(s)[n].instance < sent[s].instance
      BY <1>3
    <2> QED BY <1>2, <2>1
  <1>5. OneStreamPerInstance
    BY <1>1 DEF OneStreamPerInstance
  <1> QED BY <1>4, <1>5 DEF StreamsTrue

(***************************************************************************)
(* The InputStreams fit the instances that upstream makes (pushSRI,        *)
(* removeStream): there is one for each, and it finds its EOS, if nothing  *)
(* makes the port discard one.                                             *)
(***************************************************************************)
THEOREM StreamsFitInstances == NoDiscards => (Spec => []StreamsTrue)
  <1> SUFFICES ASSUME NoDiscards PROVE Spec => []StreamsTrue
    OBVIOUS
  <1>1. TypeInv /\ OrderInv /\ StreamsInv => StreamsTrue
    BY StreamsFit DEF TypeInv, OrderInv
  <1> QED BY <1>1, StreamsHold, PTL

-----------------------------------------------------------------------------
(* The queue is bounded, whatever the component and upstream do.           *)

\* The packets that a flush may drop.
nonEnds(q) == {i \in DOMAIN q : ~q[i].EOS}

onePerStream(q) == \A i, j \in nonEnds(q) : q[i].streamID = q[j].streamID => i = j

depths == IF "depth" \in Environment THEN QueueDepths ELSE {maxQueue}

\* There are finitely many of them, and no more than packets.
LEMMA NonEndsFinite ==
    ASSUME NEW q \in Seq(Packet)
    PROVE  /\ IsFiniteSet(nonEnds(q)) /\ Cardinality(nonEnds(q)) \in Nat
           /\ Cardinality(nonEnds(q)) <= Len(q)
  <1>1. nonEnds(q) \in SUBSET DOMAIN q /\ DOMAIN q = 1 .. Len(q) /\ Len(q) \in Nat
    BY QueuePositions DEF nonEnds
  <1>2. IsFiniteSet(1 .. Len(q)) /\ Cardinality(1 .. Len(q)) = Len(q)
    <2>1. PICK n \in Nat : n = Len(q)
      BY <1>1
    <2>2. \A a, b \in Int : /\ IsFiniteSet(a .. b)
                            /\ Cardinality(a .. b) = IF a > b THEN 0 ELSE b - a + 1
      BY FS_Interval
    <2>3. IsFiniteSet(1 .. n) /\ Cardinality(1 .. n) = IF 1 > n THEN 0 ELSE n - 1 + 1
      BY <2>2
    <2> QED BY <2>1, <2>3
  <1>3. IsFiniteSet(nonEnds(q)) /\ Cardinality(nonEnds(q)) <= Cardinality(1 .. Len(q))
    BY <1>1, <1>2, FS_Subset
  <1> QED BY <1>2, <1>3, FS_CardinalityType

\* Thinning a queue leaves no more of them.
LEMMA ThinnedFewer ==
    ASSUME NEW q \in Seq(Packet), NEW r, NEW f, NEW g, Thinned(r, q, f, g)
    PROVE  Cardinality(nonEnds(r)) <= Cardinality(nonEnds(q))
  <1> DEFINE h == [n \in nonEnds(r) |-> f[n]]
  <1>1. /\ r \in Seq(Packet) /\ f \in [DOMAIN r -> DOMAIN q]
        /\ \A m, n \in DOMAIN r : m < n => f[m] < f[n]
        /\ \A n \in DOMAIN r : r[n].EOS = q[f[n]].EOS
    BY DEF Thinned
  <1>2. \A n \in nonEnds(r) : n \in Nat /\ n \in DOMAIN r
    BY <1>1, QueuePositions DEF nonEnds
  <1>3. \A n \in nonEnds(r) : h[n] \in nonEnds(q) /\ h[n] \in Nat
    <2>1. \A n \in nonEnds(r) : f[n] \in DOMAIN q /\ ~q[f[n]].EOS
      BY <1>1 DEF nonEnds
    <2>2. \A n \in nonEnds(r) : f[n] \in Nat
      BY <2>1, QueuePositions
    <2> QED BY <2>1, <2>2 DEF nonEnds
  <1>4. \A m, n \in nonEnds(r) : m < n => h[m] < h[n]
    BY <1>1, <1>2
  <1> HIDE DEF h
  <1>5. \A m, n \in nonEnds(r) : h[m] = h[n] => m = n
    <2>1. \A m, n \in nonEnds(r) : m < n \/ n < m \/ m = n
      BY <1>2
    <2>2. \A m, n \in nonEnds(r) : h[m] = h[n] => ~(h[m] < h[n]) /\ ~(h[n] < h[m])
      BY <1>3
    <2> QED BY <1>4, <2>1, <2>2
  <1>6. h \in Injection(nonEnds(r), nonEnds(q))
    <2>1. h \in [nonEnds(r) -> nonEnds(q)]
      BY <1>3 DEF h
    <2> QED BY <1>5, <2>1 DEF Injection, IsInjective
  <1> QED BY <1>6, NonEndsFinite, FS_Injection

\* With one for each stream ID there are no more than stream IDs.
LEMMA OneForEach ==
    ASSUME NEW q \in Seq(Packet), onePerStream(q)
    PROVE  Cardinality(nonEnds(q)) <= Cardinality(Streams)
  <1> DEFINE h == [n \in nonEnds(q) |-> q[n].streamID]
  <1>1. h \in [nonEnds(q) -> Streams]
    BY QueuePositions DEF nonEnds, Packet
  <1>2. \A m, n \in nonEnds(q) : h[m] = h[n] => m = n
    BY DEF onePerStream
  <1>3. h \in Injection(nonEnds(q), Streams)
    BY <1>1, <1>2 DEF Injection, IsInjective
  <1> QED BY <1>3, InPortConstants, FS_Injection

(***************************************************************************)
(* _flushQueue leaves one for each stream ID, the newest of it; without    *)
(* it there is none of that stream ID.                                     *)
(***************************************************************************)
LEMMA FlushLeavesOne ==
    ASSUME NEW q \in Seq(Packet)
    PROVE  LET F == flushQueue(q)
           IN  /\ F \in Seq(Packet)
               /\ onePerStream(F)
               /\ \A n \in nonEnds(F) : n \in newest(positions(F, F[n].streamID))
  <1> DEFINE F == flushQueue(q)
             f == keptAt(q)
  <1>1. /\ F \in Seq(Packet)
        /\ f \in [DOMAIN F -> DOMAIN q]
        /\ \A n \in DOMAIN F : f[n] \in kept(q) /\ f[n] \in Nat /\ F[n] = merged(q, f[n])
        /\ \A m, n \in DOMAIN F : m < n => f[m] < f[n]
    BY FlushProperties
  <1> HIDE DEF F, f
  <1>2. \A n \in DOMAIN F : /\ n \in Nat /\ f[n] \in DOMAIN q
                            /\ F[n].streamID = q[f[n]].streamID
                            /\ F[n].EOS = q[f[n]].EOS
    BY <1>1, MergedProperties, QueuePositions
  <1>3. \A n \in nonEnds(F) : n \in DOMAIN F /\ f[n] \in newest(positions(q, F[n].streamID))
    BY <1>1, <1>2 DEF nonEnds, kept
  <1>4. \A n \in nonEnds(F), m \in DOMAIN F : F[m].streamID = F[n].streamID => m <= n
    <2> SUFFICES ASSUME NEW n \in nonEnds(F), NEW m \in DOMAIN F,
                        F[m].streamID = F[n].streamID, n < m
                 PROVE  FALSE
      <3>1. \A n \in nonEnds(F), m \in DOMAIN F : ~(n < m) => m <= n
        BY <1>2, <1>3
      <3> QED BY <3>1
    <2>1. f[n] < f[m] /\ f[n] \in Nat /\ f[m] \in Nat
      BY <1>1, <1>3
    <2>2. f[m] \in positions(q, F[n].streamID)
      BY <1>2 DEF positions
    <2>3. f[m] <= f[n]
      BY <1>3, <2>2 DEF newest
    <2> QED BY <2>1, <2>3
  <1>5. onePerStream(F)
    <2>1. \A m, n \in nonEnds(F) : F[m].streamID = F[n].streamID => m <= n /\ n <= m
      BY <1>3, <1>4
    <2>2. \A m, n \in nonEnds(F) : m <= n /\ n <= m => m = n
      BY <1>2, <1>3
    <2> QED BY <2>1, <2>2 DEF onePerStream
  <1>6. \A n \in nonEnds(F) : n \in newest(positions(F, F[n].streamID))
    BY <1>3, <1>4 DEF newest, positions
  <1> QED BY <1>1, <1>5, <1>6 DEF F

\* A packet of a stream ID that has none left is the one of its stream ID.
LEMMA OneMore ==
    ASSUME NEW q \in Seq(Packet), NEW p \in Packet, onePerStream(q),
           \A n \in nonEnds(q) : q[n].streamID # p.streamID
    PROVE  onePerStream(Append(q, p)) /\ Append(q, p) \in Seq(Packet)
  <1>1. PICK r : r = Append(q, p)
    OBVIOUS
  <1>2. Len(q) \in Nat /\ DOMAIN q = 1 .. Len(q)
    BY QueuePositions
  <1>3. /\ r \in Seq(Packet)
        /\ DOMAIN r = 1 .. Len(q) + 1
        /\ \A n \in 1 .. Len(q) : r[n] = q[n]
        /\ r[Len(q) + 1] = p
    BY <1>1, <1>2
  <1>4. \A n \in nonEnds(r) : n = Len(q) + 1 \/ (n \in nonEnds(q) /\ r[n] = q[n])
    <2> SUFFICES ASSUME NEW n \in DOMAIN r, ~r[n].EOS, n # Len(q) + 1
                 PROVE  n \in nonEnds(q) /\ r[n] = q[n]
      BY DEF nonEnds
    <2>1. n \in 1 .. Len(q)
      BY <1>2, <1>3
    <2> QED BY <1>2, <1>3, <2>1 DEF nonEnds
  <1>5. onePerStream(r)
    <2> SUFFICES ASSUME NEW i \in nonEnds(r), NEW j \in nonEnds(r),
                        r[i].streamID = r[j].streamID
                 PROVE  i = j
      BY DEF onePerStream
    <2>1. CASE i = Len(q) + 1 /\ j = Len(q) + 1
      BY <2>1
    <2>2. CASE i \in nonEnds(q) /\ r[i] = q[i] /\ j \in nonEnds(q) /\ r[j] = q[j]
      BY <2>2 DEF onePerStream
    <2>3. CASE i = Len(q) + 1 /\ j \in nonEnds(q) /\ r[j] = q[j]
      BY <1>3, <2>3
    <2>4. CASE j = Len(q) + 1 /\ i \in nonEnds(q) /\ r[i] = q[i]
      BY <1>3, <2>4
    <2> QED BY <1>4, <2>1, <2>2, <2>3, <2>4
  <1> QED BY <1>1, <1>3, <1>5

\* Without the one of its stream ID, there is none of that stream ID.
LEMMA OneLess ==
    ASSUME NEW q \in Seq(Packet), onePerStream(q), NEW i \in nonEnds(q)
    PROVE  LET r == RemoveAt(q, i)
           IN  /\ r \in Seq(Packet)
               /\ onePerStream(r)
               /\ \A n \in nonEnds(r) : r[n].streamID # q[i].streamID
  <1>1. PICK r, f : r = RemoveAt(q, i) /\ f = others(q, i)
    OBVIOUS
  <1>2. i \in DOMAIN q
    BY DEF nonEnds
  <1>3. /\ Thinned(r, q, f, f)
        /\ \A n \in DOMAIN r : r[n] = q[f[n]] /\ f[n] # i
    BY <1>1, <1>2, RemoveAtThins
  <1>4. /\ r \in Seq(Packet) /\ f \in [DOMAIN r -> DOMAIN q]
        /\ \A m, n \in DOMAIN r : m < n => f[m] < f[n]
    BY <1>3 DEF Thinned
  <1>5. \A n \in nonEnds(r) : n \in DOMAIN r /\ f[n] \in nonEnds(q) /\ n \in Nat /\ f[n] \in Nat
    <2>1. \A n \in nonEnds(r) : n \in DOMAIN r /\ f[n] \in DOMAIN q /\ ~q[f[n]].EOS
      BY <1>3, <1>4 DEF nonEnds
    <2>2. \A n \in nonEnds(r) : n \in Nat /\ f[n] \in Nat
      BY <1>4, <2>1, QueuePositions
    <2> QED BY <2>1, <2>2 DEF nonEnds
  <1>6. \A n \in nonEnds(r) : r[n].streamID # q[i].streamID
    BY <1>3, <1>5 DEF onePerStream
  <1>7. onePerStream(r)
    <2> SUFFICES ASSUME NEW m \in nonEnds(r), NEW n \in nonEnds(r),
                        r[m].streamID = r[n].streamID
                 PROVE  m = n
      BY DEF onePerStream
    <2>1. f[m] = f[n]
      BY <1>3, <1>5 DEF onePerStream
    <2>2. ~(m < n) /\ ~(n < m)
      BY <1>4, <1>5, <2>1
    <2> QED BY <1>5, <2>2
  <1> QED BY <1>1, <1>4, <1>6, <1>7

bounded(q, D) ==
    \/ Cardinality(nonEnds(q)) <= Cardinality(Streams)
    \/ \E d \in D : Cardinality(nonEnds(q)) <= d

\* A queue with fewer of them is bounded if the other one is.
LEMMA BoundedFewer ==
    ASSUME NEW q \in Seq(Packet), NEW r \in Seq(Packet), NEW D \in SUBSET Nat,
           bounded(q, D), Cardinality(nonEnds(r)) <= Cardinality(nonEnds(q))
    PROVE  bounded(r, D)
  <1>1. /\ Cardinality(nonEnds(q)) \in Nat /\ Cardinality(nonEnds(r)) \in Nat
        /\ Cardinality(Streams) \in Nat
    BY NonEndsFinite, InPortConstants, FS_CardinalityType
  <1>2. \A d \in D : d \in Nat
    OBVIOUS
  <1> QED BY <1>1, <1>2 DEF bounded

\* The queue that flushAndQueue leaves has at most one for each stream ID.
LEMMA FlushBounds ==
    ASSUME TypeInv, NEW s \in Streams, flushAndQueue(s)
    PROVE  onePerStream(packetQueue')
  <1>q. packetQueue \in Seq(Packet)
    BY DEF TypeInv, TypeOK
  <1>p. \A q, c, fl : (enqueue(s, q, c, fl) /\ c \in BOOLEAN /\ fl \in BOOLEAN) =>
           \E p \in Packet : p.streamID = s /\ packetQueue' = Append(q, p)
    <2> SUFFICES ASSUME NEW q, NEW c \in BOOLEAN, NEW fl \in BOOLEAN, enqueue(s, q, c, fl)
                 PROVE  \E p \in Packet : p.streamID = s /\ packetQueue' = Append(q, p)
      OBVIOUS
    <2>1. PICK n : /\ n = IF call[s].data THEN sent[s].data + 1 ELSE sent[s].data
                   /\ packetQueue' = Append(q,
                        [streamID |-> s, instance |-> sent[s].instance,
                         buffer |-> IF call[s].data THEN <<sent[s].instance, n>> ELSE Empty,
                         EOS |-> call[s].EOS, SRI |-> call[s].SRI,
                         sriChanged |-> c, inputQueueFlushed |-> fl])
      BY DEF enqueue
    <2>2. /\ sent[s].instance \in Nat /\ sent[s].data \in Nat
          /\ call[s].data \in BOOLEAN /\ call[s].EOS \in BOOLEAN /\ call[s].SRI \in SRI
      BY DEF TypeInv, TypeOK, Sent, Call
    <2>3. [streamID |-> s, instance |-> sent[s].instance,
           buffer |-> IF call[s].data THEN <<sent[s].instance, n>> ELSE Empty,
           EOS |-> call[s].EOS, SRI |-> call[s].SRI,
           sriChanged |-> c, inputQueueFlushed |-> fl] \in Packet
      BY <2>1, <2>2 DEF Packet, Empty
    <2> QED BY <2>1, <2>3
  <1>1. PICK F : F = flushQueue(packetQueue)
    OBVIOUS
  <1>2. /\ F \in Seq(Packet) /\ onePerStream(F)
        /\ \A n \in nonEnds(F) : n \in newest(positions(F, F[n].streamID))
    BY <1>q, <1>1, FlushLeavesOne
  <1>3. \/ \E i \in newest(positions(F, s)) : ~F[i].EOS /\ replace(s, i, F)
        \/ /\ {i \in newest(positions(F, s)) : ~F[i].EOS} = {}
           /\ enqueue(s, F, call[s].sriChanged, FALSE)
    BY <1>1 DEF flushAndQueue
  <1>4. ASSUME NEW i \in newest(positions(F, s)), ~F[i].EOS, replace(s, i, F)
        PROVE  onePerStream(packetQueue')
    <2>1. i \in DOMAIN F /\ F[i].streamID = s /\ i \in nonEnds(F)
      BY <1>4 DEF newest, positions, nonEnds
    <2>2. enqueue(s, RemoveAt(F, i), F[i].sriChanged, TRUE) /\ F[i].sriChanged \in BOOLEAN
      BY <1>2, <1>4, <2>1, QueuePositions DEF replace, Packet
    <2>3. PICK p \in Packet : p.streamID = s /\ packetQueue' = Append(RemoveAt(F, i), p)
      BY <1>p, <2>2
    <2>4. PICK r : r = RemoveAt(F, i)
      OBVIOUS
    <2>5. /\ r \in Seq(Packet) /\ onePerStream(r)
          /\ \A n \in nonEnds(r) : r[n].streamID # s
      BY <1>2, <2>1, <2>4, OneLess
    <2>6. onePerStream(Append(r, p))
      BY <2>3, <2>5, OneMore
    <2> QED BY <2>3, <2>4, <2>6
  <1>5. ASSUME {i \in newest(positions(F, s)) : ~F[i].EOS} = {},
               enqueue(s, F, call[s].sriChanged, FALSE)
        PROVE  onePerStream(packetQueue')
    <2>1. call[s].sriChanged \in BOOLEAN
      BY DEF TypeInv, TypeOK, Call
    <2>2. PICK p \in Packet : p.streamID = s /\ packetQueue' = Append(F, p)
      BY <1>p, <1>5, <2>1
    <2>3. \A n \in nonEnds(F) : F[n].streamID # s
      BY <1>2, <1>5 DEF nonEnds
    <2>4. onePerStream(Append(F, p))
      BY <1>2, <2>2, <2>3, OneMore
    <2> QED BY <2>2, <2>4
  <1> QED BY <1>3, <1>4, <1>5

\* No step overfills the queue.
LEMMA BoundedStep ==
    ASSUME TypeInv, AllEnabled, bounded(packetQueue, depths), [Next]_vars
    PROVE  bounded(packetQueue, depths)'
  <1>o. TypeOK /\ TypeInv'
    BY TypeInvStep DEF TypeInv
  <1>q. packetQueue \in Seq(Packet) /\ packetQueue' \in Seq(Packet)
    BY <1>o DEF TypeInv, TypeOK
  <1>d. depths \in SUBSET Nat /\ maxQueue \in QueueDepths /\ maxQueue \in depths
    <2>1. maxQueue \in QueueDepths
      BY <1>o DEF TypeOK
    <2> QED BY <2>1, InPortConstants DEF depths
  <1> SUFFICES bounded(packetQueue', depths')
    BY DEF bounded, nonEnds
  <1>1. \/ maxQueue' = maxQueue
        \/ packetQueue' = packetQueue /\ "depth" \in Environment
    <2>1. CASE UNCHANGED vars
      BY <2>1 DEF vars
    <2>2. CASE \E s \in Streams : Push(s) \/ Upstream(s)
      BY <1>o, <2>2, UpstreamFrame
    <2>3. CASE Control
      BY <2>3 DEF Control, enable, disable, block, unblock, setMaxQueueDepth
    <2>4. CASE Reader
      <3>1. \A u : nextPacket(u) => UNCHANGED maxQueue
        BY DEF nextPacket
      <3> QED BY <2>4, <3>1
            DEF Reader, getPacket, eos, handleEOS, turnOff, removeStream, getCurrentStream,
                peekPacket, wait, getStream, read, readNothing, goto, port,
                discardPacketsForStream
    <2> QED BY <2>1, <2>2, <2>3, <2>4 DEF Next
  <1>2. depths' = depths
    BY <1>1 DEF depths
  <1>3. CASE packetQueue' = packetQueue
    BY <1>2, <1>3
  <1>4. ASSUME NEW f, NEW g, Thinned(packetQueue', packetQueue, f, g)
        PROVE  bounded(packetQueue', depths')
    <2>1. Cardinality(nonEnds(packetQueue')) <= Cardinality(nonEnds(packetQueue))
      BY <1>q, <1>4, ThinnedFewer
    <2> QED BY <1>q, <1>d, <1>2, <2>1, BoundedFewer
  <1>5. CASE Reader \/ Control
    <2>1. Quiet \/ Discarded \/ \E s \in Streams : \E i \in fetchPacket(s) : Taken(s, i)
      BY <1>5, ComponentKinds
    <2>2. CASE Quiet
      BY <1>3, <2>2 DEF Quiet
    <2>3. CASE Discarded
      BY <1>4, <2>3 DEF Discarded
    <2>4. ASSUME NEW s \in Streams, NEW i \in fetchPacket(s), Taken(s, i)
          PROVE  bounded(packetQueue', depths')
      <3>1. i \in DOMAIN packetQueue /\ packetQueue' = RemoveAt(packetQueue, i)
        BY <2>4 DEF Taken, fetchPacket, first, positions
      <3>2. \E f : Thinned(packetQueue', packetQueue, f, f)
        BY <1>q, <3>1, RemoveAtThins
      <3> QED BY <1>4, <3>2
    <2> QED BY <2>1, <2>2, <2>3, <2>4
  <1>6. ASSUME NEW s \in Streams, Push(s) \/ Upstream(s), packetQueue' # packetQueue
        PROVE  bounded(packetQueue', depths')
    <2>1. queuePacket(s) \/ woken(s) \/ flushAndQueue(s)
      BY <1>6 DEF Push, Upstream, pushSRI, pushPacket, pushSRIDecide, createStream,
                  refusedEOS, refusedOff, lookupSRI, forgetSRI, port
    <2>2. CASE queuePacket(s) \/ woken(s)
      <3>1. ~full /\ \E p : packetQueue' = Append(packetQueue, p)
        BY <1>6, <2>2 DEF queuePacket, woken, enqueue
      <3>2. Len(packetQueue) \in Nat /\ maxQueue \in Nat
        BY <1>q, <1>d, QueuePositions
      <3>3. Len(packetQueue') = Len(packetQueue) + 1
        BY <1>q, <3>1
      <3>4. Len(packetQueue') <= maxQueue
        BY <3>1, <3>2, <3>3 DEF full
      <3>5. /\ Cardinality(nonEnds(packetQueue')) \in Nat
            /\ Cardinality(nonEnds(packetQueue')) <= Len(packetQueue')
        BY <1>q, NonEndsFinite
      <3>6. Cardinality(nonEnds(packetQueue')) <= maxQueue
        BY <3>2, <3>3, <3>4, <3>5
      <3> QED BY <1>d, <1>2, <3>6 DEF bounded
    <2>3. CASE flushAndQueue(s)
      <3>1. onePerStream(packetQueue')
        BY <2>3, FlushBounds
      <3>2. Cardinality(nonEnds(packetQueue')) <= Cardinality(Streams)
        BY <1>q, <3>1, OneForEach
      <3> QED BY <3>2 DEF bounded
    <2> QED BY <2>1, <2>2, <2>3
  <1> QED BY <1>3, <1>5, <1>6 DEF Next, vars

(***************************************************************************)
(* The queue never grows beyond its depth, or one packet per stream ID, by *)
(* packets that are no EOS (queuePacket, _flushQueue, setMaxQueueDepth).   *)
(***************************************************************************)
THEOREM QueueStaysBounded == Spec => []QueueBounded
  <1>1. bounded(packetQueue, depths) <=> QueueBounded
    BY DEF bounded, nonEnds, depths, QueueBounded
  <1>2. Init => TypeInv /\ AllEnabled /\ bounded(packetQueue, depths)
    <2> SUFFICES ASSUME Init PROVE bounded(packetQueue, depths)
      BY TypeInit, OrderInit DEF OrderInv
    <2>1. nonEnds(packetQueue) = {}
      BY DEF Init, nonEnds
    <2>2. Cardinality(nonEnds(packetQueue)) = 0 /\ Cardinality(Streams) \in Nat
      BY <2>1, FS_EmptySet, InPortConstants, FS_CardinalityType
    <2> QED BY <2>2 DEF bounded
  <1>3. TypeInv /\ AllEnabled /\ bounded(packetQueue, depths) /\ [Next]_vars
            => (TypeInv /\ AllEnabled /\ bounded(packetQueue, depths))'
    BY TypeInvStep, EnabledStep, BoundedStep
  <1> QED BY <1>1, <1>2, <1>3, PTL DEF Spec

(***************************************************************************)
(* The queue is sound (queuePacket, _flushQueue, fetchPacket): no EOS is   *)
(* lost, instances are apart, the queue is bounded and all of it can be    *)
(* read, if nothing makes the port discard an EOS.                         *)
(***************************************************************************)
THEOREM QueueSound == NoDiscards => (Spec => []QueueTrue)
  <1> SUFFICES ASSUME NoDiscards PROVE Spec => []QueueTrue
    OBVIOUS
  <1>1. TypeInv /\ OrderInv /\ StreamsInv => EosNeverLost /\ PacketsHaveStream
    BY EndsInQueue, QueueHasStreams DEF TypeInv, OrderInv, StreamsInv
  <1>2. Spec => []InstancesApart
    BY InstancesStayApart DEF SamplesStay
  <1>3. EosNeverLost /\ PacketsHaveStream /\ InstancesApart /\ QueueBounded => QueueTrue
    BY DEF QueueTrue
  <1> QED BY <1>1, <1>2, <1>3, StreamsHold, QueueStaysBounded, PTL

-----------------------------------------------------------------------------
(***************************************************************************)
(* What the component is told.  A packet of the queue is told of a new     *)
(* stream, or of another SRI, if it or one before it in its instance says  *)
(* so; and of lost samples if it says so or follows the one before.  What  *)
(* is not yet in the queue is with the push that is under way (CallTells), *)
(* or in the changed flag of the SRI.  _flushQueue and the replacement of  *)
(* a packet in queuePacket keep that.                                      *)
(***************************************************************************)

same(p, r) == p.streamID = r.streamID /\ p.instance = r.instance

\* A packet of p's instance has been read.
begun(p) == last[p.streamID] # NoPacket /\ last[p.streamID].instance = p.instance

\* The packet at j of q, or one between i and it, has sriChanged set.
told(i, j, q) == \E k \in DOMAIN q : i < k /\ k <= j /\ same(q[k], q[j]) /\ q[k].sriChanged

\* The first packet to be read of an instance is told to be of a new stream.
newTold(q) == \A i \in DOMAIN q : begun(q[i]) \/ told(0, i, q)

\* A packet that ends no stream carries samples, ...
samplesIn(p) == ~p.EOS => p.buffer # Empty /\ p.buffer[2] >= 1

carry(q) == \A i \in DOMAIN q : samplesIn(q[i])

\* ... numbered on from the samples before it in the instance, unless it
\* says that there were others.
follows(p, r) == same(p, r) /\ ~p.EOS /\ r.buffer[2] = p.buffer[2] + 1

continued(i, q) ==
    \/ q[i].EOS \/ q[i].inputQueueFlushed
    \/ q[i].buffer[2] = 1
    \/ begun(q[i]) /\ ~last[q[i].streamID].EOS
                   /\ q[i].buffer[2] = last[q[i].streamID].buffer[2] + 1
    \/ \E k \in DOMAIN q : k < i /\ follows(q[k], q[i])

lossTold(q) == \A i \in DOMAIN q : continued(i, q)

\* The push at hand has looked the SRI up.
lookedUp == {"new", "looked", "waiting", "woken", "full"}

inQueue == {"accepted"} \cup lookedUp

\* What the next packet of s will say of its SRI.
changePending(s) ==
    IF call[s].at \in lookedUp THEN call[s].sriChanged
    ELSE currentHs[s] = NoSRI \/ currentHs[s].changed

\* p is of the instance of s that upstream is pushing.
current(s, p) == p.streamID = s /\ p.instance = sent[s].instance

currentRead(s) == last[s] # NoPacket /\ last[s].instance = sent[s].instance

\* A packet of it is in the queue; so is the last one that brought samples.
queued(s, q) == \E i \in DOMAIN q : current(s, q[i])

newestQueued(s, q) ==
    \E i \in DOMAIN q : current(s, q[i]) /\ q[i].buffer[2] = sent[s].data

\* The first packet of an instance will say that it is new, and the next one
\* follows the last that was pushed.
CallTells(s) ==
    /\ call[s].at \in inQueue => call[s].data \/ call[s].EOS
    /\ call[s].at = "new" => call[s].sriChanged
    /\ call[s].at # "ended" =>
          /\ changePending(s) \/ currentRead(s) \/ queued(s, packetQueue)
          /\ sent[s].data > 0 =>
                \/ currentRead(s) /\ last[s].buffer[2] = sent[s].data
                \/ newestQueued(s, packetQueue)

TellInv ==
    /\ carry(packetQueue)
    /\ \A s \in Streams : last[s] # NoPacket => samplesIn(last[s])
    /\ newTold(packetQueue)
    /\ lossTold(packetQueue)
    /\ \A s \in Streams : CallTells(s)

\* The SRI of the next packet of s.
nextSRI(s) ==
    IF call[s].at \in lookedUp THEN call[s].SRI ELSE currentHs[s].SRI

\* A push that has looked the SRI up has that of the stream ID.
SriAtHand(s) == call[s].at \in lookedUp => currentHs[s].SRI = call[s].SRI

\* If upstream sends one SRI per instance, the packets of an instance have
\* the same one, which is known until the instance is forgotten.
oneSRI(q) ==
    /\ \A i, j \in DOMAIN q : same(q[i], q[j]) => q[i].SRI = q[j].SRI
    /\ \A i \in DOMAIN q : begun(q[i]) => q[i].SRI = last[q[i].streamID].SRI

SriKept(s) ==
    /\ SriAtHand(s)
    /\ call[s].at # "count"
    /\ call[s].at # "ended" =>
          /\ queued(s, packetQueue) \/ currentRead(s) => currentHs[s] # NoSRI
          /\ \A i \in DOMAIN packetQueue :
                current(s, packetQueue[i]) => packetQueue[i].SRI = currentHs[s].SRI
          /\ currentRead(s) => last[s].SRI = currentHs[s].SRI

OneSRI == oneSRI(packetQueue) /\ \A s \in Streams : SriKept(s)

\* If it sends others, and the queue is never flushed, a packet whose SRI is
\* not that of an earlier one of the instance is told to have changed, or one
\* between them is.
chained(q) ==
    \A j \in DOMAIN q :
        /\ \A i \in DOMAIN q :
              i < j /\ same(q[i], q[j]) /\ q[i].SRI # q[j].SRI => told(i, j, q)
        /\ begun(q[j]) /\ last[q[j].streamID].SRI # q[j].SRI => told(0, j, q)

\* A packet of the current instance behind i has sriChanged set.
toldSince(s, i, q) ==
    \E k \in DOMAIN q : i < k /\ current(s, q[k]) /\ q[k].sriChanged

SriPending(s) ==
    /\ SriAtHand(s)
    /\ call[s].at # "ended" /\ ~changePending(s) =>
          /\ \A i \in DOMAIN packetQueue :
                current(s, packetQueue[i]) /\ packetQueue[i].SRI # nextSRI(s)
                   => toldSince(s, i, packetQueue)
          /\ currentRead(s) /\ last[s].SRI # nextSRI(s)
                => toldSince(s, 0, packetQueue)

ChainInv == chained(packetQueue) /\ \A s \in Streams : SriPending(s)

NeverFull == \A s \in Streams : call[s].at # "full"

-----------------------------------------------------------------------------
(* Packets told of: a queue that loses a packet, and one that gains one.   *)

\* A new stream, and a loss, stay told when a packet joins the queue that is
\* told of itself.
LEMMA JoinTold ==
    ASSUME NEW q \in Seq(Packet), NEW p \in Packet,
           carry(q), newTold(q), lossTold(q), samplesIn(p),
           \/ begun(p) \/ p.sriChanged
           \/ \E k \in DOMAIN q : same(q[k], p) /\ q[k].sriChanged,
           \/ p.EOS \/ p.inputQueueFlushed \/ p.buffer[2] = 1
           \/ begun(p) /\ ~last[p.streamID].EOS
                       /\ p.buffer[2] = last[p.streamID].buffer[2] + 1
           \/ \E k \in DOMAIN q : follows(q[k], p)
    PROVE  /\ carry(Append(q, p)) /\ newTold(Append(q, p)) /\ lossTold(Append(q, p))
  <1>1. PICK r : r = Append(q, p)
    OBVIOUS
  <1>2. /\ Len(q) \in Nat /\ DOMAIN q = 1 .. Len(q) /\ DOMAIN r = 1 .. Len(q) + 1
        /\ \A i \in 1 .. Len(q) : r[i] = q[i]
        /\ r[Len(q) + 1] = p
    BY <1>1, QueuePositions
  <1>3. ASSUME NEW i \in DOMAIN r
        PROVE  samplesIn(r[i]) /\ (begun(r[i]) \/ told(0, i, r)) /\ continued(i, r)
    <2>1. CASE i \in 1 .. Len(q)
      <3>1. samplesIn(q[i]) /\ (begun(q[i]) \/ told(0, i, q)) /\ continued(i, q)
        BY <1>2, <2>1 DEF carry, newTold, lossTold
      <3>2. told(0, i, q) => told(0, i, r)
        BY <1>2, <2>1 DEF told
      <3>3. continued(i, q) => continued(i, r)
        BY <1>2, <2>1 DEF continued
      <3> QED BY <1>2, <2>1, <3>1, <3>2, <3>3
    <2>2. CASE i = Len(q) + 1
      <3>1. begun(p) \/ told(0, i, r)
        <4>1. CASE p.sriChanged
          BY <1>2, <2>2, <4>1 DEF told, same
        <4>2. ASSUME NEW k \in DOMAIN q, same(q[k], p), q[k].sriChanged
              PROVE  told(0, i, r)
          <5>1. k \in DOMAIN r /\ 0 < k /\ k <= i /\ r[k] = q[k] /\ r[i] = p
            BY <1>2, <2>2
          <5> QED BY <4>2, <5>1 DEF told
        <4> QED BY <4>1, <4>2
      <3>2. continued(i, r)
        <4>1. ASSUME NEW k \in DOMAIN q, follows(q[k], p)
              PROVE  continued(i, r)
          <5>1. k \in DOMAIN r /\ k < i /\ r[k] = q[k] /\ r[i] = p
            BY <1>2, <2>2
          <5> QED BY <4>1, <5>1 DEF continued
        <4> QED BY <1>2, <2>2, <4>1 DEF continued
      <3> QED BY <1>2, <2>2, <3>1, <3>2
    <2> QED BY <1>2, <2>1, <2>2
  <1>4. carry(r) /\ newTold(r) /\ lossTold(r)
    BY <1>3 DEF carry, newTold, lossTold
  <1> QED BY <1>1, <1>4

\* They stay told when the packet newest of its stream ID leaves the queue.
LEMMA NewestGone ==
    ASSUME NEW q \in Seq(Packet), NEW s, NEW i \in newest(positions(q, s)),
           carry(q), newTold(q), lossTold(q)
    PROVE  /\ carry(RemoveAt(q, i)) /\ newTold(RemoveAt(q, i)) /\ lossTold(RemoveAt(q, i))
           /\ \A k \in DOMAIN q \ {i} : \E n \in DOMAIN RemoveAt(q, i) : RemoveAt(q, i)[n] = q[k]
  <1>0. /\ i \in DOMAIN q /\ q[i].streamID = s
        /\ \A k \in DOMAIN q : q[k].streamID = s => k <= i
        /\ \A k \in DOMAIN q : k \in Nat
    BY QueuePositions DEF newest, positions
  <1>1. PICK r, f : r = RemoveAt(q, i) /\ f = others(q, i)
    OBVIOUS
  <1>2. /\ r \in Seq(Packet)
        /\ \A n \in DOMAIN r : n \in Nat /\ f[n] \in DOMAIN q /\ f[n] \in Nat /\ f[n] # i
                              /\ r[n] = q[f[n]]
        /\ \A m, n \in DOMAIN r : m < n => f[m] < f[n]
        /\ \A k \in DOMAIN q \ {i} : \E n \in DOMAIN r : f[n] = k
    <2>1. Thinned(r, q, f, f)
      BY <1>0, <1>1, RemoveAtThins
    <2>2. \A n \in DOMAIN r : f[n] \in DOMAIN q /\ n \in Nat
      BY <2>1, QueuePositions DEF Thinned
    <2> QED BY <1>0, <1>1, <2>1, <2>2, RemoveAtThins DEF Thinned
  <1>3. ASSUME NEW m \in DOMAIN r, NEW n \in DOMAIN r
        PROVE  (f[m] <= f[n] => m <= n) /\ (f[m] < f[n] => m < n)
    <2>1. m \in Nat /\ n \in Nat /\ f[m] \in Nat /\ f[n] \in Nat
      BY <1>2
    <2>2. (n < m => f[n] < f[m]) /\ (n = m => f[n] = f[m])
      BY <1>2
    <2> QED BY <2>1, <2>2
  <1>4. ASSUME NEW n \in DOMAIN r
        PROVE  samplesIn(r[n]) /\ (begun(r[n]) \/ told(0, n, r)) /\ continued(n, r)
    <2>1. f[n] \in DOMAIN q /\ f[n] # i /\ r[n] = q[f[n]]
      BY <1>2
    <2>2. samplesIn(q[f[n]]) /\ (begun(q[f[n]]) \/ told(0, f[n], q)) /\ continued(f[n], q)
      BY <2>1 DEF carry, newTold, lossTold
    <2>3. ASSUME NEW k \in DOMAIN q, k <= f[n], same(q[k], q[f[n]])
          PROVE  \E m \in DOMAIN r : f[m] = k /\ r[m] = q[k] /\ m <= n /\ (k < f[n] => m < n)
      <3>1. k # i
        <4>1. k = i => f[n] <= i
          BY <1>0, <2>1, <2>3 DEF same
        <4> QED BY <1>0, <1>2, <2>1, <2>3, <4>1
      <3>2. PICK m \in DOMAIN r : f[m] = k
        BY <1>2, <3>1
      <3> QED BY <1>2, <1>3, <2>3, <3>2
    <2>4. ASSUME told(0, f[n], q) PROVE told(0, n, r)
      <3>1. PICK k \in DOMAIN q : k <= f[n] /\ same(q[k], q[f[n]]) /\ q[k].sriChanged
        BY <2>4 DEF told
      <3>2. PICK m \in DOMAIN r : r[m] = q[k] /\ m <= n
        BY <2>3, <3>1
      <3>3. 0 < m
        BY <1>2, QueuePositions
      <3> QED BY <2>1, <3>1, <3>2, <3>3 DEF told
    <2>5. continued(n, r)
      <3>1. ASSUME NEW k \in DOMAIN q, k < f[n], follows(q[k], q[f[n]])
            PROVE  continued(n, r)
        <4>1. k <= f[n] /\ same(q[k], q[f[n]])
          BY <1>0, <1>2, <3>1 DEF follows
        <4>2. PICK m \in DOMAIN r : r[m] = q[k] /\ m < n
          BY <2>3, <3>1, <4>1
        <4> QED BY <2>1, <3>1, <4>2 DEF continued
      <3> QED BY <2>1, <2>2, <3>1 DEF continued
    <2> QED BY <2>1, <2>2, <2>4, <2>5
  <1>5. carry(r) /\ newTold(r) /\ lossTold(r)
    BY <1>4 DEF carry, newTold, lossTold
  <1>6. \A k \in DOMAIN q \ {i} : \E n \in DOMAIN r : r[n] = q[k]
    BY <1>2
  <1> QED BY <1>1, <1>5, <1>6
-----------------------------------------------------------------------------
(* Packets told of: _flushQueue.                                           *)

\* What upstream has pushed, and will push no more than that of its
\* instance: numbers and instances do not decrease along the queue.
LEMMA AlongQueue ==
    ASSUME TypeOK, PacketsInv, carry(packetQueue),
           NEW i \in DOMAIN packetQueue, NEW j \in DOMAIN packetQueue,
           i < j, packetQueue[i].streamID = packetQueue[j].streamID
    PROVE  LET q == packetQueue
           IN  /\ q[i].instance \in Nat /\ q[j].instance \in Nat
               /\ q[i].buffer[2] \in Nat /\ q[j].buffer[2] \in Nat
               /\ q[i].instance <= q[j].instance
               /\ same(q[i], q[j]) =>
                     ~q[i].EOS /\ (~q[j].EOS => q[i].buffer[2] < q[j].buffer[2])
  <1>q. packetQueue \in Seq(Packet)
    BY DEF TypeOK
  <1>1. before(packetQueue[i], packetQueue[j])
    BY DEF PacketsInv, QueueOrder, ordered
  <1>2. packetQueue[i] \in Packet /\ packetQueue[j] \in Packet
    BY <1>q, QueuePositions
  <1>3. packetQueue[i].instance \in Nat /\ packetQueue[j].instance \in Nat
        /\ packetQueue[i].buffer[2] \in Nat /\ packetQueue[j].buffer[2] \in Nat
    BY <1>2 DEF Packet
  <1>4. samplesIn(packetQueue[j])
    BY DEF carry
  <1> QED BY <1>1, <1>3, <1>4 DEF before, same, samplesIn

\* The packet newest of its stream ID is kept, and a packet that is not kept
\* is absorbed by the next one that is.
LEMMA Absorbing ==
    ASSUME NEW q \in Seq(Packet), NEW k \in DOMAIN q
    PROVE  /\ \E i \in kept(q) : k <= i /\ i \in newest(positions(q, q[k].streamID))
           /\ k \notin kept(q) =>
                 \A j \in kept(q) : k < j /\ q[j].streamID = q[k].streamID =>
                    \E i \in kept(q) : k < i /\ i <= j /\ k \in absorbed(q, i)
  <1> DEFINE P == positions(q, q[k].streamID)
  <1>0. /\ \A i \in DOMAIN q : i \in Nat
        /\ \A i : i \in P <=> i \in DOMAIN q /\ q[i].streamID = q[k].streamID
        /\ k \in P
    BY QueuePositions DEF positions
  <1>1. P \in SUBSET Nat /\ IsFiniteSet(P)
    BY QueuePositions
  <1>k. kept(q) \in SUBSET DOMAIN q
    BY QueuePositions
  <1> HIDE DEF P
  <1>2. \E i \in kept(q) : k <= i /\ i \in newest(P)
    <2>1. PICK i \in P : newest(P) = {i}
      BY <1>0, <1>1, FirstAndNewest
    <2>2. i \in newest(P) /\ k <= i /\ i \in DOMAIN q /\ q[i].streamID = q[k].streamID
      BY <1>0, <2>1 DEF newest
    <2>3. i \in kept(q)
      BY <2>2 DEF kept, P
    <2> QED BY <2>2, <2>3
  <1>3. ASSUME k \notin kept(q), NEW j \in kept(q), k < j, q[j].streamID = q[k].streamID
        PROVE  \E i \in kept(q) : k < i /\ i <= j /\ k \in absorbed(q, i)
    <2> DEFINE K == {i \in kept(q) : q[i].streamID = q[k].streamID /\ k < i}
    <2>1. K \in SUBSET DOMAIN q /\ j \in K
      BY <1>3, QueuePositions
    <2>2. K \in SUBSET Nat /\ IsFiniteSet(K) /\ K # {}
      BY <2>1, QueuePositions
    <2>3. PICK i \in K : first(K) = {i}
      BY <2>2, FirstAndNewest
    <2>4. i \in K /\ \A m \in K : i <= m
      BY <2>3 DEF first
    <2>5. i \in kept(q) /\ q[i].streamID = q[k].streamID /\ k < i /\ i <= j
      BY <2>1, <2>4
    <2>6. \A m \in kept(q) : q[m].streamID = q[k].streamID => m < k \/ m >= i
      <3> SUFFICES ASSUME NEW m \in kept(q), q[m].streamID = q[k].streamID, ~(m < k)
                   PROVE  m >= i
        OBVIOUS
      <3>1. m \in Nat /\ k \in Nat /\ i \in Nat /\ m # k
        BY <1>0, <1>3, <1>k, <2>2
      <3>2. m \in K
        BY <3>1
      <3> QED BY <2>4, <3>1, <3>2
    <2>7. k \in absorbed(q, i)
      <3>1. k \in positions(q, q[i].streamID) \ kept(q)
        BY <1>0, <1>3, <2>5 DEF positions
      <3>2. \A m \in kept(q) \cap positions(q, q[i].streamID) : m < k \/ m >= i
        BY <1>k, <2>5, <2>6 DEF positions
      <3> QED BY <2>5, <3>1, <3>2 DEF absorbed
    <2> QED BY <2>5, <2>7
  <1> QED BY <1>2, <1>3 DEF P

\* A kept packet that ends no stream keeps its samples, and says so if it has
\* absorbed any.
LEMMA KeptSamples ==
    ASSUME NEW q \in Seq(Packet), carry(q), NEW i \in kept(q), ~q[i].EOS
    PROVE  /\ merged(q, i).buffer = q[i].buffer
           /\ i \in newest(positions(q, q[i].streamID))
           /\ ~merged(q, i).inputQueueFlushed => absorbed(q, i) = {}
  <1>1. i \in DOMAIN q /\ i \in newest(positions(q, q[i].streamID))
    BY QueuePositions DEF kept
  <1>2. taken(q, i) = {}
    <2>1. q[i].buffer # Empty
      BY <1>1 DEF carry, samplesIn
    <2> QED BY <2>1 DEF taken
  <1>3. merged(q, i).buffer = q[i].buffer
    BY <1>1, <1>2, MergedProperties
  <1>4. samples(q, i) = absorbed(q, i)
    <2>1. \A j \in absorbed(q, i) : j \in DOMAIN q /\ ~q[j].EOS
      BY DEF absorbed, positions, kept
    <2>2. \A j \in absorbed(q, i) : q[j].buffer # Empty
      BY <2>1 DEF carry, samplesIn
    <2> QED BY <2>2 DEF samples
  <1>5. merged(q, i).inputQueueFlushed = (q[i].inputQueueFlushed \/ drops(q, i))
    BY <1>1, MergedProperties
  <1>6. ~merged(q, i).inputQueueFlushed => absorbed(q, i) = {}
    BY <1>2, <1>4, <1>5 DEF drops
  <1> QED BY <1>1, <1>3, <1>6

\* Flushing the queue passes on what its packets told.
LEMMA FlushTold ==
    ASSUME TypeOK, PacketsInv,
           carry(packetQueue), newTold(packetQueue), lossTold(packetQueue)
    PROVE  LET F == flushQueue(packetQueue)
           IN  carry(F) /\ newTold(F) /\ lossTold(F)
  <1> DEFINE q == packetQueue
             F == flushQueue(q)
             f == keptAt(q)
  <1>q. q \in Seq(Packet)
    BY DEF TypeOK
  <1>1. /\ F \in Seq(Packet)
        /\ \A n \in DOMAIN F : f[n] \in kept(q) /\ f[n] \in Nat /\ F[n] = merged(q, f[n])
        /\ \A m, n \in DOMAIN F : m < n => f[m] < f[n]
        /\ \A k \in kept(q) : \E n \in DOMAIN F : f[n] = k
    BY <1>q, FlushProperties
  <1>2. ASSUME NEW i \in DOMAIN q, NEW j \in DOMAIN q, i < j, q[i].streamID = q[j].streamID
        PROVE  /\ q[i].instance \in Nat /\ q[j].instance \in Nat
               /\ q[i].buffer[2] \in Nat /\ q[j].buffer[2] \in Nat
               /\ q[i].instance <= q[j].instance
               /\ same(q[i], q[j]) =>
                     ~q[i].EOS /\ (~q[j].EOS => q[i].buffer[2] < q[j].buffer[2])
    BY <1>2, AlongQueue
  <1>c. carry(q) /\ newTold(q) /\ lossTold(q)
    OBVIOUS
  <1> HIDE DEF q, F, f
  <1>k. kept(q) \in SUBSET DOMAIN q /\ \A i \in DOMAIN q : i \in Nat
    BY <1>q, QueuePositions
  <1>3. ASSUME NEW m \in DOMAIN F, NEW n \in DOMAIN F
        PROVE  (f[m] <= f[n] => m <= n) /\ (f[m] < f[n] => m < n)
    <2>1. m \in Nat /\ n \in Nat /\ f[m] \in Nat /\ f[n] \in Nat
      BY <1>1, QueuePositions
    <2>2. (n < m => f[n] < f[m]) /\ (n = m => f[n] = f[m])
      BY <1>1
    <2> QED BY <2>1, <2>2
  <1>4. ASSUME NEW n \in DOMAIN F
        PROVE  /\ f[n] \in DOMAIN q
               /\ F[n].streamID = q[f[n]].streamID
               /\ F[n].instance = q[f[n]].instance
               /\ F[n].EOS = q[f[n]].EOS
               /\ F[n].sriChanged = (q[f[n]].sriChanged \/ changes(q, f[n]))
               /\ F[n].inputQueueFlushed = (q[f[n]].inputQueueFlushed \/ drops(q, f[n]))
    <2>1. f[n] \in DOMAIN q /\ F[n] = merged(q, f[n])
      BY <1>1, <1>k
    <2> QED BY <1>q, <2>1, MergedProperties
  <1>5. ASSUME NEW n \in DOMAIN F
        PROVE  samplesIn(F[n]) /\ (begun(F[n]) \/ told(0, n, F)) /\ continued(n, F)
    <2> DEFINE i == f[n]
    <2>1. i \in kept(q) /\ i \in DOMAIN q /\ i \in Nat /\ F[n] = merged(q, i)
      BY <1>1, <1>4
    <2>2. /\ F[n].streamID = q[i].streamID
          /\ F[n].instance = q[i].instance
          /\ F[n].EOS = q[i].EOS
          /\ F[n].inputQueueFlushed = (q[i].inputQueueFlushed \/ drops(q, i))
      BY <1>4
    <2>3. ~q[i].EOS => /\ F[n].buffer = q[i].buffer
                       /\ i \in newest(positions(q, q[i].streamID))
                       /\ ~F[n].inputQueueFlushed => absorbed(q, i) = {}
      BY <1>q, <1>c, <2>1, KeptSamples
    <2>4. samplesIn(q[i]) /\ (begun(q[i]) \/ told(0, i, q)) /\ continued(i, q)
      BY <1>c, <2>1 DEF carry, newTold, lossTold
    <2>n. \A m \in DOMAIN F : f[m] = i => m = n
      BY <1>1, <1>3, <2>1, QueuePositions
    <2>f. \A m \in DOMAIN F : f[m] <= i => m <= n
      BY <1>3
    <2> HIDE DEF i
    <2>5. samplesIn(F[n])
      BY <2>2, <2>3, <2>4 DEF samplesIn
    <2>6. ASSUME told(0, i, q) PROVE told(0, n, F)
      <3>1. PICK k \in DOMAIN q : k <= i /\ same(q[k], q[i]) /\ q[k].sriChanged
        BY <2>6 DEF told
      <3>2. \E j \in kept(q) : /\ j <= i /\ k <= j /\ q[j].streamID = q[k].streamID
                               /\ q[j].sriChanged \/ changes(q, j)
        <4>1. CASE k \in kept(q)
          BY <1>k, <3>1, <4>1
        <4>2. CASE k \notin kept(q)
          <5>1. k < i /\ q[i].streamID = q[k].streamID
            BY <1>k, <2>1, <3>1, <4>2 DEF same
          <5>2. PICK j \in kept(q) : k < j /\ j <= i /\ k \in absorbed(q, j)
            BY <1>q, <2>1, <4>2, <5>1, Absorbing
          <5>3. changes(q, j) /\ q[j].streamID = q[k].streamID
            BY <3>1, <5>2 DEF changes, absorbed, positions
          <5> QED BY <1>k, <5>2, <5>3
        <4> QED BY <4>1, <4>2
      <3>3. PICK j \in kept(q) : /\ j <= i /\ k <= j /\ q[j].streamID = q[k].streamID
                                 /\ q[j].sriChanged \/ changes(q, j)
        BY <3>2
      <3>4. q[j].instance = q[i].instance /\ q[j].streamID = q[i].streamID
        <4>1. j \in DOMAIN q /\ j \in Nat /\ k \in Nat
          BY <1>k
        <4>2. q[j].streamID = q[i].streamID /\ q[k].instance = q[i].instance
          BY <3>1, <3>3 DEF same
        <4>3. CASE k = j
          BY <4>2, <4>3
        <4>4. CASE j = i
          BY <4>4
        <4>5. CASE k < j /\ j < i
          <5>1. q[k].instance \in Nat /\ q[j].instance \in Nat /\ q[k].instance <= q[j].instance
            BY <1>2, <3>3, <4>1, <4>5
          <5>2. q[i].instance \in Nat /\ q[j].instance <= q[i].instance
            BY <1>2, <2>1, <4>1, <4>2, <4>5
          <5> QED BY <4>2, <5>1, <5>2
        <4>6. k = j \/ j = i \/ (k < j /\ j < i)
          BY <2>1, <3>3, <4>1
        <4> QED BY <4>3, <4>4, <4>5, <4>6
      <3>5. PICK m \in DOMAIN F : f[m] = j
        BY <1>1
      <3>6. m <= n /\ 0 < m
        BY <1>1, <2>f, <3>3, <3>5, QueuePositions
      <3>7. same(F[m], F[n]) /\ F[m].sriChanged
        BY <1>4, <2>2, <3>3, <3>4, <3>5 DEF same
      <3> QED BY <3>6, <3>7 DEF told
    <2>7. begun(q[i]) => begun(F[n])
      BY <2>2 DEF begun
    <2>8. continued(n, F)
      <3> SUFFICES ASSUME ~q[i].EOS, ~F[n].inputQueueFlushed
                   PROVE  continued(n, F)
        BY <2>2 DEF continued
      <3>1. absorbed(q, i) = {} /\ F[n].buffer = q[i].buffer /\ ~q[i].inputQueueFlushed
        BY <2>2, <2>3
      <3>2. ASSUME NEW k \in DOMAIN q, k < i, follows(q[k], q[i])
            PROVE  FALSE
        <4>1. k \in Nat /\ q[k].streamID = q[i].streamID /\ same(q[k], q[i])
          BY <1>k, <3>2 DEF follows, same
        <4>2. k \notin kept(q)
          <5>1. k \in kept(q) => k \in newest(positions(q, q[i].streamID))
            BY <3>2, <4>1 DEF kept, follows
          <5>2. i \in positions(q, q[i].streamID)
            BY <2>1 DEF positions
          <5>3. k \in kept(q) => i <= k
            BY <5>1, <5>2 DEF newest
          <5> QED BY <2>1, <3>2, <4>1, <5>3
        <4>3. PICK j \in kept(q) : k < j /\ j <= i /\ k \in absorbed(q, j)
          BY <1>q, <2>1, <3>2, <4>1, <4>2, Absorbing
        <4>4. j # i /\ j \in DOMAIN q /\ j \in Nat /\ q[j].streamID = q[i].streamID
          BY <1>k, <3>1, <4>1, <4>3 DEF absorbed, positions
        <4>5. j < i
          BY <2>1, <4>3, <4>4
        <4>6. /\ q[k].instance \in Nat /\ q[j].instance \in Nat /\ q[i].instance \in Nat
              /\ q[k].instance <= q[j].instance /\ q[j].instance <= q[i].instance
          BY <1>2, <2>1, <4>1, <4>3, <4>4, <4>5
        <4>7. same(q[k], q[j]) /\ same(q[j], q[i])
          BY <4>1, <4>4, <4>6 DEF same
        <4>8. ~q[j].EOS /\ q[j].buffer[2] < q[i].buffer[2]
          BY <1>2, <2>1, <4>4, <4>5, <4>7
        <4>9. q[k].buffer[2] < q[j].buffer[2] /\ q[k].buffer[2] \in Nat
              /\ q[j].buffer[2] \in Nat /\ q[i].buffer[2] \in Nat
          BY <1>2, <2>1, <4>1, <4>3, <4>4, <4>5, <4>7, <4>8
        <4> QED BY <3>2, <4>8, <4>9 DEF follows
      <3> QED BY <2>2, <2>4, <2>7, <3>1, <3>2 DEF continued
    <2> QED BY <2>4, <2>5, <2>6, <2>7, <2>8
  <1>6. carry(F) /\ newTold(F) /\ lossTold(F)
    BY <1>5 DEF carry, newTold, lossTold
  <1> QED BY <1>6 DEF F, q

-----------------------------------------------------------------------------
(* Packets told of: the calls.                                             *)

\* A step of another thread leaves the call of s at hand, but for waking it.
sameCall(s) ==
    /\ \/ call'[s] = call[s]
       \/ call[s].at = "waiting" /\ call'[s] = [call[s] EXCEPT !.at = "woken"]
    /\ currentHs'[s] = currentHs[s]
    /\ sent'[s] = sent[s]

\* A call that goes on is about the same packet.
LEMMA SameCall ==
    ASSUME TypeOK, NEW s \in Streams, sameCall(s)
    PROVE  /\ (call'[s].at \in inQueue) = (call[s].at \in inQueue)
           /\ (call'[s].at \in lookedUp) = (call[s].at \in lookedUp)
           /\ \A a \in {"new", "ended", "count"} : (call'[s].at = a) = (call[s].at = a)
           /\ call'[s].data = call[s].data /\ call'[s].EOS = call[s].EOS
           /\ call'[s].SRI = call[s].SRI /\ call'[s].sriChanged = call[s].sriChanged
           /\ changePending(s)' = changePending(s)
           /\ nextSRI(s)' = nextSRI(s)
           /\ currentHs'[s] = currentHs[s] /\ sent'[s] = sent[s]
  <1>1. call[s] \in Call
    BY DEF TypeOK
  <1>2. CASE call'[s] = call[s]
    BY <1>2 DEF sameCall, changePending, nextSRI
  <1>3. CASE call[s].at = "waiting" /\ call'[s] = [call[s] EXCEPT !.at = "woken"]
    <2>1. /\ call'[s].at = "woken"
          /\ call'[s].data = call[s].data /\ call'[s].EOS = call[s].EOS
          /\ call'[s].SRI = call[s].SRI /\ call'[s].sriChanged = call[s].sriChanged
      BY <1>1, <1>3 DEF Call
    <2> QED BY <1>3, <2>1 DEF sameCall, changePending, nextSRI, inQueue, lookedUp
  <1> QED BY <1>2, <1>3 DEF sameCall

\* What one call does to nothing but itself.
LEMMA CallGoesOn ==
    ASSUME NEW s \in Streams, CallTells(s), UNCHANGED <<packetQueue, last>>,
           sameSent(s), call[s].at # "ended",
           changePending(s) => changePending(s)',
           call'[s].at \in inQueue => call'[s].data \/ call'[s].EOS,
           call'[s].at = "new" => call'[s].sriChanged
    PROVE  CallTells(s)'
  <1>1. queued(s, packetQueue)' = queued(s, packetQueue)
    BY DEF queued, current, sameSent
  <1>2. newestQueued(s, packetQueue)' = newestQueued(s, packetQueue)
    BY DEF newestQueued, current, sameSent
  <1>3. currentRead(s)' = currentRead(s)
    BY DEF currentRead, sameSent
  <1> QED BY <1>1, <1>2, <1>3 DEF CallTells, sameSent

\* A call that another thread leaves alone, while that thread reads or queues
\* no packet of the stream ID.
LEMMA CallStays ==
    ASSUME TypeOK, NEW s \in Streams, CallTells(s), sameCall(s), last'[s] = last[s],
           call[s].at # "ended" =>
              /\ queued(s, packetQueue) => queued(s, packetQueue')
              /\ sent[s].data > 0 /\ newestQueued(s, packetQueue)
                    => newestQueued(s, packetQueue')
    PROVE  CallTells(s)'
  <1>1. queued(s, packetQueue)' = queued(s, packetQueue')
    BY DEF queued, current, sameCall
  <1>2. newestQueued(s, packetQueue)' = newestQueued(s, packetQueue')
    BY DEF newestQueued, current, sameCall
  <1>3. currentRead(s)' = currentRead(s)
    BY DEF currentRead, sameCall
  <1> QED BY <1>1, <1>2, <1>3, SameCall DEF CallTells

\* What upstream of s does without touching the queue.
LEMMA CallAlone ==
    ASSUME TypeInv, AllEnabled, NoDiscards, NEW s \in Streams, CallTells(s),
           Push(s) \/ Upstream(s), ~forgetSRI(s),
           queuePacket(s) \/ woken(s) \/ flushAndQueue(s)
              => \A q, c, fl : ~enqueue(s, q, c, fl)
    PROVE  CallTells(s)' /\ UNCHANGED packetQueue
  <1>c. call \in [Streams -> Call] /\ call[s] \in Call
    BY DEF TypeInv, TypeOK
  <1>h. currentHs \in [Streams -> KnownSRI \cup {NoSRI}]
    BY DEF TypeInv, TypeOK
  <1>s. sent \in [Streams -> Sent] /\ sent[s] \in Sent
    BY DEF TypeInv, TypeOK
  <1>n. NoCall.at = "idle"
    BY DEF NoCall
  <1>7. ~refusedEOS(s) /\ ~refusedOff(s)
    BY DEF AllEnabled, refusedEOS, refusedOff
  <1>8. ~flushAndQueue(s)
    BY DEF flushAndQueue, replace
  <1>l. UNCHANGED <<packetQueue, last>>
    <2>1. UNCHANGED packetQueue
      BY <1>7, <1>8 DEF Push, Upstream, pushSRI, pushPacket, pushSRIDecide, createStream,
                        lookupSRI, queuePacket, woken
    <2> QED BY <2>1, UpstreamFrame DEF TypeInv
  <1>1. CASE \E H \in SRIs : pushSRI(s, H)
    <2>1. PICK H \in SRIs : pushSRI(s, H)
      BY <1>1
    <2>2. call[s].at = "idle" /\ sameSent(s)
      BY <1>s, <2>1 DEF pushSRI, mayCall, counted, sameSent, Sent
    <2>3. CASE currentHs[s] = NoSRI
      <3>1. /\ currentHs'[s] = [SRI |-> H, changed |-> TRUE]
            /\ call' = [call EXCEPT ![s].at = "create"]
        BY <1>h, <2>1, <2>3 DEF pushSRI
      <3>2. call'[s].at = "create"
        BY <1>c, <3>1 DEF Call
      <3>3. changePending(s)'
        BY <3>1, <3>2 DEF changePending, lookedUp
      <3> QED BY <1>l, <2>2, <3>2, <3>3, CallGoesOn DEF inQueue, lookedUp
    <2>4. CASE currentHs[s] # NoSRI
      <3>1. /\ call' = [call EXCEPT ![s] = [call[s] EXCEPT !.at = "count", !.SRI = H,
                                                     !.eosCount = eosCount(s)]]
            /\ UNCHANGED currentHs
        BY <2>1, <2>4 DEF pushSRI
      <3>2. call'[s].at = "count"
        BY <1>c, <3>1 DEF Call
      <3>3. changePending(s)' = changePending(s)
        BY <2>2, <3>1, <3>2 DEF changePending, lookedUp
      <3> QED BY <1>l, <2>2, <3>2, <3>3, CallGoesOn DEF inQueue, lookedUp
    <2> QED BY <2>3, <2>4
  <1>2. CASE \E data, EOS \in BOOLEAN : pushPacket(s, data, EOS)
    <2>1. PICK data \in BOOLEAN, EOS \in BOOLEAN : pushPacket(s, data, EOS)
      BY <1>2
    <2>2. acceptPacket(s) /\ maxQueue # 0
      BY DEF AllEnabled, acceptPacket, NoDiscards, TypeInv, TypeOK
    <2>3. /\ call' = [call EXCEPT ![s] =
                [call[s] EXCEPT !.at = IF data \/ EOS THEN "accepted" ELSE "idle",
                                !.data = data /\ (data \/ EOS),
                                !.EOS = EOS /\ (data \/ EOS)]]
          /\ sent' = [counted(s) EXCEPT ![s].instance = @, ![s].data = @]
          /\ call[s].at = "idle" /\ UNCHANGED currentHs
      BY <2>1, <2>2 DEF pushPacket, mayCall
    <2>4. /\ call'[s].at = IF data \/ EOS THEN "accepted" ELSE "idle"
          /\ call'[s].data = data /\ call'[s].EOS = EOS
      BY <1>c, <2>3 DEF Call
    <2>5. sameSent(s)
      BY <1>s, <2>3 DEF counted, Sent, sameSent
    <2>6. changePending(s)' = changePending(s)
      BY <2>3, <2>4 DEF changePending, lookedUp
    <2> QED BY <1>l, <2>3, <2>4, <2>5, <2>6, CallGoesOn DEF inQueue, lookedUp
  <1>3. CASE pushSRIDecide(s)
    <2>1. call[s].at = "count" /\ sameSent(s)
      BY <1>3 DEF pushSRIDecide, sameSent
    <2>2. call'[s].at \in {"again", "idle"}
      BY <1>c, <1>n, <1>3 DEF pushSRIDecide, Call
    <2>3. UNCHANGED currentHs \/ currentHs'[s] = updated(s)
      BY <1>h, <1>3 DEF pushSRIDecide
    <2>4. changePending(s) => changePending(s)'
      BY <2>1, <2>2, <2>3 DEF changePending, lookedUp, updated
    <2> QED BY <1>l, <2>1, <2>2, <2>4, CallGoesOn DEF inQueue, lookedUp
  <1>4. CASE createStream(s)
    <2>1. sameSent(s) /\ UNCHANGED currentHs
      BY <1>4 DEF createStream, sameSent
    <2>2. CASE call[s].at = "new"
      <3>1. call' = [call EXCEPT ![s] = [call[s] EXCEPT !.at = "looked"]]
        BY <1>4, <2>2 DEF createStream
      <3>2. /\ call'[s].at = "looked" /\ call'[s].data = call[s].data
            /\ call'[s].EOS = call[s].EOS /\ call'[s].sriChanged = call[s].sriChanged
        BY <1>c, <3>1 DEF Call
      <3>3. changePending(s)' = changePending(s)
        BY <2>2, <3>2 DEF changePending, lookedUp
      <3>4. call[s].data \/ call[s].EOS
        BY <2>2 DEF CallTells, inQueue, lookedUp
      <3> QED BY <1>l, <2>1, <2>2, <3>2, <3>3, <3>4, CallGoesOn
    <2>3. CASE call[s].at # "new"
      <3>1. call[s].at \in {"create", "again"} /\ call' = [call EXCEPT ![s] = NoCall]
        BY <1>4, <2>3 DEF createStream
      <3>2. call'[s].at = "idle"
        BY <1>c, <1>n, <3>1
      <3>3. changePending(s)' = changePending(s)
        BY <2>1, <3>1, <3>2 DEF changePending, lookedUp
      <3> QED BY <1>l, <2>1, <3>1, <3>2, <3>3, CallGoesOn DEF inQueue, lookedUp
    <2> QED BY <2>2, <2>3
  <1>5. CASE lookupSRI(s)
    <2>1. call[s].at = "accepted" /\ sameSent(s) /\ (call[s].data \/ call[s].EOS)
      BY <1>5 DEF lookupSRI, sameSent, CallTells, inQueue
    <2>2. CASE currentHs[s] # NoSRI
      <3>1. call' = [call EXCEPT ![s] =
                  [call[s] EXCEPT !.at = "looked", !.SRI = currentHs[s].SRI,
                            !.sriChanged = currentHs[s].changed]]
        BY <1>5, <2>2 DEF lookupSRI
      <3>2. /\ call'[s].at = "looked" /\ call'[s].data = call[s].data
            /\ call'[s].EOS = call[s].EOS /\ call'[s].sriChanged = currentHs[s].changed
        BY <1>c, <3>1 DEF Call
      <3>3. changePending(s) => changePending(s)'
        BY <2>1, <2>2, <3>2 DEF changePending, lookedUp
      <3> QED BY <1>l, <2>1, <3>2, <3>3, CallGoesOn
    <2>3. CASE currentHs[s] = NoSRI
      <3>1. call' = [call EXCEPT ![s] =
                  [call[s] EXCEPT !.at = "new", !.SRI = DefaultSRI, !.sriChanged = TRUE]]
        BY <1>5, <2>3 DEF lookupSRI
      <3>2. /\ call'[s].at = "new" /\ call'[s].data = call[s].data
            /\ call'[s].EOS = call[s].EOS /\ call'[s].sriChanged
        BY <1>c, <3>1 DEF Call
      <3>3. changePending(s)'
        BY <3>2 DEF changePending, lookedUp
      <3> QED BY <1>l, <2>1, <3>2, <3>3, CallGoesOn
    <2> QED BY <2>2, <2>3
  <1>6. CASE queuePacket(s) \/ woken(s)
    <2>1. /\ call[s].at \in {"looked", "woken"} /\ UNCHANGED currentHs
          /\ \E a \in {"waiting", "full"} : call' = [call EXCEPT ![s].at = a]
          /\ UNCHANGED sent
      BY <1>6 DEF queuePacket, woken
    <2>3. PICK a \in {"waiting", "full"} : call' = [call EXCEPT ![s].at = a]
      BY <2>1
    <2>4. /\ call'[s].at = a /\ call'[s].data = call[s].data
          /\ call'[s].EOS = call[s].EOS /\ call'[s].sriChanged = call[s].sriChanged
      BY <1>c, <2>3 DEF Call
    <2>5. changePending(s)' = changePending(s) /\ sameSent(s)
      BY <2>1, <2>4 DEF changePending, lookedUp, sameSent
    <2>6. call[s].data \/ call[s].EOS
      BY <2>1 DEF CallTells, inQueue, lookedUp
    <2> QED BY <1>l, <2>1, <2>4, <2>5, <2>6, CallGoesOn
  <1> QED BY <1>l, <1>1, <1>2, <1>3, <1>4, <1>5, <1>6, <1>7, <1>8 DEF Push, Upstream

\* Forgetting the SRI of a stream ID that has ended begins another instance.
LEMMA CallRenewed ==
    ASSUME TypeInv, NEW s \in Streams, forgetSRI(s)
    PROVE  CallTells(s)' /\ UNCHANGED <<packetQueue, last>>
  <1>1. /\ call'[s] = NoCall /\ currentHs'[s] = NoSRI /\ sent'[s].data = 0
        /\ UNCHANGED <<packetQueue, last>>
    BY DEF forgetSRI, nextInstance, TypeInv, TypeOK, Sent
  <1>2. call'[s].at = "idle" /\ changePending(s)'
    BY <1>1 DEF NoCall, changePending, lookedUp
  <1> QED BY <1>1, <1>2 DEF CallTells, inQueue, lookedUp

-----------------------------------------------------------------------------
(* Packets told of: what a push does to the queue.                         *)

\* The packet that a push adds to what it has left of the queue.
LEMMA EnqueuedPacket ==
    ASSUME TypeOK, NEW s \in Streams, NEW q,
           NEW c \in BOOLEAN, NEW fl \in BOOLEAN, enqueue(s, q, c, fl)
    PROVE  \E p \in Packet :
              /\ packetQueue' = Append(q, p)
              /\ p.streamID = s /\ p.instance = sent[s].instance
              /\ p.EOS = call[s].EOS /\ p.SRI = call[s].SRI
              /\ p.sriChanged = c /\ p.inputQueueFlushed = fl
              /\ p.buffer = IF call[s].data THEN <<sent[s].instance, sent'[s].data>> ELSE Empty
              /\ sent'[s].data = IF call[s].data THEN sent[s].data + 1 ELSE sent[s].data
              /\ sent'[s].instance = sent[s].instance
  <1> DEFINE n == IF call[s].data THEN sent[s].data + 1 ELSE sent[s].data
             p == [streamID |-> s, instance |-> sent[s].instance,
                   buffer |-> IF call[s].data THEN <<sent[s].instance, n>> ELSE Empty,
                   EOS |-> call[s].EOS, SRI |-> call[s].SRI,
                   sriChanged |-> c, inputQueueFlushed |-> fl]
  <1>0. sent \in [Streams -> Sent] /\ call \in [Streams -> Call]
    BY DEF TypeOK
  <1>1. n \in Nat /\ sent[s].instance \in Nat
    BY <1>0 DEF Sent
  <1>2. p \in Packet
    BY <1>0, <1>1 DEF Packet, Call, Empty
  <1>3. packetQueue' = Append(q, p) /\ sent' = [sent EXCEPT ![s].data = n]
    BY DEF enqueue
  <1>4. sent'[s].instance = sent[s].instance /\ sent'[s].data = n
    BY <1>0, <1>3 DEF Sent
  <1> QED BY <1>2, <1>3, <1>4

\* A push that has looked up its SRI.
LEMMA PushAtHand ==
    ASSUME TypeOK, NEW s \in Streams, queuePacket(s) \/ woken(s) \/ flushAndQueue(s)
    PROVE  /\ call[s].at \in {"looked", "woken", "full"}
           /\ call[s].at \in lookedUp /\ call[s].at \in inQueue /\ call[s].at # "ended"
           /\ call[s].sriChanged \in BOOLEAN
           /\ UNCHANGED last
  BY DEF queuePacket, woken, flushAndQueue, lookedUp, inQueue, TypeOK, Call

\* A push that finds room leaves the queue as it is.
LEMMA PushedInto ==
    ASSUME TypeInv, NEW s \in Streams, queuePacket(s) \/ woken(s),
           \E q, c, fl : enqueue(s, q, c, fl)
    PROVE  enqueue(s, packetQueue, call[s].sriChanged, FALSE) /\ UNCHANGED currentHs
  <1>o. TypeOK
    BY DEF TypeInv
  <1>1. CASE enqueue(s, packetQueue, call[s].sriChanged, FALSE)
    BY <1>1 DEF queuePacket, woken
  <1>2. CASE call' = [call EXCEPT ![s].at = IF blocking THEN "waiting" ELSE "full"]
             \/ call' = [call EXCEPT ![s].at = "waiting"]
    <2>1. call'[s].at \in {"waiting", "full"}
      BY <1>o, <1>2 DEF TypeOK, Call
    <2>2. call'[s].at \in {"ended", "idle"}
      <3>1. \/ call'[s] = [call[s] EXCEPT !.at = "ended"]
            \/ call'[s] = NoCall
        BY <1>o, EnqueueThreads
      <3> QED BY <1>o, <3>1 DEF TypeOK, Call, NoCall
    <2> QED BY <2>1, <2>2
  <1> QED BY <1>1, <1>2 DEF queuePacket, woken

\* What it adds carries samples if it ends no stream, and is told of if what
\* it has left of the queue is as well.
LEMMA AddedTold ==
    ASSUME TypeOK, PacketsInv, NEW s \in Streams, CallTells(s),
           queuePacket(s) \/ woken(s) \/ flushAndQueue(s),
           NEW q \in Seq(Packet), carry(q), newTold(q), lossTold(q), allPushed(q),
           queued(s, packetQueue) => queued(s, q),
           sent[s].data > 0 /\ newestQueued(s, packetQueue) => newestQueued(s, q),
           enqueue(s, q, call[s].sriChanged, FALSE)
    PROVE  carry(packetQueue') /\ newTold(packetQueue') /\ lossTold(packetQueue')
  <1>1. /\ call[s].at \in lookedUp /\ call[s].at \in inQueue /\ call[s].at # "ended"
        /\ call[s].sriChanged \in BOOLEAN
    BY PushAtHand
  <1>2. PICK p \in Packet :
              /\ packetQueue' = Append(q, p)
              /\ p.streamID = s /\ p.instance = sent[s].instance
              /\ p.EOS = call[s].EOS
              /\ p.sriChanged = call[s].sriChanged
              /\ p.buffer = IF call[s].data THEN <<sent[s].instance, sent'[s].data>> ELSE Empty
              /\ sent'[s].data = IF call[s].data THEN sent[s].data + 1 ELSE sent[s].data
    <2>1. PICK c \in BOOLEAN, fl \in BOOLEAN : /\ c = call[s].sriChanged
                                             /\ enqueue(s, q, c, fl)
      BY <1>1
    <2> QED BY <2>1, EnqueuedPacket
  <1>3. /\ sent[s].data \in Nat /\ sent[s].instance \in Nat /\ sent[s].instance >= 1
        /\ call[s].data \/ call[s].EOS
    BY <1>1 DEF TypeOK, Sent, PacketsInv, Pushed, CallTells
  <1>4. ~p.EOS => call[s].data /\ p.buffer[2] = sent[s].data + 1 /\ p.buffer # Empty
    BY <1>2, <1>3 DEF Empty
  <1>5. samplesIn(p)
    BY <1>3, <1>4 DEF samplesIn
  <1>6. begun(p) = currentRead(s)
    BY <1>2 DEF begun, currentRead
  <1>7. ASSUME NEW i \in DOMAIN q, current(s, q[i])
        PROVE  same(q[i], p) /\ ~q[i].EOS
    <2>1. same(q[i], p)
      BY <1>2, <1>7 DEF current, same
    <2>2. pushed(s, q[i])
      BY <1>7 DEF allPushed, current
    <2> QED BY <1>1, <1>7, <2>1, <2>2 DEF pushed, current
  <1>8. \/ begun(p) \/ p.sriChanged
        \/ \E k \in DOMAIN q : same(q[k], p) /\ q[k].sriChanged
    <2>1. changePending(s) => p.sriChanged
      BY <1>1, <1>2 DEF changePending
    <2>2. ASSUME NEW i \in DOMAIN q, current(s, q[i]), ~begun(p)
          PROVE  \E k \in DOMAIN q : same(q[k], p) /\ q[k].sriChanged
      <3>1. same(q[i], p)
        BY <1>7, <2>2
      <3>2. told(0, i, q)
        BY <2>2, <3>1 DEF newTold, begun, same
      <3> QED BY <3>1, <3>2 DEF told, same
    <2> QED BY <1>1, <1>6, <2>1, <2>2 DEF CallTells, queued
  <1>9. \/ p.EOS \/ p.inputQueueFlushed \/ p.buffer[2] = 1
        \/ begun(p) /\ ~last[p.streamID].EOS
                    /\ p.buffer[2] = last[p.streamID].buffer[2] + 1
        \/ \E k \in DOMAIN q : follows(q[k], p)
    <2> SUFFICES ASSUME ~p.EOS, sent[s].data > 0
                 PROVE  \/ begun(p) /\ ~last[p.streamID].EOS
                                    /\ p.buffer[2] = last[p.streamID].buffer[2] + 1
                        \/ \E k \in DOMAIN q : follows(q[k], p)
      BY <1>3, <1>4
    <2>1. CASE currentRead(s) /\ last[s].buffer[2] = sent[s].data
      <3>1. ~last[s].EOS
        BY <1>1, <2>1 DEF PacketsInv, Pushed, pushed, currentRead
      <3> QED BY <1>2, <1>4, <1>6, <2>1, <3>1
    <2>2. ASSUME NEW i \in DOMAIN q, current(s, q[i]), q[i].buffer[2] = sent[s].data
          PROVE  follows(q[i], p)
      BY <1>4, <1>7, <2>2 DEF follows
    <2> QED BY <1>1, <2>1, <2>2 DEF CallTells, newestQueued
  <1> QED BY <1>2, <1>5, <1>8, <1>9, JoinTold

\* The call that has queued its packet is over, or ends the stream.
LEMMA CallQueued ==
    ASSUME TypeInv, NEW s \in Streams, CallTells(s), call[s].at \in inQueue,
           NEW q \in Seq(Packet), NEW c \in BOOLEAN, NEW fl \in BOOLEAN, enqueue(s, q, c, fl)
    PROVE  CallTells(s)'
  <1>1. PICK p \in Packet :
              /\ packetQueue' = Append(q, p)
              /\ p.streamID = s /\ p.instance = sent[s].instance
              /\ p.buffer = IF call[s].data THEN <<sent[s].instance, sent'[s].data>> ELSE Empty
              /\ sent'[s].instance = sent[s].instance
    BY EnqueuedPacket DEF TypeInv
  <1>2. call[s] \in Call
    BY DEF TypeInv, TypeOK
  <1>3. \/ call[s].EOS /\ call'[s].at = "ended"
        \/ ~call[s].EOS /\ call'[s].at = "idle"
    <2>1. \/ call[s].EOS /\ call'[s] = [call[s] EXCEPT !.at = "ended"]
          \/ ~call[s].EOS /\ call'[s] = NoCall
      BY EnqueueThreads DEF TypeInv
    <2> QED BY <1>2, <2>1 DEF Call, NoCall
  <1>4. CASE call[s].EOS /\ call'[s].at = "ended"
    BY <1>4 DEF CallTells, inQueue, lookedUp
  <1>5. CASE ~call[s].EOS /\ call'[s].at = "idle"
    <2>1. call[s].data
      BY <1>5 DEF CallTells
    <2>2. p.buffer[2] = sent'[s].data
      BY <1>1, <2>1
    <2>3. Len(q) + 1 \in DOMAIN packetQueue' /\ packetQueue'[Len(q) + 1] = p
      BY <1>1
    <2>4. queued(s, packetQueue)' /\ newestQueued(s, packetQueue)'
      BY <1>1, <2>2, <2>3 DEF queued, newestQueued, current
    <2> QED BY <1>5, <2>4 DEF CallTells, inQueue, lookedUp
  <1> QED BY <1>3, <1>4, <1>5

\* What is queued of another stream ID is still there.
LEMMA StillQueued ==
    ASSUME NEW q \in Seq(Packet), NEW p, NEW t
    PROVE  /\ queued(t, q) => queued(t, Append(q, p))
           /\ newestQueued(t, q) => newestQueued(t, Append(q, p))
  <1>1. \A i \in DOMAIN q : i \in DOMAIN Append(q, p) /\ Append(q, p)[i] = q[i]
    OBVIOUS
  <1> QED BY <1>1 DEF queued, newestQueued

\* _flushQueue keeps a packet of an instance that it found in the queue, and
\* the one with the newest samples of the current instance.
LEMMA FlushStands ==
    ASSUME TypeOK, PacketsInv, carry(packetQueue), NEW t \in Streams, call[t].at # "ended"
    PROVE  LET F == flushQueue(packetQueue)
           IN  /\ queued(t, packetQueue) => queued(t, F)
               /\ sent[t].data > 0 /\ newestQueued(t, packetQueue) => newestQueued(t, F)
  <1> DEFINE q == packetQueue
             F == flushQueue(q)
             f == keptAt(q)
  <1>q. q \in Seq(Packet)
    BY DEF TypeOK
  <1>1. /\ \A n \in DOMAIN F : f[n] \in kept(q) /\ F[n] = merged(q, f[n])
        /\ \A k \in kept(q) : \E n \in DOMAIN F : f[n] = k
    BY <1>q, FlushProperties
  <1>2. \A i \in DOMAIN q : pushed(q[i].streamID, q[i])
    BY DEF PacketsInv, Pushed, allPushed
  <1>c. carry(q)
    OBVIOUS
  <1>o. \A i, j \in DOMAIN q : i < j /\ q[i].streamID = q[j].streamID =>
           /\ q[i].instance \in Nat /\ q[j].instance \in Nat
           /\ q[i].buffer[2] \in Nat /\ q[j].buffer[2] \in Nat
           /\ q[i].instance <= q[j].instance
           /\ same(q[i], q[j]) => (~q[j].EOS => q[i].buffer[2] < q[j].buffer[2])
    BY AlongQueue
  <1> HIDE DEF q, F, f
  <1>k. kept(q) \in SUBSET DOMAIN q /\ \A i \in DOMAIN q : i \in Nat
    BY <1>q, QueuePositions
  <1>s. sent[t].instance \in Nat /\ sent[t].data \in Nat
    BY DEF TypeOK, Sent
  <1>3. ASSUME NEW i \in DOMAIN q, current(t, q[i])
        PROVE  \E k \in kept(q) : /\ i <= k /\ current(t, q[k]) /\ ~q[k].EOS
                                  /\ q[k].buffer[2] <= sent[t].data
    <2>1. PICK k \in kept(q) : i <= k /\ k \in newest(positions(q, q[i].streamID))
      BY <1>q, Absorbing
    <2>2. k \in DOMAIN q /\ q[k].streamID = t /\ i \in Nat /\ k \in Nat
      BY <1>k, <1>3, <2>1 DEF newest, positions, current
    <2>3. q[k].instance = sent[t].instance
      <3>1. CASE i = k
        BY <1>3, <3>1 DEF current
      <3>2. CASE i < k
        <4>1. q[i].instance <= q[k].instance /\ q[k].instance \in Nat
          BY <1>o, <1>3, <2>2, <3>2 DEF current
        <4>2. q[k].instance <= sent[t].instance
          BY <1>2, <1>s, <2>2 DEF pushed
        <4> QED BY <1>3, <1>s, <4>1, <4>2 DEF current
      <3> QED BY <2>1, <2>2, <3>1, <3>2
    <2>4. pushed(t, q[k])
      BY <1>2, <2>2
    <2>5. ~q[k].EOS /\ q[k].buffer[2] <= sent[t].data
      BY <2>3, <2>4 DEF pushed
    <2> QED BY <2>1, <2>2, <2>3, <2>5 DEF current
  <1>4. ASSUME NEW k \in kept(q), current(t, q[k]), ~q[k].EOS
        PROVE  \E n \in DOMAIN F : current(t, F[n]) /\ F[n].buffer = q[k].buffer
    <2>1. PICK n \in DOMAIN F : F[n] = merged(q, k)
      BY <1>1
    <2>2. merged(q, k).buffer = q[k].buffer
      BY <1>q, <1>c, <1>4, KeptSamples
    <2>3. merged(q, k).streamID = q[k].streamID /\ merged(q, k).instance = q[k].instance
      BY <1>q, <1>k, MergedProperties
    <2> QED BY <1>4, <2>1, <2>2, <2>3 DEF current
  <1>5. queued(t, q) => queued(t, F)
    BY <1>3, <1>4 DEF queued
  <1>6. newestQueued(t, q) => newestQueued(t, F)
    <2> SUFFICES ASSUME NEW i \in DOMAIN q, current(t, q[i]), q[i].buffer[2] = sent[t].data
                 PROVE  newestQueued(t, F)
      BY DEF newestQueued
    <2>1. PICK k \in kept(q) : /\ i <= k /\ current(t, q[k]) /\ ~q[k].EOS
                               /\ q[k].buffer[2] <= sent[t].data
      BY <1>3
    <2>2. k = i
      <3>1. i \in Nat /\ k \in Nat /\ k \in DOMAIN q
        BY <1>k
      <3>2. same(q[i], q[k])
        BY <2>1 DEF current, same
      <3>3. i < k => q[i].buffer[2] < q[k].buffer[2] /\ q[k].buffer[2] \in Nat
        BY <1>o, <2>1, <3>1, <3>2 DEF same
      <3> QED BY <1>s, <2>1, <3>1, <3>3
    <2>3. PICK n \in DOMAIN F : current(t, F[n]) /\ F[n].buffer = q[k].buffer
      BY <1>4, <2>1
    <2> QED BY <2>2, <2>3 DEF newestQueued
  <1> QED BY <1>5, <1>6 DEF F, q

\* What upstream does to the queue keeps it told of.
LEMMA PushTold ==
    ASSUME TypeInv, OrderInv, NoDiscards, TellInv, NEW s \in Streams,
           queuePacket(s) \/ woken(s) \/ flushAndQueue(s),
           \E q, c, fl : enqueue(s, q, c, fl)
    PROVE  /\ carry(packetQueue') /\ newTold(packetQueue') /\ lossTold(packetQueue')
           /\ CallTells(s)'
           /\ \A t \in Streams \ {s} : call[t].at # "ended" =>
                 /\ queued(t, packetQueue) => queued(t, packetQueue')
                 /\ sent[t].data > 0 /\ newestQueued(t, packetQueue)
                       => newestQueued(t, packetQueue')
  <1>o. TypeOK /\ PacketsInv /\ packetQueue \in Seq(Packet)
    BY DEF TypeInv, TypeOK, OrderInv
  <1>t. carry(packetQueue) /\ newTold(packetQueue) /\ lossTold(packetQueue) /\ CallTells(s)
    BY DEF TellInv
  <1>a. /\ call[s].at \in inQueue /\ call[s].at # "ended" /\ call[s].sriChanged \in BOOLEAN
    BY <1>o, PushAtHand
  <1>1. CASE queuePacket(s) \/ woken(s)
    <2>0. enqueue(s, packetQueue, call[s].sriChanged, FALSE)
      BY <1>1, PushedInto
    <2>1. allPushed(packetQueue)
      BY <1>o DEF PacketsInv, Pushed
    <2>2. carry(packetQueue') /\ newTold(packetQueue') /\ lossTold(packetQueue')
      BY <1>o, <1>t, <2>0, <2>1, AddedTold
    <2>3. CallTells(s)'
      <3>1. PICK c \in BOOLEAN, fl \in BOOLEAN : enqueue(s, packetQueue, c, fl)
        BY <1>a, <2>0
      <3> QED BY <1>o, <1>t, <1>a, <3>1, CallQueued
    <2>4. PICK p : packetQueue' = Append(packetQueue, p)
      BY <2>0 DEF enqueue
    <2> QED BY <1>o, <2>2, <2>3, <2>4, StillQueued
  <1>2. CASE flushAndQueue(s)
    <2> DEFINE F == flushQueue(packetQueue)
    <2>1. F \in Seq(Packet) /\ ordered(F) /\ allPushed(F) /\ endFollows(F)
      <3>1. SamplesStay
        BY DEF SamplesStay
      <3>2. PICK g : Thinned(F, packetQueue, keptAt(packetQueue), g)
        BY <1>o, <3>1, FlushThins, TakenStays
      <3>3. keepsEnds(F, packetQueue, keptAt(packetQueue))
        BY <1>o, <3>1, FlushThins, TakenStays
      <3>4. ordered(F) /\ allPushed(F)
        BY <1>o, <3>2, ThinnedOrder DEF PacketsInv, QueueOrder, Pushed
      <3>5. endFollows(F)
        BY <1>o, <3>2, <3>3, ThinnedEnds DEF keepsEnds, keepsFollowing, PacketsInv, EndFollows
      <3> QED BY <3>2, <3>4, <3>5 DEF Thinned
    <2>2. carry(F) /\ newTold(F) /\ lossTold(F)
      BY <1>o, <1>t, FlushTold
    <2>3. \A t \in Streams : call[t].at # "ended" =>
             /\ queued(t, packetQueue) => queued(t, F)
             /\ sent[t].data > 0 /\ newestQueued(t, packetQueue) => newestQueued(t, F)
      BY <1>o, <1>t, FlushStands
    <2>4. \/ \E i \in newest(positions(F, s)) : ~F[i].EOS /\ replace(s, i, F)
          \/ enqueue(s, F, call[s].sriChanged, FALSE)
      BY <1>2 DEF flushAndQueue
    <2> HIDE DEF F
    <2>5. CASE enqueue(s, F, call[s].sriChanged, FALSE)
      <3>1. carry(packetQueue') /\ newTold(packetQueue') /\ lossTold(packetQueue')
        BY <1>o, <1>t, <1>a, <2>1, <2>2, <2>3, <2>5, AddedTold
      <3>2. CallTells(s)'
        <4>1. PICK c \in BOOLEAN, fl \in BOOLEAN : enqueue(s, F, c, fl)
          BY <1>a, <2>5
        <4> QED BY <1>t, <1>a, <2>1, <4>1, CallQueued
      <3>3. PICK p : packetQueue' = Append(F, p)
        BY <2>5 DEF enqueue
      <3> QED BY <2>1, <2>3, <3>1, <3>2, <3>3, StillQueued
    <2>6. ASSUME NEW i \in newest(positions(F, s)), ~F[i].EOS, replace(s, i, F)
          PROVE  /\ carry(packetQueue') /\ newTold(packetQueue') /\ lossTold(packetQueue')
                 /\ CallTells(s)'
                 /\ \A t \in Streams \ {s} : call[t].at # "ended" =>
                       /\ queued(t, packetQueue) => queued(t, packetQueue')
                       /\ sent[t].data > 0 /\ newestQueued(t, packetQueue)
                             => newestQueued(t, packetQueue')
      <3>0. /\ i \in DOMAIN F /\ i \in Nat /\ F[i] \in Packet /\ F[i].streamID = s
            /\ \A k \in DOMAIN F : F[k].streamID = s => k <= i
        BY <2>1, <2>6, QueuePositions DEF newest, positions
      <3>1. PICK r : r = RemoveAt(F, i)
        OBVIOUS
      <3>2. /\ r \in Seq(Packet)
            /\ carry(r) /\ newTold(r) /\ lossTold(r)
            /\ \A k \in DOMAIN F \ {i} : \E n \in DOMAIN r : r[n] = F[k]
        <4>1. r \in Seq(Packet)
          BY <2>1, <3>0, <3>1, RemoveAtThins DEF Thinned
        <4> QED BY <2>1, <2>2, <2>6, <3>1, <4>1, NewestGone
      <3>3. PICK c \in BOOLEAN, fl \in BOOLEAN :
                enqueue(s, r, c, fl) /\ c = F[i].sriChanged /\ fl = TRUE
        BY <2>6, <3>0, <3>1 DEF replace, Packet
      <3>4. PICK p \in Packet :
              /\ packetQueue' = Append(r, p)
              /\ p.streamID = s /\ p.instance = sent[s].instance
              /\ p.EOS = call[s].EOS
              /\ p.sriChanged = c /\ p.inputQueueFlushed = fl
              /\ p.buffer = IF call[s].data THEN <<sent[s].instance, sent'[s].data>> ELSE Empty
              /\ sent'[s].data = IF call[s].data THEN sent[s].data + 1 ELSE sent[s].data
        <4>1. enqueue(s, r, c, fl)
          BY <3>3
        <4> QED BY <1>o, <4>1, EnqueuedPacket
      <3>5. same(F[i], p)
        <4>1. /\ sent[s].instance \in Nat /\ F[i].instance \in Nat
              /\ F[i].instance <= sent[s].instance
          BY <1>o, <2>1, <3>0 DEF TypeOK, Sent, allPushed, pushed, Packet
        <4>2. ~closed(F[i])
          <5>1. ASSUME NEW k \in DOMAIN F, i <= k, F[k].streamID = F[i].streamID, F[k].EOS
                PROVE  FALSE
            <6>1. k \in Nat /\ k <= i
              BY <2>1, <3>0, <5>1, QueuePositions
            <6>2. k = i
              BY <3>0, <5>1, <6>1
            <6> QED BY <2>6, <5>1, <6>2
          <5> QED BY <2>1, <3>0, <5>1 DEF endFollows, endOf
        <4> QED BY <3>0, <3>4, <4>1, <4>2 DEF closed, same
      <3>6. samplesIn(p)
        <4>1. /\ sent[s].data \in Nat /\ sent[s].instance \in Nat /\ sent[s].instance >= 1
              /\ call[s].data \/ call[s].EOS
          BY <1>o, <1>t, <1>a DEF TypeOK, Sent, PacketsInv, Pushed, CallTells
        <4>2. ~p.EOS => p.buffer[2] = sent[s].data + 1 /\ p.buffer # Empty
          BY <3>4, <4>1 DEF Empty
        <4> QED BY <4>1, <4>2 DEF samplesIn
      <3>7. \/ begun(p) \/ p.sriChanged
            \/ \E k \in DOMAIN r : same(r[k], p) /\ r[k].sriChanged
        <4>1. begun(F[i]) \/ told(0, i, F)
          BY <2>2, <3>0 DEF newTold
        <4>2. CASE begun(F[i])
          BY <3>5, <4>2 DEF begun, same
        <4>3. CASE told(0, i, F)
          <5>1. PICK k \in DOMAIN F : same(F[k], F[i]) /\ F[k].sriChanged
            BY <4>3 DEF told
          <5>2. CASE k = i
            BY <3>3, <3>4, <5>1, <5>2
          <5>3. CASE k # i
            <6>1. PICK n \in DOMAIN r : r[n] = F[k]
              BY <3>2, <5>3
            <6> QED BY <3>5, <5>1, <6>1 DEF same
          <5> QED BY <5>2, <5>3
        <4> QED BY <4>1, <4>2, <4>3
      <3>8. carry(packetQueue') /\ newTold(packetQueue') /\ lossTold(packetQueue')
        BY <3>2, <3>3, <3>4, <3>6, <3>7, JoinTold
      <3>9. CallTells(s)'
        BY <1>t, <1>a, <3>2, <3>3, CallQueued
      <3>10. ASSUME NEW t \in Streams \ {s}
             PROVE  /\ queued(t, F) => queued(t, r)
                    /\ newestQueued(t, F) => newestQueued(t, r)
        <4>1. \A k \in DOMAIN F : current(t, F[k]) => \E n \in DOMAIN r : r[n] = F[k]
          BY <3>0, <3>2 DEF current
        <4> QED BY <4>1 DEF queued, newestQueued
      <3> QED BY <2>3, <3>2, <3>4, <3>8, <3>9, <3>10, StillQueued
    <2> QED BY <2>4, <2>5, <2>6
  <1> QED BY <1>1, <1>2

\* Upstream keeps the invariant.
LEMMA UpstreamTells ==
    ASSUME TypeInv, OrderInv, NoDiscards, TellInv, NEW s \in Streams, Push(s) \/ Upstream(s)
    PROVE  TellInv'
  <1>o. TypeOK /\ AllEnabled
    BY DEF TypeInv, OrderInv
  <1>f. /\ UNCHANGED last
        /\ \A t \in Streams \ {s} : sameCall(t)
    BY <1>o, UpstreamFrame DEF sameCall
  <1>t. \A t \in Streams : CallTells(t)
    BY DEF TellInv
  <1> SUFFICES /\ carry(packetQueue') /\ newTold(packetQueue') /\ lossTold(packetQueue')
               /\ CallTells(s)'
               /\ \A t \in Streams \ {s} : call[t].at # "ended" =>
                     /\ queued(t, packetQueue) => queued(t, packetQueue')
                     /\ sent[t].data > 0 /\ newestQueued(t, packetQueue)
                           => newestQueued(t, packetQueue')
    <2>1. carry(packetQueue)' /\ newTold(packetQueue)' /\ lossTold(packetQueue)'
      BY <1>f DEF carry, newTold, lossTold, samplesIn, begun, told, same, continued, follows
    <2>2. \A t \in Streams \ {s} : CallTells(t)'
      BY <1>o, <1>f, <1>t, CallStays
    <2> QED BY <1>f, <2>1, <2>2 DEF TellInv, samplesIn
  <1>1. CASE /\ queuePacket(s) \/ woken(s) \/ flushAndQueue(s)
             /\ \E q, c, fl : enqueue(s, q, c, fl)
    BY <1>1, PushTold
  <1>2. CASE forgetSRI(s)
    BY <1>2, CallRenewed DEF TellInv
  <1>3. CASE /\ ~forgetSRI(s)
             /\ queuePacket(s) \/ woken(s) \/ flushAndQueue(s)
                   => \A q, c, fl : ~enqueue(s, q, c, fl)
    BY <1>o, <1>t, <1>3, CallAlone DEF TellInv
  <1> QED BY <1>1, <1>2, <1>3

-----------------------------------------------------------------------------
(* Packets told of: what is read.                                          *)

\* The first packet of a stream ID is of the instance last read, or of a
\* later one, and is followed by the others.
LEMMA FirstOfStream ==
    ASSUME TypeOK, PacketsInv, NEW s \in Streams, NEW i \in fetchPacket(s)
    PROVE  LET q == packetQueue
           IN  /\ i \in DOMAIN q /\ i \in Nat /\ q[i] \in Packet /\ q[i].streamID = s
               /\ q[i].instance \in Nat /\ q[i].buffer[2] \in Nat
               /\ \A k \in DOMAIN q : q[k].streamID = s => i <= k
               /\ last[s] # NoPacket =>
                     /\ last[s].instance \in Nat /\ last[s].buffer[2] \in Nat
                     /\ before(last[s], q[i])
  <1>q. packetQueue \in Seq(Packet) /\ last \in [Streams -> Packet \cup {NoPacket}]
    BY DEF TypeOK
  <1>1. /\ i \in DOMAIN packetQueue /\ packetQueue[i].streamID = s
        /\ \A k \in DOMAIN packetQueue : packetQueue[k].streamID = s => i <= k
    BY DEF fetchPacket, first, positions
  <1>2. i \in Nat /\ packetQueue[i] \in Packet
    BY <1>q, <1>1, QueuePositions
  <1>3. last[s] # NoPacket => last[s] \in Packet /\ before(last[s], packetQueue[i])
    BY <1>q, <1>1 DEF PacketsInv, LastBefore, ahead
  <1> QED BY <1>1, <1>2, <1>3 DEF Packet

\* Reading a packet makes the next one follow it.
LEMMA TakenTold ==
    ASSUME TypeInv, OrderInv, TellInv, NEW s \in Streams, NEW i, Taken(s, i),
           \A t \in Streams : sameCall(t)
    PROVE  TellInv'
  <1>o. TypeOK /\ PacketsInv
    BY DEF TypeInv, OrderInv
  <1>e. PICK q, r, f : q = packetQueue /\ r = RemoveAt(q, i) /\ f = others(q, i)
    OBVIOUS
  <1>q. /\ q \in Seq(Packet) /\ \A k \in DOMAIN q : k \in Nat /\ q[k] \in Packet
        /\ last \in [Streams -> Packet \cup {NoPacket}]
    BY <1>o, <1>e, QueuePositions DEF TypeOK
  <1>i. i \in fetchPacket(s)
    BY DEF Taken
  <1>0. /\ i \in DOMAIN q /\ i \in Nat /\ q[i] \in Packet /\ q[i].streamID = s
        /\ q[i].instance \in Nat /\ q[i].buffer[2] \in Nat
        /\ \A k \in DOMAIN q : q[k].streamID = s => i <= k
        /\ last[s] # NoPacket =>
              /\ last[s].instance \in Nat /\ last[s].buffer[2] \in Nat
              /\ before(last[s], q[i])
    BY <1>o, <1>e, <1>i, FirstOfStream
  <1>1. packetQueue' = r /\ last' = [last EXCEPT ![s] = q[i]]
    BY <1>e DEF Taken
  <1>l. last'[s] = q[i] /\ q[i] # NoPacket /\ \A t \in Streams \ {s} : last'[t] = last[t]
    BY <1>q, <1>0, <1>1, InPortConstants
  <1>2. /\ r \in Seq(Packet)
        /\ \A n \in DOMAIN r : n \in Nat /\ f[n] \in DOMAIN q /\ f[n] \in Nat /\ f[n] # i
                              /\ r[n] = q[f[n]]
        /\ \A m, n \in DOMAIN r : m < n => f[m] < f[n]
        /\ \A k \in DOMAIN q \ {i} : \E n \in DOMAIN r : f[n] = k
    <2>1. Thinned(r, q, f, f)
      BY <1>q, <1>0, <1>e, RemoveAtThins
    <2>2. \A n \in DOMAIN r : f[n] \in DOMAIN q /\ n \in Nat
      BY <2>1, QueuePositions DEF Thinned
    <2> QED BY <1>q, <1>0, <1>e, <2>1, <2>2, RemoveAtThins DEF Thinned
  <1>3. ASSUME NEW m \in DOMAIN r, NEW n \in DOMAIN r
        PROVE  (f[m] <= f[n] => m <= n) /\ (f[m] < f[n] => m < n)
    <2>1. m \in Nat /\ n \in Nat /\ f[m] \in Nat /\ f[n] \in Nat
      BY <1>2
    <2>2. (n < m => f[n] < f[m]) /\ (n = m => f[n] = f[m])
      BY <1>2
    <2> QED BY <2>1, <2>2
  <1>t. carry(q) /\ newTold(q) /\ lossTold(q)
    BY <1>e DEF TellInv
  \* The packets of s behind the one that is read.
  <1>4. ASSUME NEW j \in DOMAIN q, j # i, q[j].streamID = s
        PROVE  /\ i < j /\ q[j].instance \in Nat /\ q[j].buffer[2] \in Nat
               /\ q[i].instance <= q[j].instance
               /\ same(q[i], q[j]) =>
                     ~q[i].EOS /\ (~q[j].EOS => q[i].buffer[2] < q[j].buffer[2])
    <2>1. i < j
      BY <1>q, <1>0, <1>4
    <2> QED BY <1>o, <1>e, <1>0, <1>4, <2>1, <1>t, AlongQueue
  <1>5. ASSUME NEW n \in DOMAIN r
        PROVE  /\ samplesIn(r[n])
               /\ begun(r[n])' \/ told(0, n, r)
               /\ continued(n, r)'
    <2>1. PICK j \in DOMAIN q : j = f[n] /\ j # i /\ r[n] = q[j] /\ j \in Nat
      BY <1>2
    <2>2. /\ samplesIn(q[j]) /\ (begun(q[j]) \/ told(0, j, q)) /\ continued(j, q)
          /\ q[j] \in Packet /\ q[j].streamID \in Streams
      BY <1>t, <1>q DEF carry, newTold, lossTold, Packet
    <2>3. ASSUME NEW k \in DOMAIN q, k # i, k <= j
          PROVE  \E m \in DOMAIN r : r[m] = q[k] /\ m <= n /\ 0 < m /\ (k < j => m < n)
      <3>1. PICK m \in DOMAIN r : f[m] = k
        BY <1>2, <2>3
      <3> QED BY <1>2, <1>3, <2>1, <2>3, <3>1, QueuePositions
    <2>4. ASSUME NEW k \in DOMAIN q, k # i, k <= j, same(q[k], q[j]), q[k].sriChanged
          PROVE  told(0, n, r)
      <3>1. PICK m \in DOMAIN r : r[m] = q[k] /\ m <= n /\ 0 < m
        BY <2>3, <2>4
      <3> QED BY <2>1, <2>4, <3>1 DEF told
    <2>5. ASSUME NEW k \in DOMAIN q, k # i, k < j, follows(q[k], q[j])
          PROVE  continued(n, r)'
      <3>0. k <= j
        BY <1>q, <2>5
      <3>1. PICK m \in DOMAIN r : r[m] = q[k] /\ m < n
        BY <2>3, <2>5, <3>0
      <3>2. follows(r[m], r[n])
        BY <2>1, <2>5, <3>1
      <3> QED BY <3>1, <3>2 DEF continued, follows, same
    <2>6. CASE q[j].streamID # s
      <3>1. last'[q[j].streamID] = last[q[j].streamID]
        BY <1>l, <2>2, <2>6
      <3>2. begun(r[n])' = begun(q[j])
        BY <2>1, <3>1 DEF begun
      <3>3. told(0, j, q) => told(0, n, r)
        BY <1>0, <2>4, <2>6 DEF told, same
      <3>4. continued(n, r)'
        <4>1. (\E k \in DOMAIN q : k < j /\ follows(q[k], q[j])) => continued(n, r)'
          BY <1>0, <2>5, <2>6 DEF follows, same
        <4> QED BY <2>1, <2>2, <3>1, <4>1 DEF continued, begun
      <3> QED BY <2>1, <2>2, <3>2, <3>3, <3>4
    <2>7. CASE q[j].streamID = s
      <3>0. /\ i < j /\ q[j].instance \in Nat /\ q[j].buffer[2] \in Nat
            /\ q[i].instance <= q[j].instance
            /\ same(q[i], q[j]) =>
                  ~q[i].EOS /\ (~q[j].EOS => q[i].buffer[2] < q[j].buffer[2])
        BY <1>4, <2>1, <2>7
      <3>1. begun(r[n])' = same(q[i], q[j])
        BY <1>0, <1>l, <2>1, <2>7 DEF begun, same
      <3>2. ~same(q[i], q[j]) => told(0, n, r)
        <4> SUFFICES ASSUME q[i].instance < q[j].instance PROVE told(0, n, r)
          BY <1>0, <2>7, <3>0 DEF same
        <4>1. ~begun(q[j])
          BY <1>0, <2>7 DEF begun, before
        <4>2. PICK k \in DOMAIN q : k <= j /\ same(q[k], q[j]) /\ q[k].sriChanged
          BY <2>2, <4>1 DEF told
        <4>3. k # i
          BY <1>0, <3>0, <4>2 DEF same
        <4> QED BY <2>4, <4>2, <4>3
      <3>3. continued(n, r)'
        <4>1. CASE q[j].EOS \/ q[j].inputQueueFlushed \/ q[j].buffer[2] = 1
          BY <2>1, <4>1 DEF continued
        <4>2. ASSUME ~q[j].EOS, begun(q[j]), q[j].buffer[2] = last[s].buffer[2] + 1
              PROVE  FALSE
          <5>1. last[s] # NoPacket /\ last[s].instance = q[j].instance
            BY <2>7, <4>2 DEF begun
          <5>2. q[i].instance = q[j].instance /\ last[s].instance = q[i].instance
            BY <1>0, <3>0, <5>1 DEF before
          <5>3. ~q[i].EOS /\ q[i].buffer[2] < q[j].buffer[2]
            BY <1>0, <2>7, <3>0, <4>2, <5>2 DEF same
          <5>4. q[i].buffer # Empty
            BY <1>0, <1>t, <5>3 DEF carry, samplesIn
          <5>5. last[s].buffer[2] < q[i].buffer[2] /\ last[s].buffer[2] \in Nat
            BY <1>0, <5>1, <5>2, <5>4 DEF before
          <5> QED BY <1>0, <3>0, <4>2, <5>3, <5>5
        <4>3. ASSUME NEW k \in DOMAIN q, k < j, follows(q[k], q[j])
              PROVE  continued(n, r)'
          <5>1. CASE k # i
            BY <2>5, <4>3, <5>1
          <5>2. CASE k = i
            <6>1. begun(r[n])' /\ ~last'[s].EOS /\ r[n].buffer[2] = last'[s].buffer[2] + 1
              BY <1>l, <2>1, <3>1, <4>3, <5>2 DEF follows
            <6>2. r[n].streamID = s
              BY <2>1, <2>7
            <6> QED BY <6>1, <6>2 DEF continued
          <5> QED BY <5>1, <5>2
        <4> QED BY <2>2, <2>7, <4>1, <4>2, <4>3 DEF continued
      <3> QED BY <2>1, <2>2, <3>1, <3>2, <3>3
    <2> QED BY <2>6, <2>7
  <1>6. carry(packetQueue)' /\ newTold(packetQueue)' /\ lossTold(packetQueue)'
    <2>1. carry(r)' /\ newTold(r)' /\ lossTold(r)'
      BY <1>5 DEF carry, newTold, lossTold, samplesIn, told, same
    <2> QED BY <1>1, <2>1 DEF carry, newTold, lossTold, samplesIn, told, same, begun,
                              continued, follows
  <1>7. ASSUME NEW t \in Streams, last'[t] # NoPacket PROVE samplesIn(last'[t])
    <2>1. CASE t = s
      BY <1>0, <1>l, <1>t, <2>1 DEF carry
    <2>2. CASE t # s
      BY <1>l, <1>7, <2>2 DEF TellInv
    <2> QED BY <2>1, <2>2
  <1>8. ASSUME NEW t \in Streams \ {s} PROVE CallTells(t)'
    <2>1. \A k \in DOMAIN q : current(t, q[k]) => \E n \in DOMAIN r : r[n] = q[k]
      <3>1. \A k \in DOMAIN q : current(t, q[k]) => k # i
        BY <1>0 DEF current
      <3> QED BY <1>2, <3>1
    <2>2. (queued(t, q) => queued(t, r)) /\ (newestQueued(t, q) => newestQueued(t, r))
      BY <2>1 DEF queued, newestQueued
    <2> QED BY <1>o, <1>e, <1>1, <1>l, <2>2, CallStays DEF TellInv
  <1>9. CallTells(s)'
    <2>c. CallTells(s) /\ sent'[s] = sent[s]
      BY DEF TellInv, sameCall
    <2>s. sent[s].instance \in Nat /\ sent[s].data \in Nat /\ pushed(s, q[i])
      BY <1>o, <1>e, <1>0 DEF TypeOK, Sent, PacketsInv, Pushed, allPushed
    <2>1. currentRead(s)' = current(s, q[i])
      BY <1>0, <1>l, <2>c DEF currentRead, current
    <2>2. queued(s, q) => current(s, q[i]) \/ queued(s, packetQueue)'
      BY <1>1, <1>2, <2>c DEF queued, current
    <2>3. newestQueued(s, q) => \/ current(s, q[i]) /\ q[i].buffer[2] = sent[s].data
                                \/ newestQueued(s, packetQueue)'
      <3> SUFFICES ASSUME NEW k \in DOMAIN q, current(s, q[k]), q[k].buffer[2] = sent[s].data,
                          k # i
                   PROVE  newestQueued(s, packetQueue)'
        BY DEF newestQueued
      <3>1. PICK n \in DOMAIN r : r[n] = q[k]
        BY <1>2
      <3> QED BY <1>1, <2>c, <3>1 DEF newestQueued, current
    <2>4. currentRead(s) => current(s, q[i])
      BY <1>0, <2>s DEF currentRead, current, before, pushed
    <2>5. call[s].at # "ended" => ~(currentRead(s) /\ last[s].buffer[2] = sent[s].data)
      <3> SUFFICES ASSUME call[s].at # "ended", currentRead(s),
                          last[s].buffer[2] = sent[s].data
                   PROVE  FALSE
        OBVIOUS
      <3>1. q[i].instance = sent[s].instance /\ last[s].instance = q[i].instance
        BY <2>4 DEF current, currentRead
      <3>2. ~q[i].EOS /\ q[i].buffer[2] <= sent[s].data
        BY <2>s, <3>1 DEF pushed
      <3>3. q[i].buffer # Empty
        BY <1>0, <1>t, <3>2 DEF carry, samplesIn
      <3>4. last[s].buffer[2] < q[i].buffer[2]
        BY <1>0, <3>1, <3>3 DEF currentRead, before
      <3> QED BY <1>0, <2>s, <3>2, <3>4
    <2> QED BY <1>o, <1>e, <1>l, <2>c, <2>1, <2>2, <2>3, <2>4, <2>5, SameCall DEF CallTells
  <1> QED BY <1>6, <1>7, <1>8, <1>9 DEF TellInv

\* The component reads packets, and tells nothing.
LEMMA ComponentTells ==
    ASSUME TypeInv, OrderInv, NoDiscards, TellInv, Reader \/ Control
    PROVE  TellInv'
  <1>o. TypeOK /\ AllEnabled
    BY DEF TypeInv, OrderInv
  <1>1. \A t \in Streams : sameCall(t)
    BY <1>o, ComponentFrame DEF sameCall
  <1>2. Quiet \/ \E s \in Streams : \E i \in fetchPacket(s) : Taken(s, i)
    BY <1>o, ComponentKinds DEF Discarded, NoDiscards
  <1>3. CASE Quiet
    <2>1. UNCHANGED <<packetQueue, last>>
      BY <1>3 DEF Quiet
    <2>2. carry(packetQueue)' /\ newTold(packetQueue)' /\ lossTold(packetQueue)'
      BY <2>1 DEF TellInv, carry, newTold, lossTold, samplesIn, begun, told, same,
                  continued, follows
    <2>3. \A t \in Streams : CallTells(t)'
      BY <1>o, <1>1, <2>1, CallStays DEF TellInv
    <2> QED BY <2>1, <2>2, <2>3 DEF TellInv, samplesIn
  <1> QED BY <1>1, <1>2, <1>3, TakenTold

\* Nothing is queued or read at first, and nothing is known of any stream.
LEMMA TellInit == Init => TellInv
  <1> SUFFICES ASSUME Init PROVE TellInv
    OBVIOUS
  <1>1. packetQueue = <<>> /\ \A s \in Streams : last[s] = NoPacket
    BY DEF Init
  <1>2. carry(packetQueue) /\ newTold(packetQueue) /\ lossTold(packetQueue)
    BY <1>1 DEF carry, newTold, lossTold
  <1>3. ASSUME NEW s \in Streams PROVE CallTells(s)
    <2>1. call[s].at = "idle" /\ currentHs[s] = NoSRI /\ sent[s].data = 0
      BY DEF Init, NoCall
    <2> QED BY <2>1 DEF CallTells, changePending, inQueue, lookedUp
  <1> QED BY <1>1, <1>2, <1>3 DEF TellInv

\* Every step keeps what is to be told in the packets, or in the calls.
LEMMA TellStep ==
    ASSUME TypeInv, OrderInv, NoDiscards, TellInv, [Next]_vars
    PROVE  TellInv'
  <1>1. CASE UNCHANGED vars
    <2>1. UNCHANGED <<packetQueue, last>> /\ \A t \in Streams : sameCall(t)
      BY <1>1 DEF vars, sameCall
    <2>2. carry(packetQueue)' /\ newTold(packetQueue)' /\ lossTold(packetQueue)'
      BY <2>1 DEF TellInv, carry, newTold, lossTold, samplesIn, begun, told, same,
                  continued, follows
    <2>3. \A t \in Streams : CallTells(t)'
      BY <2>1, CallStays DEF TellInv, TypeInv
    <2> QED BY <2>1, <2>2, <2>3 DEF TellInv, samplesIn
  <1>2. CASE Reader \/ Control
    BY <1>2, ComponentTells
  <1>3. CASE \E s \in Streams : Push(s) \/ Upstream(s)
    BY <1>3, UpstreamTells
  <1> QED BY <1>1, <1>2, <1>3 DEF Next

\* What a read packet says of its instance and of its samples.
tellsNewAndLost(s) == NewStreamReported(s) /\ LossReported(s)

\* A step that reads a packet of s reads the first one.
LEMMA Delivery ==
    ASSUME TypeInv, OrderInv, NoDiscards, [Next]_vars, NEW s \in Streams, delivers(s)
    PROVE  \E i \in fetchPacket(s) : Taken(s, i) /\ last'[s] = packetQueue[i]
  <1>1. last \in [Streams -> Packet \cup {NoPacket}]
    BY DEF TypeInv, TypeOK
  <1>2. ~UNCHANGED last
    BY DEF delivers
  <1>3. PICK t \in Streams : \E i \in fetchPacket(t) : Taken(t, i)
    BY <1>2, StepKinds DEF Quiet, Discarded, Renewed, Queued, SamplesStay
  <1>4. PICK i \in fetchPacket(t) : Taken(t, i)
    BY <1>3
  <1>5. last' = [last EXCEPT ![t] = packetQueue[i]] /\ t = s
    BY <1>1, <1>4 DEF Taken, delivers
  <1> QED BY <1>1, <1>4, <1>5

\* It is told of.
LEMMA DeliveryTold ==
    ASSUME TypeInv, OrderInv, NoDiscards, TellInv, [Next]_vars, NEW s \in Streams, delivers(s)
    PROVE  tellsNewAndLost(s)
  <1>o. TypeOK /\ PacketsInv
    BY DEF TypeInv, OrderInv
  <1>1. PICK i \in fetchPacket(s) : last'[s] = packetQueue[i]
    BY Delivery
  <1>e. PICK q : q = packetQueue
    OBVIOUS
  <1>2. /\ i \in DOMAIN q /\ i \in Nat /\ q[i] \in Packet /\ q[i].streamID = s
        /\ q[i].instance \in Nat /\ q[i].buffer[2] \in Nat
        /\ \A k \in DOMAIN q : q[k].streamID = s => i <= k
        /\ last[s] # NoPacket =>
              /\ last[s].instance \in Nat /\ last[s].buffer[2] \in Nat
              /\ before(last[s], q[i])
    BY <1>o, <1>e, FirstOfStream
  <1>3. /\ samplesIn(q[i]) /\ (begun(q[i]) \/ told(0, i, q)) /\ continued(i, q)
        /\ last[s] # NoPacket => samplesIn(last[s])
    BY <1>e, <1>2 DEF TellInv, carry, newTold, lossTold
  <1>k. \A k \in DOMAIN q : k \in Nat
    BY <1>e, <1>o, QueuePositions DEF TypeOK
  <1>4. begun(q[i]) <=> sameInstance(s)
    BY <1>e, <1>1, <1>2 DEF begun, sameInstance
  <1>5. ~begun(q[i]) => last'[s].sriChanged
    <2> SUFFICES ASSUME NEW k \in DOMAIN q, k <= i, same(q[k], q[i]), q[k].sriChanged
                 PROVE  q[i].sriChanged
      BY <1>e, <1>1, <1>3 DEF told
    <2>1. k = i
      BY <1>2, <1>k DEF same
    <2> QED BY <2>1
  <1>6. LossReported(s)
    <2> SUFFICES ASSUME ~q[i].EOS, ~q[i].inputQueueFlushed
                 PROVE  q[i].buffer[2]
                            = 1 + (IF sameInstance(s) THEN last[s].buffer[2] ELSE 0)
      BY <1>e, <1>1 DEF LossReported
    <2>1. CASE q[i].buffer[2] = 1
      <3>1. ~sameInstance(s)
        <4> SUFFICES ASSUME last[s] # NoPacket, last[s].instance = q[i].instance
                     PROVE  FALSE
          BY <1>e, <1>1 DEF sameInstance
        <4>1. ~last[s].EOS /\ last[s].buffer[2] < q[i].buffer[2]
          BY <1>2, <1>3 DEF before, samplesIn
        <4>2. last[s].buffer[2] >= 1
          BY <1>3, <4>1 DEF samplesIn
        <4> QED BY <1>2, <2>1, <4>1, <4>2
      <3> QED BY <2>1, <3>1
    <2>2. CASE begun(q[i]) /\ q[i].buffer[2] = last[s].buffer[2] + 1
      <3>1. last[s].buffer[2] \in Nat
        BY <1>2, <2>2 DEF begun
      <3> QED BY <1>4, <2>2, <3>1
    <2>3. ASSUME NEW k \in DOMAIN q, k < i, follows(q[k], q[i])
          PROVE  FALSE
      <3>1. i <= k
        BY <1>2, <2>3 DEF follows, same
      <3> QED BY <1>2, <1>k, <2>3, <3>1
    <2> QED BY <1>2, <1>3, <2>1, <2>2, <2>3 DEF continued
  <1> QED BY <1>4, <1>5, <1>6 DEF tellsNewAndLost, NewStreamReported

(***************************************************************************)
(* The first packet read of an instance has sriChanged set, and samples    *)
(* that do not continue those read before have inputQueueFlushed set       *)
(* (_flushQueue, queuePacket, DataTransfer), in every port that nothing    *)
(* makes discard an EOS.                                                   *)
(***************************************************************************)
THEOREM LossesAreTold ==
    NoDiscards => (Spec => [][\A s \in Streams : delivers(s) =>
                                NewStreamReported(s) /\ LossReported(s)]_vars)
  <1> SUFFICES ASSUME NoDiscards
               PROVE  Spec => [][\A s \in Streams : delivers(s) =>
                                   NewStreamReported(s) /\ LossReported(s)]_vars
    OBVIOUS
  <1>1. Init => TypeInv /\ OrderInv /\ TellInv
    BY TypeInit, OrderInit, TellInit
  <1>2. TypeInv /\ OrderInv /\ TellInv /\ [Next]_vars => (TypeInv /\ OrderInv /\ TellInv)'
    BY TypeInvStep, OrderStep, TellStep DEF SamplesStay
  <1>3. TypeInv /\ OrderInv /\ TellInv /\ [Next]_vars
            => [\A s \in Streams : delivers(s) =>
                  NewStreamReported(s) /\ LossReported(s)]_vars
    BY DeliveryTold DEF tellsNewAndLost
  <1> QED BY <1>1, <1>2, <1>3, PTL DEF Spec

-----------------------------------------------------------------------------
(* Changed SRIs: the calls.                                                *)

\* What upstream of s does to the SRI of the next packet without touching the
\* queue or ending the instance: it changes it only with the changed flag,
\* and only where upstream sends more than one SRI.
LEMMA SriAlone ==
    ASSUME TypeInv, AllEnabled, NoDiscards, NEW s \in Streams, SriAtHand(s),
           Push(s) \/ Upstream(s), ~forgetSRI(s),
           queuePacket(s) \/ woken(s) \/ flushAndQueue(s)
              => \A q, c, fl : ~enqueue(s, q, c, fl)
    PROVE  /\ UNCHANGED <<packetQueue, last>> /\ sameSent(s)
           /\ call[s].at # "ended" /\ SriAtHand(s)'
           /\ ~changePending(s)' => ~changePending(s) /\ nextSRI(s)' = nextSRI(s)
           /\ "update" \notin Environment /\ call[s].at # "count" =>
                 /\ call'[s].at # "count"
                 /\ currentHs[s] # NoSRI =>
                       currentHs'[s] # NoSRI /\ currentHs'[s].SRI = currentHs[s].SRI
  <1>c. call \in [Streams -> Call] /\ call[s] \in Call
    BY DEF TypeInv, TypeOK
  <1>h. currentHs \in [Streams -> KnownSRI \cup {NoSRI}]
    BY DEF TypeInv, TypeOK
  <1>k. \A H \in SRI, b \in BOOLEAN : [SRI |-> H, changed |-> b] # NoSRI
    BY InPortConstants DEF KnownSRI
  <1>d. DefaultSRI \in SRI
    BY DEF DefaultSRI, SRI
  <1>s. sent \in [Streams -> Sent] /\ sent[s] \in Sent
    BY DEF TypeInv, TypeOK
  <1>n. NoCall.at = "idle"
    BY DEF NoCall
  <1>7. ~refusedEOS(s) /\ ~refusedOff(s)
    BY DEF AllEnabled, refusedEOS, refusedOff
  <1>8. ~flushAndQueue(s)
    BY DEF flushAndQueue, replace
  <1>l. UNCHANGED <<packetQueue, last>>
    <2>1. UNCHANGED packetQueue
      BY <1>7, <1>8 DEF Push, Upstream, pushSRI, pushPacket, pushSRIDecide, createStream,
                        lookupSRI, queuePacket, woken
    <2> QED BY <2>1, UpstreamFrame DEF TypeInv
  <1>1. CASE \E H \in SRIs : pushSRI(s, H)
    <2>1. PICK H \in SRIs : pushSRI(s, H)
      BY <1>1
    <2>2. call[s].at = "idle" /\ sameSent(s)
      BY <1>s, <2>1 DEF pushSRI, mayCall, counted, sameSent, Sent
    <2>3. CASE currentHs[s] = NoSRI
      <3>1. /\ currentHs'[s] = [SRI |-> H, changed |-> TRUE]
            /\ call' = [call EXCEPT ![s].at = "create"]
        BY <1>h, <2>1, <2>3 DEF pushSRI
      <3>2. call'[s].at = "create"
        BY <1>c, <3>1 DEF Call
      <3>3. changePending(s)'
        BY <3>1, <3>2 DEF changePending, lookedUp
      <3> QED BY <1>l, <2>2, <2>3, <3>2, <3>3 DEF SriAtHand, lookedUp
    <2>4. CASE currentHs[s] # NoSRI
      <3>1. /\ call' = [call EXCEPT ![s] = [call[s] EXCEPT !.at = "count", !.SRI = H,
                                                     !.eosCount = eosCount(s)]]
            /\ UNCHANGED currentHs /\ "update" \in Environment
        BY <2>1, <2>4 DEF pushSRI
      <3>2. call'[s].at = "count"
        BY <1>c, <3>1 DEF Call
      <3>3. changePending(s)' = changePending(s) /\ nextSRI(s)' = nextSRI(s)
        BY <2>2, <3>1, <3>2 DEF changePending, lookedUp, nextSRI
      <3> QED BY <1>l, <2>2, <3>1, <3>2, <3>3 DEF SriAtHand, lookedUp
    <2> QED BY <2>3, <2>4
  <1>2. CASE \E data, EOS \in BOOLEAN : pushPacket(s, data, EOS)
    <2>1. PICK data \in BOOLEAN, EOS \in BOOLEAN : pushPacket(s, data, EOS)
      BY <1>2
    <2>2. acceptPacket(s) /\ maxQueue # 0
      BY DEF AllEnabled, acceptPacket, NoDiscards, TypeInv, TypeOK
    <2>3. /\ call' = [call EXCEPT ![s] =
                [call[s] EXCEPT !.at = IF data \/ EOS THEN "accepted" ELSE "idle",
                                !.data = data /\ (data \/ EOS),
                                !.EOS = EOS /\ (data \/ EOS)]]
          /\ sent' = [counted(s) EXCEPT ![s].instance = @, ![s].data = @]
          /\ call[s].at = "idle" /\ UNCHANGED currentHs
      BY <2>1, <2>2 DEF pushPacket, mayCall
    <2>4. call'[s].at = IF data \/ EOS THEN "accepted" ELSE "idle"
      BY <1>c, <2>3 DEF Call
    <2>5. sameSent(s)
      BY <1>s, <2>3 DEF counted, Sent, sameSent
    <2>6. changePending(s)' = changePending(s) /\ nextSRI(s)' = nextSRI(s)
      BY <2>3, <2>4 DEF changePending, lookedUp, nextSRI
    <2> QED BY <1>l, <2>3, <2>4, <2>5, <2>6 DEF SriAtHand, lookedUp
  <1>3. CASE pushSRIDecide(s)
    <2>1. call[s].at = "count" /\ sameSent(s)
      BY <1>3 DEF pushSRIDecide, sameSent
    <2>2. call'[s].at \in {"again", "idle"}
      BY <1>c, <1>n, <1>3 DEF pushSRIDecide, Call
    <2>3. UNCHANGED currentHs \/ currentHs'[s] = updated(s)
      BY <1>h, <1>3 DEF pushSRIDecide
    <2>4. ~changePending(s)' => ~changePending(s) /\ nextSRI(s)' = nextSRI(s)
      BY <2>1, <2>2, <2>3 DEF changePending, lookedUp, updated, nextSRI
    <2> QED BY <1>l, <2>1, <2>2, <2>4 DEF SriAtHand, lookedUp
  <1>4. CASE createStream(s)
    <2>1. sameSent(s) /\ UNCHANGED currentHs
      BY <1>4 DEF createStream, sameSent
    <2>2. CASE call[s].at = "new"
      <3>1. call' = [call EXCEPT ![s] = [call[s] EXCEPT !.at = "looked"]]
        BY <1>4, <2>2 DEF createStream
      <3>2. /\ call'[s].at = "looked" /\ call'[s].SRI = call[s].SRI
            /\ call'[s].sriChanged = call[s].sriChanged
        BY <1>c, <3>1 DEF Call
      <3>3. changePending(s)' = changePending(s) /\ nextSRI(s)' = nextSRI(s)
        BY <2>2, <3>2 DEF changePending, lookedUp, nextSRI
      <3> QED BY <1>l, <2>1, <2>2, <3>2, <3>3 DEF SriAtHand, lookedUp
    <2>3. CASE call[s].at # "new"
      <3>1. call[s].at \in {"create", "again"} /\ call' = [call EXCEPT ![s] = NoCall]
        BY <1>4, <2>3 DEF createStream
      <3>2. call'[s].at = "idle"
        BY <1>c, <1>n, <3>1
      <3>3. changePending(s)' = changePending(s) /\ nextSRI(s)' = nextSRI(s)
        BY <2>1, <3>1, <3>2 DEF changePending, lookedUp, nextSRI
      <3> QED BY <1>l, <2>1, <3>1, <3>2, <3>3 DEF SriAtHand, lookedUp
    <2> QED BY <2>2, <2>3
  <1>5. CASE lookupSRI(s)
    <2>1. call[s].at = "accepted" /\ sameSent(s)
      BY <1>5 DEF lookupSRI, sameSent
    <2>2. CASE currentHs[s] # NoSRI
      <3>0. currentHs[s] \in KnownSRI
        BY <1>h, <2>2
      <3>1. /\ call' = [call EXCEPT ![s] =
                  [call[s] EXCEPT !.at = "looked", !.SRI = currentHs[s].SRI,
                            !.sriChanged = currentHs[s].changed]]
            /\ currentHs' = [currentHs EXCEPT ![s] = [currentHs[s] EXCEPT !.changed = FALSE]]
        BY <1>5, <2>2 DEF lookupSRI
      <3>2. /\ call'[s].at = "looked" /\ call'[s].SRI = currentHs[s].SRI
            /\ call'[s].sriChanged = currentHs[s].changed
        BY <1>c, <3>1 DEF Call
      <3>3. currentHs'[s].SRI = currentHs[s].SRI /\ currentHs'[s] # NoSRI
        <4>1. currentHs'[s] = [SRI |-> currentHs[s].SRI, changed |-> FALSE]
          BY <1>h, <3>0, <3>1 DEF KnownSRI
        <4>2. currentHs[s].SRI \in SRI
          BY <3>0 DEF KnownSRI
        <4>3. [SRI |-> currentHs[s].SRI, changed |-> FALSE] # NoSRI
          BY <1>k, <4>2
        <4> QED BY <4>1, <4>3
      <3>4. ~changePending(s)' => ~changePending(s) /\ nextSRI(s)' = nextSRI(s)
        BY <2>1, <2>2, <3>2 DEF changePending, lookedUp, nextSRI
      <3> QED BY <1>l, <2>1, <3>2, <3>3, <3>4 DEF SriAtHand, lookedUp
    <2>3. CASE currentHs[s] = NoSRI
      <3>1. /\ call' = [call EXCEPT ![s] =
                  [call[s] EXCEPT !.at = "new", !.SRI = DefaultSRI, !.sriChanged = TRUE]]
            /\ currentHs'[s] = [SRI |-> DefaultSRI, changed |-> FALSE]
        BY <1>h, <1>5, <2>3 DEF lookupSRI
      <3>2. call'[s].at = "new" /\ call'[s].SRI = DefaultSRI /\ call'[s].sriChanged
        BY <1>c, <3>1 DEF Call
      <3>3. changePending(s)'
        BY <3>2 DEF changePending, lookedUp
      <3> QED BY <1>l, <2>1, <2>3, <3>1, <3>2, <3>3 DEF SriAtHand, lookedUp
    <2> QED BY <2>2, <2>3
  <1>6. CASE queuePacket(s) \/ woken(s)
    <2>1. /\ call[s].at \in {"looked", "woken"} /\ UNCHANGED currentHs
          /\ \E a \in {"waiting", "full"} : call' = [call EXCEPT ![s].at = a]
          /\ UNCHANGED sent
      BY <1>6 DEF queuePacket, woken
    <2>3. PICK a \in {"waiting", "full"} : call' = [call EXCEPT ![s].at = a]
      BY <2>1
    <2>4. /\ call'[s].at = a /\ call'[s].SRI = call[s].SRI
          /\ call'[s].sriChanged = call[s].sriChanged
      BY <1>c, <2>3 DEF Call
    <2>5. changePending(s)' = changePending(s) /\ sameSent(s) /\ nextSRI(s)' = nextSRI(s)
      BY <2>1, <2>4 DEF changePending, lookedUp, sameSent, nextSRI
    <2> QED BY <1>l, <2>1, <2>4, <2>5 DEF SriAtHand, lookedUp
  <1> QED BY <1>1, <1>2, <1>3, <1>4, <1>5, <1>6, <1>7, <1>8 DEF Push, Upstream

\* An instance that is over has no packet in the instance that follows it.
LEMMA NothingCurrent ==
    ASSUME TypeOK, PacketsInv, NEW s \in Streams, forgetSRI(s)
    PROVE  /\ UNCHANGED <<packetQueue, last>>
           /\ call'[s].at = "idle" /\ currentHs'[s] = NoSRI
           /\ ~queued(s, packetQueue)' /\ ~currentRead(s)'
           /\ \A i \in DOMAIN packetQueue : ~current(s, packetQueue[i])'
  <1>1. /\ call'[s] = NoCall /\ currentHs'[s] = NoSRI
        /\ sent'[s].instance = sent[s].instance + 1
        /\ UNCHANGED <<packetQueue, last>>
    BY DEF forgetSRI, nextInstance, TypeOK, Sent
  <1>2. call'[s].at = "idle"
    BY <1>1 DEF NoCall
  <1>3. sent[s].instance \in Nat
    BY DEF TypeOK, Sent
  <1>4. ASSUME NEW i \in DOMAIN packetQueue, packetQueue[i].streamID = s
        PROVE  packetQueue[i].instance # sent[s].instance + 1
    BY <1>3, <1>4 DEF PacketsInv, Pushed, allPushed, pushed
  <1>5. last[s] # NoPacket => last[s].instance # sent[s].instance + 1
    BY <1>3 DEF PacketsInv, Pushed, pushed
  <1> QED BY <1>1, <1>2, <1>4, <1>5 DEF queued, current, currentRead

-----------------------------------------------------------------------------
(* Changed SRIs: upstream sends one per instance.                          *)

\* Every packet of r is one of q, but for its flags and samples.
among(r, q) ==
    \A n \in DOMAIN r : \E k \in DOMAIN q : same(r[n], q[k]) /\ r[n].SRI = q[k].SRI

\* So it is when the queue is flushed, or a packet leaves it.
LEMMA StillAmong ==
    ASSUME NEW q \in Seq(Packet)
    PROVE  /\ among(q, q)
           /\ flushQueue(q) \in Seq(Packet) /\ among(flushQueue(q), q)
           /\ \A i \in DOMAIN q : RemoveAt(q, i) \in Seq(Packet) /\ among(RemoveAt(q, i), q)
  <1>1. among(q, q)
    BY DEF among, same
  <1>2. flushQueue(q) \in Seq(Packet) /\ among(flushQueue(q), q)
    <2>1. PICK F, f : F = flushQueue(q) /\ f = keptAt(q)
      OBVIOUS
    <2>2. F \in Seq(Packet)
          /\ \A n \in DOMAIN F : f[n] \in DOMAIN q /\ F[n] = merged(q, f[n])
      BY <2>1, FlushProperties
    <2>3. ASSUME NEW n \in DOMAIN F
          PROVE  same(F[n], q[f[n]]) /\ F[n].SRI = q[f[n]].SRI
      BY <2>2, MergedProperties DEF same
    <2> QED BY <2>1, <2>2, <2>3 DEF among
  <1>3. ASSUME NEW i \in DOMAIN q
        PROVE  RemoveAt(q, i) \in Seq(Packet) /\ among(RemoveAt(q, i), q)
    <2>1. PICK r, f : r = RemoveAt(q, i) /\ f = others(q, i)
      OBVIOUS
    <2>2. Thinned(r, q, f, f) /\ \A n \in DOMAIN r : r[n] = q[f[n]]
      BY <2>1, RemoveAtThins
    <2>3. r \in Seq(Packet) /\ \A n \in DOMAIN r : f[n] \in DOMAIN q
      BY <2>2 DEF Thinned
    <2> QED BY <2>1, <2>2, <2>3 DEF among, same
  <1> QED BY <1>1, <1>2, <1>3

\* What is left of a flushed queue, without one of its packets as well.
LEMMA AmongTwice ==
    ASSUME NEW q, NEW r, NEW u, among(r, q), among(u, r)
    PROVE  among(u, q)
  BY DEF among, same

\* A packet joins what is left of a queue with the SRI of its instance.
LEMMA JoinSRI ==
    ASSUME NEW q, oneSRI(q), NEW r \in Seq(Packet), among(r, q), NEW p \in Packet,
           \A k \in DOMAIN q : same(q[k], p) => q[k].SRI = p.SRI,
           begun(p) => p.SRI = last[p.streamID].SRI
    PROVE  oneSRI(Append(r, p))
  <1>1. PICK u : u = Append(r, p)
    OBVIOUS
  <1>2. ASSUME NEW n \in DOMAIN u
        PROVE  \/ u[n] = p
               \/ \E k \in DOMAIN q : same(u[n], q[k]) /\ u[n].SRI = q[k].SRI
    <2>1. u[n] = p \/ (n \in DOMAIN r /\ u[n] = r[n])
      BY <1>1, <1>2
    <2> QED BY <2>1 DEF among
  <1>3. ASSUME NEW m \in DOMAIN u, NEW n \in DOMAIN u, same(u[m], u[n])
        PROVE  u[m].SRI = u[n].SRI
    BY <1>2, <1>3 DEF oneSRI, same
  <1>4. ASSUME NEW n \in DOMAIN u, begun(u[n])
        PROVE  u[n].SRI = last[u[n].streamID].SRI
    BY <1>2, <1>4 DEF oneSRI, same, begun
  <1> QED BY <1>1, <1>3, <1>4 DEF oneSRI

\* The SRI of a stream ID is kept by what another thread does to the queue.
LEMMA SriStays ==
    ASSUME TypeOK, NEW s \in Streams, SriKept(s), sameCall(s), last'[s] = last[s],
           \A n \in DOMAIN packetQueue' : packetQueue'[n].streamID = s =>
              \E k \in DOMAIN packetQueue :
                 /\ same(packetQueue'[n], packetQueue[k])
                 /\ packetQueue'[n].SRI = packetQueue[k].SRI
    PROVE  SriKept(s)'
  <1>1. ASSUME NEW n \in DOMAIN packetQueue', current(s, packetQueue'[n])
        PROVE  \E k \in DOMAIN packetQueue :
                  current(s, packetQueue[k]) /\ packetQueue'[n].SRI = packetQueue[k].SRI
    BY <1>1 DEF current, same
  <1>2. \A n \in DOMAIN packetQueue' :
           current(s, packetQueue[n])' = current(s, packetQueue'[n])
    BY DEF current, sameCall
  <1>3. queued(s, packetQueue)' => queued(s, packetQueue)
    BY <1>1, <1>2 DEF queued
  <1>4. currentRead(s)' = currentRead(s)
    BY DEF currentRead, sameCall
  <1>5. SriAtHand(s)'
    BY SameCall DEF SriKept, SriAtHand
  <1>6. /\ call'[s].at # "count" /\ currentHs'[s] = currentHs[s]
        /\ (call'[s].at = "ended") = (call[s].at = "ended")
    BY SameCall DEF SriKept
  <1>7. ASSUME call[s].at # "ended", NEW n \in DOMAIN packetQueue', current(s, packetQueue[n])'
        PROVE  packetQueue'[n].SRI = currentHs[s].SRI
    BY <1>1, <1>2, <1>7 DEF SriKept
  <1> QED BY <1>3, <1>4, <1>5, <1>6, <1>7 DEF SriKept

\* What a push leaves of the queue, and the SRI of its packet.
LEMMA PushedAmong ==
    ASSUME TypeInv, NEW s \in Streams, queuePacket(s) \/ woken(s) \/ flushAndQueue(s),
           \E q, c, fl : enqueue(s, q, c, fl)
    PROVE  /\ \E r \in Seq(Packet), c, fl \in BOOLEAN :
                 among(r, packetQueue) /\ enqueue(s, r, c, fl)
           /\ currentHs[s] # NoSRI
           /\ currentHs'[s] # NoSRI /\ currentHs'[s].SRI = currentHs[s].SRI
  <1>o. TypeOK /\ packetQueue \in Seq(Packet)
    BY DEF TypeInv, TypeOK
  <1>a. call[s].sriChanged \in BOOLEAN /\ call[s].at \in {"looked", "woken", "full"}
    BY <1>o, PushAtHand
  <1>h. currentHs \in [Streams -> KnownSRI \cup {NoSRI}] /\ currentHs[s] # NoSRI
    BY <1>a DEF TypeInv, TypeOK, ThreadsInv, SRIKnown, inHand
  <1>s. currentHs[s] \in KnownSRI /\ currentHs[s].SRI \in SRI
    BY <1>h DEF KnownSRI
  <1>1. CASE queuePacket(s) \/ woken(s)
    <2>1. enqueue(s, packetQueue, call[s].sriChanged, FALSE) /\ UNCHANGED currentHs
      BY <1>1, PushedInto
    <2>2. among(packetQueue, packetQueue)
      BY <1>o, StillAmong
    <2> QED BY <1>o, <1>a, <1>h, <2>1, <2>2
  <1>2. CASE flushAndQueue(s)
    <2> DEFINE F == flushQueue(packetQueue)
    <2>1. F \in Seq(Packet) /\ among(F, packetQueue)
      BY <1>o, StillAmong
    <2>2. \/ \E i \in newest(positions(F, s)) : replace(s, i, F)
          \/ enqueue(s, F, call[s].sriChanged, FALSE) /\ UNCHANGED currentHs
      BY <1>2 DEF flushAndQueue
    <2> HIDE DEF F
    <2>3. ASSUME NEW i \in newest(positions(F, s)), replace(s, i, F)
          PROVE  /\ \E r \in Seq(Packet), c, fl \in BOOLEAN :
                       among(r, packetQueue) /\ enqueue(s, r, c, fl)
                 /\ currentHs'[s] # NoSRI /\ currentHs'[s].SRI = currentHs[s].SRI
      <3>1. i \in DOMAIN F /\ F[i] \in Packet
        BY <2>1, <2>3, QueuePositions DEF newest, positions
      <3>2. F[i].sriChanged \in BOOLEAN
        BY <3>1 DEF Packet
      <3>3. RemoveAt(F, i) \in Seq(Packet) /\ among(RemoveAt(F, i), packetQueue)
        BY <2>1, <3>1, StillAmong, AmongTwice
      <3>4. enqueue(s, RemoveAt(F, i), F[i].sriChanged, TRUE)
            /\ currentHs' = [currentHs EXCEPT ![s].changed = FALSE]
        BY <2>3 DEF replace
      <3>5. currentHs'[s] = [SRI |-> currentHs[s].SRI, changed |-> FALSE]
        BY <1>h, <1>s, <3>4 DEF KnownSRI
      <3>6. [SRI |-> currentHs[s].SRI, changed |-> FALSE] \in KnownSRI
        BY <1>s DEF KnownSRI
      <3>7. currentHs'[s] # NoSRI
        BY <3>5, <3>6, InPortConstants
      <3>8. PICK r, c : r = RemoveAt(F, i) /\ c = F[i].sriChanged
        OBVIOUS
      <3>9. r \in Seq(Packet) /\ c \in BOOLEAN /\ among(r, packetQueue) /\ enqueue(s, r, c, TRUE)
        BY <3>2, <3>3, <3>4, <3>8
      <3>10. \E u \in Seq(Packet), b, fl \in BOOLEAN :
                among(u, packetQueue) /\ enqueue(s, u, b, fl)
        <4>1. TRUE \in BOOLEAN
          OBVIOUS
        <4> QED BY <3>9, <4>1
      <3>11. currentHs'[s].SRI = currentHs[s].SRI
        BY <3>5
      <3> QED BY <3>7, <3>10, <3>11
    <2> QED BY <1>a, <1>h, <2>1, <2>2, <2>3
  <1> QED BY <1>h, <1>1, <1>2

\* Where an enqueued packet leaves the call.
LEMMA CallOver ==
    ASSUME TypeOK, NEW s \in Streams, NEW q, NEW c, NEW fl, enqueue(s, q, c, fl)
    PROVE  call'[s].at = IF call[s].EOS THEN "ended" ELSE "idle"
  <1>1. call[s] \in Call
    BY DEF TypeOK
  <1>2. \/ call[s].EOS /\ call'[s] = [call[s] EXCEPT !.at = "ended"]
        \/ ~call[s].EOS /\ call'[s] = NoCall
    BY EnqueueThreads
  <1> QED BY <1>1, <1>2 DEF Call, NoCall

\* What upstream queues has the SRI of its instance.
LEMMA PushOneSRI ==
    ASSUME TypeInv, OrderInv, OneSRI, NEW s \in Streams,
           queuePacket(s) \/ woken(s) \/ flushAndQueue(s),
           \E q, c, fl : enqueue(s, q, c, fl)
    PROVE  /\ oneSRI(packetQueue)' /\ SriKept(s)'
           /\ \A n \in DOMAIN packetQueue' : packetQueue'[n].streamID # s =>
                 \E k \in DOMAIN packetQueue :
                    /\ same(packetQueue'[n], packetQueue[k])
                    /\ packetQueue'[n].SRI = packetQueue[k].SRI
  <1>o. TypeOK /\ oneSRI(packetQueue) /\ SriKept(s)
    BY DEF TypeInv, OneSRI
  <1>a. call[s].at \in lookedUp /\ call[s].at # "ended" /\ UNCHANGED last
    BY <1>o, PushAtHand
  <1>1. PICK r \in Seq(Packet), c \in BOOLEAN, fl \in BOOLEAN :
            among(r, packetQueue) /\ enqueue(s, r, c, fl)
    BY PushedAmong
  <1>2. PICK p \in Packet :
            /\ packetQueue' = Append(r, p)
            /\ p.streamID = s /\ p.instance = sent[s].instance /\ p.SRI = call[s].SRI
            /\ sent'[s].instance = sent[s].instance
    <2>1. enqueue(s, r, c, fl)
      BY <1>1
    <2>2. \E p \in Packet :
              /\ packetQueue' = Append(r, p)
              /\ p.streamID = s /\ p.instance = sent[s].instance
              /\ p.EOS = call[s].EOS /\ p.SRI = call[s].SRI
              /\ p.sriChanged = c /\ p.inputQueueFlushed = fl
              /\ p.buffer = IF call[s].data THEN <<sent[s].instance, sent'[s].data>> ELSE Empty
              /\ sent'[s].data = IF call[s].data THEN sent[s].data + 1 ELSE sent[s].data
              /\ sent'[s].instance = sent[s].instance
      BY <1>o, <2>1, EnqueuedPacket
    <2> QED BY <2>2
  <1>3. /\ currentHs'[s] # NoSRI /\ currentHs'[s].SRI = currentHs[s].SRI
        /\ p.SRI = currentHs[s].SRI
    BY <1>o, <1>a, <1>2, PushedAmong DEF SriKept, SriAtHand
  <1>4. \A k \in DOMAIN packetQueue :
           same(packetQueue[k], p) => packetQueue[k].SRI = p.SRI
    BY <1>o, <1>a, <1>2, <1>3 DEF SriKept, same, current
  <1>5. begun(p) => p.SRI = last[p.streamID].SRI
    BY <1>o, <1>a, <1>2, <1>3 DEF SriKept, begun, currentRead
  <1>6. oneSRI(Append(r, p))
    BY <1>o, <1>1, <1>4, <1>5, JoinSRI
  <1>7. oneSRI(packetQueue)'
    BY <1>a, <1>2, <1>6 DEF oneSRI, same, begun
  <1>8. ASSUME NEW n \in DOMAIN packetQueue'
        PROVE  \/ packetQueue'[n] = p
               \/ \E k \in DOMAIN packetQueue :
                     /\ same(packetQueue'[n], packetQueue[k])
                     /\ packetQueue'[n].SRI = packetQueue[k].SRI
    <2>1. packetQueue'[n] = p \/ (n \in DOMAIN r /\ packetQueue'[n] = r[n])
      BY <1>2, <1>8
    <2> QED BY <1>1, <2>1 DEF among
  <1>9. SriKept(s)'
    <2>1. call'[s].at \in {"ended", "idle"}
      BY <1>o, <1>1, CallOver
    <2>2. ASSUME NEW n \in DOMAIN packetQueue', current(s, packetQueue[n])'
          PROVE  packetQueue'[n].SRI = currentHs'[s].SRI
      <3>1. packetQueue'[n].streamID = s /\ packetQueue'[n].instance = sent[s].instance
        BY <1>2, <2>2 DEF current
      <3> QED BY <1>o, <1>a, <1>3, <1>8, <3>1 DEF same, SriKept, current
    <2>3. currentRead(s)' => last'[s].SRI = currentHs'[s].SRI
      BY <1>o, <1>a, <1>2, <1>3 DEF currentRead, SriKept
    <2> QED BY <1>3, <2>1, <2>2, <2>3 DEF SriKept, SriAtHand, lookedUp
  <1> QED BY <1>2, <1>7, <1>8, <1>9

\* Upstream keeps the invariant.
LEMMA UpstreamOneSRI ==
    ASSUME TypeInv, OrderInv, NoDiscards, "update" \notin Environment, OneSRI,
           NEW s \in Streams, Push(s) \/ Upstream(s)
    PROVE  OneSRI'
  <1>o. TypeOK /\ PacketsInv /\ AllEnabled /\ packetQueue \in Seq(Packet)
    BY DEF TypeInv, TypeOK, OrderInv
  <1>f. /\ UNCHANGED last
        /\ \A t \in Streams \ {s} : sameCall(t)
    BY <1>o, UpstreamFrame DEF sameCall
  <1>t. oneSRI(packetQueue) /\ \A t \in Streams : SriKept(t)
    BY DEF OneSRI
  <1> SUFFICES /\ oneSRI(packetQueue)' /\ SriKept(s)'
               /\ \A n \in DOMAIN packetQueue' : packetQueue'[n].streamID # s =>
                     \E k \in DOMAIN packetQueue :
                        /\ same(packetQueue'[n], packetQueue[k])
                        /\ packetQueue'[n].SRI = packetQueue[k].SRI
    <2>1. \A t \in Streams \ {s} : SriKept(t)'
      BY <1>o, <1>f, <1>t, SriStays
    <2> QED BY <2>1 DEF OneSRI
  <1>1. CASE /\ queuePacket(s) \/ woken(s) \/ flushAndQueue(s)
             /\ \E q, c, fl : enqueue(s, q, c, fl)
    BY <1>1, PushOneSRI
  <1>2. CASE forgetSRI(s)
    <2>1. /\ UNCHANGED <<packetQueue, last>>
          /\ call'[s].at = "idle"
          /\ ~queued(s, packetQueue)' /\ ~currentRead(s)'
          /\ \A i \in DOMAIN packetQueue : ~current(s, packetQueue[i])'
      BY <1>o, <1>2, NothingCurrent
    <2>2. SriKept(s)'
      BY <2>1 DEF SriKept, SriAtHand, lookedUp
    <2>3. oneSRI(packetQueue)'
      BY <1>t, <2>1 DEF oneSRI, same, begun
    <2> QED BY <2>1, <2>2, <2>3 DEF same
  <1>3. CASE /\ ~forgetSRI(s)
             /\ queuePacket(s) \/ woken(s) \/ flushAndQueue(s)
                   => \A q, c, fl : ~enqueue(s, q, c, fl)
    <2>1. /\ UNCHANGED <<packetQueue, last>> /\ sameSent(s)
          /\ call[s].at # "ended" /\ SriAtHand(s)' /\ call'[s].at # "count"
          /\ currentHs[s] # NoSRI =>
                currentHs'[s] # NoSRI /\ currentHs'[s].SRI = currentHs[s].SRI
      BY <1>o, <1>t, <1>3, SriAlone DEF SriKept
    <2>2. oneSRI(packetQueue)'
      BY <1>t, <2>1 DEF oneSRI, same, begun
    <2>3. /\ queued(s, packetQueue)' = queued(s, packetQueue)
          /\ currentRead(s)' = currentRead(s)
          /\ \A i \in DOMAIN packetQueue :
                current(s, packetQueue[i])' = current(s, packetQueue[i])
      BY <2>1 DEF queued, current, currentRead, sameSent
    <2>4. SriKept(s)'
      <3>1. ASSUME NEW i \in DOMAIN packetQueue, current(s, packetQueue[i])
            PROVE  packetQueue[i].SRI = currentHs'[s].SRI
        BY <1>t, <2>1, <3>1 DEF SriKept, queued
      <3> QED BY <1>t, <2>1, <2>3, <3>1 DEF SriKept
    <2> QED BY <2>1, <2>2, <2>4 DEF same
  <1> QED BY <1>1, <1>2, <1>3

\* What remains when a packet is read, and what has been read then.
LEMMA TakenAmong ==
    ASSUME TypeOK, NEW s \in Streams, NEW i, Taken(s, i)
    PROVE  /\ i \in DOMAIN packetQueue /\ packetQueue[i].streamID = s
           /\ among(packetQueue', packetQueue)
           /\ last'[s] = packetQueue[i] /\ packetQueue[i] # NoPacket
           /\ \A t \in Streams \ {s} : last'[t] = last[t]
  <1>1. packetQueue \in Seq(Packet) /\ last \in [Streams -> Packet \cup {NoPacket}]
    BY DEF TypeOK
  <1>2. i \in DOMAIN packetQueue /\ packetQueue[i].streamID = s
    BY DEF Taken, fetchPacket, first, positions
  <1>3. packetQueue[i] \in Packet /\ packetQueue[i] # NoPacket
    BY <1>1, <1>2, QueuePositions, InPortConstants
  <1>4. among(packetQueue', packetQueue)
    BY <1>1, <1>2, StillAmong DEF Taken
  <1> QED BY <1>1, <1>2, <1>3, <1>4 DEF Taken

\* A packet of an instance that is read has the SRI of those that follow.
LEMMA TakenOneSRI ==
    ASSUME TypeInv, OneSRI, NEW s \in Streams, NEW i, Taken(s, i),
           \A t \in Streams : sameCall(t)
    PROVE  OneSRI'
  <1>o. TypeOK /\ oneSRI(packetQueue) /\ \A t \in Streams : SriKept(t)
    BY DEF TypeInv, OneSRI
  <1>1. /\ i \in DOMAIN packetQueue /\ packetQueue[i].streamID = s
        /\ among(packetQueue', packetQueue)
        /\ last'[s] = packetQueue[i] /\ packetQueue[i] # NoPacket
        /\ \A t \in Streams \ {s} : last'[t] = last[t]
    BY <1>o, TakenAmong
  <1>e. PICK q, r : q = packetQueue /\ r = packetQueue'
    OBVIOUS
  <1>p. r \in Seq(Packet) /\ \A n \in DOMAIN r : r[n].streamID \in Streams
    <2>1. packetQueue \in Seq(Packet)
      BY <1>o DEF TypeOK
    <2>2. r \in Seq(Packet)
      BY <1>1, <1>e, <2>1, StillAmong DEF Taken
    <2> QED BY <2>2, QueuePositions DEF Packet
  <1>2. ASSUME NEW n \in DOMAIN r
        PROVE  \E k \in DOMAIN q : same(r[n], q[k]) /\ r[n].SRI = q[k].SRI
    BY <1>1, <1>2, <1>e DEF among
  <1>3. ASSUME NEW m \in DOMAIN r, NEW n \in DOMAIN r, same(r[m], r[n])
        PROVE  r[m].SRI = r[n].SRI
    BY <1>o, <1>2, <1>3, <1>e DEF oneSRI, same
  <1>4. ASSUME NEW n \in DOMAIN r, begun(r[n])'
        PROVE  r[n].SRI = last'[r[n].streamID].SRI
    <2>1. PICK k \in DOMAIN q : same(r[n], q[k]) /\ r[n].SRI = q[k].SRI
      BY <1>2
    <2>2. CASE r[n].streamID = s
      <3>1. same(q[i], q[k])
        BY <1>1, <1>4, <1>e, <2>1, <2>2 DEF same, begun
      <3> QED BY <1>o, <1>1, <1>e, <2>1, <2>2, <3>1 DEF oneSRI
    <2>3. CASE r[n].streamID # s
      <3>1. last'[r[n].streamID] = last[r[n].streamID]
        BY <1>1, <1>p, <2>3
      <3>2. begun(q[k])
        BY <1>4, <2>1, <3>1 DEF begun, same
      <3> QED BY <1>o, <1>e, <2>1, <3>1, <3>2 DEF oneSRI, same
    <2> QED BY <2>2, <2>3
  <1>5. oneSRI(packetQueue)'
    BY <1>3, <1>4, <1>e DEF oneSRI, same, begun
  <1>6. ASSUME NEW t \in Streams \ {s} PROVE SriKept(t)'
    BY <1>o, <1>1, SriStays DEF among
  <1>7. SriKept(s)'
    <2>c. SriKept(s) /\ sent'[s] = sent[s] /\ currentHs'[s] = currentHs[s]
      BY <1>o DEF sameCall
    <2>1. currentRead(s)' = current(s, q[i])
      BY <1>1, <1>e, <2>c DEF currentRead, current
    <2>2. ASSUME NEW n \in DOMAIN r, current(s, r[n])
          PROVE  \E k \in DOMAIN q : current(s, q[k]) /\ r[n].SRI = q[k].SRI
      BY <1>2, <2>2 DEF current, same
    <2>3. \A n \in DOMAIN r : current(s, packetQueue[n])' = current(s, r[n])
      BY <1>e, <2>c DEF current
    <2>4. queued(s, packetQueue)' \/ currentRead(s)' => queued(s, packetQueue)
      BY <1>1, <1>e, <2>1, <2>2, <2>3 DEF queued
    <2>5. SriAtHand(s)'
      BY <1>o, <2>c, SameCall DEF SriKept, SriAtHand
    <2>6. /\ call'[s].at # "count" /\ (call'[s].at = "ended") = (call[s].at = "ended")
      BY <1>o, <2>c, SameCall DEF SriKept
    <2>7. ASSUME call[s].at # "ended", NEW n \in DOMAIN r, current(s, r[n])
          PROVE  r[n].SRI = currentHs[s].SRI
      BY <1>e, <2>c, <2>2, <2>7 DEF SriKept
    <2>8. ASSUME call[s].at # "ended", current(s, q[i])
          PROVE  q[i].SRI = currentHs[s].SRI
      BY <1>1, <1>e, <2>c, <2>8 DEF SriKept
    <2> QED BY <1>1, <1>e, <2>c, <2>1, <2>3, <2>4, <2>5, <2>6, <2>7, <2>8 DEF SriKept
  <1> QED BY <1>5, <1>6, <1>7 DEF OneSRI

\* What leaves the queue and the calls alone keeps the SRIs.
LEMMA QuietOneSRI ==
    ASSUME TypeInv, OneSRI, UNCHANGED <<packetQueue, last>>,
           \A t \in Streams : sameCall(t)
    PROVE  OneSRI'
  <1>1. oneSRI(packetQueue)'
    BY DEF OneSRI, oneSRI, same, begun
  <1>2. \A t \in Streams : SriKept(t)'
    BY SriStays DEF OneSRI, TypeInv, same
  <1> QED BY <1>1, <1>2 DEF OneSRI

\* What is unchanged when nothing happens.
LEMMA NothingHappens ==
    ASSUME UNCHANGED vars
    PROVE  UNCHANGED <<packetQueue, last>> /\ \A t \in Streams : sameCall(t)
  BY DEF vars, sameCall

\* The component reads a packet, or leaves the queue alone.
LEMMA ComponentTakes ==
    ASSUME TypeInv, OrderInv, NoDiscards, Reader \/ Control
    PROVE  /\ \A t \in Streams : sameCall(t)
           /\ \/ UNCHANGED <<packetQueue, last>>
              \/ \E s \in Streams : \E i \in fetchPacket(s) : Taken(s, i)
  <1>1. \A t \in Streams : sameCall(t)
    BY ComponentFrame DEF sameCall, TypeInv
  <1>2. Quiet \/ \E s \in Streams : \E i \in fetchPacket(s) : Taken(s, i)
    BY ComponentKinds DEF Discarded, NoDiscards, OrderInv
  <1> QED BY <1>1, <1>2 DEF Quiet

\* No SRI is known at first.
LEMMA OneSRIInit == Init => OneSRI
  <1> SUFFICES ASSUME Init PROVE OneSRI
    OBVIOUS
  <1>1. packetQueue = <<>> /\ oneSRI(packetQueue)
    BY DEF Init, oneSRI
  <1>2. ASSUME NEW s \in Streams PROVE SriKept(s)
    <2>1. call[s].at = "idle" /\ last[s] = NoPacket
      BY DEF Init, NoCall
    <2> QED BY <1>1, <2>1 DEF SriKept, SriAtHand, lookedUp, queued, currentRead
  <1> QED BY <1>1, <1>2 DEF OneSRI

\* Every step keeps one SRI per instance, if upstream sends one.
LEMMA OneSRIStep ==
    ASSUME TypeInv, OrderInv, NoDiscards, "update" \notin Environment, OneSRI, [Next]_vars
    PROVE  OneSRI'
  <1>1. CASE UNCHANGED vars
    BY <1>1, NothingHappens, QuietOneSRI
  <1>2. CASE Reader \/ Control
    BY <1>2, ComponentTakes, QuietOneSRI, TakenOneSRI
  <1>3. CASE \E s \in Streams : Push(s) \/ Upstream(s)
    BY <1>3, UpstreamOneSRI
  <1> QED BY <1>1, <1>2, <1>3 DEF Next

\* A packet read after one of its instance has the same SRI.
LEMMA DeliveryOneSRI ==
    ASSUME TypeInv, OrderInv, NoDiscards, OneSRI, [Next]_vars, NEW s \in Streams, delivers(s)
    PROVE  SriChangeReported(s)
  <1>1. PICK i \in fetchPacket(s) : last'[s] = packetQueue[i]
    BY Delivery
  <1>2. i \in DOMAIN packetQueue /\ packetQueue[i].streamID = s
    BY DEF fetchPacket, first, positions
  <1>3. sameInstance(s) => begun(packetQueue[i])
    BY <1>1, <1>2 DEF sameInstance, begun
  <1> QED BY <1>1, <1>2, <1>3 DEF OneSRI, oneSRI, SriChangeReported

(***************************************************************************)
(* A component that reads a packet is told of a new stream, of another SRI *)
(* and of lost samples, however the queue is flushed, if upstream sends    *)
(* one SRI for each use of a stream ID (_flushQueue, queuePacket, pushSRI).*)
(***************************************************************************)
THEOREM ChangesAreTold ==
    NoDiscards /\ "update" \notin Environment => (Spec => ChangesReported)
  <1> SUFFICES ASSUME NoDiscards, "update" \notin Environment PROVE Spec => ChangesReported
    OBVIOUS
  <1> DEFINE I == TypeInv /\ OrderInv /\ TellInv /\ OneSRI
  <1>1. Init => I
    BY TypeInit, OrderInit, TellInit, OneSRIInit
  <1>2. I /\ [Next]_vars => I'
    BY TypeInvStep, OrderStep, TellStep, OneSRIStep DEF SamplesStay
  <1>3. I /\ [Next]_vars =>
           [\A s \in Streams : delivers(s) =>
               NewStreamReported(s) /\ SriChangeReported(s) /\ LossReported(s)]_vars
    BY DeliveryTold, DeliveryOneSRI DEF tellsNewAndLost
  <1> QED BY <1>1, <1>2, <1>3, PTL DEF Spec, ChangesReported

-----------------------------------------------------------------------------
(* Changed SRIs: upstream sends several per instance.                      *)

\* The SRIs in the queue stay chained when a packet joins it that is of the
\* SRI before it, or says so.
LEMMA JoinChain ==
    ASSUME NEW q \in Seq(Packet), NEW p \in Packet, chained(q),
           p.sriChanged \/
              /\ \A i \in DOMAIN q : same(q[i], p) /\ q[i].SRI # p.SRI =>
                    \E k \in DOMAIN q : i < k /\ same(q[k], p) /\ q[k].sriChanged
              /\ begun(p) /\ last[p.streamID].SRI # p.SRI =>
                    \E k \in DOMAIN q : same(q[k], p) /\ q[k].sriChanged
    PROVE  chained(Append(q, p))
  <1>1. PICK r : r = Append(q, p)
    OBVIOUS
  <1>2. /\ Len(q) \in Nat /\ DOMAIN q = 1 .. Len(q) /\ DOMAIN r = 1 .. Len(q) + 1
        /\ \A i \in 1 .. Len(q) : r[i] = q[i]
        /\ r[Len(q) + 1] = p
    BY <1>1, QueuePositions
  <1>3. ASSUME NEW j \in DOMAIN r
        PROVE  /\ \A i \in DOMAIN r :
                     i < j /\ same(r[i], r[j]) /\ r[i].SRI # r[j].SRI => told(i, j, r)
               /\ begun(r[j]) /\ last[r[j].streamID].SRI # r[j].SRI => told(0, j, r)
    <2>1. CASE j \in 1 .. Len(q)
      <3>1. j \in DOMAIN q /\ r[j] = q[j]
        BY <1>2, <2>1
      <3>2. ASSUME NEW i \in Nat, told(i, j, q) PROVE told(i, j, r)
        BY <1>2, <2>1, <3>2 DEF told
      <3>3. ASSUME NEW i \in DOMAIN r, i < j PROVE i \in DOMAIN q /\ r[i] = q[i] /\ i \in Nat
        BY <1>2, <2>1, <3>3
      <3> QED BY <3>1, <3>2, <3>3 DEF chained
    <2>2. CASE j = Len(q) + 1
      <3>1. r[j] = p /\ j \in DOMAIN r /\ 0 < j
        BY <1>2, <2>2
      <3>2. ASSUME NEW i \in DOMAIN r, i < j PROVE i \in DOMAIN q /\ r[i] = q[i]
        BY <1>2, <2>2, <3>2
      <3>3. ASSUME NEW i \in Nat, NEW k \in DOMAIN q, i < k, same(q[k], p), q[k].sriChanged
            PROVE  told(i, j, r)
        <4>1. k \in DOMAIN r /\ i < k /\ k <= j /\ r[k] = q[k]
          BY <1>2, <2>2, <3>3
        <4> QED BY <3>1, <3>3, <4>1 DEF told
      <3>4. ASSUME NEW i \in Nat, i < j, p.sriChanged PROVE told(i, j, r)
        <4>1. j <= j /\ same(r[j], r[j])
          BY <1>2, <2>2 DEF same
        <4> QED BY <3>1, <3>4, <4>1 DEF told
      <3>5. \A k \in DOMAIN q : k \in Nat /\ 0 < k
        BY <1>2
      <3>6. ASSUME NEW i \in DOMAIN r, i < j, same(r[i], r[j]), r[i].SRI # r[j].SRI
            PROVE  told(i, j, r)
        <4>1. i \in DOMAIN q /\ r[i] = q[i] /\ i \in Nat
          BY <3>2, <3>5, <3>6
        <4> QED BY <3>1, <3>3, <3>4, <3>6, <4>1
      <3>7. ASSUME begun(r[j]), last[r[j].streamID].SRI # r[j].SRI PROVE told(0, j, r)
        BY <3>1, <3>3, <3>4, <3>5, <3>7
      <3> QED BY <3>6, <3>7
    <2> QED BY <1>2, <2>1, <2>2
  <1>4. chained(r)
    BY <1>3 DEF chained
  <1> QED BY <1>1, <1>4

\* What is told of a packet is still told when another one joins the queue.
LEMMA StillTold ==
    ASSUME NEW q \in Seq(Packet), NEW p, NEW s \in Streams, NEW i, toldSince(s, i, q)
    PROVE  toldSince(s, i, Append(q, p))
  <1>1. \A k \in DOMAIN q : k \in DOMAIN Append(q, p) /\ Append(q, p)[k] = q[k]
    OBVIOUS
  <1> QED BY <1>1 DEF toldSince

\* A packet that is queued brings the SRI that was to come, and says so if it
\* was to be said.
LEMMA PushChained ==
    ASSUME TypeInv, ChainInv, NEW s \in Streams, queuePacket(s) \/ woken(s),
           \E q, c, fl : enqueue(s, q, c, fl)
    PROVE  /\ chained(packetQueue)' /\ SriPending(s)'
           /\ \E p \in Packet : p.streamID = s /\ packetQueue' = Append(packetQueue, p)
  <1>o. TypeOK /\ chained(packetQueue) /\ SriPending(s) /\ packetQueue \in Seq(Packet)
    BY DEF TypeInv, TypeOK, ChainInv
  <1>a. /\ call[s].at \in lookedUp /\ call[s].at # "ended" /\ UNCHANGED last
        /\ call[s].sriChanged \in BOOLEAN
    BY <1>o, PushAtHand
  <1>1. enqueue(s, packetQueue, call[s].sriChanged, FALSE) /\ UNCHANGED currentHs
    BY PushedInto
  <1>e. PICK q, c : q = packetQueue /\ c = call[s].sriChanged
    OBVIOUS
  <1>q. q \in Seq(Packet) /\ c \in BOOLEAN /\ enqueue(s, q, c, FALSE)
    BY <1>o, <1>a, <1>1, <1>e
  <1>2. \E p \in Packet :
            /\ packetQueue' = Append(q, p)
            /\ p.streamID = s /\ p.instance = sent[s].instance
            /\ p.EOS = call[s].EOS /\ p.SRI = call[s].SRI
            /\ p.sriChanged = c /\ p.inputQueueFlushed = FALSE
            /\ p.buffer = IF call[s].data THEN <<sent[s].instance, sent'[s].data>> ELSE Empty
            /\ sent'[s].data = IF call[s].data THEN sent[s].data + 1 ELSE sent[s].data
            /\ sent'[s].instance = sent[s].instance
    <2>1. PICK b : b = FALSE
      OBVIOUS
    <2>2. b \in BOOLEAN /\ enqueue(s, q, c, b)
      BY <1>q, <2>1
    <2>3. c \in BOOLEAN
      BY <1>q
    <2> QED BY <1>o, <2>1, <2>2, <2>3, EnqueuedPacket
  <1>3. PICK p \in Packet :
            /\ packetQueue' = Append(q, p)
            /\ p.streamID = s /\ p.instance = sent[s].instance
            /\ p.SRI = call[s].SRI /\ p.sriChanged = c
            /\ sent'[s].instance = sent[s].instance
    BY <1>2
  <1>4. nextSRI(s) = p.SRI /\ changePending(s) = c
    BY <1>a, <1>e, <1>3 DEF nextSRI, changePending
  <1>5. \A k \in DOMAIN q : same(q[k], p) <=> current(s, q[k])
    BY <1>3 DEF same, current
  <1>6. begun(p) <=> currentRead(s)
    BY <1>3 DEF begun, currentRead
  <1>7. ~c => /\ \A i \in DOMAIN q : current(s, q[i]) /\ q[i].SRI # p.SRI => toldSince(s, i, q)
              /\ currentRead(s) /\ last[s].SRI # p.SRI => toldSince(s, 0, q)
    BY <1>o, <1>a, <1>e, <1>4 DEF SriPending
  <1>8. chained(Append(q, p))
    <2>1. ASSUME NEW i, toldSince(s, i, q)
          PROVE  \E k \in DOMAIN q : i < k /\ same(q[k], p) /\ q[k].sriChanged
      BY <1>5, <2>1 DEF toldSince
    <2>2. c \/ /\ \A i \in DOMAIN q : same(q[i], p) /\ q[i].SRI # p.SRI =>
                     \E k \in DOMAIN q : i < k /\ same(q[k], p) /\ q[k].sriChanged
               /\ begun(p) /\ last[p.streamID].SRI # p.SRI =>
                     \E k \in DOMAIN q : same(q[k], p) /\ q[k].sriChanged
      BY <1>3, <1>5, <1>6, <1>7, <2>1
    <2> QED BY <1>o, <1>e, <1>q, <1>3, <2>2, JoinChain
  <1>9. chained(packetQueue)'
    BY <1>a, <1>3, <1>8 DEF chained, told, same, begun
  <1>10. SriPending(s)'
    <2>1. call'[s].at \in {"ended", "idle"}
      BY <1>o, <1>q, CallOver
    <2> SUFFICES ASSUME call'[s].at = "idle"
                 PROVE  /\ \A i \in DOMAIN packetQueue' :
                              current(s, packetQueue[i])' /\ packetQueue'[i].SRI # nextSRI(s)'
                                 => toldSince(s, i, packetQueue)'
                        /\ currentRead(s)' /\ last'[s].SRI # nextSRI(s)'
                              => toldSince(s, 0, packetQueue)'
      BY <2>1 DEF SriPending, SriAtHand, lookedUp
    <2>2. nextSRI(s)' = p.SRI
      BY <1>o, <1>a, <1>1, <1>3 DEF nextSRI, lookedUp, SriPending, SriAtHand
    <2>3. PICK r : r = Append(q, p)
      OBVIOUS
    <2>4. /\ Len(q) \in Nat /\ DOMAIN q = 1 .. Len(q) /\ DOMAIN r = 1 .. Len(q) + 1
          /\ \A i \in 1 .. Len(q) : r[i] = q[i]
          /\ r[Len(q) + 1] = p
      BY <1>q, <2>3, QueuePositions
    <2>5. /\ \A i \in DOMAIN r : current(s, packetQueue[i])' = current(s, r[i])
          /\ currentRead(s)' = currentRead(s)
          /\ \A i : toldSince(s, i, packetQueue)' = toldSince(s, i, r)
      BY <1>a, <1>3, <2>3 DEF current, currentRead, toldSince
    <2>6. ASSUME NEW i \in Nat, i <= Len(q), c PROVE toldSince(s, i, r)
      <3>1. i < Len(q) + 1 /\ Len(q) + 1 \in DOMAIN r /\ current(s, p) /\ p.sriChanged
        BY <1>3, <2>4, <2>6 DEF current
      <3> QED BY <2>4, <3>1 DEF toldSince
    <2>7. ASSUME NEW i, toldSince(s, i, q) PROVE toldSince(s, i, r)
      BY <1>q, <2>3, <2>7, StillTold
    <2>8. ASSUME NEW i \in DOMAIN r, current(s, r[i]), r[i].SRI # p.SRI
          PROVE  toldSince(s, i, r)
      <3>1. i \in DOMAIN q /\ i \in Nat /\ i <= Len(q) /\ r[i] = q[i]
        BY <2>4, <2>8
      <3> QED BY <1>q, <1>7, <2>6, <2>7, <2>8, <3>1
    <2>9. ASSUME currentRead(s), last[s].SRI # p.SRI PROVE toldSince(s, 0, r)
      BY <1>q, <1>7, <2>4, <2>6, <2>7, <2>9
    <2> QED BY <1>a, <1>3, <2>2, <2>3, <2>5, <2>8, <2>9
  <1> QED BY <1>e, <1>3, <1>9, <1>10

\* What another thread queues leaves the SRI that is to come as it was.
LEMMA PendingStays ==
    ASSUME TypeOK, NEW s \in Streams, SriPending(s), sameCall(s), last'[s] = last[s],
           \A n \in DOMAIN packetQueue' : packetQueue'[n].streamID = s =>
              \E k \in DOMAIN packetQueue :
                 /\ packetQueue'[n] = packetQueue[k]
                 /\ toldSince(s, k, packetQueue) => toldSince(s, n, packetQueue'),
           toldSince(s, 0, packetQueue) => toldSince(s, 0, packetQueue')
    PROVE  SriPending(s)'
  <1>1. /\ \A n \in DOMAIN packetQueue' :
              current(s, packetQueue[n])' = current(s, packetQueue'[n])
        /\ currentRead(s)' = currentRead(s)
        /\ \A i : toldSince(s, i, packetQueue)' = toldSince(s, i, packetQueue')
    BY DEF current, currentRead, toldSince, sameCall
  <1>2. SriAtHand(s)'
    BY SameCall DEF SriPending, SriAtHand
  <1>3. /\ (call'[s].at = "ended") = (call[s].at = "ended")
        /\ changePending(s)' = changePending(s) /\ nextSRI(s)' = nextSRI(s)
    BY SameCall
  <1>4. ASSUME call[s].at # "ended", ~changePending(s), NEW n \in DOMAIN packetQueue',
               current(s, packetQueue'[n]), packetQueue'[n].SRI # nextSRI(s)
        PROVE  toldSince(s, n, packetQueue')
    <2>1. packetQueue'[n].streamID = s
      BY <1>4 DEF current
    <2>2. PICK k \in DOMAIN packetQueue :
              /\ packetQueue'[n] = packetQueue[k]
              /\ toldSince(s, k, packetQueue) => toldSince(s, n, packetQueue')
      BY <2>1
    <2> QED BY <1>4, <2>2 DEF SriPending
  <1>5. call[s].at # "ended" /\ ~changePending(s) /\ currentRead(s) /\ last[s].SRI # nextSRI(s)
           => toldSince(s, 0, packetQueue')
    BY DEF SriPending
  <1> QED BY <1>1, <1>2, <1>3, <1>4, <1>5 DEF SriPending

\* Upstream keeps the invariant, unless the queue is flushed.
LEMMA UpstreamChained ==
    ASSUME TypeInv, OrderInv, NoDiscards, NeverFull, ChainInv,
           NEW s \in Streams, Push(s) \/ Upstream(s)
    PROVE  ChainInv'
  <1>o. TypeOK /\ PacketsInv /\ AllEnabled /\ packetQueue \in Seq(Packet)
    BY DEF TypeInv, TypeOK, OrderInv
  <1>f. /\ UNCHANGED last
        /\ \A t \in Streams \ {s} : sameCall(t)
    BY <1>o, UpstreamFrame DEF sameCall
  <1>t. chained(packetQueue) /\ \A t \in Streams : SriPending(t)
    BY DEF ChainInv
  <1>n. ~flushAndQueue(s)
    BY DEF flushAndQueue, NeverFull
  <1> SUFFICES /\ chained(packetQueue)' /\ SriPending(s)'
               /\ \/ UNCHANGED packetQueue
                  \/ \E p \in Packet :
                        p.streamID = s /\ packetQueue' = Append(packetQueue, p)
    <2>1. ASSUME NEW t \in Streams \ {s} PROVE SriPending(t)'
      <3>1. CASE UNCHANGED packetQueue
        BY <1>o, <1>f, <1>t, <3>1, PendingStays
      <3>2. ASSUME NEW p \in Packet, p.streamID = s, packetQueue' = Append(packetQueue, p)
            PROVE  SriPending(t)'
        <4>1. \A i : toldSince(t, i, packetQueue) => toldSince(t, i, packetQueue')
          BY <1>o, <3>2, StillTold
        <4>2. ASSUME NEW n \in DOMAIN packetQueue', packetQueue'[n].streamID = t
              PROVE  n \in DOMAIN packetQueue /\ packetQueue'[n] = packetQueue[n]
          BY <1>o, <3>2, <4>2
        <4> QED BY <1>o, <1>f, <1>t, <4>1, <4>2, PendingStays
      <3> QED BY <3>1, <3>2
    <2> QED BY <2>1 DEF ChainInv
  <1>1. CASE /\ queuePacket(s) \/ woken(s)
             /\ \E q, c, fl : enqueue(s, q, c, fl)
    BY <1>1, PushChained
  <1>2. CASE forgetSRI(s)
    <2>1. /\ UNCHANGED <<packetQueue, last>>
          /\ call'[s].at = "idle" /\ ~currentRead(s)'
          /\ \A i \in DOMAIN packetQueue : ~current(s, packetQueue[i])'
      BY <1>o, <1>2, NothingCurrent
    <2>2. SriPending(s)'
      BY <2>1 DEF SriPending, SriAtHand, lookedUp
    <2>3. chained(packetQueue)'
      BY <1>t, <2>1 DEF chained, told, same, begun
    <2> QED BY <2>1, <2>2, <2>3
  <1>3. CASE /\ ~forgetSRI(s)
             /\ queuePacket(s) \/ woken(s) => \A q, c, fl : ~enqueue(s, q, c, fl)
    <2>1. /\ UNCHANGED <<packetQueue, last>> /\ sameSent(s)
          /\ call[s].at # "ended" /\ SriAtHand(s)'
          /\ ~changePending(s)' => ~changePending(s) /\ nextSRI(s)' = nextSRI(s)
      BY <1>o, <1>t, <1>n, <1>3, SriAlone DEF SriPending
    <2>2. chained(packetQueue)'
      BY <1>t, <2>1 DEF chained, told, same, begun
    <2>3. /\ currentRead(s)' = currentRead(s)
          /\ \A i \in DOMAIN packetQueue :
                current(s, packetQueue[i])' = current(s, packetQueue[i])
          /\ \A i : toldSince(s, i, packetQueue)' = toldSince(s, i, packetQueue)
      BY <2>1 DEF current, currentRead, toldSince, sameSent
    <2>4. SriPending(s)'
      BY <1>t, <2>1, <2>3 DEF SriPending
    <2> QED BY <2>1, <2>2, <2>4
  <1> QED BY <1>n, <1>1, <1>2, <1>3

\* Reading a packet of s leaves behind it the SRIs that follow.
LEMMA TakenChained ==
    ASSUME TypeInv, OrderInv, ChainInv, NEW s \in Streams, NEW i \in fetchPacket(s), Taken(s, i),
           \A t \in Streams : sameCall(t)
    PROVE  ChainInv'
  <1>o. TypeOK /\ PacketsInv /\ chained(packetQueue) /\ \A t \in Streams : SriPending(t)
    BY DEF TypeInv, OrderInv, ChainInv
  <1>e. PICK q, r, f : q = packetQueue /\ r = RemoveAt(q, i) /\ f = others(q, i)
    OBVIOUS
  <1>q. q \in Seq(Packet) /\ \A k \in DOMAIN q : k \in Nat /\ 0 < k /\ q[k].streamID \in Streams
    <2>1. q \in Seq(Packet)
      BY <1>o, <1>e DEF TypeOK
    <2>2. ASSUME NEW k \in DOMAIN q PROVE k \in Nat /\ 0 < k /\ q[k].streamID \in Streams
      <3>1. k \in Nat /\ 0 < k /\ q[k] \in Packet
        BY <2>1, QueuePositions
      <3> QED BY <3>1 DEF Packet
    <2> QED BY <2>1, <2>2
  <1>0. /\ i \in DOMAIN q /\ i \in Nat /\ q[i].streamID = s
        /\ \A k \in DOMAIN q : q[k].streamID = s => i <= k
    BY <1>o, <1>e, FirstOfStream
  <1>1. packetQueue' = r
    BY <1>e DEF Taken
  <1>l. last'[s] = q[i] /\ q[i] # NoPacket /\ \A t \in Streams \ {s} : last'[t] = last[t]
    BY <1>o, <1>e, TakenAmong
  <1>2. /\ r \in Seq(Packet)
        /\ \A n \in DOMAIN r : n \in Nat /\ 0 < n /\ f[n] \in DOMAIN q /\ f[n] \in Nat
                              /\ f[n] # i /\ r[n] = q[f[n]]
        /\ \A m, n \in DOMAIN r : m < n => f[m] < f[n]
        /\ \A k \in DOMAIN q \ {i} : \E n \in DOMAIN r : f[n] = k
    <2>1. Thinned(r, q, f, f)
      BY <1>q, <1>0, <1>e, RemoveAtThins
    <2>2. \A n \in DOMAIN r : f[n] \in DOMAIN q /\ n \in Nat /\ 0 < n
      BY <2>1, QueuePositions DEF Thinned
    <2> QED BY <1>q, <1>0, <1>e, <2>1, <2>2, RemoveAtThins DEF Thinned
  <1>3. ASSUME NEW m \in DOMAIN r, NEW n \in DOMAIN r
        PROVE  (f[m] <= f[n] => m <= n) /\ (f[m] < f[n] => m < n)
    <2>1. m \in Nat /\ n \in Nat /\ f[m] \in Nat /\ f[n] \in Nat
      BY <1>2
    <2>2. (n < m => f[n] < f[m]) /\ (n = m => f[n] = f[m])
      BY <1>2
    <2> QED BY <2>1, <2>2
  \* What was told of a packet is told still, unless by the one that is read.
  <1>4. ASSUME NEW n \in DOMAIN r, NEW k \in DOMAIN q, k # i, k <= f[n],
               same(q[k], q[f[n]]), q[k].sriChanged
        PROVE  /\ told(0, n, r)
               /\ \A m \in DOMAIN r : f[m] < k => told(m, n, r)
    <2>1. PICK j \in DOMAIN r : f[j] = k
      BY <1>2, <1>4
    <2>2. j <= n /\ 0 < j /\ r[j] = q[k] /\ r[n] = q[f[n]]
      BY <1>2, <1>3, <1>4, <2>1
    <2>3. \A m \in DOMAIN r : f[m] < k => m < j
      BY <1>3, <2>1
    <2> QED BY <1>4, <2>2, <2>3 DEF told
  <1>5. ASSUME NEW m \in DOMAIN r, NEW n \in DOMAIN r, m < n, same(r[m], r[n]),
               r[m].SRI # r[n].SRI
        PROVE  told(m, n, r)
    <2>1. f[m] \in DOMAIN q /\ f[n] \in DOMAIN q /\ f[m] < f[n] /\ f[m] \in Nat /\ f[m] # i
          /\ r[m] = q[f[m]] /\ r[n] = q[f[n]]
      BY <1>2, <1>5
    <2>2. PICK k \in DOMAIN q : f[m] < k /\ k <= f[n] /\ same(q[k], q[f[n]]) /\ q[k].sriChanged
      BY <1>o, <1>e, <1>5, <2>1 DEF chained, told
    <2>3. k # i
      <3>1. q[k].streamID = s => i <= f[m]
        BY <1>0, <1>5, <2>1, <2>2 DEF same
      <3> QED BY <1>0, <1>q, <2>1, <2>2, <3>1
    <2> QED BY <1>4, <2>2, <2>3
  <1>6. ASSUME NEW n \in DOMAIN r, begun(r[n])', last'[r[n].streamID].SRI # r[n].SRI
        PROVE  told(0, n, r)
    <2>1. f[n] \in DOMAIN q /\ f[n] \in Nat /\ f[n] # i /\ r[n] = q[f[n]]
          /\ r[n].streamID \in Streams
      BY <1>q, <1>2
    <2>2. CASE r[n].streamID = s
      <3>1. i < f[n] /\ same(q[i], q[f[n]]) /\ q[i].SRI # q[f[n]].SRI
        BY <1>0, <1>l, <1>6, <2>1, <2>2 DEF begun, same
      <3>2. PICK k \in DOMAIN q : i < k /\ k <= f[n] /\ same(q[k], q[f[n]]) /\ q[k].sriChanged
        BY <1>o, <1>e, <1>0, <2>1, <3>1 DEF chained, told
      <3>3. k # i
        BY <1>0, <1>q, <3>2
      <3> QED BY <1>4, <3>2, <3>3
    <2>3. CASE r[n].streamID # s
      <3>1. begun(q[f[n]]) /\ last[q[f[n]].streamID].SRI # q[f[n]].SRI
        BY <1>l, <1>6, <2>1, <2>3 DEF begun
      <3>2. PICK k \in DOMAIN q : k <= f[n] /\ same(q[k], q[f[n]]) /\ q[k].sriChanged
        BY <1>o, <1>e, <2>1, <3>1 DEF chained, told
      <3>3. k # i
        BY <1>0, <2>1, <2>3, <3>2 DEF same
      <3> QED BY <1>4, <3>2, <3>3
    <2> QED BY <2>2, <2>3
  <1>7. chained(packetQueue)'
    BY <1>1, <1>5, <1>6 DEF chained, told, same, begun
  \* So is what is told of the packets to come.
  <1>8. ASSUME NEW t \in Streams, NEW k \in DOMAIN q, k # i, current(t, q[k]), q[k].sriChanged
        PROVE  /\ toldSince(t, 0, r)
               /\ \A m \in DOMAIN r : f[m] < k => toldSince(t, m, r)
    <2>1. PICK j \in DOMAIN r : f[j] = k
      BY <1>2, <1>8
    <2>2. 0 < j /\ r[j] = q[k] /\ \A m \in DOMAIN r : f[m] < k => m < j
      BY <1>2, <1>3, <2>1
    <2> QED BY <1>8, <2>2 DEF toldSince
  <1>9. ASSUME NEW t \in Streams \ {s} PROVE SriPending(t)'
    <2>1. \A k \in DOMAIN q : current(t, q[k]) => k # i
      BY <1>0 DEF current
    <2>2. toldSince(t, 0, q) => toldSince(t, 0, r)
      BY <1>8, <2>1 DEF toldSince
    <2>3. \A n \in DOMAIN r : f[n] \in DOMAIN q /\ r[n] = q[f[n]]
                             /\ (toldSince(t, f[n], q) => toldSince(t, n, r))
      BY <1>2, <1>8, <2>1 DEF toldSince
    <2> QED BY <1>o, <1>e, <1>1, <1>l, <2>2, <2>3, PendingStays
  <1>10. SriPending(s)'
    <2>c. SriPending(s) /\ sameCall(s) /\ sent'[s] = sent[s]
      BY <1>o DEF sameCall
    <2>1. /\ \A n \in DOMAIN r : current(s, packetQueue[n])' = current(s, r[n])
          /\ \A n : toldSince(s, n, packetQueue)' = toldSince(s, n, r)
          /\ currentRead(s)' = current(s, q[i])
      BY <1>0, <1>1, <1>l, <2>c DEF current, currentRead, toldSince
    <2>2. SriAtHand(s)'
      BY <1>o, <2>c, SameCall DEF SriPending, SriAtHand
    <2>3. /\ (call'[s].at = "ended") = (call[s].at = "ended")
          /\ changePending(s)' = changePending(s) /\ nextSRI(s)' = nextSRI(s)
      BY <1>o, <2>c, SameCall
    <2>4. ASSUME call[s].at # "ended", ~changePending(s), NEW j \in DOMAIN q, current(s, q[j]),
                 q[j].SRI # nextSRI(s)
          PROVE  \E k \in DOMAIN q : j < k /\ k # i /\ current(s, q[k]) /\ q[k].sriChanged
      <3>1. toldSince(s, j, q)
        BY <1>e, <2>c, <2>4 DEF SriPending
      <3>2. PICK k \in DOMAIN q : j < k /\ current(s, q[k]) /\ q[k].sriChanged
        BY <3>1 DEF toldSince
      <3>3. k # i
        BY <1>0, <1>q, <2>4, <3>2 DEF current
      <3> QED BY <3>2, <3>3
    <2>5. ASSUME call[s].at # "ended", ~changePending(s), NEW n \in DOMAIN r, current(s, r[n]),
                 r[n].SRI # nextSRI(s)
          PROVE  toldSince(s, n, r)
      <3>1. f[n] \in DOMAIN q /\ r[n] = q[f[n]]
        BY <1>2
      <3>2. PICK k \in DOMAIN q : f[n] < k /\ k # i /\ current(s, q[k]) /\ q[k].sriChanged
        BY <2>4, <2>5, <3>1
      <3> QED BY <1>8, <3>2
    <2>6. ASSUME call[s].at # "ended", ~changePending(s), current(s, q[i]), q[i].SRI # nextSRI(s)
          PROVE  toldSince(s, 0, r)
      <3>1. PICK k \in DOMAIN q : k # i /\ current(s, q[k]) /\ q[k].sriChanged
        BY <1>0, <2>4, <2>6
      <3> QED BY <1>8, <3>1
    <2> QED BY <1>1, <1>l, <2>1, <2>2, <2>3, <2>5, <2>6 DEF SriPending
  <1> QED BY <1>7, <1>9, <1>10 DEF ChainInv

\* What leaves the queue and the calls alone keeps the SRIs chained.
LEMMA QuietChained ==
    ASSUME TypeInv, ChainInv, UNCHANGED <<packetQueue, last>>,
           \A t \in Streams : sameCall(t)
    PROVE  ChainInv'
  <1>1. chained(packetQueue)'
    BY DEF ChainInv, chained, told, same, begun
  <1>2. \A t \in Streams : SriPending(t)'
    BY PendingStays DEF ChainInv, TypeInv
  <1> QED BY <1>1, <1>2 DEF ChainInv

\* No SRI is known at first.
LEMMA ChainInit == Init => ChainInv
  <1> SUFFICES ASSUME Init PROVE ChainInv
    OBVIOUS
  <1>1. packetQueue = <<>> /\ chained(packetQueue)
    BY DEF Init, chained
  <1>2. ASSUME NEW s \in Streams PROVE SriPending(s)
    <2>1. call[s].at = "idle" /\ last[s] = NoPacket
      BY DEF Init, NoCall
    <2> QED BY <1>1, <2>1 DEF SriPending, SriAtHand, lookedUp, currentRead
  <1> QED BY <1>1, <1>2 DEF ChainInv

\* Every step keeps the SRIs chained, unless the queue is flushed.
LEMMA ChainStep ==
    ASSUME TypeInv, OrderInv, NoDiscards, NeverFull, ChainInv, [Next]_vars
    PROVE  ChainInv'
  <1>1. CASE UNCHANGED vars
    BY <1>1, NothingHappens, QuietChained
  <1>2. CASE Reader \/ Control
    BY <1>2, ComponentTakes, QuietChained, TakenChained
  <1>3. CASE \E s \in Streams : Push(s) \/ Upstream(s)
    BY <1>3, UpstreamChained
  <1> QED BY <1>1, <1>2, <1>3 DEF Next

\* A packet that is read says so if its SRI is not that of the one before it.
LEMMA DeliveryChained ==
    ASSUME TypeInv, OrderInv, NoDiscards, ChainInv, [Next]_vars, NEW s \in Streams, delivers(s)
    PROVE  SriChangeReported(s)
  <1>o. TypeOK /\ PacketsInv
    BY DEF TypeInv, OrderInv
  <1>1. PICK i \in fetchPacket(s) : last'[s] = packetQueue[i]
    BY Delivery
  <1>e. PICK q : q = packetQueue
    OBVIOUS
  <1>2. /\ i \in DOMAIN q /\ i \in Nat /\ q[i].streamID = s
        /\ \A k \in DOMAIN q : q[k].streamID = s => i <= k
    BY <1>o, <1>e, FirstOfStream
  <1>k. \A k \in DOMAIN q : k \in Nat
    BY <1>e, <1>o, QueuePositions DEF TypeOK
  <1> SUFFICES ASSUME sameInstance(s), q[i].SRI # last[s].SRI PROVE q[i].sriChanged
    BY <1>e, <1>1 DEF SriChangeReported
  <1>3. begun(q[i])
    BY <1>e, <1>1, <1>2 DEF sameInstance, begun
  <1>4. PICK k \in DOMAIN q : k <= i /\ same(q[k], q[i]) /\ q[k].sriChanged
    BY <1>e, <1>2, <1>3 DEF ChainInv, chained, told
  <1>5. k = i
    BY <1>2, <1>4, <1>k DEF same
  <1> QED BY <1>4, <1>5

(***************************************************************************)
(* However often upstream changes the SRI of a stream, a component is told *)
(* of every change in what it reads, as of new streams and lost samples,   *)
(* in a behaviour in which no push finds the queue of a port that does not *)
(* block full: it is not flushed then (pushSRI, pushPacket, queuePacket).  *)
(***************************************************************************)
THEOREM UpdatesAreTold ==
    NoDiscards => (Spec /\ []NeverFull => ChangesReported)
  <1> SUFFICES ASSUME NoDiscards PROVE Spec /\ []NeverFull => ChangesReported
    OBVIOUS
  <1> DEFINE I == TypeInv /\ OrderInv /\ TellInv /\ ChainInv
  <1>1. Init => I
    BY TypeInit, OrderInit, TellInit, ChainInit
  <1>2. I /\ NeverFull /\ [Next]_vars => I'
    BY TypeInvStep, OrderStep, TellStep, ChainStep DEF SamplesStay
  <1>3. I /\ [Next]_vars =>
           [\A s \in Streams : delivers(s) =>
               NewStreamReported(s) /\ SriChangeReported(s) /\ LossReported(s)]_vars
    BY DeliveryTold, DeliveryChained DEF tellsNewAndLost
  <1> QED BY <1>1, <1>2, <1>3, PTL DEF Spec, ChangesReported

=============================================================================
