------------------------- MODULE QueueBackendsProofs -------------------------
(* Proofs that both queues implement WorkQueue, for any messages: the channel,  *)
(* for any number of publishers and any capacity, without loss; the Redis list, *)
(* whose messages survive their encoding, with at most the losses WorkQueue     *)
(* allows.  What the channel accepted keeps its order, and a shutdown leaves no *)
(* message half way.                                                            *)
EXTENDS QueueBackends, SequenceTheorems, TLAPS

(* Unless it names its prover, a leaf is tried with SMT, with Zenon, and   *)
(* with SMT again for longer.                                              *)
USE SMTT(30), ZenonT(30), SMTT(60)

-----------------------------------------------------------------------------
(* Sequences *)

(* The elements of a concatenation. *)
LEMMA Glue ==
    ASSUME NEW S, NEW s \in Seq(S), NEW t \in Seq(S)
    PROVE  /\ s \o t \in Seq(S) /\ Len(s \o t) = Len(s) + Len(t)
           /\ \A i \in 1 .. Len(s) : (s \o t)[i] = s[i]
           /\ \A i \in 1 .. Len(t) : (s \o t)[Len(s) + i] = t[i]
<1>1. Len(s) \in Nat /\ Len(t) \in Nat
  OBVIOUS
<1>2. \A i \in 1 .. Len(s) : i \in 1 .. Len(s) + Len(t) /\ i <= Len(s)
  BY <1>1
<1>3. \A i \in 1 .. Len(t) : /\ Len(s) + i \in 1 .. Len(s) + Len(t)
                             /\ ~(Len(s) + i <= Len(s)) /\ (Len(s) + i) - Len(s) = i
  BY <1>1
<1>. QED
  BY <1>2, <1>3, ConcatProperties

(* The elements of a part. *)
LEMMA Cut ==
    ASSUME NEW S, NEW s \in Seq(S), NEW m \in Nat \ {0}, NEW n \in Nat,
           m <= n + 1, n <= Len(s)
    PROVE  /\ SubSeq(s, m, n) \in Seq(S) /\ Len(SubSeq(s, m, n)) = n - m + 1
           /\ \A i \in 1 .. n - m + 1 : SubSeq(s, m, n)[i] = s[m + i - 1]
<1>1. \A i \in m .. n : s[i] \in S
  OBVIOUS
<1>2. (IF m <= n THEN n - m + 1 ELSE 0) = n - m + 1
  OBVIOUS
<1>. QED
  BY <1>1, <1>2, SubSeqProperties

(* Appending to the second part appends to the whole. *)
LEMMA AppendLast ==
    ASSUME NEW S, NEW s \in Seq(S), NEW t \in Seq(S), NEW m \in S
    PROVE  s \o Append(t, m) = Append(s \o t, m)
<1>. DEFINE u == s \o Append(t, m)
            v == Append(s \o t, m)
<1>1. u \in Seq(S) /\ v \in Seq(S) /\ Len(u) = Len(v)
  OBVIOUS
<1>2. \A i \in 1 .. Len(u) : u[i] = v[i]
  OBVIOUS
<1>. HIDE DEF u, v
<1>3. u = v
  BY <1>1, <1>2, SeqEqual, Zenon
<1>. QED
  BY <1>3 DEF u, v

(* A sequence is its first element and the rest. *)
LEMMA FirstAndRest ==
    ASSUME NEW S, NEW s \in Seq(S), s # <<>>
    PROVE  <<Head(s)>> \o Tail(s) = s
<1>. DEFINE u == <<Head(s)>> \o Tail(s)
<1>1. u \in Seq(S) /\ Len(u) = Len(s)
  OBVIOUS
<1>2. \A i \in 1 .. Len(u) : u[i] = s[i]
  OBVIOUS
<1>. HIDE DEF u
<1>3. u = s
  BY <1>1, <1>2, SeqEqual, Zenon
<1>. QED
  BY <1>3 DEF u

(* Taking the first element undoes putting it there. *)
LEMMA FirstTaken ==
    ASSUME NEW S, NEW m \in S, NEW s \in Seq(S)
    PROVE  <<m>> \o s # <<>> /\ Head(<<m>> \o s) = m /\ Tail(<<m>> \o s) = s
<1>1. <<m>> \o s # <<>> /\ Head(<<m>> \o s) = m
  OBVIOUS
<1>. DEFINE u == Tail(<<m>> \o s)
<1>2. u \in Seq(S) /\ Len(u) = Len(s)
  OBVIOUS
<1>3. \A i \in 1 .. Len(u) : u[i] = s[i]
  OBVIOUS
<1>. HIDE DEF u
<1>4. u = s
  BY <1>2, <1>3, SeqEqual, Zenon
<1>. QED
  BY <1>1, <1>4 DEF u

(* Moving the first element of the second part to the end of the first. *)
LEMMA HandOver ==
    ASSUME NEW S, NEW s \in Seq(S), NEW t \in Seq(S), t # <<>>
    PROVE  Append(s, Head(t)) \o Tail(t) = s \o t
<1>. DEFINE u == Append(s, Head(t)) \o Tail(t)
            v == s \o t
<1>1. u \in Seq(S) /\ v \in Seq(S) /\ Len(u) = Len(v)
  OBVIOUS
<1>2. \A i \in 1 .. Len(u) : u[i] = v[i]
  OBVIOUS
<1>. HIDE DEF u, v
<1>3. u = v
  BY <1>1, <1>2, SeqEqual, Zenon
<1>. QED
  BY <1>3 DEF u, v

-----------------------------------------------------------------------------
(* The backends *)

(* A step is one of the backend that was chosen, and the other rests. *)
LEMMA BackendStep ==
    [BackendNext]_<<backend, vars, redisVars>> => [Next]_vars /\ [Redis!Next]_redisVars
  BY DEF BackendNext

-----------------------------------------------------------------------------
(* memory: types *)

(* Every variable of the channel-backed queue keeps its type; in particular
   no channel holds more than its capacity. *)
THEOREM QueueTypes == BackendSpec => []TypeOK
<1>1. Init => TypeOK
  <2>. SUFFICES ASSUME Init PROVE TypeOK
    OBVIOUS
  <2>1. ch \in [Instances -> Seq(Messages)] /\ \A i \in Instances : ch[i] = <<>>
    BY DEF Init
  <2>2. \A i \in Instances : Len(ch[i]) <= Size
    BY <2>1, QueueConstants
  <2>. QED
    BY <2>1, <2>2, QueueConstants, Zenon DEF Init, TypeOK
<1>2. TypeOK /\ [Next]_vars => TypeOK'
  <2>. SUFFICES ASSUME TypeOK, [Next]_vars PROVE TypeOK'
    OBVIOUS
  <2>1. ASSUME NEW p \in Publishers, Publish(p)
        PROVE  TypeOK'
    BY <2>1 DEF Publish, TypeOK
  <2>2. ASSUME NEW p \in Publishers, Send(p)
        PROVE  TypeOK'
    BY <2>2, QueueConstants DEF Send, Return, TypeOK
  <2>3. ASSUME NEW p \in Publishers, SendCancelled(p)
        PROVE  TypeOK'
    BY <2>3 DEF SendCancelled, Return, TypeOK
  <2>4. CASE Receive
    BY <2>4, QueueConstants DEF Receive, TypeOK
  <2>5. CASE Forward
    BY <2>5 DEF Forward, TypeOK
  <2>6. CASE Handled \/ Cancel \/ ConsumerReturns \/ LoopStops \/ UNCHANGED vars
    BY <2>6, Zenon DEF Handled, Cancel, ConsumerReturns, LoopStops, vars, TypeOK
  <2>. QED
    BY <2>1, <2>2, <2>3, <2>4, <2>5, <2>6 DEF Next, Consumer
<1>. QED
  BY <1>1, <1>2, BackendStep, PTL DEF BackendSpec, BackendInit

-----------------------------------------------------------------------------
(* memory: refinement *)

Waiting == Held \o ch[ConsumeFrom]

(* A step that leaves held and the consumed channel alone changes no message
   that waits. *)
LEMMA WaitingUnchanged ==
    ASSUME held' = held, ch'[ConsumeFrom] = ch[ConsumeFrom]
    PROVE  Waiting' = Waiting
  BY DEF Waiting, Held

(* A step of the channel-backed queue is one of the abstract queue. *)
LEMMA ChannelStep == TypeOK /\ [Next]_vars => [Abstract!Next]_<<Waiting, out>>
<1>. SUFFICES ASSUME TypeOK, [Next]_vars
              PROVE  Abstract!Next \/ UNCHANGED <<Waiting, out>>
  OBVIOUS
<1>1. Held \in Seq(Messages) /\ ch[ConsumeFrom] \in Seq(Messages)
  BY QueueConstants DEF TypeOK, Held
<1>2. ASSUME NEW p \in Publishers, Publish(p) \/ SendCancelled(p)
      PROVE  UNCHANGED <<Waiting, out>>
  BY <1>2, WaitingUnchanged DEF Publish, SendCancelled
<1>3. ASSUME NEW p \in Publishers, Send(p)
      PROVE  Abstract!Next \/ UNCHANGED <<Waiting, out>>
  <2>1. CASE PublishTo = ConsumeFrom
    <3>1. sending[p] \in Messages /\ UNCHANGED <<held, out>>
      BY <1>3 DEF Send, TypeOK
    <3>2. ch'[ConsumeFrom] = Append(ch[ConsumeFrom], sending[p])
      BY <1>3, <2>1, QueueConstants DEF Send, TypeOK
    <3>3. Waiting' = Append(Waiting, sending[p])
      <4>1. Held' = Held
        BY <3>1 DEF Held
      <4>2. Held \o Append(ch[ConsumeFrom], sending[p]) = Append(Held \o ch[ConsumeFrom], sending[p])
        BY <1>1, <3>1, AppendLast
      <4>. QED
        BY <3>2, <4>1, <4>2, Zenon DEF Waiting
    <3>4. (\E m \in Messages : Waiting' = Append(Waiting, m)) /\ UNCHANGED out
      BY <3>1, <3>3
    <3>5. Abstract!Accept
      BY <3>4, Zenon DEF Abstract!Accept, Waiting
    <3>. QED
      BY <3>5 DEF Abstract!Next
  <2>2. CASE PublishTo # ConsumeFrom
    BY <1>3, <2>2, WaitingUnchanged, QueueConstants DEF Send, TypeOK
  <2>. QED
    BY <2>1, <2>2
<1>4. CASE Receive
  <2>1. /\ held = None /\ ch[ConsumeFrom] # <<>> /\ out' = out
        /\ held' = Head(ch[ConsumeFrom]) /\ ch'[ConsumeFrom] = Tail(ch[ConsumeFrom])
    BY <1>4, QueueConstants DEF Receive, TypeOK
  <2>2. held' # None
    BY <2>1, <1>1, QueueConstants
  <2>3. Waiting = ch[ConsumeFrom]
    BY <2>1, <1>1 DEF Waiting, Held
  <2>4. Waiting' = <<Head(ch[ConsumeFrom])>> \o Tail(ch[ConsumeFrom])
    BY <2>1, <2>2 DEF Waiting, Held
  <2>. QED
    BY <2>1, <2>3, <2>4, <1>1, FirstAndRest
<1>5. CASE Forward
  <2>1. /\ held \in Messages /\ held # None /\ held' = None
        /\ out' = Append(out, held) /\ ch' = ch
    BY <1>5 DEF Forward, TypeOK
  <2>2. Waiting = <<held>> \o ch[ConsumeFrom] /\ Waiting' = ch[ConsumeFrom]
    BY <2>1, <1>1 DEF Waiting, Held
  <2>3. Waiting # <<>> /\ Head(Waiting) = held /\ Tail(Waiting) = Waiting'
    BY <2>1, <2>2, <1>1, FirstTaken
  <2>. QED
    BY <2>1, <2>3 DEF Abstract!Next, Abstract!Deliver, Waiting
<1>6. CASE Handled \/ Cancel \/ ConsumerReturns \/ LoopStops \/ UNCHANGED vars
  BY <1>6, WaitingUnchanged DEF Handled, Cancel, ConsumerReturns, LoopStops, vars
<1>. QED
  BY <1>2, <1>3, <1>4, <1>5, <1>6 DEF Next, Consumer

(* The channel-backed queue is a queue that loses nothing. *)
THEOREM ChannelIsQueue == BackendSpec => ImplementsQueue
<1>1. Init => Abstract!Init
  BY QueueConstants DEF Init, Abstract!Init, Held
<1>. QED
  BY <1>1, ChannelStep, BackendStep, QueueTypes, PTL
     DEF BackendSpec, BackendInit, ImplementsQueue, Abstract!Spec, Waiting

(* All that was accepted, in the order in which it was or will be handled. *)
Accepted == out \o Waiting

(* What Publish accepted keeps its place for ever: a step adds at most one
   message, behind all others, and drops, repeats or moves none. *)
THEOREM AcceptedInOrder ==
    BackendSpec => [][\/ Accepted' = Accepted
                      \/ \E m \in Messages : Accepted' = Append(Accepted, m)]_vars
<1>1. ASSUME TypeOK, [Next]_vars
      PROVE  \/ Accepted' = Accepted
             \/ \E m \in Messages : Accepted' = Append(Accepted, m)
  <2>1. out \in Seq(Messages) /\ Waiting \in Seq(Messages)
    BY <1>1, QueueConstants DEF TypeOK, Waiting, Held
  <2>2. ASSUME NEW m \in Messages, Waiting' = Append(Waiting, m), out' = out
        PROVE  Accepted' = Append(Accepted, m)
    BY <2>1, <2>2, AppendLast DEF Accepted
  <2>3. ASSUME Waiting # <<>>, out' = Append(out, Head(Waiting)), Waiting' = Tail(Waiting)
        PROVE  Accepted' = Accepted
    BY <2>1, <2>3, HandOver DEF Accepted
  <2>4. ASSUME Waiting' = Waiting, out' = out
        PROVE  Accepted' = Accepted
    BY <2>4, Zenon DEF Accepted
  <2>5. \/ \E m \in Messages : Waiting' = Append(Waiting, m) /\ out' = out
        \/ Waiting # <<>> /\ out' = Append(out, Head(Waiting)) /\ Waiting' = Tail(Waiting)
        \/ Waiting' = Waiting /\ out' = out
    BY <1>1, ChannelStep, Zenon DEF Abstract!Next, Abstract!Accept, Abstract!Deliver,
       Abstract!Lose, Waiting
  <2>. QED
    BY <2>2, <2>3, <2>4, <2>5, Zenon
<1>2. TypeOK /\ [Next]_vars => \/ Accepted' = Accepted
                               \/ \E m \in Messages : Accepted' = Append(Accepted, m)
  BY <1>1, Zenon
<1>. QED
  BY <1>2, BackendStep, QueueTypes, PTL DEF BackendSpec

-----------------------------------------------------------------------------
(* memory: shutdown *)

(* Consume's goroutine ends only once its context is cancelled and it has handed
   over what it took from the channel, and the loop ends only after it. *)
ShutdownInOrder ==
    /\ consumer = "returned" => cancelled /\ held = None
    /\ loop = "stopped" => consumer = "returned"

(* However a cancellation, the goroutine and the loop interleave, no message
   is left in the goroutine's hands: the safety half of ShutdownDelivers. *)
THEOREM ShutdownStrandsNothing == BackendSpec => []ShutdownInOrder
<1>1. Init => ShutdownInOrder
  BY DEF Init, ShutdownInOrder
<1>2. ShutdownInOrder /\ [Next]_vars => ShutdownInOrder'
  <2>. SUFFICES ASSUME ShutdownInOrder, [Next]_vars PROVE ShutdownInOrder'
    OBVIOUS
  <2>1. ASSUME NEW p \in Publishers, Publish(p) \/ Send(p) \/ SendCancelled(p)
        PROVE  UNCHANGED <<consumer, cancelled, held, loop>>
    BY <2>1, Zenon DEF Publish, Send, SendCancelled
  <2>2. CASE UNCHANGED <<consumer, cancelled, held, loop>>
    BY <2>2, Zenon DEF ShutdownInOrder
  <2>3. CASE Receive \/ Forward \/ Handled \/ Cancel \/ ConsumerReturns \/ LoopStops
    BY <2>3 DEF Receive, Forward, Handled, Cancel, ConsumerReturns, LoopStops, ShutdownInOrder
  <2>. QED
    BY <2>1, <2>2, <2>3, Zenon DEF Next, Consumer, vars
<1>. QED
  BY <1>1, <1>2, BackendStep, PTL DEF BackendSpec, BackendInit

-----------------------------------------------------------------------------
(* redis: the encoding *)

Text == Chars \cup {Bar}

(* A message is its type, which has no bar, and its body. *)
LEMMA MessageParts ==
    ASSUME NEW m \in Texts
    PROVE  /\ m = [type |-> m.type, body |-> m.body]
           /\ m.type \in Seq(Text) /\ m.body \in Seq(Text)
           /\ Len(m.type) \in Nat /\ Len(m.body) \in Nat
           /\ \A j \in 1 .. Len(m.type) : m.type[j] # Bar
<1>1. m = [type |-> m.type, body |-> m.body] /\ m.type \in Seq(Chars) /\ m.body \in Seq(Text)
  BY TextsAssumption DEF Redis!CodecConstants, Text
<1>2. m.type \in Seq(Text) /\ \A j \in 1 .. Len(m.type) : m.type[j] \in Chars
  BY <1>1 DEF Text
<1>. QED
  BY <1>1, <1>2, TextsAssumption DEF Redis!CodecConstants

(* Where the parts of an encoded message are. *)
LEMMA Encoded ==
    ASSUME NEW m \in Texts
    PROVE  /\ Redis!serialize(m) \in Seq(Text)
           /\ Len(Redis!serialize(m)) = Len(m.type) + 1 + Len(m.body)
           /\ \A j \in 1 .. Len(m.type) : Redis!serialize(m)[j] = m.type[j]
           /\ Redis!serialize(m)[Len(m.type) + 1] = Bar
           /\ \A j \in 1 .. Len(m.body) : Redis!serialize(m)[Len(m.type) + 1 + j] = m.body[j]
<1>. DEFINE t == m.type
            b == m.body
            h == t \o <<Bar>>
<1>1. t \in Seq(Text) /\ b \in Seq(Text) /\ Len(t) \in Nat /\ Len(b) \in Nat
  BY MessageParts
<1>2. <<Bar>> \in Seq(Text) /\ Len(<<Bar>>) = 1 /\ <<Bar>>[1] = Bar
  BY DEF Text
<1>. HIDE DEF t, b
<1>3. /\ h \in Seq(Text) /\ Len(h) = Len(t) + 1 /\ h[Len(t) + 1] = Bar
      /\ \A j \in 1 .. Len(t) : h[j] = t[j]
  BY <1>1, <1>2, Glue
<1>. HIDE DEF h
<1>4. /\ h \o b \in Seq(Text) /\ Len(h \o b) = Len(h) + Len(b)
      /\ \A j \in 1 .. Len(h) : (h \o b)[j] = h[j]
      /\ \A j \in 1 .. Len(b) : (h \o b)[Len(h) + j] = b[j]
  <2>1. h \in Seq(Text) /\ b \in Seq(Text)
    BY <1>1, <1>3
  <2>. QED
    BY <2>1, Glue
<1>5. Redis!serialize(m) = h \o b
  BY DEF Redis!serialize, h, t, b
<1>6. /\ \A j \in 1 .. Len(t) : (h \o b)[j] = t[j]
      /\ (h \o b)[Len(t) + 1] = Bar
      /\ \A j \in 1 .. Len(b) : (h \o b)[Len(t) + 1 + j] = b[j]
      /\ Len(h \o b) = Len(t) + 1 + Len(b)
  BY <1>1, <1>3, <1>4
<1>. QED
  BY <1>4, <1>5, <1>6, Zenon DEF t, b

(* A message whose type has no bar comes back as it was, whatever its body. *)
THEOREM RoundTrip ==
    ASSUME NEW m \in Texts
    PROVE  Redis!deserialize(Redis!serialize(m)) = m
<1>. DEFINE s == Redis!serialize(m)
            t == m.type
            b == m.body
            n == Len(t)
            First(i) == s[i] = Bar /\ \A j \in 1 .. i-1 : s[j] # Bar
<1>1. /\ m = [type |-> t, body |-> b] /\ t \in Seq(Text) /\ b \in Seq(Text)
      /\ n \in Nat /\ Len(b) \in Nat /\ \A j \in 1 .. n : t[j] # Bar
  BY MessageParts
<1>2. /\ s \in Seq(Text) /\ Len(s) = n + 1 + Len(b)
      /\ \A j \in 1 .. n : s[j] = t[j]
      /\ s[n + 1] = Bar
      /\ \A j \in 1 .. Len(b) : s[n + 1 + j] = b[j]
  BY Encoded, Zenon
<1>. HIDE DEF s, t, b, n
<1>3. n + 1 \in 1..Len(s) /\ First(n + 1)
  <2>1. n + 1 \in 1..Len(s)
    BY <1>1, <1>2
  <2>2. \A j \in 1 .. (n+1)-1 : s[j] # Bar
    BY <1>1, <1>2
  <2>. QED
    BY <1>2, <2>1, <2>2
<1>4. ASSUME NEW k \in 1..Len(s), First(k) PROVE k = n + 1
  <2>1. ~(k <= n)
    BY <1>1, <1>2, <1>4
  <2>2. ~(n + 1 <= k - 1)
    BY <1>1, <1>2, <1>4
  <2>. QED
    BY <1>1, <1>2, <2>1, <2>2
<1>5. (CHOOSE i \in 1..Len(s) : First(i)) = n + 1
  <2>. HIDE DEF First
  <2>. QED
    BY <1>3, <1>4
<1>6. Redis!deserialize(s) = [type |-> SubSeq(s, 1, (n + 1) - 1), body |-> SubSeq(s, (n + 1) + 1, Len(s))]
  <2>1. \E i \in 1..Len(s) : s[i] = Bar
    BY <1>3
  <2>. QED
    BY <2>1, <1>5, Zenon DEF Redis!deserialize
<1>7. SubSeq(s, 1, (n + 1) - 1) = t
  <2>1. (n + 1) - 1 = n /\ n <= Len(s)
    BY <1>1, <1>2
  <2>2. /\ SubSeq(s, 1, n) \in Seq(Text) /\ Len(SubSeq(s, 1, n)) = n
        /\ \A j \in 1 .. n : SubSeq(s, 1, n)[j] = s[j]
    BY <1>1, <1>2, <2>1, Cut
  <2>. QED
    BY <1>1, <1>2, <2>1, <2>2, SeqEqual DEF n
<1>8. SubSeq(s, (n + 1) + 1, Len(s)) = b
  <2>. DEFINE c == SubSeq(s, (n + 1) + 1, Len(s))
  <2>1. /\ c \in Seq(Text) /\ Len(c) = Len(b)
        /\ \A j \in 1 .. Len(b) : c[j] = s[n + 1 + j]
    BY <1>1, <1>2, Cut
  <2>2. \A j \in 1 .. Len(b) : c[j] = b[j]
    BY <1>2, <2>1
  <2>. HIDE DEF c
  <2>3. c = b
    BY <1>1, <2>1, <2>2, SeqEqual
  <2>. QED
    BY <2>3 DEF c
<1>. QED
  BY <1>1, <1>6, <1>7, <1>8, Zenon DEF s

-----------------------------------------------------------------------------
(* redis: the invariant.  What is in the list was published. *)

Encodings == {Redis!serialize(m) : m \in Texts}

RedisInv ==
  /\ list \in Seq(Encodings)
  /\ popped \in Texts \cup {None}

(* No message is mistaken for the absence of one. *)
LEMMA NoMessageIsNone ==
    None \notin Texts
<1>1. \A m \in Texts : m \in [type : Seq(Chars \cup {Bar}), body : Seq(Chars \cup {Bar})]
  BY MessageParts DEF Text
<1>. QED
  BY <1>1, TextsAssumption DEF Redis!CodecConstants

(* What was published decodes to a message. *)
LEMMA Decodes ==
    ASSUME NEW x \in Encodings
    PROVE  Redis!deserialize(x) \in Texts
  BY RoundTrip DEF Encodings

(* What BRPOP takes from the list, and what it leaves. *)
LEMMA RestOfList ==
    ASSUME list \in Seq(Encodings), list # <<>>
    PROVE  /\ Len(list) \in Nat \ {0}
           /\ Redis!Last \in Encodings
           /\ Redis!Rest \in Seq(Encodings) /\ Len(Redis!Rest) = Len(list) - 1
           /\ \A i \in 1 .. Len(list) - 1 : Redis!Rest[i] = list[i]
<1>1. Len(list) \in Nat \ {0}
  OBVIOUS
<1>2. Redis!Last \in Encodings
  BY <1>1 DEF Redis!Last
<1>3. /\ Redis!Rest \in Seq(Encodings) /\ Len(Redis!Rest) = Len(list) - 1
      /\ \A i \in 1 .. Len(list) - 1 : Redis!Rest[i] = list[i]
  <2>. DEFINE n == Len(list) - 1
  <2>1. n \in Nat /\ 1 <= n + 1 /\ n <= Len(list) /\ n - 1 + 1 = n
    BY <1>1
  <2>. HIDE DEF n
  <2>2. /\ SubSeq(list, 1, n) \in Seq(Encodings) /\ Len(SubSeq(list, 1, n)) = n
        /\ \A i \in 1 .. n : SubSeq(list, 1, n)[i] = list[1 + i - 1]
    BY <2>1, Cut
  <2>3. \A i \in 1 .. n : 1 + i - 1 = i
    BY <2>1
  <2>. QED
    BY <2>2, <2>3 DEF Redis!Rest, n
<1>. QED
  BY <1>1, <1>2, <1>3

(* The list holds encodings of published messages and nothing else, whatever
   is lost on the way. *)
THEOREM RedisInvariance ==
    BackendSpec => []RedisInv
<1>1. Redis!Init => RedisInv
  BY DEF Redis!Init, RedisInv
<1>2. RedisInv /\ [Redis!Next]_redisVars => RedisInv'
  <2>. SUFFICES ASSUME RedisInv, [Redis!Next]_redisVars PROVE RedisInv'
    OBVIOUS
  <2>1. CASE Redis!Publish
    <3>1. PICK m \in Texts : list' = <<Redis!serialize(m)>> \o list
      BY <2>1 DEF Redis!Publish
    <3>2. <<Redis!serialize(m)>> \in Seq(Encodings)
      BY DEF Encodings
    <3>3. list' \in Seq(Encodings)
      BY <3>1, <3>2, Glue DEF RedisInv
    <3>. QED
      BY <2>1, <3>3 DEF Redis!Publish, RedisInv
  <2>2. CASE Redis!Pop
    BY <2>2, RestOfList, Decodes DEF Redis!Pop, RedisInv
  <2>3. CASE Redis!Lose
    BY <2>3, RestOfList DEF Redis!Lose, RedisInv
  <2>4. CASE Redis!Forward
    BY <2>4 DEF Redis!Forward, RedisInv
  <2>5. CASE UNCHANGED redisVars
    BY <2>5 DEF redisVars, RedisInv
  <2>. QED
    BY <2>1, <2>2, <2>3, <2>4, <2>5 DEF Redis!Next
<1>. QED
  BY <1>1, <1>2, BackendStep, PTL DEF BackendSpec, BackendInit

-----------------------------------------------------------------------------
(* redis: refinement *)

(* The messages in the list are messages. *)
LEMMA DecodedType ==
    ASSUME list \in Seq(Encodings)
    PROVE  /\ Len(list) \in Nat
           /\ Redis!Decoded \in Seq(Texts) /\ Len(Redis!Decoded) = Len(list)
           /\ \A k \in 1 .. Len(list) : Redis!Decoded[k] = Redis!deserialize(list[Len(list) + 1 - k])
<1>1. Len(list) \in Nat /\ \A k \in 1 .. Len(list) : list[Len(list) + 1 - k] \in Encodings
  OBVIOUS
<1>2. Redis!Decoded \in [1 .. Len(list) -> Texts]
  BY <1>1, Decodes DEF Redis!Decoded
<1>. QED
  BY <1>1, <1>2 DEF Redis!Decoded

(* LPUSH adds a message at the end. *)
LEMMA DecodedPush ==
    ASSUME list \in Seq(Encodings), NEW m \in Texts,
           list' = <<Redis!serialize(m)>> \o list
    PROVE  Redis!Decoded' = Append(Redis!Decoded, m)
<1>. DEFINE x == Redis!serialize(m)
            n == Len(list)
            d == Append(Redis!Decoded, m)
            e == Redis!Decoded'
<1>1. x \in Encodings /\ <<x>> \in Seq(Encodings) /\ Len(<<x>>) = 1 /\ <<x>>[1] = x
  BY DEF Encodings
<1>. HIDE DEF x
<1>2. /\ n \in Nat /\ list' \in Seq(Encodings) /\ Len(list') = n + 1 /\ list'[1] = x
      /\ \A i \in 1 .. n : list'[1 + i] = list[i]
  BY <1>1, Glue DEF x
<1>3. /\ Redis!Decoded \in Seq(Texts) /\ Len(Redis!Decoded) = n
      /\ \A k \in 1 .. n : Redis!Decoded[k] = Redis!deserialize(list[n + 1 - k])
  BY DecodedType
<1>4. e = [k \in 1 .. n + 1 |-> Redis!deserialize(list'[n + 1 + 1 - k])]
  BY <1>2 DEF Redis!Decoded
<1>5. d \in Seq(Texts) /\ Len(d) = n + 1 /\ d[n + 1] = m /\ \A k \in 1 .. n : d[k] = Redis!Decoded[k]
  BY <1>2, <1>3
<1>. HIDE DEF d, e, n
<1>6. e[n + 1] = m
  BY <1>2, <1>4, RoundTrip DEF x
<1>7. \A k \in 1 .. n : e[k] = d[k]
  <2>. TAKE k \in 1 .. n
  <2>1. n + 1 - k \in 1 .. n /\ n + 1 + 1 - k = 1 + (n + 1 - k) /\ k \in 1 .. n + 1
    BY <1>2
  <2>. QED
    BY <2>1, <1>2, <1>3, <1>4, <1>5
<1>8. \A k \in 1 .. n + 1 : e[k] = d[k]
  BY <1>2, <1>5, <1>6, <1>7
<1>9. e \in Seq(Texts) /\ Len(e) = n + 1
  <2>1. \A k \in 1 .. n + 1 : d[k] \in Texts
    BY <1>5
  <2>2. e \in [1 .. n + 1 -> Texts]
    BY <1>4, <1>8, <2>1, Zenon
  <2>. QED
    BY <1>2, <2>2
<1>10. e = d
  BY <1>5, <1>8, <1>9, SeqEqual
<1>. QED
  BY <1>10 DEF d, e

(* Taking the last element takes the first message. *)
LEMMA DecodedPop ==
    ASSUME list \in Seq(Encodings), list # <<>>, list' = Redis!Rest
    PROVE  /\ Redis!Decoded \in Seq(Texts) /\ Redis!Decoded # <<>>
           /\ Head(Redis!Decoded) = Redis!deserialize(Redis!Last) /\ Tail(Redis!Decoded) = Redis!Decoded'
<1>. DEFINE n == Len(list)
            d == Tail(Redis!Decoded)
            e == Redis!Decoded'
<1>1. /\ n \in Nat \ {0} /\ Len(Redis!Rest) = n - 1 /\ \A i \in 1 .. n - 1 : Redis!Rest[i] = list[i]
  BY RestOfList
<1>2. /\ Redis!Decoded \in Seq(Texts) /\ Len(Redis!Decoded) = n
      /\ \A k \in 1 .. n : Redis!Decoded[k] = Redis!deserialize(list[n + 1 - k])
  BY DecodedType
<1>3. e = [k \in 1 .. n - 1 |-> Redis!deserialize(Redis!Rest[n - 1 + 1 - k])]
  BY <1>1 DEF Redis!Decoded
<1>4. Redis!Decoded # <<>> /\ Head(Redis!Decoded) = Redis!Decoded[1]
  BY <1>1, <1>2
<1>5. d \in Seq(Texts) /\ Len(d) = n - 1 /\ \A k \in 1 .. n - 1 : d[k] = Redis!Decoded[k + 1]
  BY <1>1, <1>2
<1>6. Redis!Decoded[1] = Redis!deserialize(Redis!Last)
  BY <1>1, <1>2 DEF Redis!Last
<1>. HIDE DEF d, e, n
<1>7. \A k \in 1 .. n - 1 : e[k] = d[k]
  <2>. TAKE k \in 1 .. n - 1
  <2>1. /\ n - 1 + 1 - k \in 1 .. n - 1 /\ n + 1 - (k + 1) = n - 1 + 1 - k
        /\ k + 1 \in 1 .. n
    BY <1>1
  <2>. QED
    BY <2>1, <1>1, <1>2, <1>3, <1>5
<1>8. e \in Seq(Texts) /\ Len(e) = n - 1
  <2>1. \A k \in 1 .. n - 1 : d[k] \in Texts
    BY <1>5
  <2>2. n - 1 \in Nat
    BY <1>1
  <2>3. e \in [1 .. n - 1 -> Texts]
    BY <1>3, <1>7, <2>1
  <2>. QED
    BY <2>2, <2>3
<1>9. e = d
  BY <1>5, <1>7, <1>8, SeqEqual
<1>. QED
  BY <1>2, <1>4, <1>6, <1>9 DEF d, e

Queued == (IF popped = None THEN <<>> ELSE <<popped>>) \o Redis!Decoded

(* The Redis list is a queue that may lose a message but never reorders,
   repeats or changes one, for any messages whose type has no bar. *)
THEOREM RedisListIsQueue == BackendSpec => RedisImplementsQueue
<1>1. Redis!Init => Redis!Abstract!Init
  <2>. SUFFICES ASSUME Redis!Init PROVE Redis!Abstract!Init
    OBVIOUS
  <2>1. Redis!Decoded = <<>>
    BY DEF Redis!Init, Redis!Decoded
  <2>. QED
    BY <2>1 DEF Redis!Init, Redis!Abstract!Init
<1>2. RedisInv /\ [Redis!Next]_redisVars => [Redis!Abstract!Next]_<<Queued, received>>
  <2>. SUFFICES ASSUME RedisInv, [Redis!Next]_redisVars
                PROVE  Redis!Abstract!Next \/ UNCHANGED <<Queued, received>>
    OBVIOUS
  <2>. DEFINE Front == IF popped = None THEN <<>> ELSE <<popped>>
  <2>1. /\ Front \in Seq(Texts) /\ Redis!Decoded \in Seq(Texts)
        /\ (popped = None => Queued = Redis!Decoded)
        /\ (popped # None => popped \in Texts /\ Queued = <<popped>> \o Redis!Decoded)
    BY DecodedType DEF RedisInv, Queued
  <2>2. CASE Redis!Publish
    <3>1. PICK m \in Texts : list' = <<Redis!serialize(m)>> \o list
      BY <2>2 DEF Redis!Publish
    <3>2. Redis!Decoded' = Append(Redis!Decoded, m)
      BY <3>1, DecodedPush DEF RedisInv
    <3>3. popped' = popped /\ received' = received
      BY <2>2 DEF Redis!Publish
    <3>4. Front \o Append(Redis!Decoded, m) = Append(Front \o Redis!Decoded, m)
      BY <2>1, AppendLast
    <3>5. Queued' = Append(Queued, m)
      BY <3>2, <3>3, <3>4, Zenon DEF Queued
    <3>6. Redis!Abstract!Accept
      BY <3>3, <3>5, Zenon DEF Redis!Abstract!Accept, Queued
    <3>. QED
      BY <3>6 DEF Redis!Abstract!Next
  <2>3. CASE Redis!Pop
    <3>1. popped = None /\ list # <<>> /\ list' = Redis!Rest /\ popped' = Redis!deserialize(Redis!Last) /\ received' = received
      BY <2>3 DEF Redis!Pop
    <3>2. /\ Redis!Decoded # <<>>
          /\ Head(Redis!Decoded) = Redis!deserialize(Redis!Last) /\ Tail(Redis!Decoded) = Redis!Decoded'
      BY <3>1, DecodedPop DEF RedisInv
    <3>3. popped' \in Texts /\ popped' # None
      BY <3>1, RestOfList, Decodes, NoMessageIsNone DEF RedisInv
    <3>4. Queued' = <<Head(Redis!Decoded)>> \o Tail(Redis!Decoded)
      BY <3>1, <3>2, <3>3, Zenon DEF Queued
    <3>5. <<Head(Redis!Decoded)>> \o Tail(Redis!Decoded) = Redis!Decoded
      BY <2>1, <3>2, FirstAndRest
    <3>. QED
      BY <2>1, <3>1, <3>4, <3>5, Zenon
  <2>4. CASE Redis!Lose
    <3>1. received' = received
      BY <2>4 DEF Redis!Lose
    <3>2. Queued # <<>> /\ Queued' = Tail(Queued)
      <4>1. CASE popped # None
        <5>1. popped' = None /\ list' = list
          BY <2>4, <4>1 DEF Redis!Lose
        <5>2. Redis!Decoded' = Redis!Decoded
          BY <5>1 DEF Redis!Decoded
        <5>3. Queued' = <<>> \o Redis!Decoded
          BY <5>1, <5>2, Zenon DEF Queued
        <5>4. <<>> \o Redis!Decoded = Redis!Decoded
          BY <2>1
        <5>. QED
          BY <2>1, <4>1, <5>3, <5>4, FirstTaken
      <4>2. CASE popped = None
        <5>1. popped' = None /\ list # <<>> /\ list' = Redis!Rest
          BY <2>4, <4>2 DEF Redis!Lose
        <5>2. Redis!Decoded # <<>> /\ Tail(Redis!Decoded) = Redis!Decoded' /\ Redis!Decoded' \in Seq(Texts)
          <6>1. Redis!Decoded # <<>> /\ Tail(Redis!Decoded) = Redis!Decoded'
            BY <5>1, DecodedPop, Zenon DEF RedisInv
          <6>2. Tail(Redis!Decoded) \in Seq(Texts)
            BY <2>1, <6>1
          <6>. QED
            BY <6>1, <6>2
        <5>3. Queued' = <<>> \o Redis!Decoded'
          BY <5>1, Zenon DEF Queued
        <5>4. Queued' = Redis!Decoded'
          BY <5>2, <5>3
        <5>. QED
          BY <2>1, <4>2, <5>2, <5>4, Zenon
      <4>. QED
        BY <4>1, <4>2
    <3>3. Redis!Abstract!Lose
      BY <3>1, <3>2, Zenon DEF Redis!Abstract!Lose, Queued
    <3>. QED
      BY <3>3 DEF Redis!Abstract!Next
  <2>5. CASE Redis!Forward
    <3>1. /\ popped # None /\ popped \in Texts /\ popped' = None
          /\ received' = Append(received, popped) /\ list' = list
      BY <2>1, <2>5 DEF Redis!Forward
    <3>2. Redis!Decoded' = Redis!Decoded
      BY <3>1 DEF Redis!Decoded
    <3>3. Queued' = <<>> \o Redis!Decoded
      BY <3>1, <3>2, Zenon DEF Queued
    <3>4. <<>> \o Redis!Decoded = Redis!Decoded
      BY <2>1
    <3>5. Queued # <<>> /\ Head(Queued) = popped /\ Tail(Queued) = Queued'
      BY <2>1, <3>1, <3>3, <3>4, FirstTaken
    <3>6. Redis!Abstract!Deliver
      BY <3>1, <3>5, Zenon DEF Redis!Abstract!Deliver, Queued
    <3>. QED
      BY <3>6 DEF Redis!Abstract!Next
  <2>6. CASE UNCHANGED redisVars
    BY <2>6 DEF redisVars, Queued, Redis!Decoded
  <2>. QED
    BY <2>2, <2>3, <2>4, <2>5, <2>6 DEF Redis!Next
<1>. QED
  BY <1>1, <1>2, BackendStep, RedisInvariance, PTL
     DEF BackendSpec, BackendInit, RedisImplementsQueue, Redis!ImplementsQueue,
         Redis!Abstract!Spec, Queued
=============================================================================
