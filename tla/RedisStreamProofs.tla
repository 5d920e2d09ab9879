-------------------------- MODULE RedisStreamProofs --------------------------
(***************************************************************************)
(* What the commands on a stream return and preserve.                      *)
(***************************************************************************)
EXTENDS RedisStream, SequenceTheorems, TLAPS

\* The parts of a stream.
LEMMA StreamParts ==
  ASSUME NEW Message, NEW s \in Stream(Message)
  PROVE  /\ s = [log |-> s.log, cursor |-> s.cursor, pending |-> s.pending]
         /\ s.log \in Seq(Message)
         /\ Len(s.log) \in Nat
         /\ s.cursor \in Nat
         /\ s.pending \in SUBSET Nat
         /\ s.cursor <= Len(s.log)
         /\ s.pending \subseteq 1 .. s.cursor
  BY DEF Stream

\* Adding a message keeps a stream a stream: it only extends the log.
LEMMA XADDStream ==
  ASSUME NEW Message, NEW s \in Stream(Message), NEW m \in Message
  PROVE  /\ XADD(s, m) \in Stream(Message)
         /\ XADD(s, m).log = Append(s.log, m)
         /\ XADD(s, m).cursor = s.cursor
         /\ XADD(s, m).pending = s.pending
<1> DEFINE new == [log |-> Append(s.log, m), cursor |-> s.cursor, pending |-> s.pending]
<1>1. XADD(s, m) = new
  BY DEF XADD
<1>2. Append(s.log, m) \in Seq(Message) /\ Len(Append(s.log, m)) = Len(s.log) + 1
  BY StreamParts, AppendProperties
<1>3. new \in Stream(Message)
  <2>1. new \in [log : Seq(Message), cursor : Nat, pending : SUBSET Nat]
    BY <1>2, StreamParts
  <2>2. new.cursor <= Len(new.log) /\ new.pending \subseteq 1 .. new.cursor
    BY <1>2, StreamParts
  <2> QED BY <2>1, <2>2 DEF Stream
<1> QED BY <1>1, <1>3

\* Reading hands out exactly the entry after the cursor.
LEMMA XREADGROUPStream ==
  ASSUME NEW Message, NEW s \in Stream(Message), HasUnread(s)
  PROVE  /\ XREADGROUP(s) \in Stream(Message)
         /\ XREADGROUP(s).log = s.log
         /\ XREADGROUP(s).cursor = NextId(s)
         /\ XREADGROUP(s).pending = s.pending \cup {NextId(s)}
         /\ NextId(s) \in 1 .. Len(s.log)
         /\ s.log[NextId(s)] \in Message
         /\ NextId(s) \notin s.pending
         /\ NextId(s) # 0
<1> DEFINE new == [log |-> s.log, cursor |-> s.cursor + 1,
                   pending |-> s.pending \cup {s.cursor + 1}]
<1>1. XREADGROUP(s) = new
  BY DEF XREADGROUP
<1>2. s.cursor + 1 <= Len(s.log) /\ s.cursor + 1 \in Nat \ {0}
  BY StreamParts DEF HasUnread
<1>3. new \in Stream(Message)
  <2>1. new \in [log : Seq(Message), cursor : Nat, pending : SUBSET Nat]
    BY <1>2, StreamParts
  <2>2. new.cursor <= Len(new.log) /\ new.pending \subseteq 1 .. new.cursor
    BY <1>2, StreamParts
  <2> QED BY <2>1, <2>2 DEF Stream
<1>4. s.log[s.cursor + 1] \in Message /\ s.cursor + 1 \notin s.pending
  BY <1>2, StreamParts, ElementOfSeq
<1> QED BY <1>1, <1>2, <1>3, <1>4, StreamParts DEF NextId

\* Acknowledging only takes the entry out of the pending list.
LEMMA XACKStream ==
  ASSUME NEW Message, NEW s \in Stream(Message), NEW id
  PROVE  /\ XACK(s, id) \in Stream(Message)
         /\ XACK(s, id).log = s.log
         /\ XACK(s, id).cursor = s.cursor
         /\ XACK(s, id).pending = s.pending \ {id}
  BY DEF Stream, XACK

\* A pending entry is a delivered entry.
LEMMA PendingEntry ==
  ASSUME NEW Message, NEW s \in Stream(Message), NEW id \in s.pending
  PROVE  /\ id \in 1 .. Len(s.log)
         /\ id <= s.cursor
         /\ id \in Nat \ {0}
         /\ s.log[id] \in Message
  BY DEF Stream

\* A message of a stream is one of its messages, wherever it is.
LEMMA MessageType ==
  ASSUME NEW Message, NEW s \in Stream(Message), NEW i \in 1 .. Len(s.log)
  PROVE  s.log[i] \in Message
BY StreamParts, ElementOfSeq

\* An acknowledged message was once added.
LEMMA AckedWasAdded ==
  ASSUME NEW Message, NEW s \in Stream(Message), NEW m, Acked(s, m)
  PROVE  Added(s, m)
<1>1. s.cursor \in Nat /\ s.cursor <= Len(s.log) /\ Len(s.log) \in Nat
  BY StreamParts
<1> QED BY <1>1 DEF Acked, Added

-----------------------------------------------------------------------------
(* What the group has still to read, as a queue.                           *)

\* XADD puts the message at the end of the queue.
LEMMA QueueAfterAdding ==
  ASSUME NEW Message, NEW s \in Stream(Message), NEW m \in Message,
         NEW new, new = XADD(s, m)
  PROVE  SubSeq(new.log, new.cursor + 1, Len(new.log))
           = Append(SubSeq(s.log, s.cursor + 1, Len(s.log)), m)
<1>1. /\ s.log \in Seq(Message) /\ Len(s.log) \in Nat /\ s.cursor \in Nat
      /\ s.cursor <= Len(s.log)
  BY StreamParts
<1>2. new.log = Append(s.log, m) /\ new.cursor = s.cursor
  BY XADDStream
<1>3. /\ new.log \in Seq(Message) /\ Len(new.log) = Len(s.log) + 1
      /\ \A i \in 1 .. Len(s.log) : new.log[i] = s.log[i]
      /\ new.log[Len(s.log) + 1] = m
  BY <1>1, <1>2, AppendProperties
<1> DEFINE n == Len(s.log) - s.cursor
           a == SubSeq(new.log, new.cursor + 1, Len(new.log))
           b == SubSeq(s.log, s.cursor + 1, Len(s.log))
<1>4. n \in Nat
  BY <1>1
<1>5. /\ a \in Seq(Message) /\ Len(a) = n + 1
      /\ \A i \in 1 .. n + 1 : a[i] = new.log[s.cursor + i]
  <2>1. \A i \in s.cursor + 1 .. Len(s.log) + 1 : new.log[i] \in Message
    BY <1>1, <1>3, ElementOfSeq
  <2>2. /\ a \in Seq(Message) /\ Len(a) = Len(new.log) - (new.cursor + 1) + 1
        /\ \A i \in 1 .. Len(new.log) - (new.cursor + 1) + 1 :
             a[i] = new.log[(new.cursor + 1) + i - 1]
    <3>1. /\ new.cursor + 1 \in Int /\ Len(new.log) \in Int
          /\ new.cursor + 1 <= Len(new.log)
          /\ \A i \in new.cursor + 1 .. Len(new.log) : new.log[i] \in Message
      BY <1>1, <1>2, <1>3, <2>1
    <3> QED BY <3>1, SubSeqProperties
  <2> HIDE DEF a
  <2>3. Len(new.log) - (new.cursor + 1) + 1 = n + 1
    BY <1>1, <1>2, <1>3
  <2>4. \A i \in 1 .. n + 1 : (new.cursor + 1) + i - 1 = s.cursor + i
    BY <1>1, <1>2
  <2> QED BY <2>2, <2>3, <2>4
<1>6. /\ b \in Seq(Message) /\ Len(b) = n
      /\ \A i \in 1 .. n : b[i] = s.log[s.cursor + i]
  <2>1. \A i \in s.cursor + 1 .. Len(s.log) : s.log[i] \in Message
    BY <1>1, ElementOfSeq
  <2> QED BY <1>1, <2>1, SubSeqProperties, SMTT(30)
<1>7. /\ Append(b, m) \in Seq(Message) /\ Len(Append(b, m)) = n + 1
      /\ \A i \in 1 .. n : Append(b, m)[i] = b[i]
      /\ Append(b, m)[n + 1] = m
  BY <1>6, AppendProperties
<1> HIDE DEF a, b, n
<1>8. ASSUME NEW i \in 1 .. n + 1 PROVE a[i] = Append(b, m)[i]
  <2>1. CASE i = n + 1
    <3>1. s.cursor + i = Len(s.log) + 1
      BY <1>1, <2>1 DEF n
    <3>2. a[i] = m
      BY <1>3, <1>5, <3>1
    <3> QED BY <1>7, <2>1, <3>2
  <2>2. CASE i \in 1 .. n
    <3>1. s.cursor + i \in 1 .. Len(s.log)
      BY <1>1, <2>2 DEF n
    <3>2. a[i] = s.log[s.cursor + i]
      BY <1>3, <1>5, <3>1
    <3> QED BY <1>6, <1>7, <2>2, <3>2
  <2>3. i = n + 1 \/ i \in 1 .. n
    BY <1>4
  <2> QED BY <2>1, <2>2, <2>3
<1>9. a = Append(b, m)
  BY <1>5, <1>7, <1>8, SeqEqual
<1> QED BY <1>9 DEF a, b

\* XREADGROUP takes the first message from it.
LEMMA QueueAfterReading ==
  ASSUME NEW Message, NEW s \in Stream(Message), HasUnread(s), NEW new, new = XREADGROUP(s)
  PROVE  /\ SubSeq(s.log, s.cursor + 1, Len(s.log)) # << >>
         /\ Head(SubSeq(s.log, s.cursor + 1, Len(s.log))) = s.log[NextId(s)]
         /\ SubSeq(new.log, new.cursor + 1, Len(new.log))
              = Tail(SubSeq(s.log, s.cursor + 1, Len(s.log)))
<1>1. /\ s.log \in Seq(Message) /\ Len(s.log) \in Nat /\ s.cursor \in Nat
      /\ s.cursor + 1 \in 1 .. Len(s.log) /\ NextId(s) = s.cursor + 1
  BY StreamParts DEF HasUnread, NextId
<1>2. new.log = s.log /\ new.cursor = s.cursor + 1
  BY <1>1, XREADGROUPStream
<1>3. /\ Head(SubSeq(s.log, s.cursor + 1, Len(s.log))) = s.log[s.cursor + 1]
      /\ Tail(SubSeq(s.log, s.cursor + 1, Len(s.log)))
           = SubSeq(s.log, s.cursor + 1 + 1, Len(s.log))
  <2>1. Len(s.log) \in s.cursor + 1 .. Len(s.log)
    BY <1>1
  <2> QED BY <1>1, <2>1, HeadTailOfSubSeq
<1>4. SubSeq(s.log, s.cursor + 1, Len(s.log)) # << >>
  <2>1. \A i \in s.cursor + 1 .. Len(s.log) : s.log[i] \in Message
    BY <1>1, ElementOfSeq
  <2>2. Len(SubSeq(s.log, s.cursor + 1, Len(s.log))) = Len(s.log) - (s.cursor + 1) + 1
    <3>1. s.cursor + 1 \in Int /\ Len(s.log) \in Int /\ s.cursor + 1 <= Len(s.log)
      BY <1>1
    <3> QED BY <2>1, <3>1, SubSeqProperties
  <2>3. Len(SubSeq(s.log, s.cursor + 1, Len(s.log))) # 0
    BY <1>1, <2>2
  <2> QED BY <2>3, EmptySeq
<1> QED BY <1>1, <1>2, <1>3, <1>4
=============================================================================
