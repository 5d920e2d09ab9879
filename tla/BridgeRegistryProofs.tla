------------------------ MODULE BridgeRegistryProofs ------------------------
(***************************************************************************)
(* Proofs about BridgeRegistry, for any finite sets of tools and topics,   *)
(* any set of URLs and requests, and any number of handlers, registrations *)
(* and failures.                                                           *)
(***************************************************************************)
EXTENDS BridgeRegistry, FiniteSetTheorems, SequenceTheorems, TLAPS

-----------------------------------------------------------------------------
(* The invariant: what a handler that is alone has brought about.          *)

\* The commands left in a pipeline, and that of two kinds of them one comes first.
Commands(p) == { p[i] : i \in 1 .. Len(p) }
InOrder(p, first, second) ==
  \A i, j \in 1 .. Len(p) : p[i].op = first /\ p[j].op = second => i < j

\* The store holds the URL and the tools of request r, or its topics.
ToolsKept(r) == callback = r.url /\ \A t \in r.tools : tools[t] = r.url
TopicsKept(r) == r.subs # None => r.subs \subseteq subs

\* What the store does not hold yet of r's URL and tools is still to come in p, and
\* nothing in p undoes it.
Registering(p, r) ==
  /\ \A c \in Commands(p) :
       /\ c.op \in {"hset_callback", "hdel_tool", "del_index", "hset_tool", "sadd_index"}
       /\ c.op \in {"hset_callback", "hset_tool"} => c.url = r.url
  /\ callback = r.url \/ \E c \in Commands(p) : c.op = "hset_callback"
  /\ \A t \in r.tools :
       \/ \E c \in Commands(p) : c.op = "hset_tool" /\ c.tool = t
       \/ tools[t] = r.url /\ \A c \in Commands(p) : c.op = "hdel_tool" => c.tool # t
  /\ InOrder(p, "hdel_tool", "hset_tool")

\* The same of its topics.
Subscribing(p, r) ==
  /\ \A c \in Commands(p) : c.op \in {"srem_sub", "del_subindex", "sadd_sub", "sadd_subindex"}
  /\ \A t \in r.subs :
       \/ \E c \in Commands(p) : c.op = "sadd_sub" /\ c.topic = t
       \/ t \in subs /\ \A c \in Commands(p) : c.op = "srem_sub" => c.topic # t
  /\ InOrder(p, "srem_sub", "sadd_sub")

Stored == {"callbacks", "memtools", "memsubs", "token"}

\* RegistryTypeOK is not inductive without it: topics are stored when some are given.
SubsGiven ==
  \A h \in Handler : hpc[h] \in {"subindex", "subs", "memsubs"} => request[h].subs # None

\* How far a handler that is alone has got.
Progress(h, r, p) ==
  /\ hpc[h] # "left"
  /\ hpc[h] = "tools" => Registering(p, r)
  /\ hpc[h] \in {"subindex", "subs"} \cup Stored => ToolsKept(r)
  /\ hpc[h] = "subs" => Subscribing(p, r)
  /\ hpc[h] \in Stored => TopicsKept(r)
  /\ hpc[h] \in {"memtools", "memsubs", "token"} => mcallback = r.url
  /\ hpc[h] \in {"memsubs", "token"} =>
       \A t \in Tool : mtools[t] = IF t \in r.tools THEN r.url ELSE None
  /\ hpc[h] = "token" /\ r.subs # None => msubs = r.subs

AloneInv ==
  alone # None =>
    /\ ~settled /\ hpc[alone] # "idle"
    /\ \A h \in Handler \ {alone} : hpc[h] = "idle"
    /\ Progress(alone, request[alone], pipe[alone])

SettledInv ==
  settled =>
    /\ acked # None /\ \A h \in Handler : hpc[h] = "idle"
    /\ ToolsKept(acked) /\ TopicsKept(acked)
    /\ ~restarted => up

RegistryInv ==
  /\ RegistryTypeOK /\ SubsGiven
  /\ ~up => \A h \in Handler : hpc[h] = "idle"
  /\ AloneInv /\ SettledInv /\ RegistrationIsServed

-----------------------------------------------------------------------------
(* The pipelines.                                                          *)

\* SetToSeq enumerates a finite set.
LEMMA SetToSeqEnumerates ==
  ASSUME NEW S, IsFiniteSet(S)
  PROVE  /\ SetToSeq(S) \in Seq(S)
         /\ \A x \in S : \E i \in 1 .. Len(SetToSeq(S)) : SetToSeq(S)[i] = x
<1> DEFINE n == Cardinality(S)
<1>1. n \in Nat /\ ExistsBijection(1 .. n, S)
  BY FS_CardinalityType
<1>2. PICK b \in [1 .. n -> S] : IsInjective(b)
  BY <1>1 DEF ExistsBijection, Bijection, Injection
<1>3. SetToSeq(S) \in [1 .. n -> S] /\ IsInjective(SetToSeq(S))
  BY <1>2 DEF SetToSeq
<1>4. SetToSeq(S) \in Injection(1 .. n, S)
  BY <1>3 DEF Injection
<1>5. Cardinality(1 .. n) = n
  BY <1>1, FS_Interval
<1>6. SetToSeq(S) \in Surjection(1 .. n, S)
  <2>1. Cardinality(1 .. n) = Cardinality(S)
    BY <1>5
  <2> QED BY <1>4, <2>1, FS_Injection, Zenon
<1>7. SetToSeq(S) \in Seq(S) /\ Len(SetToSeq(S)) = n
  BY <1>1, <1>3
<1>8. QED
  BY <1>6, <1>7 DEF Surjection

\* ForEach makes one command of each element, and no other.
LEMMA ForEachCommands ==
  ASSUME NEW C, NEW S, IsFiniteSet(S), NEW f, \A x \in S : f[x] \in C
  PROVE  /\ ForEach(S, f) \in Seq(C)
         /\ \A c : c \in Commands(ForEach(S, f)) <=> \E x \in S : c = f[x]
<1> DEFINE s == SetToSeq(S)
           p == ForEach(S, f)
<1>1. /\ s \in Seq(S) /\ Len(s) \in Nat
      /\ \A i \in 1 .. Len(s) : s[i] \in S
      /\ \A x \in S : \E i \in 1 .. Len(s) : s[i] = x
  BY SetToSeqEnumerates
<1>2. p = [i \in 1 .. Len(s) |-> f[s[i]]]
  BY DEF ForEach
<1>3. p \in Seq(C) /\ Len(p) = Len(s)
  BY <1>1, <1>2
<1>4. QED
  BY <1>1, <1>2, <1>3 DEF Commands

\* ForEachPair makes the two commands of each element, and no other.
LEMMA ForEachPairCommands ==
  ASSUME NEW C, NEW S, IsFiniteSet(S), NEW f, NEW g, \A x \in S : f[x] \in C /\ g[x] \in C
  PROVE  /\ ForEachPair(S, f, g) \in Seq(C)
         /\ \A c : c \in Commands(ForEachPair(S, f, g)) <=> \E x \in S : c \in {f[x], g[x]}
<1> DEFINE s == SetToSeq(S)
           p == ForEachPair(S, f, g)
<1>1. /\ s \in Seq(S) /\ Len(s) \in Nat
      /\ \A i \in 1 .. Len(s) : s[i] \in S
      /\ \A x \in S : \E i \in 1 .. Len(s) : s[i] = x
  BY SetToSeqEnumerates
<1>2. p = [i \in 1 .. 2 * Len(s) |-> IF i % 2 = 1 THEN f[s[(i + 1) \div 2]] ELSE g[s[i \div 2]]]
  BY DEF ForEachPair
<1>3. \A i \in 1 .. 2 * Len(s) :
         IF i % 2 = 1 THEN (i + 1) \div 2 \in 1 .. Len(s) ELSE i \div 2 \in 1 .. Len(s)
  BY <1>1
<1>4. \A i \in 1 .. 2 * Len(s) :
         \/ i % 2 = 1 /\ p[i] = f[s[(i + 1) \div 2]] /\ s[(i + 1) \div 2] \in S
         \/ p[i] = g[s[i \div 2]] /\ s[i \div 2] \in S
  BY <1>1, <1>2, <1>3
<1>5. p \in Seq(C) /\ Len(p) = 2 * Len(s)
  <2>1. p \in [1 .. 2 * Len(s) -> C]
    BY <1>2, <1>4
  <2>2. 2 * Len(s) \in Nat
    BY <1>1
  <2> QED BY <2>1, <2>2
<1>6. \A j \in 1 .. Len(s) : /\ 2 * j - 1 \in 1 .. 2 * Len(s) /\ p[2 * j - 1] = f[s[j]]
                              /\ 2 * j \in 1 .. 2 * Len(s) /\ p[2 * j] = g[s[j]]
  <2> TAKE j \in 1 .. Len(s)
  <2>1. /\ 2 * j - 1 \in 1 .. 2 * Len(s) /\ (2 * j - 1) % 2 = 1 /\ (2 * j - 1 + 1) \div 2 = j
        /\ 2 * j \in 1 .. 2 * Len(s) /\ (2 * j) % 2 # 1 /\ (2 * j) \div 2 = j
    BY <1>1
  <2> QED BY <1>2, <2>1
<1>7. \A c \in Commands(p) : \E x \in S : c \in {f[x], g[x]}
  BY <1>4, <1>5 DEF Commands
<1>8. ASSUME NEW x \in S PROVE f[x] \in Commands(p) /\ g[x] \in Commands(p)
  <2>1. PICK j \in 1 .. Len(s) : s[j] = x
    BY <1>1
  <2> QED BY <2>1, <1>5, <1>6 DEF Commands
<1>9. QED
  BY <1>5, <1>7, <1>8

LEMMA ConcatCommands ==
  ASSUME NEW C, NEW p \in Seq(C), NEW q \in Seq(C)
  PROVE  /\ p \o q \in Seq(C)
         /\ Commands(p \o q) = Commands(p) \cup Commands(q)
<1>1. /\ p \o q \in Seq(C) /\ Len(p) \in Nat /\ Len(q) \in Nat
      /\ Len(p \o q) = Len(p) + Len(q)
      /\ \A i \in 1 .. Len(p) + Len(q) :
           (p \o q)[i] = IF i <= Len(p) THEN p[i] ELSE q[i - Len(p)]
  BY ConcatProperties, LenProperties
<1>2. Commands(p \o q) \subseteq Commands(p) \cup Commands(q)
  BY <1>1 DEF Commands
<1>3. ASSUME NEW i \in 1 .. Len(p) PROVE p[i] \in Commands(p \o q)
  BY <1>1, <1>3 DEF Commands
<1>4. ASSUME NEW i \in 1 .. Len(q) PROVE q[i] \in Commands(p \o q)
  <2>1. /\ i + Len(p) \in 1 .. Len(p) + Len(q) /\ ~(i + Len(p) <= Len(p))
        /\ i + Len(p) - Len(p) = i
    BY <1>1
  <2> QED BY <2>1, <1>1 DEF Commands
<1>5. QED
  BY <1>1, <1>2, <1>3, <1>4 DEF Commands

\* What comes before in a concatenation comes before.
LEMMA ConcatInOrder ==
  ASSUME NEW C, NEW p \in Seq(C), NEW q \in Seq(C), NEW first, NEW second,
         \A c \in Commands(p) : c.op # second, \A c \in Commands(q) : c.op # first
  PROVE  InOrder(p \o q, first, second)
<1>1. /\ Len(p) \in Nat /\ Len(q) \in Nat
      /\ Len(p \o q) = Len(p) + Len(q)
      /\ \A i \in 1 .. Len(p) + Len(q) :
           (p \o q)[i] = IF i <= Len(p) THEN p[i] ELSE q[i - Len(p)]
  BY ConcatProperties, LenProperties
<1> SUFFICES ASSUME NEW i \in 1 .. Len(p) + Len(q), NEW j \in 1 .. Len(p) + Len(q),
                    (p \o q)[i].op = first, (p \o q)[j].op = second
             PROVE  i < j
  BY <1>1 DEF InOrder
<1>2. i <= Len(p)
  <2> SUFFICES ASSUME ~(i <= Len(p)) PROVE FALSE
    OBVIOUS
  <2>1. i - Len(p) \in 1 .. Len(q) /\ q[i - Len(p)].op = first
    BY <1>1
  <2> QED BY <2>1 DEF Commands
<1>3. ~(j <= Len(p))
  <2> SUFFICES ASSUME j <= Len(p) PROVE FALSE
    OBVIOUS
  <2>1. j \in 1 .. Len(p) /\ p[j].op = second
    BY <1>1
  <2> QED BY <2>1 DEF Commands
<1>4. QED
  BY <1>1, <1>2, <1>3

\* The commands left after the first.
LEMMA TailCommands ==
  ASSUME NEW C, NEW p \in Seq(C), p # << >>
  PROVE  /\ Tail(p) \in Seq(C) /\ Head(p) \in C
         /\ Commands(p) = { Head(p) } \cup Commands(Tail(p))
         /\ \A first, second : InOrder(p, first, second) =>
              /\ InOrder(Tail(p), first, second)
              /\ Head(p).op = second => \A c \in Commands(Tail(p)) : c.op # first
<1>1. /\ Tail(p) \in Seq(C) /\ Head(p) \in C /\ Head(p) = p[1]
      /\ Len(p) \in Nat \ {0} /\ Len(Tail(p)) = Len(p) - 1
      /\ \A i \in 1 .. Len(Tail(p)) : Tail(p)[i] = p[i + 1]
  BY HeadTailProperties, EmptySeq
<1>2. Commands(p) = { Head(p) } \cup Commands(Tail(p))
  <2>1. ASSUME NEW i \in 1 .. Len(p) PROVE p[i] \in { Head(p) } \cup Commands(Tail(p))
    <3>1. CASE i = 1
      BY <3>1, <1>1
    <3>2. CASE i # 1
      <4>1. i - 1 \in 1 .. Len(Tail(p)) /\ Tail(p)[i - 1] = p[i]
        BY <3>2, <1>1
      <4> QED BY <4>1 DEF Commands
    <3> QED BY <3>1, <3>2
  <2>2. 1 \in 1 .. Len(p) /\ \A i \in 1 .. Len(Tail(p)) : i + 1 \in 1 .. Len(p)
    BY <1>1
  <2> QED BY <2>1, <2>2, <1>1 DEF Commands
<1>3. ASSUME NEW first, NEW second, InOrder(p, first, second)
      PROVE  /\ InOrder(Tail(p), first, second)
             /\ Head(p).op = second => \A c \in Commands(Tail(p)) : c.op # first
  <2>1. \A i \in 1 .. Len(Tail(p)) : i + 1 \in 1 .. Len(p) /\ Tail(p)[i] = p[i + 1]
    BY <1>1
  <2>2. InOrder(Tail(p), first, second)
    BY <1>3, <2>1, <1>1 DEF InOrder
  <2>3. ASSUME Head(p).op = second, NEW i \in 1 .. Len(Tail(p)) PROVE Tail(p)[i].op # first
    <3>1. 1 \in 1 .. Len(p) /\ ~(i + 1 < 1)
      BY <1>1
    <3> QED BY <3>1, <2>1, <2>3, <1>1, <1>3 DEF InOrder
  <2> QED BY <2>2, <2>3 DEF Commands
<1>4. QED
  BY <1>1, <1>2, <1>3

\* A command is known by its kind and what it names.
LEMMA CommandParts ==
  ASSUME NEW c \in Command
  PROVE  /\ c.op \in {"hset_callback", "hset_tool"} => c.url \in Url
         /\ c.op \in {"hset_tool", "hdel_tool", "sadd_index"} => c.tool \in Tool
         /\ c.op \in {"srem_sub", "sadd_sub", "sadd_subindex"} => c.topic \in Topic
BY DEF Command

LEMMA RequestParts ==
  ASSUME NEW r \in Request
  PROVE  /\ r # None
         /\ r.tools \subseteq Tool /\ IsFiniteSet(r.tools)
         /\ r.url \in Url /\ r.url # None
         /\ r.subs # None => r.subs \subseteq Topic /\ IsFiniteSet(r.subs)
BY RequestAssumption, FS_Subset

LEMMA OneCommand ==
  ASSUME NEW C, NEW c \in C
  PROVE  << c >> \in Seq(C) /\ Commands(<< c >>) = { c }
BY DEF Commands

\* What the parts of a pipeline bring about together.
LEMMA RegisterCommands ==
  ASSUME NEW r, NEW p1 \in Seq(Command), NEW p2 \in Seq(Command), NEW p3 \in Seq(Command),
         NEW p4 \in Seq(Command),
         \A c \in Commands(p1) : c.op = "hset_callback" /\ c.url = r.url,
         Commands(p1) # {},
         \A c \in Commands(p2) : c.op = "hdel_tool",
         \A c \in Commands(p3) : c.op = "del_index",
         \A c \in Commands(p4) : c.op = "sadd_index" \/ (c.op = "hset_tool" /\ c.url = r.url),
         \A t \in r.tools : \E c \in Commands(p4) : c.op = "hset_tool" /\ c.tool = t
  PROVE  p1 \o p2 \o p3 \o p4 \in Seq(Command) /\ Registering(p1 \o p2 \o p3 \o p4, r)
<1>1. /\ p1 \o p2 \in Seq(Command)
      /\ Commands(p1 \o p2) = Commands(p1) \cup Commands(p2)
  BY ConcatCommands
<1>2. PICK p12 \in Seq(Command) : p12 = p1 \o p2
  BY <1>1
<1>3. PICK first \in Seq(Command) :
        /\ first = p12 \o p3
        /\ Commands(first) = Commands(p1) \cup Commands(p2) \cup Commands(p3)
  <2>1. p12 \o p3 \in Seq(Command) /\ Commands(p12 \o p3) = Commands(p12) \cup Commands(p3)
    BY ConcatCommands
  <2> QED BY <2>1, <1>1, <1>2
<1>4. /\ first \o p4 \in Seq(Command)
      /\ Commands(first \o p4) = Commands(first) \cup Commands(p4)
  BY ConcatCommands
<1>5. InOrder(first \o p4, "hdel_tool", "hset_tool")
  <2>1. /\ \A c \in Commands(first) : c.op # "hset_tool"
        /\ \A c \in Commands(p4) : c.op # "hdel_tool"
    BY <1>2, <1>3
  <2> QED BY <2>1, ConcatInOrder
<1>6. QED
  BY <1>2, <1>3, <1>4, <1>5 DEF Registering

LEMMA SubscribeCommands ==
  ASSUME NEW r, NEW p1 \in Seq(Command), NEW p2 \in Seq(Command), NEW p3 \in Seq(Command),
         \A c \in Commands(p1) : c.op = "srem_sub",
         \A c \in Commands(p2) : c.op = "del_subindex",
         \A c \in Commands(p3) : c.op \in {"sadd_sub", "sadd_subindex"},
         \A t \in r.subs : \E c \in Commands(p3) : c.op = "sadd_sub" /\ c.topic = t
  PROVE  p1 \o p2 \o p3 \in Seq(Command) /\ Subscribing(p1 \o p2 \o p3, r)
<1>1. /\ p1 \o p2 \in Seq(Command)
      /\ Commands(p1 \o p2) = Commands(p1) \cup Commands(p2)
  BY ConcatCommands
<1>2. PICK first \in Seq(Command) : first = p1 \o p2
  BY <1>1
<1>3. /\ first \o p3 \in Seq(Command)
      /\ Commands(first \o p3) = Commands(first) \cup Commands(p3)
  BY ConcatCommands
<1>4. InOrder(first \o p3, "srem_sub", "sadd_sub")
  <2>1. /\ \A c \in Commands(first) : c.op # "sadd_sub"
        /\ \A c \in Commands(p3) : c.op # "srem_sub"
    BY <1>1, <1>2
  <2> QED BY <2>1, ConcatInOrder
<1>5. QED
  BY <1>1, <1>2, <1>3, <1>4 DEF Subscribing

\* The pipeline of store.register brings about what it is for.
LEMMA RegisterPipeRegisters ==
  ASSUME NEW r \in Request, NEW old \in SUBSET Tool
  PROVE  RegisterPipe(r, old) \in Seq(Command) /\ Registering(RegisterPipe(r, old), r)
<1>1. PICK cb : cb = [op |-> "hset_callback", url |-> r.url]
  OBVIOUS
<1>2. PICK del : del = [op |-> "del_index"]
  OBVIOUS
<1>3. PICK fdel : fdel = [t \in Tool |-> [op |-> "hdel_tool", tool |-> t]]
  BY Zenon
<1>4. PICK fset : fset = [t \in Tool |-> [op |-> "hset_tool", tool |-> t, url |-> r.url]]
  BY Zenon
<1>5. PICK fadd : fadd = [t \in Tool |-> [op |-> "sadd_index", tool |-> t]]
  BY Zenon
<1>6. /\ cb \in Command /\ cb.op = "hset_callback" /\ cb.url = r.url
      /\ del \in Command /\ del.op = "del_index"
  BY <1>1, <1>2, RequestParts DEF Command
<1>7. ASSUME NEW t \in Tool
      PROVE  /\ fdel[t] \in Command /\ fdel[t].op = "hdel_tool" /\ fdel[t].tool = t
             /\ fset[t] \in Command /\ fset[t].op = "hset_tool" /\ fset[t].tool = t
             /\ fset[t].url = r.url
             /\ fadd[t] \in Command /\ fadd[t].op = "sadd_index" /\ fadd[t].tool = t
  <2>1. /\ fdel[t] = [op |-> "hdel_tool", tool |-> t]
        /\ fset[t] = [op |-> "hset_tool", tool |-> t, url |-> r.url]
        /\ fadd[t] = [op |-> "sadd_index", tool |-> t]
    BY <1>3, <1>4, <1>5, Zenon
  <2> QED BY <2>1, RequestParts DEF Command
<1>8. IsFiniteSet(old) /\ IsFiniteSet(r.tools) /\ r.tools \subseteq Tool
  BY RequestAssumption, RequestParts, FS_Subset
<1>9. PICK p1 \in Seq(Command) : p1 = << cb >> /\ Commands(p1) = { cb }
  BY <1>6, OneCommand
<1>10. PICK p2 \in Seq(Command) :
         p2 = ForEach(old, fdel) /\ \A c \in Commands(p2) : \E t \in old : c = fdel[t]
  <2>1. \A t \in old : fdel[t] \in Command
    BY <1>7
  <2> QED BY <2>1, <1>8, ForEachCommands
<1>11. PICK p3 \in Seq(Command) : p3 = << del >> /\ Commands(p3) = { del }
  BY <1>6, OneCommand
<1>12. PICK p4 \in Seq(Command) :
         /\ p4 = ForEachPair(r.tools, fset, fadd)
         /\ \A c : c \in Commands(p4) <=> \E t \in r.tools : c \in {fset[t], fadd[t]}
  <2>1. \A t \in r.tools : fset[t] \in Command /\ fadd[t] \in Command
    BY <1>7, <1>8
  <2> QED BY <2>1, <1>8, ForEachPairCommands
<1>13. RegisterPipe(r, old) = p1 \o p2 \o p3 \o p4
  BY <1>1, <1>2, <1>3, <1>4, <1>5, <1>9, <1>10, <1>11, <1>12, Zenon DEF RegisterPipe
<1>14. /\ \A c \in Commands(p1) : c.op = "hset_callback" /\ c.url = r.url
       /\ Commands(p1) # {}
       /\ \A c \in Commands(p3) : c.op = "del_index"
  BY <1>6, <1>9, <1>11
<1>15. \A c \in Commands(p2) : c.op = "hdel_tool"
  BY <1>7, <1>10
<1>16. \A c \in Commands(p4) : c.op = "sadd_index" \/ (c.op = "hset_tool" /\ c.url = r.url)
  BY <1>7, <1>8, <1>12
<1>17. \A t \in r.tools : \E c \in Commands(p4) : c.op = "hset_tool" /\ c.tool = t
  BY <1>7, <1>8, <1>12
<1>18. QED
  <2>1. /\ p1 \o p2 \o p3 \o p4 \in Seq(Command)
        /\ Registering(p1 \o p2 \o p3 \o p4, r)
    BY <1>14, <1>15, <1>16, <1>17, RegisterCommands, Zenon
  <2> QED BY <2>1, <1>13, Zenon

\* And that of store.subscribe.
LEMMA SubscribePipeSubscribes ==
  ASSUME NEW r \in Request, r.subs # None, NEW old \in SUBSET Topic
  PROVE  SubscribePipe(r, old) \in Seq(Command) /\ Subscribing(SubscribePipe(r, old), r)
<1>1. PICK del : del = [op |-> "del_subindex"]
  OBVIOUS
<1>2. PICK frem : frem = [t \in Topic |-> [op |-> "srem_sub", topic |-> t]]
  BY Zenon
<1>3. PICK fadd : fadd = [t \in Topic |-> [op |-> "sadd_sub", topic |-> t]]
  BY Zenon
<1>4. PICK fidx : fidx = [t \in Topic |-> [op |-> "sadd_subindex", topic |-> t]]
  BY Zenon
<1>5. del \in Command /\ del.op = "del_subindex"
  BY <1>1 DEF Command
<1>6. ASSUME NEW t \in Topic
      PROVE  /\ frem[t] \in Command /\ frem[t].op = "srem_sub" /\ frem[t].topic = t
             /\ fadd[t] \in Command /\ fadd[t].op = "sadd_sub" /\ fadd[t].topic = t
             /\ fidx[t] \in Command /\ fidx[t].op = "sadd_subindex" /\ fidx[t].topic = t
  <2>1. /\ frem[t] = [op |-> "srem_sub", topic |-> t]
        /\ fadd[t] = [op |-> "sadd_sub", topic |-> t]
        /\ fidx[t] = [op |-> "sadd_subindex", topic |-> t]
    BY <1>2, <1>3, <1>4, Zenon
  <2> QED BY <2>1 DEF Command
<1>7. IsFiniteSet(old) /\ IsFiniteSet(r.subs) /\ r.subs \subseteq Topic
  BY RequestAssumption, RequestParts, FS_Subset
<1>8. PICK p1 \in Seq(Command) :
        p1 = ForEach(old, frem) /\ \A c \in Commands(p1) : \E t \in old : c = frem[t]
  <2>1. \A t \in old : frem[t] \in Command
    BY <1>6
  <2> QED BY <2>1, <1>7, ForEachCommands
<1>9. PICK p2 \in Seq(Command) : p2 = << del >> /\ Commands(p2) = { del }
  BY <1>5, OneCommand
<1>10. PICK p3 \in Seq(Command) :
         /\ p3 = ForEachPair(r.subs, fadd, fidx)
         /\ \A c : c \in Commands(p3) <=> \E t \in r.subs : c \in {fadd[t], fidx[t]}
  <2>1. \A t \in r.subs : fadd[t] \in Command /\ fidx[t] \in Command
    BY <1>6, <1>7
  <2> QED BY <2>1, <1>7, ForEachPairCommands
<1>11. SubscribePipe(r, old) = p1 \o p2 \o p3
  BY <1>1, <1>2, <1>3, <1>4, <1>8, <1>9, <1>10, Zenon DEF SubscribePipe
<1>12. /\ \A c \in Commands(p1) : c.op = "srem_sub"
       /\ \A c \in Commands(p2) : c.op = "del_subindex"
  BY <1>5, <1>6, <1>8, <1>9
<1>13. \A c \in Commands(p3) : c.op \in {"sadd_sub", "sadd_subindex"}
  BY <1>6, <1>7, <1>10
<1>14. \A t \in r.subs : \E c \in Commands(p3) : c.op = "sadd_sub" /\ c.topic = t
  BY <1>6, <1>7, <1>10
<1>15. QED
  <2>1. p1 \o p2 \o p3 \in Seq(Command) /\ Subscribing(p1 \o p2 \o p3, r)
    BY <1>12, <1>13, <1>14, SubscribeCommands, Zenon
  <2> QED BY <2>1, <1>11, Zenon

\* A command is executed: what the rest of the pipeline is for does not change.
LEMMA CommandRegisters ==
  ASSUME NEW p \in Seq(Command), p # << >>, NEW r \in Request, Registering(p, r),
         tools \in [Tool -> OrNone(Url)], Execute(Head(p))
  PROVE  Registering(Tail(p), r)'
<1> DEFINE c == Head(p)
<1>1. /\ Tail(p) \in Seq(Command) /\ c \in Command
      /\ Commands(p) = { c } \cup Commands(Tail(p))
      /\ InOrder(Tail(p), "hdel_tool", "hset_tool")
      /\ c.op = "hset_tool" => \A d \in Commands(Tail(p)) : d.op # "hdel_tool"
  BY TailCommands DEF Registering
<1>2. c.op \in {"hset_callback", "hset_tool"} => c.url = r.url
  BY <1>1 DEF Registering
<1>3. callback' = r.url \/ \E d \in Commands(Tail(p)) : d.op = "hset_callback"
  <2>1. CASE c.op = "hset_callback"
    BY <2>1, <1>2 DEF Execute
  <2>2. CASE c.op # "hset_callback"
    BY <2>2, <1>1 DEF Execute, Registering
  <2> QED BY <2>1, <2>2
<1>4. ASSUME NEW t \in r.tools
      PROVE  \/ \E d \in Commands(Tail(p)) : d.op = "hset_tool" /\ d.tool = t
             \/ tools'[t] = r.url /\ \A d \in Commands(Tail(p)) : d.op = "hdel_tool" => d.tool # t
  <2>1. t \in Tool
    BY RequestParts
  <2>2. CASE c.op = "hset_tool" /\ c.tool = t
    BY <2>1, <2>2, <1>1, <1>2 DEF Execute
  <2>3. CASE tools[t] = r.url /\ \A d \in Commands(p) : d.op = "hdel_tool" => d.tool # t
    <3>1. CASE c.op = "hset_tool"
      BY <3>1, <2>1, <2>3, <1>1, <1>2 DEF Execute
    <3>2. CASE c.op = "hdel_tool"
      <4>1. c.tool # t
        BY <3>2, <2>3, <1>1
      <4> QED BY <4>1, <3>2, <2>1, <2>3, <1>1 DEF Execute
    <3>3. CASE c.op \notin {"hset_tool", "hdel_tool"}
      BY <3>3, <2>3, <1>1 DEF Execute
    <3> QED BY <3>1, <3>2, <3>3
  <2> QED BY <2>2, <2>3, <1>1 DEF Registering
<1>5. QED
  BY <1>1, <1>3, <1>4 DEF Registering, InOrder, Commands

LEMMA CommandSubscribes ==
  ASSUME NEW p \in Seq(Command), p # << >>, NEW r \in Request, Subscribing(p, r),
         Execute(Head(p))
  PROVE  Subscribing(Tail(p), r)'
<1> DEFINE c == Head(p)
<1>1. /\ Tail(p) \in Seq(Command) /\ c \in Command
      /\ Commands(p) = { c } \cup Commands(Tail(p))
      /\ InOrder(Tail(p), "srem_sub", "sadd_sub")
      /\ c.op = "sadd_sub" => \A d \in Commands(Tail(p)) : d.op # "srem_sub"
  BY TailCommands DEF Subscribing
<1>2. ASSUME NEW t \in r.subs
      PROVE  \/ \E d \in Commands(Tail(p)) : d.op = "sadd_sub" /\ d.topic = t
             \/ t \in subs' /\ \A d \in Commands(Tail(p)) : d.op = "srem_sub" => d.topic # t
  <2>1. CASE c.op = "sadd_sub" /\ c.topic = t
    BY <2>1, <1>1 DEF Execute
  <2>2. CASE t \in subs /\ \A d \in Commands(p) : d.op = "srem_sub" => d.topic # t
    <3>1. c.op = "srem_sub" => c.topic # t
      BY <2>2, <1>1
    <3> QED BY <3>1, <2>2, <1>1 DEF Execute
  <2> QED BY <2>1, <2>2, <1>1, <1>2 DEF Subscribing
<1>3. QED
  BY <1>1, <1>2 DEF Subscribing, InOrder, Commands

\* Nothing is left to be done: the store has it.
LEMMA RegisteredIsKept ==
  ASSUME NEW r, Registering(<< >>, r)
  PROVE  ToolsKept(r)
BY DEF Registering, Commands, ToolsKept

LEMMA SubscribedIsKept ==
  ASSUME NEW r, Subscribing(<< >>, r)
  PROVE  TopicsKept(r)
BY DEF Subscribing, Commands, TopicsKept

-----------------------------------------------------------------------------
(* Type correctness.                                                       *)

\* Commands keep the types of the store.
LEMMA ExecuteType ==
  ASSUME RegistryTypeOK, NEW c \in Command, Execute(c)
  PROVE  /\ tools' \in [Tool -> OrNone(Url)] /\ callback' \in OrNone(Url)
         /\ index' \subseteq Tool /\ subs' \subseteq Topic /\ subIndex' \subseteq Topic
<1>1. tools' \in [Tool -> OrNone(Url)]
  BY CommandParts DEF Execute, RegistryTypeOK, OrNone
<1>2. callback' \in OrNone(Url)
  BY CommandParts DEF Execute, RegistryTypeOK, OrNone
<1>3. index' \subseteq Tool
  BY CommandParts DEF Execute, RegistryTypeOK
<1>4. subs' \subseteq Topic /\ subIndex' \subseteq Topic
  BY CommandParts DEF Execute, RegistryTypeOK
<1>5. QED
  BY <1>1, <1>2, <1>3, <1>4

\* A handler that works has a request.
LEMMA WorkingRequest ==
  ASSUME RegistryTypeOK, NEW h \in Handler, hpc[h] # "idle"
  PROVE  request[h] \in Request
BY DEF RegistryTypeOK, OrNone

LEMMA TypeInit == RegistryInit => RegistryTypeOK /\ SubsGiven
<1> SUFFICES ASSUME RegistryInit PROVE RegistryTypeOK /\ SubsGiven
  OBVIOUS
<1>1. /\ hpc \in [Handler -> HandlerPC] /\ \A h \in Handler : hpc[h] = "idle"
      /\ request \in [Handler -> OrNone(Request)] /\ \A h \in Handler : request[h] = None
  BY DEF RegistryInit, HandlerPC, OrNone
<1>2. pipe \in [Handler -> Seq(Command)] /\ \A h \in Handler : pipe[h] = << >>
  BY DEF RegistryInit
<1>3. tools \in [Tool -> OrNone(Url)] /\ mtools \in [Tool -> OrNone(Url)]
  BY DEF RegistryInit, OrNone
<1>4. sent \in 0 .. MaxRegistrations /\ failed \in 0 .. MaxFailures
  BY RegistryBoundAssumption DEF RegistryInit
<1>5. QED
  BY <1>1, <1>2, <1>3, <1>4 DEF RegistryInit, RegistryTypeOK, SubsGiven, OrNone

\* The steps of a handler between receiving a request and answering it.
Work(h) ==
  \/ ReadToolIndex(h) \/ StoreCommand(h) \/ ToolsStored(h)
  \/ ReadSubIndex(h) \/ SubsStored(h)
  \/ InsertCallback(h) \/ ReplaceTools(h) \/ ReplaceSubs(h)

\* What they leave alone.
LEMMA WorkFrame ==
  ASSUME RegistryTypeOK, NEW h \in Handler, Work(h)
  PROVE  /\ UNCHANGED << up, request, history >>
         /\ hpc[h] # "idle" /\ hpc'[h] # "idle"
         /\ \A g \in Handler \ {h} : hpc'[g] = hpc[g]
<1>1. hpc \in [Handler -> HandlerPC]
  BY DEF RegistryTypeOK
<1>2. CASE ReadToolIndex(h)
  BY <1>1, <1>2 DEF ReadToolIndex, HandlerGoto
<1>3. CASE StoreCommand(h)
  BY <1>1, <1>3 DEF StoreCommand, RegistryTypeOK
<1>4. CASE ToolsStored(h)
  BY <1>1, <1>4 DEF ToolsStored, HandlerGoto
<1>5. CASE ReadSubIndex(h)
  BY <1>1, <1>5 DEF ReadSubIndex, HandlerGoto
<1>6. CASE SubsStored(h)
  BY <1>1, <1>6 DEF SubsStored, HandlerGoto
<1>7. CASE InsertCallback(h)
  BY <1>1, <1>7 DEF InsertCallback, HandlerGoto
<1>8. CASE ReplaceTools(h)
  BY <1>1, <1>8 DEF ReplaceTools, HandlerGoto
<1>9. CASE ReplaceSubs(h)
  BY <1>1, <1>9 DEF ReplaceSubs, HandlerGoto
<1>10. QED
  BY <1>2, <1>3, <1>4, <1>5, <1>6, <1>7, <1>8, <1>9 DEF Work

LEMMA WorkType ==
  ASSUME RegistryTypeOK, SubsGiven, NEW h \in Handler, Work(h)
  PROVE  RegistryTypeOK' /\ SubsGiven'
<1>1. /\ UNCHANGED << up, request, history >>
      /\ hpc[h] # "idle" /\ hpc'[h] # "idle"
      /\ \A g \in Handler \ {h} : hpc'[g] = hpc[g]
  BY WorkFrame
<1>2. request[h] \in Request
  BY <1>1, WorkingRequest
<1>3. /\ tools' \in [Tool -> OrNone(Url)] /\ callback' \in OrNone(Url)
      /\ index' \subseteq Tool /\ subs' \subseteq Topic /\ subIndex' \subseteq Topic
  <2>1. CASE StoreCommand(h)
    <3>1. Head(pipe[h]) \in Command
      BY <2>1, TailCommands DEF StoreCommand, RegistryTypeOK
    <3> QED BY <2>1, <3>1, ExecuteType DEF StoreCommand
  <2>2. CASE ~StoreCommand(h)
    <3>1. UNCHANGED store
      BY <2>2 DEF Work, ReadToolIndex, ToolsStored, ReadSubIndex, SubsStored,
                  InsertCallback, ReplaceTools, ReplaceSubs
    <3> QED BY <3>1 DEF store, RegistryTypeOK
  <2> QED BY <2>1, <2>2
<1>4. mtools' \in [Tool -> OrNone(Url)] /\ mcallback' \in OrNone(Url) /\ msubs' \subseteq Topic
  <2>1. CASE InsertCallback(h)
    BY <2>1, <1>2, RequestParts DEF InsertCallback, RegistryTypeOK, OrNone
  <2>2. CASE ReplaceTools(h)
    BY <2>2, <1>2, RequestParts DEF ReplaceTools, RegistryTypeOK, OrNone
  <2>3. CASE ReplaceSubs(h)
    <3>1. request[h].subs # None
      BY <2>3 DEF ReplaceSubs, HandlerGoto, SubsGiven
    <3> QED BY <2>3, <3>1, <1>2, RequestParts DEF ReplaceSubs, RegistryTypeOK
  <2>4. CASE ~InsertCallback(h) /\ ~ReplaceTools(h) /\ ~ReplaceSubs(h)
    <3>1. UNCHANGED memory
      BY <2>4 DEF Work, ReadToolIndex, StoreCommand, ToolsStored, ReadSubIndex, SubsStored
    <3> QED BY <3>1 DEF memory, RegistryTypeOK
  <2> QED BY <2>1, <2>2, <2>3, <2>4
<1>5. /\ hpc' \in [Handler -> HandlerPC]
      /\ hpc'[h] \in {"subindex", "subs", "memsubs"} => request[h].subs # None
  <2>1. CASE ReadToolIndex(h)
    BY <2>1 DEF ReadToolIndex, HandlerGoto, RegistryTypeOK, HandlerPC, Storing
  <2>2. CASE StoreCommand(h)
    BY <2>2 DEF StoreCommand, RegistryTypeOK, SubsGiven
  <2>3. CASE ToolsStored(h)
    BY <2>3 DEF ToolsStored, HandlerGoto, RegistryTypeOK, HandlerPC, Storing
  <2>4. CASE ReadSubIndex(h)
    BY <2>4 DEF ReadSubIndex, HandlerGoto, RegistryTypeOK, HandlerPC, Storing, SubsGiven
  <2>5. CASE SubsStored(h)
    BY <2>5 DEF SubsStored, HandlerGoto, RegistryTypeOK, HandlerPC, Storing
  <2>6. CASE InsertCallback(h)
    BY <2>6 DEF InsertCallback, HandlerGoto, RegistryTypeOK, HandlerPC, Storing
  <2>7. CASE ReplaceTools(h)
    BY <2>7 DEF ReplaceTools, HandlerGoto, RegistryTypeOK, HandlerPC, Storing
  <2>8. CASE ReplaceSubs(h)
    BY <2>8 DEF ReplaceSubs, HandlerGoto, RegistryTypeOK, HandlerPC, Storing
  <2> QED BY <2>1, <2>2, <2>3, <2>4, <2>5, <2>6, <2>7, <2>8 DEF Work
<1>6. /\ pipe' \in [Handler -> Seq(Command)]
      /\ pipe'[h] # << >> => hpc'[h] \in {"tools", "subs", "left"}
      /\ \A g \in Handler \ {h} : pipe'[g] = pipe[g]
  <2>1. CASE ReadToolIndex(h)
    <3>1. RegisterPipe(request[h], index) \in Seq(Command)
      BY <1>2, RegisterPipeRegisters DEF RegistryTypeOK
    <3> QED BY <2>1, <3>1 DEF ReadToolIndex, HandlerGoto, RegistryTypeOK
  <2>2. CASE ReadSubIndex(h)
    <3>1. request[h].subs # None
      BY <2>2 DEF ReadSubIndex, HandlerGoto, SubsGiven
    <3>2. SubscribePipe(request[h], subIndex) \in Seq(Command)
      BY <3>1, <1>2, SubscribePipeSubscribes DEF RegistryTypeOK
    <3> QED BY <2>2, <3>2 DEF ReadSubIndex, HandlerGoto, RegistryTypeOK
  <2>3. CASE StoreCommand(h)
    <3>1. Tail(pipe[h]) \in Seq(Command)
      BY <2>3, TailCommands DEF StoreCommand, RegistryTypeOK
    <3> QED BY <2>3, <3>1 DEF StoreCommand, RegistryTypeOK
  <2>4. CASE ~ReadToolIndex(h) /\ ~ReadSubIndex(h) /\ ~StoreCommand(h)
    <3>1. UNCHANGED pipe /\ pipe[h] = << >>
      BY <2>4 DEF Work, ToolsStored, SubsStored, InsertCallback, ReplaceTools, ReplaceSubs,
                  HandlerGoto, RegistryTypeOK
    <3> QED BY <3>1 DEF RegistryTypeOK
  <2> QED BY <2>1, <2>2, <2>3, <2>4
<1>7. \A g \in Handler : hpc'[g] = "idle" <=> request'[g] = None
  BY <1>1, <1>2, RequestParts DEF RegistryTypeOK
<1>8. \A g \in Handler : pipe'[g] # << >> => hpc'[g] \in {"tools", "subs", "left"}
  BY <1>1, <1>6 DEF RegistryTypeOK
<1>9. SubsGiven'
  BY <1>1, <1>5 DEF SubsGiven
<1>10. /\ up' \in BOOLEAN /\ restarted' \in BOOLEAN /\ settled' \in BOOLEAN
       /\ sent' \in 0 .. MaxRegistrations /\ failed' \in 0 .. MaxFailures
       /\ acked' \in OrNone(Request) /\ alone' \in OrNone(Handler)
       /\ request' \in [Handler -> OrNone(Request)]
  BY <1>1 DEF RegistryTypeOK, history
<1>11. QED
  BY <1>3, <1>4, <1>5, <1>6, <1>7, <1>8, <1>9, <1>10 DEF RegistryTypeOK

\* The steps that answer a request.
LEMMA FinishType ==
  ASSUME RegistryTypeOK, SubsGiven, NEW h \in Handler, Finish(h),
         UNCHANGED << store, memory, up >>, sent' \in 0 .. MaxRegistrations,
         failed' \in 0 .. MaxFailures, acked' \in OrNone(Request),
         restarted' \in BOOLEAN, settled' \in BOOLEAN
  PROVE  RegistryTypeOK' /\ SubsGiven'
<1>1. /\ hpc' \in [Handler -> HandlerPC] /\ hpc'[h] = "idle"
      /\ request' \in [Handler -> OrNone(Request)] /\ request'[h] = None
      /\ \A g \in Handler \ {h} : hpc'[g] = hpc[g] /\ request'[g] = request[g]
  BY DEF Finish, RegistryTypeOK, HandlerPC, OrNone
<1>2. /\ pipe' \in [Handler -> Seq(Command)] /\ pipe'[h] = << >>
      /\ \A g \in Handler \ {h} : pipe'[g] = pipe[g]
  BY DEF Finish, RegistryTypeOK
<1>3. \A g \in Handler : /\ hpc'[g] = "idle" <=> request'[g] = None
                         /\ pipe'[g] # << >> => hpc'[g] \in {"tools", "subs", "left"}
  BY <1>1, <1>2 DEF RegistryTypeOK
<1>4. alone' \in OrNone(Handler) /\ SubsGiven'
  BY <1>1 DEF Finish, OrNone, SubsGiven
<1>5. QED
  BY <1>1, <1>2, <1>3, <1>4 DEF RegistryTypeOK, store, memory

\* A client that leaves.
LEMMA LeavesType ==
  ASSUME RegistryTypeOK, SubsGiven, NEW h \in Handler, ClientLeaves(h)
  PROVE  RegistryTypeOK' /\ SubsGiven'
<1>1. CASE pipe[h] = << >>
  BY <1>1, FinishType DEF ClientLeaves, RegistryTypeOK
<1>2. CASE pipe[h] # << >>
  <2>1. /\ hpc' \in [Handler -> HandlerPC] /\ hpc'[h] = "left" /\ hpc[h] # "idle"
        /\ \A g \in Handler \ {h} : hpc'[g] = hpc[g]
        /\ alone' = None /\ UNCHANGED << request, pipe >>
    BY <1>2 DEF ClientLeaves, RegistryTypeOK, HandlerPC, Storing
  <2>2. \A g \in Handler : /\ hpc'[g] = "idle" <=> request'[g] = None
                           /\ pipe'[g] # << >> => hpc'[g] \in {"tools", "subs", "left"}
    BY <2>1 DEF RegistryTypeOK
  <2>3. SubsGiven'
    BY <2>1 DEF SubsGiven
  <2>4. UNCHANGED << store, memory, up, sent, failed, acked, settled, restarted >>
    BY <1>2 DEF ClientLeaves
  <2>5. QED
    BY <2>1, <2>2, <2>3, <2>4 DEF RegistryTypeOK, store, memory, OrNone
<1>3. QED
  BY <1>1, <1>2

LEMMA TypeStep ==
  ASSUME RegistryTypeOK, SubsGiven, [RegistryNext]_registryVars
  PROVE  RegistryTypeOK' /\ SubsGiven'
<1>1. CASE UNCHANGED registryVars
  BY <1>1 DEF registryVars, store, memory, history, RegistryTypeOK, SubsGiven
<1>2. ASSUME NEW h \in Handler, NEW r \in Request, ReceiveRegister(h, r)
      PROVE  RegistryTypeOK' /\ SubsGiven'
  <2>1. /\ hpc' \in [Handler -> HandlerPC] /\ hpc'[h] = "index" /\ hpc[h] = "idle"
        /\ request' \in [Handler -> OrNone(Request)] /\ request'[h] = r
        /\ \A g \in Handler \ {h} : hpc'[g] = hpc[g] /\ request'[g] = request[g]
    BY <1>2 DEF ReceiveRegister, HandlerGoto, RegistryTypeOK, HandlerPC, Storing, OrNone
  <2>2. \A g \in Handler : /\ hpc'[g] = "idle" <=> request'[g] = None
                           /\ pipe'[g] # << >> => hpc'[g] \in {"tools", "subs", "left"}
    BY <2>1, <1>2, RequestParts DEF ReceiveRegister, RegistryTypeOK
  <2>3. sent' \in 0 .. MaxRegistrations
    BY <1>2, RegistryBoundAssumption DEF ReceiveRegister, RegistryTypeOK
  <2>4. alone' \in OrNone(Handler) /\ settled' \in BOOLEAN /\ SubsGiven'
    BY <1>2, <2>1 DEF ReceiveRegister, OrNone, SubsGiven
  <2>5. QED
    BY <1>2, <2>1, <2>2, <2>3, <2>4 DEF ReceiveRegister, RegistryTypeOK, store, memory
<1>3. ASSUME NEW h \in Handler, Work(h)
      PROVE  RegistryTypeOK' /\ SubsGiven'
  BY <1>3, WorkType
<1>4. ASSUME NEW h \in Handler, StoreToken(h)
      PROVE  RegistryTypeOK' /\ SubsGiven'
  <2>1. (alone = h) \in BOOLEAN
    OBVIOUS
  <2>2. settled' \in BOOLEAN /\ restarted' \in BOOLEAN
    BY <1>4, <2>1, Zenon DEF StoreToken
  <2>3. acked' \in OrNone(Request)
    BY <1>4, WorkingRequest DEF StoreToken, OrNone
  <2> QED BY <1>4, <2>2, <2>3, FinishType DEF StoreToken, RegistryTypeOK
<1>5. ASSUME NEW h \in Handler, RegisterFails(h)
      PROVE  RegistryTypeOK' /\ SubsGiven'
  <2>1. failed' \in 0 .. MaxFailures
    BY <1>5, RegistryBoundAssumption DEF RegisterFails, RegistryTypeOK
  <2> QED BY <1>5, <2>1, FinishType DEF RegisterFails, RegistryTypeOK
<1>6. CASE CrashBridge
  <2>1. failed' \in 0 .. MaxFailures
    BY <1>6, RegistryBoundAssumption DEF CrashBridge, RegistryTypeOK
  <2>2. /\ hpc' \in [Handler -> HandlerPC] /\ \A h \in Handler : hpc'[h] = "idle"
        /\ request' \in [Handler -> OrNone(Request)] /\ \A h \in Handler : request'[h] = None
    BY <1>6 DEF CrashBridge, HandlerPC, OrNone
  <2>3. pipe' \in [Handler -> Seq(Command)] /\ \A h \in Handler : pipe'[h] = << >>
    BY <1>6 DEF CrashBridge
  <2>4. mtools' \in [Tool -> OrNone(Url)] /\ mcallback' \in OrNone(Url) /\ msubs' \subseteq Topic
    BY <1>6 DEF CrashBridge, OrNone
  <2>5. alone' \in OrNone(Handler) /\ SubsGiven'
    BY <1>6, <2>2 DEF CrashBridge, OrNone, SubsGiven
  <2> QED BY <1>6, <2>1, <2>2, <2>3, <2>4, <2>5 DEF CrashBridge, RegistryTypeOK, store
<1>7. CASE Hydrate
  BY <1>7 DEF Hydrate, HydratedState, RegistryTypeOK, SubsGiven, store, history
<1>8. ASSUME NEW h \in Handler, ClientLeaves(h) \/ LeftBehindEnds(h)
      PROVE  RegistryTypeOK' /\ SubsGiven'
  BY <1>8, LeavesType, FinishType DEF LeftBehindEnds, RegistryTypeOK
<1>9. QED
  BY <1>1, <1>2, <1>3, <1>4, <1>5, <1>6, <1>7, <1>8 DEF RegistryNext, Work

\* The types of the registry, its store and its handlers, which a run checks.
THEOREM RegistryTypeCorrect == RegistrySpec => []RegistryTypeOK
<1>1. RegistryInit => RegistryTypeOK /\ SubsGiven
  BY TypeInit
<1>2. (RegistryTypeOK /\ SubsGiven) /\ [RegistryNext]_registryVars
        => (RegistryTypeOK /\ SubsGiven)'
  BY TypeStep
<1>3. QED
  BY <1>1, <1>2, PTL DEF RegistrySpec

-----------------------------------------------------------------------------
(* The invariant is inductive.                                             *)

\* A handler that is alone gets on with its request.
LEMMA WorkProgress ==
  ASSUME RegistryTypeOK, SubsGiven, NEW h \in Handler, Work(h),
         NEW r \in Request, r = request[h], Progress(h, r, pipe[h])
  PROVE  Progress(h, r, pipe[h])'
<1>1. hpc \in [Handler -> HandlerPC] /\ pipe \in [Handler -> Seq(Command)]
  BY DEF RegistryTypeOK
<1>2. CASE ReadToolIndex(h)
  <2>1. hpc'[h] = "tools" /\ pipe'[h] = RegisterPipe(r, index) /\ UNCHANGED store
    BY <1>1, <1>2 DEF ReadToolIndex, HandlerGoto
  <2>2. Registering(pipe'[h], r)
    BY <2>1, RegisterPipeRegisters DEF RegistryTypeOK
  <2>3. Registering(pipe[h], r)'
    BY <2>1, <2>2 DEF Registering, store
  <2> QED BY <2>1, <2>3 DEF Progress, Stored
<1>3. CASE StoreCommand(h)
  <2>1. PICK p \in Seq(Command) : p = pipe[h]
    BY <1>1
  <2>2. /\ p # << >> /\ Execute(Head(p)) /\ pipe'[h] = Tail(p)
        /\ hpc'[h] = hpc[h] /\ UNCHANGED memory /\ hpc[h] \in {"tools", "subs"}
    BY <1>1, <1>3, <2>1 DEF StoreCommand, RegistryTypeOK, Progress
  <2>3. CASE hpc[h] = "tools"
    <3>1. Registering(p, r)
      BY <2>1, <2>3 DEF Progress
    <3>2. Registering(Tail(p), r)'
      BY <3>1, <2>2, CommandRegisters DEF RegistryTypeOK
    <3>3. Registering(pipe[h], r)'
      BY <3>2, <2>2 DEF Registering
    <3> QED BY <3>3, <2>2, <2>3 DEF Progress, Stored
  <2>4. CASE hpc[h] = "subs"
    <3>1. Subscribing(p, r) /\ ToolsKept(r)
      BY <2>1, <2>4 DEF Progress
    <3>2. Subscribing(Tail(p), r)'
      BY <3>1, <2>2, CommandSubscribes
    <3>3. Subscribing(pipe[h], r)'
      BY <3>2, <2>2 DEF Subscribing
    <3>4. Head(p).op \in {"srem_sub", "del_subindex", "sadd_sub", "sadd_subindex"}
      BY <3>1, <2>2, TailCommands DEF Subscribing
    <3>5. ToolsKept(r)'
      BY <3>1, <3>4, <2>2 DEF Execute, ToolsKept
    <3> QED BY <3>3, <3>5, <2>2, <2>4 DEF Progress, Stored
  <2> QED BY <2>2, <2>3, <2>4
<1>4. CASE ToolsStored(h)
  <2>1. /\ hpc[h] = "tools" /\ pipe[h] = << >> /\ UNCHANGED << store, memory >>
        /\ hpc'[h] = IF r.subs = None THEN "callbacks" ELSE "subindex"
    BY <1>1, <1>4 DEF ToolsStored, HandlerGoto
  <2>2. ToolsKept(r)
    BY <2>1, RegisteredIsKept DEF Progress
  <2>3. ToolsKept(r)' /\ (r.subs = None => TopicsKept(r)')
    BY <2>1, <2>2 DEF ToolsKept, TopicsKept, store
  <2> QED BY <2>1, <2>3 DEF Progress, Stored
<1>5. CASE ReadSubIndex(h)
  <2>1. /\ hpc[h] = "subindex" /\ hpc'[h] = "subs" /\ pipe'[h] = SubscribePipe(r, subIndex)
        /\ UNCHANGED store
    BY <1>1, <1>5 DEF ReadSubIndex, HandlerGoto
  <2>2. r.subs # None
    BY <2>1 DEF SubsGiven
  <2>3. Subscribing(pipe'[h], r)
    BY <2>1, <2>2, SubscribePipeSubscribes DEF RegistryTypeOK
  <2>4. Subscribing(pipe[h], r)' /\ ToolsKept(r)'
    BY <2>1, <2>3 DEF Progress, Subscribing, ToolsKept, store
  <2> QED BY <2>1, <2>4 DEF Progress, Stored
<1>6. CASE SubsStored(h)
  <2>1. /\ hpc[h] = "subs" /\ hpc'[h] = "callbacks" /\ pipe[h] = << >>
        /\ UNCHANGED << store, memory >>
    BY <1>1, <1>6 DEF SubsStored, HandlerGoto
  <2>2. ToolsKept(r) /\ TopicsKept(r)
    BY <2>1, SubscribedIsKept DEF Progress
  <2>3. ToolsKept(r)' /\ TopicsKept(r)'
    BY <2>1, <2>2 DEF ToolsKept, TopicsKept, store
  <2> QED BY <2>1, <2>3 DEF Progress, Stored
<1>7. ASSUME UNCHANGED store, hpc[h] \in Stored
      PROVE  ToolsKept(r)' /\ TopicsKept(r)'
  BY <1>7 DEF Progress, ToolsKept, TopicsKept, store
<1>8. CASE InsertCallback(h)
  <2>1. /\ hpc[h] = "callbacks" /\ hpc'[h] = "memtools" /\ mcallback' = r.url
        /\ UNCHANGED store
    BY <1>1, <1>8 DEF InsertCallback, HandlerGoto
  <2> QED BY <2>1, <1>7 DEF Progress, Stored
<1>9. CASE ReplaceTools(h)
  <2>1. /\ hpc[h] = "memtools"
        /\ hpc'[h] = IF r.subs = None THEN "token" ELSE "memsubs"
        /\ mtools' = [t \in Tool |-> IF t \in r.tools THEN r.url ELSE None]
        /\ mcallback' = mcallback /\ UNCHANGED store
    BY <1>1, <1>9 DEF ReplaceTools, HandlerGoto
  <2> QED BY <2>1, <1>7 DEF Progress, Stored
<1>10. CASE ReplaceSubs(h)
  <2>1. /\ hpc[h] = "memsubs" /\ hpc'[h] = "token" /\ msubs' = r.subs
        /\ mcallback' = mcallback /\ mtools' = mtools /\ UNCHANGED store
    BY <1>1, <1>10 DEF ReplaceSubs, HandlerGoto
  <2> QED BY <2>1, <1>7 DEF Progress, Stored
<1>11. QED
  BY <1>2, <1>3, <1>4, <1>5, <1>6, <1>8, <1>9, <1>10 DEF Work

LEMMA RegistryInvInit == RegistryInit => RegistryInv
<1> SUFFICES ASSUME RegistryInit PROVE RegistryInv
  OBVIOUS
<1>1. RegistryTypeOK /\ SubsGiven
  BY TypeInit
<1>2. up /\ alone = None /\ ~settled
  BY DEF RegistryInit
<1>3. QED
  BY <1>1, <1>2 DEF RegistryInv, AloneInv, SettledInv, RegistrationIsServed

\* A registration is answered that no other has met: it is stored, and what the
\* memory serves.
LEMMA AnsweredAlone ==
  ASSUME RegistryInv, NEW h \in Handler, StoreToken(h), alone = h
  PROVE  SettledInv' /\ RegistrationIsServed'
<1>1. PICK r \in Request : r = request[h]
  BY WorkingRequest DEF StoreToken, RegistryInv
<1>2. /\ hpc[h] = "token" /\ Progress(h, r, pipe[h]) /\ \A g \in Handler \ {h} : hpc[g] = "idle"
      /\ up
  <2>1. h # None
    BY RequestAssumption
  <2> QED BY <1>1, <2>1 DEF StoreToken, RegistryInv, AloneInv
<1>3. /\ ToolsKept(r) /\ TopicsKept(r) /\ mcallback = r.url
      /\ \A t \in Tool : mtools[t] = IF t \in r.tools THEN r.url ELSE None
      /\ r.subs # None => msubs = r.subs
  BY <1>2 DEF Progress, Stored
<1>4. acked' = r /\ ~restarted' /\ UNCHANGED << store, memory, up >>
  BY <1>1 DEF StoreToken
<1>5. \A g \in Handler : hpc'[g] = "idle"
  BY <1>2 DEF StoreToken, Finish, RegistryInv, RegistryTypeOK
<1>6. SettledInv'
  BY <1>2, <1>3, <1>4, <1>5, RequestParts DEF SettledInv, ToolsKept, TopicsKept, store
<1>7. RegistrationIsServed'
  BY <1>3, <1>4, RequestParts
     DEF RegistrationIsServed, Callee, Subscriber, AppInfo, memory
<1>8. QED
  BY <1>6, <1>7

LEMMA RegistryInvStep ==
  ASSUME RegistryInv, [RegistryNext]_registryVars
  PROVE  RegistryInv'
<1>1. RegistryTypeOK' /\ SubsGiven'
  BY TypeStep DEF RegistryInv
<1>2. CASE UNCHANGED registryVars
  BY <1>2, <1>1 DEF registryVars, store, memory, history, RegistryInv, AloneInv, SettledInv,
     Progress, Registering, Subscribing, ToolsKept, TopicsKept, RegistrationIsServed, Callee,
     Subscriber, AppInfo
<1>3. ASSUME NEW h \in Handler, NEW r \in Request, ReceiveRegister(h, r)
      PROVE  RegistryInv'
  <2>1. /\ ~settled' /\ up' /\ hpc[h] = "idle" /\ hpc'[h] = "index"
        /\ \A g \in Handler \ {h} : hpc'[g] = hpc[g]
    BY <1>3 DEF ReceiveRegister, HandlerGoto, RegistryInv, RegistryTypeOK
  <2>2. AloneInv'
    <3>1. CASE alone' = h
      <4>1. \A g \in Handler : hpc[g] = "idle"
        BY <1>3, <3>1, RequestAssumption DEF ReceiveRegister
      <4>2. Progress(alone, request[alone], pipe[alone])'
        BY <2>1, <3>1 DEF Progress, Stored
      <4> QED BY <2>1, <3>1, <4>1, <4>2 DEF AloneInv
    <3>2. CASE alone' = None
      BY <3>2 DEF AloneInv
    <3> QED BY <1>3, <3>1, <3>2 DEF ReceiveRegister
  <2> QED BY <1>1, <2>1, <2>2 DEF RegistryInv, SettledInv, RegistrationIsServed
<1>4. ASSUME NEW h \in Handler, Work(h)
      PROVE  RegistryInv'
  <2>1. /\ UNCHANGED << up, request, history >>
        /\ hpc[h] # "idle" /\ hpc'[h] # "idle"
        /\ \A g \in Handler \ {h} : hpc'[g] = hpc[g]
    BY <1>4, WorkFrame DEF RegistryInv
  <2>2. up /\ ~settled
    BY <2>1 DEF RegistryInv, SettledInv
  <2>3. AloneInv'
    <3>1. CASE alone = h
      <4>1. PICK r \in Request : r = request[h]
        BY <2>1, WorkingRequest DEF RegistryInv
      <4>2. Progress(h, r, pipe[h])
        BY <3>1, <4>1, RequestAssumption DEF RegistryInv, AloneInv
      <4>3. Progress(h, r, pipe[h])'
        BY <1>4, <4>1, <4>2, WorkProgress DEF RegistryInv
      <4>4. alone' = h /\ request'[alone'] = r
        BY <2>1, <3>1, <4>1 DEF history
      <4>5. Progress(alone, request[alone], pipe[alone])'
        BY <4>3, <4>4 DEF Progress, Registering, Subscribing, ToolsKept, TopicsKept
      <4>6. \A g \in Handler \ {h} : hpc[g] = "idle"
        BY <3>1, RequestAssumption DEF RegistryInv, AloneInv
      <4> QED BY <2>1, <2>2, <4>4, <4>5, <4>6 DEF AloneInv, history
    <3>2. CASE alone = None
      BY <2>1, <3>2 DEF AloneInv, history
    <3>3. CASE alone \notin {h, None}
      BY <2>1, <3>3 DEF RegistryInv, AloneInv
    <3> QED BY <3>1, <3>2, <3>3
  <2> QED BY <1>1, <2>1, <2>2, <2>3 DEF RegistryInv, SettledInv, RegistrationIsServed, history
<1>5. ASSUME NEW h \in Handler, StoreToken(h)
      PROVE  RegistryInv'
  <2>1. alone' = None /\ up' = up /\ up /\ (settled' <=> alone = h)
    BY <1>5 DEF StoreToken, Finish, RegistryInv
  <2>2. SettledInv' /\ RegistrationIsServed'
    <3>1. CASE alone = h
      BY <1>5, <3>1, AnsweredAlone
    <3>2. CASE alone # h
      BY <2>1, <3>2 DEF SettledInv, RegistrationIsServed
    <3> QED BY <3>1, <3>2
  <2> QED BY <1>1, <2>1, <2>2 DEF RegistryInv, AloneInv
<1>6. ASSUME NEW h \in Handler, RegisterFails(h)
      PROVE  RegistryInv'
  <2>1. hpc[h] # "idle" /\ alone' = None /\ UNCHANGED << up, settled >>
    BY <1>6 DEF RegisterFails, Finish, Storing
  <2>2. up /\ ~settled
    BY <2>1 DEF RegistryInv, SettledInv
  <2> QED BY <1>1, <2>1, <2>2 DEF RegistryInv, AloneInv, SettledInv, RegistrationIsServed
<1>7. CASE CrashBridge
  <2>1. /\ alone' = None /\ ~up' /\ restarted' /\ UNCHANGED << store, acked, settled >>
        /\ \A h \in Handler : hpc'[h] = "idle"
    BY <1>7 DEF CrashBridge
  <2>2. SettledInv'
    BY <2>1 DEF RegistryInv, SettledInv, ToolsKept, TopicsKept, store
  <2> QED BY <1>1, <2>1, <2>2 DEF RegistryInv, AloneInv, RegistrationIsServed
<1>8. CASE Hydrate
  <2>1. /\ up' /\ ~up /\ UNCHANGED << store, hpc, history >>
        /\ mtools' = tools /\ mcallback' = callback /\ msubs' = subs
    BY <1>8 DEF Hydrate, HydratedState
  <2>2. alone = None /\ \A h \in Handler : hpc[h] = "idle"
    BY <2>1 DEF RegistryInv, AloneInv, RegistryTypeOK, OrNone
  <2>3. SettledInv'
    BY <2>1 DEF RegistryInv, SettledInv, ToolsKept, TopicsKept, store, history
  <2>4. ASSUME settled PROVE RegistrationIsServed'
    <3>1. ToolsKept(acked) /\ TopicsKept(acked) /\ restarted
      BY <2>1, <2>4 DEF RegistryInv, SettledInv
    <3> QED BY <2>1, <3>1 DEF RegistrationIsServed, Callee, Subscriber, AppInfo, ToolsKept,
                              TopicsKept, history
  <2> QED BY <1>1, <2>1, <2>2, <2>3, <2>4 DEF RegistryInv, AloneInv, RegistrationIsServed, history
<1>9. ASSUME NEW h \in Handler, ClientLeaves(h) \/ LeftBehindEnds(h)
      PROVE  RegistryInv'
  <2>1. hpc[h] # "idle" /\ alone' = None /\ UNCHANGED << up, settled >>
    BY <1>9 DEF ClientLeaves, LeftBehindEnds, Finish, Storing
  <2>2. up /\ ~settled
    BY <2>1 DEF RegistryInv, SettledInv
  <2> QED BY <1>1, <2>1, <2>2 DEF RegistryInv, AloneInv, SettledInv, RegistrationIsServed
<1>10. QED
  BY <1>2, <1>3, <1>4, <1>5, <1>6, <1>7, <1>8, <1>9 DEF RegistryNext, Work

LEMMA RegistryInvariant == RegistrySpec => []RegistryInv
<1>1. RegistryInit => RegistryInv
  BY RegistryInvInit
<1>2. RegistryInv /\ [RegistryNext]_registryVars => RegistryInv'
  BY RegistryInvStep
<1>3. QED
  BY <1>1, <1>2, PTL DEF RegistrySpec

-----------------------------------------------------------------------------
(* Results.                                                                *)

\* The last registration, acknowledged and met by no other, is what the bridge serves,
\* with any number of crashes and of failing Redis operations before and after it.
THEOREM LastRegistrationIsServed == RegistrySpec => []RegistrationIsServed
<1>1. RegistryInv => RegistrationIsServed
  BY DEF RegistryInv
<1>2. QED
  BY <1>1, RegistryInvariant, PTL

\* Nothing is served before it is persisted.
THEOREM StoreComesFirst == RegistrySpec => StoreIsAhead
<1> DEFINE Ahead ==
      up /\ up' /\ memory' # memory /\ alone # None =>
        /\ \A t \in Tool : mtools'[t] \notin {None, mtools[t]} => tools[t] = mtools'[t]
        /\ mcallback' # mcallback => callback = mcallback'
        /\ msubs' \ msubs \subseteq subs
<1>1. ASSUME RegistryInv, RegistryNext PROVE Ahead
  <2> SUFFICES ASSUME up, up', memory' # memory, alone # None PROVE Ahead
    OBVIOUS
  <2>1. PICK h \in Handler : InsertCallback(h) \/ ReplaceTools(h) \/ ReplaceSubs(h)
    BY <1>1 DEF RegistryNext, CrashBridge, Hydrate, ReceiveRegister, ReadToolIndex, StoreCommand,
       ToolsStored, ReadSubIndex, SubsStored, StoreToken, RegisterFails, ClientLeaves,
       LeftBehindEnds, memory
  <2>2. hpc[h] \in {"callbacks", "memtools", "memsubs"}
    BY <2>1 DEF InsertCallback, ReplaceTools, ReplaceSubs, HandlerGoto
  <2>3. alone = h /\ Progress(h, request[h], pipe[h])
    BY <1>1, <2>2 DEF RegistryInv, AloneInv
  <2>4. ToolsKept(request[h]) /\ TopicsKept(request[h])
    BY <2>2, <2>3 DEF Progress, Stored
  <2>5. CASE InsertCallback(h)
    BY <2>4, <2>5 DEF InsertCallback, ToolsKept
  <2>6. CASE ReplaceTools(h)
    BY <2>4, <2>6 DEF ReplaceTools, ToolsKept
  <2>7. CASE ReplaceSubs(h)
    <3>1. request[h].subs # None
      BY <1>1, <2>7 DEF ReplaceSubs, HandlerGoto, RegistryInv, SubsGiven
    <3> QED BY <2>4, <2>7, <3>1 DEF ReplaceSubs, TopicsKept
  <2> QED BY <2>1, <2>5, <2>6, <2>7
<1>2. ASSUME UNCHANGED registryVars PROVE Ahead
  BY <1>2 DEF registryVars, memory
<1>3. RegistryInv /\ [RegistryNext]_registryVars => [Ahead]_registryVars
  BY <1>1, <1>2
<1>4. QED
  BY <1>3, RegistryInvariant, PTL DEF RegistrySpec, StoreIsAhead
=============================================================================
