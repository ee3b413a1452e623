--------------------------- MODULE ChainReaderProof ---------------------------
(***************************************************************************)
(* Proofs about ChainReader: for any number of slots, connections, permits *)
(* and channel sizes, no block is lost, repeated or reordered between the  *)
(* requests and the indexers.                                              *)
(***************************************************************************)
EXTENDS ChainReader, TLAPS

\* What the channel holds: answers, and the first slot.
Queue == {m \in Range(channel) : m.is # "first"}
Firsts == {m \in Range(channel) : m.is = "first"}
Waiting == answers \cup buffer \cup Queue

\* A slot that the broadcaster has not passed and will not skip.
Due(s) == expected_slot <= s /\ s < next /\ \A m \in Firsts : m.slot <= s

\* Nothing is twice in the channel, and the first slot only at its head.
InLine(q) ==
    /\ \A i, j \in DOMAIN q : q[i] = q[j] => i = j
    /\ \A i \in DOMAIN q : q[i].is = "first" => i = 1

Begins ==
    /\ FirstRoot <= root /\ expected_slot <= next /\ next <= last_block
    /\ ~announced => channel = <<>> /\ last_block = 0

Line == InLine(channel) /\ \A m \in Firsts : expected_slot = 0 /\ m.slot <= next

\* A slot is in one place at a time, none is before the expected one, and its
\* answer says whether its block was found.
Places ==
    /\ \A s \in fetching : Due(s) /\ s \notin got
    /\ \A m \in Waiting : Due(m.slot) /\ m.slot \notin fetching
                          /\ (m.is = "block" <=> m.slot \in got)
    /\ answers \cap buffer = {} /\ answers \cap Queue = {} /\ buffer \cap Queue = {}
    /\ \A s \in got : s < next /\ \A m \in Firsts : m.slot <= s

\* The inductive invariant, with the types, of the way to the buffer.
Way == Begins /\ Line /\ Places /\ GapsAreInFlight

\* What a connection lacks until a connection with its hash has been served.
Lacks(c) == IF c \in turn /\ hash[c] \notin taken THEN outgoing ELSE {}

\* The inductive invariant of the broadcast.  The outgoing blocks come after all
\* that has been sent; no two connections with one hash have the same block; and
\* what a connection is owed and does not lack has been sent to one of its hash.
Early ==
    /\ \A c \in Conn : c \notin indexers \cup closed => sent[c] = <<>>
    /\ \A c \in Conn : \A t \in SentTo(c) : t < expected_slot
    /\ \A c \in indexers : since[c] <= expected_slot
    /\ \A c \in turn : \A s \in outgoing : s \in got /\ since[c] <= s /\ s < expected_slot
    /\ \A c \in turn : hash[c] \notin taken =>
           \A d \in Conn : hash[d] = hash[c] => \A t \in SentTo(d), s \in outgoing : t < s

Apart == \A c, d \in Conn : c # d /\ hash[c] = hash[d] => SentTo(c) \cap SentTo(d) = {}

Complete(c) ==
    /\ InOrder(sent[c])
    /\ SentTo(c) \subseteq Owed(c)
    /\ \A s \in Owed(c) \ Lacks(c) : \E d \in Conn : hash[d] = hash[c] /\ s \in SentTo(d)

Served == Early /\ Apart /\ \A c \in indexers \ closed : Complete(c)
-----------------------------------------------------------------------------
\* A message joins the end of the channel.
LEMMA Joins ==
    ASSUME NEW q \in Seq(BlockInfo), NEW m \in BlockInfo
    PROVE  /\ Append(q, m) \in Seq(BlockInfo) /\ Len(Append(q, m)) = Len(q) + 1
           /\ Range(Append(q, m)) = Range(q) \cup {m}
           /\ InLine(q) /\ m \notin Range(q) /\ (m.is = "first" => q = <<>>)
                  => InLine(Append(q, m))
<1> DEFINE r == Append(q, m)
<1>1. /\ r \in Seq(BlockInfo) /\ Len(r) = Len(q) + 1 /\ Len(q) \in Nat
      /\ DOMAIN q = 1..Len(q) /\ DOMAIN r = 1..Len(q) + 1
      /\ \A i \in DOMAIN q : r[i] = q[i]
      /\ r[Len(q) + 1] = m
  OBVIOUS
<1> HIDE DEF r
<1>2. \A i : i \in DOMAIN r <=> i \in DOMAIN q \/ i = Len(q) + 1
  BY <1>1
<1>3. Range(r) = Range(q) \cup {m}
  BY <1>1, <1>2 DEF Range
<1>4. ASSUME InLine(q), m \notin Range(q), m.is = "first" => q = <<>>
      PROVE  InLine(r)
  <2>1. \A i \in DOMAIN q : q[i] # m /\ q[i] = r[i]
    BY <1>1, <1>4 DEF Range
  <2>2. m.is = "first" => Len(q) + 1 = 1
    BY <1>4
  <2>3. QED
    BY <1>1, <1>2, <1>4, <2>1, <2>2 DEF InLine
<1>5. QED
  BY <1>1, <1>3, <1>4 DEF r

\* The head of the channel leaves it.
LEMMA Leaves ==
    ASSUME NEW q \in Seq(BlockInfo), q # <<>>, InLine(q)
    PROVE  /\ Head(q) \in BlockInfo /\ Tail(q) \in Seq(BlockInfo)
           /\ Len(Tail(q)) = Len(q) - 1
           /\ Range(q) = {Head(q)} \cup Range(Tail(q)) /\ Head(q) \notin Range(Tail(q))
           /\ InLine(Tail(q)) /\ \A m \in Range(Tail(q)) : m.is # "first"
<1> DEFINE r == Tail(q)
<1>1. /\ r \in Seq(BlockInfo) /\ Len(r) = Len(q) - 1 /\ Len(q) \in Nat \ {0}
      /\ DOMAIN q = 1..Len(q) /\ DOMAIN r = 1..Len(q) - 1
      /\ Head(q) = q[1] /\ Head(q) \in BlockInfo
      /\ \A i \in DOMAIN r : r[i] = q[i + 1]
  OBVIOUS
<1> HIDE DEF r
<1>2. \A i \in DOMAIN r : i + 1 \in DOMAIN q /\ i + 1 # 1
  BY <1>1
<1>3. \A i \in DOMAIN q : i = 1 \/ (i - 1 \in DOMAIN r /\ q[i] = r[i - 1])
  BY <1>1
<1>4. Range(q) = {Head(q)} \cup Range(r)
  BY <1>1, <1>2, <1>3 DEF Range
<1>5. Head(q) \notin Range(r) /\ \A m \in Range(r) : m.is # "first"
  BY <1>1, <1>2 DEF Range, InLine
<1>6. InLine(r)
  BY <1>1, <1>2, <1>5 DEF InLine, Range
<1>7. QED
  BY <1>1, <1>4, <1>5, <1>6 DEF r

\* A response joins the others, and keeps them in order if it comes after them.
LEMMA Follows ==
    ASSUME NEW p \in Seq(SUBSET Slot), NEW r \in SUBSET Slot
    PROVE  /\ InOrder(p) /\ (\A s \in UNION Range(p), t \in r : s < t) => InOrder(Append(p, r))
           /\ UNION Range(Append(p, r)) = (UNION Range(p)) \cup r
<1> DEFINE q == Append(p, r)
<1>1. /\ DOMAIN p = 1..Len(p) /\ Len(p) \in Nat /\ DOMAIN q = 1..Len(p) + 1
      /\ \A i \in DOMAIN p : q[i] = p[i]
      /\ q[Len(p) + 1] = r
  OBVIOUS
<1> HIDE DEF q
<1>2. \A i : i \in DOMAIN q <=> i \in DOMAIN p \/ i = Len(p) + 1
  BY <1>1
<1>3. Range(q) = Range(p) \cup {r}
  BY <1>1, <1>2 DEF Range
<1>4. ASSUME InOrder(p), \A s \in UNION Range(p), t \in r : s < t,
             NEW i \in DOMAIN q, NEW j \in DOMAIN q, i < j, NEW s \in q[i], NEW t \in q[j]
      PROVE  s < t
  <2>1. i \in DOMAIN p /\ s \in p[i] /\ s \in UNION Range(p)
    BY <1>1, <1>4 DEF Range
  <2>2. QED
    BY <2>1, <1>1, <1>2, <1>4 DEF InOrder
<1>5. UNION Range(q) = (UNION Range(p)) \cup r
  BY <1>3, Zenon
<1>6. InOrder(p) /\ (\A s \in UNION Range(p), t \in r : s < t) => InOrder(q)
  BY <1>4 DEF InOrder
<1>7. QED
  BY <1>5, <1>6 DEF q

\* Types in the form that the steps use.
LEMMA Typed ==
    ASSUME ReaderTypeOK
    PROVE  /\ next \in Nat /\ last_block \in Nat /\ expected_slot \in Nat /\ root \in Nat
           /\ MaxSlot \in Nat /\ FirstRoot \in Nat /\ fetching \subseteq Nat /\ got \subseteq Nat
           /\ \A m \in Range(channel) : m \in BlockInfo
           /\ \A m \in Waiting : m \in [slot : Slot, is : {"block", "none"}]
           /\ \A m \in Waiting \cup Range(channel) : m.slot \in Nat /\ m.slot \in Slot
           /\ \A m, n \in BlockInfo : m.slot = n.slot /\ m.is = n.is => m = n
<1>1. /\ next \in Nat /\ last_block \in Nat /\ expected_slot \in Nat /\ root \in Nat
      /\ MaxSlot \in Nat /\ FirstRoot \in Nat /\ fetching \subseteq Nat /\ got \subseteq Nat
      /\ Slot \subseteq Nat
  BY ReaderAssumption DEF ReaderTypeOK, Slot
<1>2. \A m \in Range(channel) : m \in BlockInfo
  BY DEF ReaderTypeOK, Range
<1>3. \A m \in Waiting : m \in [slot : Slot, is : {"block", "none"}]
  BY <1>2 DEF ReaderTypeOK, Waiting, Queue, BlockInfo
<1>4. \A m \in Waiting \cup Range(channel) : m.slot \in Nat /\ m.slot \in Slot
  BY <1>1, <1>2, <1>3, Zenon DEF BlockInfo
<1>5. \A m, n \in BlockInfo : m.slot = n.slot /\ m.is = n.is => m = n
  BY DEF BlockInfo
<1>6. QED
  BY <1>1, <1>2, <1>3, <1>4, <1>5, Zenon

\* The node answers get_slot with a slot: its root never falls below the first.
LEMMA RootIsSlot ==
    ASSUME ReaderTypeOK, Begins, NEW r \in root - Lag..root
    PROVE  r \in Slot /\ r \in Nat /\ NumberGetSlot(r) \in Nat
<1>1. /\ root \in Nat /\ root <= MaxSlot /\ MaxSlot \in Nat /\ FirstRoot \in Nat
      /\ FirstRoot <= root /\ Lag \in Nat /\ Lag <= FirstRoot
  BY ReaderAssumption DEF ReaderTypeOK, Begins, Slot
<1>2. r \in Slot /\ r \in Nat
  BY <1>1 DEF Slot
<1>3. QED
  BY <1>2, Typed, ReaderAssumption DEF NumberGetSlot, Lesser

\* Every step keeps the types: a batch ends before the bound, a message fits the
\* channel, and the end of a released run is a slot.
LEMMA TypeStep ==
    ASSUME ReaderTypeOK, Way, [ReaderNext]_readerVars
    PROVE  ReaderTypeOK'
<1> USE DEF Slot
<1>1. CASE RootGrows
  <2>1. root' \in Slot
    BY <1>1, ReaderAssumption DEF RootGrows, ReaderTypeOK
  <2>2. QED
    BY <1>1, <2>1, Zenon DEF RootGrows, ReaderTypeOK, reader, service, clients
<1>2. ASSUME NEW r \in root - Lag..root, Announce(r)
      PROVE  ReaderTypeOK'
  <2>1. r \in Slot /\ [slot |-> r, is |-> "first"] \in BlockInfo
    BY RootIsSlot DEF Way, BlockInfo
  <2>2. channel' \in Seq(BlockInfo) /\ Len(channel') <= ChannelSize
    <3>1. channel \in Seq(BlockInfo) /\ Len(channel) = 0 /\ ChannelSize \in Nat \ {0}
      BY <1>2, ReaderAssumption DEF Announce, Way, Begins, ReaderTypeOK
    <3>2. QED
      BY <1>2, <2>1, <3>1, Joins DEF Announce
  <2>3. QED
    BY <1>2, <2>1, <2>2, Zenon DEF Announce, ReaderTypeOK, service, clients
<1>3. ASSUME NEW r \in root - Lag..root, GetSlot(r)
      PROVE  ReaderTypeOK'
  <2>1. last_block' \in Slot
    BY <1>3, RootIsSlot, Typed DEF GetSlot, Way
  <2>2. QED
    BY <1>3, <2>1, Zenon DEF GetSlot, ReaderTypeOK, service, clients
<1>4. CASE Spawn
  <2>1. fetching' \subseteq Slot /\ next' \in Slot
    BY <1>4, ReaderAssumption DEF Spawn, ReaderTypeOK
  <2>2. QED
    BY <1>4, <2>1, Zenon DEF Spawn, ReaderTypeOK, service, clients
<1>5. ASSUME NEW s \in fetching, TaskPanics(s)
      PROVE  ReaderTypeOK'
  BY <1>5, Zenon DEF TaskPanics, ReaderTypeOK, service, clients
<1>6. ASSUME NEW s \in fetching, NEW is \in {"block", "none"}, get_block(s, is)
      PROVE  ReaderTypeOK'
  <2>1. /\ fetching' \subseteq Slot /\ got' \subseteq Slot
        /\ answers' \cup buffer' \subseteq [slot : Slot, is : {"block", "none"}]
    <3>1. [slot |-> s, is |-> is] \in [slot : Slot, is : {"block", "none"}] /\ s \in Slot
      BY Zenon DEF ReaderTypeOK
    <3>2. QED
      BY <1>6, <3>1, Zenon DEF get_block, ReaderTypeOK, service
  <2>2. QED
    BY <1>6, <2>1, Zenon DEF get_block, ReaderTypeOK, service, clients
<1>7. ASSUME NEW a \in answers, SendBlock(a)
      PROVE  ReaderTypeOK'
  <2>1. a \in BlockInfo /\ answers' \subseteq answers
    BY <1>7 DEF SendBlock, ReaderTypeOK, BlockInfo
  <2>2. channel' \in Seq(BlockInfo) /\ Len(channel') <= ChannelSize
    <3>1. channel \in Seq(BlockInfo) /\ Len(channel) \in Nat /\ ChannelSize \in Nat
      BY ReaderAssumption DEF ReaderTypeOK
    <3>2. QED
      BY <1>7, <2>1, <3>1, Joins DEF SendBlock
  <2>3. answers' \cup buffer' \subseteq [slot : Slot, is : {"block", "none"}]
    BY <1>7, <2>1 DEF SendBlock, ReaderTypeOK, service
  <2>4. QED
    BY <1>7, <2>2, <2>3, Zenon DEF SendBlock, ReaderTypeOK, service, clients
<1>8. ASSUME channel # <<>>, channel' = Tail(channel)
      PROVE  /\ channel' \in Seq(BlockInfo) /\ Len(channel') <= ChannelSize
             /\ Head(channel) \in BlockInfo
  <2>1. channel \in Seq(BlockInfo) /\ Len(channel) \in Nat /\ ChannelSize \in Nat
        /\ Len(channel) <= ChannelSize
    BY ReaderAssumption DEF ReaderTypeOK
  <2>2. QED
    BY <1>8, <2>1, Leaves DEF Way, Line
<1>9. CASE Seeded
  <2>1. Head(channel).slot \in 0..MaxSlot + 1
    BY <1>8, <1>9, ReaderAssumption DEF Seeded, BlockInfo
  <2>2. QED
    BY <1>8, <1>9, <2>1, Zenon DEF Seeded, ReaderTypeOK, reader, clients
<1>10. CASE Buffered
  <2>1. answers' \cup buffer' \subseteq [slot : Slot, is : {"block", "none"}]
    BY <1>8, <1>10, Zenon DEF Buffered, ReaderTypeOK, reader, BlockInfo
  <2>2. QED
    BY <1>8, <1>10, <2>1, Zenon DEF Buffered, ReaderTypeOK, reader, clients
<1>11. CASE Released
  <2>1. expected_slot' \in 0..MaxSlot + 1
    BY <1>11, ReaderAssumption DEF Released, ReaderTypeOK
  <2>2. outgoing' \subseteq Slot
    BY <1>8, <1>11 DEF Released, ReaderTypeOK, BlockInfo
  <2>3. answers' \cup buffer' \subseteq answers \cup buffer
    BY <1>11 DEF Released, reader
  <2>4. QED
    BY <1>8, <1>11, <2>1, <2>2, <2>3, Zenon DEF Released, ReaderTypeOK, reader, clients
<1>12. ASSUME NEW c \in turn, SendTo(c)
       PROVE  ReaderTypeOK'
  <2>1. c \in Conn /\ Filtered(c) \in SUBSET Slot
    BY Zenon DEF ReaderTypeOK, Filtered
  <2>2. sent' \in [Conn -> Seq(SUBSET Slot)]
    <3>1. sent \in [Conn -> Seq(SUBSET Slot)] /\ Append(sent[c], Filtered(c)) \in Seq(SUBSET Slot)
      BY <2>1 DEF ReaderTypeOK
    <3>2. sent' = sent \/ sent' = [sent EXCEPT ![c] = Append(sent[c], Filtered(c))]
      BY <1>12 DEF SendTo
    <3>3. QED
      BY <3>1, <3>2, Zenon
  <2>3. queued' \in [Conn -> 0..QueueSize]
    <3>1. queued \in [Conn -> 0..QueueSize] /\ QueueSize \in Nat
      BY ReaderAssumption DEF ReaderTypeOK
    <3>2. QED
      BY <1>12, <2>1, <3>1 DEF SendTo
  <2>4. taken' \subseteq {hash[d] : d \in Conn} /\ turn' \subseteq indexers'
    BY <1>12, <2>1 DEF SendTo, ReaderTypeOK
  <2>5. QED
    BY <1>12, <2>2, <2>3, <2>4, Zenon DEF SendTo, ReaderTypeOK, reader
<1>13. ASSUME NEW c \in Conn, register_indexer(c)
       PROVE  ReaderTypeOK'
  <2>1. indexers' \subseteq Conn /\ turn' \subseteq indexers'
        /\ since' \in [Conn -> 0..MaxSlot + 1]
    BY <1>13 DEF register_indexer, ReaderTypeOK
  <2>2. QED
    BY <1>13, <2>1, Zenon DEF register_indexer, ReaderTypeOK, reader
<1>14. ASSUME NEW c \in Conn, Read(c) \/ Close(c)
       PROVE  ReaderTypeOK'
  <2>1. queued' \in [Conn -> 0..QueueSize] /\ closed' \subseteq Conn
    <3>1. queued \in [Conn -> 0..QueueSize] /\ QueueSize \in Nat /\ closed \subseteq Conn
      BY ReaderAssumption DEF ReaderTypeOK
    <3>2. QED
      BY <1>14, <3>1 DEF Read, Close
  <2>2. UNCHANGED <<root, reader, channel, service, since>>
    BY <1>14 DEF Read, Close
  <2>3. QED
    BY <2>1, <2>2, Zenon DEF ReaderTypeOK, reader, service
<1>15. CASE UNCHANGED readerVars
  BY <1>15, Zenon DEF readerVars, reader, service, clients, ReaderTypeOK
<1>16. QED
  BY <1>1, <1>2, <1>3, <1>4, <1>5, <1>6, <1>7, <1>9, <1>10, <1>11, <1>12, <1>13, <1>14, <1>15
  DEF ReaderNext, AdapterStep, TaskStep, BroadcastStep
-----------------------------------------------------------------------------
\* The first slot is announced to an idle reader.
LEMMA AnnounceOnTheWay ==
    ASSUME ReaderTypeOK, ReaderTypeOK', Way, NEW r \in root - Lag..root, Announce(r)
    PROVE  Way'
<1> DEFINE m == [slot |-> r, is |-> "first"]
<1>1. r \in Slot /\ r \in Nat /\ m \in BlockInfo /\ m.slot = r /\ m.is = "first"
  BY RootIsSlot DEF Way, BlockInfo
<1>2. /\ announced' /\ channel' = Append(channel, m) /\ next' = r /\ last_block' = r
      /\ UNCHANGED <<root, fetching, answers, got, lost, buffer, expected_slot>>
  BY DEF Announce, service
<1> HIDE DEF m
<1>3. channel = <<>> /\ channel \in Seq(BlockInfo) /\ Range(channel) = {}
  BY DEF Way, Begins, Announce, ReaderTypeOK, Range
<1>4. next = 0 /\ expected_slot = 0
  BY Typed DEF Way, Begins, Announce
<1>5. fetching = {} /\ answers = {} /\ buffer = {} /\ got = {}
  BY <1>4, Typed DEF Way, Places, Waiting, Due
<1>6. Range(channel') = {m} /\ InLine(channel')
  <2>1. m \notin Range(channel) /\ InLine(channel)
    BY <1>3 DEF InLine
  <2>2. Range(Append(channel, m)) = Range(channel) \cup {m} /\ InLine(Append(channel, m))
    BY <1>1, <1>3, <2>1, Joins, Zenon
  <2>3. QED
    BY <1>2, <1>3, <2>2
<1>7. Waiting' = {} /\ Queue' = {} /\ Firsts' = {m}
  BY <1>1, <1>2, <1>5, <1>6 DEF Waiting, Queue, Firsts
<1>8. Begins' /\ Line' /\ Places'
  BY <1>1, <1>2, <1>4, <1>5, <1>6, <1>7, Typed DEF Way, Begins, Line, Places
<1>9. GapsAreInFlight'
  BY <1>1, <1>2, <1>6 DEF GapsAreInFlight
<1>10. QED
  BY <1>8, <1>9 DEF Way

\* A step that leaves the slots where they are: the root grows, a range is
\* extended, or connections are served, come and go.
LEMMA SameWay ==
    ASSUME Way, UNCHANGED <<announced, next, fetching, answers, got, lost, channel, buffer, expected_slot>>,
           FirstRoot <= root', next <= last_block', last_block' = last_block \/ announced
    PROVE  Way'
<1>1. Waiting' = Waiting /\ Queue' = Queue /\ Firsts' = Firsts
  BY DEF Waiting, Queue, Firsts
<1>2. Begins' /\ Line' /\ Places'
  BY <1>1 DEF Way, Begins, Line, Places, Due
<1>3. GapsAreInFlight'
  BY DEF Way, GapsAreInFlight
<1>4. QED
  BY <1>2, <1>3 DEF Way

\* The next slot is in no other place when it is requested.
LEMMA SpawnOnTheWay ==
    ASSUME ReaderTypeOK, ReaderTypeOK', Way, Spawn
    PROVE  Way'
<1>1. /\ next < last_block /\ fetching' = fetching \cup {next} /\ next' = next + 1
      /\ UNCHANGED <<root, announced, last_block, answers, got, lost, channel, buffer, expected_slot>>
  BY DEF Spawn, service
<1>2. Waiting' = Waiting /\ Queue' = Queue /\ Firsts' = Firsts
  BY <1>1 DEF Waiting, Queue, Firsts
<1>3. Begins' /\ Line'
  BY <1>1, <1>2, Typed DEF Way, Begins, Line, Firsts
<1>4. Places'
  BY <1>1, <1>2, Typed DEF Way, Begins, Line, Places, Due
<1>5. GapsAreInFlight'
  BY <1>1, Typed DEF Way, GapsAreInFlight, Slot
<1>6. QED
  BY <1>3, <1>4, <1>5 DEF Way

\* A request is answered, with a block or without.
LEMMA GetBlockOnTheWay ==
    ASSUME ReaderTypeOK, ReaderTypeOK', Way, NEW s \in fetching, NEW is \in {"block", "none"}, get_block(s, is)
    PROVE  Way'
<1> DEFINE n == [slot |-> s, is |-> is]
<1>1. /\ fetching' = fetching \ {s} /\ answers' = answers \cup {n}
      /\ got' = (IF is = "block" THEN got \cup {s} ELSE got)
      /\ UNCHANGED <<root, announced, next, last_block, lost, channel, buffer, expected_slot>>
      /\ n.slot = s /\ n.is = is
  BY DEF get_block, service
<1> HIDE DEF n
<1>2. Waiting' = Waiting \cup {n} /\ Queue' = Queue /\ Firsts' = Firsts
  BY <1>1 DEF Waiting, Queue, Firsts
<1>3. Begins' /\ Line'
  BY <1>1, <1>2 DEF Way, Begins, Line
<1>4. n \notin Waiting
  BY <1>1 DEF Way, Places
<1>5. Places'
  BY <1>1, <1>2, <1>4 DEF Way, Places, Due, Waiting
<1>6. GapsAreInFlight'
  BY <1>1 DEF Way, GapsAreInFlight
<1>7. QED
  BY <1>3, <1>5, <1>6 DEF Way

\* A task that panics leaves its slot among the lost ones.
LEMMA TaskPanicsOnTheWay ==
    ASSUME ReaderTypeOK, ReaderTypeOK', Way, NEW s \in fetching, TaskPanics(s)
    PROVE  Way'
<1>1. /\ fetching' = fetching \ {s} /\ lost' = lost \cup {s}
      /\ UNCHANGED <<root, announced, next, last_block, answers, got, channel, buffer, expected_slot>>
  BY DEF TaskPanics, service
<1>2. Waiting' = Waiting /\ Queue' = Queue /\ Firsts' = Firsts
  BY <1>1 DEF Waiting, Queue, Firsts
<1>3. Begins' /\ Line' /\ Places'
  BY <1>1, <1>2 DEF Way, Begins, Line, Places, Due
<1>4. GapsAreInFlight'
  BY <1>1 DEF Way, GapsAreInFlight
<1>5. QED
  BY <1>3, <1>4 DEF Way

\* An answer enters the channel behind the others.
LEMMA SendBlockOnTheWay ==
    ASSUME ReaderTypeOK, ReaderTypeOK', Way, NEW a \in answers, SendBlock(a)
    PROVE  Way'
<1>1. /\ answers' = answers \ {a} /\ channel' = Append(channel, a)
      /\ UNCHANGED <<root, announced, next, last_block, fetching, got, lost, buffer, expected_slot>>
  BY DEF SendBlock, service
<1>2. a \in BlockInfo /\ a.is # "first" /\ a \in Waiting /\ a.slot \in Nat /\ channel \in Seq(BlockInfo)
  BY Typed DEF ReaderTypeOK, BlockInfo, Waiting
<1>3. a \notin Range(channel) /\ a \notin buffer
  BY <1>2 DEF Way, Places, Queue
<1>4. Range(channel') = Range(channel) \cup {a} /\ InLine(channel')
  BY <1>1, <1>2, <1>3, Joins DEF Way, Line
<1>5. Waiting' = Waiting /\ Queue' = Queue \cup {a} /\ Firsts' = Firsts
  BY <1>1, <1>2, <1>4 DEF Waiting, Queue, Firsts
<1>6. announced
  BY <1>2, Typed DEF Way, Begins, Places, Due
<1>7. Begins' /\ Line'
  BY <1>1, <1>4, <1>5, <1>6 DEF Way, Begins, Line
<1>8. Places'
  BY <1>1, <1>3, <1>5 DEF Way, Places, Due
<1>9. GapsAreInFlight'
  BY <1>1, <1>2, <1>4 DEF Way, GapsAreInFlight
<1>10. QED
  BY <1>7, <1>8, <1>9 DEF Way
-----------------------------------------------------------------------------
\* What the broadcaster takes from the channel, and what it leaves there.
LEMMA Taken ==
    ASSUME ReaderTypeOK, Way, channel # <<>>, channel' = Tail(channel)
    PROVE  /\ Head(channel) \in BlockInfo /\ Head(channel).slot \in Slot
           /\ Firsts' = {} /\ InLine(channel')
           /\ IF Head(channel).is = "first"
              THEN Firsts = {Head(channel)} /\ Queue' = Queue
              ELSE /\ Firsts = {} /\ Queue = Queue' \cup {Head(channel)}
                   /\ Head(channel) \notin Queue' /\ Head(channel) \in Waiting
           /\ Range(channel) = {Head(channel)} \cup Range(channel')
<1> DEFINE h == Head(channel)
<1>1. /\ h \in BlockInfo /\ Range(channel) = {h} \cup Range(channel') /\ h \notin Range(channel')
      /\ InLine(channel') /\ \A m \in Range(channel') : m.is # "first"
  BY Leaves DEF ReaderTypeOK, Way, Line
<1> HIDE DEF h
<1>2. h.slot \in Slot
  BY <1>1 DEF BlockInfo
<1>3. QED
  BY <1>1, <1>2 DEF h, Firsts, Queue, Waiting

\* Two messages about one slot are the same.
LEMMA OneAnswer ==
    ASSUME ReaderTypeOK, Way
    PROVE  \A a, b \in Waiting : a.slot \in Slot /\ (a.slot = b.slot => a = b)
<1>1. \A a \in Waiting : a \in [slot : Slot, is : {"block", "none"}]
  BY Typed
<1>2. \A a, b \in Waiting : a.slot = b.slot => a.is = b.is
  BY <1>1 DEF Way, Places
<1>3. QED
  BY <1>1, <1>2

\* The broadcaster learns the first slot: what is before it will not come.
LEMMA SeededOnTheWay ==
    ASSUME ReaderTypeOK, ReaderTypeOK', Way, Seeded
    PROVE  Way'
<1> DEFINE h == Head(channel)
<1>1. /\ h.is = "first" /\ channel # <<>> /\ expected_slot' = h.slot /\ channel' = Tail(channel)
      /\ UNCHANGED <<root, announced, next, last_block, fetching, answers, got, lost, buffer>>
  BY DEF Seeded, reader
<1>2. /\ Firsts' = {} /\ InLine(channel') /\ Firsts = {h} /\ Queue' = Queue /\ h.slot \in Slot
      /\ Range(channel) = {h} \cup Range(channel')
  BY <1>1, Taken
<1> HIDE DEF h
<1>3. Waiting' = Waiting
  BY <1>1, <1>2 DEF Waiting
<1>4. Begins' /\ Line' /\ announced
  BY <1>1, <1>2, Typed DEF Way, Begins, Line
<1>5. Places'
  BY <1>1, <1>2, <1>3 DEF Way, Places, Due
<1>6. GapsAreInFlight'
  <2>1. ASSUME NEW s \in Slot, h.slot <= s, s < next
        PROVE  \/ s \in fetching \cup lost
               \/ \E m \in answers \cup buffer \cup Range(channel) : m.slot = s /\ m.is # "first"
    <3>1. expected_slot <= s /\ ~(s < h.slot)
      BY <1>2, <2>1, Typed DEF Way, Line, Slot
    <3>2. \A m \in Range(channel) : m.is = "first" => ~(s < m.slot)
      BY <1>2, <3>1 DEF Firsts
    <3>3. QED
      BY <1>4, <2>1, <3>1, <3>2 DEF Way, GapsAreInFlight
  <2>2. QED
    BY <1>1, <1>2, <2>1 DEF GapsAreInFlight
<1>7. QED
  BY <1>4, <1>5, <1>6 DEF Way

\* A block that comes early waits in the buffer, where no other has its slot.
LEMMA BufferedOnTheWay ==
    ASSUME ReaderTypeOK, ReaderTypeOK', Way, Buffered
    PROVE  Way'
<1> DEFINE h == Head(channel)
<1>1. /\ h.is # "first" /\ channel # <<>> /\ channel' = Tail(channel)
      /\ buffer' = {a \in buffer : a.slot # h.slot} \cup {h}
      /\ UNCHANGED <<root, announced, next, last_block, fetching, answers, got, lost, expected_slot>>
  BY DEF Buffered, reader
<1>2. /\ Firsts' = {} /\ InLine(channel') /\ Firsts = {} /\ Queue = Queue' \cup {h}
      /\ h \notin Queue' /\ h \in Waiting /\ h \in BlockInfo
      /\ Range(channel) = {h} \cup Range(channel')
  BY <1>1, Taken
<1> HIDE DEF h
<1>3. \A a \in buffer : a.slot = h.slot => a = h
  BY <1>2, OneAnswer DEF Waiting
<1>4. buffer' = buffer \cup {h} /\ Waiting' = Waiting
  BY <1>1, <1>2, <1>3 DEF Waiting
<1>5. announced
  BY <1>1 DEF Way, Begins
<1>6. Begins' /\ Line'
  BY <1>1, <1>2, <1>5 DEF Way, Begins, Line
<1>7. Places'
  BY <1>1, <1>2, <1>4 DEF Way, Places, Due
<1>8. GapsAreInFlight'
  BY <1>1, <1>2, <1>4 DEF Way, GapsAreInFlight
<1>9. QED
  BY <1>6, <1>7, <1>8 DEF Way

\* handle_incoming_block's loop: the run that leaves the buffer has no gap, is as
\* long as it can be, and holds the blocks of its slots.
LEMMA ReleasedRun ==
    ASSUME ReaderTypeOK, Way, Released
    PROVE  /\ expected_slot' \in Nat /\ expected_slot < expected_slot' /\ expected_slot' <= next
           /\ \A u \in Slot : expected_slot <= u /\ u < expected_slot' =>
                  u = Head(channel).slot \/ \E a \in buffer : a.slot = u
           /\ buffer' = {a \in buffer : expected_slot' <= a.slot}
           /\ outgoing' = {u \in got : expected_slot <= u /\ u < expected_slot'}
<1> DEFINE h == Head(channel)
           e == expected_slot
           run(end) == {a \in buffer : a.slot < end /\ a.slot > e} \cup {h}
<1>1. PICK end \in e + 1..MaxSlot + 1 :
          /\ FirstMissing(end) /\ expected_slot' = end
          /\ buffer' = buffer \ run(end)
          /\ outgoing' = {a.slot : a \in {b \in run(end) : b.is = "block"}}
  BY DEF Released
<1>2. h.is # "first" /\ channel # <<>> /\ channel' = Tail(channel) /\ h.slot = e
  BY DEF Released
<1>3. h \in Waiting /\ h \in Queue /\ Firsts = {} /\ e \in Slot
  BY <1>2, Taken
<1> HIDE DEF h
<1>4. e \in Nat /\ end \in Nat /\ e < end /\ next \in Nat /\ e < next
  BY <1>1, <1>2, <1>3, Typed DEF Way, Places, Due
<1>5. \A u \in e + 1..end - 1 : \E a \in buffer : a.slot = u
  BY <1>1 DEF FirstMissing
<1>6. \A a \in buffer : a.slot \in Nat /\ e < a.slot /\ a.slot < next
                        /\ (a.is = "block" <=> a.slot \in got)
  <2>1. \A a \in buffer : a \in Waiting /\ a # h
    BY <1>3 DEF Way, Places, Waiting
  <2>2. \A a \in buffer : a.slot \in Nat /\ a.slot # e
    BY <1>2, <1>3, <2>1, OneAnswer, Typed
  <2>3. QED
    BY <1>4, <2>1, <2>2 DEF Way, Places, Due
<1>7. end <= next
  <2>1. end = e + 1 \/ end - 1 \in e + 1..end - 1
    BY <1>4
  <2>2. QED
    BY <1>4, <1>5, <1>6, <2>1
<1>8. \A u \in Slot : e <= u /\ u < end => u = h.slot \/ \E a \in buffer : a.slot = u
  <2>1. \A u \in Nat : e <= u /\ u < end => u = e \/ u \in e + 1..end - 1
    BY <1>4
  <2>2. QED
    BY <1>2, <1>5, <2>1 DEF Slot
<1>9. buffer' = {a \in buffer : end <= a.slot}
  <2>1. \A a \in buffer : a \in run(end) <=> ~(end <= a.slot)
    BY <1>2, <1>4, <1>6
  <2>2. QED
    BY <1>1, <2>1
<1>10. outgoing' = {u \in got : e <= u /\ u < end}
  <2>1. \A a \in run(end) : a.is = "block" => a.slot \in got /\ e <= a.slot /\ a.slot < end
    BY <1>2, <1>3, <1>4, <1>6 DEF Way, Places
  <2>2. \A u \in got : e <= u /\ u < end => \E a \in run(end) : a.slot = u /\ a.is = "block"
    <3>1. ASSUME NEW u \in got, e <= u, u < end PROVE \E a \in run(end) : a.slot = u /\ a.is = "block"
      <4>1. CASE u = h.slot
        BY <1>3, <3>1, <4>1 DEF Way, Places
      <4>2. CASE \E a \in buffer : a.slot = u
        BY <1>6, <3>1, <4>2
      <4>3. QED
        BY <1>8, <3>1, <4>1, <4>2 DEF ReaderTypeOK
    <3>2. QED
      BY <3>1
  <2> HIDE DEF run
  <2>3. QED
    BY <1>1, <2>1, <2>2
<1>11. QED
  BY <1>1, <1>4, <1>7, <1>8, <1>9, <1>10 DEF h

\* A broadcast takes the run from the buffer: what is left is still due.
LEMMA ReleasedOnTheWay ==
    ASSUME ReaderTypeOK, ReaderTypeOK', Way, Released
    PROVE  Way'
<1> DEFINE h == Head(channel)
           e == expected_slot
           end == expected_slot'
<1>1. /\ h.is # "first" /\ channel # <<>> /\ channel' = Tail(channel) /\ h.slot = e
      /\ UNCHANGED <<root, announced, next, last_block, fetching, answers, got, lost>>
  BY DEF Released, reader
<1>2. /\ Firsts' = {} /\ InLine(channel') /\ Firsts = {} /\ Queue = Queue' \cup {h}
      /\ h \notin Queue' /\ h \in Waiting /\ Range(channel) = {h} \cup Range(channel')
  BY <1>1, Taken
<1>3. /\ end \in Nat /\ e < end /\ end <= next
      /\ \A u \in Slot : e <= u /\ u < end => u = h.slot \/ \E a \in buffer : a.slot = u
      /\ buffer' = {a \in buffer : end <= a.slot}
  BY ReleasedRun
<1> HIDE DEF h
<1>4. /\ Waiting' \subseteq Waiting
      /\ \A m \in Waiting' : m # h /\ (m \notin buffer \/ end <= m.slot)
  BY <1>1, <1>2, <1>3 DEF Way, Places, Waiting
<1>5. \A u \in Slot : Due(u) /\ u # h.slot /\ (\A a \in buffer : a.slot # u) => Due(u)'
  BY <1>1, <1>2, <1>3, Typed DEF Due, Slot
<1>6. Begins' /\ Line'
  BY <1>1, <1>2, <1>3 DEF Way, Begins, Line
<1>7. \A m \in Waiting' : Due(m.slot)'
  <2>1. ASSUME NEW m \in Waiting' PROVE Due(m.slot) /\ m.slot \in Slot /\ m.slot # h.slot
    BY <1>2, <1>4, OneAnswer DEF Way, Places
  <2>2. ASSUME NEW m \in Waiting', m \notin buffer PROVE \A a \in buffer : a.slot # m.slot
    BY <1>4, <2>2, OneAnswer DEF Waiting
  <2>3. ASSUME NEW m \in Waiting', end <= m.slot PROVE Due(m.slot)'
    BY <1>1, <1>2, <2>1, <2>3 DEF Due
  <2>4. QED
    BY <1>4, <1>5, <2>1, <2>2, <2>3
<1>8. Places'
  <2>1. \A s \in fetching : s \in Slot /\ Due(s) /\ s # h.slot /\ \A a \in buffer : a.slot # s
    BY <1>2 DEF ReaderTypeOK, Way, Places, Waiting
  <2>2. QED
    BY <1>1, <1>2, <1>3, <1>4, <1>5, <1>7, <2>1 DEF Way, Places
<1>9. GapsAreInFlight'
  <2>1. ASSUME NEW s \in Slot, announced, end <= s, s < next
        PROVE  \/ s \in fetching \cup lost
               \/ \E m \in answers \cup buffer' \cup Range(channel') : m.slot = s /\ m.is # "first"
    <3>1. e <= s /\ s # h.slot
      BY <1>1, <1>3, <2>1, Typed DEF Slot
    <3>2. \A m \in Range(channel) : m.is # "first"
      BY <1>2 DEF Firsts
    <3>3. QED
      BY <1>2, <1>3, <2>1, <3>1, <3>2 DEF Way, GapsAreInFlight
  <2>2. QED
    BY <1>1, <2>1 DEF GapsAreInFlight
<1>10. QED
  BY <1>6, <1>8, <1>9 DEF Way

\* Every step keeps each slot on its way.
LEMMA WayStep ==
    ASSUME ReaderTypeOK, ReaderTypeOK', Way, [ReaderNext]_readerVars
    PROVE  Way'
<1>1. next <= last_block /\ FirstRoot <= root
  BY DEF Way, Begins
<1>2. CASE RootGrows
  <2>1. FirstRoot <= root'
    BY <1>1, <1>2, Typed DEF RootGrows
  <2>2. QED
    BY <1>1, <1>2, <2>1, SameWay DEF RootGrows, reader, service
<1>3. ASSUME NEW r \in root - Lag..root, GetSlot(r) PROVE Way'
  <2>1. next <= last_block'
    BY <1>3, RootIsSlot, Typed DEF GetSlot, Way
  <2>2. QED
    BY <1>1, <1>3, <2>1, SameWay DEF GetSlot, service
<1>4. ASSUME NEW c \in turn, SendTo(c) PROVE Way'
  BY <1>1, <1>4, SameWay DEF SendTo, reader
<1>5. ASSUME NEW c \in Conn, register_indexer(c) \/ Read(c) \/ Close(c) PROVE Way'
  BY <1>1, <1>5, SameWay DEF register_indexer, Read, Close, reader, service
<1>6. CASE UNCHANGED readerVars
  BY <1>1, <1>6, SameWay DEF readerVars, reader, service
<1>7. QED
  BY <1>2, <1>3, <1>4, <1>5, <1>6, AnnounceOnTheWay, SpawnOnTheWay, GetBlockOnTheWay,
     TaskPanicsOnTheWay, SendBlockOnTheWay, SeededOnTheWay, BufferedOnTheWay, ReleasedOnTheWay
  DEF ReaderNext, AdapterStep, TaskStep, BroadcastStep
-----------------------------------------------------------------------------
\* What a connection is sent are slots.
LEMMA SentSlots ==
    ASSUME ReaderTypeOK
    PROVE  \A c \in Conn : SentTo(c) \subseteq Nat
<1>1. SUFFICES ASSUME NEW c \in Conn, NEW i \in DOMAIN sent[c]
               PROVE  sent[c][i] \subseteq Nat
  BY DEF SentTo, Range
<1>2. sent[c] \in Seq(SUBSET Slot)
  BY <1>1 DEF ReaderTypeOK
<1>3. sent[c][i] \in SUBSET Slot
  BY <1>1, <1>2
<1>4. QED
  BY <1>3, ReaderAssumption DEF Slot

\* A registered connection has blocks from some slot on.
LEMMA SinceSlot ==
    ASSUME ReaderTypeOK, Served
    PROVE  \A c \in indexers : since[c] \in Nat /\ since[c] <= expected_slot
<1>1. since \in [Conn -> 0..MaxSlot + 1] /\ indexers \subseteq Conn
  BY DEF ReaderTypeOK
<1>2. \A c \in indexers : since[c] \in 0..MaxSlot + 1 /\ since[c] <= expected_slot
  BY <1>1, Zenon DEF Served, Early
<1>3. MaxSlot \in Nat
  BY ReaderAssumption
<1>4. QED
  BY <1>2, <1>3

\* A step outside the broadcast: connections are owed what they were.
LEMMA SameServed ==
    ASSUME Served,
           UNCHANGED <<expected_slot, indexers, outgoing, turn, taken, sent, since>>,
           closed \subseteq closed', got \subseteq got',
           \A s \in got' \ got : ~(s < expected_slot)
    PROVE  Served'
<1>1. \A c : Owed(c)' = Owed(c) /\ SentTo(c)' = SentTo(c) /\ Lacks(c)' = Lacks(c)
  BY DEF Owed, SentTo, Lacks
<1>2. \A c \in indexers \ closed : Complete(c)'
  BY <1>1 DEF Served, Complete
<1>3. Early' /\ Apart'
  BY <1>1 DEF Served, Early, Apart
<1>4. QED
  BY <1>2, <1>3 DEF Served

\* The release of a run: every connection lacks just the blocks of the run.
LEMMA ReleasedServed ==
    ASSUME ReaderTypeOK, ReaderTypeOK', Way, Served, Released
    PROVE  Served'
<1>1. /\ turn = {} /\ indexers' = indexers \ closed /\ turn' = indexers' /\ taken' = {}
      /\ UNCHANGED <<got, sent, since, closed>>
  BY DEF Released, reader, clients
<1>2. PICK e : e = expected_slot
  OBVIOUS
<1>3. PICK end : end = expected_slot'
  OBVIOUS
<1>4. /\ e \in Nat /\ end \in Nat /\ e < end
      /\ outgoing' = {u \in got : e <= u /\ u < end}
  BY <1>2, <1>3, ReleasedRun, Typed
<1>5. \A c \in indexers : since[c] \in Nat /\ since[c] <= e
  BY <1>2, SinceSlot
<1>6. got \subseteq Nat /\ \A c \in Conn : SentTo(c) \subseteq Nat
  BY Typed, SentSlots
<1>7. \A c : SentTo(c)' = SentTo(c)
  BY <1>1 DEF SentTo
<1>8. \A c : /\ Owed(c) = {s \in got : since[c] <= s /\ s < e /\ hash[c] \in Match[s]}
             /\ Owed(c)' = {s \in got : since[c] <= s /\ s < end /\ hash[c] \in Match[s]}
  BY <1>1, <1>2, <1>3 DEF Owed
<1>9. \A s \in got : s < e <=> s < end /\ s \notin outgoing'
  BY <1>4, <1>6
<1>10. Early'
  <2>1. \A c \in Conn : \A t \in SentTo(c) : t < e /\ t < end /\ t \in Nat
    <3>1. \A c \in Conn : \A t \in SentTo(c) : t < e /\ t \in Nat
      BY <1>2, <1>6 DEF Served, Early
    <3>2. QED
      BY <3>1, <1>4
  <2>2. \A c \in Conn : \A t \in SentTo(c), s \in outgoing' : t < s
    BY <2>1, <1>4, <1>6
  <2>3. \A c \in indexers' : since[c] <= end
    BY <1>1, <1>4, <1>5
  <2>4. ASSUME NEW c \in turn', NEW s \in outgoing'
        PROVE  s \in got /\ since[c] <= s /\ s < end
    <3>1. s \in got /\ e <= s /\ s < end /\ c \in indexers
      BY <1>1, <1>4
    <3>2. QED
      BY <3>1, <1>4, <1>5, <1>6
  <2>5. \A c \in Conn : c \notin indexers' \cup closed' => sent'[c] = <<>>
    BY <1>1 DEF Served, Early
  <2>6. QED
    BY <1>1, <1>3, <1>7, <2>1, <2>2, <2>3, <2>4, <2>5 DEF Early
<1>11. Apart'
  BY <1>7 DEF Served, Apart
<1>12. ASSUME NEW c \in indexers' \ closed'
       PROVE  Complete(c)'
  <2>1. Complete(c) /\ Lacks(c) = {} /\ Lacks(c)' = outgoing'
    BY <1>1, <1>12 DEF Served, Lacks
  <2>2. Owed(c) \subseteq Owed(c)' /\ Owed(c)' \ outgoing' \subseteq Owed(c)
    BY <1>8, <1>9
  <2>3. InOrder(sent[c])'
    BY <2>1, <1>1 DEF Complete
  <2>4. QED
    BY <1>7, <2>1, <2>2, <2>3 DEF Complete
<1>13. QED
  BY <1>10, <1>11, <1>12 DEF Served

\* The first connection of its hash to be served gets all that it lacks.
LEMMA FirstServed ==
    ASSUME ReaderTypeOK, ReaderTypeOK', Served, NEW c \in turn, SendTo(c), hash[c] \notin taken
    PROVE  Served'
<1>1. /\ turn' = turn \ {c} /\ taken' = taken \cup {hash[c]}
      /\ UNCHANGED <<expected_slot, indexers, outgoing, closed, since, got>>
      /\ \/ Filtered(c) = {} /\ sent' = sent
         \/ sent' = [sent EXCEPT ![c] = Append(@, Filtered(c))]
  BY DEF SendTo, reader
<1>2. /\ c \in indexers /\ c \in Conn /\ turn \subseteq Conn /\ indexers \subseteq Conn
      /\ sent \in [Conn -> Seq(SUBSET Slot)]
  BY DEF ReaderTypeOK
<1>3. Filtered(c) = {s \in outgoing : hash[c] \in Match[s]} /\ Filtered(c) \in SUBSET Slot
  BY DEF Filtered, ReaderTypeOK
<1>4. \A d \in Conn : d # c => sent'[d] = sent[d] /\ SentTo(d)' = SentTo(d)
  BY <1>1, <1>2 DEF SentTo
<1>5. \A d \in Conn : hash[d] = hash[c] => \A t \in SentTo(d), s \in outgoing : t < s
  BY DEF Served, Early
<1>6. SentTo(c)' = SentTo(c) \cup Filtered(c) /\ (InOrder(sent[c]) => InOrder(sent'[c]))
  <2>1. CASE Filtered(c) = {} /\ sent' = sent
    BY <2>1 DEF SentTo
  <2>2. CASE sent' = [sent EXCEPT ![c] = Append(@, Filtered(c))]
    <3>1. sent'[c] = Append(sent[c], Filtered(c)) /\ sent[c] \in Seq(SUBSET Slot)
      BY <2>2, <1>2
    <3>2. \A s \in UNION Range(sent[c]), t \in Filtered(c) : s < t
      BY <1>2, <1>3, <1>5 DEF SentTo
    <3>3. UNION Range(Append(sent[c], Filtered(c))) = (UNION Range(sent[c])) \cup Filtered(c)
      BY <3>1, <1>3, Follows
    <3>4. InOrder(sent[c]) => InOrder(Append(sent[c], Filtered(c)))
      BY <3>1, <3>2, <1>3, Follows
    <3>5. QED
      BY <3>1, <3>3, <3>4 DEF SentTo
  <2>3. QED
    BY <1>1, <2>1, <2>2
<1>7. \A s \in outgoing : s \in got /\ since[c] <= s /\ s < expected_slot
  BY DEF Served, Early
<1>8. \A d : Owed(d)' = Owed(d)
  BY <1>1 DEF Owed
<1>9. Early'
  <2>1. \A d \in Conn : \A t \in SentTo(d)' : t < expected_slot
    BY <1>3, <1>4, <1>6, <1>7 DEF Served, Early
  <2>2. \A d \in Conn : d \notin indexers' \cup closed' => sent'[d] = <<>>
    BY <1>1, <1>2, <1>4 DEF Served, Early
  <2>3. ASSUME NEW d \in turn', hash[d] \notin taken', NEW f \in Conn, hash[f] = hash[d]
        PROVE  \A t \in SentTo(f)', s \in outgoing : t < s
    <3>1. d \in turn /\ hash[d] \notin taken /\ f # c
      BY <1>1, <2>3
    <3>2. \A t \in SentTo(f), s \in outgoing : t < s
      BY <3>1, <2>3 DEF Served, Early
    <3>3. QED
      BY <3>1, <3>2, <1>4
  <2>4. \A d \in turn' : \A s \in outgoing : s \in got /\ since[d] <= s /\ s < expected_slot
    BY <1>1 DEF Served, Early
  <2>5. \A d \in indexers : since[d] <= expected_slot
    BY DEF Served, Early
  <2>6. QED
    BY <1>1, <2>1, <2>2, <2>3, <2>4, <2>5 DEF Early
<1>10. Apart'
  <2>1. SUFFICES ASSUME NEW d \in Conn, NEW f \in Conn, d # f, hash[d] = hash[f],
                        NEW t \in SentTo(d)', t \in SentTo(f)'
                 PROVE  FALSE
    BY DEF Apart
  <2>2. \A g \in Conn : hash[g] = hash[c] => \A u \in Filtered(c) : u \notin SentTo(g)
    <3>1. SUFFICES ASSUME NEW g \in Conn, hash[g] = hash[c], NEW u \in Filtered(c), u \in SentTo(g)
                   PROVE  FALSE
      OBVIOUS
    <3>2. u < u /\ u \in Slot
      BY <3>1, <1>3, <1>5
    <3>3. QED
      BY <3>2, ReaderAssumption DEF Slot
  <2>3. d # c /\ f # c => t \in SentTo(d) /\ t \in SentTo(f)
    BY <2>1, <1>4
  <2>4. d = c => (t \in SentTo(c) \/ t \in Filtered(c)) /\ t \in SentTo(f)
    BY <2>1, <1>4, <1>6
  <2>5. f = c => (t \in SentTo(c) \/ t \in Filtered(c)) /\ t \in SentTo(d)
    BY <2>1, <1>4, <1>6
  <2>6. QED
    BY <2>1, <2>2, <2>3, <2>4, <2>5 DEF Served, Apart
<1>11. ASSUME NEW d \in indexers' \ closed'
       PROVE  Complete(d)'
  <2>1. Complete(d) /\ d \in Conn
    BY <1>1, <1>2, <1>11 DEF Served
  <2>2. InOrder(sent'[d])
    BY <2>1, <1>4, <1>6 DEF Complete
  <2>3. SentTo(d)' \subseteq Owed(d)
    <3>1. d = c => Filtered(c) \subseteq Owed(c)
      BY <1>3, <1>7 DEF Owed
    <3>2. QED
      BY <2>1, <3>1, <1>4, <1>6 DEF Complete
  <2>4. ASSUME NEW s \in Owed(d) \ Lacks(d)'
        PROVE  \E f \in Conn : hash[f] = hash[d] /\ s \in SentTo(f)'
    <3>1. CASE s \notin Lacks(d)
      <4>1. PICK f \in Conn : hash[f] = hash[d] /\ s \in SentTo(f)
        BY <2>1, <2>4, <3>1 DEF Complete
      <4>2. s \in SentTo(f)'
        BY <4>1, <1>4, <1>6
      <4>3. QED
        BY <4>1, <4>2
    <3>2. CASE s \in Lacks(d)
      <4>1. d \in turn /\ hash[d] \notin taken /\ s \in outgoing /\ hash[d] \in Match[s]
        BY <2>4, <3>2 DEF Lacks, Owed
      <4>2. hash[d] = hash[c]
        BY <2>4, <4>1, <1>1 DEF Lacks
      <4>3. s \in SentTo(c)'
        BY <4>1, <4>2, <1>3, <1>6
      <4>4. QED
        BY <4>2, <4>3, <1>2
    <3>3. QED
      BY <3>1, <3>2
  <2>5. QED
    BY <2>2, <2>3, <2>4, <1>8 DEF Complete
<1>12. QED
  BY <1>9, <1>10, <1>11 DEF Served

\* A later connection of the hash gets nothing and lacks nothing.
LEMMA SendToServed ==
    ASSUME ReaderTypeOK, ReaderTypeOK', Served, NEW c \in turn, SendTo(c)
    PROVE  Served'
<1>1. CASE hash[c] \notin taken
  BY <1>1, FirstServed
<1>2. CASE hash[c] \in taken
  <2>1. /\ turn' = turn \ {c} /\ taken' = taken
        /\ UNCHANGED <<expected_slot, indexers, outgoing, closed, since, got, sent>>
    BY <1>2 DEF SendTo, Filtered, reader
  <2>2. \A d : /\ Owed(d)' = Owed(d) /\ SentTo(d)' = SentTo(d)
               /\ Lacks(d)' = Lacks(d)
    BY <1>2, <2>1 DEF Owed, SentTo, Lacks
  <2>3. Early'
    BY <2>1, <2>2 DEF Served, Early
  <2>4. Apart' /\ \A d \in indexers \ closed : Complete(d)'
    BY <2>1, <2>2 DEF Served, Apart, Complete
  <2>5. QED
    BY <2>1, <2>3, <2>4 DEF Served
<1>3. QED
  BY <1>1, <1>2

\* A new connection lacks nothing: its blocks begin with the expected slot.
LEMMA RegisterServed ==
    ASSUME ReaderTypeOK, ReaderTypeOK', Served, NEW c \in Conn, register_indexer(c)
    PROVE  Served'
<1>1. /\ turn = {} /\ c \notin indexers \cup closed /\ indexers' = indexers \cup {c}
      /\ since' = [since EXCEPT ![c] = expected_slot]
      /\ UNCHANGED <<expected_slot, outgoing, turn, taken, sent, closed, got>>
  BY DEF register_indexer, reader
<1>2. /\ since \in [Conn -> 0..MaxSlot + 1] /\ indexers \subseteq Conn
      /\ expected_slot \in Nat /\ got \subseteq Nat
  BY Typed, Zenon DEF ReaderTypeOK
<1>3. since'[c] = expected_slot /\ \A d \in indexers : since'[d] = since[d] /\ d # c
  BY <1>1, <1>2
<1>4. sent[c] = <<>>
  BY <1>1 DEF Served, Early
<1>5. \A d \in indexers : Owed(d)' = Owed(d)
  BY <1>1, <1>3 DEF Owed
<1>6. Owed(c)' = {}
  <2>1. \A s \in got : ~(since'[c] <= s /\ s < expected_slot)
    BY <1>2, <1>3
  <2>2. QED
    BY <2>1, <1>1 DEF Owed
<1>7. InOrder(sent[c]) /\ SentTo(c) = {}
  <2>1. DOMAIN sent[c] = {}
    BY <1>4
  <2>2. Range(sent[c]) = {}
    BY <2>1 DEF Range
  <2>3. QED
    BY <2>1, <2>2 DEF InOrder, SentTo
<1>8. \A d : SentTo(d)' = SentTo(d) /\ Lacks(d)' = Lacks(d)
  BY <1>1 DEF SentTo, Lacks
<1>9. \A d \in indexers' \ closed' : Complete(d)'
  <2>1. Complete(c)'
    BY <1>1, <1>6, <1>7, <1>8 DEF Complete
  <2>2. ASSUME NEW d \in indexers \ closed PROVE Complete(d)'
    <3>1. Complete(d) /\ Owed(d)' = Owed(d) /\ sent' = sent
      BY <2>2, <1>1, <1>5 DEF Served
    <3>2. QED
      BY <3>1, <1>8 DEF Complete
  <2>3. QED
    BY <2>1, <2>2, <1>1
<1>10. Early'
  <2>1. \A d \in indexers' : since'[d] <= expected_slot'
    <3>1. \A d \in indexers : since'[d] <= expected_slot
      BY <1>3, SinceSlot
    <3>2. since'[c] <= expected_slot
      BY <1>2, <1>3
    <3>3. QED
      BY <1>1, <3>1, <3>2
  <2>2. QED
    BY <2>1, <1>1, <1>8 DEF Served, Early
<1>11. Apart'
  BY <1>8 DEF Served, Apart
<1>12. QED
  BY <1>9, <1>10, <1>11 DEF Served

\* Every step keeps what connections have been sent in order and complete.
LEMMA ServedStep ==
    ASSUME ReaderTypeOK, ReaderTypeOK', Way, Served, [ReaderNext]_readerVars
    PROVE  Served'
<1>1. ASSUME UNCHANGED <<expected_slot, indexers, outgoing, turn, taken, sent, since, got>>,
             closed \subseteq closed'
      PROVE  Served'
  BY <1>1, SameServed
<1>2. CASE RootGrows
  BY <1>1, <1>2 DEF RootGrows, reader, service, clients
<1>3. CASE AdapterStep
  BY <1>1, <1>3, Zenon DEF AdapterStep, Announce, GetSlot, Spawn, service, clients
<1>4. ASSUME NEW s \in fetching, TaskPanics(s) PROVE Served'
  BY <1>1, <1>4 DEF TaskPanics, service, clients
<1>5. ASSUME NEW s \in fetching, NEW is \in {"block", "none"}, get_block(s, is) PROVE Served'
  <2>1. ~(s < expected_slot)
    <3>1. expected_slot <= s /\ s \in Nat
      BY Typed DEF Way, Places, Due
    <3>2. QED
      BY <3>1, Typed
  <2>2. got \subseteq got' /\ got' \ got \subseteq {s} /\ UNCHANGED <<service, clients>>
    BY <1>5 DEF get_block
  <2>3. QED
    BY <2>1, <2>2, SameServed DEF service, clients
<1>6. ASSUME NEW a \in answers, SendBlock(a) PROVE Served'
  BY <1>1, <1>6 DEF SendBlock, service, clients
<1>7. CASE Seeded
  <2>1. /\ turn = {} /\ channel # <<>> /\ Head(channel).is = "first" /\ channel' = Tail(channel)
        /\ expected_slot' = Head(channel).slot
        /\ UNCHANGED <<got, indexers, outgoing, turn, taken, sent, closed, since>>
    BY <1>7 DEF Seeded, reader, clients
  <2>2. Firsts = {Head(channel)} /\ Head(channel).slot \in Slot
    BY <2>1, Taken
  <2>3. expected_slot = 0 /\ \A s \in got : Head(channel).slot <= s
    BY <2>2 DEF Way, Line, Places
  <2>4. expected_slot' \in Nat
    BY <2>1, <2>2 DEF Slot
  <2>5. \A s \in got : ~(s < expected_slot) /\ ~(s < expected_slot')
    BY <2>1, <2>3, <2>4, Typed
  <2>6. \A c : Owed(c)' = Owed(c) /\ SentTo(c)' = SentTo(c) /\ Lacks(c)' = Lacks(c)
    <3>1. ASSUME NEW c PROVE Owed(c)' = {} /\ Owed(c) = {}
      <4>1. got' = got
        BY <2>1
      <4>2. QED
        BY <4>1, <2>5 DEF Owed
    <3>2. \A c : SentTo(c)' = SentTo(c) /\ Lacks(c)' = Lacks(c)
      BY <2>1 DEF SentTo, Lacks
    <3>3. QED
      BY <3>1, <3>2
  <2>7. \A c \in indexers : since[c] <= expected_slot'
    <3>1. \A c \in indexers : since[c] \in Nat /\ since[c] <= 0
      BY <2>3, SinceSlot
    <3>2. QED
      BY <3>1, <2>4
  <2>8. \A c \in Conn : \A t \in SentTo(c) : t < expected_slot'
    <3>1. \A c \in Conn : \A t \in SentTo(c) : t \in Nat /\ t < 0
      BY <2>3, SentSlots DEF Served, Early
    <3>2. QED
      BY <3>1, <2>4
  <2>9. Early'
    BY <2>1, <2>6, <2>7, <2>8 DEF Served, Early
  <2>10. Apart' /\ \A c \in indexers \ closed : Complete(c)'
    BY <2>1, <2>6 DEF Served, Apart, Complete
  <2>11. QED
    BY <2>1, <2>9, <2>10 DEF Served
<1>8. CASE Buffered
  BY <1>1, <1>8 DEF Buffered, reader, clients
<1>9. CASE Released
  BY <1>9, ReleasedServed
<1>10. ASSUME NEW c \in turn, SendTo(c) PROVE Served'
  BY <1>10, SendToServed
<1>11. ASSUME NEW c \in Conn, register_indexer(c) PROVE Served'
  BY <1>11, RegisterServed
<1>12. ASSUME NEW c \in Conn, Read(c) \/ Close(c) PROVE Served'
  BY <1>1, <1>12 DEF Read, Close, reader, service
<1>13. CASE UNCHANGED readerVars
  BY <1>1, <1>13 DEF readerVars, reader, service, clients
<1>14. QED
  BY <1>2, <1>3, <1>4, <1>5, <1>6, <1>7, <1>8, <1>9, <1>10, <1>11, <1>12, <1>13
  DEF ReaderNext, TaskStep, BroadcastStep
-----------------------------------------------------------------------------
\* The reader and the broadcaster start with nothing on its way.
LEMMA InitHolds ==
    ASSUME ReaderInit
    PROVE  ReaderTypeOK /\ Way /\ Served
<1>1. /\ root = FirstRoot /\ announced = FALSE /\ next = 0 /\ last_block = 0
      /\ fetching = {} /\ answers = {} /\ got = {} /\ lost = {} /\ channel = <<>>
      /\ expected_slot = 0 /\ buffer = {} /\ indexers = {} /\ outgoing = {} /\ turn = {}
      /\ taken = {} /\ closed = {}
  BY DEF ReaderInit
<1>2. /\ queued = [c \in Conn |-> 0] /\ since = [c \in Conn |-> 0]
      /\ sent = [c \in Conn |-> <<>>]
  BY DEF ReaderInit
<1>3. /\ FirstRoot \in Slot /\ 0 \in Slot /\ 0 \in 0..MaxSlot + 1 /\ 0 \in 0..QueueSize
      /\ 0 <= ChannelSize /\ 0 <= 0 /\ FirstRoot <= FirstRoot
  <2>1. MaxSlot \in Nat /\ FirstRoot \in Slot /\ ChannelSize \in Nat /\ QueueSize \in Nat
    BY ReaderAssumption
  <2>2. QED
    BY <2>1 DEF Slot
<1>4. ReaderTypeOK
  <2>1. /\ queued \in [Conn -> 0..QueueSize] /\ since \in [Conn -> 0..MaxSlot + 1]
        /\ sent \in [Conn -> Seq(SUBSET Slot)]
    BY <1>2, <1>3
  <2>2. channel \in Seq(BlockInfo) /\ Len(channel) = 0
    BY <1>1
  <2>3. QED
    BY <1>1, <1>3, <2>1, <2>2, Zenon DEF ReaderTypeOK
<1>5. Range(channel) = {} /\ InLine(channel)
  BY <1>1 DEF Range, InLine
<1>6. Begins /\ Line /\ Places
  BY <1>1, <1>3, <1>5, Zenon DEF Begins, Line, Places, Waiting, Queue, Firsts
<1>7. GapsAreInFlight
  BY <1>1, Zenon DEF GapsAreInFlight
<1>8. Served
  <2>1. \A c \in Conn : SentTo(c) = {}
    BY <1>2 DEF SentTo, Range
  <2>2. QED
    BY <1>1, <1>2, <2>1, Zenon DEF Served, Early, Apart
<1>9. QED
  BY <1>4, <1>6, <1>7, <1>8 DEF Way

\* The types hold and a gap before the expected slot's successors is always on
\* its way or lost with its task: handle_incoming_block never waits for a slot
\* that nobody will send while its task lives, whatever order tasks answer in.
THEOREM GapsHold == ReaderSpec => [](ReaderTypeOK /\ GapsAreInFlight)
<1>1. ReaderInit => ReaderTypeOK /\ Way
  BY InitHolds
<1>2. ReaderTypeOK /\ Way /\ [ReaderNext]_readerVars => (ReaderTypeOK /\ Way)'
  <2>1. SUFFICES ASSUME ReaderTypeOK, Way, [ReaderNext]_readerVars PROVE ReaderTypeOK' /\ Way'
    OBVIOUS
  <2>2. ReaderTypeOK'
    BY <2>1, TypeStep DEF Way
  <2>3. QED
    BY <2>1, <2>2, WayStep
<1>3. ReaderTypeOK /\ Way => ReaderTypeOK /\ GapsAreInFlight
  BY DEF Way
<1>4. QED
  BY <1>1, <1>2, <1>3, PTL DEF ReaderSpec

\* Whatever connections share a hash, blocks are neither repeated nor reordered,
\* and none is lost: between two broadcasts of broadcast_blocks an open connection
\* has been sent the blocks since its registration that match its filter, except
\* those that went to another connection with its hash.
THEOREM SlotsAccounted == ReaderSpec => []SlotsAreAccounted
<1>1. ReaderInit => ReaderTypeOK /\ Way /\ Served
  BY InitHolds
<1>2. ReaderTypeOK /\ Way /\ Served /\ [ReaderNext]_readerVars => (ReaderTypeOK /\ Way /\ Served)'
  <2>1. SUFFICES ASSUME ReaderTypeOK, Way, Served, [ReaderNext]_readerVars PROVE ReaderTypeOK' /\ Way' /\ Served'
    OBVIOUS
  <2>2. ReaderTypeOK'
    BY <2>1, TypeStep DEF Way
  <2>3. Way'
    BY <2>1, <2>2, WayStep
  <2>4. QED
    BY <2>1, <2>2, <2>3, ServedStep
<1>3. ReaderTypeOK /\ Way /\ Served => SlotsAreAccounted
  <2>1. SUFFICES ASSUME ReaderTypeOK, Way, Served PROVE SentWhatMatches
    BY DEF SlotsAreAccounted, Way
  <2>2. SUFFICES ASSUME turn = {}, NEW c \in indexers \ closed
                 PROVE  InOrder(sent[c]) /\ SentTo(c) = Owed(c) \ Rivals(c)
    BY DEF SentWhatMatches
  <2>3. Complete(c) /\ Lacks(c) = {} /\ c \in Conn
    BY <2>1, <2>2 DEF Served, Lacks, ReaderTypeOK
  <2>4. \A s : s \in Rivals(c) <=> \E d \in Conn \ {c} : hash[d] = hash[c] /\ s \in SentTo(d)
    BY DEF Rivals
  <2>5. \A s \in SentTo(c) : s \in Owed(c) /\ s \notin Rivals(c)
    BY <2>1, <2>3, <2>4 DEF Complete, Served, Apart
  <2>6. \A s \in Owed(c) : s \notin Rivals(c) => s \in SentTo(c)
    BY <2>3, <2>4 DEF Complete
  <2>7. QED
    BY <2>3, <2>5, <2>6 DEF Complete
<1>4. QED
  BY <1>1, <1>2, <1>3, PTL DEF ReaderSpec
=============================================================================
