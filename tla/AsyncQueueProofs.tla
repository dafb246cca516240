---------------------------- MODULE AsyncQueueProofs ----------------------------
(***************************************************************************)
(* The request queue in detail keeps its indexes and its timers consistent *)
(* and implements the queue its users see, for every capacity, number of   *)
(* clients and io_contexts, and every wait duration.                       *)
(***************************************************************************)
EXTENDS AsyncQueue, ListFacts, TimeTraitsProofs

(* The indexes without functions that are built from them, for the provers. *)

IndexedNodes == {e.node : e \in Range(expiring)}

NodesDistinct ==
    \A i, j \in DOMAIN expiring : expiring[i].node = expiring[j].node => i = j

IndexesOK ==
    /\ Range(ordered) = IndexedNodes
    /\ Range(ordered) \cup Range(spare) = DOMAIN node
    /\ Range(ordered) \cap Range(spare) = {}
    /\ IsInjective(ordered) /\ NodesDistinct /\ IsInjective(spare)
    /\ \A n \in DOMAIN node : n \in Range(spare) <=> node[n].request = NoRequest

\* The multimap is in the order of its keys.
Sorted == \A i, j \in DOMAIN expiring : i <= j => expiring[i].at <= expiring[j].at

\* A wait completes without an error only after its deadline, even if its
\* handler runs much later.
FiredAreDue == \A w \in ready : ~w.aborted => w.expires_at <= now

QueueInv ==
    /\ TypeOK
    /\ IndexesOK
    /\ EarliestHasWait
    /\ Sorted
    /\ FiredAreDue

LEMMA IndexesForm == IndexesOK => IndexesAgree
<1> SUFFICES ASSUME IndexesOK PROVE IndexesAgree
  OBVIOUS
<1> DEFINE byDeadline == [i \in DOMAIN expiring |-> expiring[i].node]
<1>1. DOMAIN byDeadline = DOMAIN expiring
      /\ \A i \in DOMAIN expiring : byDeadline[i] = expiring[i].node
  OBVIOUS
<1> HIDE DEF byDeadline
<1>2. Range(byDeadline) = IndexedNodes
  BY <1>1 DEF Range, IndexedNodes
<1>3. IsInjective(byDeadline)
  BY <1>1 DEF IndexesOK, NodesDistinct, IsInjective
<1> QED BY <1>2, <1>3 DEF IndexesOK, IndexesAgree, byDeadline

\* What TypeOK says of positions.
LEMMA ListTypes ==
    ASSUME TypeOK
    PROVE  /\ Len(expiring) \in Nat /\ DOMAIN expiring = 1..Len(expiring)
           /\ \A i \in DOMAIN expiring : expiring[i] \in Entry
           /\ \A i \in DOMAIN expiring : expiring[i].at \in Int /\ expiring[i].node \in DOMAIN node
           /\ Len(ordered) \in Nat /\ DOMAIN ordered = 1..Len(ordered)
           /\ \A i \in DOMAIN ordered : ordered[i] \in DOMAIN node
           /\ Len(node) \in Nat /\ DOMAIN node = 1..Len(node)
           /\ \A n \in DOMAIN node : node[n] \in Node
<1>1. /\ Len(expiring) \in Nat /\ DOMAIN expiring = 1..Len(expiring)
      /\ \A i \in DOMAIN expiring : expiring[i] \in Entry
  BY LenProperties, ElementOfSeq DEF TypeOK
<1>2. \A i \in DOMAIN expiring : expiring[i].at \in Int /\ expiring[i].node \in DOMAIN node
  <2>1. TimePoint \subseteq Int
    BY TimeMaxAssumption DEF TimePoint, TimeMin
  <2> QED BY <1>1, <2>1 DEF Entry
<1>3. /\ Len(ordered) \in Nat /\ DOMAIN ordered = 1..Len(ordered)
      /\ \A i \in DOMAIN ordered : ordered[i] \in DOMAIN node
  BY LenProperties, ElementOfSeq DEF TypeOK
<1>4. /\ Len(node) \in Nat /\ DOMAIN node = 1..Len(node)
      /\ \A n \in DOMAIN node : node[n] \in Node
  BY LenProperties, ElementOfSeq DEF TypeOK
<1> QED BY <1>1, <1>2, <1>3, <1>4

\* The multimap lists its nodes, each once.
LEMMA IndexLists ==
    ASSUME TypeOK, IndexesOK
    PROVE  Lists([i \in 1..Len(expiring) |-> expiring[i].node], Len(expiring), IndexedNodes)
<1> DEFINE f == [i \in 1..Len(expiring) |-> expiring[i].node]
<1>1. DOMAIN expiring = 1..Len(expiring)
  BY ListTypes
<1>2. f \in [1..Len(expiring) -> IndexedNodes]
  BY <1>1 DEF IndexedNodes, Range
<1>3. \A i, j \in 1..Len(expiring) : f[i] = f[j] => i = j
  BY <1>1 DEF IndexesOK, NodesDistinct
<1>4. ASSUME NEW x \in IndexedNodes PROVE \E i \in 1..Len(expiring) : f[i] = x
  <2>1. PICK i \in 1..Len(expiring) : x = expiring[i].node
    BY <1>1, <1>4 DEF IndexedNodes, Range
  <2> QED BY <2>1
<1> QED BY <1>2, <1>3, <1>4 DEF Lists

\* The multimap and the list are equally long, so fit_capacity bounds both.
LEMMA IndexesSameLength ==
    ASSUME TypeOK, IndexesOK
    PROVE  Len(ordered) = Len(expiring)
<1>1. /\ Len(expiring) \in Nat
      /\ Len(ordered) \in Nat /\ DOMAIN ordered = 1..Len(ordered)
  BY ListTypes
<1>2. Lists([i \in 1..Len(expiring) |-> expiring[i].node], Len(expiring), IndexedNodes)
  BY IndexLists
<1>3. Lists(ordered, Len(ordered), IndexedNodes)
  <2>1. ordered \in [1..Len(ordered) -> DOMAIN node]
    BY LenProperties DEF TypeOK
  <2> QED BY <1>1, <2>1 DEF IndexesOK, IsInjective, Range, Lists
<1> QED BY <1>1, <1>2, <1>3, SameLength

\* Nodes are emplaced only while there are no spare ones: there are never more
\* of them than requests fit into the queue.
LEMMA NodesBounded ==
    ASSUME TypeOK, IndexesOK, fit_capacity, spare = <<>>
    PROVE  Len(node) + 1 <= QueueCapacity
<1> DEFINE g == [i \in 1..Len(node) |-> i]
<1>1. /\ Len(expiring) \in Nat
      /\ Len(node) \in Nat /\ DOMAIN node = 1..Len(node)
  BY ListTypes
<1>2. Range(spare) = {}
  BY DEF Range
<1>3. 1..Len(node) = IndexedNodes
  BY <1>1, <1>2 DEF IndexesOK
<1>4. Lists([i \in 1..Len(expiring) |-> expiring[i].node], Len(expiring), IndexedNodes)
  BY IndexLists
<1>5. Lists(g, Len(node), 1..Len(node))
  BY DEF Lists
<1> HIDE DEF g
<1>6. Len(expiring) = Len(node)
  BY <1>1, <1>3, <1>4, <1>5, SameLength
<1> QED BY <1>1, <1>6, AsyncQueueAssumption DEF fit_capacity

--------------------------------------------------------------------------------
(* Every step preserves the invariant. *)

TimersOK == pending' \subseteq Wait /\ ready' \subseteq Handler /\ EarliestHasWait' /\ FiredAreDue'

\* update_timer leaves a wait for the earliest deadline, whatever was pending,
\* and completes no wait before its time.
LEMMA UpdateTimerStep ==
    ASSUME TypeOK, NEW handlers \in SUBSET Handler,
           \A w \in handlers : ~w.aborted => w.expires_at <= now,
           expiring' \in Seq(Entry'), node' \in Seq(Node), now' = now,
           update_timer(handlers)
    PROVE  TimersOK
<1>1. \A w \in pending : /\ Completed(w, TRUE) \in Handler
                         /\ Completed(w, TRUE).aborted
  BY DEF TypeOK, Wait, Handler, Completed
<1>2. ASSUME NEW old \in SUBSET pending, Abort(old, handlers)
      PROVE  ready' \subseteq Handler /\ FiredAreDue'
  BY <1>1, <1>2 DEF Abort, FiredAreDue
<1>3. CASE CancelTimers(handlers)
  <2>1. ready' \subseteq Handler /\ FiredAreDue'
    BY <1>2, <1>3 DEF CancelTimers
  <2>2. pending' \subseteq Wait /\ EarliestHasWait'
    BY <1>3 DEF CancelTimers, EarliestHasWait
  <2> QED BY <2>1, <2>2 DEF TimersOK
<1>4. CASE ArmTimer(handlers)
  <2> DEFINE earliest == Head(expiring')
             io       == node'[earliest.node].io_context
             old      == {w \in pending : w.io_context = io}
             new      == [io_context |-> io, expires_at |-> earliest.at]
  <2>1. /\ expiring' # <<>>
        /\ pending' = (pending \ old) \cup {new}
        /\ Abort(old, handlers)
    BY <1>4 DEF ArmTimer
  <2>2. earliest \in Entry'
    BY <2>1, HeadTailProperties
  <2>3. earliest.at \in TimePoint /\ earliest.node \in DOMAIN node'
    BY <2>2 DEF Entry
  <2>4. io \in IoContexts
    <3>1. node'[earliest.node] \in Node
      BY <2>3, LenProperties, ElementOfSeq
    <3> QED BY <3>1 DEF Node
  <2>5. new \in Wait
    BY <2>3, <2>4 DEF Wait
  <2>6. pending' \subseteq Wait
    BY <2>1, <2>5 DEF TypeOK
  <2>7. EarliestHasWait'
    BY <2>1 DEF EarliestHasWait
  <2>8. ready' \subseteq Handler /\ FiredAreDue'
    BY <1>2, <2>1
  <2> QED BY <2>6, <2>7, <2>8 DEF TimersOK
<1> QED BY <1>3, <1>4 DEF update_timer

\* push takes a spare node or a new one, and fills it.
NodeTaken(n, contents) ==
    /\ node' \in Seq(Node) /\ Len(node') <= QueueCapacity
    /\ DOMAIN node' = DOMAIN node \cup {n}
    /\ node'[n] = contents
    /\ \A x \in DOMAIN node : x # n => node'[x] = node[x]
    /\ n \notin Range(ordered)
    /\ spare' \in Seq(DOMAIN node') /\ IsInjective(spare')
    /\ Range(spare') = Range(spare) \ {n}

LEMMA TakeNodeStep ==
    ASSUME TypeOK, IndexesOK, fit_capacity, NEW n, NEW contents \in Node, TakeNode(n, contents)
    PROVE  NodeTaken(n, contents)
<1>1. /\ Len(node) \in Nat /\ DOMAIN node = 1..Len(node)
      /\ node \in Seq(Node) /\ spare \in Seq(DOMAIN node)
  BY ListTypes DEF TypeOK
<1>2. CASE /\ spare = <<>>
           /\ n = Len(node) + 1
           /\ node' = Append(node, contents)
           /\ UNCHANGED spare
  <2>1. /\ node' \in Seq(Node) /\ Len(node') = Len(node) + 1
        /\ DOMAIN node' = 1..(Len(node) + 1)
        /\ \A x \in 1..Len(node) : node'[x] = node[x]
        /\ node'[n] = contents
    BY <1>1, <1>2, AppendProperties, LenProperties
  <2>2. n \notin DOMAIN node /\ DOMAIN node' = DOMAIN node \cup {n}
    BY <1>1, <1>2, <2>1
  <2>3. n \notin Range(ordered) /\ Range(spare) = {}
    BY <1>2, <2>2 DEF IndexesOK, Range
  <2>4. spare' \in Seq(DOMAIN node')
    BY <1>2
  <2>5. Len(node') <= QueueCapacity
    BY <1>2, <2>1, NodesBounded
  <2> QED BY <1>1, <1>2, <2>1, <2>2, <2>3, <2>4, <2>5 DEF NodeTaken, IndexesOK
<1>3. CASE /\ spare # <<>>
           /\ n = Head(spare)
           /\ node' = [node EXCEPT ![n] = contents]
           /\ spare' = Tail(spare)
  <2>1. /\ n \in DOMAIN node
        /\ spare' \in Seq(DOMAIN node)
        /\ Range(spare) = {n} \cup Range(spare')
        /\ n \notin Range(spare')
        /\ IsInjective(spare')
    BY <1>1, <1>3, HeadTailRange DEF IndexesOK
  <2>2. /\ node' \in Seq(Node) /\ Len(node') = Len(node) /\ DOMAIN node' = DOMAIN node
        /\ node'[n] = contents
        /\ \A x \in DOMAIN node : x # n => node'[x] = node[x]
    BY <1>1, <1>3, <2>1, ExceptSeq
  <2>3. n \notin Range(ordered)
    BY <2>1 DEF IndexesOK
  <2> QED BY <1>1, <2>1, <2>2, <2>3 DEF NodeTaken, TypeOK
<1> QED BY <1>2, <1>3 DEF TakeNode

\* insert adds the entry and keeps the others, in the order of the keys.
EntryInserted(entry) ==
    /\ expiring' \in Seq(Entry')
    /\ Range(expiring') = Range(expiring) \cup {entry}
    /\ NodesDistinct' /\ Sorted'

LEMMA InsertStep ==
    ASSUME TypeOK, NodesDistinct, Sorted, NEW entry \in Entry', Entry \subseteq Entry',
           entry.node \notin IndexedNodes, Insert(entry)
    PROVE  EntryInserted(entry)
<1>1. PICK k \in 0..Len(expiring) :
          /\ UpperBound(entry.at, k)
          /\ expiring' = Append(SubSeq(expiring, 1, k), entry)
                             \o SubSeq(expiring, k + 1, Len(expiring))
  BY DEF Insert
<1> DEFINE L == Len(expiring)
           S == Entry'
<1>2. /\ L \in Nat /\ DOMAIN expiring = 1..L
      /\ \A i \in 1..L : expiring[i].at \in Int
  BY ListTypes
<1>3. expiring \in Seq(S)
  <2> HIDE DEF S
  <2>1. expiring \in Seq(Entry) /\ Entry \subseteq S
    BY DEF TypeOK, S
  <2> QED BY <2>1, SeqWiden
<1>4. entry.at \in Int
  BY TimeMaxAssumption DEF Entry, TimePoint, TimeMin
<1>5. /\ expiring' \in Seq(S)
      /\ Len(expiring') = L + 1
      /\ \A i \in 1..k : expiring'[i] = expiring[i]
      /\ expiring'[k + 1] = entry
      /\ \A i \in (k + 1)..L : expiring'[i + 1] = expiring[i]
  <2> HIDE DEF S
  <2>1. entry \in S
    BY DEF S
  <2>2. expiring' = Append(SubSeq(expiring, 1, k), entry) \o SubSeq(expiring, k + 1, Len(expiring))
    BY <1>1
  <2>3. WithInserted(expiring', S, expiring, k, entry)
    BY <1>3, <2>1, <2>2, InsertProperties
  <2> QED BY <2>3 DEF WithInserted
<1>6. DOMAIN expiring' = 1..(L + 1)
  BY <1>5, LenProperties
<1> DEFINE old(i) == IF i <= k THEN i ELSE i - 1
<1>7. ASSUME NEW i \in 1..(L + 1), i # k + 1
      PROVE  old(i) \in 1..L /\ expiring'[i] = expiring[old(i)]
  <2>1. CASE i <= k
    BY <1>2, <1>5, <2>1
  <2>2. CASE ~(i <= k)
    <3>1. i - 1 \in (k + 1)..L /\ i - 1 + 1 = i
      BY <1>2, <1>7, <2>2
    <3> QED BY <1>2, <1>5, <2>2, <3>1
  <2> QED BY <2>1, <2>2
<1>8. Range(expiring') = Range(expiring) \cup {entry}
  <2>1. ASSUME NEW x \in Range(expiring') PROVE x \in Range(expiring) \cup {entry}
    <3>1. PICK i \in 1..(L + 1) : x = expiring'[i]
      BY <1>6 DEF Range
    <3> HIDE DEF old
    <3>2. CASE i = k + 1
      BY <1>5, <3>1, <3>2
    <3>3. CASE i # k + 1
      BY <1>2, <1>7, <3>1, <3>3 DEF Range
    <3> QED BY <3>2, <3>3
  <2>2. ASSUME NEW i \in 1..L PROVE expiring[i] \in Range(expiring')
    <3>1. CASE i <= k
      BY <1>2, <1>5, <1>6, <3>1 DEF Range
    <3>2. CASE ~(i <= k)
      <4>1. i \in (k + 1)..L /\ i + 1 \in DOMAIN expiring'
        BY <1>2, <1>6, <3>2
      <4> QED BY <4>1, <1>5 DEF Range
    <3> QED BY <3>1, <3>2
  <2>3. entry \in Range(expiring')
    <3>1. k + 1 \in DOMAIN expiring'
      BY <1>2, <1>6
    <3> QED BY <3>1, <1>5 DEF Range
  <2>4. Range(expiring) \subseteq Range(expiring')
    BY <1>2, <2>2 DEF Range
  <2> QED BY <2>1, <2>3, <2>4
<1>9. \A i \in 1..L : expiring[i].node # entry.node
  BY <1>2 DEF IndexedNodes, Range
<1>10. NodesDistinct'
  <2> SUFFICES ASSUME NEW i \in 1..(L + 1), NEW j \in 1..(L + 1),
                      expiring'[i].node = expiring'[j].node
               PROVE  i = j
    BY <1>6 DEF NodesDistinct
  <2>1. CASE i # k + 1 /\ j # k + 1
    <3>1. old(i) = old(j)
      BY <1>2, <1>7, <2>1 DEF NodesDistinct
    <3> QED BY <1>2, <2>1, <3>1
  <2>2. CASE i = k + 1 /\ j # k + 1
    BY <1>5, <1>7, <1>9, <2>2
  <2>3. CASE i # k + 1 /\ j = k + 1
    BY <1>5, <1>7, <1>9, <2>3
  <2> QED BY <2>1, <2>2, <2>3
<1>11. Sorted'
  <2> SUFFICES ASSUME NEW i \in 1..(L + 1), NEW j \in 1..(L + 1), i <= j
               PROVE  expiring'[i].at <= expiring'[j].at
    BY <1>6 DEF Sorted
  <2>0. \A x \in 1..L : x <= k <=> expiring[x].at <= entry.at
    BY <1>1, <1>2 DEF UpperBound
  <2>1. CASE i # k + 1 /\ j # k + 1
    <3>1. old(i) <= old(j)
      BY <1>2, <2>1
    <3> QED BY <1>2, <1>7, <2>1, <3>1 DEF Sorted
  <2>2. CASE i = k + 1 /\ j # k + 1
    <3>1. ~(old(j) <= k) /\ old(j) \in 1..L
      BY <1>2, <1>7, <2>2
    <3>2. ~(expiring[old(j)].at <= entry.at) /\ expiring[old(j)].at \in Int
      BY <3>1, <2>0, <1>2
    <3> QED BY <3>2, <1>4, <1>5, <1>7, <2>2
  <2>3. CASE i # k + 1 /\ j = k + 1
    <3>1. old(i) <= k /\ old(i) \in 1..L
      BY <1>2, <1>7, <2>3
    <3>2. expiring[old(i)].at <= entry.at
      BY <3>1, <2>0
    <3> QED BY <3>2, <1>5, <1>7, <2>3
  <2>4. CASE i = k + 1 /\ j = k + 1
    BY <1>4, <1>5, <2>4
  <2> QED BY <2>1, <2>2, <2>3, <2>4
<1> QED BY <1>5, <1>8, <1>10, <1>11 DEF EntryInserted

\* The node and the entry of a new request agree.
LEMMA PushStep ==
    ASSUME QueueInv, NEW c \in Clients, Push(c)
    PROVE  /\ QueueInv'
           /\ UNCHANGED now
           /\ \E n, d \in Int :
                  /\ d \in WaitDurations
                  /\ n \in DOMAIN node' /\ n \notin Range(ordered)
                  /\ ordered' = Append(ordered, n)
                  /\ node'[n].request = c
                  /\ \A x \in Range(ordered) : node'[x] = node[x]
                  /\ Range(expiring') = Range(expiring) \cup {[at |-> Add(now, d), node |-> n]}
<1>0. TypeOK /\ IndexesOK /\ Sorted /\ FiredAreDue
  BY DEF QueueInv
<1>1. PICK io \in IoContexts, d \in WaitDurations : push(c, io, d)
  BY DEF Push
<1>2. PICK n \in 1..(Len(node) + 1) :
          /\ TakeNode(n, [io_context |-> io, request |-> c])
          /\ ordered' = Append(ordered, n)
          /\ Insert([at |-> Add(now, d), node |-> n])
  BY <1>1 DEF push
<1>3. fit_capacity /\ update_timer(ready) /\ UNCHANGED <<now, expired>>
  BY <1>1 DEF push, Push
<1> DEFINE contents == [io_context |-> io, request |-> c]
           entry    == [at |-> Add(now, d), node |-> n]
<1>4. contents \in Node /\ contents.request = c /\ c # NoRequest
  BY AsyncQueueAssumption DEF Node
<1>5. NodeTaken(n, contents)
  BY <1>0, <1>2, <1>3, <1>4, TakeNodeStep
<1>6. Add(now, d) \in TimePoint /\ d \in Int /\ n \in Int
  <2>1. now \in TimePoint /\ d \in Duration
    BY <1>0, TimeMaxAssumption, ClockAssumption, AsyncQueueAssumption DEF TypeOK, TimePoint, TimeMin
  <2>2. n \in Int
    BY <1>0, ListTypes
  <2> QED BY <2>1, <2>2, AddType, TimeMaxAssumption DEF Duration, TimeMin
<1>7. Entry \subseteq Entry' /\ entry \in Entry' /\ entry.node = n
  BY <1>5, <1>6 DEF NodeTaken, Entry
<1>8. n \notin IndexedNodes
  BY <1>0, <1>5 DEF NodeTaken, IndexesOK
<1> HIDE DEF contents
<1>9. EntryInserted(entry)
  <2>1. Insert(entry)
    BY <1>2
  <2> HIDE DEF entry
  <2> QED BY <1>0, <1>7, <1>8, <2>1, InsertStep DEF IndexesOK
<1> HIDE DEF entry
<1>10. /\ ordered' \in Seq(DOMAIN node')
       /\ Range(ordered') = Range(ordered) \cup {n}
       /\ IsInjective(ordered')
  <2> DEFINE D == DOMAIN node'
  <2>1. DOMAIN node \subseteq D /\ n \in D
    BY <1>5 DEF NodeTaken
  <2> HIDE DEF D
  <2>2. ordered \in Seq(D)
    <3>1. ordered \in Seq(DOMAIN node)
      BY <1>0 DEF TypeOK
    <3> QED BY <2>1, <3>1, SeqWiden
  <2>3. /\ ordered' \in Seq(D) /\ Range(ordered') = Range(ordered) \cup {n}
        /\ IsInjective(ordered')
    BY <1>0, <1>2, <1>5, <2>1, <2>2, AppendRange DEF NodeTaken, IndexesOK
  <2> QED BY <2>3 DEF D
<1>11. IndexesOK'
  <2>1. IndexedNodes' = IndexedNodes \cup {n}
    BY <1>7, <1>9 DEF EntryInserted, IndexedNodes
  <2>2. /\ Range(ordered') = IndexedNodes'
        /\ Range(ordered') \cup Range(spare') = DOMAIN node'
        /\ Range(ordered') \cap Range(spare') = {}
    BY <1>0, <1>5, <1>10, <2>1 DEF NodeTaken, IndexesOK
  <2>3. \A x \in DOMAIN node' : x \in Range(spare') <=> node'[x].request = NoRequest
    BY <1>0, <1>4, <1>5 DEF NodeTaken, IndexesOK
  <2> QED BY <1>5, <1>9, <1>10, <2>2, <2>3 DEF NodeTaken, EntryInserted, IndexesOK
<1>12. TimersOK
  <2>1. /\ ready \in SUBSET Handler
        /\ \A w \in ready : ~w.aborted => w.expires_at <= now
        /\ expiring' \in Seq(Entry') /\ node' \in Seq(Node) /\ now' = now
    BY <1>0, <1>3, <1>5, <1>9 DEF TypeOK, FiredAreDue, NodeTaken, EntryInserted
  <2> QED BY <1>0, <1>3, <2>1, UpdateTimerStep
<1>13. TypeOK'
  BY <1>0, <1>3, <1>5, <1>9, <1>10, <1>12 DEF TypeOK, NodeTaken, EntryInserted, TimersOK
<1>14. QueueInv'
  BY <1>9, <1>11, <1>12, <1>13 DEF QueueInv, EntryInserted, TimersOK
<1>15. /\ n \in DOMAIN node' /\ n \notin Range(ordered)
       /\ node'[n].request = c
       /\ \A x \in Range(ordered) : node'[x] = node[x]
       /\ Range(expiring') = Range(expiring) \cup {[at |-> Add(now, d), node |-> n]}
  <2>1. \A x \in Range(ordered) : x \in DOMAIN node /\ x # n
    BY <1>0, <1>5 DEF NodeTaken, IndexesOK
  <2> QED BY <1>4, <1>5, <1>9, <2>1 DEF NodeTaken, EntryInserted, entry
<1> QED BY <1>2, <1>3, <1>6, <1>14, <1>15

\* pop and cancel move nodes from the indexes to the spares, the requests out
\* of them, and keep the other nodes and entries as they were.
NodesSpared(due) ==
    /\ node' \in Seq(Node) /\ Len(node') <= QueueCapacity
    /\ DOMAIN node' = DOMAIN node
    /\ \A n \in DOMAIN node : IF n \in due THEN node'[n].request = NoRequest
                                           ELSE node'[n] = node[n]
    /\ ordered' \in Seq(DOMAIN node) /\ IsInjective(ordered')
    /\ Range(ordered') = Range(ordered) \ due
    /\ spare' \in Seq(DOMAIN node) /\ IsInjective(spare')
    /\ Range(spare') = Range(spare) \cup due
    /\ expiring' \in Seq(Entry)
    /\ Range(expiring') = {e \in Range(expiring) : e.node \notin due}
    /\ NodesDistinct' /\ Sorted'

\* Moving nodes to the spares keeps the indexes consistent.
LEMMA SpareStep ==
    ASSUME QueueInv, NEW due, due \subseteq Range(ordered), NodesSpared(due),
           NEW handlers \in SUBSET ready, update_timer(handlers),
           now' = now, expired' \subseteq Answer
    PROVE  QueueInv'
<1>0. TypeOK /\ IndexesOK /\ FiredAreDue
  BY DEF QueueInv
<1>1. Entry' = Entry
  BY DEF NodesSpared, Entry
<1>2. IndexedNodes' = IndexedNodes \ due
  BY DEF NodesSpared, IndexedNodes
<1>3. /\ Range(ordered') = IndexedNodes'
      /\ Range(ordered') \cup Range(spare') = DOMAIN node'
      /\ Range(ordered') \cap Range(spare') = {}
  BY <1>0, <1>2 DEF NodesSpared, IndexesOK
<1>4. \A n \in DOMAIN node' : n \in Range(spare') <=> node'[n].request = NoRequest
  BY <1>0 DEF NodesSpared, IndexesOK
<1>5. IndexesOK'
  BY <1>3, <1>4 DEF NodesSpared, IndexesOK
<1>6. TimersOK
  <2>1. /\ handlers \in SUBSET Handler
        /\ \A w \in handlers : ~w.aborted => w.expires_at <= now
    BY <1>0 DEF TypeOK, FiredAreDue
  <2>2. expiring' \in Seq(Entry') /\ node' \in Seq(Node)
    BY <1>1 DEF NodesSpared
  <2> QED BY <1>0, <2>1, <2>2, UpdateTimerStep
<1>7. TypeOK'
  <2>1. /\ ordered' \in Seq(DOMAIN node') /\ spare' \in Seq(DOMAIN node')
        /\ expiring' \in Seq(Entry')
    BY <1>1 DEF NodesSpared
  <2> QED BY <1>0, <1>6, <2>1 DEF NodesSpared, TypeOK, TimersOK
<1> QED BY <1>5, <1>6, <1>7 DEF QueueInv, NodesSpared, TimersOK

\* What is left of the multimap is still in the order of its keys.
LEMMA EntriesRemaining ==
    ASSUME TypeOK, NodesDistinct, Sorted, NEW K \in SUBSET (1..Len(expiring)),
           expiring' \in Remaining(expiring, K)
    PROVE  /\ expiring' \in Seq(Entry)
           /\ Range(expiring') = {expiring[i] : i \in K}
           /\ NodesDistinct' /\ Sorted'
<1>1. expiring \in Seq(Entry) /\ DOMAIN expiring = 1..Len(expiring) /\ Len(expiring) \in Nat
  BY ListTypes DEF TypeOK
<1> DEFINE t == expiring'
           S == Entry
<1>2. expiring \in Seq(S) /\ t \in Remaining(expiring, K)
  BY <1>1
<1> HIDE DEF t, S
<1>3. t \in Seq(S) /\ Range(t) = {expiring[i] : i \in K}
  BY <1>2, RemainingProperties
<1>4. PICK f \in [1..Len(t) -> K] :
          /\ f \in Enumerations(expiring, K)
          /\ Range(f) = K
          /\ \A i, j \in 1..Len(t) : i < j => f[i] < f[j]
          /\ \A i \in 1..Len(t) : t[i] = expiring[f[i]]
  BY <1>2, RemainingProperties
<1>5. DOMAIN t = 1..Len(t) /\ Len(t) \in Nat
  BY <1>3, LenProperties
<1>6. ASSUME NEW i \in 1..Len(t) PROVE f[i] \in DOMAIN expiring /\ f[i] \in Nat
  <2>1. f[i] \in K
    BY <1>4
  <2>2. f[i] \in 1..Len(expiring)
    BY <2>1
  <2> QED BY <1>1, <2>2
<1>7. NodesDistinct'
  <2> SUFFICES ASSUME NEW i \in 1..Len(t), NEW j \in 1..Len(t), t[i].node = t[j].node
               PROVE  i = j
    BY <1>5 DEF NodesDistinct, t
  <2>1. f[i] = f[j]
    BY <1>4, <1>6 DEF NodesDistinct
  <2> QED BY <1>4, <1>5, <1>6, <2>1
<1>8. Sorted'
  <2> SUFFICES ASSUME NEW i \in 1..Len(t), NEW j \in 1..Len(t), i <= j
               PROVE  t[i].at <= t[j].at
    BY <1>5 DEF Sorted, t
  <2>1. f[i] <= f[j]
    BY <1>4, <1>5, <1>6
  <2> QED BY <1>4, <1>6, <2>1 DEF Sorted
<1> QED BY <1>3, <1>7, <1>8 DEF t, S

\* pop moves the oldest request's node to the spares.
LEMMA PopStep ==
    ASSUME QueueInv, Pop
    PROVE  /\ QueueInv' /\ UNCHANGED now
           /\ ordered # <<>> /\ ordered' = Tail(ordered)
           /\ NodesSpared({Head(ordered)})
<1>0. TypeOK /\ IndexesOK /\ Sorted
  BY DEF QueueInv
<1> DEFINE n == Head(ordered)
           K == {i \in DOMAIN expiring : expiring[i].node # n}
<1>1. /\ ordered # <<>> /\ ordered' = Tail(ordered)
      /\ expiring' \in Remaining(expiring, K)
      /\ spare' = <<n>> \o spare
      /\ node' = [node EXCEPT ![n].request = NoRequest]
      /\ update_timer(ready)
      /\ UNCHANGED <<now, expired>>
  BY DEF Pop, pop, PopNode
<1>2. /\ n \in DOMAIN node
      /\ ordered' \in Seq(DOMAIN node)
      /\ Range(ordered) = {n} \cup Range(ordered')
      /\ n \notin Range(ordered')
      /\ IsInjective(ordered')
  BY <1>0, <1>1, HeadTailRange DEF TypeOK, IndexesOK
<1> HIDE DEF n
<1>3. /\ K \in SUBSET (1..Len(expiring)) /\ DOMAIN expiring = 1..Len(expiring)
      /\ Len(node) \in Nat /\ DOMAIN node = 1..Len(node)
      /\ node \in Seq(Node) /\ node[n] \in Node
  BY <1>0, <1>2, ListTypes DEF TypeOK
<1>4. /\ expiring' \in Seq(Entry)
      /\ Range(expiring') = {expiring[i] : i \in K}
      /\ NodesDistinct' /\ Sorted'
  <2> HIDE DEF K
  <2> QED BY <1>0, <1>1, <1>3, EntriesRemaining DEF IndexesOK
<1>5. Range(expiring') = {e \in Range(expiring) : e.node \notin {n}}
  BY <1>4 DEF Range
<1>6. /\ node' \in Seq(Node) /\ Len(node') <= QueueCapacity
      /\ DOMAIN node' = DOMAIN node
      /\ \A x \in DOMAIN node : IF x \in {n} THEN node'[x].request = NoRequest
                                             ELSE node'[x] = node[x]
  <2> DEFINE e == [node[n] EXCEPT !.request = NoRequest]
  <2>1. e \in Node /\ e.request = NoRequest
    BY <1>3 DEF Node
  <2>2. node' = [node EXCEPT ![n] = e]
    BY <1>1
  <2> HIDE DEF e
  <2>3. /\ node' \in Seq(Node) /\ Len(node') = Len(node)
        /\ \A x \in 1..Len(node) : node'[x] = IF x = n THEN e ELSE node[x]
    BY <1>2, <1>3, <2>1, <2>2, ExceptSeq
  <2> QED BY <1>0, <1>3, <2>1, <2>3, LenProperties DEF TypeOK
<1>7. /\ spare' \in Seq(DOMAIN node) /\ IsInjective(spare')
      /\ Range(spare') = Range(spare) \cup {n}
  <2> DEFINE D == DOMAIN node
             u == <<n>>
  <2>1. u \in Seq(D) /\ Range(u) = {n} /\ IsInjective(u)
    BY <1>2 DEF Range, IsInjective
  <2>2. spare \in Seq(D) /\ IsInjective(spare) /\ Range(u) \cap Range(spare) = {}
    BY <1>0, <1>2, <2>1 DEF TypeOK, IndexesOK
  <2>3. spare' = u \o spare
    BY <1>1
  <2> HIDE DEF D, u
  <2>4. /\ spare' \in Seq(D) /\ IsInjective(spare') /\ Range(spare') = Range(u) \cup Range(spare)
    BY <2>1, <2>2, <2>3, ConcatRange
  <2> QED BY <2>1, <2>4 DEF D
<1>8. NodesSpared({n})
  <2>1. Range(ordered') = Range(ordered) \ {n}
    BY <1>2
  <2> QED BY <1>2, <1>4, <1>5, <1>6, <1>7, <2>1 DEF NodesSpared
<1>9. QueueInv'
  <2>1. {n} \subseteq Range(ordered) /\ ready \in SUBSET ready /\ expired' \subseteq Answer /\ now' = now
    BY <1>0, <1>1, <1>2 DEF TypeOK
  <2> QED BY <1>1, <1>8, <2>1, SpareStep
<1> QED BY <1>1, <1>8, <1>9 DEF n

\* The nodes of the first k entries, which cancel takes out of the indexes.
DueNodes(k) == {expiring[i].node : i \in 1..k}

\* Erasing the first k entries leaves exactly those of the other nodes.
LEMMA EntriesDropped ==
    ASSUME TypeOK, NodesDistinct, Sorted, NEW k \in 0..Len(expiring),
           expiring' = SubSeq(expiring, k + 1, Len(expiring))
    PROVE  /\ expiring' \in Seq(Entry)
           /\ Range(expiring') = {e \in Range(expiring) : e.node \notin DueNodes(k)}
           /\ NodesDistinct' /\ Sorted'
<1> DEFINE L == Len(expiring)
           t == expiring'
           S == Entry
<1>1. /\ L \in Nat /\ DOMAIN expiring = 1..L /\ k \in Nat /\ k <= L
      /\ expiring \in Seq(S)
  BY ListTypes DEF TypeOK
<1>2. t = SubSeq(expiring, k + 1, Len(expiring))
  OBVIOUS
<1> HIDE DEF t, S
<1>3. t \in Seq(S) /\ Len(t) = Len(expiring) - k /\ \A i \in 1..Len(t) : t[i] = expiring[k + i]
  BY <1>1, <1>2, DropProperties
<1>4. DOMAIN t = 1..Len(t) /\ Len(t) \in Nat
  BY <1>3, LenProperties
<1>5. ASSUME NEW i \in 1..Len(t) PROVE k + i \in DOMAIN expiring /\ i \in Nat
  BY <1>1, <1>3
<1>6. Range(t) = {e \in Range(expiring) : e.node \notin DueNodes(k)}
  <2>1. ASSUME NEW i \in 1..Len(t)
        PROVE  t[i] \in Range(expiring) /\ t[i].node \notin DueNodes(k)
    <3>1. t[i] = expiring[k + i] /\ k + i \in DOMAIN expiring
      BY <1>3, <1>5
    <3>2. ASSUME NEW j \in 1..k PROVE expiring[j].node # expiring[k + i].node
      <4>1. j \in DOMAIN expiring /\ j # k + i
        BY <1>1, <1>5
      <4> QED BY <3>1, <4>1 DEF NodesDistinct
    <3> QED BY <3>1, <3>2 DEF Range, DueNodes
  <2>2. ASSUME NEW j \in 1..L, expiring[j].node \notin DueNodes(k)
        PROVE  expiring[j] \in Range(t)
    <3>1. j \notin 1..k
      BY <2>2 DEF DueNodes
    <3>2. j - k \in 1..Len(t) /\ k + (j - k) = j
      BY <1>1, <1>3, <3>1
    <3>3. t[j - k] = expiring[j]
      BY <1>3, <3>2
    <3> QED BY <1>4, <3>2, <3>3 DEF Range
  <2>3. \A x \in Range(t) : x \in Range(expiring) /\ x.node \notin DueNodes(k)
    BY <1>4, <2>1 DEF Range
  <2>4. \A x \in Range(expiring) : x.node \notin DueNodes(k) => x \in Range(t)
    BY <1>1, <2>2 DEF Range
  <2> QED BY <2>3, <2>4
<1>7. NodesDistinct'
  <2> SUFFICES ASSUME NEW i \in 1..Len(t), NEW j \in 1..Len(t), t[i].node = t[j].node
               PROVE  i = j
    BY <1>4 DEF NodesDistinct, t
  <2>1. k + i = k + j
    BY <1>3, <1>5 DEF NodesDistinct
  <2> QED BY <1>1, <1>5, <2>1
<1>8. Sorted'
  <2> SUFFICES ASSUME NEW i \in 1..Len(t), NEW j \in 1..Len(t), i <= j
               PROVE  t[i].at <= t[j].at
    BY <1>4 DEF Sorted, t
  <2>1. k + i <= k + j
    BY <1>1, <1>5
  <2> QED BY <1>3, <1>5, <2>1 DEF Sorted
<1> QED BY <1>3, <1>6, <1>7, <1>8 DEF t, S

\* The nodes in the order in which cancel splices them to the spares.
LEMMA DueList ==
    ASSUME TypeOK, NodesDistinct, NEW k \in 0..Len(expiring)
    PROVE  LET u == [i \in 1..k |-> expiring[k + 1 - i].node]
           IN  u \in Seq(DOMAIN node) /\ Range(u) = DueNodes(k) /\ IsInjective(u)
<1> DEFINE u == [i \in 1..k |-> expiring[k + 1 - i].node]
<1>1. /\ Len(expiring) \in Nat /\ DOMAIN expiring = 1..Len(expiring)
      /\ \A i \in DOMAIN expiring : expiring[i].node \in DOMAIN node
  BY ListTypes
<1>2. k \in Nat /\ k <= Len(expiring)
  BY <1>1
<1>3. ASSUME NEW i \in 1..k
      PROVE  k + 1 - i \in 1..k /\ k + 1 - i \in DOMAIN expiring /\ k + 1 - (k + 1 - i) = i
  BY <1>1, <1>2
<1>4. DOMAIN u = 1..k /\ \A i \in 1..k : u[i] = expiring[k + 1 - i].node
  OBVIOUS
<1>5. u \in Seq(DOMAIN node)
  <2>1. u \in [1..k -> DOMAIN node]
    BY <1>1, <1>3
  <2> QED BY <1>2, <2>1, SeqDef
<1> HIDE DEF u
<1>6. Range(u) = DueNodes(k)
  <2>1. ASSUME NEW i \in 1..k PROVE u[i] \in DueNodes(k)
    BY <1>3, <1>4 DEF DueNodes
  <2>2. ASSUME NEW i \in 1..k PROVE expiring[i].node \in Range(u)
    <3>1. k + 1 - i \in DOMAIN u /\ u[k + 1 - i] = expiring[k + 1 - (k + 1 - i)].node
      BY <1>3, <1>4
    <3>2. u[k + 1 - i] = expiring[i].node
      BY <1>3, <3>1
    <3> QED BY <3>1, <3>2 DEF Range
  <2> QED BY <1>4, <2>1, <2>2 DEF Range, DueNodes
<1>7. IsInjective(u)
  <2> SUFFICES ASSUME NEW i \in 1..k, NEW j \in 1..k, u[i] = u[j] PROVE i = j
    BY <1>4 DEF IsInjective
  <2>1. /\ k + 1 - i \in DOMAIN expiring /\ k + 1 - j \in DOMAIN expiring
        /\ expiring[k + 1 - i].node = expiring[k + 1 - j].node
    <3>1. u[i] = expiring[k + 1 - i].node /\ u[j] = expiring[k + 1 - j].node
      BY <1>4
    <3> QED BY <1>3, <3>1
  <2>2. k + 1 - i = k + 1 - j
    BY <2>1 DEF NodesDistinct
  <2> QED BY <1>2, <2>2
<1> QED BY <1>5, <1>6, <1>7 DEF u

\* cancel moves the due nodes to the spares, and only those.
LEMMA CancelStep ==
    ASSUME QueueInv, NEW w \in ready, NEW k \in 0..Len(expiring), cancel(w, k), UNCHANGED now
    PROVE  QueueInv' /\ NodesSpared(DueNodes(k))
<1>0. TypeOK /\ IndexesOK /\ Sorted /\ NodesDistinct
  BY DEF QueueInv, IndexesOK
<1> DEFINE due == DueNodes(k)
           K   == {i \in DOMAIN ordered : ordered[i] \notin due}
           u   == [i \in 1..k |-> expiring[k + 1 - i].node]
<1>1. /\ expired' = expired \cup
            {[io_context |-> node[n].io_context, client |-> node[n].request] : n \in due}
      /\ node' = [n \in DOMAIN node |->
                     IF n \in due THEN [node[n] EXCEPT !.request = NoRequest] ELSE node[n]]
      /\ ordered' \in Remaining(ordered, K)
      /\ spare' = u \o spare
      /\ expiring' = SubSeq(expiring, k + 1, Len(expiring))
      /\ update_timer(ready \ {w})
  BY DEF cancel, DueNodes
<1>2. /\ expiring' \in Seq(Entry)
      /\ Range(expiring') = {e \in Range(expiring) : e.node \notin due}
      /\ NodesDistinct' /\ Sorted'
  BY <1>0, <1>1, EntriesDropped
<1>3. u \in Seq(DOMAIN node) /\ Range(u) = due /\ IsInjective(u)
  BY <1>0, DueList
<1> HIDE DEF u
<1>4. due \subseteq Range(ordered)
  <2>1. \A i \in 1..k : i \in DOMAIN expiring
    BY <1>0, ListTypes
  <2>2. due \subseteq IndexedNodes
    BY <2>1 DEF DueNodes, IndexedNodes, Range
  <2> QED BY <1>0, <2>2 DEF IndexesOK
<1> HIDE DEF due
<1>5. /\ Len(node) \in Nat /\ DOMAIN node = 1..Len(node)
      /\ \A n \in DOMAIN node : node[n] \in Node
      /\ Len(node) <= QueueCapacity
      /\ K \in SUBSET (1..Len(ordered))
      /\ DOMAIN ordered = 1..Len(ordered)
  BY <1>0, ListTypes DEF TypeOK
<1>6. due \subseteq DOMAIN node
  BY <1>0, <1>4 DEF IndexesOK
<1>7. /\ node' \in Seq(Node) /\ Len(node') <= QueueCapacity
      /\ DOMAIN node' = DOMAIN node
      /\ \A n \in DOMAIN node : IF n \in due THEN node'[n].request = NoRequest
                                             ELSE node'[n] = node[n]
  <2>1. ASSUME NEW n \in DOMAIN node
        PROVE  /\ [node[n] EXCEPT !.request = NoRequest] \in Node
               /\ [node[n] EXCEPT !.request = NoRequest].request = NoRequest
    BY <1>5 DEF Node
  <2>2. /\ node' \in [1..Len(node) -> Node]
        /\ \A n \in DOMAIN node : IF n \in due THEN node'[n].request = NoRequest
                                               ELSE node'[n] = node[n]
    BY <1>1, <1>5, <2>1
  <2>3. node' \in Seq(Node)
    BY <1>5, <2>2, SeqDef
  <2>4. Len(node') \in Nat /\ DOMAIN node' = 1..Len(node')
    BY <2>3, LenProperties
  <2>5. 1..Len(node') = 1..Len(node)
    BY <2>2, <2>4
  <2>6. Len(node') = Len(node)
    <3>1. ASSUME Len(node') < Len(node) PROVE FALSE
      <4>1. Len(node) \in 1..Len(node) /\ Len(node) \notin 1..Len(node')
        BY <1>5, <2>4, <3>1
      <4> QED BY <2>5, <4>1
    <3>2. ASSUME Len(node) < Len(node') PROVE FALSE
      <4>1. Len(node') \in 1..Len(node') /\ Len(node') \notin 1..Len(node)
        BY <1>5, <2>4, <3>2
      <4> QED BY <2>5, <4>1
    <3>3. Len(node) \in Nat /\ Len(node') \in Nat
      BY <1>5, <2>4
    <3> HIDE DEF K
    <3> QED BY <3>1, <3>2, <3>3
  <2> QED BY <1>5, <2>2, <2>3, <2>6
<1>8. /\ ordered' \in Seq(DOMAIN node) /\ IsInjective(ordered')
      /\ Range(ordered') = Range(ordered) \ due
  <2> DEFINE D == DOMAIN node
  <2>1. ordered \in Seq(D) /\ IsInjective(ordered)
    BY <1>0 DEF TypeOK, IndexesOK
  <2> HIDE DEF D, K
  <2>2. K \in SUBSET (1..Len(ordered)) /\ ordered' \in Remaining(ordered, K)
    BY <1>1, <1>5
  <2>3. ordered' \in Seq(D) /\ IsInjective(ordered') /\ Range(ordered') = {ordered[i] : i \in K}
    BY <2>1, <2>2, RemainingProperties
  <2>4. {ordered[i] : i \in K} = Range(ordered) \ due
    BY DEF K, Range
  <2> QED BY <2>3, <2>4 DEF D
<1>9. /\ spare' \in Seq(DOMAIN node) /\ IsInjective(spare')
      /\ Range(spare') = Range(spare) \cup due
  <2> DEFINE D == DOMAIN node
  <2>1. spare \in Seq(D) /\ IsInjective(spare) /\ Range(u) \cap Range(spare) = {}
    BY <1>0, <1>3, <1>4 DEF TypeOK, IndexesOK
  <2>2. u \in Seq(D)
    BY <1>3
  <2> HIDE DEF D
  <2>3. spare' \in Seq(D) /\ IsInjective(spare') /\ Range(spare') = Range(u) \cup Range(spare)
    BY <1>1, <1>3, <2>1, <2>2, ConcatRange
  <2> QED BY <1>3, <2>3 DEF D
<1>10. NodesSpared(due)
  BY <1>2, <1>7, <1>8, <1>9 DEF NodesSpared
<1>11. expired' \subseteq Answer
  <2>1. ASSUME NEW n \in due
        PROVE  [io_context |-> node[n].io_context, client |-> node[n].request] \in Answer
    BY <1>5, <1>6 DEF Node, Answer
  <2> QED BY <1>0, <1>1, <2>1 DEF TypeOK
<1>12. QueueInv'
  <2>1. ready \ {w} \in SUBSET ready
    OBVIOUS
  <2> QED BY <1>1, <1>4, <1>10, <1>11, <2>1, SpareStep
<1> QED BY <1>10, <1>12 DEF due

--------------------------------------------------------------------------------
(* The invariant holds. *)

\* A wait that completes is still there for the earliest request.
LEMMA FireStep ==
    ASSUME QueueInv, NEW io \in IoContexts, Fire(io)
    PROVE  QueueInv' /\ UNCHANGED <<now, indexVars>>
<1>0. TypeOK /\ EarliestHasWait /\ FiredAreDue /\ IndexesOK /\ Sorted
  BY DEF QueueInv
<1>1. PICK w \in pending :
          /\ w.expires_at <= now
          /\ pending' = pending \ {w}
          /\ ready' = ready \cup {Completed(w, FALSE)}
          /\ UNCHANGED <<now, indexVars, expired>>
  BY DEF Fire
<1>2. /\ Completed(w, FALSE) \in Handler
      /\ Completed(w, FALSE).expires_at = w.expires_at
  BY <1>0 DEF TypeOK, Wait, Handler, Completed
<1>3. TypeOK'
  BY <1>0, <1>1, <1>2 DEF TypeOK, indexVars, Entry
<1>4. FiredAreDue'
  BY <1>0, <1>1, <1>2 DEF FiredAreDue
<1>5. EarliestHasWait'
  <2> DEFINE earliest == [io_context |-> node[Head(expiring).node].io_context,
                          expires_at |-> Head(expiring).at]
  <2>1. node' = node /\ expiring' = expiring
    BY <1>1 DEF indexVars
  <2>2. expiring # <<>> => earliest \in pending \/ Completed(earliest, FALSE) \in ready
    BY <1>0 DEF EarliestHasWait
  <2> HIDE DEF earliest
  <2>3. expiring # <<>> => earliest \in pending' \/ Completed(earliest, FALSE) \in ready'
    BY <1>1, <2>2
  <2> QED BY <2>1, <2>3 DEF EarliestHasWait, earliest, Completed
<1>6. IndexesOK' /\ Sorted'
  BY <1>0, <1>1 DEF indexVars, IndexesOK, NodesDistinct, IndexedNodes, Sorted
<1> QED BY <1>1, <1>3, <1>4, <1>5, <1>6 DEF QueueInv

\* The handler of an aborted wait does nothing, and no request relied on it.
LEMMA AbortedStep ==
    ASSUME QueueInv, NEW w \in ready, w.aborted, ready' = ready \ {w},
           UNCHANGED <<now, indexVars, pending, expired>>
    PROVE  QueueInv'
<1>0. TypeOK /\ EarliestHasWait /\ FiredAreDue /\ IndexesOK /\ Sorted
  BY DEF QueueInv
<1>1. TypeOK' /\ FiredAreDue'
  BY <1>0 DEF TypeOK, indexVars, Entry, FiredAreDue
<1>2. EarliestHasWait'
  <2> DEFINE earliest == [io_context |-> node[Head(expiring).node].io_context,
                          expires_at |-> Head(expiring).at]
  <2>1. node' = node /\ expiring' = expiring /\ pending' = pending
    BY DEF indexVars
  <2>2. expiring # <<>> => earliest \in pending \/ Completed(earliest, FALSE) \in ready
    BY <1>0 DEF EarliestHasWait
  <2>3. ~Completed(earliest, FALSE).aborted
    BY DEF Completed
  <2> HIDE DEF earliest
  <2>4. Completed(earliest, FALSE) # w
    BY <2>3
  <2>5. expiring # <<>> => earliest \in pending' \/ Completed(earliest, FALSE) \in ready'
    BY <2>1, <2>2, <2>4
  <2> QED BY <2>1, <2>5 DEF EarliestHasWait, earliest, Completed
<1>3. IndexesOK' /\ Sorted'
  BY <1>0 DEF indexVars, IndexesOK, NodesDistinct, IndexedNodes, Sorted
<1> QED BY <1>1, <1>2, <1>3 DEF QueueInv

\* Running expired handlers and the passing of time change no index.
LEMMA OtherStep ==
    ASSUME QueueInv, UNCHANGED <<indexVars, timerVars>>,
           now' \in 0..MaxNow, now <= now', expired' \subseteq Answer
    PROVE  QueueInv'
<1>0. TypeOK /\ EarliestHasWait /\ FiredAreDue /\ IndexesOK /\ Sorted
  BY DEF QueueInv
<1>1. TypeOK'
  BY <1>0 DEF TypeOK, indexVars, timerVars, Entry
<1>2. FiredAreDue'
  <2> SUFFICES ASSUME NEW w \in ready, ~w.aborted PROVE w.expires_at <= now'
    BY DEF FiredAreDue, timerVars
  <2>1. w.expires_at \in Int /\ now \in Int /\ now' \in Int
    BY <1>0, TimeMaxAssumption, ClockAssumption DEF TypeOK, Handler, TimePoint, TimeMin
  <2>2. w.expires_at <= now
    BY <1>0 DEF FiredAreDue
  <2> QED BY <2>1, <2>2
<1>3. EarliestHasWait' /\ IndexesOK' /\ Sorted'
  BY <1>0 DEF indexVars, timerVars, EarliestHasWait, Completed,
              IndexesOK, NodesDistinct, IndexedNodes, Sorted
<1> QED BY <1>1, <1>2, <1>3 DEF QueueInv

\* The empty queue satisfies the invariant.
LEMMA QueueInitHolds == Init => QueueInv
<1> SUFFICES ASSUME Init PROVE QueueInv
  OBVIOUS
<1>1. /\ ordered = <<>> /\ spare = <<>> /\ expiring = <<>> /\ node = <<>>
      /\ pending = {} /\ ready = {} /\ expired = {} /\ now \in 0..MaxNow
  BY DEF Init
<1>2. DOMAIN ordered = {} /\ DOMAIN spare = {} /\ DOMAIN expiring = {} /\ DOMAIN node = {}
  BY <1>1
<1>3. Range(ordered) = {} /\ Range(spare) = {} /\ Range(expiring) = {}
  BY <1>2 DEF Range
<1>4. TypeOK
  BY <1>1, AsyncQueueAssumption DEF TypeOK
<1>5. IndexesOK
  BY <1>2, <1>3 DEF IndexesOK, IndexedNodes, NodesDistinct, IsInjective
<1> QED BY <1>1, <1>2, <1>4, <1>5 DEF QueueInv, EarliestHasWait, Sorted, FiredAreDue

\* Every step preserves the invariant.
LEMMA QueueNextHolds == QueueInv /\ [Next]_vars => QueueInv'
<1> SUFFICES ASSUME QueueInv, [Next]_vars PROVE QueueInv'
  OBVIOUS
<1>0. TypeOK
  BY DEF QueueInv
<1>1. ASSUME NEW c \in Clients, Push(c) PROVE QueueInv'
  BY <1>1, PushStep
<1>2. CASE Pop
  BY <1>2, PopStep
<1>3. ASSUME NEW io \in IoContexts, Fire(io) PROVE QueueInv'
  BY <1>3, FireStep
<1>4. ASSUME NEW w \in ready, RunWait(w) PROVE QueueInv'
  <2>1. CASE w.aborted /\ ready' = ready \ {w} /\ UNCHANGED <<indexVars, pending, expired>>
    <3>1. UNCHANGED <<now, indexVars, pending, expired>>
      BY <1>4, <2>1 DEF RunWait
    <3> QED BY <2>1, <3>1, AbortedStep
  <2>2. CASE \E k \in 0..Len(expiring) : cancel(w, k)
    <3>1. UNCHANGED now
      BY <1>4 DEF RunWait
    <3> QED BY <2>2, <3>1, CancelStep
  <2> QED BY <1>4, <2>1, <2>2 DEF RunWait
<1>5. CASE RunExpired
  <2>1. /\ UNCHANGED <<indexVars, timerVars>> /\ now' = now
        /\ expired' \subseteq Answer
    BY <1>0, <1>5 DEF RunExpired, TypeOK
  <2>2. now' \in 0..MaxNow /\ now <= now'
    BY <1>0, <2>1, ClockAssumption DEF TypeOK
  <2> QED BY <2>1, <2>2, OtherStep
<1>6. CASE Tick
  <2>1. /\ UNCHANGED <<indexVars, timerVars>>
        /\ expired' \subseteq Answer
    BY <1>0, <1>6 DEF Tick, TypeOK
  <2>2. now' \in 0..MaxNow /\ now <= now'
    BY <1>0, <1>6, ClockAssumption DEF Tick, advance, TypeOK
  <2> QED BY <2>1, <2>2, OtherStep
<1>7. CASE UNCHANGED vars
  <2>1. /\ UNCHANGED <<indexVars, timerVars>> /\ now' = now
        /\ expired' \subseteq Answer
    BY <1>0, <1>7 DEF vars, TypeOK
  <2>2. now' \in 0..MaxNow /\ now <= now'
    BY <1>0, <2>1, ClockAssumption DEF TypeOK
  <2> QED BY <2>1, <2>2, OtherStep
<1> QED BY <1>1, <1>2, <1>3, <1>4, <1>5, <1>6, <1>7 DEF Next

\* Whatever the order of pushes, pops, fired and aborted waits, both indexes
\* hold the same nodes, in the order of arrival and of the deadlines, the
\* earliest request has a wait, and no wait fires before its time.
THEOREM QueueInvariant == Spec => []QueueInv
<1> QED BY QueueInitHolds, QueueNextHolds, PTL DEF Spec

\* The lists hold nodes, the multimap entries and the timers waits, and there
\* are never more nodes than requests that fit into the queue (queue.hpp).
THEOREM QueueTypes == Spec => []TypeOK
<1>1. QueueInv => TypeOK
  BY DEF QueueInv
<1> QED BY <1>1, QueueInvariant, PTL

\* Every node is on exactly one of the two lists, and an iterator kept in it
\* points to its own entry, for every capacity (queue.hpp: order_it,
\* expires_at_it, the splices of push, pop and cancel).
THEOREM QueueIndexes == Spec => []IndexesAgree
<1>1. QueueInv => IndexesAgree
  BY IndexesForm DEF QueueInv
<1> QED BY <1>1, QueueInvariant, PTL

\* The queue is never without a wait for its earliest deadline, however many
\* io_contexts its requests name (queue.hpp: update_timer).
THEOREM QueueEarliest == Spec => []EarliestHasWait
<1>1. QueueInv => EarliestHasWait
  BY DEF QueueInv
<1> QED BY <1>1, QueueInvariant, PTL

--------------------------------------------------------------------------------
(* The queue in detail implements the queue its users see. *)

\* A node has one deadline, that of its entry.
DeadlinesKnown == \A e \in Range(expiring) : DeadlineOf(e.node) = e.at

LEMMA DeadlineIs == NodesDistinct => DeadlinesKnown
<1> SUFFICES ASSUME NodesDistinct, NEW e \in Range(expiring) PROVE DeadlineOf(e.node) = e.at
  BY DEF DeadlinesKnown
<1> DEFINE x == CHOOSE y \in Range(expiring) : y.node = e.node
<1>1. x \in Range(expiring) /\ x.node = e.node
  OBVIOUS
<1> HIDE DEF x
<1>2. PICK i \in DOMAIN expiring : e = expiring[i]
  BY DEF Range
<1>3. PICK j \in DOMAIN expiring : x = expiring[j]
  BY <1>1 DEF Range
<1>4. i = j
  BY <1>1, <1>2, <1>3 DEF NodesDistinct
<1>5. x = e
  BY <1>2, <1>3, <1>4
<1> QED BY <1>5 DEF DeadlineOf, x

\* What users see of the request at a position of the list.
SeenAt(i, n, at) == /\ ordered[i] = n
                    /\ Requests[i] = [client |-> node[n].request, expires_at |-> at]

RequestsSeen ==
    /\ Requests \in Seq([client : Clients \cup {NoRequest}, expires_at : TimePoint])
    /\ Len(ordered) \in Nat /\ Len(Requests) = Len(ordered)
    /\ DOMAIN ordered = 1..Len(ordered) /\ DOMAIN Requests = 1..Len(ordered)
    /\ \A i \in 1..Len(ordered) : \E e \in Range(expiring) : SeenAt(i, e.node, e.at)

\* What users see is a list.
LEMMA RequestsFunction == Requests = [i \in DOMAIN Requests |-> Requests[i]]
  BY DEF Requests

\* It has one request per node of the list, with the deadline of its entry.
LEMMA RequestsForm == QueueInv => RequestsSeen
<1> SUFFICES ASSUME QueueInv PROVE RequestsSeen
  OBVIOUS
<1>0. TypeOK /\ IndexesOK /\ NodesDistinct
  BY DEF QueueInv, IndexesOK
<1>1. /\ Len(ordered) \in Nat /\ DOMAIN ordered = 1..Len(ordered)
      /\ \A i \in 1..Len(ordered) : ordered[i] \in DOMAIN node
      /\ \A n \in DOMAIN node : node[n] \in Node
      /\ \A i \in DOMAIN expiring : expiring[i] \in Entry
  BY <1>0, ListTypes
<1> DEFINE S == [client : Clients \cup {NoRequest}, expires_at : TimePoint]
<1>2. ASSUME NEW i \in 1..Len(ordered)
      PROVE  /\ \E e \in Range(expiring) : SeenAt(i, e.node, e.at)
             /\ [client |-> node[ordered[i]].request, expires_at |-> DeadlineOf(ordered[i])] \in S
  <2>1. ordered[i] \in Range(ordered)
    BY <1>1 DEF Range
  <2>2. PICK e \in Range(expiring) : e.node = ordered[i]
    BY <1>0, <2>1 DEF IndexesOK, IndexedNodes
  <2>3. DeadlineOf(ordered[i]) = e.at
    BY <1>0, <2>2, DeadlineIs DEF DeadlinesKnown
  <2>4. e.at \in TimePoint /\ node[ordered[i]].request \in Clients \cup {NoRequest}
    BY <1>1 DEF Range, Entry, Node
  <2>5. Requests[i] = [client |-> node[ordered[i]].request, expires_at |-> e.at]
    BY <1>1, <2>3 DEF Requests
  <2> QED BY <2>2, <2>3, <2>4, <2>5 DEF SeenAt
<1> HIDE DEF S
<1>3. Requests \in [1..Len(ordered) -> S]
  BY <1>1, <1>2 DEF Requests
<1>4. Requests \in Seq(S)
  BY <1>1, <1>3, SeqDef
<1>5. Len(Requests) = Len(ordered)
  BY <1>1, <1>3, <1>4, LenProperties
<1> QED BY <1>1, <1>2, <1>3, <1>4, <1>5 DEF RequestsSeen, S

\* A request that stays queued, with its node and its entry, looks the same.
LEMMA RequestKept ==
    ASSUME RequestsSeen, RequestsSeen', NodesDistinct',
           NEW i \in 1..Len(ordered), NEW j \in 1..Len(ordered'),
           ordered'[j] = ordered[i],
           node'[ordered[i]] = node[ordered[i]],
           \A e \in Range(expiring) : e.node = ordered[i] => e \in Range(expiring')
    PROVE  Requests'[j] = Requests[i]
<1>1. PICK e \in Range(expiring) : SeenAt(i, e.node, e.at)
  BY DEF RequestsSeen
<1>2. PICK d \in Range(expiring') : SeenAt(j, d.node, d.at)'
  BY DEF RequestsSeen
<1>3. ordered[i] = e.node /\ ordered'[j] = d.node
  BY <1>1, <1>2 DEF SeenAt
<1>4. e \in Range(expiring')
  BY <1>3
<1>5. \A x \in Range(expiring') : DeadlineOf(x.node)' = x.at
  <2>1. (NodesDistinct => DeadlinesKnown)'
    BY DeadlineIs, PTL
  <2> QED BY <2>1 DEF DeadlinesKnown
<1>6. d.at = e.at
  BY <1>3, <1>4, <1>5
<1> QED BY <1>1, <1>2, <1>3, <1>6 DEF SeenAt

\* Both specifications of the queue compute deadlines alike.
LEMMA SameAdd ==
    ASSUME NEW t, NEW d
    PROVE  Queue!Add(t, d) = Add(t, d)
  BY DEF Queue!Add, Add, Queue!Wrap, Wrap, Queue!TimeMin, TimeMin,
         Queue!Epoch, Epoch

\* push adds a request behind all others, while there is room.
LEMMA PushImplements ==
    ASSUME QueueInv, NEW c \in Clients, Push(c)
    PROVE  Queue!QueuePush
<1>0. TypeOK /\ IndexesOK /\ QueueInv' /\ UNCHANGED now /\ NodesDistinct'
  BY PushStep DEF QueueInv, IndexesOK
<1>1. RequestsSeen /\ RequestsSeen'
  <2>1. (QueueInv => RequestsSeen)'
    BY RequestsForm, PTL
  <2> QED BY <1>0, <2>1, RequestsForm
<1>2. PICK n, d \in Int :
          /\ d \in WaitDurations
          /\ n \in DOMAIN node' /\ n \notin Range(ordered)
          /\ ordered' = Append(ordered, n)
          /\ node'[n].request = c
          /\ \A x \in Range(ordered) : node'[x] = node[x]
          /\ Range(expiring') = Range(expiring) \cup {[at |-> Add(now, d), node |-> n]}
  BY PushStep
<1> DEFINE L == Len(ordered)
           r == [client |-> c, expires_at |-> Add(now, d)]
           S == [client : Clients \cup {NoRequest}, expires_at : TimePoint]
<1>3. /\ L \in Nat /\ DOMAIN ordered = 1..L
      /\ Requests \in Seq(S) /\ Len(Requests) = L
      /\ Requests' \in Seq(S) /\ Len(Requests') = Len(ordered')
  BY <1>1 DEF RequestsSeen
<1>4. /\ Len(ordered') = L + 1 /\ ordered'[L + 1] = n
      /\ \A i \in 1..L : ordered'[i] = ordered[i]
  <2>1. ordered \in Seq(DOMAIN node \cup {n})
    BY <1>0, SeqWiden DEF TypeOK
  <2> QED BY <1>2, <2>1, AppendProperties
<1>5. \A i \in 1..L : Requests'[i] = Requests[i]
  <2> SUFFICES ASSUME NEW i \in 1..L PROVE Requests'[i] = Requests[i]
    OBVIOUS
  <2>1. ordered[i] \in Range(ordered)
    BY <1>3 DEF Range
  <2>2. i \in 1..Len(ordered')
    BY <1>3, <1>4
  <2> QED BY <1>0, <1>1, <1>2, <1>4, <2>1, <2>2, RequestKept
<1>6. Requests'[L + 1] = r
  <2>1. PICK p \in 1..Len(ordered') : p = L + 1
    BY <1>3, <1>4
  <2>2. PICK e \in Range(expiring') : SeenAt(p, e.node, e.at)'
    BY <1>1 DEF RequestsSeen
  <2>3. /\ e.node = n
        /\ Requests'[p] = [client |-> node'[n].request, expires_at |-> e.at]
    BY <1>4, <2>1, <2>2 DEF SeenAt
  <2>4. e \notin Range(expiring)
    BY <1>0, <1>2, <2>3 DEF IndexesOK, IndexedNodes
  <2>5. e.at = Add(now, d)
    BY <1>2, <2>4
  <2> QED BY <1>2, <2>1, <2>3, <2>5
<1>7. Requests' = Append(Requests, r)
  <2> DEFINE a == Append(Requests, r)
  <2>1. r \in S
    <3>1. L + 1 \in 1..Len(Requests')
      BY <1>3, <1>4
    <3> HIDE DEF r, S
    <3> QED BY <1>3, <1>6, <3>1, ElementOfSeq
  <2> HIDE DEF r, S
  <2>2. a \in Seq(S) /\ Len(a) = L + 1 /\ a[L + 1] = r /\ \A i \in 1..L : a[i] = Requests[i]
    BY <1>3, <2>1, AppendProperties
  <2> HIDE DEF a
  <2>3. \A i \in 1..Len(Requests') : Requests'[i] = a[i]
    BY <1>3, <1>4, <1>5, <1>6, <2>2
  <2>4. Requests' = a
    BY <1>3, <1>4, <2>2, <2>3, SeqEqual
  <2> QED BY <2>4 DEF a
<1>8. Len(Requests) < QueueCapacity
  <2>1. Len(ordered) = Len(expiring)
    BY <1>0, IndexesSameLength
  <2>2. Len(expiring) < QueueCapacity
    BY DEF Push, push, fit_capacity
  <2> QED BY <1>3, <2>1, <2>2
<1>9. ~Queue!Queued(c)
  <2> SUFFICES ASSUME NEW i \in 1..L, Requests[i].client = c PROVE FALSE
    BY <1>1 DEF Queue!Queued, Queue!Range, RequestsSeen
  <2>1. Requests[i].client = node[ordered[i]].request
    BY <1>1 DEF RequestsSeen, SeenAt
  <2>2. ordered[i] \in Range(ordered)
    BY <1>3 DEF Range
  <2> QED BY <2>1, <2>2 DEF Push, Busy
<1>10. d \in Queue!Duration
  <2>1. d \in Duration
    BY <1>2, AsyncQueueAssumption
  <2> QED BY <2>1 DEF Duration, Queue!Duration, TimeMin, Queue!TimeMin
<1>11. Queue!push(c, d)
  BY <1>7, SameAdd DEF Queue!push
<1> QED BY <1>0, <1>8, <1>9, <1>10, <1>11 DEF Queue!QueuePush

\* pop removes the oldest request, whatever its deadline.
LEMMA PopImplements ==
    ASSUME QueueInv, Pop
    PROVE  Queue!QueuePop
<1> DEFINE n == Head(ordered)
           L == Len(ordered)
           S == [client : Clients \cup {NoRequest}, expires_at : TimePoint]
<1>0. /\ TypeOK /\ IndexesOK /\ QueueInv' /\ UNCHANGED now
      /\ ordered # <<>> /\ ordered' = Tail(ordered) /\ NodesSpared({n}) /\ NodesDistinct'
  BY PopStep DEF QueueInv, IndexesOK
<1>1. RequestsSeen /\ RequestsSeen'
  <2>1. (QueueInv => RequestsSeen)'
    BY RequestsForm, PTL
  <2> QED BY <1>0, <2>1, RequestsForm
<1>2. /\ L \in Nat /\ DOMAIN ordered = 1..L
      /\ Requests \in Seq(S) /\ Len(Requests) = L
      /\ Requests' \in Seq(S) /\ Len(Requests') = Len(ordered')
  BY <1>1 DEF RequestsSeen
<1>3. /\ L # 0 /\ Len(ordered') = L - 1
      /\ \A i \in 1..Len(ordered') : ordered'[i] = ordered[i + 1]
  BY <1>0, HeadTailProperties, EmptySeq DEF TypeOK
<1>4. ASSUME NEW i \in 1..Len(ordered') PROVE Requests'[i] = Requests[i + 1]
  <2>1. i + 1 \in 1..L /\ ordered'[i] = ordered[i + 1]
    BY <1>2, <1>3
  <2>2. ordered[i + 1] \in DOMAIN node
    BY <1>0, <2>1, ListTypes
  <2>3. ordered'[i] \in Range(ordered')
    <3>1. DOMAIN ordered' = 1..Len(ordered')
      BY <1>1 DEF RequestsSeen
    <3> QED BY <3>1 DEF Range
  <2>4. ordered[i + 1] \notin {n}
    BY <1>0, <2>1, <2>3 DEF NodesSpared
  <2> HIDE DEF n
  <2>5. node'[ordered[i + 1]] = node[ordered[i + 1]]
    BY <1>0, <2>2, <2>4 DEF NodesSpared
  <2>6. \A e \in Range(expiring) : e.node = ordered[i + 1] => e \in Range(expiring')
    BY <1>0, <2>4 DEF NodesSpared
  <2> QED BY <1>0, <1>1, <2>1, <2>5, <2>6, RequestKept
<1>5. Requests # <<>> /\ Requests' = Tail(Requests)
  <2> HIDE DEF S
  <2>1. Requests # <<>>
    BY <1>2, <1>3, EmptySeq
  <2> DEFINE t == Tail(Requests)
  <2>2. t \in Seq(S) /\ Len(t) = L - 1 /\ \A i \in 1..Len(t) : t[i] = Requests[i + 1]
    BY <1>2, <2>1, HeadTailProperties
  <2> HIDE DEF t
  <2>3. \A i \in 1..Len(Requests') : Requests'[i] = t[i]
    BY <1>2, <1>3, <1>4, <2>2
  <2>4. Requests' = t
    BY <1>2, <1>3, <2>2, <2>3, SeqEqual
  <2> QED BY <2>1, <2>4 DEF t
<1> QED BY <1>0, <1>5 DEF Queue!QueuePop, Queue!pop

\* A node is due exactly if its deadline is not after that of the last due
\* entry: upper_bound cuts the multimap between two deadlines.
LEMMA DueIsExpired ==
    ASSUME QueueInv, NEW k \in 1..Len(expiring), NEW at \in Int, UpperBound(at, k),
           NEW e \in Range(expiring)
    PROVE  e.node \in DueNodes(k) <=> e.at <= expiring[k].at
<1>1. /\ Len(expiring) \in Nat /\ DOMAIN expiring = 1..Len(expiring)
      /\ \A i \in DOMAIN expiring : expiring[i].at \in Int
      /\ NodesDistinct /\ Sorted
  BY ListTypes DEF QueueInv, IndexesOK
<1>2. PICK j \in 1..Len(expiring) : e = expiring[j]
  BY <1>1 DEF Range
<1>3. k \in Nat /\ j \in Nat /\ k \in DOMAIN expiring /\ j \in DOMAIN expiring
  BY <1>1
<1>4. CASE j <= k
  <2>1. j \in 1..k
    BY <1>3, <1>4
  <2>2. expiring[j].at <= expiring[k].at
    BY <1>1, <1>3, <1>4 DEF Sorted
  <2> QED BY <1>2, <2>1, <2>2 DEF DueNodes
<1>5. CASE ~(j <= k)
  <2>1. ~(expiring[j].at <= at) /\ expiring[k].at <= at
    BY <1>3, <1>5 DEF UpperBound
  <2>2. expiring[j].at \in Int /\ expiring[k].at \in Int
    BY <1>1, <1>3
  <2>3. ~(expiring[j].at <= expiring[k].at)
    BY <2>1, <2>2
  <2>4. ASSUME NEW i \in 1..k PROVE expiring[i].node # expiring[j].node
    <3>1. i \in DOMAIN expiring /\ i # j
      BY <1>1, <1>3, <1>5
    <3> QED BY <1>1, <1>3, <3>1 DEF NodesDistinct
  <2> QED BY <1>2, <2>3, <2>4 DEF DueNodes
<1> QED BY <1>4, <1>5

\* A wait that fires removes what is due, or nothing.
LEMMA CancelImplements ==
    ASSUME QueueInv, NEW w \in ready, ~w.aborted,
           NEW k \in 0..Len(expiring), cancel(w, k), UNCHANGED now
    PROVE  Queue!QueueExpire \/ UNCHANGED Queue!queueVars
<1>0. /\ TypeOK /\ IndexesOK /\ FiredAreDue /\ QueueInv'
      /\ NodesSpared(DueNodes(k)) /\ NodesDistinct'
  BY CancelStep DEF QueueInv, IndexesOK
<1>1. RequestsSeen /\ RequestsSeen'
  <2>1. (QueueInv => RequestsSeen)'
    BY RequestsForm, PTL
  <2> QED BY <1>0, <2>1, RequestsForm
<1>2. /\ Len(ordered) \in Nat /\ DOMAIN ordered = 1..Len(ordered)
      /\ DOMAIN Requests = 1..Len(ordered) /\ Len(Requests) = Len(ordered)
      /\ DOMAIN ordered' = 1..Len(ordered') /\ DOMAIN Requests' = 1..Len(ordered')
  BY <1>1 DEF RequestsSeen
<1>3. /\ UpperBound(w.expires_at, k)
      /\ ordered' \in Remaining(ordered, {i \in DOMAIN ordered : ordered[i] \notin DueNodes(k)})
  BY DEF cancel, DueNodes
<1>4. w.expires_at \in Int /\ now \in Int /\ w.expires_at <= now
  BY <1>0, TimeMaxAssumption, ClockAssumption
     DEF TypeOK, Handler, FiredAreDue, TimePoint, TimeMin
<1>5. ASSUME NEW i \in 1..Len(ordered), NEW j \in 1..Len(ordered'), ordered'[j] = ordered[i]
      PROVE  Requests'[j] = Requests[i]
  <2>1. ordered[i] \in DOMAIN node
    BY <1>0, <1>2, ListTypes
  <2>2. ordered'[j] \in Range(ordered')
    BY <1>2 DEF Range
  <2>3. ordered[i] \notin DueNodes(k)
    BY <1>0, <1>5, <2>2 DEF NodesSpared
  <2>4. node'[ordered[i]] = node[ordered[i]]
    BY <1>0, <2>1, <2>3 DEF NodesSpared
  <2>5. \A e \in Range(expiring) : e.node = ordered[i] => e \in Range(expiring')
    BY <1>0, <2>3 DEF NodesSpared
  <2> QED BY <1>0, <1>1, <1>5, <2>4, <2>5, RequestKept
<1>6. CASE k = 0
  <2>1. DueNodes(k) = {}
    BY <1>6 DEF DueNodes
  <2>2. {i \in DOMAIN ordered : ordered[i] \notin DueNodes(k)} = 1..Len(ordered)
    BY <1>2, <2>1
  <2>3. ordered' = ordered
    <3>1. ordered \in Seq(DOMAIN node) /\ ordered' \in Remaining(ordered, 1..Len(ordered))
      BY <1>0, <1>3, <2>2 DEF TypeOK
    <3> QED BY <3>1, RemainingAll
  <2>4. \A i \in 1..Len(ordered) : Requests'[i] = Requests[i]
    BY <1>5, <2>3
  <2>5. Requests' = Requests
    <3>1. Requests = [i \in DOMAIN Requests |-> Requests[i]]
      BY RequestsFunction
    <3>2. (Requests = [i \in DOMAIN Requests |-> Requests[i]])'
      BY RequestsFunction, PTL
    <3>3. DOMAIN Requests' = DOMAIN Requests
      BY <1>2, <2>3
    <3>4. \A i \in DOMAIN Requests : Requests'[i] = Requests[i]
      BY <1>2, <2>4
    <3> QED BY <3>1, <3>2, <3>3, <3>4
  <2> QED BY <2>5 DEF Queue!queueVars
<1>7. CASE k # 0
  <2> DEFINE last == expiring[k]
             K    == {i \in DOMAIN ordered : ordered[i] \notin DueNodes(k)}
  <2>0. /\ Len(expiring) \in Nat /\ DOMAIN expiring = 1..Len(expiring)
        /\ \A i \in DOMAIN expiring : expiring[i].at \in Int
    BY <1>0, ListTypes
  <2>1. k \in 1..Len(expiring) /\ k \in Nat /\ last \in Range(expiring) /\ last.at \in Int
    BY <1>7, <2>0 DEF Range
  <2>2. last.at <= w.expires_at
    BY <1>3, <2>0, <2>1 DEF UpperBound
  <2>3. last.at <= now
    BY <1>4, <2>1, <2>2
  <2>4. ASSUME NEW i \in 1..Len(ordered)
        PROVE  ordered[i] \notin DueNodes(k) <=> Requests[i].expires_at > last.at
    <3>1. PICK e \in Range(expiring) : SeenAt(i, e.node, e.at)
      BY <1>1 DEF RequestsSeen
    <3>2. ordered[i] = e.node /\ Requests[i].expires_at = e.at
      BY <3>1 DEF SeenAt
    <3>3. e.at \in Int
      BY <2>0 DEF Range
    <3>4. e.node \in DueNodes(k) <=> e.at <= last.at
      BY <1>3, <1>4, <2>1, DueIsExpired
    <3> QED BY <2>1, <3>2, <3>3, <3>4
  <2>5. K = {i \in DOMAIN Requests : Requests[i].expires_at > last.at}
    BY <1>2, <2>4
  <2>6. PICK f \in Enumerations(ordered, K) : ordered' = [i \in DOMAIN f |-> ordered[f[i]]]
    BY <1>3 DEF Remaining
  <2>7. f \in Queue!Enumerations(Requests, K)
    BY <1>2, <2>6 DEF Enumerations, Queue!Enumerations, Range, Queue!Range
  <2>8. Requests' = [i \in DOMAIN f |-> Requests[f[i]]]
    <3>1. DOMAIN Requests' = DOMAIN f
      BY <1>2, <2>6
    <3>2. ASSUME NEW i \in DOMAIN f PROVE Requests'[i] = Requests[f[i]]
      <4>1. f[i] \in K
        BY DEF Enumerations
      <4>2. f[i] \in 1..Len(ordered) /\ i \in 1..Len(ordered')
        BY <1>2, <2>6, <4>1
      <4> QED BY <1>5, <2>6, <4>2
    <3>3. (Requests = [i \in DOMAIN Requests |-> Requests[i]])'
      BY RequestsFunction, PTL
    <3> QED BY <3>1, <3>2, <3>3
  <2>9. Queue!cancel(last.at)
    <3> HIDE DEF K, last
    <3>1. Requests' \in Queue!Remaining(Requests, K)
      BY <2>7, <2>8 DEF Queue!Remaining
    <3> QED BY <2>5, <3>1 DEF Queue!cancel
  <2>10. \E r \in Queue!Range(Requests) : r.expires_at = last.at
    <3>1. last.node \in Range(ordered)
      BY <1>0, <2>1 DEF IndexesOK, IndexedNodes
    <3>2. PICK i \in 1..Len(ordered) : ordered[i] = last.node
      BY <1>2, <3>1 DEF Range
    <3>3. PICK e \in Range(expiring) : SeenAt(i, e.node, e.at)
      BY <1>1 DEF RequestsSeen
    <3>4. e.node = last.node /\ Requests[i].expires_at = e.at
      BY <3>2, <3>3 DEF SeenAt
    <3>5. e.at = last.at
      <4>1. NodesDistinct
        BY <1>0 DEF IndexesOK
      <4> HIDE DEF last
      <4> QED BY <2>1, <3>4, <4>1, DeadlineIs DEF DeadlinesKnown
    <3> QED BY <1>2, <3>4, <3>5 DEF Queue!Range
  <2> HIDE DEF last
  <2> QED BY <2>3, <2>9, <2>10 DEF Queue!QueueExpire
<1> QED BY <1>6, <1>7

\* The queue is empty at first.
LEMMA QueueInitImplements == Init => Queue!QueueInit
<1> SUFFICES ASSUME Init PROVE Queue!QueueInit
  OBVIOUS
<1>1. now \in 0..MaxNow /\ ordered = <<>>
  BY DEF Init
<1>2. Requests = <<>>
  BY <1>1 DEF Requests
<1> QED BY <1>1, <1>2 DEF Queue!QueueInit

\* Every step is one of the queue its users see, or hidden from them.
LEMMA QueueNextImplements == QueueInv /\ [Next]_vars => [Queue!QueueNext]_(Queue!queueVars)
<1> SUFFICES ASSUME QueueInv, [Next]_vars
             PROVE  Queue!QueueNext \/ UNCHANGED Queue!queueVars
  OBVIOUS
<1>1. ASSUME NEW c \in Clients, Push(c) PROVE Queue!QueueNext
  BY <1>1, PushImplements DEF Queue!QueueNext
<1>2. CASE Pop
  BY <1>2, PopImplements DEF Queue!QueueNext
<1>3. ASSUME UNCHANGED indexVars PROVE UNCHANGED Requests
  BY <1>3 DEF indexVars, Requests, DeadlineOf
<1>4. ASSUME UNCHANGED <<now, indexVars>> PROVE UNCHANGED Queue!queueVars
  BY <1>3, <1>4 DEF Queue!queueVars
<1>5. ASSUME NEW io \in IoContexts, Fire(io) PROVE UNCHANGED Queue!queueVars
  BY <1>4, <1>5 DEF Fire
<1>6. ASSUME NEW w \in ready, RunWait(w) PROVE Queue!QueueExpire \/ UNCHANGED Queue!queueVars
  <2>1. UNCHANGED now
    BY <1>6 DEF RunWait
  <2>2. CASE UNCHANGED indexVars
    BY <1>4, <2>1, <2>2
  <2>3. CASE ~w.aborted /\ \E k \in 0..Len(expiring) : cancel(w, k)
    BY <2>1, <2>3, CancelImplements
  <2> QED BY <1>6, <2>2, <2>3 DEF RunWait
<1>7. CASE RunExpired
  BY <1>4, <1>7 DEF RunExpired
<1>8. CASE Tick
  <2>1. advance /\ UNCHANGED indexVars
    BY <1>8 DEF Tick
  <2> QED BY <1>3, <2>1 DEF Queue!QueueNext, Queue!QueueTick, Queue!advance, advance
<1>9. CASE UNCHANGED vars
  BY <1>4, <1>9 DEF vars
<1> QED BY <1>1, <1>2, <1>5, <1>6, <1>7, <1>8, <1>9 DEF Next, Queue!QueueNext

\* The queue with its two indexes, spare nodes and timers does nothing that
\* the bounded FIFO with deadlines would not do: it pops in the order of
\* arrival and expires exactly the requests that are due, however late the
\* handler of a wait runs (queue.hpp: push, pop, cancel, update_timer).
THEOREM QueueImplementsRequestQueue == Spec => ImplementsRequestQueue
<1> QED BY QueueInvariant, QueueInitImplements, QueueNextImplements, PTL
        DEF Spec, ImplementsRequestQueue, Queue!QueueSpec
================================================================================
