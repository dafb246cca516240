---------------------------- MODULE AsyncPoolProofs ----------------------------
(***************************************************************************)
(* The asynchronous pool loses and shares neither cells nor requests, uses *)
(* its storage and its queue as their specifications allow and serves no   *)
(* invalidated resource, for every number of clients and cells, every      *)
(* queue capacity and every wait duration, and whatever the handlers do.   *)
(***************************************************************************)
EXTENDS AsyncPool, StorageProofs

\* A handle has a cell exactly while its client holds it, and a completion
\* exactly when it reports success.
HoldersHaveCells ==
    /\ \A c \in Clients : pc[c] = "holding" <=> handle[c] \in Cells
    /\ \A p \in posted : p.ec = "ok" <=> p.cell \in Cells

\* The ownership of cells without sets of owners, for the provers.
OwnersUse ==
    /\ \A p \in posted : p.cell \in Cells => p.cell \in used
    /\ \A h \in handing : h.cell \in used
    /\ \A c \in Clients : handle[c] \in Cells => handle[c] \in used

UsedOwned ==
    \A cell \in used :
        \/ \E p \in posted : p.cell = cell
        \/ \E h \in handing : h.cell = cell
        \/ \E c \in Clients : handle[c] = cell

OwnersDiffer ==
    /\ \A p, q \in posted : p.cell \in Cells /\ p.cell = q.cell => p = q
    /\ \A h, g \in handing : h.cell = g.cell => h = g
    /\ \A c, d \in Clients : handle[c] \in Cells /\ handle[c] = handle[d] => c = d
    /\ \A p \in posted, h \in handing : p.cell # h.cell
    /\ \A p \in posted, c \in Clients : p.cell \in Cells => p.cell # handle[c]
    /\ \A h \in handing, c \in Clients : h.cell # handle[c]

CellsOwned == OwnersUse /\ UsedOwned /\ OwnersDiffer

\* Where the answers to requests come from, likewise.
DistinctClients ==
    \A i, j \in DOMAIN requests : requests[i].client = requests[j].client => i = j

AnswersExpected ==
    /\ \A c \in Clients : Queued(c) => pc[c] = "waiting"
    /\ \A p \in posted : pc[p.client] = "waiting" /\ ~Queued(p.client)
    /\ \A h \in handing : pc[h.client] = "waiting" /\ ~Queued(h.client)

WaitersAnswered ==
    \A c \in Clients : pc[c] = "waiting" =>
        \/ Queued(c)
        \/ \E p \in posted : p.client = c
        \/ \E h \in handing : h.client = c

AnswersDiffer ==
    /\ \A p, q \in posted : p.client = q.client => p = q
    /\ \A h, g \in handing : h.client = g.client => h = g
    /\ \A p \in posted, h \in handing : p.client # h.client

RequestsAnswered == DistinctClients /\ AnswersExpected /\ WaitersAnswered /\ AnswersDiffer

\* Nobody was served in the future, and a cell that recycle found valid and
\* has not handed over yet holds nothing that had been invalidated then.
ServedInThePast ==
    /\ \A p \in posted : p.generation <= generation
    /\ \A h \in handing : h.generation <= generation
    /\ \A c \in Clients : served[c] <= generation

HandoversValid ==
    \A h \in handing : h.valid /\ value[h.cell] # NoValue
        => value[h.cell].generation >= h.generation

ServedValid == ServedInThePast /\ HandoversValid /\ NoInvalidatedResourceServed

AsyncInv ==
    /\ StorageInv
    /\ TypeOK
    /\ HoldersHaveCells
    /\ CellsOwned
    /\ RequestsAnswered
    /\ ServedValid

--------------------------------------------------------------------------------
(* The two forms of the invariants agree. *)

LEMMA NoCellIsNoCell == NoCell \notin Cells
  BY StorageAssumption DEF NoCell, Cells

\* No cell leaks and none is shared: the invariant that is model-checked
\* follows from the quantified form.
LEMMA OwnershipForm ==
    ASSUME CellsOwned
    PROVE  EveryUsedCellOwnedOnce
<1> SUFFICES ASSUME NEW cell \in Cells
             PROVE  \/ cell \in used /\ \E o \in OwnersOf(cell) : OwnersOf(cell) = {o}
                    \/ cell \notin used /\ OwnersOf(cell) = {}
  BY DEF EveryUsedCellOwnedOnce
<1> USE DEF CellsOwned
<1>1. CASE cell \notin used
  BY <1>1 DEF OwnersUse, OwnersOf
<1>2. CASE cell \in used
  <2>1. CASE \E p \in posted : p.cell = cell
    <3>1. PICK p \in posted : p.cell = cell
      BY <2>1
    <3>2. \A q \in posted : q.cell = cell => q = p
      BY <3>1 DEF OwnersDiffer
    <3>3. \A h \in handing : h.cell # cell
      BY <3>1 DEF OwnersDiffer
    <3>4. \A c \in Clients : handle[c] # cell
      BY <3>1 DEF OwnersDiffer
    <3>5. OwnersOf(cell) = {<<"posted", p>>}
      BY <3>1, <3>2, <3>3, <3>4 DEF OwnersOf
    <3> QED BY <1>2, <3>5
  <2>2. CASE \E h \in handing : h.cell = cell
    <3>1. PICK h \in handing : h.cell = cell
      BY <2>2
    <3>2. \A g \in handing : g.cell = cell => g = h
      BY <3>1 DEF OwnersDiffer
    <3>3. \A p \in posted : p.cell # cell
      BY <3>1 DEF OwnersDiffer
    <3>4. \A c \in Clients : handle[c] # cell
      BY <3>1 DEF OwnersDiffer
    <3>5. OwnersOf(cell) = {<<"handing", h>>}
      BY <3>1, <3>2, <3>3, <3>4 DEF OwnersOf
    <3> QED BY <1>2, <3>5
  <2>3. CASE \E c \in Clients : handle[c] = cell
    <3>1. PICK c \in Clients : handle[c] = cell
      BY <2>3
    <3>2. \A d \in Clients : handle[d] = cell => d = c
      BY <3>1 DEF OwnersDiffer
    <3>3. \A p \in posted : p.cell # cell
      BY <3>1 DEF OwnersDiffer
    <3>4. \A h \in handing : h.cell # cell
      BY <3>1 DEF OwnersDiffer
    <3>5. OwnersOf(cell) = {<<"handle", c>>}
      BY <3>1, <3>2, <3>3, <3>4 DEF OwnersOf
    <3> QED BY <1>2, <3>5
  <2> QED BY <1>2, <2>1, <2>2, <2>3 DEF UsedOwned
<1> QED BY <1>1, <1>2

\* Who has a request in the queue, by position.
LEMMA QueuedPosition ==
    ASSUME NEW c
    PROVE  Queued(c) <=> \E i \in DOMAIN requests : requests[i].client = c
  BY DEF Queued, Range

\* Every request has one answer: likewise.
LEMMA AnswersForm ==
    ASSUME RequestsAnswered
    PROVE  OneAnswerPerRequest
<1> SUFFICES ASSUME NEW c \in Clients
             PROVE  \/ pc[c] = "waiting" /\ \E a \in AnswersTo(c) : AnswersTo(c) = {a}
                    \/ pc[c] # "waiting" /\ AnswersTo(c) = {}
  BY DEF OneAnswerPerRequest
<1> USE DEF RequestsAnswered
<1>1. CASE pc[c] # "waiting"
  <2>1. /\ \A i \in DOMAIN requests : requests[i].client # c
        /\ \A p \in posted : p.client # c
        /\ \A h \in handing : h.client # c
    BY <1>1, QueuedPosition DEF AnswersExpected
  <2>2. AnswersTo(c) = {}
    BY <2>1 DEF AnswersTo
  <2> QED BY <1>1, <2>2
<1>2. CASE pc[c] = "waiting"
  <2>1. CASE Queued(c)
    <3>1. PICK i \in DOMAIN requests : requests[i].client = c
      BY <2>1, QueuedPosition
    <3>2. \A j \in DOMAIN requests : requests[j].client = c => j = i
      BY <3>1 DEF DistinctClients
    <3>3. /\ \A p \in posted : p.client # c
          /\ \A h \in handing : h.client # c
      BY <2>1 DEF AnswersExpected
    <3>4. AnswersTo(c) = {<<"queued", i>>}
      BY <3>1, <3>2, <3>3 DEF AnswersTo
    <3> QED BY <1>2, <3>4
  <2>2. CASE \E p \in posted : p.client = c
    <3>1. PICK p \in posted : p.client = c
      BY <2>2
    <3>2. /\ \A q \in posted : q.client = c => q = p
          /\ \A h \in handing : h.client # c
      BY <3>1 DEF AnswersDiffer
    <3>3. \A i \in DOMAIN requests : requests[i].client # c
      BY <3>1, QueuedPosition DEF AnswersExpected
    <3>4. AnswersTo(c) = {<<"posted", p>>}
      BY <3>1, <3>2, <3>3 DEF AnswersTo
    <3> QED BY <1>2, <3>4
  <2>3. CASE \E h \in handing : h.client = c
    <3>1. PICK h \in handing : h.client = c
      BY <2>3
    <3>2. /\ \A g \in handing : g.client = c => g = h
          /\ \A p \in posted : p.client # c
      BY <3>1 DEF AnswersDiffer
    <3>3. \A i \in DOMAIN requests : requests[i].client # c
      BY <3>1, QueuedPosition DEF AnswersExpected
    <3>4. AnswersTo(c) = {<<"handing", h>>}
      BY <3>1, <3>2, <3>3 DEF AnswersTo
    <3> QED BY <1>2, <3>4
  <2> QED BY <1>2, <2>1, <2>2, <2>3 DEF WaitersAnswered
<1> QED BY <1>1, <1>2

--------------------------------------------------------------------------------
(* What the operations of the queue do to who has a request in it. *)

QueueOK == requests \in Seq(Request) /\ Len(requests) <= QueueCapacity /\ DistinctClients

\* pop takes the request of one client, whose other requests it leaves: none.
LEMMA PopStep ==
    ASSUME QueueOK, pop
    PROVE  /\ QueueOK'
           /\ Head(requests).client \in Clients
           /\ Queued(Head(requests).client)
           /\ \A c \in Clients : Queued(c)' <=> Queued(c) /\ c # Head(requests).client
<1>1. /\ Len(requests) \in Nat \ {0} /\ DOMAIN requests = 1..Len(requests)
      /\ requests' \in Seq(Request) /\ Len(requests') = Len(requests) - 1
      /\ DOMAIN requests' = 1..Len(requests')
      /\ \A i \in 1..Len(requests') : requests'[i] = requests[i + 1]
      /\ Head(requests) = requests[1] /\ requests[1] \in Request
  BY HeadTailProperties, LenProperties, EmptySeq DEF QueueOK, pop
<1>2. Head(requests).client \in Clients /\ Queued(Head(requests).client)
  BY <1>1 DEF Request, Queued, Range
<1>3. Len(requests') <= QueueCapacity
  BY <1>1, QueueAssumption DEF QueueOK
<1>4. DistinctClients'
  <2> SUFFICES ASSUME NEW i \in 1..Len(requests'), NEW j \in 1..Len(requests'),
                      requests'[i].client = requests'[j].client
               PROVE  i = j
    BY <1>1 DEF DistinctClients
  <2>1. i + 1 \in DOMAIN requests /\ j + 1 \in DOMAIN requests
        /\ requests[i + 1].client = requests[j + 1].client
    BY <1>1
  <2>2. i + 1 = j + 1
    BY <2>1 DEF QueueOK, DistinctClients
  <2> QED BY <2>2
<1>5. ASSUME NEW c \in Clients
      PROVE  Queued(c)' <=> Queued(c) /\ c # Head(requests).client
  <2>1. ASSUME NEW i \in 1..Len(requests'), requests'[i].client = c
        PROVE  Queued(c) /\ c # Head(requests).client
    <3>1. i + 1 \in DOMAIN requests /\ 1 \in DOMAIN requests /\ i + 1 # 1
          /\ requests[i + 1].client = c
      BY <1>1, <2>1
    <3> QED BY <3>1, <1>1 DEF QueueOK, DistinctClients, Queued, Range
  <2>2. ASSUME NEW i \in 1..Len(requests), requests[i].client = c, c # Head(requests).client
        PROVE  \E j \in DOMAIN requests' : requests'[j].client = c
    <3>1. i # 1
      BY <1>1, <2>2
    <3>2. i - 1 \in DOMAIN requests' /\ requests'[i - 1] = requests[i]
      BY <1>1, <3>1
    <3> QED BY <3>2, <2>2
  <2> QED BY <1>1, <2>1, <2>2 DEF Queued, Range
<1> QED BY <1>1, <1>2, <1>3, <1>4, <1>5 DEF QueueOK

\* push queues a request of a client that had none.
LEMMA PushStep ==
    ASSUME QueueOK, fit_capacity, now \in 0..MaxNow,
           NEW c \in Clients, ~Queued(c), NEW d \in Duration, push(c, d)
    PROVE  /\ QueueOK'
           /\ \A x \in Clients : Queued(x)' <=> Queued(x) \/ x = c
<1> DEFINE r == [client |-> c, expires_at |-> Add(now, d)]
<1>1. r \in Request /\ r.client = c
  <2>1. now \in TimePoint
    BY TimeMaxAssumption, ClockAssumption DEF TimePoint, TimeMin
  <2> QED BY <2>1, AddType DEF Request
<1> HIDE DEF r
<1>2. requests' = Append(requests, r)
  BY DEF push, r
<1>3. /\ Len(requests) \in Nat /\ DOMAIN requests = 1..Len(requests)
      /\ requests' \in Seq(Request) /\ Len(requests') = Len(requests) + 1
      /\ DOMAIN requests' = 1..Len(requests')
      /\ \A i \in 1..Len(requests) : requests'[i] = requests[i]
      /\ requests'[Len(requests) + 1] = r
  BY <1>1, <1>2, AppendProperties, LenProperties DEF QueueOK
<1>4. Len(requests') <= QueueCapacity
  BY <1>3, QueueAssumption DEF fit_capacity
<1>5. \A i \in 1..Len(requests) : requests[i].client # c
  BY <1>3, QueuedPosition
<1>6. DistinctClients'
  BY <1>1, <1>3, <1>5 DEF QueueOK, DistinctClients
<1>7. ASSUME NEW x \in Clients PROVE Queued(x)' <=> Queued(x) \/ x = c
  <2>1. Queued(x)' <=> \E i \in 1..Len(requests') : requests'[i].client = x
    BY <1>3 DEF Queued, Range
  <2>2. Queued(x) <=> \E i \in 1..Len(requests) : requests[i].client = x
    BY <1>3 DEF Queued, Range
  <2> QED BY <2>1, <2>2, <1>1, <1>3
<1> QED BY <1>3, <1>4, <1>6, <1>7 DEF QueueOK

\* cancel takes the requests that are due, and no others.
LEMMA CancelStep ==
    ASSUME QueueOK, NEW t \in TimePoint, cancel(t)
    PROVE  /\ QueueOK'
           /\ \A x \in Clients : Queued(x)' <=> Queued(x) /\ ~\E r \in Expired(t) : r.client = x
           /\ \A r \in Expired(t) : r.client \in Clients /\ Queued(r.client)
<1> DEFINE K == {i \in DOMAIN requests : requests[i].expires_at > t}
<1>1. /\ Len(requests) \in Nat /\ DOMAIN requests = 1..Len(requests)
      /\ \A i \in 1..Len(requests) : requests[i] \in Request
  BY LenProperties, ElementOfSeq DEF QueueOK
<1>2. K \in SUBSET (1..Len(requests)) /\ requests' \in Remaining(requests, K)
  BY <1>1 DEF cancel
<1> HIDE DEF K
<1>3. /\ requests' \in Seq(Request)
      /\ Len(requests') <= Len(requests)
      /\ Range(requests') = {requests[i] : i \in K}
      /\ \E f \in [1..Len(requests') -> K] :
             /\ \A i, j \in 1..Len(requests') : i < j => f[i] < f[j]
             /\ \A i \in 1..Len(requests') : requests'[i] = requests[f[i]]
  BY <1>2, RemainingProperties DEF QueueOK
<1>4. PICK f \in [1..Len(requests') -> K] :
             /\ \A i, j \in 1..Len(requests') : i < j => f[i] < f[j]
             /\ \A i \in 1..Len(requests') : requests'[i] = requests[f[i]]
  BY <1>3
<1>5. Len(requests') \in Nat /\ DOMAIN requests' = 1..Len(requests')
  BY <1>3, LenProperties
<1>6. Len(requests') <= QueueCapacity
  BY <1>1, <1>3, <1>5, QueueAssumption DEF QueueOK
<1>7. DistinctClients'
  <2> SUFFICES ASSUME NEW i \in 1..Len(requests'), NEW j \in 1..Len(requests'),
                      requests'[i].client = requests'[j].client
               PROVE  i = j
    BY <1>5 DEF DistinctClients
  <2>1. f[i] \in DOMAIN requests /\ f[j] \in DOMAIN requests
    BY <1>1, <1>2
  <2>2. f[i] = f[j]
    BY <2>1, <1>4 DEF QueueOK, DistinctClients
  <2>3. f[i] \in Int /\ f[j] \in Int
    BY <2>1, <1>1
  <2> QED BY <2>2, <2>3, <1>4, <1>5
<1>8. ASSUME NEW i \in DOMAIN requests
      PROVE  requests[i] \in Expired(t) <=> i \notin K
  <2>1. requests[i].expires_at \in Int /\ t \in Int
    BY <1>1, TimeMaxAssumption DEF Request, TimePoint, TimeMin
  <2> QED BY <2>1 DEF Expired, K, Range
<1>9. ASSUME NEW x \in Clients
      PROVE  Queued(x)' <=> Queued(x) /\ ~\E r \in Expired(t) : r.client = x
  <2>1. Queued(x)' <=> \E i \in K : requests[i].client = x
    BY <1>3 DEF Queued
  <2>2. ASSUME NEW i \in K, requests[i].client = x
        PROVE  Queued(x) /\ ~\E r \in Expired(t) : r.client = x
    <3>1. i \in DOMAIN requests
      BY <1>1, <1>2
    <3>2. Queued(x)
      BY <3>1, <2>2, QueuedPosition
    <3>3. ASSUME NEW r \in Expired(t), r.client = x PROVE FALSE
      <4>1. PICK j \in DOMAIN requests : r = requests[j]
        BY <3>3 DEF Expired, Range
      <4>2. j = i
        BY <4>1, <3>1, <3>3, <2>2 DEF QueueOK, DistinctClients
      <4> QED BY <4>1, <4>2, <1>8, <3>3
    <3> QED BY <3>2, <3>3
  <2>3. ASSUME Queued(x), ~\E r \in Expired(t) : r.client = x
        PROVE  \E i \in K : requests[i].client = x
    <3>1. PICK i \in DOMAIN requests : requests[i].client = x
      BY <2>3, QueuedPosition
    <3> QED BY <3>1, <2>3, <1>8
  <2> QED BY <2>1, <2>2, <2>3
<1>10. ASSUME NEW r \in Expired(t)
       PROVE  r.client \in Clients /\ Queued(r.client)
  BY <1>1 DEF Expired, Queued, Range, Request
<1> QED BY <1>3, <1>6, <1>7, <1>9, <1>10 DEF QueueOK

--------------------------------------------------------------------------------
(* Every step of the pool is a step of its storage or none, a step of its
   queue or none, and preserves the invariant. *)

StepOK == AsyncInv' /\ [StorageNext]_storageVars /\ [QueueNext]_queueVars

LEMMA FailureFields ==
    ASSUME TypeOK, NEW c \in Clients, NEW ec \in ErrorCodes
    PROVE  /\ Failure(c, ec) \in Completion
           /\ Failure(c, ec).client = c
           /\ Failure(c, ec).ec = ec
           /\ Failure(c, ec).cell = NoCell
           /\ Failure(c, ec).generation = generation
<1>1. generation \in Nat
  BY StorageAssumption DEF TypeOK, StorageTypeOK
<1> QED BY <1>1 DEF Failure, Completion

LEMMA GenerationType ==
    ASSUME TypeOK
    PROVE  generation \in Nat
  BY StorageAssumption DEF TypeOK, StorageTypeOK

CellsKept == StorageInv' /\ HoldersHaveCells' /\ CellsOwned' /\ ServedValid'

FailuresPosted(E, ec) ==
    /\ posted' \subseteq Completion
    /\ posted \subseteq posted'
    /\ \A p \in posted' : p \in posted \/ (p.client \in E /\ p = Failure(p.client, ec))
    /\ \A c \in E : \E p \in posted' : p.client = c /\ p = Failure(c, ec)

\* Answering requests with an error moves no cell and serves none.
LEMMA FailuresStep ==
    ASSUME AsyncInv, NEW E \in SUBSET Clients, NEW ec \in ErrorCodes \ {"ok"},
           Post({Failure(c, ec) : c \in E}),
           UNCHANGED <<storageVars, handing, handle>>,
           \A c \in Clients : pc'[c] = "holding" <=> pc[c] = "holding",
           \A c \in Clients : served'[c] \in {served[c], generation},
           \A c \in Clients : pc[c] = "holding" => served'[c] = served[c]
    PROVE  CellsKept /\ FailuresPosted(E, ec)
<1>1. StorageInv'
  BY NextHolds DEF AsyncInv
<1>2. TypeOK
  BY DEF AsyncInv
<1>3. /\ \A p \in posted' : p \in posted \/ (p.client \in E /\ p = Failure(p.client, ec))
      /\ \A c \in E : \E p \in posted' : p.client = c /\ p = Failure(c, ec)
      /\ posted \subseteq posted'
  BY <1>2, FailureFields DEF Post
<1>4. \A p \in posted' : p \in posted \/ (/\ p \in Completion /\ p.ec # "ok" /\ p.cell = NoCell
                                          /\ p.generation = generation)
  BY <1>2, <1>3, FailureFields
<1>5. posted' \subseteq Completion
  BY <1>2, <1>4 DEF TypeOK
<1>6. HoldersHaveCells'
  BY <1>4, NoCellIsNoCell DEF AsyncInv, HoldersHaveCells
<1>7. UNCHANGED <<used, value, generation>>
  BY DEF storageVars
<1>8. \A h \in handing : h.cell \in Cells
  BY <1>2 DEF TypeOK, Handing
<1>9. CellsOwned'
  <2>1. CellsOwned
    BY DEF AsyncInv
  <2>2. OwnersUse'
    BY <1>4, <1>7, <2>1, NoCellIsNoCell DEF CellsOwned, OwnersUse
  <2>3. UsedOwned'
    BY <1>3, <1>7, <2>1 DEF CellsOwned, UsedOwned
  <2>4. OwnersDiffer'
    BY <1>4, <1>7, <1>8, <2>1, NoCellIsNoCell DEF CellsOwned, OwnersDiffer
  <2> QED BY <2>2, <2>3, <2>4 DEF CellsOwned
<1>10. ServedValid'
  <2>1. ServedValid /\ generation \in Nat
    BY <1>2, GenerationType DEF AsyncInv
  <2>2. ServedInThePast'
    BY <1>4, <1>7, <2>1 DEF ServedValid, ServedInThePast
  <2>3. HandoversValid'
    BY <1>7, <2>1 DEF ServedValid, HandoversValid
  <2>4. NoInvalidatedResourceServed'
    BY <1>4, <1>7, <2>1 DEF ServedValid, NoInvalidatedResourceServed
  <2> QED BY <2>2, <2>3, <2>4 DEF ServedValid
<1> QED BY <1>1, <1>3, <1>5, <1>6, <1>9, <1>10 DEF CellsKept, FailuresPosted

\* The same when nobody is answered.
LEMMA NoFailuresStep ==
    ASSUME AsyncInv, UNCHANGED <<storageVars, posted, handing, handle, served>>,
           \A c \in Clients : pc'[c] = "holding" <=> pc[c] = "holding"
    PROVE  CellsKept
<1>1. /\ {} \in SUBSET Clients /\ "disabled" \in ErrorCodes \ {"ok"}
      /\ Post({Failure(c, "disabled") : c \in {}})
  BY DEF Post, ErrorCodes
<1> QED BY <1>1, FailuresStep

\* What the queue lemmas ask for.
LEMMA QueueHolds == AsyncInv => QueueOK
  BY DEF AsyncInv, TypeOK, RequestsAnswered, QueueOK

LEMMA QueuedKept ==
    ASSUME UNCHANGED requests
    PROVE  DistinctClients' = DistinctClients /\ \A c : Queued(c)' = Queued(c)
  BY DEF DistinctClients, Queued

\* get answers at once with an error: the pool is disabled, the client will
\* not wait or the queue is full.
LEMMA GetFailsStep ==
    ASSUME AsyncInv, NEW c \in Clients, NEW ec \in ErrorCodes \ {"ok"},
           pc[c] \in {"idle", "unlocked"}, pc' = [pc EXCEPT ![c] = "waiting"],
           Post({Failure(c, ec)}),
           wait' \in [Clients -> WaitDurations \cup {0}],
           UNCHANGED <<storageVars, requests, handing, handle, served, disabled, draining, reentered>>
    PROVE  StepOK
<1>1. \A u \in Clients : pc'[u] = IF u = c THEN "waiting" ELSE pc[u]
  BY DEF AsyncInv, TypeOK
<1>2. Post({Failure(u, ec) : u \in {c}})
  BY DEF Post
<1>3. CellsKept /\ FailuresPosted({c}, ec)
  <2>1. /\ \A u \in Clients : pc'[u] = "holding" <=> pc[u] = "holding"
        /\ \A u \in Clients : served'[u] \in {served[u], generation}
        /\ \A u \in Clients : pc[u] = "holding" => served'[u] = served[u]
    BY <1>1
  <2> QED BY <1>2, <2>1, FailuresStep
<1>4. TypeOK'
  BY <1>3 DEF CellsKept, FailuresPosted, AsyncInv, StorageInv, TypeOK
<1>5. RequestsAnswered'
  <2>1. /\ RequestsAnswered
        /\ \A p \in posted : p.client \in Clients
        /\ \A h \in handing : h.client \in Clients
    BY DEF AsyncInv, TypeOK, Completion, Handing
  <2>2. ~Queued(c) /\ (\A p \in posted : p.client # c) /\ (\A h \in handing : h.client # c)
    BY <2>1 DEF RequestsAnswered, AnswersExpected
  <2>3. DistinctClients'
    BY <2>1, QueuedKept DEF RequestsAnswered
  <2>4. AnswersExpected'
    BY <1>1, <1>3, <2>1, <2>2, QueuedKept DEF FailuresPosted, RequestsAnswered, AnswersExpected
  <2>5. WaitersAnswered'
    BY <1>1, <1>3, <2>1, QueuedKept DEF FailuresPosted, RequestsAnswered, WaitersAnswered
  <2>6. AnswersDiffer'
    BY <1>3, <2>1, <2>2 DEF FailuresPosted, RequestsAnswered, AnswersDiffer
  <2> QED BY <2>3, <2>4, <2>5, <2>6 DEF RequestsAnswered
<1>6. UNCHANGED storageVars /\ UNCHANGED queueVars
  BY DEF storageVars, queueVars
<1> QED BY <1>3, <1>4, <1>5, <1>6 DEF CellsKept, AsyncInv, StepOK

\* A step that takes no request from the queue and answers none.
LEMMA AnswersKept ==
    ASSUME AsyncInv, UNCHANGED <<requests, posted, handing>>,
           \A c \in Clients : pc'[c] = "waiting" <=> pc[c] = "waiting"
    PROVE  RequestsAnswered'
<1>1. /\ RequestsAnswered
      /\ \A p \in posted : p.client \in Clients
      /\ \A h \in handing : h.client \in Clients
  BY DEF AsyncInv, TypeOK, Completion, Handing
<1>2. DistinctClients'
  BY <1>1, QueuedKept DEF RequestsAnswered
<1>3. AnswersExpected'
  BY <1>1, QueuedKept DEF RequestsAnswered, AnswersExpected
<1>4. WaitersAnswered'
  BY <1>1, QueuedKept DEF RequestsAnswered, WaitersAnswered
<1>5. AnswersDiffer'
  BY <1>1 DEF RequestsAnswered, AnswersDiffer
<1> QED BY <1>2, <1>3, <1>4, <1>5 DEF RequestsAnswered

\* get finds nothing to lease and unlocks; disable begins and ends; nothing
\* happens.
LEMMA QuietStep ==
    ASSUME AsyncInv, UNCHANGED <<storageVars, requests, posted, handing, handle, served>>,
           pc' \in [Clients -> {"idle", "unlocked", "waiting", "holding", "returning"}],
           wait' \in [Clients -> WaitDurations \cup {0}],
           disabled' \in BOOLEAN, draining' \in BOOLEAN, reentered' \in BOOLEAN,
           \A c \in Clients : pc'[c] = "waiting" <=> pc[c] = "waiting",
           \A c \in Clients : pc'[c] = "holding" <=> pc[c] = "holding"
    PROVE  StepOK
<1>1. CellsKept
  BY NoFailuresStep
<1>2. RequestsAnswered'
  BY AnswersKept
<1>3. TypeOK'
  BY <1>1 DEF CellsKept, AsyncInv, StorageInv, TypeOK
<1>4. UNCHANGED storageVars /\ UNCHANGED queueVars
  BY DEF storageVars, queueVars
<1> QED BY <1>1, <1>2, <1>3, <1>4 DEF CellsKept, AsyncInv, StepOK

\* Requests leave the queue, each answered with an error: their deadline has
\* passed, or disable drains the queue.
LEMMA RequestsFailStep ==
    ASSUME AsyncInv, NEW E \in SUBSET Clients, NEW ec \in ErrorCodes \ {"ok"},
           Post({Failure(c, ec) : c \in E}), QueueOK', [QueueNext]_queueVars,
           \A c \in E : Queued(c),
           \A c \in Clients : Queued(c)' <=> Queued(c) /\ c \notin E,
           UNCHANGED <<storageVars, pc, wait, handing, handle, served, disabled, draining, reentered>>
    PROVE  StepOK
<1>1. CellsKept /\ FailuresPosted(E, ec)
  <2>1. /\ \A u \in Clients : pc'[u] = "holding" <=> pc[u] = "holding"
        /\ \A u \in Clients : served'[u] \in {served[u], generation}
        /\ \A u \in Clients : pc[u] = "holding" => served'[u] = served[u]
    OBVIOUS
  <2> QED BY <2>1, FailuresStep
<1>2. TypeOK'
  BY <1>1 DEF CellsKept, FailuresPosted, QueueOK, AsyncInv, StorageInv, TypeOK
<1>3. RequestsAnswered'
  <2>1. /\ RequestsAnswered
        /\ \A p \in posted : p.client \in Clients
        /\ \A h \in handing : h.client \in Clients
    BY DEF AsyncInv, TypeOK, Completion, Handing
  <2>2. \A c \in E : /\ pc[c] = "waiting"
                     /\ \A p \in posted : p.client # c
                     /\ \A h \in handing : h.client # c
    BY <2>1 DEF RequestsAnswered, AnswersExpected
  <2>3. DistinctClients'
    BY DEF QueueOK
  <2>4. AnswersExpected'
    BY <1>1, <2>1, <2>2 DEF FailuresPosted, RequestsAnswered, AnswersExpected
  <2>5. WaitersAnswered'
    <3> SUFFICES ASSUME NEW c \in Clients, pc[c] = "waiting"
                 PROVE  \/ Queued(c)'
                        \/ \E p \in posted' : p.client = c
                        \/ \E h \in handing' : h.client = c
      BY DEF WaitersAnswered
    <3>1. CASE c \in E
      BY <3>1, <1>1 DEF FailuresPosted
    <3>2. CASE c \notin E
      BY <3>2, <1>1, <2>1 DEF FailuresPosted, RequestsAnswered, WaitersAnswered
    <3> QED BY <3>1, <3>2
  <2>6. AnswersDiffer'
    BY <1>1, <2>1, <2>2 DEF FailuresPosted, RequestsAnswered, AnswersDiffer
  <2> QED BY <2>3, <2>4, <2>5, <2>6 DEF RequestsAnswered
<1>4. UNCHANGED storageVars
  OBVIOUS
<1> QED BY <1>1, <1>2, <1>3, <1>4 DEF CellsKept, AsyncInv, StepOK

\* queue::cancel, from the timer.
LEMMA ExpireStep ==
    ASSUME AsyncInv, NEW c \in Clients, Expire(c)
    PROVE  StepOK
<1>1. PICK r \in Range(requests) :
          /\ r.expires_at <= now
          /\ cancel(r.expires_at)
          /\ Post({Failure(x.client, "get_resource_timeout") : x \in Expired(r.expires_at)})
  BY DEF Expire
<1> DEFINE E == {x.client : x \in Expired(r.expires_at)}
<1>2. QueueOK
  BY QueueHolds
<1>3. r.expires_at \in TimePoint
  <2>1. \A i \in DOMAIN requests : requests[i] \in Request
    BY <1>2, LenProperties, ElementOfSeq DEF QueueOK
  <2>2. r \in Request
    BY <2>1 DEF Range
  <2> QED BY <2>2 DEF Request
<1>4. /\ QueueOK'
      /\ \A x \in Clients : Queued(x)' <=>
            Queued(x) /\ ~\E y \in Expired(r.expires_at) : y.client = x
      /\ \A x \in Expired(r.expires_at) : x.client \in Clients /\ Queued(x.client)
  BY <1>1, <1>2, <1>3, CancelStep
<1>5. /\ E \in SUBSET Clients
      /\ \A x \in E : Queued(x)
      /\ \A x \in Clients : Queued(x)' <=> Queued(x) /\ x \notin E
  BY <1>4
<1>6. Post({Failure(x, "get_resource_timeout") : x \in E})
  <2>1. {Failure(x.client, "get_resource_timeout") : x \in Expired(r.expires_at)}
            = {Failure(x, "get_resource_timeout") : x \in E}
    OBVIOUS
  <2> QED BY <1>1, <2>1
<1>7. UNCHANGED <<storageVars, pc, wait, handing, handle, served, disabled, draining, reentered>>
  BY DEF Expire
<1>8. [QueueNext]_queueVars
  BY <1>1, <1>7 DEF QueueNext, QueueExpire, storageVars
<1>9. "get_resource_timeout" \in ErrorCodes \ {"ok"}
  BY DEF ErrorCodes
<1> HIDE DEF E
<1> QED BY <1>4, <1>5, <1>6, <1>7, <1>8, <1>9, RequestsFailStep

\* disable takes a request from the queue and posts its handler.
LEMMA DisablePopStep ==
    ASSUME AsyncInv, DisablePop
    PROVE  StepOK
<1> DEFINE first == Head(requests).client
<1>1. /\ QueueOK'
      /\ first \in Clients
      /\ Queued(first)
      /\ \A c \in Clients : Queued(c)' <=> Queued(c) /\ c # first
  BY QueueHolds, PopStep DEF DisablePop
<1>2. Post({Failure(first, "disabled")})
  BY DEF DisablePop
<1> HIDE DEF first
<1>3. /\ {first} \in SUBSET Clients
      /\ \A c \in {first} : Queued(c)
      /\ \A c \in Clients : Queued(c)' <=> Queued(c) /\ c \notin {first}
      /\ Post({Failure(c, "disabled") : c \in {first}})
      /\ "disabled" \in ErrorCodes \ {"ok"}
  BY <1>1, <1>2 DEF Post, ErrorCodes
<1>4. UNCHANGED <<storageVars, pc, wait, handing, handle, served, disabled, draining, reentered>>
  BY DEF DisablePop
<1>5. [QueueNext]_queueVars
  BY <1>4 DEF DisablePop, QueueNext, QueuePop, storageVars
<1> QED BY <1>1, <1>3, <1>4, <1>5, RequestsFailStep

\* get goes to sleep in the queue.
LEMMA GetPushStep ==
    ASSUME AsyncInv, NEW c \in Clients, GetPush(c)
    PROVE  StepOK
<1>1. /\ pc[c] = "unlocked"
      /\ \A u \in Clients : pc'[u] = IF u = c THEN "waiting" ELSE pc[u]
      /\ UNCHANGED <<storageVars, posted, handing, handle, served, disabled, draining, reentered>>
  BY DEF GetPush, At, AsyncInv, TypeOK
<1>2. CellsKept
  <2>1. \A u \in Clients : pc'[u] = "holding" <=> pc[u] = "holding"
    BY <1>1
  <2> QED BY <1>1, <2>1, NoFailuresStep
<1>3. /\ RequestsAnswered
      /\ \A p \in posted : p.client \in Clients
      /\ \A h \in handing : h.client \in Clients
  BY DEF AsyncInv, TypeOK, Completion, Handing
<1>4. ~Queued(c) /\ (\A p \in posted : p.client # c) /\ (\A h \in handing : h.client # c)
  BY <1>1, <1>3 DEF RequestsAnswered, AnswersExpected
<1>5. wait[c] \in Duration /\ now \in 0..MaxNow
  <2>1. wait[c] \in WaitDurations \cup {0} /\ now \in 0..MaxNow
    BY DEF AsyncInv, TypeOK, StorageTypeOK
  <2>2. 0 \in Duration /\ WaitDurations \subseteq Duration
    BY AsyncPoolAssumption, TimeMaxAssumption DEF Duration, TimeMin
  <2> QED BY <2>1, <2>2
<1>6. /\ QueueOK'
      /\ \A x \in Clients : Queued(x)' <=> Queued(x) \/ x = c
  BY <1>4, <1>5, QueueHolds, PushStep DEF GetPush
<1>7. RequestsAnswered'
  <2>1. DistinctClients'
    BY <1>6 DEF QueueOK
  <2>2. AnswersExpected'
    BY <1>1, <1>3, <1>4, <1>6 DEF RequestsAnswered, AnswersExpected
  <2>3. WaitersAnswered'
    BY <1>1, <1>3, <1>6 DEF RequestsAnswered, WaitersAnswered
  <2>4. AnswersDiffer'
    BY <1>1, <1>3 DEF RequestsAnswered, AnswersDiffer
  <2> QED BY <2>1, <2>2, <2>3, <2>4 DEF RequestsAnswered
<1>8. TypeOK'
  <2>1. pc' \in [Clients -> {"idle", "unlocked", "waiting", "holding", "returning"}]
        /\ wait' \in [Clients -> WaitDurations \cup {0}]
    BY DEF GetPush, At, AsyncInv, TypeOK
  <2> QED BY <1>1, <1>2, <1>6, <2>1 DEF QueueOK, CellsKept, StorageInv, AsyncInv, TypeOK
<1>9. QueueNext /\ UNCHANGED storageVars
  BY <1>1, <1>4, <1>5 DEF GetPush, fit_capacity, QueueNext, QueuePush, storageVars
<1> QED BY <1>2, <1>7, <1>8, <1>9 DEF CellsKept, AsyncInv, StepOK

\* disable runs the handler of a request itself.
LEMMA DisableInlineStep ==
    ASSUME AsyncInv, DisableInline
    PROVE  StepOK
<1> DEFINE first == Head(requests).client
<1>1. /\ QueueOK'
      /\ first \in Clients
      /\ Queued(first)
      /\ \A c \in Clients : Queued(c)' <=> Queued(c) /\ c # first
  BY QueueHolds, PopStep DEF DisableInline
<1>2. /\ pc' = [pc EXCEPT ![first] = "idle"]
      /\ served' = [served EXCEPT ![first] = generation]
      /\ UNCHANGED <<storageVars, wait, posted, handing, handle, disabled, draining>>
  BY DEF DisableInline
<1> HIDE DEF first
<1>3. /\ \A u \in Clients : pc'[u] = IF u = first THEN "idle" ELSE pc[u]
      /\ \A u \in Clients : served'[u] = IF u = first THEN generation ELSE served[u]
  BY <1>1, <1>2 DEF AsyncInv, TypeOK
<1>4. /\ RequestsAnswered
      /\ \A p \in posted : p.client \in Clients
      /\ \A h \in handing : h.client \in Clients
  BY DEF AsyncInv, TypeOK, Completion, Handing
<1>5. /\ pc[first] = "waiting"
      /\ \A p \in posted : p.client # first
      /\ \A h \in handing : h.client # first
  BY <1>1, <1>4 DEF RequestsAnswered, AnswersExpected
<1>6. CellsKept
  <2>1. /\ {} \in SUBSET Clients /\ "disabled" \in ErrorCodes \ {"ok"}
        /\ Post({Failure(c, "disabled") : c \in {}})
    BY <1>2 DEF Post, ErrorCodes
  <2>2. /\ \A u \in Clients : pc'[u] = "holding" <=> pc[u] = "holding"
        /\ \A u \in Clients : served'[u] \in {served[u], generation}
        /\ \A u \in Clients : pc[u] = "holding" => served'[u] = served[u]
    BY <1>3, <1>5
  <2> QED BY <1>2, <2>1, <2>2, FailuresStep
<1>7. RequestsAnswered'
  <2>1. DistinctClients'
    BY <1>1 DEF QueueOK
  <2>2. AnswersExpected'
    BY <1>1, <1>2, <1>3, <1>4, <1>5 DEF RequestsAnswered, AnswersExpected
  <2>3. WaitersAnswered'
    BY <1>1, <1>2, <1>3, <1>4 DEF RequestsAnswered, WaitersAnswered
  <2>4. AnswersDiffer'
    BY <1>2, <1>4 DEF RequestsAnswered, AnswersDiffer
  <2> QED BY <2>1, <2>2, <2>3, <2>4 DEF RequestsAnswered
<1>8. TypeOK'
  <2>1. /\ pc' \in [Clients -> {"idle", "unlocked", "waiting", "holding", "returning"}]
        /\ served' \in [Clients -> Nat]
    BY <1>1, <1>2, GenerationType DEF AsyncInv, TypeOK
  <2>2. reentered' \in BOOLEAN
    BY AsyncPoolAssumption DEF DisableInline
  <2> QED BY <1>1, <1>2, <1>6, <2>1, <2>2 DEF QueueOK, CellsKept, StorageInv, AsyncInv, TypeOK
<1>9. QueueNext /\ UNCHANGED storageVars
  BY <1>2 DEF DisableInline, QueueNext, QueuePop, storageVars
<1> QED BY <1>6, <1>7, <1>8, <1>9 DEF CellsKept, AsyncInv, StepOK

--------------------------------------------------------------------------------
(* The steps that change the storage or move cells between owners. *)

\* lease empties only cells that nobody uses.
LEMMA LeaseKeepsValues ==
    ASSUME StorageInv, NEW c \in Cells, lease(c), NEW x \in used
    PROVE  value'[x] = value[x]
<1>1. x \in Cells /\ x \notin Range(available)
  BY DEF StorageInv, StorageTypeOK, CellsPartitioned
<1>2. CASE LeaseWasted(c)
  BY <1>1, <1>2 DEF LeaseWasted
<1>3. CASE LeaseAvailable(c)
  <2>1. PICK k \in 0..(Len(available) - 1) :
            value' = [y \in Cells |-> IF \E i \in 1..k : available[i] = y THEN NoValue ELSE value[y]]
    BY <1>3 DEF LeaseAvailable
  <2>2. \A i \in 1..k : i \in DOMAIN available
    BY <2>1, LenProperties DEF StorageInv, StorageTypeOK
  <2>3. ~\E i \in 1..k : available[i] = x
    BY <1>1, <2>2 DEF Range
  <2> QED BY <1>1, <2>1, <2>3
<1> QED BY <1>2, <1>3 DEF lease

\* What is in the cells that clients have is kept, but the pool may have been
\* invalidated or time may have passed.
LEMMA StorageStep ==
    ASSUME AsyncInv, StorageNext, UNCHANGED <<requests, poolVars>>, used' = used,
           \A x \in used : value'[x] = value[x],
           generation <= generation', [QueueNext]_queueVars
    PROVE  StepOK
<1>1. StorageInv'
  BY NextHolds DEF AsyncInv
<1>2. TypeOK'
  BY <1>1 DEF AsyncInv, StorageInv, TypeOK, poolVars
<1>3. HoldersHaveCells' /\ CellsOwned'
  BY DEF AsyncInv, HoldersHaveCells, CellsOwned, OwnersUse, UsedOwned, OwnersDiffer, poolVars
<1>4. RequestsAnswered'
  <2>1. UNCHANGED <<requests, posted, handing>> /\ \A c \in Clients : pc'[c] = "waiting" <=> pc[c] = "waiting"
    BY DEF poolVars
  <2> QED BY <2>1, AnswersKept
<1>5. ServedValid'
  <2>1. generation \in Nat /\ generation' \in Nat
    BY <1>2, StorageAssumption DEF AsyncInv, TypeOK, StorageTypeOK
  <2>2. /\ \A p \in posted : p.generation \in Nat
        /\ \A h \in handing : h.generation \in Nat
        /\ \A c \in Clients : served[c] \in Nat
    BY DEF AsyncInv, TypeOK, Completion, Handing
  <2>3. ServedInThePast'
    BY <2>1, <2>2 DEF AsyncInv, ServedValid, ServedInThePast, poolVars
  <2>4. HandoversValid'
    BY DEF AsyncInv, ServedValid, HandoversValid, CellsOwned, OwnersUse, poolVars
  <2>5. /\ \A p \in posted : p.ec = "ok" => p.cell \in used
        /\ \A c \in Clients : pc[c] = "holding" => handle[c] \in used
    BY DEF AsyncInv, HoldersHaveCells, CellsOwned, OwnersUse
  <2>6. NoInvalidatedResourceServed'
    BY <2>5 DEF AsyncInv, ServedValid, NoInvalidatedResourceServed, poolVars
  <2> QED BY <2>3, <2>4, <2>6 DEF ServedValid
<1> QED BY <1>1, <1>2, <1>3, <1>4, <1>5 DEF AsyncInv, StepOK

LEMMA InvalidatePoolStep ==
    ASSUME AsyncInv, PoolInvalidate
    PROVE  StepOK
<1>1. StorageNext /\ UNCHANGED <<requests, poolVars>> /\ used' = used
  BY DEF PoolInvalidate, StorageNext, Invalidate, invalidate
<1>2. \A x \in used : value'[x] = value[x]
  BY DEF PoolInvalidate, invalidate, AsyncInv, StorageInv, StorageTypeOK, CellsPartitioned
<1>3. generation <= generation'
  BY GenerationType DEF PoolInvalidate, invalidate, AsyncInv
<1>4. UNCHANGED queueVars
  BY <1>1 DEF PoolInvalidate, invalidate, queueVars
<1> QED BY <1>1, <1>2, <1>3, <1>4, StorageStep

LEMMA TickPoolStep ==
    ASSUME AsyncInv, PoolTick
    PROVE  StepOK
<1>1. StorageNext /\ UNCHANGED <<requests, poolVars>> /\ used' = used /\ value' = value
  BY DEF PoolTick, StorageNext, Tick
<1>2. generation <= generation'
  BY GenerationType DEF PoolTick, Tick, AsyncInv
<1>3. QueueNext
  BY <1>1 DEF PoolTick, Tick, QueueNext, QueueTick
<1> QED BY <1>1, <1>2, <1>3, StorageStep

\* The holder of a handle replaces the resource: no other owner sees it.
LEMMA ResetHandleStep ==
    ASSUME AsyncInv, NEW c \in Clients, HandleReset(c)
    PROVE  StepOK
<1>1. handle[c] \in Cells /\ handle[c] \in used
  BY DEF HandleReset, AsyncInv, HoldersHaveCells, CellsOwned, OwnersUse
<1>2. StorageNext /\ UNCHANGED <<requests, poolVars>> /\ UNCHANGED <<used, generation, now>>
  BY <1>1 DEF HandleReset, StorageNext, Reset, reset
<1>3. StorageInv'
  BY <1>2, NextHolds DEF AsyncInv
<1>4. \A x \in Cells : value'[x] = IF x = handle[c] THEN NewResource ELSE value[x]
  BY DEF HandleReset, reset, AsyncInv, TypeOK, StorageTypeOK
<1>5. NewResource.generation = generation
  BY NowType DEF AsyncInv, StorageInv
<1>6. TypeOK'
  BY <1>2, <1>3 DEF AsyncInv, StorageInv, TypeOK, poolVars
<1>7. HoldersHaveCells' /\ CellsOwned'
  BY <1>2 DEF AsyncInv, HoldersHaveCells, CellsOwned, OwnersUse, UsedOwned, OwnersDiffer, poolVars
<1>8. RequestsAnswered'
  <2>1. UNCHANGED <<requests, posted, handing>> /\ \A u \in Clients : pc'[u] = "waiting" <=> pc[u] = "waiting"
    BY <1>2 DEF poolVars
  <2> QED BY <2>1, AnswersKept
<1>9. ServedValid'
  <2>1. generation \in Nat /\ \A u \in Clients : served[u] \in Nat
    BY GenerationType DEF AsyncInv, TypeOK
  <2>2. /\ \A p \in posted : p.ec = "ok" => p.cell \in Cells /\ p.cell # handle[c]
        /\ \A h \in handing : h.cell \in Cells /\ h.cell # handle[c]
        /\ \A u \in Clients : pc[u] = "holding" /\ u # c => handle[u] \in Cells /\ handle[u] # handle[c]
    BY <1>1 DEF AsyncInv, HoldersHaveCells, CellsOwned, OwnersDiffer, TypeOK, Handing
  <2>3. ServedInThePast'
    BY <1>2 DEF AsyncInv, ServedValid, ServedInThePast, poolVars
  <2>4. HandoversValid'
    BY <1>2, <1>4, <2>2 DEF AsyncInv, ServedValid, HandoversValid, poolVars
  <2>5. served[c] <= generation
    BY DEF AsyncInv, ServedValid, ServedInThePast
  <2>6. /\ \A p \in posted : p.ec = "ok" => value'[p.cell] = value[p.cell]
        /\ \A u \in Clients : pc[u] = "holding" /\ u # c => value'[handle[u]] = value[handle[u]]
        /\ value'[handle[c]].generation >= served[c]
    BY <1>1, <1>4, <1>5, <2>1, <2>2, <2>5
  <2>7. NoInvalidatedResourceServed'
    BY <1>2, <2>6 DEF AsyncInv, ServedValid, NoInvalidatedResourceServed, poolVars
  <2> QED BY <2>3, <2>4, <2>7 DEF ServedValid
<1>10. UNCHANGED queueVars
  BY <1>2 DEF queueVars
<1> QED BY <1>2, <1>3, <1>6, <1>7, <1>8, <1>9, <1>10 DEF AsyncInv, StepOK

\* get leases a cell and posts it to its client.
LEMMA GetLeaseStep ==
    ASSUME AsyncInv, NEW c \in Clients, GetLease(c)
    PROVE  StepOK
<1>1. PICK cell \in Cells :
          /\ lease(cell)
          /\ Post({[client |-> c, ec |-> "ok", cell |-> cell, generation |-> generation]})
  BY DEF GetLease
<1> DEFINE new == [client |-> c, ec |-> "ok", cell |-> cell, generation |-> generation]
<1>2. /\ new \in Completion /\ new.client = c /\ new.ec = "ok" /\ new.cell = cell
      /\ new.generation = generation
  BY GenerationType DEF AsyncInv, Completion, ErrorCodes
<1>3. posted' = posted \cup {new}
  BY <1>1 DEF Post
<1> HIDE DEF new
<1>4. /\ StorageInv' /\ used' = used \cup {cell} /\ cell \notin used
      /\ value'[cell] # NoValue => value'[cell].generation = generation
  BY <1>1, LeaseStep DEF AsyncInv, Fresh
<1>5. /\ UNCHANGED <<now, generation>>
      /\ \A x \in used : value'[x] = value[x]
  BY <1>1, LeaseKeepsValues DEF AsyncInv, lease, LeaseAvailable, LeaseWasted
<1>6. UNCHANGED <<requests, wait, handing, handle, served, disabled, draining, reentered>>
  BY DEF GetLease
<1>7. /\ pc[c] = "idle"
      /\ \A u \in Clients : pc'[u] = IF u = c THEN "waiting" ELSE pc[u]
  BY DEF GetLease, At, AsyncInv, TypeOK
<1>8. TypeOK'
  <2>1. pc' \in [Clients -> {"idle", "unlocked", "waiting", "holding", "returning"}]
    BY DEF GetLease, At, AsyncInv, TypeOK
  <2> QED BY <1>2, <1>3, <1>4, <1>6, <2>1 DEF StorageInv, AsyncInv, TypeOK
<1>9. HoldersHaveCells'
  BY <1>2, <1>3, <1>6, <1>7 DEF AsyncInv, HoldersHaveCells
<1>10. CellsOwned'
  <2>1. OwnersUse'
    BY <1>2, <1>3, <1>4, <1>6 DEF AsyncInv, CellsOwned, OwnersUse
  <2>2. UsedOwned'
    BY <1>2, <1>3, <1>4, <1>6 DEF AsyncInv, CellsOwned, UsedOwned
  <2>3. /\ \A p \in posted : p.cell # cell
        /\ \A h \in handing : h.cell # cell
        /\ \A u \in Clients : handle[u] # cell
    BY <1>4 DEF AsyncInv, CellsOwned, OwnersUse
  <2>4. OwnersDiffer'
    BY <1>2, <1>3, <1>6, <2>3 DEF AsyncInv, CellsOwned, OwnersDiffer
  <2> QED BY <2>1, <2>2, <2>4 DEF CellsOwned
<1>11. RequestsAnswered'
  <2>1. /\ RequestsAnswered
        /\ \A p \in posted : p.client \in Clients
        /\ \A h \in handing : h.client \in Clients
    BY DEF AsyncInv, TypeOK, Completion, Handing
  <2>2. ~Queued(c) /\ (\A p \in posted : p.client # c) /\ (\A h \in handing : h.client # c)
    BY <1>7, <2>1 DEF RequestsAnswered, AnswersExpected
  <2>3. DistinctClients'
    BY <1>6, <2>1, QueuedKept DEF RequestsAnswered
  <2>4. AnswersExpected'
    BY <1>2, <1>3, <1>6, <1>7, <2>1, <2>2, QueuedKept DEF RequestsAnswered, AnswersExpected
  <2>5. WaitersAnswered'
    BY <1>2, <1>3, <1>6, <1>7, <2>1, QueuedKept DEF RequestsAnswered, WaitersAnswered
  <2>6. AnswersDiffer'
    BY <1>2, <1>3, <1>6, <2>1, <2>2 DEF RequestsAnswered, AnswersDiffer
  <2> QED BY <2>3, <2>4, <2>5, <2>6 DEF RequestsAnswered
<1>12. ServedValid'
  <2>1. generation \in Nat
    BY GenerationType DEF AsyncInv
  <2>2. /\ \A p \in posted : p.ec = "ok" => p.cell \in used
        /\ \A u \in Clients : pc'[u] = "holding" => pc[u] = "holding" /\ handle[u] \in used
        /\ \A h \in handing : h.cell \in used
    BY <1>7 DEF AsyncInv, HoldersHaveCells, CellsOwned, OwnersUse
  <2>3. ServedInThePast'
    BY <1>2, <1>3, <1>5, <1>6, <2>1 DEF AsyncInv, ServedValid, ServedInThePast
  <2>4. HandoversValid'
    BY <1>5, <1>6, <2>2 DEF AsyncInv, ServedValid, HandoversValid
  <2>5. NoInvalidatedResourceServed'
    BY <1>2, <1>3, <1>4, <1>5, <1>6, <2>1, <2>2 DEF AsyncInv, ServedValid, NoInvalidatedResourceServed
  <2> QED BY <2>3, <2>4, <2>5 DEF ServedValid
<1>13. StorageNext /\ UNCHANGED queueVars
  BY <1>1, <1>5, <1>6 DEF StorageNext, Lease, queueVars
<1> QED BY <1>4, <1>8, <1>9, <1>10, <1>11, <1>12, <1>13 DEF AsyncInv, StepOK

\* A completion runs: its cell, if it has one, goes to the client's handle.
LEMMA RunHandlerStep ==
    ASSUME AsyncInv, NEW c \in Clients, RunHandler(c)
    PROVE  StepOK
<1>1. PICK p \in posted :
          /\ p.client = c
          /\ At(c, "waiting", IF p.ec = "ok" THEN "holding" ELSE "idle")
          /\ posted' = posted \ {p}
          /\ handle' = [handle EXCEPT ![c] = p.cell]
          /\ served' = [served EXCEPT ![c] = p.generation]
          /\ UNCHANGED <<storageVars, requests, wait, handing, disabled, draining, reentered>>
  BY DEF RunHandler
<1>2. StorageInv'
  BY <1>1, NextHolds DEF AsyncInv
<1>3. UNCHANGED <<now, used, value, generation>>
  BY <1>1 DEF storageVars
<1>4. /\ pc[c] = "waiting"
      /\ \A u \in Clients :
            /\ pc'[u] = IF u # c THEN pc[u] ELSE IF p.ec = "ok" THEN "holding" ELSE "idle"
            /\ handle'[u] = IF u = c THEN p.cell ELSE handle[u]
            /\ served'[u] = IF u = c THEN p.generation ELSE served[u]
  BY <1>1 DEF At, AsyncInv, TypeOK
<1>5. p \in Completion
  BY DEF AsyncInv, TypeOK
<1>6. TypeOK'
  <2>1. /\ pc' \in [Clients -> {"idle", "unlocked", "waiting", "holding", "returning"}]
        /\ handle' \in [Clients -> Cells \cup {NoCell}]
        /\ served' \in [Clients -> Nat]
    BY <1>1, <1>5 DEF At, AsyncInv, TypeOK, Completion
  <2> QED BY <1>1, <1>2, <2>1 DEF StorageInv, AsyncInv, TypeOK
<1>7. HoldersHaveCells'
  BY <1>1, <1>4 DEF AsyncInv, HoldersHaveCells
<1>8. handle[c] \notin Cells
  BY <1>4 DEF AsyncInv, HoldersHaveCells
<1>9. CellsOwned'
  <2>1. OwnersUse'
    BY <1>1, <1>3, <1>4 DEF AsyncInv, CellsOwned, OwnersUse
  <2>2. UsedOwned'
    <3> SUFFICES ASSUME NEW cell \in used
                 PROVE  \/ \E q \in posted' : q.cell = cell
                        \/ \E h \in handing' : h.cell = cell
                        \/ \E u \in Clients : handle'[u] = cell
      BY <1>3 DEF UsedOwned
    <3>1. cell \in Cells
      BY DEF AsyncInv, TypeOK, StorageTypeOK
    <3> QED BY <1>1, <1>4, <1>8, <3>1 DEF AsyncInv, CellsOwned, UsedOwned
  <2>3. OwnersDiffer'
    <3>1. /\ \A q, r \in posted' : q.cell \in Cells /\ q.cell = r.cell => q = r
          /\ \A h, g \in handing' : h.cell = g.cell => h = g
          /\ \A q \in posted', h \in handing' : q.cell # h.cell
      BY <1>1 DEF AsyncInv, CellsOwned, OwnersDiffer
    <3>2. \A u, v \in Clients : handle'[u] \in Cells /\ handle'[u] = handle'[v] => u = v
      BY <1>4 DEF AsyncInv, CellsOwned, OwnersDiffer
    <3>3. \A q \in posted', u \in Clients : q.cell \in Cells => q.cell # handle'[u]
      BY <1>1, <1>4 DEF AsyncInv, CellsOwned, OwnersDiffer
    <3>4. \A h \in handing', u \in Clients : h.cell # handle'[u]
      BY <1>1, <1>4 DEF AsyncInv, CellsOwned, OwnersDiffer
    <3> QED BY <3>1, <3>2, <3>3, <3>4 DEF OwnersDiffer
  <2> QED BY <2>1, <2>2, <2>3 DEF CellsOwned
<1>10. RequestsAnswered'
  <2>1. /\ RequestsAnswered
        /\ \A q \in posted : q.client \in Clients
        /\ \A h \in handing : h.client \in Clients
    BY DEF AsyncInv, TypeOK, Completion, Handing
  <2>2. ~Queued(c) /\ (\A q \in posted' : q.client # c) /\ (\A h \in handing : h.client # c)
    BY <1>1, <2>1 DEF RequestsAnswered, AnswersExpected, AnswersDiffer
  <2>3. DistinctClients'
    BY <1>1, <2>1, QueuedKept DEF RequestsAnswered
  <2>4. AnswersExpected'
    BY <1>1, <1>4, <2>1, <2>2, QueuedKept DEF RequestsAnswered, AnswersExpected
  <2>5. WaitersAnswered'
    BY <1>1, <1>4, <2>1, QueuedKept DEF RequestsAnswered, WaitersAnswered
  <2>6. AnswersDiffer'
    BY <1>1, <2>1 DEF RequestsAnswered, AnswersDiffer
  <2> QED BY <2>3, <2>4, <2>5, <2>6 DEF RequestsAnswered
<1>11. ServedValid'
  <2>1. ServedInThePast'
    BY <1>1, <1>3, <1>4 DEF AsyncInv, ServedValid, ServedInThePast
  <2>2. HandoversValid'
    BY <1>1, <1>3 DEF AsyncInv, ServedValid, HandoversValid
  <2>3. NoInvalidatedResourceServed'
    BY <1>1, <1>3, <1>4 DEF AsyncInv, ServedValid, NoInvalidatedResourceServed
  <2> QED BY <2>1, <2>2, <2>3 DEF ServedValid
<1>12. UNCHANGED storageVars /\ UNCHANGED queueVars
  BY <1>1, <1>3 DEF queueVars
<1> QED BY <1>2, <1>6, <1>7, <1>9, <1>10, <1>11, <1>12 DEF AsyncInv, StepOK

\* A cell goes back to the storage: recycle or waste found nobody waiting.
LEMMA ReturnStep ==
    ASSUME AsyncInv, NEW c \in Clients, RecycleToStorage(c) \/ WasteToStorage(c)
    PROVE  StepOK
<1>1. /\ pc[c] = "holding" /\ pc' = [pc EXCEPT ![c] = "idle"]
      /\ recycle(handle[c]) \/ waste(handle[c])
      /\ handle' = [handle EXCEPT ![c] = NoCell]
      /\ UNCHANGED <<requests, wait, posted, handing, served, disabled, draining, reentered>>
  BY DEF RecycleToStorage, WasteToStorage, At, Release
<1>2. /\ \A u \in Clients : pc'[u] = IF u = c THEN "idle" ELSE pc[u]
      /\ \A u \in Clients : handle'[u] = IF u = c THEN NoCell ELSE handle[u]
  BY <1>1 DEF AsyncInv, TypeOK
<1>3. handle[c] \in Cells /\ handle[c] \in used
  BY <1>1 DEF AsyncInv, HoldersHaveCells, CellsOwned, OwnersUse
<1>4. StorageNext
  BY <1>1, <1>3 DEF StorageNext, Recycle, Waste
<1>5. StorageInv'
  BY <1>4, NextHolds DEF AsyncInv
<1>6. /\ UNCHANGED <<now, generation>>
      /\ used' = used \ {handle[c]}
      /\ \A x \in Cells : x # handle[c] => value'[x] = value[x]
  BY <1>1, <1>3 DEF recycle, waste, Park, AsyncInv, TypeOK, StorageTypeOK
<1>7. TypeOK'
  <2>1. /\ pc' \in [Clients -> {"idle", "unlocked", "waiting", "holding", "returning"}]
        /\ handle' \in [Clients -> Cells \cup {NoCell}]
    BY <1>1 DEF AsyncInv, TypeOK
  <2> QED BY <1>1, <1>5, <2>1 DEF StorageInv, AsyncInv, TypeOK
<1>8. HoldersHaveCells'
  BY <1>1, <1>2, NoCellIsNoCell DEF AsyncInv, HoldersHaveCells
<1>9. /\ \A p \in posted : p.cell \in Cells => p.cell # handle[c]
      /\ \A h \in handing : h.cell \in Cells /\ h.cell # handle[c]
      /\ \A u \in Clients : handle'[u] \in Cells => handle'[u] = handle[u] /\ handle[u] # handle[c]
  BY <1>2, <1>3, NoCellIsNoCell DEF AsyncInv, CellsOwned, OwnersDiffer, TypeOK, Handing
<1>10. CellsOwned'
  <2>1. OwnersUse'
    BY <1>1, <1>2, <1>6, <1>9 DEF AsyncInv, CellsOwned, OwnersUse
  <2>2. UsedOwned'
    BY <1>1, <1>2, <1>6 DEF AsyncInv, CellsOwned, UsedOwned
  <2>3. OwnersDiffer'
    BY <1>1, <1>2, <1>9, NoCellIsNoCell DEF AsyncInv, CellsOwned, OwnersDiffer
  <2> QED BY <2>1, <2>2, <2>3 DEF CellsOwned
<1>11. RequestsAnswered'
  BY <1>1, <1>2, AnswersKept
<1>12. ServedValid'
  <2>1. /\ \A p \in posted : p.ec = "ok" => value'[p.cell] = value[p.cell]
        /\ \A h \in handing : value'[h.cell] = value[h.cell]
        /\ \A u \in Clients : pc'[u] = "holding" =>
              pc[u] = "holding" /\ handle'[u] = handle[u] /\ value'[handle[u]] = value[handle[u]]
    BY <1>2, <1>6, <1>8, <1>9 DEF AsyncInv, HoldersHaveCells
  <2>2. ServedInThePast'
    BY <1>1, <1>6 DEF AsyncInv, ServedValid, ServedInThePast
  <2>3. HandoversValid'
    BY <1>1, <2>1 DEF AsyncInv, ServedValid, HandoversValid
  <2>4. NoInvalidatedResourceServed'
    BY <1>1, <2>1 DEF AsyncInv, ServedValid, NoInvalidatedResourceServed
  <2> QED BY <2>2, <2>3, <2>4 DEF ServedValid
<1>13. UNCHANGED queueVars
  BY <1>1, <1>6 DEF queueVars
<1> QED BY <1>4, <1>5, <1>7, <1>8, <1>10, <1>11, <1>12, <1>13 DEF AsyncInv, StepOK

\* recycle and waste take the first request from the queue for the cell: only
\* a cell that is_valid found unmarked goes over with its resource.
LEMMA HandOverStep ==
    ASSUME AsyncInv, NEW c \in Clients, NEW valid \in BOOLEAN,
           valid => is_valid(handle[c]), HandOver(c, valid)
    PROVE  StepOK
<1> DEFINE first == Head(requests).client
           new == [by |-> c, client |-> first, cell |-> handle[c], valid |-> valid,
                   generation |-> generation]
<1>1. /\ QueueOK'
      /\ first \in Clients
      /\ Queued(first)
      /\ \A u \in Clients : Queued(u)' <=> Queued(u) /\ u # first
  BY QueueHolds, PopStep DEF HandOver
<1>2. /\ pc[c] = "holding" /\ pc' = [pc EXCEPT ![c] = "returning"]
      /\ handing' = handing \cup {new}
      /\ handle' = [handle EXCEPT ![c] = NoCell]
      /\ UNCHANGED <<storageVars, wait, posted, served, disabled, draining, reentered>>
  BY DEF HandOver, At, Release
<1> HIDE DEF first
<1>3. handle[c] \in Cells /\ handle[c] \in used
  BY <1>2 DEF AsyncInv, HoldersHaveCells, CellsOwned, OwnersUse
<1>4. /\ new \in Handing /\ new.client = first /\ new.cell = handle[c]
      /\ new.valid = valid /\ new.generation = generation
  BY <1>1, <1>3, GenerationType DEF AsyncInv, Handing
<1> HIDE DEF new
<1>5. /\ \A u \in Clients : pc'[u] = IF u = c THEN "returning" ELSE pc[u]
      /\ \A u \in Clients : handle'[u] = IF u = c THEN NoCell ELSE handle[u]
  BY <1>2 DEF AsyncInv, TypeOK
<1>6. StorageInv'
  BY <1>2, NextHolds DEF AsyncInv
<1>7. UNCHANGED <<now, used, value, generation>>
  BY <1>2 DEF storageVars
<1>8. TypeOK'
  <2>1. /\ pc' \in [Clients -> {"idle", "unlocked", "waiting", "holding", "returning"}]
        /\ handle' \in [Clients -> Cells \cup {NoCell}]
    BY <1>2 DEF AsyncInv, TypeOK
  <2>2. handing' \subseteq Handing
    BY <1>2, <1>4 DEF AsyncInv, TypeOK
  <2> QED BY <1>1, <1>2, <1>6, <2>1, <2>2 DEF QueueOK, StorageInv, AsyncInv, TypeOK
<1>9. HoldersHaveCells'
  BY <1>2, <1>5, NoCellIsNoCell DEF AsyncInv, HoldersHaveCells
<1>10. CellsOwned'
  <2>1. /\ \A p \in posted : p.cell # handle[c]
        /\ \A h \in handing : h.cell \in Cells /\ h.cell # handle[c]
        /\ \A u \in Clients : handle'[u] \in Cells => handle'[u] = handle[u] /\ handle[u] # handle[c]
    BY <1>3, <1>5, NoCellIsNoCell DEF AsyncInv, CellsOwned, OwnersDiffer, TypeOK, Handing
  <2>2. OwnersUse'
    BY <1>2, <1>3, <1>4, <1>5, <1>7, NoCellIsNoCell DEF AsyncInv, CellsOwned, OwnersUse
  <2>3. UsedOwned'
    BY <1>2, <1>4, <1>5, <1>7 DEF AsyncInv, CellsOwned, UsedOwned
  <2>4. OwnersDiffer'
    <3>1. /\ \A p, q \in posted' : p.cell \in Cells /\ p.cell = q.cell => p = q
          /\ \A h, g \in handing' : h.cell = g.cell => h = g
          /\ \A p \in posted', h \in handing' : p.cell # h.cell
      BY <1>2, <1>4, <2>1 DEF AsyncInv, CellsOwned, OwnersDiffer
    <3>2. \A u, v \in Clients : handle'[u] \in Cells /\ handle'[u] = handle'[v] => u = v
      BY <1>5, NoCellIsNoCell DEF AsyncInv, CellsOwned, OwnersDiffer
    <3>3. \A p \in posted', u \in Clients : p.cell \in Cells => p.cell # handle'[u]
      BY <1>2, <1>5, NoCellIsNoCell DEF AsyncInv, CellsOwned, OwnersDiffer
    <3>4. \A h \in handing', u \in Clients : h.cell # handle'[u]
      BY <1>2, <1>3, <1>4, <1>5, <2>1, NoCellIsNoCell DEF AsyncInv, CellsOwned, OwnersDiffer
    <3> QED BY <3>1, <3>2, <3>3, <3>4 DEF OwnersDiffer
  <2> QED BY <2>2, <2>3, <2>4 DEF CellsOwned
<1>11. RequestsAnswered'
  <2>1. /\ RequestsAnswered
        /\ \A p \in posted : p.client \in Clients
        /\ \A h \in handing : h.client \in Clients
    BY DEF AsyncInv, TypeOK, Completion, Handing
  <2>2. /\ pc[first] = "waiting" /\ first # c
        /\ \A p \in posted : p.client # first
        /\ \A h \in handing : h.client # first
    BY <1>1, <1>2, <2>1 DEF RequestsAnswered, AnswersExpected
  <2>3. DistinctClients'
    BY <1>1 DEF QueueOK
  <2>4. AnswersExpected'
    BY <1>1, <1>2, <1>4, <1>5, <2>1, <2>2 DEF RequestsAnswered, AnswersExpected
  <2>5. WaitersAnswered'
    BY <1>1, <1>2, <1>4, <1>5, <2>1 DEF RequestsAnswered, WaitersAnswered
  <2>6. AnswersDiffer'
    BY <1>2, <1>4, <2>1, <2>2 DEF RequestsAnswered, AnswersDiffer
  <2> QED BY <2>3, <2>4, <2>5, <2>6 DEF RequestsAnswered
<1>12. ServedValid'
  <2>1. generation \in Nat
    BY GenerationType DEF AsyncInv
  <2>2. ASSUME valid, value[handle[c]] # NoValue
        PROVE  value[handle[c]].generation >= generation
    <3>1. value[handle[c]] \in Resource
      BY <1>3, <2>2 DEF AsyncInv, TypeOK, StorageTypeOK
    <3>2. value[handle[c]].generation \in Nat
      BY <3>1 DEF Resource
    <3>3. ~(value[handle[c]].generation < generation)
      BY <1>3, <2>2 DEF AsyncInv, StorageInv, InvalidatedNeverReturn, is_valid
    <3> QED BY <2>1, <3>2, <3>3
  <2>3. ServedInThePast'
    BY <1>2, <1>4, <1>7, <2>1 DEF AsyncInv, ServedValid, ServedInThePast
  <2>4. HandoversValid'
    BY <1>2, <1>4, <1>7, <2>2 DEF AsyncInv, ServedValid, HandoversValid
  <2>5. \A u \in Clients : pc'[u] = "holding" => pc[u] = "holding" /\ handle'[u] = handle[u]
    BY <1>5
  <2>6. NoInvalidatedResourceServed'
    BY <1>2, <1>7, <2>5 DEF AsyncInv, ServedValid, NoInvalidatedResourceServed
  <2> QED BY <2>3, <2>4, <2>6 DEF ServedValid
<1>13. UNCHANGED storageVars /\ QueueNext
  BY <1>2, <1>7 DEF HandOver, QueueNext, QueuePop
<1> QED BY <1>6, <1>8, <1>9, <1>10, <1>11, <1>12, <1>13 DEF AsyncInv, StepOK

\* After unlock, recycle and waste post the cell to the request they popped,
\* emptied if it was not valid.
LEMMA PostQueuedStep ==
    ASSUME AsyncInv, NEW c \in Clients, PostQueued(c)
    PROVE  StepOK
<1>1. PICK h \in handing :
          /\ h.by = c
          /\ At(c, "returning", "idle")
          /\ handing' = handing \ {h}
          /\ \/ h.valid /\ UNCHANGED storageVars
             \/ ~h.valid /\ clear(h.cell)
          /\ Post({[client |-> h.client, ec |-> "ok", cell |-> h.cell,
                    generation |-> h.generation]})
          /\ UNCHANGED <<requests, wait, handle, served, disabled, draining, reentered>>
  BY DEF PostQueued
<1> DEFINE new == [client |-> h.client, ec |-> "ok", cell |-> h.cell,
                   generation |-> h.generation]
<1>2. h.client \in Clients /\ h.cell \in Cells /\ h.valid \in BOOLEAN /\ h.generation \in Nat
  BY DEF AsyncInv, TypeOK, Handing
<1>3. /\ new \in Completion /\ new.client = h.client /\ new.ec = "ok" /\ new.cell = h.cell
      /\ new.generation = h.generation
  BY <1>2 DEF Completion, ErrorCodes
<1>4. posted' = posted \cup {new}
  BY <1>1 DEF Post
<1> HIDE DEF new
<1>5. h.cell \in used
  BY DEF AsyncInv, CellsOwned, OwnersUse
<1>6. [StorageNext]_storageVars
  BY <1>1, <1>5 DEF StorageNext, Clear
<1>7. StorageInv'
  BY <1>6, NextHolds DEF AsyncInv
<1>8. /\ UNCHANGED <<now, used, generation>>
      /\ \A x \in Cells : x # h.cell => value'[x] = value[x]
      /\ \/ h.valid /\ value'[h.cell] = value[h.cell]
         \/ value'[h.cell] = NoValue
  BY <1>1, <1>2 DEF clear, storageVars, AsyncInv, TypeOK, StorageTypeOK
<1>9. /\ pc[c] = "returning"
      /\ \A u \in Clients : pc'[u] = IF u = c THEN "idle" ELSE pc[u]
  BY <1>1 DEF At, AsyncInv, TypeOK
<1>10. TypeOK'
  <2>1. pc' \in [Clients -> {"idle", "unlocked", "waiting", "holding", "returning"}]
    BY <1>1 DEF At, AsyncInv, TypeOK
  <2> QED BY <1>1, <1>3, <1>4, <1>7, <2>1 DEF StorageInv, AsyncInv, TypeOK
<1>11. HoldersHaveCells'
  BY <1>1, <1>2, <1>3, <1>4, <1>9 DEF AsyncInv, HoldersHaveCells
<1>12. /\ \A p \in posted : p.cell # h.cell
       /\ \A g \in handing' : g.cell \in Cells /\ g.cell # h.cell
       /\ \A u \in Clients : handle[u] # h.cell
  BY <1>1 DEF AsyncInv, CellsOwned, OwnersDiffer, TypeOK, Handing
<1>13. CellsOwned'
  <2>1. OwnersUse'
    BY <1>1, <1>3, <1>4, <1>5, <1>8 DEF AsyncInv, CellsOwned, OwnersUse
  <2>2. UsedOwned'
    BY <1>1, <1>3, <1>4, <1>8 DEF AsyncInv, CellsOwned, UsedOwned
  <2>3. OwnersDiffer'
    BY <1>1, <1>3, <1>4, <1>12 DEF AsyncInv, CellsOwned, OwnersDiffer
  <2> QED BY <2>1, <2>2, <2>3 DEF CellsOwned
<1>14. RequestsAnswered'
  <2>1. /\ RequestsAnswered
        /\ \A p \in posted : p.client \in Clients
        /\ \A g \in handing : g.client \in Clients
    BY DEF AsyncInv, TypeOK, Completion, Handing
  <2>2. /\ pc[h.client] = "waiting" /\ h.client # c /\ ~Queued(h.client)
        /\ \A p \in posted : p.client # h.client
        /\ \A g \in handing' : g.client # h.client
    BY <1>1, <1>9, <2>1 DEF RequestsAnswered, AnswersExpected, AnswersDiffer
  <2>3. DistinctClients'
    BY <1>1, <2>1, QueuedKept DEF RequestsAnswered
  <2>4. AnswersExpected'
    BY <1>1, <1>3, <1>4, <1>9, <2>1, <2>2, QueuedKept DEF RequestsAnswered, AnswersExpected
  <2>5. WaitersAnswered'
    BY <1>1, <1>3, <1>4, <1>9, <2>1, QueuedKept DEF RequestsAnswered, WaitersAnswered
  <2>6. AnswersDiffer'
    BY <1>1, <1>3, <1>4, <2>1, <2>2 DEF RequestsAnswered, AnswersDiffer
  <2> QED BY <2>3, <2>4, <2>5, <2>6 DEF RequestsAnswered
<1>15. ServedValid'
  <2>1. ServedInThePast'
    BY <1>1, <1>3, <1>4, <1>8 DEF AsyncInv, ServedValid, ServedInThePast
  <2>2. HandoversValid'
    BY <1>1, <1>8, <1>12 DEF AsyncInv, ServedValid, HandoversValid
  <2>3. /\ \A p \in posted : p.ec = "ok" => value'[p.cell] = value[p.cell]
        /\ \A u \in Clients : pc'[u] = "holding" =>
              pc[u] = "holding" /\ value'[handle[u]] = value[handle[u]]
        /\ value'[h.cell] # NoValue => value'[h.cell].generation >= h.generation
    BY <1>8, <1>9, <1>12 DEF AsyncInv, HoldersHaveCells, ServedValid, HandoversValid
  <2>4. NoInvalidatedResourceServed'
    BY <1>1, <1>3, <1>4, <2>3 DEF AsyncInv, ServedValid, NoInvalidatedResourceServed
  <2> QED BY <2>1, <2>2, <2>4 DEF ServedValid
<1>16. UNCHANGED queueVars
  BY <1>1, <1>8 DEF queueVars
<1> QED BY <1>6, <1>7, <1>10, <1>11, <1>13, <1>14, <1>15, <1>16 DEF AsyncInv, StepOK

--------------------------------------------------------------------------------
(* The invariant. *)

\* A new pool: nothing is leased, nobody waits and nobody has a handle.
LEMMA AsyncInitHolds == Init => AsyncInv
<1> SUFFICES ASSUME Init PROVE AsyncInv
  OBVIOUS
<1>1. StorageInv
  BY InitHolds DEF Init
<1>2. used = {} /\ generation = 0 /\ posted = {} /\ handing = {}
      /\ DOMAIN requests = {} /\ Len(requests) = 0
      /\ requests \in Seq(Request)
      /\ \A c \in Clients : pc[c] = "idle" /\ handle[c] = NoCell /\ served[c] = 0
  BY DEF Init, StorageInit
<1>3. TypeOK
  <2>1. disabled \in BOOLEAN /\ draining \in BOOLEAN /\ reentered \in BOOLEAN
    BY DEF Init
  <2>2. Len(requests) <= QueueCapacity
    BY <1>2, QueueAssumption
  <2> QED BY <1>1, <1>2, <2>1, <2>2 DEF Init, StorageInv, TypeOK
<1>4. HoldersHaveCells /\ CellsOwned
  BY <1>2, NoCellIsNoCell DEF HoldersHaveCells, CellsOwned, OwnersUse, UsedOwned, OwnersDiffer
<1>5. RequestsAnswered
  BY <1>2, QueuedPosition
     DEF RequestsAnswered, DistinctClients, AnswersExpected, WaitersAnswered, AnswersDiffer
<1>6. ServedValid
  BY <1>2 DEF ServedValid, ServedInThePast, HandoversValid, NoInvalidatedResourceServed
<1> QED BY <1>1, <1>3, <1>4, <1>5, <1>6 DEF AsyncInv

\* Every action of every client, and disable, invalidate and the clock.
LEMMA AsyncNextHolds == AsyncInv /\ [Next]_vars => StepOK
<1> SUFFICES ASSUME AsyncInv, [Next]_vars PROVE StepOK
  OBVIOUS
<1>0. /\ wait \in [Clients -> WaitDurations \cup {0}]
      /\ pc \in [Clients -> {"idle", "unlocked", "waiting", "holding", "returning"}]
      /\ disabled \in BOOLEAN /\ draining \in BOOLEAN /\ reentered \in BOOLEAN
      /\ {"disabled", "get_resource_timeout", "request_queue_overflow"} \subseteq ErrorCodes \ {"ok"}
  BY DEF AsyncInv, TypeOK, ErrorCodes
<1>1. ASSUME NEW c \in Clients, GetDisabled(c) \/ GetNoWait(c) \/ GetOverflow(c) PROVE StepOK
  <2>1. wait' \in [Clients -> WaitDurations \cup {0}]
    BY <1>0, <1>1 DEF GetDisabled, GetNoWait, GetOverflow
  <2>2. CASE GetDisabled(c)
    BY <1>0, <2>1, <2>2, GetFailsStep DEF GetDisabled, At
  <2>3. CASE GetNoWait(c)
    BY <1>0, <2>1, <2>3, GetFailsStep DEF GetNoWait, At
  <2>4. CASE GetOverflow(c)
    BY <1>0, <2>1, <2>4, GetFailsStep DEF GetOverflow, At
  <2> QED BY <1>1, <2>2, <2>3, <2>4
<1>2. ASSUME NEW c \in Clients, GetMiss(c) PROVE StepOK
  <2>1. /\ wait' \in [Clients -> WaitDurations \cup {0}]
        /\ pc' \in [Clients -> {"idle", "unlocked", "waiting", "holding", "returning"}]
        /\ \A u \in Clients : pc'[u] = "waiting" <=> pc[u] = "waiting"
        /\ \A u \in Clients : pc'[u] = "holding" <=> pc[u] = "holding"
    BY <1>0, <1>2 DEF GetMiss, At
  <2>2. disabled' \in BOOLEAN /\ draining' \in BOOLEAN /\ reentered' \in BOOLEAN
    BY <1>0, <1>2 DEF GetMiss
  <2> QED BY <1>2, <2>1, <2>2, QuietStep DEF GetMiss
<1>3. ASSUME NEW c \in Clients, RecycleToQueued(c) \/ WasteToQueued(c) PROVE StepOK
  <2>1. CASE RecycleToQueued(c)
    <3>1. is_valid(handle[c]) \in BOOLEAN
      BY DEF is_valid
    <3> QED BY <2>1, <3>1, HandOverStep DEF RecycleToQueued
  <2>2. CASE WasteToQueued(c)
    BY <2>2, HandOverStep DEF WasteToQueued
  <2> QED BY <1>3, <2>1, <2>2
<1>4. ASSUME NEW c \in Clients, Get(c) \/ GetContinue(c) PROVE StepOK
  BY <1>1, <1>2, <1>4, GetLeaseStep, GetPushStep DEF Get, GetContinue
<1>5. ASSUME NEW c \in Clients, Return(c) PROVE StepOK
  BY <1>3, <1>5, ReturnStep DEF Return
<1>6. ASSUME NEW c \in Clients, RunHandler(c) \/ HandleReset(c) \/ PostQueued(c) \/ Expire(c)
      PROVE  StepOK
  BY <1>6, RunHandlerStep, ResetHandleStep, PostQueuedStep, ExpireStep
<1>7. CASE DisableBegin \/ DisableEnd \/ UNCHANGED vars
  <2>1. /\ UNCHANGED <<storageVars, requests, posted, handing, handle, served, pc, wait>>
        /\ disabled' \in BOOLEAN /\ draining' \in BOOLEAN /\ reentered' \in BOOLEAN
    BY <1>0, <1>7 DEF DisableBegin, DisableEnd, vars, poolVars
  <2> QED BY <1>0, <2>1, QuietStep
<1>8. CASE DisablePop \/ DisableInline
  BY <1>8, DisablePopStep, DisableInlineStep
<1>9. CASE PoolInvalidate \/ PoolTick
  BY <1>9, InvalidatePoolStep, TickPoolStep
<1> QED BY <1>4, <1>5, <1>6, <1>7, <1>8, <1>9 DEF Next, DisableContinue

\* The inductive invariant: types, the storage's invariant, the ownership of
\* cells, the answers to requests and what was served to whom when.
THEOREM AsyncInvariant == Spec => []AsyncInv
<1>1. StepOK => AsyncInv'
  BY DEF StepOK
<1> QED BY <1>1, AsyncInitHolds, AsyncNextHolds, PTL DEF Spec

\* The states of the clients, their completions and handles, the queue and its
\* bound keep their types (async/detail/pool_impl.hpp: every member function).
THEOREM AsyncTypes == Spec => []TypeOK
<1>1. AsyncInv => TypeOK
  BY DEF AsyncInv
<1> QED BY <1>1, AsyncInvariant, PTL

\* No two clients, completions or returning calls ever share a cell and none
\* leaks, however get, the completions, recycle, waste, the timer, disable and
\* invalidate interleave (async/detail/pool_impl.hpp; handle.hpp).
THEOREM AsyncOwnership == Spec => []EveryUsedCellOwnedOnce
<1>1. AsyncInv => EveryUsedCellOwnedOnce
  BY OwnershipForm DEF AsyncInv
<1> QED BY <1>1, AsyncInvariant, PTL

\* No request is lost or answered twice, whether a returned cell, the timer or
\* disable gets to it first (async/detail/queue.hpp: pop, cancel;
\* async/detail/pool_impl.hpp: get, recycle, waste, disable).
THEOREM AsyncOneAnswer == Spec => []OneAnswerPerRequest
<1>1. AsyncInv => OneAnswerPerRequest
  BY AnswersForm DEF AsyncInv
<1> QED BY <1>1, AsyncInvariant, PTL

\* recycle may act on a stale is_valid after it has unlocked, and yet no client
\* gets a resource that had been invalidated when its cell was chosen
\* (async/detail/pool_impl.hpp: recycle, waste, get; storage.hpp: is_valid).
THEOREM AsyncNoInvalidated == Spec => []NoInvalidatedResourceServed
<1>1. AsyncInv => NoInvalidatedResourceServed
  BY DEF AsyncInv, ServedValid
<1> QED BY <1>1, AsyncInvariant, PTL

\* The pool implements its storage: it returns and writes to leased cells only,
\* so what is proved of the storage holds in the pool
\* (async/detail/pool_impl.hpp: the calls of storage_).
THEOREM AsyncImplementsStorage == Spec => StorageSpec
<1>1. Init => StorageInit
  BY DEF Init
<1>2. StepOK => [StorageNext]_storageVars
  BY DEF StepOK
<1> QED BY <1>1, <1>2, AsyncInvariant, AsyncNextHolds, PTL DEF Spec, StorageSpec

\* The pool implements the queue's promise: it pushes only while there is room
\* and for clients that have no request there, although it looks at the queue
\* without its own mutex (async/detail/pool_impl.hpp: the calls of _callbacks).
THEOREM AsyncImplementsQueue == Spec => QueueSpec
<1>1. Init => QueueInit
  BY DEF Init, StorageInit, QueueInit
<1>2. StepOK => [QueueNext]_queueVars
  BY DEF StepOK
<1> QED BY <1>1, <1>2, AsyncInvariant, AsyncNextHolds, PTL DEF Spec, QueueSpec

\* What the storage promises holds while the pool uses it, handing cells from
\* one client to the next past the storage: no cell is lost or shared, no
\* invalidated resource comes back into available_, and every lease is fresh
\* and unmarked (storage.hpp: lease, recycle, waste, invalidate;
\* async/detail/pool_impl.hpp: get, recycle, waste, invalidate).
THEOREM AsyncStorageHolds ==
    Spec => /\ []CellsPartitioned /\ []WastedHoldNothing /\ []InvalidatedNeverReturn
            /\ LeaseHandsOutFresh /\ LeasedUnmarked
<1> QED BY AsyncImplementsStorage, PartitionCorrect, WastedEmpty, InvalidationCorrect,
           LeaseFreshCorrect, LeaseUnmarkedCorrect, PTL
================================================================================
