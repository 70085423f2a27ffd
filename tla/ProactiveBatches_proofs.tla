---------------------- MODULE ProactiveBatches_proofs ----------------------
(***************************************************************************)
(* Theorems of ProactiveBatches for any groups, times and bounds: batches  *)
(* are due in time, groups take turns, the call covers what was said, and  *)
(* a deleted key is not used.                                              *)
(***************************************************************************)
EXTENDS ProactiveBatches, FiniteSetTheorems, SequenceTheorems, TLAPS

------------------------------------------------------------------------------
(* The state by its kinds *)

Phases == {"idle", "next", "wait", "context", "queued", "asked", "backoff"}
Batches == [from : Nat, to : Nat, age : 0..MaxWait, timer : Off..Debounce]
Drains == [phase : Phases, group : Groups \cup {NoGroup}, from : Nat, to : Nat, stale : BOOLEAN,
           version : Nat, tries : 0..Tries, aborted : BOOLEAN]

WorldType ==
  /\ said \in [Groups -> 0..MaxSaid]
  /\ config \in [ready : BOOLEAN, version : Nat] /\ paused \in BOOLEAN
  /\ existing \subseteq Groups /\ eligible \subseteq existing
  /\ faults \in Nat

\* The messages of a batch were said.
BatchesRight ==
  /\ batches \in [Groups -> Batches]
  /\ \A g \in Groups : batches[g].from <= batches[g].to /\ batches[g].to <= said[g]

QueueType == queue \in Seq(Groups) /\ queued \subseteq Groups

ClocksType ==
  /\ loose \in [Groups -> [0..MaxWait -> Nat]]
  /\ since \in [Groups -> 0..Interval]

\* A drain at work is at work for a group, and only a call that was sent counts tries.
DrainRight ==
  /\ drain \in Drains /\ drain.from <= drain.to
  /\ drain.phase \in {"idle", "next"} <=> drain.group = NoGroup
  /\ drain.phase \notin {"asked", "backoff"} => drain.tries = 0 /\ ~drain.aborted
  /\ drain.phase = "backoff" => drain.tries < Tries

\* What is owed was said.
HistoryRight ==
  /\ owed \in [Groups -> Nat] /\ \A g \in Groups : owed[g] <= said[g]
  /\ passed \in [Groups -> [Groups -> Nat]]
  /\ deleted \in Nat

Types == WorldType /\ BatchesRight /\ QueueType /\ ClocksType /\ DrainRight /\ HistoryRight

------------------------------------------------------------------------------
(* The invariants *)

\* The set of queued groups and the queue are one, and who had its turn while a
\* group waits does not wait in front of it.
QueueInv ==
  /\ \A g \in Groups : g \in queued <=> \E i \in 1..Len(queue) : queue[i] = g
  /\ \A i, j \in 1..Len(queue) : queue[i] = queue[j] => i = j
  /\ \A i \in 1..Len(queue), h \in Groups :
       /\ passed[queue[i]][h] <= 1
       /\ passed[queue[i]][h] = 1 => \A j \in 1..(i - 1) : queue[j] # h

\* Between the choice of a group and its call, the call that is prepared and the
\* batch that grows meanwhile have what is owed between them.
Preparing(g) == drain.phase \in {"context", "queued"} /\ drain.group = g
OwedInv ==
  \A g \in Groups :
    IF Preparing(g) THEN drain.stale \/ owed[g] <= Larger(drain.to, batches[g].to)
    ELSE owed[g] <= batches[g].to

\* A call that is going to be sent has a key from after the last deletion, or is
\* aborted; the version of the stored key, valid or not, is later than that too.
KeyInv ==
  /\ deleted < config.version
  /\ drain.phase \in {"queued", "asked", "backoff"} => drain.aborted \/ deleted < drain.version

BatchesInv == DueInTime /\ QueueInv /\ OwedInv /\ KeyInv

------------------------------------------------------------------------------
(* Helpers *)

LEMMA Bounds ==
  /\ Debounce \in Nat \ {0} /\ MaxWait \in Nat \ {0} /\ Interval \in Nat \ {0}
  /\ Tries \in Nat \ {0} /\ MaxSaid \in Nat \ {0} /\ MaxFaults \in Nat \ {0}
  /\ Debounce <= MaxWait /\ NoGroup \notin Groups /\ IsFiniteSet(Groups)
  BY ConstantsAssumption

LEMMA Extremes ==
  ASSUME NEW a \in Int, NEW b \in Int
  PROVE  /\ Smaller(a, b) \in {a, b} /\ Smaller(a, b) <= a /\ Smaller(a, b) <= b
         /\ Larger(a, b) \in {a, b} /\ Larger(a, b) >= a /\ Larger(a, b) >= b
  BY DEF Smaller, Larger

\* The drain in another phase, or told that its call is aborted
LEMMA DrainSteps ==
  ASSUME NEW d \in Drains
  PROVE  /\ d.phase \in Phases /\ d.group \in Groups \cup {NoGroup} /\ d.from \in Nat /\ d.to \in Nat
         /\ d.stale \in BOOLEAN /\ d.version \in Nat /\ d.tries \in 0..Tries
         /\ d.aborted \in BOOLEAN
         /\ \A p \in Phases :
              LET e == [d EXCEPT !.phase = p]
              IN  /\ e \in Drains /\ e.phase = p /\ e.group = d.group /\ e.from = d.from
                  /\ e.to = d.to /\ e.stale = d.stale /\ e.version = d.version
                  /\ e.tries = d.tries /\ e.aborted = d.aborted
         /\ LET e == [d EXCEPT !.aborted = TRUE]
            IN  /\ e \in Drains /\ e.phase = d.phase /\ e.group = d.group /\ e.from = d.from
                /\ e.to = d.to /\ e.stale = d.stale /\ e.version = d.version
                /\ e.tries = d.tries /\ e.aborted = TRUE
<1>1. /\ d.phase \in Phases /\ d.group \in Groups \cup {NoGroup} /\ d.from \in Nat /\ d.to \in Nat
      /\ d.stale \in BOOLEAN /\ d.version \in Nat /\ d.tries \in 0..Tries
      /\ d.aborted \in BOOLEAN
  BY DEF Drains
<1>2. ASSUME NEW p \in Phases
      PROVE  LET e == [d EXCEPT !.phase = p]
             IN  /\ e \in Drains /\ e.phase = p /\ e.group = d.group /\ e.from = d.from
                 /\ e.to = d.to /\ e.stale = d.stale /\ e.version = d.version
                 /\ e.tries = d.tries /\ e.aborted = d.aborted
  BY DEF Drains
<1>3. LET e == [d EXCEPT !.aborted = TRUE]
      IN  /\ e \in Drains /\ e.phase = d.phase /\ e.group = d.group /\ e.from = d.from
          /\ e.to = d.to /\ e.stale = d.stale /\ e.version = d.version
          /\ e.tries = d.tries /\ e.aborted = TRUE
  BY DEF Drains
<1> QED BY <1>1, <1>2, <1>3

\* #drain goes on.
Going == [Idle EXCEPT !.phase = "next"]

LEMMA IdleFields ==
  /\ Idle \in Drains /\ Going \in Drains
  /\ Idle.phase = "idle" /\ Going.phase = "next"
  /\ \A d \in {Idle, Going} : /\ d.group = NoGroup /\ d.from = 0 /\ d.to = 0 /\ d.stale = FALSE
                              /\ d.version = 0 /\ d.tries = 0 /\ d.aborted = FALSE
<1>1. Idle \in Drains
  BY Bounds DEF Idle, Drains, Phases
<1>2. Going \in Drains
  BY <1>1, DrainSteps DEF Going, Phases
<1>3. /\ Idle.phase = "idle" /\ Idle.group = NoGroup /\ Idle.from = 0 /\ Idle.to = 0
      /\ Idle.stale = FALSE /\ Idle.version = 0 /\ Idle.tries = 0 /\ Idle.aborted = FALSE
  BY DEF Idle
<1>4. /\ Going.phase = "next" /\ Going.group = NoGroup /\ Going.from = 0 /\ Going.to = 0
      /\ Going.stale = FALSE /\ Going.version = 0 /\ Going.tries = 0 /\ Going.aborted = FALSE
  BY DEF Going, Idle
<1> QED BY <1>1, <1>2, <1>3, <1>4

LEMMA NoBatchFields ==
  NoBatch \in Batches /\ NoBatch.from = 0 /\ NoBatch.to = 0
<1>1. 0 \in 0..MaxWait /\ Off \in Off..Debounce
  BY Bounds DEF Off
<1> QED BY <1>1 DEF NoBatch, Batches

LEMMA DueRight ==
  ASSUME NEW age \in 0..MaxWait
  PROVE  Due(age) \in 0..Debounce /\ age + Due(age) <= MaxWait
  BY Bounds DEF Due, Smaller, Larger

\* A batch after one more message
LEMMA TriggeredRight ==
  ASSUME NEW b \in Batches, NEW seq \in Nat, b.to <= seq, b.from <= b.to
  PROVE  /\ Triggered(b, seq) \in Batches
         /\ Triggered(b, seq).from <= seq /\ Triggered(b, seq).to = seq
         /\ Triggered(b, seq).timer # Off
         /\ Triggered(b, seq).age + Triggered(b, seq).timer <= MaxWait
<1>1. b.from \in Nat /\ b.to \in Nat /\ b.age \in 0..MaxWait
  BY DEF Batches
<1> DEFINE from == IF b = NoBatch THEN seq ELSE b.from
           to == Larger(b.to, seq)
           due == Due(b.age)
<1>2. to = seq /\ from \in Nat /\ from <= seq
  BY <1>1 DEF Larger
<1>3. due \in 0..Debounce /\ b.age + due <= MaxWait
  BY <1>1, DueRight
<1>4. Triggered(b, seq) = [from |-> from, to |-> to, age |-> b.age, timer |-> due]
  BY DEF Triggered
<1> HIDE DEF from, to, due
<1>5. due \in Off..Debounce /\ due # Off
  BY <1>3, Bounds DEF Off
<1> QED BY <1>1, <1>2, <1>3, <1>4, <1>5 DEF Batches

LEMMA LoosenedRight ==
  ASSUME NEW l \in [0..MaxWait -> Nat], NEW t \in Off..Debounce
  PROVE  Loosened(l, t) \in [0..MaxWait -> Nat]
<1>1. t # Off => t \in 0..MaxWait
  BY Bounds DEF Off
<1> QED BY <1>1 DEF Loosened

\* People have room to write only while the group has.
LEMMA RoomToSay ==
  ASSUME WorldType, NEW g \in Groups, AllSaid < MostSaid
  PROVE  said[g] < MaxSaid /\ said[g] \in Nat
<1> DEFINE all == {x \in Groups \X (1..MaxSaid) : x[2] <= said[x[1]]}
           mine == {<<g, i>> : i \in 1..said[g]}
<1>1. said[g] \in 0..MaxSaid
  BY DEF WorldType
<1>2. IsFiniteSet(Groups \X (1..MaxSaid))
  <2>1. 1 \in Int /\ MaxSaid \in Int
    BY Bounds
  <2>2. IsFiniteSet(1..MaxSaid)
    BY <2>1, FS_Interval
  <2> QED BY <2>2, Bounds, FS_Product
<1>3. IsFiniteSet(all)
  BY <1>2, FS_Subset
<1>4. mine \subseteq all
  BY <1>1, Bounds
<1>5. Cardinality(mine) = said[g]
  <2> DEFINE f == [i \in 1..said[g] |-> <<g, i>>]
  <2>1. f \in Bijection(1..said[g], mine)
    BY DEF Bijection, Injection, Surjection, IsInjective
  <2>2. /\ IsFiniteSet(1..said[g])
        /\ Cardinality(1..said[g]) = IF 1 > said[g] THEN 0 ELSE said[g] - 1 + 1
    <3> HIDE DEF all, mine, f
    <3>1. 1 \in Int /\ said[g] \in Int
      BY <1>1, Bounds
    <3> QED BY <3>1, FS_Interval
  <2>3. ExistsBijection(1..said[g], mine)
    BY <2>1 DEF ExistsBijection
  <2> HIDE DEF all, mine, f
  <2>4. Cardinality(mine) = Cardinality(1..said[g])
    BY <2>2, <2>3, FS_Bijection
  <2> QED BY <1>1, <2>2, <2>4, Bounds
<1>6. Cardinality(mine) <= Cardinality(all)
  BY <1>3, <1>4, FS_Subset
<1>7. Cardinality(all) \in Nat
  BY <1>3, FS_CardinalityType
<1> HIDE DEF mine
<1>8. AllSaid = Cardinality(all)
  BY DEF AllSaid
<1>9. AllSaid < MaxSaid
  BY <1>7, <1>8, Bounds DEF MostSaid, WorldType
<1> HIDE DEF all
<1> QED BY <1>1, <1>5, <1>6, <1>7, <1>8, <1>9, Bounds

\* The drain that waits for a group
LEMMA WaitDrain ==
  ASSUME NEW g \in Groups
  PROVE  LET d == [Idle EXCEPT !.phase = "wait", !.group = g]
         IN  /\ d \in Drains /\ d.phase = "wait" /\ d.group = g /\ d.from = 0 /\ d.to = 0
             /\ d.stale = FALSE /\ d.version = 0 /\ d.tries = 0 /\ d.aborted = FALSE
<1>1. ASSUME NEW i \in Drains
      PROVE  LET d == [i EXCEPT !.phase = "wait", !.group = g]
             IN  /\ d \in Drains /\ d.phase = "wait" /\ d.group = g
                 /\ d.from = i.from /\ d.to = i.to
                 /\ d.stale = i.stale /\ d.version = i.version /\ d.tries = i.tries
                 /\ d.aborted = i.aborted
  BY DEF Drains, Phases
<1> QED BY <1>1, IdleFields

\* The drain whose call is sent
Asked(d, from, to) == [d EXCEPT !.phase = "asked", !.to = to, !.tries = @ + 1, !.from = from]

LEMMA AskedDrain ==
  ASSUME NEW d \in Drains, NEW from \in Nat, NEW to \in Nat, d.tries < Tries,
         NEW e, e = Asked(d, from, to)
  PROVE  /\ e \in Drains /\ e.phase = "asked" /\ e.group = d.group /\ e.from = from /\ e.to = to
         /\ e.stale = d.stale /\ e.version = d.version /\ e.tries = d.tries + 1
         /\ e.aborted = d.aborted
<1> DEFINE tries == d.tries + 1
<1>1. tries \in 0..Tries
  <2>1. d.tries \in Nat
    BY Bounds DEF Drains
  <2> QED BY <2>1, Bounds
<1>2. e = [d EXCEPT !.phase = "asked", !.to = to, !.tries = tries, !.from = from]
  BY DEF Drains, Asked
<1> HIDE DEF tries
<1>3. /\ e \in Drains /\ e.phase = "asked" /\ e.group = d.group /\ e.from = from /\ e.to = to
      /\ e.stale = d.stale /\ e.version = d.version /\ e.tries = tries
      /\ e.aborted = d.aborted
  BY ZenonT(60), <1>1, <1>2 DEF Drains, Phases
<1> QED BY <1>3 DEF tries

\* abortAll is a step of the drain to the next group, or it keeps what it has.
LEMMA AbortAllRight ==
  ASSUME Types
  PROVE  /\ AbortAll \in Drains
         /\ drain.phase = "queued" => AbortAll = Going
         /\ drain.phase # "queued" =>
              /\ AbortAll.phase = drain.phase /\ AbortAll.group = drain.group
              /\ AbortAll.from = drain.from /\ AbortAll.to = drain.to
              /\ AbortAll.stale = drain.stale /\ AbortAll.version = drain.version
              /\ AbortAll.tries = drain.tries
              /\ AbortAll.aborted = (drain.aborted \/ drain.phase \in {"asked", "backoff"})
<1>1. drain \in Drains
  BY DEF Types, DrainRight
<1>2. CASE drain.phase = "queued"
  BY <1>2, IdleFields DEF AbortAll, Going
<1>3. CASE drain.phase # "queued" /\ drain.phase \in {"asked", "backoff"}
  BY ZenonT(60), <1>1, <1>3, DrainSteps DEF AbortAll
<1>4. CASE drain.phase # "queued" /\ drain.phase \notin {"asked", "backoff"}
  <2>1. AbortAll = drain
    BY <1>4 DEF AbortAll
  <2>2. drain.aborted = (drain.aborted \/ drain.phase \in {"asked", "backoff"})
    BY <1>1, <1>4, DrainSteps
  <2> QED BY <1>1, <1>4, <2>1, <2>2
<1> QED BY <1>2, <1>3, <1>4

\* clear() takes the batch of a group from nobody but #batches.
LEMMA AfterClearRight ==
  ASSUME Types, NEW d \in Drains, d.phase = "wait" => d.group \in Groups
  PROVE  /\ AfterClear(d) \in Drains /\ AfterClear(d).phase = d.phase
         /\ AfterClear(d).group = d.group /\ AfterClear(d).version = d.version
         /\ AfterClear(d).tries = d.tries /\ AfterClear(d).aborted = d.aborted
         /\ d.from <= d.to => AfterClear(d).from <= AfterClear(d).to
<1>1. CASE d.phase = "wait" /\ ~d.stale
  <2> DEFINE from == batches[d.group].from
             to == batches[d.group].to
  <2>1. d.group \in Groups
    BY <1>1
  <2>2. batches[d.group] \in Batches /\ from <= to
    BY <2>1 DEF Types, BatchesRight
  <2>3. from \in Nat /\ to \in Nat
    BY <2>2 DEF Batches
  <2>4. AfterClear(d) = [d EXCEPT !.stale = TRUE, !.from = from, !.to = to]
    BY <1>1 DEF AfterClear
  <2> HIDE DEF from, to
  <2>5. AfterClear(d).from = from /\ AfterClear(d).to = to
    BY <2>3, <2>4 DEF Drains
  <2>6. /\ AfterClear(d) \in Drains /\ AfterClear(d).phase = d.phase
        /\ AfterClear(d).group = d.group /\ AfterClear(d).version = d.version
        /\ AfterClear(d).tries = d.tries /\ AfterClear(d).aborted = d.aborted
    BY <2>3, <2>4 DEF Drains
  <2> QED BY <2>2, <2>5, <2>6 DEF from, to
<1>2. CASE ~(d.phase = "wait" /\ ~d.stale)
  BY <1>2 DEF AfterClear
<1> QED BY <1>1, <1>2

------------------------------------------------------------------------------
(* What the parts of a step do *)

LEMMA GoingRight ==
  ASSUME Types, drain' \in {Idle, Going}
  PROVE  DrainRight'
<1>1. drain' \in Drains /\ drain'.from = 0 /\ drain'.to = 0 /\ drain'.group = NoGroup
      /\ drain'.tries = 0 /\ drain'.aborted = FALSE /\ drain'.phase \in {"idle", "next"}
  BY IdleFields
<1> QED BY <1>1 DEF DrainRight

\* A group enters the queue at its end, unless it is there; a drain at work goes on.
LEMMA QueueBatchRight ==
  ASSUME Types, NEW g \in Groups, QueueBatch(g)
  PROVE  /\ QueueType' /\ DrainRight'
         /\ passed' \in [Groups -> [Groups -> Nat]]
         /\ queued' = queued \cup {g}
         /\ drain' = drain \/ (drain = Idle /\ drain' = Going)
<1>1. drain' = drain \/ (drain = Idle /\ drain' = Going)
  <2>1. drain' = IF drain = Idle THEN Going ELSE drain
    BY DEF QueueBatch, Going
  <2> QED BY <2>1
<1>2. DrainRight'
  <2>1. CASE drain' = drain
    BY <2>1 DEF Types, DrainRight
  <2>2. CASE drain' = Going
    BY <2>2, GoingRight
  <2> QED BY <1>1, <2>1, <2>2
<1>3. QueueType' /\ passed' \in [Groups -> [Groups -> Nat]]
  <2>1. CASE g \in queued
    BY <2>1 DEF QueueBatch, Types, QueueType, HistoryRight
  <2>2. CASE g \notin queued
    <3>1. QueueType'
      BY <2>2 DEF QueueBatch, QueuedLast, Types, QueueType
    <3>2. NoTurns \in [Groups -> Nat]
      BY DEF NoTurns
    <3>3. passed' = [passed EXCEPT ![g] = NoTurns] /\ passed \in [Groups -> [Groups -> Nat]]
      BY <2>2 DEF QueueBatch, Types, HistoryRight
    <3> QED BY <3>1, <3>2, <3>3
  <2> QED BY <2>1, <2>2
<1>4. queued' = queued \cup {g}
  BY DEF QueueBatch
<1> QED BY <1>1, <1>2, <1>3, <1>4

LEMMA FinishRight ==
  ASSUME Types, NEW g \in Groups, Finish(g)
  PROVE  /\ DrainRight' /\ drain' = Going
         /\ owed' \in [Groups -> Nat] /\ owed' = [owed EXCEPT ![g] = 0]
         /\ \A h \in Groups : owed'[h] <= owed[h]
<1>1. drain' = Going
  BY DEF Finish, Going
<1>2. DrainRight'
  BY <1>1, GoingRight
<1>3. owed' = [owed EXCEPT ![g] = 0] /\ owed \in [Groups -> Nat]
  BY DEF Finish, Types, HistoryRight
<1> QED BY <1>1, <1>2, <1>3

LEMMA LooseRight ==
  ASSUME Types, NEW g \in Groups, NEW t \in Off..Debounce
  PROVE  [loose EXCEPT ![g] = Loosened(@, t)] \in [Groups -> [0..MaxWait -> Nat]]
<1>1. loose \in [Groups -> [0..MaxWait -> Nat]]
  BY DEF Types, ClocksType
<1>2. loose[g] \in [0..MaxWait -> Nat]
  BY <1>1
<1>3. Loosened(loose[g], t) \in [0..MaxWait -> Nat]
  BY <1>2, LoosenedRight
<1> QED BY <1>1, <1>3

\* What was taken is routed, or dropped with what the group is owed.
LEMMA StartRouteRight ==
  ASSUME Types, NEW g \in Groups, NEW from \in Nat, NEW to \in Nat, from <= to,
         NEW stale \in BOOLEAN, StartRoute(g, from, to, stale), UNCHANGED <<said, config>>
  PROVE  /\ BatchesRight' /\ ClocksType' /\ DrainRight'
         /\ batches' = [batches EXCEPT ![g] = NoBatch]
         /\ owed' \in [Groups -> Nat] /\ \A h \in Groups : owed'[h] <= owed[h]
         /\ \/ drain' = Going /\ owed' = [owed EXCEPT ![g] = 0]
            \/ /\ drain'.phase = "context" /\ drain'.group = g /\ drain'.to = to
               /\ drain'.stale = stale /\ drain'.aborted = FALSE
               /\ owed' = owed
<1>1. batches' = [batches EXCEPT ![g] = NoBatch] /\ batches \in [Groups -> Batches]
      /\ loose' = [loose EXCEPT ![g] = Loosened(@, batches[g].timer)]
  BY DEF StartRoute, Types, BatchesRight
<1>2. BatchesRight'
  <2>1. batches' \in [Groups -> Batches]
    BY <1>1, NoBatchFields
  <2>2. ASSUME NEW h \in Groups
        PROVE  batches'[h].from <= batches'[h].to /\ batches'[h].to <= said'[h]
    <3>1. said[h] \in Nat /\ said' = said
      BY Bounds DEF Types, WorldType
    <3>2. batches[h].from <= batches[h].to /\ batches[h].to <= said[h]
      BY DEF Types, BatchesRight
    <3>3. batches'[h] = NoBatch \/ batches'[h] = batches[h]
      BY <1>1
    <3> QED BY <3>1, <3>2, <3>3, NoBatchFields
  <2> QED BY <2>1, <2>2 DEF BatchesRight
<1>3. batches[g].timer \in Off..Debounce
  BY <1>1 DEF Batches
<1>4. loose' \in [Groups -> [0..MaxWait -> Nat]]
  BY <1>1, <1>3, LooseRight
<1>5. CASE Available /\ g \in existing
  <2>1. since' = [since EXCEPT ![g] = 0] /\ owed' = owed
        /\ drain' = [Idle EXCEPT !.phase = "context", !.group = g, !.from = from, !.to = to,
                                 !.stale = stale, !.version = config.version]
    BY <1>5 DEF StartRoute
  <2>2. config.version \in Nat /\ since \in [Groups -> 0..Interval]
        /\ owed \in [Groups -> Nat]
    BY DEF Types, WorldType, ClocksType, HistoryRight
  <2>3. /\ drain' \in Drains /\ drain'.phase = "context" /\ drain'.group = g /\ drain'.from = from
        /\ drain'.to = to /\ drain'.stale = stale /\ drain'.tries = 0 /\ drain'.aborted = FALSE
    <3> DEFINE version == config.version
    <3>1. version \in Nat
      BY <2>2
    <3> HIDE DEF version
    <3>3. /\ drain' \in Drains /\ drain'.phase = "context" /\ drain'.group = g
          /\ drain'.from = from /\ drain'.to = to /\ drain'.stale = stale
          /\ drain'.version = version /\ drain'.tries = 0 /\ drain'.aborted = FALSE
      <4> DEFINE i == Idle
      <4>1. i \in Drains /\ i.tries = 0 /\ i.aborted = FALSE
        BY IdleFields
      <4>2. drain' = [i EXCEPT !.phase = "context", !.group = g, !.from = from, !.to = to,
                               !.stale = stale, !.version = version]
        BY <2>1 DEF version
      <4> HIDE DEF i
      <4> QED BY <3>1, <4>1, <4>2 DEF Drains, Phases
    <3> QED BY <3>3
  <2>4. DrainRight'
    BY <2>3, Bounds DEF DrainRight
  <2>5. ClocksType'
    BY <1>4, <2>1, <2>2, Bounds DEF ClocksType
  <2>6. \A h \in Groups : owed'[h] <= owed[h]
    BY <2>1, <2>2
  <2> QED BY <1>1, <1>2, <2>1, <2>2, <2>3, <2>4, <2>5, <2>6
<1>6. CASE ~(Available /\ g \in existing)
  <2>1. Finish(g) /\ since' = since
    BY <1>6 DEF StartRoute
  <2>2. ClocksType'
    BY <1>4, <2>1 DEF Types, ClocksType
  <2> QED BY <1>1, <1>2, <2>1, <2>2, FinishRight
<1> QED BY <1>5, <1>6

\* A call begins with every message since the batch was taken.
LEMMA StartCallRight ==
  ASSUME Types, StartCall
  PROVE  /\ drain.group \in Groups /\ DrainRight'
         /\ batches' = [batches EXCEPT ![drain.group] = NoBatch]
         /\ owed' = [owed EXCEPT ![drain.group] = 0]
         /\ \/ drain' = Going
            \/ /\ drain'.phase = "asked" /\ drain'.group = drain.group
               /\ drain'.to = Larger(drain.to, batches[drain.group].to)
               /\ drain'.version = drain.version
               /\ drain.aborted = FALSE /\ drain'.aborted = FALSE
<1> DEFINE g == drain.group
<1>1. drain \in Drains /\ drain.from <= drain.to /\ drain.tries < Tries
      /\ g \in Groups /\ drain.phase \in {"queued", "backoff"}
  <2>1. drain.phase \in {"queued", "backoff"}
    BY DEF StartCall
  <2>2. drain \in Drains /\ drain.from <= drain.to
    BY DEF Types, DrainRight
  <2>3. g \in Groups
    BY <2>1, <2>2 DEF Types, DrainRight, Drains
  <2>4. drain.tries < Tries
    BY <2>1, Bounds DEF Types, DrainRight
  <2> QED BY <2>1, <2>2, <2>3, <2>4
<1>2. drain.from \in Nat /\ drain.to \in Nat /\ drain.aborted \in BOOLEAN
  BY <1>1 DEF Drains
<1>3. batches[g] \in Batches /\ batches[g].from <= batches[g].to
  BY <1>1 DEF Types, BatchesRight
<1>4. batches[g].from \in Nat /\ batches[g].to \in Nat
  BY <1>3 DEF Batches
<1>5. batches' = [batches EXCEPT ![g] = NoBatch]
  BY DEF StartCall
<1>6. CASE g \in eligible /\ ~drain.aborted
  <2> DEFINE from == IF batches[g] = NoBatch THEN drain.from ELSE Smaller(drain.from, batches[g].from)
             to == LatestTo(g)
  <2>1. drain' = [drain EXCEPT !.phase = "asked", !.to = to, !.tries = @ + 1, !.from = from]
        /\ owed' = [owed EXCEPT ![g] = 0]
    BY <1>6 DEF StartCall
  <2>2. to = Larger(drain.to, batches[g].to)
    BY DEF LatestTo
  <2>3. from \in Nat /\ to \in Nat /\ from <= to
    BY <1>1, <1>2, <1>4, <2>2 DEF Smaller, Larger
  <2> HIDE DEF from, to
  <2>4. /\ drain' \in Drains /\ drain'.phase = "asked" /\ drain'.group = g /\ drain'.from = from
        /\ drain'.to = to /\ drain'.version = drain.version /\ drain'.tries = drain.tries + 1
        /\ drain'.aborted = drain.aborted
    <3> DEFINE d == drain
    <3>1. d \in Drains /\ d.tries < Tries
      BY <1>1
    <3>2. drain' = Asked(d, from, to)
      BY <2>1 DEF Asked
    <3> HIDE DEF d
    <3>3. /\ drain' \in Drains /\ drain'.phase = "asked" /\ drain'.group = d.group
          /\ drain'.from = from /\ drain'.to = to /\ drain'.version = d.version
          /\ drain'.tries = d.tries + 1 /\ drain'.aborted = d.aborted
      BY <2>3, <3>1, <3>2, AskedDrain
    <3> QED BY <3>3 DEF d
  <2>5. drain.aborted = FALSE
    BY <1>2, <1>6
  <2>6. DrainRight'
    BY <1>1, <2>3, <2>4, Bounds DEF DrainRight
  <2> QED BY <1>1, <1>5, <2>1, <2>2, <2>4, <2>5, <2>6
<1>7. CASE ~(g \in eligible /\ ~drain.aborted)
  <2>1. Finish(g)
    BY <1>7 DEF StartCall
  <2> QED BY <1>1, <1>5, <2>1, FinishRight
<1> QED BY <1>6, <1>7

------------------------------------------------------------------------------
(* The state stays typed *)

LEMMA InitTypes == Init => Types
<1> SUFFICES ASSUME Init PROVE Types
  OBVIOUS
<1>1. WorldType
  <2>1. config \in [ready : BOOLEAN, version : Nat] /\ paused \in BOOLEAN /\ faults \in Nat
    BY DEF Init
  <2>2. said \in [Groups -> 0..MaxSaid] /\ existing \subseteq Groups /\ eligible \subseteq existing
    BY Bounds DEF Init
  <2> QED BY <2>1, <2>2 DEF WorldType
<1>2. BatchesRight
  <2>1. batches = [g \in Groups |-> NoBatch] /\ said = [g \in Groups |-> 0]
    BY DEF Init
  <2> QED BY <2>1, NoBatchFields DEF BatchesRight
<1>3. QueueType
  BY DEF Init, QueueType
<1>4. ClocksType
  BY Bounds DEF Init, ClocksType
<1>5. DrainRight
  <2>1. drain = Idle
    BY DEF Init
  <2> QED BY <2>1, IdleFields DEF DrainRight
<1>6. HistoryRight
  BY DEF Init, HistoryRight, NoTurns
<1> QED BY <1>1, <1>2, <1>3, <1>4, <1>5, <1>6 DEF Types

LEMMA SayTypes ==
  ASSUME Types, NEW g \in Groups, Say(g)
  PROVE  /\ Types'
         /\ said' = [said EXCEPT ![g] = @ + 1] /\ said[g] \in Nat
         /\ \A h \in Groups : h # g => batches'[h] = batches[h] /\ owed'[h] = owed[h]
         /\ \/ batches' = batches /\ owed' = owed
            \/ /\ batches'[g].to = said[g] + 1 /\ owed'[g] = said[g] + 1
               /\ batches'[g].timer # Off
               /\ batches'[g].age + batches'[g].timer <= MaxWait
<1>1. said[g] < MaxSaid /\ said[g] \in Nat
  BY RoomToSay DEF Say, Types
<1>2. said' = [said EXCEPT ![g] = @ + 1] /\ said \in [Groups -> 0..MaxSaid]
  BY DEF Say, Types, WorldType
<1> DEFINE n == said[g] + 1
<1>3. said' = [said EXCEPT ![g] = n] /\ n \in 0..MaxSaid /\ said'[g] = n
  BY <1>1, <1>2, Bounds
<1>4. WorldType'
  BY <1>2, <1>3 DEF Say, Types, WorldType
<1>5. QueueType' /\ ClocksType' /\ DrainRight'
  BY DEF Say, Types, QueueType, ClocksType, DrainRight
<1>6. \A h \in Groups : said[h] <= said'[h] /\ said[h] \in Nat /\ said'[h] \in Nat
  BY <1>1, <1>2, <1>3, Bounds
<1>7. /\ batches \in [Groups -> Batches] /\ owed \in [Groups -> Nat]
      /\ passed' \in [Groups -> [Groups -> Nat]] /\ deleted' \in Nat
      /\ \A h \in Groups : /\ batches[h].from <= batches[h].to /\ batches[h].to <= said[h]
                           /\ owed[h] <= said[h]
                           /\ batches[h].from \in Nat /\ batches[h].to \in Nat
  <2>1. batches \in [Groups -> Batches] /\ owed \in [Groups -> Nat]
        /\ passed' \in [Groups -> [Groups -> Nat]] /\ deleted' \in Nat
    BY DEF Say, Types, BatchesRight, HistoryRight
  <2>2. \A h \in Groups : batches[h].from \in Nat /\ batches[h].to \in Nat
    BY <2>1 DEF Batches
  <2> QED BY <2>1, <2>2 DEF Types, BatchesRight, HistoryRight
<1>8. CASE Available /\ g \in eligible
  <2> DEFINE b == Triggered(batches[g], n)
  <2>1. batches' = [batches EXCEPT ![g] = b] /\ owed' = [owed EXCEPT ![g] = n]
    BY <1>3, <1>8 DEF Say
  <2>2. batches[g] \in Batches /\ batches[g].to <= n /\ batches[g].from <= batches[g].to /\ n \in Nat
    BY <1>1, <1>7
  <2> HIDE DEF n
  <2>3. /\ b \in Batches /\ b.from <= n /\ b.to = n /\ b.timer # Off
        /\ b.age + b.timer <= MaxWait
    BY <2>2, TriggeredRight
  <2> HIDE DEF b
  <2>4. BatchesRight'
    <3>1. batches' \in [Groups -> Batches]
      BY <1>7, <2>1, <2>3
    <3>2. ASSUME NEW h \in Groups
          PROVE  batches'[h].from <= batches'[h].to /\ batches'[h].to <= said'[h]
      <4>1. CASE h = g
        BY <1>3, <1>6, <1>7, <2>1, <2>3, <4>1
      <4>2. CASE h # g
        BY <1>6, <1>7, <2>1, <4>2
      <4> QED BY <4>1, <4>2
    <3> QED BY <3>1, <3>2 DEF BatchesRight
  <2>5. HistoryRight'
    <3>1. owed' \in [Groups -> Nat]
      BY <1>7, <2>1, <2>2
    <3>2. \A h \in Groups : owed'[h] <= said'[h]
      BY <1>3, <1>6, <1>7, <2>1, <2>2
    <3> QED BY <1>7, <3>1, <3>2 DEF HistoryRight
  <2>6. batches'[g] = b /\ owed'[g] = n
    BY <1>7, <2>1
  <2> QED BY <1>1, <1>2, <1>4, <1>5, <1>7, <2>1, <2>3, <2>4, <2>5, <2>6 DEF Types, n
<1>9. CASE ~(Available /\ g \in eligible)
  <2>1. batches' = batches /\ owed' = owed
    BY <1>9 DEF Say
  <2>2. BatchesRight'
    BY <1>6, <1>7, <2>1 DEF BatchesRight
  <2>3. HistoryRight'
    BY <1>6, <1>7, <2>1 DEF HistoryRight
  <2> QED BY <1>1, <1>2, <1>4, <1>5, <2>1, <2>2, <2>3 DEF Types
<1> QED BY <1>8, <1>9

LEMMA FireTypes ==
  ASSUME Types, NEW g \in Groups, Fire(g) \/ FireLoose(g)
  PROVE  /\ Types' /\ owed' = owed
         /\ \/ /\ QueueBatch(g)
               /\ \A h \in Groups : h # g => batches'[h] = batches[h]
               /\ batches'[g].to = batches[g].to
            \/ UNCHANGED <<batches, queue, queued, passed, drain>>
<1>1. WorldType'
  BY DEF Fire, FireLoose, world, Types, WorldType
<1>2. UNCHANGED <<said, since, owed, deleted>>
  BY DEF Fire, FireLoose, world
<1>3. /\ batches \in [Groups -> Batches]
      /\ \A h \in Groups : batches[h].from <= batches[h].to /\ batches[h].to <= said[h]
  BY DEF Types, BatchesRight
<1> DEFINE b == batches[g]
           c == [b EXCEPT !.timer = Off]
<1>4. b \in Batches
  BY <1>3
<1>5. c \in Batches /\ c.from = b.from /\ c.to = b.to
  <2>1. Off \in Off..Debounce
    BY Bounds DEF Off
  <2> HIDE DEF b
  <2> QED BY <1>4, <2>1 DEF Batches
<1>6. ASSUME batches' = [batches EXCEPT ![g].timer = Off]
      PROVE  /\ BatchesRight' /\ batches'[g].to = batches[g].to
             /\ \A h \in Groups : h # g => batches'[h] = batches[h]
  <2>1. batches' = [batches EXCEPT ![g] = c]
    BY <1>6
  <2>2. b.from <= b.to /\ b.to <= said[g]
    BY <1>3
  <2>3. b = batches[g]
    OBVIOUS
  <2> HIDE DEF b, c
  <2>4. batches' \in [Groups -> Batches] /\ batches'[g] = c
    BY <1>3, <1>5, <2>1
  <2>5. \A h \in Groups : h # g => batches'[h] = batches[h]
    BY <1>3, <2>1
  <2>6. ASSUME NEW h \in Groups
        PROVE  batches'[h].from <= batches'[h].to /\ batches'[h].to <= said'[h]
    <3>1. CASE h = g
      BY <1>2, <1>5, <2>2, <2>4, <3>1
    <3>2. CASE h # g
      BY <1>2, <1>3, <2>5, <3>2
    <3> QED BY <3>1, <3>2
  <2> QED BY <1>5, <2>3, <2>4, <2>5, <2>6 DEF BatchesRight
<1>7. CASE Fire(g)
  <2>1. QueueBatch(g) /\ batches' = [batches EXCEPT ![g].timer = Off] /\ loose' = loose
    BY <1>7 DEF Fire
  <2>2. ClocksType'
    BY <1>2, <2>1 DEF Types, ClocksType
  <2>3. QueueType' /\ DrainRight' /\ passed' \in [Groups -> [Groups -> Nat]]
    BY <2>1, QueueBatchRight
  <2>4. HistoryRight'
    BY <1>2, <2>3 DEF Types, HistoryRight
  <2> QED BY <1>1, <1>2, <1>6, <2>1, <2>2, <2>3, <2>4 DEF Types
<1>8. CASE FireLoose(g)
  <2> DEFINE rest == [loose EXCEPT ![g][0] = @ - 1]
  <2>1. loose \in [Groups -> [0..MaxWait -> Nat]] /\ loose[g][0] > 0
        /\ since \in [Groups -> 0..Interval]
    BY <1>8 DEF FireLoose, Types, ClocksType
  <2>2. rest \in [Groups -> [0..MaxWait -> Nat]]
    <3> DEFINE l == loose[g]
               k == [l EXCEPT ![0] = @ - 1]
    <3>1. l \in [0..MaxWait -> Nat] /\ l[0] > 0 /\ 0 \in 0..MaxWait
      BY <2>1, Bounds
    <3>2. rest = [loose EXCEPT ![g] = k]
      OBVIOUS
    <3>3. k \in [0..MaxWait -> Nat]
      <4> HIDE DEF l
      <4>1. l[0] - 1 \in Nat
        BY <3>1
      <4> QED BY <3>1, <4>1
    <3> HIDE DEF k
    <3> QED BY <2>1, <3>2, <3>3
  <2>3. CASE batches[g] = NoBatch
    <3>1. loose' = rest /\ UNCHANGED <<batches, queue, queued, passed, drain>>
      BY <1>8, <2>3 DEF FireLoose
    <3> HIDE DEF rest
    <3>2. ClocksType'
      BY <1>2, <2>1, <2>2, <3>1 DEF ClocksType
    <3>3. BatchesRight' /\ QueueType' /\ DrainRight' /\ HistoryRight'
      BY <1>2, <3>1 DEF Types, BatchesRight, QueueType, DrainRight, HistoryRight
    <3> QED BY <1>1, <1>2, <3>1, <3>2, <3>3 DEF Types
  <2>4. CASE batches[g] # NoBatch
    <3>1. /\ loose' = [rest EXCEPT ![g] = Loosened(@, batches[g].timer)]
          /\ batches' = [batches EXCEPT ![g].timer = Off] /\ QueueBatch(g)
      BY <1>8, <2>4 DEF FireLoose
    <3> HIDE DEF rest
    <3>2. b.timer \in Off..Debounce /\ rest[g] \in [0..MaxWait -> Nat]
      BY <1>4, <2>2 DEF Batches
    <3>3. Loosened(rest[g], b.timer) \in [0..MaxWait -> Nat]
      BY <3>2, LoosenedRight
    <3>4. ClocksType'
      BY <1>2, <2>1, <2>2, <3>1, <3>3 DEF ClocksType
    <3>5. QueueType' /\ DrainRight' /\ passed' \in [Groups -> [Groups -> Nat]]
      BY <3>1, QueueBatchRight
    <3>6. HistoryRight'
      BY <1>2, <3>5 DEF Types, HistoryRight
    <3> QED BY <1>1, <1>2, <1>6, <3>1, <3>4, <3>5, <3>6 DEF Types
  <2> QED BY <2>3, <2>4
<1> QED BY <1>7, <1>8

LEMMA NextGroupTypes ==
  ASSUME Types, NextGroup
  PROVE  /\ Types'
         /\ \A g \in Groups : owed'[g] <= owed[g]
         /\ \/ /\ queue = <<>> /\ drain' = Idle
               /\ UNCHANGED <<batches, queue, queued, owed, passed>>
            \/ \E g \in Groups :
                 /\ queue # <<>> /\ g = Head(queue)
                 /\ queue' = Tail(queue) /\ queued' = queued \ {g}
                 /\ \/ /\ batches[g] = NoBatch
                       /\ UNCHANGED <<batches, drain, owed, passed>>
                    \/ /\ passed' = [h \in Groups |-> [passed[h] EXCEPT ![g] = @ + 1]]
                       /\ UNCHANGED <<batches, owed>>
                       /\ drain'.phase = "wait" /\ drain'.group = g /\ drain'.stale = FALSE
                    \/ /\ passed' = [h \in Groups |-> [passed[h] EXCEPT ![g] = @ + 1]]
                       /\ batches' = [batches EXCEPT ![g] = NoBatch]
                       /\ \/ drain' = Going /\ owed' = [owed EXCEPT ![g] = 0]
                          \/ /\ drain'.phase = "context" /\ drain'.group = g
                             /\ drain'.to = batches[g].to /\ owed' = owed
<1>1. /\ UNCHANGED <<said, config>> /\ WorldType' /\ deleted' = deleted
      /\ owed \in [Groups -> Nat] /\ passed \in [Groups -> [Groups -> Nat]]
      /\ \A h \in Groups : owed[h] <= said[h] /\ said[h] \in Nat
      /\ deleted \in Nat /\ queue \in Seq(Groups) /\ queued \subseteq Groups
  <2>1. UNCHANGED <<said, config>> /\ WorldType' /\ deleted' = deleted
    BY DEF NextGroup, world, Types, WorldType
  <2>2. /\ owed \in [Groups -> Nat] /\ passed \in [Groups -> [Groups -> Nat]]
        /\ \A h \in Groups : owed[h] <= said[h]
        /\ deleted \in Nat /\ queue \in Seq(Groups) /\ queued \subseteq Groups
    BY DEF Types, HistoryRight, QueueType
  <2>3. \A h \in Groups : said[h] \in Nat
    BY Bounds DEF Types, WorldType
  <2> QED BY <2>1, <2>2, <2>3
<1>2. CASE queue = <<>>
  <2>1. drain' = Idle /\ UNCHANGED <<batches, loose, queue, queued, since, owed, passed>>
    BY <1>2 DEF NextGroup
  <2>2. DrainRight'
    BY <2>1, GoingRight
  <2>3. BatchesRight' /\ QueueType' /\ ClocksType' /\ HistoryRight'
    BY <1>1, <2>1 DEF Types, BatchesRight, QueueType, ClocksType, HistoryRight
  <2> QED BY <1>1, <1>2, <2>1, <2>2, <2>3 DEF Types
<1>3. CASE queue # <<>>
  <2> DEFINE g == Head(queue)
  <2>1. g \in Groups /\ Tail(queue) \in Seq(Groups)
    BY <1>1, <1>3
  <2>2. queue' = Tail(queue) /\ queued' = queued \ {g}
    BY <1>3 DEF NextGroup
  <2>3. QueueType'
    BY <1>1, <2>1, <2>2 DEF QueueType
  <2> DEFINE turned == [h \in Groups |-> [passed[h] EXCEPT ![g] = @ + 1]]
  <2>4. turned \in [Groups -> [Groups -> Nat]]
    <3>1. ASSUME NEW h \in Groups
          PROVE  [passed[h] EXCEPT ![g] = @ + 1] \in [Groups -> Nat]
      <4> DEFINE p == passed[h]
      <4>1. p \in [Groups -> Nat] /\ p[g] + 1 \in Nat
        BY <1>1, <2>1
      <4> HIDE DEF p, g
      <4>2. [p EXCEPT ![g] = p[g] + 1] \in [Groups -> Nat]
        BY <4>1
      <4> QED BY <4>2 DEF p
    <3> QED BY <3>1
  <2>5. CASE batches[g] = NoBatch
    <3>1. UNCHANGED <<batches, loose, drain, since, owed, passed>>
      BY <1>3, <2>5 DEF NextGroup
    <3>2. BatchesRight' /\ ClocksType' /\ DrainRight' /\ HistoryRight'
      BY <1>1, <3>1 DEF Types, BatchesRight, ClocksType, DrainRight, HistoryRight
    <3> QED BY <1>1, <1>3, <2>1, <2>2, <2>3, <2>5, <3>1, <3>2 DEF Types
  <2>6. CASE batches[g] # NoBatch /\ since[g] < Interval
    <3>1. /\ UNCHANGED <<batches, loose, since, owed>> /\ passed' = turned
          /\ drain' = [Idle EXCEPT !.phase = "wait", !.group = g]
      BY <1>3, <2>6 DEF NextGroup
    <3> HIDE DEF turned
    <3>2. /\ drain' \in Drains /\ drain'.phase = "wait" /\ drain'.group = g /\ drain'.from = 0
          /\ drain'.to = 0 /\ drain'.stale = FALSE /\ drain'.tries = 0 /\ drain'.aborted = FALSE
      <4> HIDE DEF g
      <4> QED BY <2>1, <3>1, WaitDrain
    <3>3. DrainRight'
      BY <2>1, <3>2, Bounds DEF DrainRight
    <3>4. BatchesRight' /\ ClocksType' /\ HistoryRight'
      BY <1>1, <2>4, <3>1 DEF Types, BatchesRight, ClocksType, HistoryRight
    <3>5. Types'
      BY <1>1, <2>3, <3>3, <3>4 DEF Types
    <3>6. passed' = [h \in Groups |-> [passed[h] EXCEPT ![g] = @ + 1]]
      BY <3>1 DEF turned
    <3>7. g = Head(queue)
      OBVIOUS
    <3>8. \A h \in Groups : owed'[h] <= owed[h]
      BY <1>1, <3>1
    <3> HIDE DEF g
    <3> QED BY <1>1, <1>3, <2>1, <2>2, <3>1, <3>2, <3>5, <3>6, <3>7, <3>8
  <2>7. CASE batches[g] # NoBatch /\ ~(since[g] < Interval)
    <3> DEFINE from == batches[g].from
               to == batches[g].to
    <3>1. passed' = turned /\ StartRoute(g, from, to, FALSE)
      BY <1>3, <2>7 DEF NextGroup
    <3> HIDE DEF turned
    <3>2. from \in Nat /\ to \in Nat /\ from <= to
      <4>1. batches[g] \in Batches /\ from <= to
        BY <2>1 DEF Types, BatchesRight
      <4> QED BY <4>1 DEF Batches
    <3>3. g = Head(queue) /\ to = batches[g].to
      OBVIOUS
    <3> HIDE DEF g, from, to
    <3>4. /\ BatchesRight' /\ ClocksType' /\ DrainRight'
          /\ batches' = [batches EXCEPT ![g] = NoBatch]
          /\ owed' \in [Groups -> Nat] /\ \A h \in Groups : owed'[h] <= owed[h]
          /\ \/ drain' = Going /\ owed' = [owed EXCEPT ![g] = 0]
             \/ /\ drain'.phase = "context" /\ drain'.group = g /\ drain'.to = to
                /\ owed' = owed
      BY <1>1, <2>1, <3>1, <3>2, StartRouteRight
    <3>5. HistoryRight'
      <4>1. \A h \in Groups : owed'[h] <= said'[h]
        BY <1>1, <3>4
      <4> QED BY <1>1, <2>4, <3>1, <3>4, <4>1 DEF HistoryRight
    <3>6. Types'
      BY <1>1, <2>3, <3>4, <3>5 DEF Types
    <3>7. passed' = [h \in Groups |-> [passed[h] EXCEPT ![g] = @ + 1]]
      BY <3>1 DEF turned
    <3> QED BY <1>1, <1>3, <2>1, <2>2, <3>3, <3>4, <3>6, <3>7
  <2> QED BY <2>5, <2>6, <2>7
<1> QED BY <1>2, <1>3

LEMMA EndWaitTypes ==
  ASSUME Types, EndWait
  PROVE  /\ Types' /\ UNCHANGED <<queue, queued, passed>>
         /\ drain.phase = "wait" /\ drain.group \in Groups
         /\ batches' = [batches EXCEPT ![drain.group] = NoBatch]
         /\ \/ drain' = Going /\ owed' = [owed EXCEPT ![drain.group] = 0]
            \/ /\ drain'.phase = "context" /\ drain'.group = drain.group
               /\ drain'.stale = TRUE \/ drain'.to = batches[drain.group].to
               /\ owed' = owed
<1>1. /\ UNCHANGED <<said, config, queue, queued, passed, deleted>>
      /\ WorldType' /\ QueueType' /\ drain.phase = "wait"
  BY DEF EndWait, world, Types, WorldType, QueueType
<1> DEFINE g == drain.group
<1>2. drain \in Drains /\ g \in Groups
  BY <1>1 DEF Types, DrainRight, Drains
<1>3. ASSUME BatchesRight', ClocksType', DrainRight', owed' \in [Groups -> Nat],
             \A h \in Groups : owed'[h] <= owed[h]
      PROVE  Types'
  <2>1. \A h \in Groups : owed[h] <= said[h] /\ said[h] \in Nat /\ owed[h] \in Nat
    BY Bounds DEF Types, HistoryRight, WorldType
  <2>2. \A h \in Groups : owed'[h] <= said'[h]
    BY <1>1, <1>3, <2>1
  <2>3. HistoryRight'
    BY <1>1, <1>3, <2>2 DEF Types, HistoryRight
  <2> QED BY <1>1, <1>3, <2>3 DEF Types
<1>4. CASE drain.stale
  <2> DEFINE from == drain.from
             to == drain.to
  <2>1. from \in Nat /\ to \in Nat /\ from <= to
    BY <1>2 DEF Types, DrainRight, Drains
  <2>2. StartRoute(g, from, to, TRUE)
    BY <1>4 DEF EndWait
  <2> HIDE DEF g, from, to
  <2>3. /\ BatchesRight' /\ ClocksType' /\ DrainRight'
        /\ batches' = [batches EXCEPT ![g] = NoBatch]
        /\ owed' \in [Groups -> Nat] /\ \A h \in Groups : owed'[h] <= owed[h]
        /\ \/ drain' = Going /\ owed' = [owed EXCEPT ![g] = 0]
           \/ /\ drain'.phase = "context" /\ drain'.group = g
              /\ drain'.to = to /\ drain'.stale = TRUE
              /\ owed' = owed
    BY <1>1, <1>2, <2>1, <2>2, StartRouteRight
  <2>4. Types'
    BY <1>3, <2>3
  <2> QED BY <1>1, <1>2, <2>3, <2>4 DEF g
<1>5. CASE ~drain.stale
  <2> DEFINE from == batches[g].from
             to == batches[g].to
  <2>1. from \in Nat /\ to \in Nat /\ from <= to
    <3>1. batches[g] \in Batches /\ from <= to
      BY <1>2 DEF Types, BatchesRight
    <3> QED BY <3>1 DEF Batches
  <2>2. StartRoute(g, from, to, FALSE)
    BY <1>5 DEF EndWait
  <2> HIDE DEF g, from, to
  <2>3. /\ BatchesRight' /\ ClocksType' /\ DrainRight'
        /\ batches' = [batches EXCEPT ![g] = NoBatch]
        /\ owed' \in [Groups -> Nat] /\ \A h \in Groups : owed'[h] <= owed[h]
        /\ \/ drain' = Going /\ owed' = [owed EXCEPT ![g] = 0]
           \/ /\ drain'.phase = "context" /\ drain'.group = g
              /\ drain'.to = to /\ drain'.stale = FALSE
              /\ owed' = owed
    BY <1>1, <1>2, <2>1, <2>2, StartRouteRight
  <2>4. Types'
    BY <1>3, <2>3
  <2> QED BY <1>1, <1>2, <2>3, <2>4 DEF g, to
<1> QED BY <1>4, <1>5

\* A group leaves the queue, the others keep their order.
LEMMA WithoutRight ==
  ASSUME queue \in Seq(Groups), NEW g \in Groups
  PROVE  /\ Without(g) \in Seq(Groups)
         /\ \/ (\A i \in 1..Len(queue) : queue[i] # g) /\ Without(g) = queue
            \/ \E p \in 1..Len(queue) :
                 /\ queue[p] = g /\ Len(Without(g)) = Len(queue) - 1
                 /\ \A i \in 1..(Len(queue) - 1) :
                      Without(g)[i] = IF i < p THEN queue[i] ELSE queue[i + 1]
<1>1. CASE \A i \in 1..Len(queue) : queue[i] # g
  BY <1>1 DEF Without
<1>2. CASE \E i \in 1..Len(queue) : queue[i] = g
  <2> DEFINE q == queue
             p == CHOOSE i \in 1..Len(q) : q[i] = g
             front == SubSeq(q, 1, p - 1)
             back == SubSeq(q, p + 1, Len(q))
             w == front \o back
  <2>1. p \in 1..Len(q) /\ q[p] = g
    BY <1>2
  <2>2. Without(g) = w
    BY <1>2 DEF Without
  <2>3. q \in Seq(Groups) /\ Len(q) \in Nat
    OBVIOUS
  <2>4. q = queue
    OBVIOUS
  <2> HIDE DEF q, p
  <2>5. /\ front \in Seq(Groups) /\ Len(front) = p - 1
        /\ \A i \in 1..(p - 1) : front[i] = q[i]
    BY <2>1, <2>3
  <2>6. /\ back \in Seq(Groups) /\ Len(back) = Len(q) - p
        /\ \A i \in 1..(Len(q) - p) : back[i] = q[p + i]
    <3> DEFINE m == p + 1
               n == Len(q)
    <3>1. m \in Int /\ n \in Int /\ \A i \in m..n : q[i] \in Groups
      BY <2>1, <2>3
    <3>2. back = SubSeq(q, m, n)
      OBVIOUS
    <3>3. (m <= n => n - m + 1 = n - p) /\ (~(m <= n) => n - p = 0)
          /\ \A i \in 1..(n - p) : i \in 1..(n - m + 1) /\ m + i - 1 = p + i
      BY <2>1, <2>3
    <3>4. n = Len(q)
      OBVIOUS
    <3> HIDE DEF m, n, back
    <3>5. /\ back \in Seq(Groups) /\ Len(back) = IF m <= n THEN n - m + 1 ELSE 0
          /\ \A i \in 1..(n - m + 1) : back[i] = q[m + i - 1]
      BY <3>1, <3>2, SubSeqProperties
    <3>6. Len(back) = n - p
      BY <3>3, <3>5
    <3>7. ASSUME NEW i \in 1..(n - p)
          PROVE  back[i] = q[p + i]
      <4>1. i \in 1..(n - m + 1) /\ m + i - 1 = p + i
        BY <3>3
      <4>2. back[i] = q[m + i - 1]
        BY <3>5, <4>1
      <4> QED BY <4>1, <4>2
    <3>8. Len(back) = Len(q) - p
      BY <3>4, <3>6
    <3>9. \A i \in 1..(Len(q) - p) : back[i] = q[p + i]
      BY <3>7 DEF n
    <3>10. back \in Seq(Groups)
      BY <3>5
    <3> QED BY <3>8, <3>9, <3>10
  <2> HIDE DEF front, back
  <2>7. /\ w \in Seq(Groups) /\ Len(w) = Len(q) - 1
        /\ \A i \in 1..Len(w) : w[i] = IF i <= Len(front) THEN front[i] ELSE back[i - Len(front)]
    <3>1. /\ w \in Seq(Groups) /\ Len(w) = Len(front) + Len(back)
          /\ \A i \in 1..(Len(front) + Len(back)) :
               w[i] = IF i <= Len(front) THEN front[i] ELSE back[i - Len(front)]
      BY <2>5, <2>6, ConcatProperties
    <3>2. Len(front) + Len(back) = Len(q) - 1
      BY <2>1, <2>3, <2>5, <2>6
    <3> HIDE DEF w
    <3> QED BY <3>1, <3>2
  <2> HIDE DEF w
  <2>8. ASSUME NEW i \in 1..(Len(q) - 1)
        PROVE  w[i] = IF i < p THEN q[i] ELSE q[i + 1]
    <3>1. CASE i < p
      BY <2>1, <2>3, <2>5, <2>7, <3>1
    <3>2. CASE ~(i < p)
      <4>1. i - (p - 1) \in 1..(Len(q) - p) /\ p + (i - (p - 1)) = i + 1 /\ i \in 1..Len(w)
            /\ ~(i <= Len(front))
        BY <2>1, <2>3, <2>5, <2>7, <3>2
      <4>2. w[i] = back[i - (p - 1)]
        BY <2>5, <2>7, <4>1
      <4> QED BY <2>6, <3>2, <4>1, <4>2
    <3> QED BY <3>1, <3>2
  <2> QED BY <2>1, <2>2, <2>4, <2>7, <2>8
<1> QED BY <1>1, <1>2

LEMMA StartCallTypes ==
  ASSUME Types, StartCall
  PROVE  Types'
<1> DEFINE g == drain.group
<1>1. /\ g \in Groups /\ DrainRight'
      /\ batches' = [batches EXCEPT ![g] = NoBatch]
      /\ owed' = [owed EXCEPT ![g] = 0]
  BY StartCallRight
<1>2. /\ UNCHANGED <<said, since, loose, passed, deleted>> /\ WorldType'
  BY DEF StartCall, world, Types, WorldType
<1>3. ClocksType'
  BY <1>2 DEF Types, ClocksType
<1>4. QueueType'
  <2>1. \/ UNCHANGED <<queue, queued>>
        \/ queue' = Without(g) /\ queued' = Unmarked(g)
    BY DEF StartCall
  <2>2. queue \in Seq(Groups) /\ queued \subseteq Groups
    BY DEF Types, QueueType
  <2> HIDE DEF g
  <2>3. Without(g) \in Seq(Groups)
    BY <1>1, <2>2, WithoutRight
  <2> QED BY <2>1, <2>2, <2>3 DEF QueueType, Unmarked
<1>5. /\ batches \in [Groups -> Batches] /\ owed \in [Groups -> Nat]
      /\ \A h \in Groups : /\ batches[h].from <= batches[h].to /\ batches[h].to <= said[h]
                           /\ owed[h] <= said[h] /\ said[h] \in Nat
  BY Bounds DEF Types, BatchesRight, HistoryRight, WorldType
<1> HIDE DEF g
<1>6. BatchesRight'
  <2>1. batches' \in [Groups -> Batches]
    BY <1>1, <1>5, NoBatchFields
  <2>2. ASSUME NEW h \in Groups
        PROVE  batches'[h].from <= batches'[h].to /\ batches'[h].to <= said'[h]
    <3>1. batches'[h] = NoBatch \/ batches'[h] = batches[h]
      BY <1>1, <1>5
    <3> QED BY <1>2, <1>5, <3>1, NoBatchFields
  <2> QED BY <2>1, <2>2 DEF BatchesRight
<1>7. HistoryRight'
  BY <1>1, <1>2, <1>5 DEF Types, HistoryRight
<1> QED BY <1>1, <1>2, <1>3, <1>4, <1>6, <1>7 DEF Types

\* A drain that is told of an abort, or moved on by one
LEMMA AbortTypes ==
  ASSUME Types, drain' = AbortAll
  PROVE  DrainRight'
<1>1. CASE drain.phase = "queued"
  BY <1>1, AbortAllRight, GoingRight
<1>2. CASE drain.phase # "queued"
  <2>1. drain \in Drains /\ drain.aborted \in BOOLEAN
    BY DEF Types, DrainRight, Drains
  <2>2. /\ drain' \in Drains
        /\ drain'.phase = drain.phase /\ drain'.group = drain.group
        /\ drain'.from = drain.from /\ drain'.to = drain.to /\ drain'.tries = drain.tries
        /\ drain'.aborted = (drain.aborted \/ drain.phase \in {"asked", "backoff"})
    BY <1>2, AbortAllRight
  <2> QED BY <2>1, <2>2 DEF Types, DrainRight
<1> QED BY <1>1, <1>2

LEMMA DeleteKeyTypes ==
  ASSUME Types, DeleteKey
  PROVE  Types'
<1>1. config \in [ready : BOOLEAN, version : Nat] /\ config' = [ready |-> FALSE, version |-> config.version + 1]
      /\ UNCHANGED <<said, paused, existing, eligible, loose, since, passed>>
      /\ deleted' = config.version /\ faults' \in Nat
  BY DEF DeleteKey, Fault, Types, WorldType
<1>2. WorldType'
  <2>1. config' \in [ready : BOOLEAN, version : Nat]
    BY <1>1
  <2> QED BY <1>1, <2>1 DEF Types, WorldType
<1>3. BatchesRight'
  <2>1. batches' = [g \in Groups |-> NoBatch]
    BY DEF DeleteKey
  <2>2. \A g \in Groups : said[g] \in Nat
    BY Bounds DEF Types, WorldType
  <2> QED BY <1>1, <2>1, <2>2, NoBatchFields DEF BatchesRight
<1>4. QueueType' /\ ClocksType'
  BY <1>1 DEF DeleteKey, Types, QueueType, ClocksType
<1>5. HistoryRight'
  <2>1. owed' = [g \in Groups |-> 0] /\ config.version \in Nat
    BY <1>1 DEF DeleteKey
  <2>2. \A g \in Groups : said[g] \in Nat
    BY Bounds DEF Types, WorldType
  <2> QED BY <1>1, <2>1, <2>2 DEF Types, HistoryRight
<1>6. DrainRight'
  <2> DEFINE d == AbortAll
  <2>1. drain \in Drains /\ drain.aborted \in BOOLEAN
    BY DEF Types, DrainRight, Drains
  <2>2. /\ d \in Drains /\ d.from <= d.to
        /\ (d.phase \in {"idle", "next"} <=> d.group = NoGroup)
        /\ (d.phase \notin {"asked", "backoff"} => d.tries = 0 /\ ~d.aborted)
        /\ (d.phase = "backoff" => d.tries < Tries)
    <3>1. CASE drain.phase = "queued"
      <4>1. d = Going
        BY <3>1, AbortAllRight
      <4> QED BY <4>1, IdleFields
    <3>2. CASE drain.phase # "queued"
      <4>1. /\ d \in Drains
            /\ d.phase = drain.phase /\ d.group = drain.group
            /\ d.from = drain.from /\ d.to = drain.to /\ d.tries = drain.tries
            /\ d.aborted = (drain.aborted \/ drain.phase \in {"asked", "backoff"})
        BY <3>2, AbortAllRight
      <4> HIDE DEF d
      <4> QED BY <2>1, <4>1 DEF Types, DrainRight
    <3> QED BY <3>1, <3>2
  <2>3. drain' = AfterClear(d)
    BY DEF DeleteKey
  <2> HIDE DEF d
  <2>4. d.phase = "wait" => d.group \in Groups
    BY <2>2 DEF Drains
  <2>5. /\ drain' \in Drains /\ drain'.phase = d.phase
        /\ drain'.group = d.group /\ drain'.tries = d.tries /\ drain'.aborted = d.aborted
        /\ drain'.from <= drain'.to
    BY <2>2, <2>3, <2>4, AfterClearRight
  <2> QED BY <2>2, <2>5 DEF DrainRight
<1> QED BY <1>2, <1>3, <1>4, <1>5, <1>6 DEF Types

LEMMA KeyRefusedTypes ==
  ASSUME Types, KeyRefused
  PROVE  Types'
<1>1. config \in [ready : BOOLEAN, version : Nat] /\ config' = [ready |-> FALSE, version |-> config.version + 1]
      /\ UNCHANGED <<said, paused, existing, eligible, batches, loose, queue, queued, since, passed>>
      /\ deleted' = config.version /\ drain' = AbortAll /\ faults' \in Nat
  BY DEF KeyRefused, Fault, Types, WorldType
<1>2. WorldType'
  <2>1. config' \in [ready : BOOLEAN, version : Nat]
    BY <1>1
  <2> QED BY <1>1, <2>1 DEF Types, WorldType
<1>3. BatchesRight' /\ QueueType' /\ ClocksType'
  BY <1>1 DEF Types, BatchesRight, QueueType, ClocksType
<1>4. DrainRight'
  BY <1>1, AbortTypes
<1>5. HistoryRight'
  <2>1. config.version \in Nat
    BY <1>1
  <2>2. owed \in [Groups -> Nat] /\ \A g \in Groups : owed[g] <= said[g] /\ said[g] \in Nat
    BY Bounds DEF Types, HistoryRight, WorldType
  <2>3. owed' = owed \/ owed' = [owed EXCEPT ![drain.group] = 0]
    BY DEF KeyRefused
  <2>4. owed' \in [Groups -> Nat] /\ \A g \in Groups : owed'[g] <= said'[g]
    BY <1>1, <2>2, <2>3
  <2> QED BY <1>1, <2>1, <2>4 DEF Types, HistoryRight
<1> QED BY <1>2, <1>3, <1>4, <1>5 DEF Types

\* Time makes no batch and removes none.
LEMMA TickTypes ==
  ASSUME Types, Tick
  PROVE  /\ Types'
         /\ UNCHANGED <<world, queue, queued, drain, history, faults>>
         /\ \A g \in Groups :
              IF batches[g] = NoBatch THEN batches'[g] = NoBatch
              ELSE /\ batches'[g].from = batches[g].from /\ batches'[g].to = batches[g].to
                   /\ batches[g].timer # 0
                   /\ batches'[g].age = Smaller(MaxWait, batches[g].age + 1)
                   /\ batches'[g].timer = Larger(Off, batches[g].timer - 1)
<1>1. UNCHANGED <<world, queue, queued, drain, history, faults>>
  BY DEF Tick
<1>2. WorldType' /\ QueueType' /\ DrainRight' /\ HistoryRight'
  BY <1>1 DEF world, history, Types, WorldType, QueueType, DrainRight, HistoryRight
<1>3. batches \in [Groups -> Batches]
      /\ \A g \in Groups : batches[g].from <= batches[g].to /\ batches[g].to <= said[g]
  BY DEF Types, BatchesRight
<1>4. ASSUME NEW g \in Groups
      PROVE  /\ batches'[g] \in Batches /\ batches'[g].from <= batches'[g].to
             /\ batches'[g].to <= said[g]
             /\ IF batches[g] = NoBatch THEN batches'[g] = NoBatch
                ELSE /\ batches'[g].from = batches[g].from /\ batches'[g].to = batches[g].to
                     /\ batches[g].timer # 0
                     /\ batches'[g].age = Smaller(MaxWait, batches[g].age + 1)
                     /\ batches'[g].timer = Larger(Off, batches[g].timer - 1)
  <2> DEFINE b == batches[g]
             age == Smaller(MaxWait, b.age + 1)
             timer == Larger(Off, b.timer - 1)
             c == [b EXCEPT !.age = age, !.timer = timer]
  <2>1. batches'[g] = IF b = NoBatch THEN NoBatch ELSE c
    BY DEF Tick
  <2>2. b.timer # 0
    BY DEF Tick
  <2>3. b \in Batches /\ b.from <= b.to /\ b.to <= said[g]
    BY <1>3
  <2>4. batches[g] = b
    OBVIOUS
  <2> HIDE DEF b
  <2>5. age \in 0..MaxWait /\ timer \in Off..Debounce
    <3>1. b.age \in 0..MaxWait /\ b.timer \in Off..Debounce
      BY <2>3 DEF Batches
    <3> QED BY <3>1, Bounds DEF Smaller, Larger, Off
  <2> HIDE DEF age, timer
  <2>6. c \in Batches /\ c.from = b.from /\ c.to = b.to /\ c.age = age /\ c.timer = timer
    BY <2>3, <2>5 DEF Batches
  <2> HIDE DEF c
  <2>7. CASE b = NoBatch
    BY <2>1, <2>3, <2>4, <2>7
  <2>8. CASE b # NoBatch
    <3>1. batches'[g] = c
      BY <2>1, <2>8
    <3> QED BY <2>2, <2>3, <2>4, <2>6, <2>8, <3>1 DEF age, timer
  <2> QED BY <2>7, <2>8
<1>5. BatchesRight'
  <2>1. batches' = [g \in Groups |-> batches'[g]] /\ said' = said
    BY <1>1 DEF Tick, world
  <2> QED BY <1>4, <2>1 DEF BatchesRight
<1>6. ClocksType'
  <2>1. loose \in [Groups -> [0..MaxWait -> Nat]] /\ since \in [Groups -> 0..Interval]
    BY DEF Types, ClocksType
  <2>2. since' \in [Groups -> 0..Interval]
    <3>1. since' = [g \in Groups |-> Smaller(Interval, since[g] + 1)]
      BY DEF Tick
    <3>2. \A g \in Groups : Smaller(Interval, since[g] + 1) \in 0..Interval
      BY <2>1, Bounds DEF Smaller
    <3> QED BY <3>1, <3>2
  <2>3. loose' \in [Groups -> [0..MaxWait -> Nat]]
    <3> DEFINE later(g) == [t \in 0..MaxWait |-> IF t = MaxWait THEN 0 ELSE loose[g][t + 1]]
    <3>1. loose' = [g \in Groups |-> later(g)]
      BY DEF Tick
    <3>2. ASSUME NEW g \in Groups
          PROVE  later(g) \in [0..MaxWait -> Nat]
      <4> DEFINE l == loose[g]
      <4>1. l \in [0..MaxWait -> Nat]
        BY <2>1
      <4>2. later(g) = [t \in 0..MaxWait |-> IF t = MaxWait THEN 0 ELSE l[t + 1]]
        OBVIOUS
      <4> HIDE DEF l, later
      <4> QED BY <4>1, <4>2, Bounds
    <3> HIDE DEF later
    <3> QED BY <3>1, <3>2
  <2> QED BY <2>2, <2>3 DEF ClocksType
<1> QED BY <1>1, <1>2, <1>4, <1>5, <1>6 DEF Types

\* The context is there: the call waits for its turn, or the key changed.
LEMMA ContextReadyTypes ==
  ASSUME Types, ContextReady
  PROVE  /\ Types' /\ UNCHANGED <<config, batches, queue, queued, passed, deleted>>
         /\ drain.phase = "context" /\ drain.group \in Groups
         /\ \/ drain' = Going /\ owed' = [owed EXCEPT ![drain.group] = 0]
            \/ /\ owed' = owed /\ drain'.phase = "queued" /\ drain'.group = drain.group
               /\ drain'.to = drain.to /\ drain'.stale = drain.stale
               /\ drain'.version = config.version
<1>1. /\ UNCHANGED <<said, config, batches, loose, queue, queued, since, passed, deleted>>
      /\ drain.phase = "context" /\ WorldType'
  BY DEF ContextReady, world, Types, WorldType
<1>2. BatchesRight' /\ QueueType' /\ ClocksType'
  BY <1>1 DEF Types, BatchesRight, QueueType, ClocksType
<1>3. drain \in Drains /\ drain.group \in Groups
  BY <1>1 DEF Types, DrainRight, Drains
<1>4. /\ owed \in [Groups -> Nat]
      /\ \A h \in Groups : owed[h] <= said[h] /\ said[h] \in Nat
  BY Bounds DEF Types, HistoryRight, WorldType
<1>5. CASE config.ready /\ config.version = drain.version
  <2>1. drain' = [drain EXCEPT !.phase = "queued"] /\ owed' = owed
    BY <1>5 DEF ContextReady
  <2>2. /\ drain' \in Drains /\ drain'.phase = "queued" /\ drain'.group = drain.group
        /\ drain'.from = drain.from /\ drain'.to = drain.to /\ drain'.stale = drain.stale
        /\ drain'.version = drain.version /\ drain'.tries = drain.tries
        /\ drain'.aborted = drain.aborted
    BY <1>3, <2>1 DEF Drains, Phases
  <2>3. DrainRight'
    BY <1>1, <1>3, <2>2 DEF Types, DrainRight
  <2>4. HistoryRight'
    BY <1>1, <2>1 DEF Types, HistoryRight
  <2> QED BY <1>1, <1>2, <1>3, <1>5, <2>1, <2>2, <2>3, <2>4 DEF Types
<1>6. CASE ~(config.ready /\ config.version = drain.version)
  <2>1. Finish(drain.group)
    BY <1>6 DEF ContextReady
  <2>2. /\ DrainRight' /\ drain' = Going
        /\ owed' \in [Groups -> Nat] /\ owed' = [owed EXCEPT ![drain.group] = 0]
    BY <1>3, <2>1, FinishRight
  <2>3. HistoryRight'
    BY <1>1, <1>4, <2>2 DEF Types, HistoryRight
  <2> QED BY <1>1, <1>2, <1>3, <2>2, <2>3 DEF Types
<1> QED BY <1>5, <1>6

\* A call ends, or waits for its next try.
LEMMA CallEndsTypes ==
  ASSUME Types, CallEnds
  PROVE  /\ Types' /\ UNCHANGED <<config, batches, queue, queued, passed, owed, deleted>>
         /\ drain.phase = "asked"
         /\ \/ drain' = Going
            \/ /\ drain'.phase = "backoff" /\ drain'.group = drain.group
               /\ drain'.version = drain.version /\ drain'.aborted = drain.aborted
<1>1. /\ UNCHANGED <<said, config, existing, eligible, batches, loose, queue, queued, since, history>>
      /\ drain.phase = "asked" /\ paused' \in BOOLEAN /\ faults' = faults
  BY DEF CallEnds, CallAnswers, CallRetries, CallFails, world, Types, WorldType
<1>2. WorldType' /\ BatchesRight' /\ QueueType' /\ ClocksType' /\ HistoryRight'
  BY <1>1 DEF history, Types, WorldType, BatchesRight, QueueType, ClocksType, HistoryRight
<1>3. drain \in Drains
  BY DEF Types, DrainRight
<1>4. CASE CallRetries
  <2>1. drain' = [drain EXCEPT !.phase = "backoff"] /\ drain.tries < Tries
    BY <1>4 DEF CallRetries
  <2>2. /\ drain' \in Drains /\ drain'.phase = "backoff" /\ drain'.group = drain.group
        /\ drain'.from = drain.from /\ drain'.to = drain.to
        /\ drain'.version = drain.version /\ drain'.tries = drain.tries
        /\ drain'.aborted = drain.aborted
    BY <1>3, <2>1 DEF Drains, Phases
  <2>3. DrainRight'
    BY <1>1, <1>3, <2>1, <2>2 DEF Types, DrainRight
  <2> QED BY <1>1, <1>2, <2>2, <2>3 DEF history, Types
<1>5. CASE CallAnswers \/ CallFails
  <2>1. drain' = Going
    BY <1>5 DEF CallAnswers, CallFails, Going
  <2>2. DrainRight'
    BY <2>1, GoingRight
  <2> QED BY <1>1, <1>2, <2>1, <2>2 DEF history, Types
<1> QED BY <1>4, <1>5 DEF CallEnds

\* What happens beside the coordinator
Aside ==
  \/ SaveKey \/ ValidationRefused \/ OtherCallFails \/ PauseEnds
  \/ \E g \in Groups : CandidatesChange(g) \/ DeleteGroup(g)

LEMMA AsideTypes ==
  ASSUME Types, Aside
  PROVE  /\ Types' /\ UNCHANGED <<batches, queue, queued, drain, owed, passed, deleted>>
         /\ config'.version >= config.version
<1>1. UNCHANGED <<said, coordinator, history>>
  BY DEF Aside, SaveKey, ValidationRefused, OtherCallFails, PauseEnds, CandidatesChange, DeleteGroup
<1>2. BatchesRight' /\ QueueType' /\ ClocksType' /\ DrainRight' /\ HistoryRight'
  BY <1>1 DEF coordinator, history, Types, BatchesRight, QueueType, ClocksType, DrainRight, HistoryRight
<1>3. /\ config \in [ready : BOOLEAN, version : Nat] /\ paused \in BOOLEAN
      /\ said' \in [Groups -> 0..MaxSaid]
      /\ existing \subseteq Groups /\ eligible \subseteq existing
      /\ faults' \in Nat
  BY <1>1 DEF Types, WorldType, Fault, Aside, SaveKey, ValidationRefused, OtherCallFails, PauseEnds,
              CandidatesChange, DeleteGroup
<1>4. config'.version >= config.version /\ WorldType'
  <2>1. CASE SaveKey \/ ValidationRefused
    <3>1. PICK ready \in BOOLEAN : /\ config' = [ready |-> ready, version |-> config.version + 1]
                                  /\ UNCHANGED <<paused, existing, eligible>>
      BY <2>1 DEF SaveKey, ValidationRefused
    <3>2. config' \in [ready : BOOLEAN, version : Nat] /\ config'.version >= config.version
      BY <1>3, <3>1
    <3> QED BY <1>3, <3>1, <3>2 DEF WorldType
  <2>2. CASE OtherCallFails \/ PauseEnds
    <3>1. UNCHANGED <<config, existing, eligible>> /\ paused' \in BOOLEAN
      BY <2>2 DEF OtherCallFails, PauseEnds
    <3> QED BY <1>3, <3>1 DEF WorldType
  <2>3. ASSUME NEW g \in Groups, CandidatesChange(g) \/ DeleteGroup(g)
        PROVE  config'.version >= config.version /\ WorldType'
    <3>1. UNCHANGED <<config, paused>> /\ existing' \subseteq Groups /\ eligible' \subseteq existing'
      BY <1>3, <2>3 DEF CandidatesChange, DeleteGroup
    <3> QED BY <1>3, <3>1 DEF WorldType
  <2> QED BY <2>1, <2>2, <2>3 DEF Aside
<1> QED BY <1>1, <1>2, <1>4 DEF coordinator, history, Types

\* Every step is one of these.
LEMMA Steps ==
  ASSUME Next
  PROVE  \/ \E g \in Groups : Say(g)
         \/ \E g \in Groups : Fire(g) \/ FireLoose(g)
         \/ NextGroup \/ EndWait \/ ContextReady \/ StartCall \/ CallEnds
         \/ DeleteKey \/ KeyRefused \/ Aside \/ Tick
  BY DEF Next, CallEnds, Aside

LEMMA NextTypes == Types /\ [Next]_vars => Types'
<1> SUFFICES ASSUME Types, [Next]_vars PROVE Types'
  OBVIOUS
<1>1. CASE Next
  <2>1. CASE \E g \in Groups : Say(g)
    BY <2>1, SayTypes
  <2>2. CASE \E g \in Groups : Fire(g) \/ FireLoose(g)
    BY <2>2, FireTypes
  <2>3. CASE NextGroup
    BY <2>3, NextGroupTypes
  <2>4. CASE EndWait
    BY <2>4, EndWaitTypes
  <2>5. CASE ContextReady
    BY <2>5, ContextReadyTypes
  <2>6. CASE StartCall
    BY <2>6, StartCallTypes
  <2>7. CASE CallEnds
    BY <2>7, CallEndsTypes
  <2>8. CASE DeleteKey
    BY <2>8, DeleteKeyTypes
  <2>9. CASE KeyRefused
    BY <2>9, KeyRefusedTypes
  <2>10. CASE Aside
    BY <2>10, AsideTypes
  <2>11. CASE Tick
    BY <2>11, TickTypes
  <2> QED BY <1>1, <2>1, <2>2, <2>3, <2>4, <2>5, <2>6, <2>7, <2>8, <2>9, <2>10, <2>11, Steps
<1>2. CASE UNCHANGED vars
  BY <1>2 DEF vars, world, coordinator, history, Types, WorldType, BatchesRight, QueueType,
              ClocksType, DrainRight, HistoryRight
<1> QED BY <1>1, <1>2

LEMMA TypesImplyTypeOK == Types => TypeOK
<1> SUFFICES ASSUME Types PROVE TypeOK
  OBVIOUS
<1>1. ASSUME NEW g \in Groups
      PROVE  /\ said[g] \in 0..MaxSaid /\ owed[g] \in 0..said[g] /\ since[g] \in 0..Interval
             /\ batches[g].to \in batches[g].from..said[g] /\ batches[g].age \in 0..MaxWait
             /\ batches[g].timer \in Off..Debounce
             /\ loose[g] \in [0..MaxWait -> Nat]
  <2>1. said[g] \in 0..MaxSaid /\ owed[g] \in Nat /\ owed[g] <= said[g] /\ since[g] \in 0..Interval
        /\ loose[g] \in [0..MaxWait -> Nat] /\ batches[g] \in Batches
        /\ batches[g].from <= batches[g].to /\ batches[g].to <= said[g]
    BY DEF Types, WorldType, HistoryRight, ClocksType, BatchesRight
  <2>2. batches[g].from \in Nat /\ batches[g].to \in Nat /\ batches[g].age \in 0..MaxWait
        /\ batches[g].timer \in Off..Debounce
    BY <2>1 DEF Batches
  <2> QED BY SMTT(30), <2>1, <2>2, Bounds
<1>2. existing \subseteq Groups /\ eligible \subseteq existing
      /\ queue \in Seq(Groups) /\ queued \subseteq Groups
  BY DEF Types, WorldType, QueueType
<1>3. /\ drain.phase \in {"idle", "next", "wait", "context", "queued", "asked", "backoff"}
      /\ drain.tries \in 0..Tries /\ drain.from <= drain.to
      /\ (drain.phase \in {"idle", "next"} <=> drain.group = NoGroup)
  BY DEF Types, DrainRight, Drains, Phases
<1> QED BY <1>1, <1>2, <1>3 DEF TypeOK

\* The fields of ProactiveCoordinator stay in their ranges: a batch is about
\* messages that were said, and a drain at work is at work for a group.
THEOREM TypeCorrect == Spec => []TypeOK
<1>1. Spec => []Types
  BY InitTypes, NextTypes, PTL DEF Spec
<1> QED BY <1>1, TypesImplyTypeOK, PTL

------------------------------------------------------------------------------
(* Batches are due in time *)

LEMMA InitDue == Init => DueInTime
  BY DEF Init, DueInTime

\* A route, a call or a clear() takes batches and nothing else.
LEMMA NextDue == Types /\ DueInTime /\ [Next]_vars => DueInTime'
<1> SUFFICES ASSUME Types, DueInTime, [Next]_vars PROVE DueInTime'
  OBVIOUS
<1>1. CASE UNCHANGED vars
  BY <1>1 DEF vars, coordinator, DueInTime, Held
<1>2. CASE Next
  <2> SUFFICES ASSUME NEW g \in Groups, batches'[g] # NoBatch
               PROVE  \/ g \in queued' \/ Held(g)'
                      \/ batches'[g].timer # Off /\ batches'[g].age + batches'[g].timer <= MaxWait
    BY DEF DueInTime
  <2>0. batches[g] # NoBatch =>
          \/ g \in queued \/ Held(g)
          \/ batches[g].timer # Off /\ batches[g].age + batches[g].timer <= MaxWait
    BY DEF DueInTime
  <2>1. ASSUME batches'[g] = batches[g], queued \subseteq queued',
               Held(g) => drain' = drain
        PROVE  \/ g \in queued' \/ Held(g)'
               \/ batches'[g].timer # Off /\ batches'[g].age + batches'[g].timer <= MaxWait
    BY <2>0, <2>1 DEF Held
  <2>2. CASE \E h \in Groups : Say(h)
    <3> PICK h \in Groups : Say(h)
      BY <2>2
    <3>1. UNCHANGED <<queued, drain>>
      BY DEF Say
    <3>2. CASE batches'[g] = batches[g]
      BY <2>1, <3>1, <3>2
    <3>3. CASE batches'[g] # batches[g]
      BY <3>3, SayTypes
    <3> QED BY <3>2, <3>3
  <2>3. CASE \E h \in Groups : Fire(h) \/ FireLoose(h)
    <3> PICK h \in Groups : Fire(h) \/ FireLoose(h)
      BY <2>3
    <3>1. CASE UNCHANGED <<batches, queue, queued, passed, drain>>
      BY <2>1, <3>1
    <3>2. CASE QueueBatch(h) /\ \A k \in Groups : k # h => batches'[k] = batches[k]
      <4>1. queued' = queued \cup {h} /\ (drain' = drain \/ drain = Idle)
        BY <3>2, QueueBatchRight
      <4>2. Held(g) => drain' = drain
        BY <4>1, IdleFields DEF Held
      <4> QED BY <2>1, <3>2, <4>1, <4>2
    <3> QED BY <3>1, <3>2, FireTypes
  <2>4. CASE NextGroup
    <3>0. ~Held(g)
      BY <2>4 DEF NextGroup, Held
    <3>1. CASE UNCHANGED <<batches, queue, queued, owed, passed>>
      BY <2>1, <3>0, <3>1
    <3>2. CASE \E h \in Groups :
                 /\ queued' = queued \ {h}
                 /\ \/ batches[h] = NoBatch /\ UNCHANGED batches
                    \/ /\ UNCHANGED batches
                       /\ drain'.phase = "wait" /\ drain'.group = h /\ drain'.stale = FALSE
                    \/ batches' = [batches EXCEPT ![h] = NoBatch]
      <4> PICK h \in Groups :
                 /\ queued' = queued \ {h}
                 /\ \/ batches[h] = NoBatch /\ UNCHANGED batches
                    \/ /\ UNCHANGED batches
                       /\ drain'.phase = "wait" /\ drain'.group = h /\ drain'.stale = FALSE
                    \/ batches' = [batches EXCEPT ![h] = NoBatch]
        BY <3>2
      <4>1. batches \in [Groups -> Batches]
        BY DEF Types, BatchesRight
      <4>2. CASE g = h
        BY <4>1, <4>2 DEF Held
      <4>3. CASE g # h
        <5>1. batches'[g] = batches[g]
          BY <4>1, <4>3
        <5> QED BY <2>0, <3>0, <4>3, <5>1
      <4> QED BY <4>2, <4>3
    <3> QED BY <2>4, <3>1, <3>2, NextGroupTypes
  <2>5. CASE EndWait
    <3>1. /\ UNCHANGED queued /\ drain.group \in Groups
          /\ batches' = [batches EXCEPT ![drain.group] = NoBatch]
          /\ batches \in [Groups -> Batches]
      BY <2>5, EndWaitTypes DEF Types, BatchesRight
    <3>2. g # drain.group /\ batches'[g] = batches[g]
      BY <3>1
    <3> QED BY <2>1, <3>1, <3>2 DEF Held
  <2>6. CASE ContextReady
    BY <2>1, <2>6, ContextReadyTypes DEF Held
  <2>7. CASE StartCall
    <3>1. /\ drain.group \in Groups
          /\ batches' = [batches EXCEPT ![drain.group] = NoBatch]
          /\ batches \in [Groups -> Batches]
      BY <2>7, StartCallRight DEF Types, BatchesRight
    <3>2. g # drain.group /\ batches'[g] = batches[g]
      BY <3>1
    <3>3. ~Held(g) /\ (queued' = queued \/ queued' = queued \ {drain.group})
      BY <2>7 DEF StartCall, Unmarked, Held
    <3> QED BY <2>0, <3>2, <3>3
  <2>8. CASE CallEnds
    BY <2>1, <2>8, CallEndsTypes DEF Held
  <2>9. CASE DeleteKey
    BY <2>9 DEF DeleteKey
  <2>10. CASE KeyRefused
    <3>1. UNCHANGED <<batches, queued>> /\ (Held(g) => drain' = drain)
      BY <2>10 DEF KeyRefused, AbortAll, Held
    <3> QED BY <2>1, <3>1
  <2>11. CASE Aside
    BY <2>1, <2>11, AsideTypes
  <2>12. CASE Tick
    <3>1. UNCHANGED <<queued, drain>> /\ batches[g] # NoBatch
          /\ batches[g].timer # 0
          /\ batches'[g].age = Smaller(MaxWait, batches[g].age + 1)
          /\ batches'[g].timer = Larger(Off, batches[g].timer - 1)
      BY <2>12, TickTypes
    <3>2. batches[g].age \in 0..MaxWait /\ batches[g].timer \in Off..Debounce
      BY DEF Types, BatchesRight, Batches
    <3>3. CASE g \in queued \/ Held(g)
      BY <3>1, <3>3 DEF Held
    <3>4. CASE batches[g].timer # Off /\ batches[g].age + batches[g].timer <= MaxWait
      <4> DEFINE age == batches[g].age
                 timer == batches[g].timer
      <4>1. age \in Nat /\ timer \in Nat \ {0} /\ age + timer <= MaxWait
        BY <3>1, <3>2, <3>4, Bounds DEF Off
      <4>2. batches'[g].age = Smaller(MaxWait, age + 1) /\ batches'[g].timer = Larger(Off, timer - 1)
        BY <3>1
      <4> HIDE DEF age, timer
      <4> QED BY <4>1, <4>2, Bounds DEF Smaller, Larger, Off
    <3> QED BY <2>0, <3>1, <3>3, <3>4
  <2> QED BY <1>2, <2>2, <2>3, <2>4, <2>5, <2>6, <2>7, <2>8, <2>9, <2>10, <2>11, <2>12, Steps
<1> QED BY <1>1, <1>2

\* DueInTime: no batch is forgotten.  Whatever order the timers, the drain and
\* the messages come in, a batch is in the queue, held by the drain, or has a
\* timer that fires maxWaitMs after its first message at the latest.
THEOREM BatchesDue == Spec => []DueInTime
<1>1. Spec => []Types
  BY InitTypes, NextTypes, PTL DEF Spec
<1> QED BY <1>1, InitDue, NextDue, PTL DEF Spec

------------------------------------------------------------------------------
(* Groups take turns *)

LEMMA InitQueue == Init => QueueInv
  BY DEF Init, QueueInv

\* What QueueInv says of the places of the queue
LEMMA QueueBy ==
  ASSUME \A g \in Groups : g \in queued' <=> \E i \in 1..Len(queue') : queue'[i] = g,
         \A i, j \in 1..Len(queue') : queue'[i] = queue'[j] => i = j,
         \A i \in 1..Len(queue'), h \in Groups :
           /\ passed'[queue'[i]][h] <= 1
           /\ passed'[queue'[i]][h] = 1 => \A j \in 1..(i - 1) : queue'[j] # h
  PROVE  QueueInv'
  BY DEF QueueInv

LEMMA QueueSame ==
  ASSUME QueueInv, UNCHANGED <<queue, queued, passed>>
  PROVE  QueueInv'
  BY DEF QueueInv

\* Whoever comes in is the last one, and nobody has had a turn since.
LEMMA QueueBatchTurns ==
  ASSUME Types, QueueInv, NEW g \in Groups, QueueBatch(g)
  PROVE  QueueInv'
<1>1. CASE g \in queued
  BY <1>1, QueueSame DEF QueueBatch
<1>2. CASE g \notin queued
  <2> DEFINE q == queue
             n == Len(q)
             r == Append(q, g)
  <2>1. /\ queue' = r /\ queued' = queued \cup {g} /\ passed' = [passed EXCEPT ![g] = NoTurns]
        /\ passed \in [Groups -> [Groups -> Nat]] /\ q \in Seq(Groups)
    BY <1>2 DEF QueueBatch, QueuedLast, Types, HistoryRight, QueueType
  <2>2. /\ n \in Nat /\ Len(r) = n + 1 /\ r[n + 1] = g
        /\ \A i \in 1..n : r[i] = q[i] /\ q[i] \in Groups
    BY <2>1
  <2>3. \A i \in 1..n : q[i] # g
    BY <1>2, <2>2 DEF QueueInv
  <2>4. /\ \A h \in Groups : h \in queued <=> \E i \in 1..n : q[i] = h
        /\ \A i, j \in 1..n : q[i] = q[j] => i = j
        /\ \A i \in 1..n, h \in Groups :
             /\ passed[q[i]][h] <= 1
             /\ passed[q[i]][h] = 1 => \A j \in 1..(i - 1) : q[j] # h
    BY DEF QueueInv
  <2> HIDE DEF q, n, r
  <2>5. \A i \in 1..n : passed'[q[i]] = passed[q[i]]
    BY <2>1, <2>2, <2>3
  <2>6. \A h \in Groups : passed'[g][h] = 0
    BY <2>1 DEF NoTurns
  <2>7. \A i \in 1..Len(queue') : (i \in 1..n /\ queue'[i] = q[i]) \/ (i = n + 1 /\ queue'[i] = g)
    BY <2>1, <2>2
  <2>8. \A h \in Groups : h \in queued' <=> \E i \in 1..Len(queue') : queue'[i] = h
    <3>1. ASSUME NEW h \in Groups, h \in queued'
          PROVE  \E i \in 1..Len(queue') : queue'[i] = h
      <4>1. CASE h = g
        <5>1. n + 1 \in 1..Len(queue') /\ queue'[n + 1] = h
          BY <2>1, <2>2, <4>1
        <5> QED BY <5>1
      <4>2. CASE h # g
        <5>1. PICK i \in 1..n : q[i] = h
          BY <2>1, <2>4, <3>1, <4>2
        <5>2. i \in 1..Len(queue') /\ queue'[i] = h
          BY <2>1, <2>2, <5>1
        <5> QED BY <5>2
      <4> QED BY <4>1, <4>2
    <3>2. ASSUME NEW h \in Groups, NEW i \in 1..Len(queue'), queue'[i] = h
          PROVE  h \in queued'
      BY <2>1, <2>4, <2>7, <3>2
    <3> QED BY <3>1, <3>2
  <2>9. \A i, j \in 1..Len(queue') : queue'[i] = queue'[j] => i = j
    BY <2>3, <2>4, <2>7
  <2>10. ASSUME NEW i \in 1..Len(queue'), NEW h \in Groups
         PROVE  /\ passed'[queue'[i]][h] <= 1
                /\ passed'[queue'[i]][h] = 1 => \A j \in 1..(i - 1) : queue'[j] # h
    <3>1. CASE i \in 1..n /\ queue'[i] = q[i]
      <4>1. \A j \in 1..(i - 1) : queue'[j] = q[j]
        BY <2>1, <2>2, <3>1
      <4> QED BY <2>4, <2>5, <3>1, <4>1
    <3>2. CASE i = n + 1 /\ queue'[i] = g
      BY <2>6, <3>2
    <3> QED BY <2>7, <3>1, <3>2
  <2> QED BY <2>8, <2>9, <2>10, QueueBy
<1> QED BY <1>1, <1>2

\* The first one leaves; if it has a turn, those who wait behind it had not seen one.
LEMMA TurnTaken ==
  ASSUME Types, QueueInv, queue # <<>>, queue' = Tail(queue), queued' = queued \ {Head(queue)},
         \/ passed' = passed
         \/ passed' = [h \in Groups |-> [passed[h] EXCEPT ![Head(queue)] = @ + 1]]
  PROVE  QueueInv'
<1> DEFINE q == queue
           n == Len(q)
           g == Head(q)
           r == Tail(q)
<1>1. q \in Seq(Groups) /\ passed \in [Groups -> [Groups -> Nat]]
  BY DEF Types, QueueType, HistoryRight
<1>2. /\ n \in Nat \ {0} /\ Len(r) = n - 1 /\ q[1] = g
      /\ \A i \in 1..n : q[i] \in Groups
      /\ \A i \in 1..(n - 1) : r[i] = q[i + 1]
  BY <1>1
<1>3. /\ \A h \in Groups : h \in queued <=> \E i \in 1..n : q[i] = h
      /\ \A i, j \in 1..n : q[i] = q[j] => i = j
      /\ \A i \in 1..n, h \in Groups :
           /\ passed[q[i]][h] <= 1
           /\ passed[q[i]][h] = 1 => \A j \in 1..(i - 1) : q[j] # h
  BY DEF QueueInv
<1>4. queue' = r /\ queued' = queued \ {g}
  OBVIOUS
<1>5. \/ passed' = passed
      \/ passed' = [h \in Groups |-> [passed[h] EXCEPT ![g] = @ + 1]]
  OBVIOUS
<1> HIDE DEF q, n, g, r
<1>6. \A i \in 1..Len(queue') : i \in 1..(n - 1) /\ i + 1 \in 1..n /\ queue'[i] = q[i + 1]
  BY <1>2, <1>4
<1>10. 1 \in 1..n /\ q[1] = g
  BY <1>2
<1>11. ASSUME NEW i \in 1..n, i # 1
       PROVE  q[i] # g
  BY <1>3, <1>10, <1>11
<1>7. \A h \in Groups : h \in queued' <=> \E i \in 1..Len(queue') : queue'[i] = h
  <2>1. ASSUME NEW h \in Groups, h \in queued'
        PROVE  \E i \in 1..Len(queue') : queue'[i] = h
    <3>1. h # g /\ h \in queued
      BY <1>4, <2>1
    <3>2. PICK i \in 1..n : q[i] = h
      BY <1>3, <3>1
    <3>3. i # 1
      BY <1>2, <3>1, <3>2
    <3>4. i - 1 \in 1..Len(queue') /\ queue'[i - 1] = q[(i - 1) + 1] /\ (i - 1) + 1 = i
      BY <1>2, <1>4, <3>3
    <3> QED BY <3>2, <3>4
  <2>2. ASSUME NEW h \in Groups, NEW i \in 1..Len(queue'), queue'[i] = h
        PROVE  h \in queued'
    <3>1. i + 1 \in 1..n /\ q[i + 1] = h /\ i + 1 # 1
      BY <1>6, <2>2
    <3>2. h # g
      BY <1>11, <3>1
    <3> QED BY <1>3, <1>4, <3>1, <3>2
  <2> QED BY <2>1, <2>2
<1>8. \A i, j \in 1..Len(queue') : queue'[i] = queue'[j] => i = j
  <2> TAKE i, j \in 1..Len(queue')
  <2> HAVE queue'[i] = queue'[j]
  <2>1. i + 1 \in 1..n /\ j + 1 \in 1..n /\ q[i + 1] = q[j + 1]
    BY <1>6
  <2>2. i + 1 = j + 1
    BY <1>3, <2>1
  <2> QED BY <2>2
<1>9. ASSUME NEW i \in 1..Len(queue'), NEW h \in Groups
      PROVE  /\ passed'[queue'[i]][h] <= 1
             /\ passed'[queue'[i]][h] = 1 => \A j \in 1..(i - 1) : queue'[j] # h
  <2>1. i + 1 \in 1..n /\ queue'[i] = q[i + 1] /\ q[i + 1] \in Groups /\ 1 \in 1..((i + 1) - 1)
    BY <1>2, <1>6
  <2>2. \A j \in 1..(i - 1) : j + 1 \in 1..((i + 1) - 1) /\ queue'[j] = q[j + 1]
    BY <1>6
  <2> DEFINE k == q[i + 1]
  <2>3. /\ passed[k][h] <= 1 /\ passed[k][h] \in Nat
        /\ passed[k][h] = 1 => \A j \in 1..((i + 1) - 1) : q[j] # h
    BY <1>1, <1>3, <2>1
  <2>4. queue'[i] = k /\ k \in Groups
    BY <2>1
  <2> HIDE DEF k
  <2>5. CASE passed'[k][h] = passed[k][h]
    BY <2>2, <2>3, <2>4, <2>5
  <2>6. CASE h = g /\ passed'[k][h] = passed[k][h] + 1
    <3>1. passed[k][h] = 0
      <4>1. passed[k][h] # 1
        BY <1>10, <2>1, <2>3, <2>6
      <4> QED BY <2>3, <4>1
    <3>2. \A j \in 1..(i - 1) : queue'[j] # h
      <4> TAKE j \in 1..(i - 1)
      <4>1. j + 1 \in 1..n /\ queue'[j] = q[j + 1] /\ j + 1 # 1
        BY <1>6
      <4>2. q[j + 1] # g
        BY <1>11, <4>1
      <4> QED BY <2>6, <4>1, <4>2
    <3> QED BY <2>4, <2>6, <3>1, <3>2
  <2>7. passed'[k][h] = passed[k][h] \/ (h = g /\ passed'[k][h] = passed[k][h] + 1)
    <3>1. passed[k] \in [Groups -> Nat]
      BY <1>1, <2>4
    <3> QED BY <1>5, <2>4, <3>1
  <2> QED BY <2>5, <2>6, <2>7
<1> QED BY <1>7, <1>8, <1>9, QueueBy

\* A group whose batch joined the call leaves the queue from any place.
LEMMA GroupLeaves ==
  ASSUME Types, QueueInv, NEW g \in Groups, queue' = Without(g), queued' = Unmarked(g),
         passed' = passed
  PROVE  QueueInv'
<1> DEFINE q == queue
           n == Len(q)
<1>1. q \in Seq(Groups) /\ n \in Nat /\ \A i \in 1..n : q[i] \in Groups
  BY DEF Types, QueueType
<1>2. /\ \A h \in Groups : h \in queued <=> \E i \in 1..n : q[i] = h
      /\ \A i, j \in 1..n : q[i] = q[j] => i = j
      /\ \A i \in 1..n, h \in Groups :
           /\ passed[q[i]][h] <= 1
           /\ passed[q[i]][h] = 1 => \A j \in 1..(i - 1) : q[j] # h
  BY DEF QueueInv
<1>3. q = queue /\ n = Len(queue)
  OBVIOUS
<1>4. queued' = queued \ {g}
  BY DEF Unmarked
<1> HIDE DEF q, n
<1>5. CASE (\A i \in 1..n : q[i] # g) /\ queue' = q
  <2>1. g \notin queued
    BY <1>2, <1>5
  <2>2. UNCHANGED <<queue, queued, passed>>
    BY <1>3, <1>4, <1>5, <2>1
  <2> QED BY <2>2, QueueSame
<1>6. ASSUME NEW p \in 1..n, q[p] = g, Len(queue') = n - 1,
             \A i \in 1..(n - 1) : queue'[i] = IF i < p THEN q[i] ELSE q[i + 1]
      PROVE  QueueInv'
  <2> DEFINE at(i) == IF i < p THEN i ELSE i + 1
  <2>1. ASSUME NEW i \in 1..Len(queue')
        PROVE  at(i) \in 1..n /\ at(i) # p /\ queue'[i] = q[at(i)]
    BY <1>1, <1>6
  <2>2. \A i, j \in 1..Len(queue') : /\ at(i) = at(j) => i = j
                                     /\ j < i => at(j) < at(i)
    BY <1>1, <1>6
  <2>3. ASSUME NEW i \in 1..n, i # p
        PROVE  \E j \in 1..Len(queue') : at(j) = i
    <3>1. CASE i < p
      <4>1. i \in 1..Len(queue') /\ at(i) = i
        BY <1>1, <1>6, <3>1
      <4> QED BY <4>1
    <3>2. CASE ~(i < p)
      <4>1. i - 1 \in 1..Len(queue') /\ at(i - 1) = i
        BY <1>1, <1>6, <2>3, <3>2
      <4> QED BY <4>1
    <3> QED BY <3>1, <3>2
  <2> HIDE DEF at
  <2>4. \A h \in Groups : h \in queued' <=> \E i \in 1..Len(queue') : queue'[i] = h
    <3>1. ASSUME NEW h \in Groups, h \in queued'
          PROVE  \E i \in 1..Len(queue') : queue'[i] = h
      <4>1. PICK i \in 1..n : q[i] = h
        BY <1>2, <1>4, <3>1
      <4>2. i # p
        BY <1>4, <1>6, <3>1, <4>1
      <4>3. PICK j \in 1..Len(queue') : at(j) = i
        BY <2>3, <4>2
      <4> QED BY <2>1, <4>1, <4>3
    <3>2. ASSUME NEW h \in Groups, NEW i \in 1..Len(queue'), queue'[i] = h
          PROVE  h \in queued'
      <4>1. at(i) \in 1..n /\ at(i) # p /\ q[at(i)] = h
        BY <2>1, <3>2
      <4>2. h # g
        BY <1>2, <1>6, <4>1
      <4> QED BY <1>2, <1>4, <4>1, <4>2
    <3> QED BY <3>1, <3>2
  <2>5. \A i, j \in 1..Len(queue') : queue'[i] = queue'[j] => i = j
    <3> TAKE i, j \in 1..Len(queue')
    <3> HAVE queue'[i] = queue'[j]
    <3>1. at(i) = at(j)
      BY <1>2, <2>1
    <3> QED BY <2>2, <3>1
  <2>6. ASSUME NEW i \in 1..Len(queue'), NEW h \in Groups
        PROVE  /\ passed'[queue'[i]][h] <= 1
               /\ passed'[queue'[i]][h] = 1 => \A j \in 1..(i - 1) : queue'[j] # h
    <3>1. at(i) \in 1..n /\ queue'[i] = q[at(i)]
      BY <2>1
    <3>2. /\ passed[q[at(i)]][h] <= 1
          /\ passed[q[at(i)]][h] = 1 => \A j \in 1..(at(i) - 1) : q[j] # h
      BY <1>2, <3>1
    <3>3. ASSUME NEW j \in 1..(i - 1)
          PROVE  at(j) \in 1..(at(i) - 1) /\ queue'[j] = q[at(j)]
      <4>1. j \in 1..Len(queue') /\ j < i
        BY <1>1, <1>6
      <4>2. at(j) < at(i) /\ at(j) \in 1..n /\ at(i) \in 1..n
        BY <2>1, <2>2, <4>1
      <4> QED BY <1>1, <2>1, <4>1, <4>2
    <3> QED BY <3>1, <3>2, <3>3
  <2> QED BY <2>4, <2>5, <2>6, QueueBy
<1>7. \/ (\A i \in 1..n : q[i] # g) /\ queue' = q
      \/ \E p \in 1..n :
           /\ q[p] = g /\ Len(queue') = n - 1
           /\ \A i \in 1..(n - 1) : queue'[i] = IF i < p THEN q[i] ELSE q[i + 1]
  <2>1. queue \in Seq(Groups)
    BY <1>1, <1>3
  <2> QED BY <2>1, WithoutRight DEF q, n
<1> QED BY <1>5, <1>6, <1>7

LEMMA NextQueue == Types /\ QueueInv /\ [Next]_vars => QueueInv'
<1> SUFFICES ASSUME Types, QueueInv, [Next]_vars PROVE QueueInv'
  OBVIOUS
<1>1. CASE UNCHANGED vars
  BY <1>1, QueueSame DEF vars, coordinator, history
<1>2. CASE Next
  <2>1. CASE \E g \in Groups : Say(g)
    BY <2>1, QueueSame DEF Say
  <2>2. CASE \E g \in Groups : Fire(g) \/ FireLoose(g)
    BY <2>2, FireTypes, QueueSame, QueueBatchTurns
  <2>3. CASE NextGroup
    <3>1. \/ UNCHANGED <<queue, queued, passed>>
          \/ /\ queue # <<>> /\ queue' = Tail(queue) /\ queued' = queued \ {Head(queue)}
             /\ \/ passed' = passed
                \/ passed' = [h \in Groups |-> [passed[h] EXCEPT ![Head(queue)] = @ + 1]]
      BY <2>3, NextGroupTypes
    <3> QED BY <3>1, QueueSame, TurnTaken
  <2>4. CASE EndWait
    BY <2>4, EndWaitTypes, QueueSame
  <2>5. CASE ContextReady
    BY <2>5, ContextReadyTypes, QueueSame
  <2>6. CASE StartCall
    <3>1. /\ drain.group \in Groups /\ passed' = passed
          /\ \/ UNCHANGED <<queue, queued>>
             \/ queue' = Without(drain.group) /\ queued' = Unmarked(drain.group)
      BY <2>6, StartCallRight DEF StartCall
    <3> QED BY <3>1, QueueSame, GroupLeaves
  <2>7. CASE CallEnds
    BY <2>7, CallEndsTypes, QueueSame
  <2>8. CASE DeleteKey
    <3>1. queue' = <<>> /\ queued' = {}
      BY <2>8 DEF DeleteKey
    <3>2. 1..Len(queue') = {}
      BY <3>1
    <3> QED BY <3>1, <3>2 DEF QueueInv
  <2>9. CASE KeyRefused
    BY <2>9, QueueSame DEF KeyRefused
  <2>10. CASE Aside
    BY <2>10, AsideTypes, QueueSame
  <2>11. CASE Tick
    BY <2>11, QueueSame DEF Tick, history
  <2> QED BY <1>2, <2>1, <2>2, <2>3, <2>4, <2>5, <2>6, <2>7, <2>8, <2>9, <2>10, <2>11, Steps
<1> QED BY <1>1, <1>2

\* RoundRobin: #drain is fair among the groups.  From the moment a group enters
\* the queue until its turn, no other group has two turns, however much is
\* written there.
THEOREM GroupsTakeTurns == Spec => []RoundRobin
<1>1. Types /\ QueueInv => RoundRobin
  BY DEF QueueInv, RoundRobin, Types, QueueType
<1>2. Spec => []Types
  BY InitTypes, NextTypes, PTL DEF Spec
<1>3. Spec => []QueueInv
  BY <1>2, InitQueue, NextQueue, PTL DEF Spec
<1> QED BY <1>1, <1>2, <1>3, PTL

------------------------------------------------------------------------------
(* The call covers what was said *)

LEMMA InitOwed == Init => OwedInv
<1> SUFFICES ASSUME Init PROVE OwedInv
  OBVIOUS
<1>1. drain = Idle /\ owed = [g \in Groups |-> 0] /\ batches = [g \in Groups |-> NoBatch]
  BY DEF Init
<1> QED BY <1>1, IdleFields, NoBatchFields DEF OwedInv, Preparing

LEMMA NextOwed == Types /\ OwedInv /\ [Next]_vars => OwedInv'
<1> SUFFICES ASSUME Types, OwedInv, [Next]_vars PROVE OwedInv'
  OBVIOUS
<1>1. CASE UNCHANGED vars
  BY <1>1 DEF vars, coordinator, history, OwedInv, Preparing
<1>2. CASE Next
  <2> SUFFICES ASSUME NEW g \in Groups
               PROVE  IF Preparing(g)'
                      THEN drain'.stale \/ owed'[g] <= Larger(drain'.to, batches'[g].to)
                      ELSE owed'[g] <= batches'[g].to
    BY DEF OwedInv
  <2> DEFINE Goal == IF Preparing(g)'
                     THEN drain'.stale \/ owed'[g] <= Larger(drain'.to, batches'[g].to)
                     ELSE owed'[g] <= batches'[g].to
  <2> SUFFICES Goal
    OBVIOUS
  <2>0. /\ IF Preparing(g)
           THEN drain.stale \/ owed[g] <= Larger(drain.to, batches[g].to)
           ELSE owed[g] <= batches[g].to
        /\ batches[g].to \in Nat /\ owed[g] \in Nat /\ drain.to \in Nat
        /\ batches \in [Groups -> Batches] /\ owed \in [Groups -> Nat]
    BY DEF OwedInv, Types, BatchesRight, HistoryRight, DrainRight, Batches, Drains
  <2>1. ASSUME Types'
        PROVE  batches'[g].to \in Nat /\ owed'[g] \in Nat /\ drain'.to \in Nat
    BY <2>1 DEF Types, BatchesRight, HistoryRight, DrainRight, Batches, Drains
  <2>2. ASSUME batches'[g].to = batches[g].to, owed'[g] = owed[g],
               Preparing(g)' <=> Preparing(g),
               Preparing(g) => drain'.stale = drain.stale /\ drain'.to = drain.to
        PROVE  Goal
    BY <2>0, <2>2
  <2>3. ASSUME Types', owed'[g] = 0
        PROVE  Goal
    BY <2>1, <2>3 DEF Larger
  <2>4. CASE \E h \in Groups : Say(h)
    <3> PICK h \in Groups : Say(h)
      BY <2>4
    <3>1. drain' = drain /\ Types'
      BY SayTypes DEF Say
    <3>2. CASE batches'[g] = batches[g] /\ owed'[g] = owed[g]
      BY <2>2, <3>1, <3>2 DEF Preparing
    <3>3. CASE owed'[g] = batches'[g].to
      BY <2>1, <3>1, <3>3 DEF Larger
    <3> QED BY <3>2, <3>3, SayTypes
  <2>5. CASE \E h \in Groups : Fire(h) \/ FireLoose(h)
    <3> PICK h \in Groups : Fire(h) \/ FireLoose(h)
      BY <2>5
    <3>1. owed' = owed
      BY FireTypes
    <3>2. batches'[g].to = batches[g].to /\ (drain' = drain \/ (drain = Idle /\ drain' = Going))
      BY FireTypes, QueueBatchRight
    <3>3. CASE drain' = drain
      BY <2>2, <3>1, <3>2, <3>3 DEF Preparing
    <3>4. CASE drain = Idle /\ drain' = Going
      <4>1. ~Preparing(g) /\ ~Preparing(g)'
        BY <3>4, IdleFields DEF Preparing
      <4> QED BY <2>2, <3>1, <3>2, <4>1
    <3> QED BY <3>2, <3>3, <3>4
  <2>6. ASSUME NEW h \in Groups, Types', ~Preparing(g),
               batches' = [batches EXCEPT ![h] = NoBatch],
               \/ drain' = Going /\ owed' = [owed EXCEPT ![h] = 0]
               \/ /\ drain'.phase = "context" /\ drain'.group = h
                  /\ drain'.stale = TRUE \/ drain'.to = batches[h].to
                  /\ owed' = owed
        PROVE  Goal
    <3>1. CASE g = h
      <4>1. CASE drain' = Going /\ owed' = [owed EXCEPT ![h] = 0]
        <5>1. owed'[g] = 0
          BY <2>0, <3>1, <4>1
        <5> QED BY <2>3, <2>6, <5>1
      <4>2. CASE /\ drain'.phase = "context" /\ drain'.group = h
                 /\ drain'.stale = TRUE \/ drain'.to = batches[h].to
                 /\ owed' = owed
        <5>1. Preparing(g)'
          BY <3>1, <4>2 DEF Preparing
        <5>2. drain'.stale = TRUE \/ owed'[g] <= Larger(drain'.to, batches'[g].to)
          <6>1. owed[g] <= batches[g].to
            BY <2>0, <2>6
          <6>2. batches'[g].to = 0
            BY <2>0, <2>6, <3>1, NoBatchFields
          <6> QED BY <2>0, <3>1, <4>2, <6>1, <6>2 DEF Larger
        <5> QED BY <5>1, <5>2
      <4> QED BY <2>6, <4>1, <4>2
    <3>2. CASE g # h
      <4>1. batches'[g] = batches[g] /\ owed'[g] = owed[g]
        BY <2>0, <2>6, <3>2
      <4>2. ~Preparing(g)'
        BY <2>6, <3>2, IdleFields DEF Preparing
      <4> QED BY <2>2, <2>6, <4>1, <4>2
    <3> QED BY <3>1, <3>2
  <2>7. CASE NextGroup
    <3>1. ~Preparing(g)
      BY <2>7 DEF NextGroup, Preparing
    <3>2. CASE UNCHANGED <<batches, owed>> /\ (drain' \in {Idle, drain} \/ drain'.phase = "wait")
      <4>1. ~Preparing(g)'
        BY <3>1, <3>2, IdleFields DEF Preparing
      <4> QED BY <2>2, <3>1, <3>2, <4>1
    <3>3. CASE \E h \in Groups :
                 /\ batches' = [batches EXCEPT ![h] = NoBatch]
                 /\ \/ drain' = Going /\ owed' = [owed EXCEPT ![h] = 0]
                    \/ /\ drain'.phase = "context" /\ drain'.group = h
                       /\ drain'.to = batches[h].to /\ owed' = owed
      BY <2>6, <2>7, <3>1, <3>3, NextGroupTypes
    <3> QED BY <2>7, <3>2, <3>3, NextGroupTypes
  <2>8. CASE EndWait
    <3>1. ~Preparing(g)
      BY <2>8, EndWaitTypes DEF Preparing
    <3> QED BY <2>6, <2>8, <3>1, EndWaitTypes
  <2>9. ASSUME NEW h \in Groups, Types', batches'[g] = batches[g],
               owed' = [owed EXCEPT ![h] = 0], drain' = Going, Preparing(g) => g = h
        PROVE  Goal
    <3>1. CASE g = h
      BY <2>0, <2>3, <2>9, <3>1
    <3>2. CASE g # h
      <4>1. owed'[g] = owed[g] /\ ~Preparing(g) /\ ~Preparing(g)'
        BY <2>0, <2>9, <3>2, IdleFields DEF Preparing
      <4> QED BY <2>2, <2>9, <4>1
    <3> QED BY <3>1, <3>2
  <2>10. CASE ContextReady
    <3>1. CASE drain' = Going /\ owed' = [owed EXCEPT ![drain.group] = 0]
      BY <2>9, <2>10, <3>1, ContextReadyTypes DEF Preparing
    <3>2. CASE /\ owed' = owed /\ drain'.phase = "queued" /\ drain'.group = drain.group
               /\ drain'.to = drain.to /\ drain'.stale = drain.stale
      <4>1. batches' = batches /\ drain.phase = "context"
        BY <2>10, ContextReadyTypes
      <4>2. Preparing(g)' <=> Preparing(g)
        BY <3>2, <4>1 DEF Preparing
      <4> QED BY <2>2, <3>2, <4>1, <4>2
    <3> QED BY <2>10, <3>1, <3>2, ContextReadyTypes
  <2>11. CASE StartCall
    <3>1. /\ drain.group \in Groups /\ Types'
          /\ batches' = [batches EXCEPT ![drain.group] = NoBatch]
          /\ owed' = [owed EXCEPT ![drain.group] = 0]
          /\ drain' = Going \/ drain'.phase = "asked"
      BY <2>11, StartCallRight, StartCallTypes
    <3>2. CASE g = drain.group
      BY <2>0, <2>3, <3>1, <3>2
    <3>3. CASE g # drain.group
      <4>1. batches'[g] = batches[g] /\ owed'[g] = owed[g]
        BY <2>0, <3>1, <3>3
      <4>2. ~Preparing(g) /\ ~Preparing(g)'
        BY <3>1, <3>3, IdleFields DEF Preparing
      <4> QED BY <2>2, <4>1, <4>2
    <3> QED BY <3>2, <3>3
  <2>12. CASE CallEnds
    <3>1. ~Preparing(g) /\ ~Preparing(g)'
      BY <2>12, CallEndsTypes, IdleFields DEF Preparing
    <3> QED BY <2>2, <2>12, <3>1, CallEndsTypes
  <2>13. CASE DeleteKey
    <3>1. owed'[g] = 0
      BY <2>13 DEF DeleteKey
    <3> QED BY <2>3, <2>13, <3>1, DeleteKeyTypes
  <2>14. CASE KeyRefused
    <3>1. UNCHANGED batches /\ drain' = AbortAll /\ Types'
          /\ owed' = IF drain.phase = "queued" THEN [owed EXCEPT ![drain.group] = 0] ELSE owed
      BY <2>14, KeyRefusedTypes DEF KeyRefused
    <3>2. CASE drain.phase = "queued"
      <4>1. drain.group \in Groups /\ drain' = Going
        BY <3>1, <3>2, AbortAllRight DEF Types, DrainRight, Drains
      <4> QED BY <2>9, <3>1, <3>2, <4>1 DEF Preparing
    <3>3. CASE drain.phase # "queued"
      <4>1. /\ drain'.phase = drain.phase /\ drain'.group = drain.group
            /\ drain'.to = drain.to /\ drain'.stale = drain.stale
        BY <3>1, <3>3, AbortAllRight
      <4>2. Preparing(g)' <=> Preparing(g)
        BY <4>1 DEF Preparing
      <4> QED BY <2>2, <3>1, <3>3, <4>1, <4>2
    <3> QED BY <3>2, <3>3
  <2>15. CASE Aside
    BY <2>2, <2>15, AsideTypes DEF Preparing
  <2>16. CASE Tick
    <3>1. drain' = drain /\ owed' = owed /\ batches'[g].to = batches[g].to
      BY <2>16, TickTypes DEF history
    <3> QED BY <2>2, <3>1 DEF Preparing
  <2> QED BY <1>2, <2>4, <2>5, <2>7, <2>8, <2>10, <2>11, <2>12, <2>13, <2>14, <2>15, <2>16, Steps
<1> QED BY <1>1, <1>2

\* Only a try of the call that nobody aborted sends it.
LEMMA OnlyStartCallAsks ==
  ASSUME Types, [Next]_vars, drain.phase \in {"queued", "backoff"}, drain'.phase = "asked"
  PROVE  StartCall
<1>1. drain' # drain
  OBVIOUS
<1>2. Next
  BY <1>1 DEF vars, coordinator
<1>3. ASSUME NEW g \in Groups PROVE ~Say(g)
  BY <1>1 DEF Say
<1>4. ASSUME NEW g \in Groups PROVE ~(Fire(g) \/ FireLoose(g))
  <2> SUFFICES ASSUME Fire(g) \/ FireLoose(g) PROVE FALSE
    OBVIOUS
  <2>1. drain' = drain \/ drain' = Going
    BY FireTypes, QueueBatchRight
  <2> QED BY <1>1, <2>1, IdleFields
<1>5. ~NextGroup /\ ~EndWait /\ ~ContextReady
  BY DEF NextGroup, EndWait, ContextReady
<1>6. ~CallEnds
  BY DEF CallEnds, CallAnswers, CallRetries, CallFails
<1>7. ~DeleteKey
  <2> SUFFICES ASSUME DeleteKey PROVE FALSE
    OBVIOUS
  <2> DEFINE d == AbortAll
  <2>1. d \in Drains /\ d.phase # "asked" /\ d.phase # "wait"
    BY AbortAllRight, IdleFields
  <2>2. drain' = AfterClear(d)
    BY DEF DeleteKey
  <2> HIDE DEF d
  <2>3. drain' = d
    BY <2>1, <2>2 DEF AfterClear
  <2> QED BY <2>1, <2>3
<1>8. ~KeyRefused
  BY AbortAllRight, IdleFields DEF KeyRefused
<1>9. ~Aside
  BY <1>1, AsideTypes
<1>10. ~Tick
  BY <1>1 DEF Tick
<1> QED BY <1>2, <1>3, <1>4, <1>5, <1>6, <1>7, <1>8, <1>9, <1>10, Steps

\* CallCoversOwed: messages that come while a group waits for its interval, for
\* the context or for its call join the call (#mergeLatestBatch), so that the
\* router never decides without the newest one, unless clear() came in between.
THEOREM CallsCover == Spec => CallCoversOwed
<1> DEFINE Covers == drain.phase \in {"queued", "backoff"} /\ drain'.phase = "asked" =>
                       drain.stale \/ drain'.to >= owed[drain.group]
<1>1. Types /\ OwedInv /\ [Next]_vars => [Covers]_vars
  <2> SUFFICES ASSUME Types, OwedInv, [Next]_vars,
                      drain.phase \in {"queued", "backoff"}, drain'.phase = "asked"
               PROVE  drain.stale \/ drain'.to >= owed[drain.group]
    OBVIOUS
  <2> DEFINE g == drain.group
  <2>1. StartCall
    BY OnlyStartCallAsks
  <2>2. g \in Groups /\ drain'.to = Larger(drain.to, batches[g].to)
    BY <2>1, StartCallRight, IdleFields
  <2>3. batches[g].to \in Nat /\ owed[g] \in Nat /\ drain.to \in Nat
    BY <2>2 DEF Types, BatchesRight, HistoryRight, DrainRight, Batches, Drains
  <2>4. IF drain.phase = "queued" THEN drain.stale \/ owed[g] <= Larger(drain.to, batches[g].to)
        ELSE owed[g] <= batches[g].to
    BY <2>2 DEF OwedInv, Preparing
  <2> HIDE DEF g
  <2>5. drain.stale \/ drain'.to >= owed[g]
    BY <2>2, <2>3, <2>4 DEF Larger
  <2> QED BY <2>5 DEF g
<1>2. Spec => []Types
  BY InitTypes, NextTypes, PTL DEF Spec
<1>3. Spec => []OwedInv
  BY <1>2, InitOwed, NextOwed, PTL DEF Spec
<1> QED BY <1>1, <1>2, <1>3, PTL DEF Spec, CallCoversOwed

------------------------------------------------------------------------------
(* A deleted key is not used *)

LEMMA InitKey == Init => KeyInv
<1> SUFFICES ASSUME Init PROVE KeyInv
  OBVIOUS
<1>1. drain = Idle /\ deleted = 0 /\ config.version = 1
  BY DEF Init
<1> QED BY <1>1, IdleFields DEF KeyInv

LEMMA NextKey == Types /\ KeyInv /\ [Next]_vars => KeyInv'
<1> SUFFICES ASSUME Types, KeyInv, [Next]_vars PROVE KeyInv'
  OBVIOUS
<1>0. /\ deleted \in Nat /\ config.version \in Nat /\ deleted < config.version
      /\ drain \in Drains
      /\ drain.phase \in {"queued", "asked", "backoff"} => drain.aborted \/ deleted < drain.version
  BY DEF Types, WorldType, HistoryRight, DrainRight, KeyInv
<1>1. ASSUME deleted' = deleted, config'.version >= config.version, config'.version \in Nat,
             drain' = drain \/ drain'.phase \notin {"queued", "asked", "backoff"}
      PROVE  KeyInv'
  BY <1>0, <1>1 DEF KeyInv
<1>2. ASSUME Types' PROVE config'.version \in Nat
  BY <1>2 DEF Types, WorldType
<1>3. CASE UNCHANGED vars
  BY <1>0, <1>1, <1>3 DEF vars, world, coordinator, history
<1>4. CASE Next
  <2>1. CASE \E g \in Groups : Say(g)
    BY <1>0, <1>1, <2>1 DEF Say
  <2>2. CASE \E g \in Groups : Fire(g) \/ FireLoose(g)
    <3> PICK g \in Groups : Fire(g) \/ FireLoose(g)
      BY <2>2
    <3>1. UNCHANGED <<deleted, config>>
      BY DEF Fire, FireLoose, world
    <3>2. drain' = drain \/ drain' = Going
      BY FireTypes, QueueBatchRight
    <3> QED BY <1>0, <1>1, <3>1, <3>2, IdleFields
  <2>3. CASE NextGroup
    <3>1. UNCHANGED <<deleted, config>>
      BY <2>3 DEF NextGroup, world
    <3>2. drain' \in {drain, Idle, Going} \/ drain'.phase \in {"wait", "context"}
      BY <2>3, NextGroupTypes
    <3> QED BY <1>0, <1>1, <3>1, <3>2, IdleFields
  <2>4. CASE EndWait
    <3>1. UNCHANGED <<deleted, config>>
      BY <2>4 DEF EndWait, world
    <3>2. drain' = Going \/ drain'.phase = "context"
      BY <2>4, EndWaitTypes
    <3> QED BY <1>0, <1>1, <3>1, <3>2, IdleFields
  <2>5. CASE ContextReady
    <3>1. UNCHANGED <<deleted, config>>
          /\ (drain' = Going \/ drain'.version = config.version)
      BY <2>5, ContextReadyTypes
    <3>2. CASE drain' = Going
      BY <1>0, <1>1, <3>1, <3>2, IdleFields
    <3>3. CASE drain'.version = config.version
      BY <1>0, <3>1, <3>3 DEF KeyInv
    <3> QED BY <3>1, <3>2, <3>3
  <2>6. CASE StartCall
    <3>1. UNCHANGED <<deleted, config>> /\ drain.phase \in {"queued", "backoff"}
      BY <2>6 DEF StartCall, world
    <3>2. CASE drain' = Going
      BY <1>0, <1>1, <3>1, <3>2, IdleFields
    <3>3. CASE drain'.version = drain.version /\ drain.aborted = FALSE
      BY <1>0, <3>1, <3>3 DEF KeyInv
    <3> QED BY <2>6, <3>2, <3>3, StartCallRight
  <2>7. CASE CallEnds
    <3>1. UNCHANGED <<deleted, config>> /\ drain.phase = "asked"
          /\ (drain' = Going \/ (drain'.version = drain.version /\ drain'.aborted = drain.aborted))
      BY <2>7, CallEndsTypes
    <3>2. CASE drain' = Going
      BY <1>0, <1>1, <3>1, <3>2, IdleFields
    <3>3. CASE drain'.version = drain.version /\ drain'.aborted = drain.aborted
      BY <1>0, <3>1, <3>3 DEF KeyInv
    <3> QED BY <3>1, <3>2, <3>3
  <2>8. ASSUME drain'.phase = AbortAll.phase, drain'.aborted = AbortAll.aborted,
               deleted' = config.version, config'.version = config.version + 1
        PROVE  KeyInv'
    <3>1. AbortAll.phase \in {"queued", "asked", "backoff"} => AbortAll.aborted
      <4>1. CASE drain.phase = "queued"
        BY <2>8, <4>1, AbortAllRight, IdleFields
      <4>2. CASE drain.phase # "queued"
        BY <2>8, <4>2, AbortAllRight
      <4> QED BY <4>1, <4>2
    <3>2. deleted' < config'.version
      BY <1>0, <2>8
    <3> QED BY <2>8, <3>1, <3>2 DEF KeyInv
  <2>9. CASE DeleteKey
    <3>1. deleted' = config.version /\ config'.version = config.version + 1
      BY <2>9 DEF DeleteKey
    <3> DEFINE d == AbortAll
    <3>2. d \in Drains /\ drain' = AfterClear(d)
      BY <2>9, AbortAllRight DEF DeleteKey
    <3>3. d.phase = "wait" => d.group \in Groups
      <4>1. d = Going \/ (d.phase = drain.phase /\ d.group = drain.group)
        <5>1. CASE drain.phase = "queued"
          BY <5>1, AbortAllRight
        <5>2. CASE drain.phase # "queued"
          BY <5>2, AbortAllRight
        <5> QED BY <5>1, <5>2
      <4> HIDE DEF d
      <4> QED BY <3>2, <4>1, IdleFields DEF Types, DrainRight, Drains
    <3>4. d = AbortAll
      OBVIOUS
    <3> HIDE DEF d
    <3>5. drain'.phase = d.phase /\ drain'.aborted = d.aborted
      BY <3>2, <3>3, AfterClearRight
    <3> QED BY <2>8, <3>1, <3>4, <3>5
  <2>10. CASE KeyRefused
    BY <2>8, <2>10 DEF KeyRefused
  <2>11. CASE Aside
    BY <1>1, <1>2, <2>11, AsideTypes
  <2>12. CASE Tick
    <3>1. UNCHANGED <<config, drain, deleted>>
      BY <2>12, TickTypes DEF world, history
    <3> QED BY <1>0, <1>1, <3>1
  <2> QED BY <1>4, <2>1, <2>2, <2>3, <2>4, <2>5, <2>6, <2>7, <2>9, <2>10, <2>11, <2>12, Steps
<1> QED BY <1>3, <1>4

\* DeletedKeyUnused: once a key is deleted, or refused to a call of the router or of
\* the freshness check (onInvalidKey), no call to the router begins with it, neither
\* one that was prepared before nor the next try of one that fails.  A refused
\* validation aborts nothing, but a deletion after it takes the key from the calls
\* that still wait with it.
THEOREM KeysForgotten == Spec => DeletedKeyUnused
<1> DEFINE Fresh == drain.phase \in {"queued", "backoff"} /\ drain'.phase = "asked" =>
                      drain.version > deleted
<1>1. Types /\ KeyInv /\ [Next]_vars => [Fresh]_vars
  <2> SUFFICES ASSUME Types, KeyInv, [Next]_vars,
                      drain.phase \in {"queued", "backoff"}, drain'.phase = "asked"
               PROVE  drain.version > deleted
    OBVIOUS
  <2>1. drain.aborted = FALSE
    BY OnlyStartCallAsks, StartCallRight, IdleFields
  <2>2. deleted \in Nat /\ drain.version \in Nat /\ deleted < drain.version
    BY <2>1 DEF KeyInv, Types, HistoryRight, DrainRight, Drains
  <2> QED BY <2>2
<1>2. Spec => []Types
  BY InitTypes, NextTypes, PTL DEF Spec
<1>3. Spec => []KeyInv
  BY <1>2, InitKey, NextKey, PTL DEF Spec
<1> QED BY <1>1, <1>2, <1>3, PTL DEF Spec, DeletedKeyUnused

=============================================================================
