--------------------------- MODULE ProactiveBatches ---------------------------
(***************************************************************************)
(* From a message to the router's call: ProactiveCoordinator.trigger, the  *)
(* debounced batches, the queue of groups, #drain and the part of #route   *)
(* before the router's answer (src/src/broker/proactive-coordinator.ts).   *)
(*                                                                         *)
(* One drain works for all groups and waits in it: for the interval of a   *)
(* group, for a context, in the queue of calls, for the call and between   *)
(* its tries.  Meanwhile messages arrive, timers fire and the key changes. *)
(* Time is relative and timers are punctual: time passes when no timer is  *)
(* due.  A batch that leaves #batches keeps its timer, unless it is        *)
(* cleared; such a timer is "loose".                                       *)
(***************************************************************************)
EXTENDS Integers, Sequences, FiniteSets

CONSTANTS Groups, NoGroup,
          Debounce,  \* debounceMs
          MaxWait,   \* maxWaitMs
          Interval,  \* groupIntervalMs
          Tries,     \* attempts of withProactiveRetry
          MaxSaid,   \* bound: messages of people
          MaxFaults  \* bound: changes of the key, the candidates and the groups,
                     \* failures of other calls

ASSUME ConstantsAssumption ==
  /\ {Debounce, MaxWait, Interval, Tries, MaxSaid, MaxFaults} \subseteq Nat \ {0}
  /\ Debounce <= MaxWait /\ NoGroup \notin Groups /\ IsFiniteSet(Groups)

Off == -1
NoBatch == [from |-> 0, to |-> 0, age |-> 0, timer |-> Off]
Idle == [phase |-> "idle", group |-> NoGroup, from |-> 0, to |-> 0, stale |-> FALSE,
         version |-> 0, tries |-> 0, aborted |-> FALSE]

VARIABLES
  said,      \* number of messages (groupSeq) of each group
  config,    \* key ready, its configVersion
  paused,    \* now < #pausedUntil
  existing,  \* groups in the database
  eligible,  \* groups with candidates that are not cooling down
  batches,   \* #batches; age is the time since firstAt
  loose,     \* of each group, how many loose timers fire after which time
  queue, queued,  \* #routerQueue, #queuedGroups
  drain,     \* what #drain waits for, in which group and batch
  since,     \* of each group, the time since #lastRouterStarted
  owed,      \* history: last message that a router's call has yet to see
  passed,    \* history: turns of the other groups while a group was queued
  deleted,   \* history: last version of a key that was deleted, or refused to a
             \* call of the router or of the freshness check
  faults

world == <<said, config, paused, existing, eligible>>
coordinator == <<batches, loose, queue, queued, drain, since>>
history == <<owed, passed, deleted>>
vars == <<world, coordinator, history, faults>>

NoTurns == [g \in Groups |-> 0]

Init ==
  /\ said = [g \in Groups |-> 0]
  /\ config = [ready |-> TRUE, version |-> 1] /\ paused = FALSE
  /\ existing = Groups /\ eligible = Groups
  /\ batches = [g \in Groups |-> NoBatch]
  /\ loose = [g \in Groups |-> [t \in 0..MaxWait |-> 0]]
  /\ queue = <<>> /\ queued = {} /\ drain = Idle
  /\ since = [g \in Groups |-> Interval]
  /\ owed = [g \in Groups |-> 0]
  /\ passed = [g \in Groups |-> NoTurns]
  /\ deleted = 0 /\ faults = 0

\* The messages said in all groups
AllSaid == Cardinality({x \in Groups \X (1..MaxSaid) : x[2] <= said[x[1]]})

\* Bound: each fault takes the place of a message.
MostSaid == MaxSaid - faults
Fault == faults < MaxFaults /\ faults' = faults + 1 /\ AllSaid < MostSaid
Smaller(a, b) == IF a < b THEN a ELSE b
Larger(a, b) == IF a > b THEN a ELSE b

Available == config.ready /\ ~paused

------------------------------------------------------------------------------
(* Batches *)

\* Mutant: every message postpones the batch.
DueDebounced(age) == Debounce

\* min(now + debounceMs, firstAt + maxWaitMs)
Due(age) == Larger(0, Smaller(Debounce, MaxWait - age))

\* trigger
Triggered(b, seq) ==
  [from |-> IF b = NoBatch THEN seq ELSE b.from, to |-> Larger(b.to, seq),
   age |-> b.age, timer |-> Due(b.age)]

\* A person writes a message that names no Agent.
Say(g) ==
  /\ g \in existing
  /\ AllSaid < MostSaid
  /\ said' = [said EXCEPT ![g] = @ + 1]
  /\ IF Available /\ g \in eligible
     THEN /\ batches' = [batches EXCEPT ![g] = Triggered(@, said'[g])]
          /\ owed' = [owed EXCEPT ![g] = said'[g]]
     ELSE UNCHANGED <<batches, owed>>
  /\ UNCHANGED <<config, paused, existing, eligible, loose, queue, queued, drain, since,
                 passed, deleted, faults>>

\* Mutant: the newest batch comes first.
QueuedFirst(g) == <<g>> \o queue

\* The queue with group g in it
QueuedLast(g) == Append(queue, g)

\* #queueBatch
QueueBatch(g) ==
  /\ IF g \in queued THEN UNCHANGED <<queue, queued, passed>>
     ELSE /\ queued' = queued \cup {g} /\ queue' = QueuedLast(g)
          /\ passed' = [passed EXCEPT ![g] = NoTurns]
  /\ drain' = IF drain = Idle THEN [Idle EXCEPT !.phase = "next"] ELSE drain

\* The timers l and the timer t, which nothing refers to any more
Loosened(l, t) == IF t = Off THEN l ELSE [l EXCEPT ![t] = @ + 1]

\* The timer of a batch fires.
Fire(g) ==
  /\ batches[g].timer = 0
  /\ batches' = [batches EXCEPT ![g].timer = Off]
  /\ QueueBatch(g)
  /\ UNCHANGED <<world, loose, since, owed, deleted, faults>>

\* A loose timer fires: it takes the batch that is there for its own.
FireLoose(g) ==
  /\ loose[g][0] > 0
  /\ LET rest == [loose EXCEPT ![g][0] = @ - 1]
     IN  IF batches[g] = NoBatch
         THEN loose' = rest /\ UNCHANGED <<batches, queue, queued, passed, drain>>
         ELSE /\ loose' = [rest EXCEPT ![g] = Loosened(@, batches[g].timer)]
              /\ batches' = [batches EXCEPT ![g].timer = Off]
              /\ QueueBatch(g)
  /\ UNCHANGED <<world, since, owed, deleted, faults>>

------------------------------------------------------------------------------
(* #drain and #route *)

\* The drain goes on with the next group; what the last one is owed is dropped.
Finish(g) ==
  /\ drain' = [Idle EXCEPT !.phase = "next"]
  /\ owed' = [owed EXCEPT ![g] = 0]

\* #batches.delete and the beginning of #route, for the messages from..to
StartRoute(g, from, to, stale) ==
  /\ batches' = [batches EXCEPT ![g] = NoBatch]
  /\ loose' = [loose EXCEPT ![g] = Loosened(@, batches[g].timer)]
  /\ IF Available /\ g \in existing
     THEN /\ since' = [since EXCEPT ![g] = 0]
          /\ drain' = [Idle EXCEPT !.phase = "context", !.group = g, !.from = from, !.to = to,
                                   !.stale = stale, !.version = config.version]
          /\ UNCHANGED owed
     ELSE Finish(g) /\ UNCHANGED since

\* One turn of the loop in #drain
NextGroup ==
  /\ drain.phase = "next"
  /\ IF queue = <<>> THEN drain' = Idle /\ UNCHANGED <<batches, loose, queue, queued, since, owed, passed>>
     ELSE LET g == Head(queue)
          IN  /\ queue' = Tail(queue) /\ queued' = queued \ {g}
              /\ IF batches[g] = NoBatch THEN UNCHANGED <<batches, loose, drain, since, owed, passed>>
                 ELSE /\ passed' = [h \in Groups |-> [passed[h] EXCEPT ![g] = @ + 1]]
                      /\ IF since[g] < Interval
                         THEN /\ drain' = [Idle EXCEPT !.phase = "wait", !.group = g]
                              /\ UNCHANGED <<batches, loose, since, owed>>
                         ELSE StartRoute(g, batches[g].from, batches[g].to, FALSE)
  /\ UNCHANGED <<world, deleted, faults>>

\* The interval of the group is over.  The batch is the one that was taken,
\* also when clear() removed it meanwhile.
EndWait ==
  /\ drain.phase = "wait" /\ since[drain.group] = Interval
  /\ LET g == drain.group
     IN  IF drain.stale THEN StartRoute(g, drain.from, drain.to, TRUE)
         ELSE StartRoute(g, batches[g].from, batches[g].to, FALSE)
  /\ UNCHANGED <<world, queue, queued, passed, deleted, faults>>

\* The context is there; the call is scheduled.
ContextReady ==
  /\ drain.phase = "context"
  /\ IF config.ready /\ config.version = drain.version
     THEN drain' = [drain EXCEPT !.phase = "queued"] /\ UNCHANGED owed
     ELSE Finish(drain.group)
  /\ UNCHANGED <<world, batches, loose, queue, queued, since, passed, deleted, faults>>

\* The queue without group g, which has one place in it at most
Without(g) ==
  IF \A i \in 1..Len(queue) : queue[i] # g THEN queue
  ELSE LET place == CHOOSE i \in 1..Len(queue) : queue[i] = g
       IN  SubSeq(queue, 1, place - 1) \o SubSeq(queue, place + 1, Len(queue))

\* Mutant: the call is about the batch as it was taken.
MergedTo(g) == drain.to

\* #mergeLatestBatch: the messages since the batch was taken belong to it.
LatestTo(g) == Larger(drain.to, batches[g].to)

\* Mutant: the group stays marked as queued.
Marked(g) == queued

\* #queuedGroups.delete
Unmarked(g) == queued \ {g}

\* A try of the call begins, in the scheduler or after a failed one.  A call that
\* was aborted meanwhile is not sent.
StartCall ==
  /\ drain.phase \in {"queued", "backoff"}
  /\ LET g == drain.group
     IN  /\ batches' = [batches EXCEPT ![g] = NoBatch]
         /\ IF batches[g] = NoBatch THEN UNCHANGED <<queue, queued>>
            ELSE queue' = Without(g) /\ queued' = Unmarked(g)
         /\ IF g \in eligible /\ ~drain.aborted
            THEN /\ drain' = [drain EXCEPT !.phase = "asked", !.to = LatestTo(g), !.tries = @ + 1,
                                           !.from = IF batches[g] = NoBatch THEN @
                                                    ELSE Smaller(@, batches[g].from)]
                 /\ owed' = [owed EXCEPT ![g] = 0]
            ELSE Finish(g)
  /\ UNCHANGED <<world, loose, since, passed, deleted, faults>>

\* The router answers, or the call is refused for good; ProactiveAnswers goes on
\* from here.
CallAnswers ==
  /\ drain.phase = "asked"
  /\ drain' = [Idle EXCEPT !.phase = "next"]
  /\ UNCHANGED <<world, batches, loose, queue, queued, since, history, faults>>

\* The call fails and is tried again.
CallRetries ==
  /\ drain.phase = "asked" /\ drain.tries < Tries
  /\ drain' = [drain EXCEPT !.phase = "backoff"]
  /\ UNCHANGED <<world, batches, loose, queue, queued, since, history, faults>>

\* The last try fails, or the abort is noticed: a failure with the current key
\* pauses the broker.
CallFails ==
  /\ drain.phase = "asked" /\ (drain.tries = Tries \/ drain.aborted)
  /\ drain' = [Idle EXCEPT !.phase = "next"]
  /\ paused' = (paused \/ config.version = drain.version)
  /\ UNCHANGED <<said, config, existing, eligible, batches, loose, queue, queued, since, history, faults>>

------------------------------------------------------------------------------
(* What happens meanwhile *)

\* Mutant: calls that wait are kept.
AbortRunning ==
  IF drain.phase \in {"asked", "backoff"} THEN [drain EXCEPT !.aborted = TRUE] ELSE drain

\* abortAll: a call that waits is refused, one that runs is told.
AbortAll ==
  IF drain.phase = "queued" THEN [Idle EXCEPT !.phase = "next"]
  ELSE IF drain.phase \in {"asked", "backoff"} THEN [drain EXCEPT !.aborted = TRUE]
  ELSE drain

\* The drain keeps the batch that it holds.
AfterClear(d) ==
  IF d.phase = "wait" /\ ~d.stale
  THEN [d EXCEPT !.stale = TRUE, !.from = batches[d.group].from, !.to = batches[d.group].to]
  ELSE d

\* broker.config.delete, whatever the status of the key: abortAll, clear
DeleteKey ==
  /\ Fault
  /\ config' = [ready |-> FALSE, version |-> config.version + 1] /\ deleted' = config.version
  /\ drain' = AfterClear(AbortAll)
  /\ batches' = [g \in Groups |-> NoBatch]
  /\ queue' = <<>> /\ queued' = {}
  /\ owed' = [g \in Groups |-> 0]
  /\ UNCHANGED <<said, paused, existing, eligible, loose, since, passed>>

\* A call of the router or of the freshness check is refused for its key:
\* onInvalidKey, which aborts all calls.
KeyRefused ==
  /\ Fault /\ config.ready
  /\ config' = [ready |-> FALSE, version |-> config.version + 1] /\ deleted' = config.version
  /\ drain' = AbortAll
  /\ owed' = IF drain.phase = "queued" THEN [owed EXCEPT ![drain.group] = 0] ELSE owed
  /\ UNCHANGED <<said, paused, existing, eligible, batches, loose, queue, queued, since, passed>>

\* A validation of the stored key is refused: the key is marked as invalid, and
\* calls that wait go on with it.  Calls run one at a time; the router's may begin
\* between the refusal and its handler, but it has no further try in between.
ValidationRefused ==
  /\ Fault /\ config.ready
  /\ drain.phase # "backoff" /\ drain.tries <= 1
  /\ config' = [ready |-> FALSE, version |-> config.version + 1]
  /\ UNCHANGED <<said, paused, existing, eligible, coordinator, history>>

\* A key is saved, the first one, after a deletion or in place of another.
SaveKey ==
  /\ IF config.ready THEN Fault ELSE UNCHANGED faults
  /\ config' = [ready |-> TRUE, version |-> config.version + 1]
  /\ UNCHANGED <<said, paused, existing, eligible, coordinator, history>>

\* A freshness call used up its tries.
OtherCallFails ==
  /\ Fault /\ paused' = TRUE
  /\ UNCHANGED <<said, config, existing, eligible, coordinator, history>>

PauseEnds ==
  /\ paused /\ paused' = FALSE
  /\ UNCHANGED <<said, config, existing, eligible, coordinator, history, faults>>

\* The last candidate of a group goes, or the first one comes.
CandidatesChange(g) ==
  /\ Fault /\ g \in existing
  /\ eligible' = IF g \in eligible THEN eligible \ {g} ELSE eligible \cup {g}
  /\ UNCHANGED <<said, config, paused, existing, coordinator, history>>

DeleteGroup(g) ==
  /\ Fault /\ g \in existing
  /\ existing' = existing \ {g} /\ eligible' = eligible \ {g}
  /\ UNCHANGED <<said, config, paused, coordinator, history>>

\* Time passes when nothing is due.
Tick ==
  /\ \A g \in Groups : batches[g].timer # 0 /\ loose[g][0] = 0
  /\ drain.phase = "wait" => since[drain.group] < Interval
  /\ batches' = [g \in Groups |-> IF batches[g] = NoBatch THEN NoBatch
       ELSE [batches[g] EXCEPT !.age = Smaller(MaxWait, @ + 1), !.timer = Larger(Off, @ - 1)]]
  /\ loose' = [g \in Groups |-> [t \in 0..MaxWait |-> IF t = MaxWait THEN 0 ELSE loose[g][t + 1]]]
  /\ since' = [g \in Groups |-> Smaller(Interval, since[g] + 1)]
  /\ UNCHANGED <<world, queue, queued, drain, history, faults>>

------------------------------------------------------------------------------

CallEnds == CallAnswers \/ CallRetries \/ CallFails

\* Nothing comes between the turns of the loop.
Next ==
  \/ NextGroup
  \/ /\ drain.phase # "next"
     /\ \/ \E g \in Groups : Say(g) \/ Fire(g) \/ FireLoose(g) \/ CandidatesChange(g) \/ DeleteGroup(g)
        \/ EndWait \/ ContextReady \/ StartCall \/ CallAnswers \/ CallRetries \/ CallFails
        \/ DeleteKey \/ KeyRefused \/ ValidationRefused \/ SaveKey \/ OtherCallFails \/ PauseEnds
        \/ Tick

\* Timers fire, summaries and calls end: each has a time limit.
Fairness ==
  /\ WF_vars(NextGroup) /\ WF_vars(EndWait) /\ WF_vars(ContextReady) /\ WF_vars(StartCall)
  /\ WF_vars(CallEnds) /\ WF_vars(Tick)
  /\ \A g \in Groups : WF_vars(Fire(g)) /\ WF_vars(FireLoose(g))

Spec == Init /\ [][Next]_vars /\ Fairness

------------------------------------------------------------------------------
(* Properties *)

TypeOK ==
  /\ \A g \in Groups :
       /\ said[g] \in 0..MaxSaid /\ owed[g] \in 0..said[g] /\ since[g] \in 0..Interval
       /\ batches[g].to \in batches[g].from..said[g] /\ batches[g].age \in 0..MaxWait
       /\ batches[g].timer \in Off..Debounce
       /\ loose[g] \in [0..MaxWait -> Nat]
  /\ existing \subseteq Groups /\ eligible \subseteq existing
  /\ queue \in Seq(Groups) /\ queued \subseteq Groups
  /\ drain.phase \in {"idle", "next", "wait", "context", "queued", "asked", "backoff"}
  /\ drain.tries \in 0..Tries /\ drain.from <= drain.to
  /\ drain.phase \in {"idle", "next"} <=> drain.group = NoGroup

Held(g) == drain.phase = "wait" /\ drain.group = g /\ ~drain.stale

\* A batch has a place in the queue, is held by the drain, or its timer fires
\* at most maxWaitMs after its first message, whatever other timers do.
DueInTime ==
  \A g \in Groups : batches[g] # NoBatch =>
    \/ g \in queued \/ Held(g)
    \/ batches[g].timer # Off /\ batches[g].age + batches[g].timer <= MaxWait

\* No group has two turns while another one waits in the queue.
RoundRobin == \A g \in queued, h \in Groups : passed[g][h] <= 1

\* The router is asked about all messages since the last time, also those that
\* came while the group waited, unless clear() came in between.
CallCoversOwed ==
  [][drain.phase \in {"queued", "backoff"} /\ drain'.phase = "asked" =>
       drain.stale \/ drain'.to >= owed[drain.group]]_vars

\* No call begins with a key that was deleted before, or refused to a call of the
\* router or of the freshness check; also a key that a refused validation left to
\* the calls that wait is taken from them by its deletion.
DeletedKeyUnused ==
  [][drain.phase \in {"queued", "backoff"} /\ drain'.phase = "asked" =>
       drain.version > deleted]_vars

\* Whoever writes is heard: the router sees the message, or it is dropped for a
\* reason that #route names.
TriggersEnd == \A g \in Groups : owed[g] > 0 ~> owed[g] = 0

=============================================================================
